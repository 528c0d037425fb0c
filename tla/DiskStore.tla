----------------------------- MODULE DiskStore ------------------------------
(***************************************************************************)
(* The key files of a DiskStore directory and the processes that open it.  *)
(* There is no lock: a process lists the directory, reads one file after   *)
(* the other, and, when it found no key, writes a new one under the first  *)
(* free name.  A process may stop between any two of these steps.          *)
(***************************************************************************)
EXTENDS Naturals, Sequences, SequencesExt

CONSTANTS
  Procs,
  NoFile, Partial, NoKey,
  MaxFiles,   \* bound: names tried, id_ecdsa.key, id_ecdsa_1.key, ...
  MaxKeys     \* bound: keys in existence

ASSUME StoreAssumption ==
  /\ MaxFiles \in Nat \ {0} /\ MaxKeys \in Nat
  /\ {NoFile, Partial, NoKey} \cap Nat = {} /\ NoFile # Partial

VARIABLES
  files,     \* what each file name holds; a file opened for writing is Partial
  step,      \* where each process is
  todo,      \* directory entries it has not read
  keys,      \* the keys of its store, in the order it found them
  key,       \* the key it is storing ...
  slot,      \* ... and the name it chose for it
  listed,    \* history: keys that were on disk when it listed the directory
  stored,    \* history: keys whose add_key returned Ok
  raced      \* history: keys whose name was chosen twice before it existed

procVars == <<step, todo, keys, key, slot, listed>>
storeVars == <<files, procVars, stored, raced>>

Slots == 1..MaxFiles
Keys == 1..MaxKeys
Steps == {"down", "load", "pick", "create", "write", "up"}
OnDisk == Range(files) \cap Keys

StoreTypeOK ==
  /\ files \in [Slots -> Keys \cup {NoFile, Partial}]
  /\ step \in [Procs -> Steps]
  /\ todo \in [Procs -> SUBSET Slots]
  /\ keys \in [Procs -> Seq(Keys)]
  /\ key \in [Procs -> Keys \cup {NoKey}]
  /\ slot \in [Procs -> Slots]
  /\ listed \in [Procs -> SUBSET Keys]
  /\ stored \in SUBSET Keys /\ raced \in SUBSET Keys

StoreInit ==
  /\ files = [f \in Slots |-> NoFile]
  /\ step = [p \in Procs |-> "down"]
  /\ todo = [p \in Procs |-> {}]
  /\ keys = [p \in Procs |-> <<>>]
  /\ key = [p \in Procs |-> NoKey]
  /\ slot = [p \in Procs |-> 1]
  /\ listed = [p \in Procs |-> {}]
  /\ stored = {} /\ raced = {}
----------------------------------------------------------------------------
(* with_path: the directory is there, its entries are listed. *)
Open(p) ==
  /\ step[p] = "down"
  /\ step' = [step EXCEPT ![p] = "load"]
  /\ todo' = [todo EXCEPT ![p] = {f \in Slots : files[f] # NoFile}]
  /\ listed' = [listed EXCEPT ![p] = OnDisk]
  /\ UNCHANGED <<files, keys, key, slot, stored, raced>>

(* Mutant: the first file that does not parse ends the loading. *)
LoadFileStops(p, f) ==
  /\ step[p] = "load" /\ f \in todo[p]
  /\ IF files[f] \in Keys
     THEN /\ keys' = [keys EXCEPT ![p] = Append(@, files[f])]
          /\ todo' = [todo EXCEPT ![p] = @ \ {f}]
     ELSE todo' = [todo EXCEPT ![p] = {}] /\ UNCHANGED keys
  /\ UNCHANGED <<files, step, key, slot, listed, stored, raced>>

(***************************************************************************)
(* load_keys reads the entries in the order of the directory, which is     *)
(* any, and skips what does not parse.                                     *)
(***************************************************************************)
LoadFile(p, f) ==
  /\ step[p] = "load" /\ f \in todo[p]
  /\ keys' = IF files[f] \in Keys THEN [keys EXCEPT ![p] = Append(@, files[f])] ELSE keys
  /\ todo' = [todo EXCEPT ![p] = @ \ {f}]
  /\ UNCHANGED <<files, step, key, slot, listed, stored, raced>>

(***************************************************************************)
(* generate_key: any key that nobody has.  A key lost before it was stored *)
(* may stand for a new one.                                                *)
(***************************************************************************)
NewKey(p) ==
  /\ \E k \in Keys \ (stored \cup {key[q] : q \in Procs}) :
       key' = [key EXCEPT ![p] = k] /\ raced' = raced \ {k}
  /\ slot' = [slot EXCEPT ![p] = 1]
  /\ step' = [step EXCEPT ![p] = "pick"]
  /\ UNCHANGED <<files, todo, keys, listed, stored>>

(* All entries are read: without a key, generate_key makes one. *)
Loaded(p) ==
  /\ step[p] = "load" /\ todo[p] = {}
  /\ IF keys[p] = <<>> THEN NewKey(p)
     ELSE /\ step' = [step EXCEPT ![p] = "up"]
          /\ UNCHANGED <<files, todo, keys, key, slot, listed, stored, raced>>

(* The user adds one more key. *)
AddKey(p) == step[p] = "up" /\ NewKey(p)

(* Mutant: a file that could not be read counts as free. *)
PickOverPartial(p) ==
  /\ step[p] = "pick"
  /\ IF files[slot[p]] \in {NoFile, Partial}
     THEN /\ step' = [step EXCEPT ![p] = "create"] /\ UNCHANGED slot
          /\ raced' = LET rivals == {q \in Procs \ {p} : step[q] = "create" /\ slot[q] = slot[p]}
                      IN  IF rivals = {} THEN raced
                          ELSE raced \cup {key[q] : q \in rivals \cup {p}}
     ELSE /\ slot[p] < MaxFiles
          /\ slot' = [slot EXCEPT ![p] = @ + 1]
          /\ UNCHANGED <<step, raced>>
  /\ UNCHANGED <<files, todo, keys, key, listed, stored>>

(***************************************************************************)
(* add_key: the next name, until one does not exist.                       *)
(***************************************************************************)
Pick(p) ==
  /\ step[p] = "pick"
  /\ IF files[slot[p]] = NoFile
     THEN /\ step' = [step EXCEPT ![p] = "create"] /\ UNCHANGED slot
          /\ raced' = LET rivals == {q \in Procs \ {p} : step[q] = "create" /\ slot[q] = slot[p]}
                      IN  IF rivals = {} THEN raced
                          ELSE raced \cup {key[q] : q \in rivals \cup {p}}
     ELSE /\ slot[p] < MaxFiles
          /\ slot' = [slot EXCEPT ![p] = @ + 1]
          /\ UNCHANGED <<step, raced>>
  /\ UNCHANGED <<files, todo, keys, key, listed, stored>>

(* fs::write creates or truncates the file ... *)
Create(p) ==
  /\ step[p] = "create"
  /\ files' = [files EXCEPT ![slot[p]] = Partial]
  /\ step' = [step EXCEPT ![p] = "write"]
  /\ UNCHANGED <<todo, keys, key, slot, listed, stored, raced>>

(* ... and then writes all of it; the store has its key. *)
Write(p) ==
  /\ step[p] = "write"
  /\ files' = [files EXCEPT ![slot[p]] = key[p]]
  /\ keys' = [keys EXCEPT ![p] = Append(@, key[p])]
  /\ stored' = stored \cup {key[p]}
  /\ key' = [key EXCEPT ![p] = NoKey]
  /\ step' = [step EXCEPT ![p] = "up"]
  /\ UNCHANGED <<todo, slot, listed, raced>>

(* The process ends, crashes, or stops at an I/O error. *)
Stop(p) ==
  /\ step[p] # "down"
  /\ step' = [step EXCEPT ![p] = "down"]
  /\ todo' = [todo EXCEPT ![p] = {}]
  /\ keys' = [keys EXCEPT ![p] = <<>>]
  /\ key' = [key EXCEPT ![p] = NoKey]
  /\ slot' = [slot EXCEPT ![p] = 1]
  /\ listed' = [listed EXCEPT ![p] = {}]
  /\ UNCHANGED <<files, stored, raced>>

StoreNext(p) ==
  \/ Open(p) \/ Loaded(p) \/ AddKey(p) \/ Pick(p) \/ Create(p) \/ Write(p)
  \/ \E f \in Slots : LoadFile(p, f)
----------------------------------------------------------------------------
(***************************************************************************)
(* A key that was stored stays on disk through crashes and the work of     *)
(* other processes; the one way to lose it is the race that add_key leaves *)
(* open between path.exists() and fs::write.                               *)
(***************************************************************************)
LostOnlyByRace == stored \ raced \subseteq OnDisk

(***************************************************************************)
(* "Reloading must yield the same key" (store.rs:187): a store that opened *)
(* a directory with keys in it has them all, partial files, concurrent     *)
(* writers and directory order notwithstanding; and a store that is open   *)
(* has a key, as keychain() and the identity of a client require.          *)
(***************************************************************************)
ReloadKeepsKeys ==
  \A p \in Procs : step[p] = "up" =>
    keys[p] # <<>> /\ listed[p] \ raced \subseteq Range(keys[p])
============================================================================
