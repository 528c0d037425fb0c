--------------------------- MODULE IdentityProofs ---------------------------
(***************************************************************************)
(* Key stores and ID cards for any number of processes, connections, keys  *)
(* and files: which keys survive, what an answer carries, and what a       *)
(* request with any number of records makes of a card.                     *)
(***************************************************************************)
EXTENDS Identity, SequenceTheorems, NaturalsInduction, WellFoundedInduction, TLAPS

(* The steps of a process between generate_key and the end of add_key, and *)
(* those in which it has chosen the name it will write to.                 *)
Storing(p) == step[p] \in {"pick", "create", "write"}
Targets(p, f) == step[p] \in {"create", "write"} /\ slot[p] = f

(* Nobody is about to write to file f. *)
Untargeted(f) == \A p \in Procs : ~Targets(p, f)

(* A key that is being stored belongs to one process and to no file. *)
KeysApart ==
  /\ \A p \in Procs : key[p] # NoKey <=> Storing(p)
  /\ \A p, q \in Procs : key[p] = key[q] /\ key[p] # NoKey => p = q
  /\ \A p \in Procs : key[p] \notin stored
  /\ \A f \in Slots : files[f] \in Keys => files[f] \in stored

(* Two processes that chose the same name: their keys are at risk.  A file *)
(* that was opened for writing is there, so nobody else chooses it.        *)
RivalsRaced ==
  /\ \A p \in Procs : step[p] = "write" => files[slot[p]] # NoFile
  /\ \A p, q \in Procs : \A f \in Slots :
       p # q /\ Targets(p, f) /\ Targets(q, f) => key[p] \in raced

(* A stored key that was in no race is in a file nobody will write to. *)
StoredIsSafe ==
  \A k \in stored \ raced : \E f \in Slots : files[f] = k /\ Untargeted(f)

(* A key that was on disk when a process listed the directory is in its    *)
(* store or in such a file that it has still to read.                      *)
ListedIsFound ==
  \A p \in Procs :
    /\ listed[p] \subseteq stored
    /\ \A k \in listed[p] \ raced :
         \/ k \in Range(keys[p])
         \/ \E f \in todo[p] : files[f] = k /\ Untargeted(f)
    /\ step[p] # "load" => todo[p] = {}
    /\ step[p] = "up" => keys[p] # <<>>

(* The inductive invariant of the key files. *)
StoreInv ==
  /\ StoreTypeOK
  /\ KeysApart
  /\ RivalsRaced
  /\ StoredIsSafe
  /\ ListedIsFound

(* The memberships of a card are its owner's, valid, and one to a group. *)
OwnCard(k, groups) ==
  /\ \A m \in groups : m.kind = "valid" /\ m.subject = k
  /\ \A m, o \in groups : m.group = o.group => m = o

(* Connections need a client; without one there is nothing to be answered, *)
(* and an answer is never due for a signature that is still to be made.    *)
ClientOK(p) ==
  /\ self[p] = NoKey => card[p] = {} /\ signed[p].groups = {}
  /\ self[p] # NoKey => signed[p].no >= 1
  /\ OwnCard(self[p], card[p])
  /\ \A c \in Conns :
       /\ self[p] = NoKey => link[p][c] = "off"
       /\ link[p][c] # "answering" => due[p][c] = 0
       /\ due[p][c] <= signed[p].no
       /\ ~late[p][c]
  /\ signed[p].groups # card[p] => failed[p]

ClientTyped ==
  /\ self \in [Procs -> Keys \cup {NoKey}]
  /\ card \in [Procs -> SUBSET Records]
  /\ signed \in [Procs -> [groups : SUBSET Records, no : Nat]]
  /\ failed \in [Procs -> BOOLEAN]
  /\ link \in [Procs -> [Conns -> LinkStates]]
  /\ due \in [Procs -> [Conns -> Nat]] /\ late \in [Procs -> [Conns -> BOOLEAN]]

ClientInv == ClientTyped /\ \A p \in Procs : ClientOK(p)

(* Signatures are counted: one when the client is built, one a request. *)
RequestsCounted ==
  /\ requests \in 0..MaxRequests
  /\ \A p \in Procs : signed[p].no <= requests + 1

IdentityInv == StoreInv /\ ClientInv /\ RequestsCounted
----------------------------------------------------------------------------
(***************************************************************************)
(* The key files, action by action.                                        *)
(***************************************************************************)

(* What StoreInv says, with the constants it rests on. *)
LEMMA StoreFacts ==
  ASSUME StoreInv
  PROVE  /\ StoreTypeOK /\ KeysApart /\ RivalsRaced /\ StoredIsSafe /\ ListedIsFound
         /\ NoFile \notin Keys /\ Partial \notin Keys /\ NoKey \notin Keys
         /\ Partial # NoFile /\ 1 \in Slots
BY StoreAssumption DEF StoreInv, StoreAssumption, Keys, Slots

LEMMA InRange ==
  ASSUME NEW S, NEW s \in Seq(S), NEW m
  PROVE  m \in Range(s) <=> \E i \in 1..Len(s) : s[i] = m
BY RangeEquality

(* One more key in a store. *)
LEMMA AppendRange ==
  ASSUME NEW S, NEW s \in Seq(S), NEW m \in S
  PROVE  Append(s, m) \in Seq(S) /\ Append(s, m) # <<>> /\ Range(Append(s, m)) = Range(s) \cup {m}
<1> DEFINE t == Append(s, m)
<1>1. /\ t \in Seq(S) /\ Len(t) = Len(s) + 1 /\ t[Len(s) + 1] = m
      /\ \A i \in 1..Len(s) : t[i] = s[i]
      /\ Len(s) \in Nat
  BY AppendProperties, LenProperties
<1>2. t # <<>>
  BY <1>1, EmptySeq
<1> HIDE DEF t
<1>3. \A x : x \in Range(s) <=> \E i \in 1..Len(s) : s[i] = x
  BY InRange
<1>4. \A x : x \in Range(t) <=> \E i \in 1..Len(t) : t[i] = x
  BY <1>1, InRange
<1>5. \A x : x \in Range(t) <=> x \in Range(s) \/ x = m
  BY <1>1, <1>3, <1>4
<1> QED
  BY <1>1, <1>2, <1>5 DEF t

(* The keys on disk are stored keys. *)
LEMMA DiskKeys ==
  ASSUME StoreInv
  PROVE  OnDisk \subseteq stored /\ OnDisk \subseteq Keys
<1>1. files \in [Slots -> Keys \cup {NoFile, Partial}] /\ \A f \in Slots : files[f] \in Keys => files[f] \in stored
  BY StoreFacts DEF StoreTypeOK, KeysApart
<1>2. Range(files) = {files[f] : f \in Slots}
  BY <1>1 DEF Range
<1> QED
  BY <1>1, <1>2 DEF OnDisk

LEMMA OpenStep ==
  ASSUME StoreInv, NEW p \in Procs, Open(p)
  PROVE  StoreInv'
<1> USE StoreFacts
<1>1. /\ UNCHANGED <<files, keys, key, slot, stored, raced>> /\ step[p] = "down"
      /\ step' = [step EXCEPT ![p] = "load"]
      /\ todo' = [todo EXCEPT ![p] = {f \in Slots : files[f] # NoFile}]
      /\ listed' = [listed EXCEPT ![p] = OnDisk]
  BY DEF Open
<1>2. StoreTypeOK'
  BY <1>1, DiskKeys DEF StoreTypeOK, Steps
<1>3. /\ \A q \in Procs : step'[q] = IF q = p THEN "load" ELSE step[q]
      /\ \A q \in Procs : todo'[q] = IF q = p THEN {f \in Slots : files[f] # NoFile} ELSE todo[q]
      /\ \A q \in Procs : listed'[q] = IF q = p THEN OnDisk ELSE listed[q]
  BY <1>1 DEF StoreTypeOK
<1>4. \A q \in Procs : /\ Storing(q)' <=> Storing(q)
                       /\ \A f \in Slots : Targets(q, f)' <=> Targets(q, f)
  BY <1>1, <1>3 DEF Storing, Targets
<1>5. \A f \in Slots : Untargeted(f)' <=> Untargeted(f)
  BY <1>4 DEF Untargeted
<1>6. KeysApart'
  BY <1>1, <1>4 DEF KeysApart
<1>7. RivalsRaced'
  BY <1>1, <1>3, <1>4 DEF RivalsRaced
<1>8. StoredIsSafe'
  BY <1>1, <1>5 DEF StoredIsSafe
<1>9. ListedIsFound'
  <2>1. \A k \in OnDisk \ raced : \E f \in Slots : files[f] = k /\ files[f] # NoFile /\ Untargeted(f)
    BY DiskKeys DEF StoredIsSafe
  <2>2. \A f \in Slots : files[f] # NoFile => f \in todo'[p]
    BY <1>3
  <2>3. \A k \in listed'[p] \ raced : \E f \in todo'[p] : files[f] = k /\ Untargeted(f)'
    BY <1>3, <1>5, <2>1, <2>2
  <2>4. listed'[p] \subseteq stored /\ step'[p] = "load"
    BY <1>3, DiskKeys
  <2>5. \A q \in Procs \ {p} : \A f \in todo[q] : f \in Slots
    BY DEF StoreTypeOK
  <2>6. \A q \in Procs \ {p} :
          /\ listed'[q] \subseteq stored'
          /\ \A k \in listed'[q] \ raced' :
               \/ k \in Range(keys'[q])
               \/ \E f \in todo'[q] : files'[f] = k /\ Untargeted(f)'
          /\ step'[q] # "load" => todo'[q] = {}
          /\ step'[q] = "up" => keys'[q] # <<>>
    BY <1>1, <1>3, <1>5, <2>5 DEF ListedIsFound
  <2> QED
    BY <1>1, <2>3, <2>4, <2>6 DEF ListedIsFound
<1> QED
  BY <1>2, <1>6, <1>7, <1>8, <1>9 DEF StoreInv

LEMMA LoadFileStep ==
  ASSUME StoreInv, NEW p \in Procs, NEW f \in Slots, LoadFile(p, f)
  PROVE  StoreInv'
<1> USE StoreFacts
<1>1. /\ UNCHANGED <<files, step, key, slot, listed, stored, raced>>
      /\ step[p] = "load" /\ f \in todo[p]
      /\ keys' = IF files[f] \in Keys THEN [keys EXCEPT ![p] = Append(@, files[f])] ELSE keys
      /\ todo' = [todo EXCEPT ![p] = @ \ {f}]
  BY DEF LoadFile
<1>2. /\ keys' \in [Procs -> Seq(Keys)] /\ todo' \in [Procs -> SUBSET Slots]
      /\ \A q \in Procs \ {p} : keys'[q] = keys[q] /\ todo'[q] = todo[q]
      /\ todo'[p] = todo[p] \ {f}
      /\ files[f] \notin Keys => keys'[p] = keys[p]
      /\ files[f] \in Keys => Range(keys'[p]) = Range(keys[p]) \cup {files[f]}
  <2>1. keys \in [Procs -> Seq(Keys)] /\ todo \in [Procs -> SUBSET Slots]
    BY DEF StoreTypeOK
  <2>2. CASE files[f] \in Keys
    <3>1. /\ Append(keys[p], files[f]) \in Seq(Keys)
          /\ Range(Append(keys[p], files[f])) = Range(keys[p]) \cup {files[f]}
      BY <2>1, <2>2, AppendRange
    <3> QED
      BY <1>1, <2>1, <2>2, <3>1
  <2>3. CASE files[f] \notin Keys
    BY <1>1, <2>1, <2>3
  <2> QED
    BY <2>2, <2>3
<1>3. StoreTypeOK'
  BY <1>1, <1>2 DEF StoreTypeOK
<1>4. KeysApart' /\ RivalsRaced' /\ StoredIsSafe'
  BY <1>1 DEF KeysApart, RivalsRaced, StoredIsSafe, Storing, Targets, Untargeted
<1>5. \A g \in Slots : Untargeted(g)' <=> Untargeted(g)
  BY <1>1 DEF Untargeted, Targets
<1>6. ListedIsFound'
  <2>1. ASSUME NEW k \in listed[p] \ raced
        PROVE  \/ k \in Range(keys'[p])
               \/ \E g \in todo'[p] : files[g] = k /\ Untargeted(g)'
    <3>1. CASE k \in Range(keys[p])
      BY <1>2, <3>1
    <3>2. ASSUME NEW g \in todo[p], files[g] = k, Untargeted(g)
          PROVE  \/ k \in Range(keys'[p])
                 \/ \E h \in todo'[p] : files[h] = k /\ Untargeted(h)'
      <4>1. k \in Keys /\ g \in Slots
        BY DEF StoreTypeOK
      <4>2. CASE g = f
        BY <1>2, <3>2, <4>1, <4>2
      <4>3. CASE g # f
        BY <1>2, <1>5, <3>2, <4>1, <4>3
      <4> QED
        BY <4>2, <4>3
    <3> QED
      BY <3>1, <3>2 DEF ListedIsFound
  <2>2. \A q \in Procs \ {p} : \A g \in todo[q] : g \in Slots
    BY DEF StoreTypeOK
  <2>3. \A q \in Procs \ {p} :
          /\ listed[q] \subseteq stored
          /\ \A k \in listed[q] \ raced :
               \/ k \in Range(keys'[q])
               \/ \E g \in todo'[q] : files[g] = k /\ Untargeted(g)'
          /\ step[q] # "load" => todo'[q] = {}
          /\ step[q] = "up" => keys'[q] # <<>>
    BY <1>2, <1>5, <2>2 DEF ListedIsFound
  <2>4. listed[p] \subseteq stored
    BY DEF ListedIsFound
  <2> QED
    BY <1>1, <2>1, <2>3, <2>4 DEF ListedIsFound
<1> QED
  BY <1>3, <1>4, <1>6 DEF StoreInv

(* A new key is in no file and in no race; its process has read all it     *)
(* listed.                                                                 *)
LEMMA NewKeyStep ==
  ASSUME StoreInv, NEW p \in Procs, NewKey(p), todo[p] = {}, step[p] \in {"load", "up"}
  PROVE  StoreInv'
<1> USE StoreFacts
<1>1. PICK k \in Keys :
        /\ k \notin stored /\ \A q \in Procs : key[q] # k
        /\ key' = [key EXCEPT ![p] = k] /\ raced' = raced \ {k}
  BY DEF NewKey
<1>2. /\ UNCHANGED <<files, todo, keys, listed, stored>>
      /\ slot' = [slot EXCEPT ![p] = 1] /\ step' = [step EXCEPT ![p] = "pick"]
  BY DEF NewKey
<1>3. StoreTypeOK'
  BY <1>1, <1>2 DEF StoreTypeOK, Steps
<1>4. /\ \A q \in Procs : step'[q] = IF q = p THEN "pick" ELSE step[q]
      /\ \A q \in Procs : slot'[q] = IF q = p THEN 1 ELSE slot[q]
      /\ \A q \in Procs : key'[q] = IF q = p THEN k ELSE key[q]
  BY <1>1, <1>2 DEF StoreTypeOK
<1>5. \A q \in Procs : \A f \in Slots : Targets(q, f)' <=> Targets(q, f)
  BY <1>2, <1>4 DEF Targets
<1>6. \A f \in Slots : Untargeted(f)' <=> Untargeted(f)
  BY <1>5 DEF Untargeted
<1>7. KeysApart'
  <2>1. \A q \in Procs : key'[q] # NoKey <=> Storing(q)'
    BY <1>4 DEF KeysApart, Storing
  <2>2. \A q, r \in Procs : key'[q] = key'[r] /\ key'[q] # NoKey => q = r
    BY <1>1, <1>4 DEF KeysApart
  <2>3. \A q \in Procs : key'[q] \notin stored'
    BY <1>1, <1>2, <1>4 DEF KeysApart
  <2> QED
    BY <1>2, <2>1, <2>2, <2>3 DEF KeysApart
<1>8. RivalsRaced'
  <2>1. \A q \in Procs : step'[q] = "write" => files'[slot'[q]] # NoFile
    BY <1>2, <1>4 DEF RivalsRaced
  <2>2. ASSUME NEW q \in Procs, NEW r \in Procs, NEW f \in Slots, q # r, Targets(q, f)', Targets(r, f)'
        PROVE  key'[q] \in raced'
    <3>1. q # p
      BY <1>4, <2>2 DEF Targets
    <3>2. key[q] \in raced
      BY <1>5, <2>2 DEF RivalsRaced
    <3> QED
      BY <1>1, <1>4, <3>1, <3>2
  <2> QED
    BY <2>1, <2>2 DEF RivalsRaced
<1>9. StoredIsSafe'
  BY <1>1, <1>2, <1>6 DEF StoredIsSafe
<1>10. ListedIsFound'
  <2>1. \A q \in Procs : listed[q] \ raced' \subseteq listed[q] \ raced
    BY <1>1 DEF ListedIsFound
  <2>2. \A q \in Procs : \A f \in todo[q] : f \in Slots
    BY DEF StoreTypeOK
  <2>3. \A q \in Procs : /\ step'[q] # "load" => todo[q] = {}
                         /\ step'[q] = "up" => keys[q] # <<>>
    BY <1>4 DEF ListedIsFound
  <2>4. \A q \in Procs : \A x \in listed[q] \ raced' :
               \/ x \in Range(keys[q])
               \/ \E f \in todo[q] : files[f] = x /\ Untargeted(f)'
    BY <1>6, <2>1, <2>2 DEF ListedIsFound
  <2>5. \A q \in Procs : listed[q] \subseteq stored
    BY DEF ListedIsFound
  <2> QED
    BY <1>2, <2>3, <2>4, <2>5 DEF ListedIsFound
<1> QED
  BY <1>3, <1>7, <1>8, <1>9, <1>10 DEF StoreInv

LEMMA LoadedStep ==
  ASSUME StoreInv, NEW p \in Procs, Loaded(p) \/ AddKey(p)
  PROVE  StoreInv'
<1> USE StoreFacts
<1>1. CASE NewKey(p)
  <2>1. todo[p] = {} /\ step[p] \in {"load", "up"}
    BY DEF Loaded, AddKey, ListedIsFound
  <2> QED
    BY <1>1, <2>1, NewKeyStep
<1>2. CASE ~NewKey(p)
  <2>1. /\ UNCHANGED <<files, todo, keys, key, slot, listed, stored, raced>>
        /\ step' = [step EXCEPT ![p] = "up"]
        /\ step[p] = "load" /\ todo[p] = {} /\ keys[p] # <<>>
    BY <1>2 DEF Loaded, AddKey
  <2>2. StoreTypeOK'
    BY <2>1 DEF StoreTypeOK, Steps
  <2>3. \A q \in Procs : step'[q] = IF q = p THEN "up" ELSE step[q]
    BY <2>1 DEF StoreTypeOK
  <2>4. \A q \in Procs : /\ Storing(q)' <=> Storing(q)
                         /\ \A f \in Slots : Targets(q, f)' <=> Targets(q, f)
    BY <2>1, <2>3 DEF Storing, Targets
  <2>5. \A f \in Slots : Untargeted(f)' <=> Untargeted(f)
    BY <2>4 DEF Untargeted
  <2>6. KeysApart' /\ StoredIsSafe'
    BY <2>1, <2>4, <2>5 DEF KeysApart, StoredIsSafe
  <2>7. RivalsRaced'
    BY <2>1, <2>3, <2>4 DEF RivalsRaced
  <2>8. ListedIsFound'
    <3>1. \A q \in Procs : \A f \in todo[q] : f \in Slots
      BY DEF StoreTypeOK
    <3> QED
      BY <2>1, <2>3, <2>5, <3>1 DEF ListedIsFound
  <2> QED
    BY <2>2, <2>6, <2>7, <2>8 DEF StoreInv
<1> QED
  BY <1>1, <1>2

(* Whoever chooses a name that another process has chosen puts both keys   *)
(* at risk, and no other.                                                  *)
LEMMA PickStep ==
  ASSUME StoreInv, NEW p \in Procs, Pick(p)
  PROVE  StoreInv'
<1> USE StoreFacts
<1>0. /\ step[p] = "pick" /\ UNCHANGED <<files, todo, keys, key, listed, stored>>
      /\ slot[p] \in Slots
  BY DEF Pick, StoreTypeOK
<1>1. CASE files[slot[p]] = NoFile
  <2> DEFINE rivals == {q \in Procs \ {p} : step[q] = "create" /\ slot[q] = slot[p]}
  <2>1. /\ step' = [step EXCEPT ![p] = "create"] /\ slot' = slot
        /\ raced' = IF rivals = {} THEN raced ELSE raced \cup {key[q] : q \in rivals \cup {p}}
    BY <1>1 DEF Pick
  <2>2. \A q \in Procs : step'[q] = IF q = p THEN "create" ELSE step[q]
    BY <2>1 DEF StoreTypeOK
  <2>3. raced \subseteq raced' /\ raced' \subseteq Keys
    <3>1. \A q \in rivals \cup {p} : key[q] \in Keys
      BY <1>0 DEF KeysApart, Storing, StoreTypeOK
    <3>2. raced \subseteq Keys
      BY DEF StoreTypeOK
    <3> HIDE DEF rivals
    <3>3. {key[q] : q \in rivals \cup {p}} \subseteq Keys
      BY <3>1
    <3> QED
      BY <2>1, <3>2, <3>3
  <2>4. \A q \in rivals : key[q] \in raced' /\ key[p] \in raced'
    <3> HIDE DEF rivals
    <3> QED
      BY <2>1
  <2>5. \A q \in rivals : q \in Procs /\ q # p /\ step[q] = "create" /\ slot[q] = slot[p]
    OBVIOUS
  <2>6. \A q \in Procs : q # p /\ step[q] = "create" /\ slot[q] = slot[p] => q \in rivals
    OBVIOUS
  <2> HIDE DEF rivals
  <2>7. StoreTypeOK'
    BY <1>0, <2>1, <2>3 DEF StoreTypeOK, Steps
  <2>8. KeysApart'
    <3>1. \A q \in Procs : Storing(q)' <=> Storing(q)
      BY <1>0, <2>2 DEF Storing
    <3> QED
      BY <1>0, <3>1 DEF KeysApart
  <2>9. \A q \in Procs : \A f \in Slots : Targets(q, f)' <=> Targets(q, f) \/ (q = p /\ f = slot[p])
    BY <1>0, <2>1, <2>2 DEF Targets
  <2>10. RivalsRaced'
    <3>1. \A q \in Procs : step'[q] = "write" => files'[slot'[q]] # NoFile
      BY <1>0, <2>1, <2>2 DEF RivalsRaced
    <3>2. ASSUME NEW q \in Procs, q # p, Targets(q, slot[p])
          PROVE  key[q] \in raced' /\ key[p] \in raced'
      <4>1. step[q] # "write"
        BY <1>1, <3>2 DEF RivalsRaced, Targets
      <4>2. q \in rivals
        BY <2>6, <3>2, <4>1 DEF Targets
      <4> QED
        BY <2>4, <4>2
    <3>3. ASSUME NEW q \in Procs, NEW r \in Procs, NEW f \in Slots, q # r, Targets(q, f)', Targets(r, f)'
          PROVE  key[q] \in raced'
      <4>1. CASE q = p
        <5>1. f = slot[p] \/ Targets(q, f)
          BY <2>9, <3>3, <4>1
        <5>2. ~Targets(p, f)
          BY <1>0 DEF Targets
        <5>3. r # p /\ Targets(r, slot[p])
          BY <2>9, <3>3, <4>1, <5>1, <5>2
        <5> QED
          BY <3>2, <4>1, <5>3
      <4>2. CASE r = p
        <5>1. f = slot[p] \/ Targets(r, f)
          BY <2>9, <3>3, <4>2
        <5>2. ~Targets(p, f)
          BY <1>0 DEF Targets
        <5>3. q # p /\ Targets(q, slot[p])
          BY <2>9, <3>3, <4>2, <5>1, <5>2
        <5> QED
          BY <3>2, <5>3
      <4>3. CASE q # p /\ r # p
        <5>1. Targets(q, f) /\ Targets(r, f)
          BY <2>9, <3>3, <4>3
        <5> QED
          BY <2>3, <3>3, <5>1 DEF RivalsRaced
      <4> QED
        BY <4>1, <4>2, <4>3
    <3> QED
      BY <1>0, <3>1, <3>3 DEF RivalsRaced
  <2>11. \A f \in Slots : files[f] # NoFile => (Untargeted(f)' <=> Untargeted(f))
    BY <1>1, <2>9 DEF Untargeted
  <2>12. StoredIsSafe'
    <3>1. ASSUME NEW k \in stored \ raced
          PROVE  \E f \in Slots : files[f] = k /\ Untargeted(f)'
      <4>1. PICK f \in Slots : files[f] = k /\ Untargeted(f)
        BY DEF StoredIsSafe
      <4>2. files[f] # NoFile
        BY <4>1 DEF StoreTypeOK
      <4> QED
        BY <2>11, <4>1, <4>2
    <3> QED
      BY <1>0, <2>3, <3>1 DEF StoredIsSafe
  <2>13. ListedIsFound'
    <3>1. \A q \in Procs : /\ step'[q] # "load" => todo[q] = {}
                           /\ step'[q] = "up" => keys[q] # <<>>
                           /\ listed[q] \subseteq stored
      BY <1>0, <2>2 DEF ListedIsFound
    <3>2. ASSUME NEW q \in Procs, NEW k \in listed[q] \ raced
          PROVE  \/ k \in Range(keys[q])
                 \/ \E f \in todo[q] : files[f] = k /\ Untargeted(f)'
      <4>1. k \in Keys
        BY DEF StoreTypeOK
      <4>2. \A f \in todo[q] : f \in Slots /\ (files[f] = k => files[f] # NoFile)
        BY <4>1 DEF StoreTypeOK
      <4> QED
        BY <2>11, <4>2 DEF ListedIsFound
    <3> QED
      BY <1>0, <2>3, <3>1, <3>2 DEF ListedIsFound
  <2> QED
    BY <2>7, <2>8, <2>10, <2>12, <2>13 DEF StoreInv
<1>2. CASE files[slot[p]] # NoFile
  <2>1. /\ slot[p] < MaxFiles /\ slot' = [slot EXCEPT ![p] = @ + 1]
        /\ UNCHANGED <<step, raced>>
    BY <1>2 DEF Pick
  <2>2. slot[p] + 1 \in Slots
    BY <1>0, <2>1, StoreAssumption DEF Slots, StoreAssumption
  <2>3. StoreTypeOK'
    BY <1>0, <2>1, <2>2 DEF StoreTypeOK
  <2>4. \A q \in Procs \ {p} : slot'[q] = slot[q]
    BY <2>1 DEF StoreTypeOK
  <2>5. \A q \in Procs : /\ Storing(q)' <=> Storing(q)
                         /\ \A f \in Slots : Targets(q, f)' <=> Targets(q, f)
    BY <1>0, <2>1, <2>4 DEF Storing, Targets
  <2>6. \A f \in Slots : Untargeted(f)' <=> Untargeted(f)
    BY <2>5 DEF Untargeted
  <2>7. KeysApart' /\ StoredIsSafe'
    BY <1>0, <2>1, <2>5, <2>6 DEF KeysApart, StoredIsSafe
  <2>8. RivalsRaced'
    BY <1>0, <2>1, <2>4, <2>5 DEF RivalsRaced
  <2>9. ListedIsFound'
    <3>1. \A q \in Procs : \A f \in todo[q] : f \in Slots
      BY DEF StoreTypeOK
    <3> QED
      BY <1>0, <2>1, <2>6, <3>1 DEF ListedIsFound
  <2> QED
    BY <2>3, <2>7, <2>8, <2>9 DEF StoreInv
<1> QED
  BY <1>1, <1>2

(* fs::write truncates only a file that a process has chosen. *)
LEMMA CreateStep ==
  ASSUME StoreInv, NEW p \in Procs, Create(p)
  PROVE  StoreInv'
<1> USE StoreFacts
<1> DEFINE s == slot[p]
<1>1. /\ step[p] = "create" /\ files' = [files EXCEPT ![s] = Partial]
      /\ step' = [step EXCEPT ![p] = "write"] /\ s \in Slots
      /\ UNCHANGED <<todo, keys, key, slot, listed, stored, raced>>
  BY DEF Create, StoreTypeOK
<1>2. StoreTypeOK'
  BY <1>1 DEF StoreTypeOK, Steps
<1>3. /\ \A f \in Slots : files'[f] = IF f = s THEN Partial ELSE files[f]
      /\ \A q \in Procs : step'[q] = IF q = p THEN "write" ELSE step[q]
  BY <1>1 DEF StoreTypeOK
<1>4. \A q \in Procs : /\ Storing(q)' <=> Storing(q)
                       /\ \A f \in Slots : Targets(q, f)' <=> Targets(q, f)
  BY <1>1, <1>3 DEF Storing, Targets
<1>5. Targets(p, s)
  BY <1>1 DEF Targets
<1>6. \A f \in Slots : Untargeted(f) => f # s /\ files'[f] = files[f] /\ Untargeted(f)'
  BY <1>3, <1>4, <1>5 DEF Untargeted
<1>7. KeysApart'
  BY <1>1, <1>3, <1>4 DEF KeysApart
<1>8. RivalsRaced'
  <2>1. \A q \in Procs : step'[q] = "write" => files'[slot'[q]] # NoFile
    BY <1>1, <1>3 DEF RivalsRaced, StoreTypeOK
  <2> QED
    BY <1>1, <1>4, <2>1 DEF RivalsRaced
<1>9. StoredIsSafe'
  BY <1>1, <1>6 DEF StoredIsSafe
<1>10. ListedIsFound'
  <2>1. \A q \in Procs : /\ step'[q] # "load" => todo[q] = {}
                         /\ step'[q] = "up" => keys[q] # <<>>
                         /\ listed[q] \subseteq stored
    BY <1>1, <1>3 DEF ListedIsFound
  <2>2. \A q \in Procs : \A f \in todo[q] : f \in Slots
    BY DEF StoreTypeOK
  <2>3. \A q \in Procs : \A k \in listed[q] \ raced :
          \/ k \in Range(keys[q])
          \/ \E f \in todo[q] : files'[f] = k /\ Untargeted(f)'
    BY <1>6, <2>2 DEF ListedIsFound
  <2> QED
    BY <1>1, <2>1, <2>3 DEF ListedIsFound
<1> QED
  BY <1>2, <1>7, <1>8, <1>9, <1>10 DEF StoreInv

(* The write of a key that was in no race: nobody else targets its file. *)
LEMMA WriteStep ==
  ASSUME StoreInv, NEW p \in Procs, Write(p)
  PROVE  StoreInv'
<1> USE StoreFacts
<1> DEFINE s == slot[p]
           k == key[p]
<1>1. /\ step[p] = "write" /\ files' = [files EXCEPT ![s] = k]
      /\ keys' = [keys EXCEPT ![p] = Append(@, k)] /\ stored' = stored \cup {k}
      /\ key' = [key EXCEPT ![p] = NoKey] /\ step' = [step EXCEPT ![p] = "up"]
      /\ UNCHANGED <<todo, slot, listed, raced>>
  BY DEF Write
<1>2. s \in Slots /\ k \in Keys /\ Targets(p, s)
  BY <1>1 DEF StoreTypeOK, KeysApart, Storing, Targets
<1>3. Append(keys[p], k) \in Seq(Keys) /\ Append(keys[p], k) # <<>> /\ Range(Append(keys[p], k)) = Range(keys[p]) \cup {k}
  BY <1>2, AppendRange DEF StoreTypeOK
<1> HIDE DEF k
<1>4. StoreTypeOK'
  BY <1>1, <1>2, <1>3 DEF StoreTypeOK, Steps, k
<1>5. /\ \A f \in Slots : files'[f] = IF f = s THEN k ELSE files[f]
      /\ \A q \in Procs : step'[q] = IF q = p THEN "up" ELSE step[q]
      /\ \A q \in Procs : key'[q] = IF q = p THEN NoKey ELSE key[q]
      /\ \A q \in Procs \ {p} : keys'[q] = keys[q]
      /\ keys'[p] = Append(keys[p], k)
  BY <1>1, <1>2 DEF StoreTypeOK
<1>6. \A q \in Procs : \A f \in Slots : Targets(q, f)' <=> q # p /\ Targets(q, f)
  BY <1>1, <1>5 DEF Targets
<1>7. \A f \in Slots : Untargeted(f) => f # s /\ files'[f] = files[f] /\ Untargeted(f)'
  BY <1>2, <1>5, <1>6 DEF Untargeted
<1>8. KeysApart'
  <2>1. \A q \in Procs : key'[q] # NoKey <=> Storing(q)'
    BY <1>5 DEF KeysApart, Storing
  <2>2. \A q, r \in Procs : key'[q] = key'[r] /\ key'[q] # NoKey => q = r
    BY <1>5 DEF KeysApart
  <2>3. \A q \in Procs : key'[q] \notin stored'
    <3>1. \A q \in Procs : q # p => key[q] # k
      BY <1>2 DEF KeysApart, k
    <3>2. NoKey \notin stored'
      BY <1>4 DEF StoreTypeOK
    <3> QED
      BY <1>1, <1>5, <3>1, <3>2 DEF KeysApart
  <2>4. \A f \in Slots : files'[f] \in Keys => files'[f] \in stored'
    BY <1>1, <1>5 DEF KeysApart
  <2> QED
    BY <2>1, <2>2, <2>3, <2>4 DEF KeysApart
<1>9. RivalsRaced'
  <2>1. \A q \in Procs : step'[q] = "write" => files'[slot'[q]] # NoFile
    BY <1>1, <1>2, <1>5 DEF RivalsRaced, StoreTypeOK
  <2>2. \A q, r \in Procs : \A f \in Slots :
          q # r /\ Targets(q, f)' /\ Targets(r, f)' => key'[q] \in raced'
    BY <1>1, <1>5, <1>6 DEF RivalsRaced
  <2> QED
    BY <2>1, <2>2 DEF RivalsRaced
<1>10. StoredIsSafe'
  <2>1. ASSUME k \notin raced
        PROVE  \E f \in Slots : files'[f] = k /\ Untargeted(f)'
    <3>1. PICK f \in Slots : f = s /\ Targets(p, f)
      BY <1>2
    <3>2. \A q \in Procs : q # p => ~Targets(q, f)
      BY <2>1, <3>1 DEF RivalsRaced, k
    <3>3. Untargeted(f)'
      BY <1>6, <3>2 DEF Untargeted
    <3>4. files'[f] = k
      BY <1>5, <3>1
    <3> QED
      BY <3>3, <3>4
  <2>2. \A x \in stored \ raced : \E f \in Slots : files'[f] = x /\ Untargeted(f)'
    BY <1>7 DEF StoredIsSafe
  <2> QED
    BY <1>1, <1>2, <2>1, <2>2 DEF StoredIsSafe
<1>11. ListedIsFound'
  <2>1. \A q \in Procs : /\ step'[q] # "load" => todo[q] = {}
                         /\ step'[q] = "up" => keys'[q] # <<>>
                         /\ listed[q] \subseteq stored'
    BY <1>1, <1>3, <1>5 DEF ListedIsFound
  <2>2. \A q \in Procs : \A f \in todo[q] : f \in Slots
    BY DEF StoreTypeOK
  <2>3. \A q \in Procs : Range(keys[q]) \subseteq Range(keys'[q])
    BY <1>3, <1>5
  <2>4. \A q \in Procs : \A x \in listed[q] \ raced :
          \/ x \in Range(keys'[q])
          \/ \E f \in todo[q] : files'[f] = x /\ Untargeted(f)'
    BY <1>7, <2>2, <2>3 DEF ListedIsFound
  <2> QED
    BY <1>1, <2>1, <2>4 DEF ListedIsFound
<1> QED
  BY <1>4, <1>8, <1>9, <1>10, <1>11 DEF StoreInv

(* A process that stops leaves its files as they are. *)
LEMMA StopStep ==
  ASSUME StoreInv, NEW p \in Procs, Stop(p)
  PROVE  StoreInv'
<1> USE StoreFacts
<1>1. /\ UNCHANGED <<files, stored, raced>>
      /\ step' = [step EXCEPT ![p] = "down"] /\ todo' = [todo EXCEPT ![p] = {}]
      /\ keys' = [keys EXCEPT ![p] = <<>>] /\ key' = [key EXCEPT ![p] = NoKey]
      /\ slot' = [slot EXCEPT ![p] = 1] /\ listed' = [listed EXCEPT ![p] = {}]
  BY DEF Stop
<1>2. StoreTypeOK'
  BY <1>1 DEF StoreTypeOK, Steps
<1>3. /\ step'[p] = "down" /\ todo'[p] = {} /\ key'[p] = NoKey /\ listed'[p] = {}
      /\ \A q \in Procs \ {p} : /\ step'[q] = step[q] /\ todo'[q] = todo[q] /\ keys'[q] = keys[q]
                               /\ key'[q] = key[q] /\ slot'[q] = slot[q] /\ listed'[q] = listed[q]
  BY <1>1 DEF StoreTypeOK
<1>4. \A q \in Procs : /\ Storing(q)' <=> q # p /\ Storing(q)
                       /\ \A f \in Slots : Targets(q, f)' <=> q # p /\ Targets(q, f)
  BY <1>3 DEF Storing, Targets
<1>5. \A f \in Slots : Untargeted(f) => Untargeted(f)'
  BY <1>4 DEF Untargeted
<1>6. KeysApart'
  <2>1. NoKey \notin stored
    BY DEF StoreTypeOK
  <2> QED
    BY <1>1, <1>3, <1>4, <2>1 DEF KeysApart
<1>7. RivalsRaced'
  BY <1>1, <1>3, <1>4 DEF RivalsRaced
<1>8. StoredIsSafe'
  BY <1>1, <1>5 DEF StoredIsSafe
<1>9. ListedIsFound'
  <2>1. \A q \in Procs : \A f \in todo[q] : f \in Slots
    BY DEF StoreTypeOK
  <2> QED
    BY <1>1, <1>3, <1>5, <2>1 DEF ListedIsFound
<1> QED
  BY <1>2, <1>6, <1>7, <1>8, <1>9 DEF StoreInv
----------------------------------------------------------------------------
(***************************************************************************)
(* update_groups.                                                          *)
(***************************************************************************)

(* Induction up to n, for the members of a set. *)
LEMMA UpTo ==
  ASSUME NEW n \in Nat, NEW S, 0 \in S, \A i \in 0..(n - 1) : i \in S => i + 1 \in S
  PROVE  \A i \in 0..n : i \in S
<1> DEFINE T == {i \in 0..n : i \notin S}
           R == OpToRel(<, Nat)
<1> SUFFICES ASSUME T # {}
             PROVE  FALSE
  OBVIOUS
<1>1. PICK x \in T : \A y \in T : ~(<<y, x>> \in R)
  <2>1. T # {} /\ T \subseteq Nat
    OBVIOUS
  <2>2. IsWellFoundedOn(R, Nat)
    BY NatLessThanWellFounded, Zenon
  <2> HIDE DEF T, R
  <2> QED
    BY <2>1, <2>2, WFMin
<1>2. x - 1 \in T /\ x \in Nat /\ x - 1 \in Nat
  OBVIOUS
<1>3. <<x - 1, x>> \in R
  BY <1>2 DEF OpToRel
<1> QED
  BY <1>1, <1>2, <1>3

LEMMA MaxIs ==
  ASSUME NEW S \in SUBSET Nat, NEW x \in S, \A y \in S : y <= x
  PROVE  Max(S) = x
<1>1. Max(S) \in S /\ \A y \in S : Max(S) >= y
  <2>1. \E z \in S : \A y \in S : z >= y
    OBVIOUS
  <2> QED
    BY <2>1, Zenon DEF Max
<1>2. Max(S) \in Nat /\ x \in Nat /\ Max(S) <= x /\ Max(S) >= x
  BY <1>1
<1> QED
  BY <1>2

(* The fold that defines UpdateGroups, over the sets of indices up to n. *)
Fold(f, k, groups, records, n) ==
  f = [s \in SUBSET (1..n) |->
         IF s = {} THEN [groups |-> groups, ok |-> TRUE]
         ELSE Apply(k, f[s \ {Max(s)}], records[Max(s)])]

LEMMA FoldIs ==
  ASSUME NEW k, NEW groups, NEW records \in Seq(Records)
  PROVE  UpdateGroups(k, groups, records)
           = (CHOOSE f : Fold(f, k, groups, records, Len(records)))[1..Len(records)]
<1>1. DOMAIN records = 1..Len(records)
  OBVIOUS
<1>2. UpdateGroups(k, groups, records)
        = (CHOOSE f : f = [s \in SUBSET (DOMAIN records) |->
                             IF s = {} THEN [groups |-> groups, ok |-> TRUE]
                             ELSE Apply(k, f[s \ {Max(s)}], records[Max(s)])])[DOMAIN records]
  BY DEF UpdateGroups, FoldLeft, MapThenFoldSet
<1> QED
  BY <1>1, <1>2 DEF Fold

(* There is such a fold: each is made from the one before. *)
LEMMA FoldExists ==
  ASSUME NEW k, NEW groups, NEW records, NEW n \in Nat
  PROVE  \E f : Fold(f, k, groups, records, n)
<1> DEFINE new == [groups |-> groups, ok |-> TRUE]
           S == {i \in 0..n : \E f : Fold(f, k, groups, records, i)}
<1>1. 0 \in S
  <2> DEFINE f == [s \in SUBSET (1..0) |-> new]
  <2>1. \A s \in SUBSET (1..0) : s = {}
    OBVIOUS
  <2>2. f = [s \in SUBSET (1..0) |-> IF s = {} THEN new ELSE Apply(k, f[s \ {Max(s)}], records[Max(s)])]
    BY <2>1
  <2>3. Fold(f, k, groups, records, 0)
    BY <2>2 DEF Fold
  <2> QED
    BY <2>3
<1>2. ASSUME NEW i \in 0..(n - 1), i \in S
      PROVE  i + 1 \in S
  <2>1. PICK f : Fold(f, k, groups, records, i)
    BY <1>2
  <2>2. /\ DOMAIN f = SUBSET (1..i)
        /\ \A s \in SUBSET (1..i) :
             f[s] = IF s = {} THEN new ELSE Apply(k, f[s \ {Max(s)}], records[Max(s)])
    BY <2>1 DEF Fold
  <2> DEFINE e == [s \in SUBSET (1..(i + 1)) |->
                     IF i + 1 \in s THEN Apply(k, f[s \ {i + 1}], records[i + 1]) ELSE f[s]]
  <2>3. \A s \in SUBSET (1..i) : s \in SUBSET (1..(i + 1)) /\ i + 1 \notin s
    OBVIOUS
  <2>4. \A s \in SUBSET (1..i) : e[s] = f[s]
    BY <2>3
  <2>5. ASSUME NEW s \in SUBSET (1..(i + 1))
        PROVE  e[s] = IF s = {} THEN new ELSE Apply(k, e[s \ {Max(s)}], records[Max(s)])
    <3>1. CASE i + 1 \in s
      <4>1. Max(s) = i + 1
        BY <3>1, MaxIs
      <4>2. s \ {i + 1} \in SUBSET (1..i)
        OBVIOUS
      <4>3. e[s] = Apply(k, f[s \ {i + 1}], records[i + 1])
        BY <3>1
      <4> HIDE DEF e
      <4> QED
        BY <2>4, <3>1, <4>1, <4>2, <4>3
    <3>2. CASE i + 1 \notin s
      <4>1. s \in SUBSET (1..i)
        <5>1. \A j \in s : j \in 1..(i + 1) /\ j # i + 1
          BY <3>2
        <5> QED
          BY <5>1
      <4>2. s \ {Max(s)} \in SUBSET (1..i)
        BY <4>1
      <4> HIDE DEF e
      <4> QED
        BY <2>2, <2>4, <4>1, <4>2
    <3> QED
      BY <3>1, <3>2
  <2>6. e = [s \in SUBSET (1..(i + 1)) |->
               IF s = {} THEN new ELSE Apply(k, e[s \ {Max(s)}], records[Max(s)])]
    <3>1. e = [s \in SUBSET (1..(i + 1)) |-> e[s]]
      OBVIOUS
    <3> HIDE DEF e, new
    <3> QED
      BY <2>5, <3>1, Zenon
  <2>7. Fold(e, k, groups, records, i + 1)
    BY <2>6 DEF Fold
  <2> QED
    BY <2>7
<1> HIDE DEF S
<1>3. n \in S
  BY <1>1, <1>2, UpTo
<1> QED
  BY <1>3 DEF S

(* UpdateGroups applies the records in their order. *)
LEMMA UpdateSteps ==
  ASSUME NEW k, NEW groups, NEW records \in Seq(Records)
  PROVE  \E st :
           /\ st[0] = [groups |-> groups, ok |-> TRUE]
           /\ \A i \in 1..Len(records) : st[i] = Apply(k, st[i - 1], records[i])
           /\ UpdateGroups(k, groups, records) = st[Len(records)]
<1> DEFINE n == Len(records)
           new == [groups |-> groups, ok |-> TRUE]
           f == CHOOSE h : Fold(h, k, groups, records, n)
           st == [i \in 0..n |-> f[1..i]]
<1>0. n \in Nat
  OBVIOUS
<1>1. Fold(f, k, groups, records, n)
  BY <1>0, FoldExists
<1>2. UpdateGroups(k, groups, records) = f[1..n]
  BY FoldIs
<1> HIDE DEF f
<1>3. \A s \in SUBSET (1..n) :
        f[s] = IF s = {} THEN new ELSE Apply(k, f[s \ {Max(s)}], records[Max(s)])
  BY <1>1 DEF Fold
<1>4. st[0] = new
  <2>1. 1..0 = {} /\ 1..0 \in SUBSET (1..n) /\ st[0] = f[1..0]
    BY <1>0
  <2> QED
    BY <1>3, <2>1
<1>5. ASSUME NEW i \in 1..n
      PROVE  st[i] = Apply(k, st[i - 1], records[i])
  <2>1. /\ 1..i \in SUBSET (1..n) /\ 1..i # {} /\ (1..i) \ {i} = 1..(i - 1)
        /\ st[i] = f[1..i] /\ st[i - 1] = f[1..(i - 1)]
    BY <1>0
  <2>2. Max(1..i) = i
    BY MaxIs
  <2> QED
    BY <1>3, <2>1, <2>2
<1>6. UpdateGroups(k, groups, records) = st[n]
  BY <1>0, <1>2
<1> QED
  BY <1>4, <1>5, <1>6

(* A card in the middle of update_groups. *)
States == [groups : SUBSET Records, ok : BOOLEAN]

(* What a card says about a group. *)
About(groups, g) == {m \in groups : m.group = g}

(* One record replaces what the card says of its group, and nothing else. *)
Replaces(k, st, r, new) ==
  /\ new \in States
  /\ new.ok <=> st.ok /\ ~Rejected(k, r)
  /\ OwnCard(k, st.groups) => OwnCard(k, new.groups)
  /\ \A g : About(new.groups, g)
              = IF new.ok /\ r.subject = k /\ r.group = g
                THEN Stated(r)
                ELSE About(st.groups, g)

LEMMA ApplyFacts ==
  ASSUME NEW k, NEW st \in States, NEW r \in Records, NEW new, new = Apply(k, st, r)
  PROVE  Replaces(k, st, r, new)
<1> DEFINE kept == {m \in st.groups : m.group # r.group}
<1>0. Stated(r) \in SUBSET Records
      /\ \A m \in Stated(r) : m = r /\ m.kind = "valid"
  BY DEF Stated
<1>1. st.groups \subseteq Records /\ st.ok \in BOOLEAN /\ st = [groups |-> st.groups, ok |-> st.ok]
  BY DEF States
<1>2. CASE ~st.ok
  BY <1>1, <1>2 DEF Apply, Replaces
<1>3. CASE st.ok /\ Rejected(k, r)
  <2>1. new = [groups |-> st.groups, ok |-> FALSE]
    BY <1>1, <1>3 DEF Apply
  <2>2. new \in States /\ new.groups = st.groups /\ ~new.ok
    BY <1>1, <2>1 DEF States
  <2> QED
    BY <1>3, <2>2 DEF Replaces
<1>4. CASE st.ok /\ ~Rejected(k, r) /\ r.subject # k
  BY <1>1, <1>4 DEF Apply, Replaces
<1>5. CASE st.ok /\ ~Rejected(k, r) /\ r.subject = k
  <2>1. new = [groups |-> kept \cup Stated(r), ok |-> st.ok]
    BY <1>1, <1>5 DEF Apply
  <2>2. new \in States /\ new.groups = kept \cup Stated(r) /\ new.ok
    BY <1>0, <1>1, <1>5, <2>1 DEF States
  <2>3. ASSUME OwnCard(k, st.groups)
        PROVE  OwnCard(k, new.groups)
    BY <1>0, <1>5, <2>2, <2>3 DEF OwnCard
  <2>4. ASSUME NEW g
        PROVE  About(new.groups, g) = IF r.group = g THEN Stated(r) ELSE About(st.groups, g)
    BY <1>0, <2>2 DEF About
  <2> QED
    BY <1>5, <2>2, <2>3, <2>4 DEF Replaces
<1> QED
  BY <1>2, <1>3, <1>4, <1>5

(* A whole request does what the last record about a group says. *)
LEMMA UpdateFacts ==
  ASSUME NEW k, NEW groups \in SUBSET Records, NEW records \in Seq(Records),
         NEW new, new = UpdateGroups(k, groups, records)
  PROVE  /\ new \in States
         /\ OwnCard(k, groups) => OwnCard(k, new.groups)
         /\ \A g : About(new.groups, g) = Expected(k, groups, records, g)
<1> DEFINE n == Len(records)
           Before(i, g) == {j \in Reached(k, records, g) : j <= i}
           Said(i, g) == IF Before(i, g) = {} THEN About(groups, g)
                         ELSE Stated(records[Max(Before(i, g))])
<1>0. n \in Nat /\ DOMAIN records = 1..n /\ \A i \in 1..n : records[i] \in Records
  BY ElementOfSeq
<1>1. PICK st : /\ st[0] = [groups |-> groups, ok |-> TRUE]
                /\ \A i \in 1..n : st[i] = Apply(k, st[i - 1], records[i])
                /\ UpdateGroups(k, groups, records) = st[n]
  BY UpdateSteps
<1> DEFINE S == {i \in 0..n :
                   /\ st[i] \in States
                   /\ st[i].ok <=> \A j \in 1..i : ~Rejected(k, records[j])
                   /\ OwnCard(k, groups) => OwnCard(k, st[i].groups)
                   /\ \A g : About(st[i].groups, g) = Said(i, g)}
<1>2. 0 \in S
  <2>1. st[0] \in States /\ st[0].ok /\ st[0].groups = groups
    BY <1>1 DEF States
  <2>2. \A g : Before(0, g) = {}
    BY <1>0 DEF Reached
  <2>3. \A g : Said(0, g) = About(st[0].groups, g)
    BY <2>1, <2>2
  <2>4. 0 \in 0..n /\ 1..0 = {}
    BY <1>0
  <2> HIDE DEF Said
  <2> QED
    BY <2>1, <2>3, <2>4
<1>3. ASSUME NEW i \in 0..(n - 1), i \in S
      PROVE  i + 1 \in S
  <2> DEFINE r == records[i + 1]
             next == st[i + 1]
  <2>1. /\ r \in Records /\ i + 1 \in 1..n /\ next = Apply(k, st[i], r) /\ st[i] \in States
        /\ st[i].ok <=> \A j \in 1..i : ~Rejected(k, records[j])
        /\ OwnCard(k, groups) => OwnCard(k, st[i].groups)
        /\ \A g : About(st[i].groups, g) = Said(i, g)
    <3> HIDE DEF Said
    <3>1. i + 1 \in 1..n /\ (i + 1) - 1 = i
      BY <1>0
    <3>2. next = Apply(k, st[i], r) /\ r \in Records
      BY <1>0, <1>1, <3>1
    <3>3. /\ st[i] \in States
          /\ st[i].ok <=> \A j \in 1..i : ~Rejected(k, records[j])
          /\ OwnCard(k, groups) => OwnCard(k, st[i].groups)
          /\ \A g : About(st[i].groups, g) = Said(i, g)
      BY <1>3, Zenon
    <3> HIDE DEF S, next
    <3> QED
      BY <3>1, <3>2, <3>3
  <2> HIDE DEF next, Said
  <2>2. /\ next \in States
        /\ next.ok <=> st[i].ok /\ ~Rejected(k, r)
        /\ OwnCard(k, st[i].groups) => OwnCard(k, next.groups)
        /\ \A g : About(next.groups, g)
                    = IF next.ok /\ r.subject = k /\ r.group = g
                      THEN Stated(r) ELSE About(st[i].groups, g)
    <3> HIDE DEF r, S
    <3>1. r \in Records /\ next = Apply(k, st[i], r) /\ st[i] \in States
      BY <2>1
    <3>2. Replaces(k, st[i], r, next)
      BY <3>1, ApplyFacts
    <3> QED
      BY <3>2 DEF Replaces
  <2>3. next.ok <=> \A j \in 1..(i + 1) : ~Rejected(k, records[j])
    BY <2>1, <2>2
  <2>4. ASSUME NEW g
        PROVE  About(next.groups, g) = Said(i + 1, g)
    <3>1. i + 1 \in Reached(k, records, g) <=> next.ok /\ r.subject = k /\ r.group = g
      BY <1>0, <2>1, <2>3 DEF Reached
    <3>2. Reached(k, records, g) \subseteq 1..n
      BY <1>0 DEF Reached
    <3>3. CASE i + 1 \in Reached(k, records, g)
      <4>1. /\ Before(i + 1, g) \in SUBSET Nat /\ i + 1 \in Before(i + 1, g)
            /\ \A j \in Before(i + 1, g) : j <= i + 1
        BY <3>2, <3>3
      <4>2. Max(Before(i + 1, g)) = i + 1 /\ Before(i + 1, g) # {}
        BY <4>1, MaxIs
      <4> QED
        BY <2>2, <3>1, <3>3, <4>2 DEF Said
    <3>4. CASE i + 1 \notin Reached(k, records, g)
      <4>1. Before(i + 1, g) = Before(i, g)
        BY <3>2, <3>4
      <4> QED
        BY <2>1, <2>2, <3>1, <3>4, <4>1 DEF Said
    <3> QED
      BY <3>3, <3>4
  <2>5. i + 1 \in 0..n
    BY <1>0
  <2>6. /\ next \in States
        /\ next.ok <=> \A j \in 1..(i + 1) : ~Rejected(k, records[j])
        /\ OwnCard(k, groups) => OwnCard(k, next.groups)
        /\ \A g : About(next.groups, g) = Said(i + 1, g)
    <3> HIDE DEF r, S
    <3> QED
      BY <2>1, <2>2, <2>3, <2>4
  <2> QED
    BY <2>5, <2>6, Zenon DEF next
<1>4. n \in S
  <2> HIDE DEF S, n
  <2> QED
    BY <1>0, <1>2, <1>3, UpTo
<1>5. \A g : Before(n, g) = Reached(k, records, g)
  BY <1>0 DEF Reached
<1>6. \A g : Said(n, g) = Expected(k, groups, records, g)
  BY <1>5 DEF Expected, About
<1> QED
  BY <1>1, <1>4, <1>6
----------------------------------------------------------------------------
(***************************************************************************)
(* The clients.                                                            *)
(***************************************************************************)

(* A step that leaves the clients of the other processes alone. *)
LEMMA OneClient ==
  ASSUME ClientInv, NEW p \in Procs, ClientTyped', ClientOK(p)',
         \A q \in Procs \ {p} :
           /\ self'[q] = self[q] /\ card'[q] = card[q] /\ signed'[q] = signed[q]
           /\ failed'[q] = failed[q] /\ link'[q] = link[q] /\ due'[q] = due[q] /\ late'[q] = late[q]
  PROVE  ClientInv'
<1>1. \A q \in Procs \ {p} : ClientOK(q)'
  BY DEF ClientInv, ClientOK
<1>2. (\A q \in Procs : ClientOK(q))'
  BY <1>1
<1> QED
  BY <1>2 DEF ClientInv, ClientTyped, ClientOK

LEMMA BuildStep ==
  ASSUME StoreInv, ClientInv, NEW p \in Procs, BuildClient(p)
  PROVE  ClientInv'
<1>0. ClientTyped /\ ClientOK(p)
  BY DEF ClientInv
<1>1. /\ self[p] = NoKey /\ self' = [self EXCEPT ![p] = Head(keys[p])]
      /\ signed' = [signed EXCEPT ![p] = [groups |-> {}, no |-> 1]]
      /\ UNCHANGED <<card, failed, link, due, late>>
  BY DEF BuildClient
<1>2. Head(keys[p]) \in Keys
  <2>1. keys[p] \in Seq(Keys) /\ keys[p] # <<>>
    BY StoreFacts DEF BuildClient, StoreTypeOK, ListedIsFound
  <2> QED
    BY <2>1, HeadTailProperties
<1>3. ClientTyped'
  BY <1>0, <1>1, <1>2 DEF ClientTyped
<1>4. self'[p] # NoKey /\ signed'[p] = [groups |-> {}, no |-> 1]
  BY <1>0, <1>1, <1>2, StoreFacts DEF ClientTyped
<1>5. \A c \in Conns : due[p][c] = 0
  BY <1>0, <1>1 DEF ClientOK
<1>6. ClientOK(p)'
  <2>1. card'[p] = {} /\ OwnCard(self'[p], card'[p])
    BY <1>0, <1>1 DEF ClientOK, OwnCard
  <2> QED
    BY <1>0, <1>1, <1>4, <1>5, <2>1 DEF ClientOK
<1>7. \A q \in Procs \ {p} : self'[q] = self[q] /\ signed'[q] = signed[q]
  BY <1>0, <1>1 DEF ClientTyped
<1> QED
  BY <1>1, <1>3, <1>6, <1>7, OneClient

(* An update at one connection of one client. *)
LEMMA NestedExcept ==
  ASSUME NEW V, NEW f \in [Procs -> [Conns -> V]], NEW p \in Procs, NEW c \in Conns, NEW v \in V
  PROVE  /\ [f EXCEPT ![p][c] = v] \in [Procs -> [Conns -> V]]
         /\ \A q \in Procs \ {p} : [f EXCEPT ![p][c] = v][q] = f[q]
         /\ \A e \in Conns : [f EXCEPT ![p][c] = v][p][e] = IF e = c THEN v ELSE f[p][e]
<1> DEFINE g == [f[p] EXCEPT ![c] = v]
<1>1. g \in [Conns -> V] /\ \A e \in Conns : g[e] = IF e = c THEN v ELSE f[p][e]
  OBVIOUS
<1>2. [f EXCEPT ![p][c] = v] = [f EXCEPT ![p] = g]
  OBVIOUS
<1> HIDE DEF g
<1>3. /\ [f EXCEPT ![p] = g] \in [Procs -> [Conns -> V]]
      /\ [f EXCEPT ![p] = g][p] = g
      /\ \A q \in Procs \ {p} : [f EXCEPT ![p] = g][q] = f[q]
  BY <1>1
<1> QED
  BY <1>1, <1>2, <1>3

(* A step of one connection: it changes where its thread is and what is    *)
(* due to it.                                                              *)
LEMMA LinkStep ==
  ASSUME ClientInv, NEW p \in Procs, NEW c \in Conns, NEW l \in LinkStates, NEW d \in Nat,
         UNCHANGED <<self, card, signed, failed>>,
         link' = [link EXCEPT ![p][c] = l], due' = [due EXCEPT ![p][c] = d],
         \/ late' = late
         \/ late' = [late EXCEPT ![p][c] = FALSE],
         l # "off" => self[p] # NoKey, l # "answering" => d = 0, d <= signed[p].no
  PROVE  ClientInv'
<1>0. ClientTyped /\ ClientOK(p)
  BY DEF ClientInv
<1>1. /\ link' \in [Procs -> [Conns -> LinkStates]]
      /\ \A q \in Procs \ {p} : link'[q] = link[q]
      /\ \A e \in Conns : link'[p][e] = IF e = c THEN l ELSE link[p][e]
  BY <1>0, NestedExcept DEF ClientTyped
<1>2. /\ due' \in [Procs -> [Conns -> Nat]]
      /\ \A q \in Procs \ {p} : due'[q] = due[q]
      /\ \A e \in Conns : due'[p][e] = IF e = c THEN d ELSE due[p][e]
  BY <1>0, NestedExcept DEF ClientTyped
<1>3. /\ late' \in [Procs -> [Conns -> BOOLEAN]]
      /\ \A q \in Procs \ {p} : late'[q] = late[q]
      /\ \A e \in Conns : ~late'[p][e]
  <2>1. \A e \in Conns : ~late[p][e]
    BY <1>0 DEF ClientOK
  <2>2. CASE late' = late
    BY <1>0, <2>1, <2>2 DEF ClientTyped
  <2>3. CASE late' = [late EXCEPT ![p][c] = FALSE]
    <3>1. /\ late' \in [Procs -> [Conns -> BOOLEAN]]
          /\ \A q \in Procs \ {p} : late'[q] = late[q]
          /\ \A e \in Conns : late'[p][e] = IF e = c THEN FALSE ELSE late[p][e]
      <4> DEFINE B == BOOLEAN
                 F == FALSE
      <4>1. late \in [Procs -> [Conns -> B]] /\ F \in B /\ late' = [late EXCEPT ![p][c] = F]
        BY <1>0, <2>3 DEF ClientTyped
      <4> HIDE DEF B, F
      <4>2. /\ late' \in [Procs -> [Conns -> B]]
            /\ \A q \in Procs \ {p} : late'[q] = late[q]
            /\ \A e \in Conns : late'[p][e] = IF e = c THEN F ELSE late[p][e]
        BY <4>1, NestedExcept
      <4> QED
        BY <4>2 DEF B, F
    <3> QED
      BY <2>1, <3>1
  <2> QED
    BY <2>2, <2>3
<1>4. ClientTyped'
  BY <1>0, <1>1, <1>2, <1>3 DEF ClientTyped
<1>5. ClientOK(p)'
  BY <1>0, <1>1, <1>2, <1>3 DEF ClientOK
<1> QED
  BY <1>1, <1>2, <1>3, <1>4, <1>5, OneClient

(* A request with records makes one more signature, or fails. *)
LEMMA HandleStep ==
  ASSUME ClientInv, NEW p \in Procs, NEW c \in Conns, NEW records \in Requests,
         HandleGroups(p, c, records)
  PROVE  ClientInv'
<1>0. ClientTyped /\ ClientOK(p)
  BY DEF ClientInv
<1> DEFINE st == UpdateGroups(self[p], card[p], records)
           no == signed[p].no + 1
<1>1. /\ link[p][c] = "reading" /\ self' = self /\ late' = late
      /\ link' = [link EXCEPT ![p][c] = "answering"]
      /\ card' = [card EXCEPT ![p] = st.groups]
      /\ failed' = [failed EXCEPT ![p] = ~st.ok]
      /\ IF st.ok THEN /\ signed' = [signed EXCEPT ![p] = [groups |-> st.groups, no |-> no]]
                       /\ due' = [due EXCEPT ![p][c] = no]
         ELSE UNCHANGED <<signed, due>>
  BY DEF HandleGroups
<1> HIDE DEF st
<1>2. signed[p].no \in Nat /\ no \in Nat /\ self[p] # NoKey
  BY <1>0, <1>1 DEF ClientOK, ClientTyped
<1>3. st.groups \in SUBSET Records /\ OwnCard(self'[p], st.groups)
  <2>1. records \in Seq(Records) /\ card[p] \in SUBSET Records /\ OwnCard(self[p], card[p])
    BY <1>0, RequestAssumption DEF ClientTyped, ClientOK
  <2>2. st \in States /\ OwnCard(self[p], st.groups)
    BY <2>1, UpdateFacts DEF st
  <2> QED
    BY <1>1, <2>2 DEF States
<1>4. /\ card'[p] = st.groups /\ card' \in [Procs -> SUBSET Records]
      /\ failed' \in [Procs -> BOOLEAN] /\ failed'[p] = ~st.ok
      /\ link' \in [Procs -> [Conns -> LinkStates]]
      /\ \A q \in Procs \ {p} : card'[q] = card[q] /\ failed'[q] = failed[q] /\ link'[q] = link[q]
      /\ \A e \in Conns : link'[p][e] = IF e = c THEN "answering" ELSE link[p][e]
  <2>1. "answering" \in LinkStates
    BY DEF LinkStates
  <2>2. /\ link' \in [Procs -> [Conns -> LinkStates]]
        /\ \A q \in Procs \ {p} : link'[q] = link[q]
        /\ \A e \in Conns : link'[p][e] = IF e = c THEN "answering" ELSE link[p][e]
    BY <1>0, <1>1, <2>1, NestedExcept DEF ClientTyped
  <2> QED
    BY <1>0, <1>1, <1>3, <2>2 DEF ClientTyped
<1>5. CASE st.ok
  <2>1. /\ signed'[p] = [groups |-> st.groups, no |-> no]
        /\ signed' \in [Procs -> [groups : SUBSET Records, no : Nat]]
        /\ due' \in [Procs -> [Conns -> Nat]]
        /\ \A q \in Procs \ {p} : signed'[q] = signed[q] /\ due'[q] = due[q]
        /\ \A e \in Conns : due'[p][e] = IF e = c THEN no ELSE due[p][e]
    <3>1. /\ due' \in [Procs -> [Conns -> Nat]]
          /\ \A q \in Procs \ {p} : due'[q] = due[q]
          /\ \A e \in Conns : due'[p][e] = IF e = c THEN no ELSE due[p][e]
      <4>1. due \in [Procs -> [Conns -> Nat]] /\ due' = [due EXCEPT ![p][c] = no]
        BY <1>0, <1>1, <1>5 DEF ClientTyped
      <4> HIDE DEF no
      <4> QED
        BY <1>2, <4>1, NestedExcept
    <3>2. /\ signed'[p] = [groups |-> st.groups, no |-> no]
          /\ signed' \in [Procs -> [groups : SUBSET Records, no : Nat]]
          /\ \A q \in Procs \ {p} : signed'[q] = signed[q]
      <4> DEFINE new == [groups |-> st.groups, no |-> no]
      <4>1. new \in [groups : SUBSET Records, no : Nat]
        BY <1>2, <1>3
      <4>2. signed' = [signed EXCEPT ![p] = new]
        BY <1>1, <1>5
      <4> HIDE DEF new
      <4>3. signed'[p] = new /\ signed' \in [Procs -> [groups : SUBSET Records, no : Nat]]
            /\ \A q \in Procs \ {p} : signed'[q] = signed[q]
        BY <1>0, <4>1, <4>2 DEF ClientTyped
      <4> QED
        BY <4>3 DEF new
    <3> QED
      BY <3>1, <3>2
  <2>2. \A e \in Conns : due'[p][e] <= signed'[p].no
    <3>1. \A e \in Conns : due[p][e] \in Nat /\ due[p][e] <= signed[p].no
      BY <1>0 DEF ClientOK, ClientTyped
    <3>2. signed'[p].no = signed[p].no + 1
      BY <2>1
    <3> QED
      BY <1>2, <2>1, <3>1, <3>2
  <2>3. ClientOK(p)'
    BY <1>0, <1>1, <1>2, <1>3, <1>4, <2>1, <2>2 DEF ClientOK
  <2>4. ClientTyped'
    BY <1>0, <1>1, <1>4, <2>1 DEF ClientTyped
  <2> QED
    BY <1>1, <1>4, <2>1, <2>3, <2>4, OneClient
<1>6. CASE ~st.ok
  <2>1. UNCHANGED <<signed, due>> /\ failed'[p]
    BY <1>1, <1>4, <1>6
  <2>2. due[p][c] = 0
    BY <1>0, <1>1 DEF ClientOK
  <2>3. ClientOK(p)'
    BY <1>0, <1>1, <1>2, <1>3, <1>4, <2>1, <2>2 DEF ClientOK
  <2>4. ClientTyped'
    BY <1>0, <1>1, <1>4, <2>1 DEF ClientTyped
  <2> QED
    BY <1>1, <1>4, <2>1, <2>3, <2>4, OneClient
<1> QED
  BY <1>5, <1>6

(* A process that stops has no client. *)
LEMMA NoClientStep ==
  ASSUME ClientInv, NEW p \in Procs, NoClient(p)
  PROVE  ClientInv'
<1>0. ClientTyped
  BY DEF ClientInv
<1>1. ClientTyped'
  BY <1>0 DEF ClientTyped, NoClient, LinkStates
<1>2. /\ self'[p] = NoKey /\ card'[p] = {} /\ signed'[p] = [groups |-> {}, no |-> 0]
      /\ \A c \in Conns : link'[p][c] = "off" /\ due'[p][c] = 0 /\ late'[p][c] = FALSE
      /\ \A q \in Procs \ {p} :
           /\ self'[q] = self[q] /\ card'[q] = card[q] /\ signed'[q] = signed[q]
           /\ failed'[q] = failed[q] /\ link'[q] = link[q] /\ due'[q] = due[q] /\ late'[q] = late[q]
  BY <1>0 DEF ClientTyped, NoClient
<1>3. ClientOK(p)'
  BY <1>2 DEF ClientOK, OwnCard
<1> QED
  BY <1>1, <1>2, <1>3, OneClient

LEMMA ClientSteps ==
  ASSUME StoreInv, ClientInv, NEW p \in Procs, ClientNext(p)
  PROVE  ClientInv'
<1>0. ClientTyped /\ ClientOK(p) /\ {"off", "reading", "answering"} \subseteq LinkStates
  BY DEF ClientInv, LinkStates
<1>1. ASSUME NEW c \in Conns, Connect(p, c)
      PROVE  ClientInv'
  <2>1. due[p][c] = 0 /\ signed[p].no \in Nat /\ self[p] # NoKey
    BY <1>0, <1>1 DEF ClientOK, ClientTyped, Connect
  <2>2. due' = [due EXCEPT ![p][c] = 0] /\ 0 <= signed[p].no
    <3>1. /\ due \in [Procs -> [Conns -> Nat]] /\ due' = due /\ 0 \in Nat
      BY <1>0, <1>1 DEF Connect, ClientTyped
    <3> QED
      BY <2>1, <3>1
  <2>3. /\ UNCHANGED <<self, card, signed, failed, late>>
        /\ link' = [link EXCEPT ![p][c] = "reading"]
    BY <1>1 DEF Connect
  <2>4. /\ "reading" \in LinkStates /\ 0 \in Nat /\ late' = late
        /\ "reading" # "off" => self[p] # NoKey
        /\ "reading" # "answering" => 0 = 0
    BY <1>0, <2>1, <2>3
  <2> QED
    BY <2>2, <2>3, <2>4, LinkStep
<1>2. ASSUME NEW c \in Conns, Disconnect(p, c)
      PROVE  ClientInv'
  <2>1. 0 <= signed[p].no
    BY <1>0 DEF ClientTyped
  <2> QED
    BY <1>0, <1>2, <2>1, LinkStep DEF Disconnect
<1>3. ASSUME NEW c \in Conns, Challenge(p, c)
      PROVE  ClientInv'
  <2>1. due[p][c] = 0 /\ signed[p].no \in Nat /\ self[p] # NoKey
    BY <1>0, <1>3 DEF ClientOK, ClientTyped, Challenge
  <2>2. due' = [due EXCEPT ![p][c] = 0] /\ 0 <= signed[p].no
    <3>1. /\ due \in [Procs -> [Conns -> Nat]] /\ due' = due /\ 0 \in Nat
      BY <1>0, <1>3 DEF Challenge, ClientTyped
    <3> QED
      BY <2>1, <3>1
  <2>3. /\ UNCHANGED <<self, card, signed, failed, late>>
        /\ link' = [link EXCEPT ![p][c] = "answering"]
    BY <1>3 DEF Challenge
  <2>4. /\ "answering" \in LinkStates /\ 0 \in Nat /\ late' = late
        /\ "answering" # "off" => self[p] # NoKey
        /\ "answering" # "answering" => 0 = 0
    BY <1>0, <2>1, <2>3
  <2> QED
    BY <2>2, <2>3, <2>4, LinkStep
<1>4. ASSUME NEW c \in Conns, Answer(p, c)
      PROVE  ClientInv'
  <2>1. /\ due[p][c] <= signed[p].no /\ signed[p].no \in Nat /\ due[p][c] \in Nat
        /\ self[p] # NoKey
    BY <1>0, <1>4 DEF ClientOK, ClientTyped, Answer, Sends
  <2>2. (signed[p].no < due[p][c]) = FALSE /\ 0 <= signed[p].no
    BY <2>1
  <2>3. late' = [late EXCEPT ![p][c] = signed[p].no < due[p][c]]
    BY <1>4 DEF Answer, Sends
  <2>4. late' = [late EXCEPT ![p][c] = FALSE]
    BY <2>2, <2>3, Zenon
  <2>5. /\ UNCHANGED <<self, card, signed, failed>> /\ due' = [due EXCEPT ![p][c] = 0]
        /\ link' = [link EXCEPT ![p][c] = "reading"]
    BY <1>4 DEF Answer, Sends
  <2> QED
    BY <1>0, <2>1, <2>2, <2>4, <2>5, LinkStep
<1>5. ASSUME NEW c \in Conns, NEW records \in Requests, HandleGroups(p, c, records)
      PROVE  ClientInv'
  BY <1>5, HandleStep
<1>6. ASSUME BuildClient(p)
      PROVE  ClientInv'
  BY <1>6, BuildStep
<1> QED
  BY <1>1, <1>2, <1>3, <1>4, <1>5, <1>6 DEF ClientNext
----------------------------------------------------------------------------
(***************************************************************************)
(* The theorems.                                                           *)
(***************************************************************************)

LEMMA IdentityInvInit == Init => IdentityInv
<1> SUFFICES ASSUME Init
             PROVE  StoreInv /\ ClientInv /\ RequestsCounted
  BY DEF IdentityInv
<1>0. NoFile \notin Keys /\ NoKey \notin Keys /\ 1 \in Slots
  BY StoreAssumption DEF StoreAssumption, Keys, Slots
<1>1. StoreTypeOK
  BY <1>0 DEF Init, StoreInit, StoreTypeOK, Steps
<1>2. KeysApart /\ RivalsRaced /\ StoredIsSafe /\ ListedIsFound
  BY <1>0 DEF Init, StoreInit, KeysApart, Storing, RivalsRaced, Targets, StoredIsSafe, ListedIsFound
<1>3. ClientInv
  BY DEF Init, ClientInv, ClientTyped, ClientOK, OwnCard, LinkStates
<1>4. RequestsCounted
  BY RequestAssumption DEF Init, RequestsCounted
<1> QED
  BY <1>1, <1>2, <1>3, <1>4 DEF StoreInv

(* Each request that carries records makes at most one signature. *)
LEMMA CountStep ==
  ASSUME ClientInv, RequestsCounted, [Next]_vars
  PROVE  RequestsCounted'
<1>0. /\ requests \in 0..MaxRequests /\ MaxRequests \in Nat
      /\ signed \in [Procs -> [groups : SUBSET Records, no : Nat]]
      /\ \A q \in Procs : signed[q].no \in Nat /\ signed[q].no <= requests + 1
  BY RequestAssumption DEF ClientInv, ClientTyped, RequestsCounted
<1>1. ASSUME UNCHANGED <<signed, requests>>
      PROVE  RequestsCounted'
  BY <1>0, <1>1 DEF RequestsCounted
<1>2. ASSUME NEW p \in Procs, BuildClient(p) \/ Crash(p)
      PROVE  RequestsCounted'
  <2>1. /\ requests' = requests
        /\ \/ signed' = [signed EXCEPT ![p] = [groups |-> {}, no |-> 1]]
           \/ signed' = [signed EXCEPT ![p] = [groups |-> {}, no |-> 0]]
    BY <1>2 DEF BuildClient, Crash, NoClient
  <2>2. \A q \in Procs : signed'[q] = signed[q] \/ signed'[q].no \in {0, 1}
    BY <1>0, <2>1
  <2> QED
    BY <1>0, <2>1, <2>2 DEF RequestsCounted
<1>3. ASSUME NEW p \in Procs, NEW c \in Conns, NEW records \in Requests, HandleGroups(p, c, records)
      PROVE  RequestsCounted'
  <2> DEFINE groups == UpdateGroups(self[p], card[p], records).groups
  <2>1. /\ requests < MaxRequests /\ requests' = requests + 1
        /\ \/ signed' = signed
           \/ signed' = [signed EXCEPT ![p] = [groups |-> groups, no |-> signed[p].no + 1]]
    BY <1>3 DEF HandleGroups
  <2> HIDE DEF groups
  <2>2. \A q \in Procs : signed'[q] = signed[q] \/ signed'[q].no = signed[q].no + 1
    BY <1>0, <2>1
  <2> QED
    BY <1>0, <2>1, <2>2 DEF RequestsCounted
<1>4. ASSUME NEW p \in Procs, NEW c \in Conns,
             Connect(p, c) \/ Disconnect(p, c) \/ Challenge(p, c) \/ Answer(p, c)
      PROVE  UNCHANGED <<signed, requests>>
  BY <1>4 DEF Connect, Disconnect, Challenge, Answer, Sends
<1>5. ASSUME UNCHANGED <<clientVars, requests>> \/ UNCHANGED vars
      PROVE  UNCHANGED <<signed, requests>>
  BY <1>5 DEF vars, clientVars
<1>6. ASSUME NEW p \in Procs, ClientNext(p)
      PROVE  RequestsCounted'
  BY <1>1, <1>2, <1>3, <1>4, <1>6 DEF ClientNext
<1>7. CASE Next
  BY <1>1, <1>2, <1>5, <1>6, <1>7 DEF Next
<1> QED
  BY <1>1, <1>5, <1>7

LEMMA IdentityInvStep == IdentityInv /\ [Next]_vars => IdentityInv'
<1> SUFFICES ASSUME StoreInv, ClientInv, RequestsCounted, [Next]_vars
             PROVE  StoreInv' /\ ClientInv' /\ RequestsCounted'
  BY DEF IdentityInv
<1>1. ASSUME UNCHANGED storeVars
      PROVE  StoreInv'
  BY <1>1 DEF storeVars, procVars, StoreInv, StoreTypeOK, KeysApart, RivalsRaced, StoredIsSafe,
     ListedIsFound, Storing, Targets, Untargeted
<1>2. ASSUME UNCHANGED clientVars
      PROVE  ClientInv'
  BY <1>2 DEF clientVars, ClientInv, ClientTyped, ClientOK
<1>3. ASSUME NEW p \in Procs, StoreNext(p), UNCHANGED clientVars
      PROVE  StoreInv' /\ ClientInv'
  BY <1>2, <1>3, OpenStep, LoadedStep, LoadFileStep, PickStep, CreateStep, WriteStep DEF StoreNext
<1>4. ASSUME NEW p \in Procs, ClientNext(p)
      PROVE  StoreInv' /\ ClientInv'
  <2>1. UNCHANGED storeVars
    BY <1>4 DEF ClientNext, BuildClient, Connect, Disconnect, Challenge, Answer, Sends, HandleGroups
  <2> QED
    BY <1>1, <1>4, <2>1, ClientSteps
<1>5. ASSUME NEW p \in Procs, Crash(p)
      PROVE  StoreInv' /\ ClientInv'
  BY <1>5, StopStep, NoClientStep DEF Crash
<1>6. ASSUME UNCHANGED vars
      PROVE  StoreInv' /\ ClientInv'
  BY <1>1, <1>2, <1>6 DEF vars
<1>7. ASSUME Next
      PROVE  StoreInv' /\ ClientInv'
  <2>1. PICK p \in Procs :
          \/ StoreNext(p) /\ UNCHANGED <<clientVars, requests>>
          \/ ClientNext(p)
          \/ Crash(p)
    BY <1>7 DEF Next
  <2>2. CASE StoreNext(p) /\ UNCHANGED <<clientVars, requests>>
    BY <1>3, <2>2
  <2> QED
    BY <1>4, <1>5, <2>1, <2>2
<1>8. RequestsCounted'
  BY CountStep
<1> QED
  BY <1>6, <1>7, <1>8

LEMMA IdentityInvariance == Spec => []IdentityInv
BY IdentityInvInit, IdentityInvStep, PTL DEF Spec

(***************************************************************************)
(* The directory and the stores keep their types: a file holds a key, or   *)
(* nothing that parses, or is not there.                                   *)
(***************************************************************************)
THEOREM StoreTyped == Spec => []StoreTypeOK
<1>1. IdentityInv => StoreTypeOK
  BY DEF IdentityInv, StoreInv
<1> QED
  BY <1>1, IdentityInvariance, PTL

(***************************************************************************)
(* A key whose add_key returned Ok stays on disk, through crashes and the  *)
(* work of any number of processes, unless its name was chosen twice       *)
(* between path.exists() and fs::write.                                    *)
(***************************************************************************)
THEOREM StoredKeysStay == Spec => []LostOnlyByRace
<1>1. IdentityInv => LostOnlyByRace
  <2> SUFFICES ASSUME StoreInv, NEW k \in stored \ raced
               PROVE  k \in OnDisk
    BY DEF IdentityInv, LostOnlyByRace
  <2>1. PICK f \in Slots : files[f] = k
    BY StoreFacts DEF StoredIsSafe
  <2>2. k \in Keys /\ DOMAIN files = Slots
    BY StoreFacts DEF StoreTypeOK
  <2> QED
    BY <2>1, <2>2 DEF OnDisk, Range
<1> QED
  BY <1>1, IdentityInvariance, PTL

(***************************************************************************)
(* A store that is open has a key, and all the keys that were on disk when *)
(* its directory was listed and that were in no race.                      *)
(***************************************************************************)
THEOREM StoresReload == Spec => []ReloadKeepsKeys
<1>1. IdentityInv => ReloadKeepsKeys
  <2> SUFFICES ASSUME StoreInv, NEW p \in Procs, step[p] = "up"
               PROVE  keys[p] # <<>> /\ listed[p] \ raced \subseteq Range(keys[p])
    BY DEF IdentityInv, ReloadKeepsKeys
  <2>1. todo[p] = {} /\ keys[p] # <<>>
    BY StoreFacts DEF ListedIsFound
  <2>2. \A k \in listed[p] \ raced : k \in Range(keys[p])
    BY <2>1, StoreFacts DEF ListedIsFound
  <2> QED
    BY <2>1, <2>2
<1> QED
  BY <1>1, IdentityInvariance, PTL

(***************************************************************************)
(* respond_handshake never answers with a card older than the one that     *)
(* handle_groups signed for the same request, however many connections     *)
(* update the card between its two visits to the mutex.                    *)
(***************************************************************************)
THEOREM AnswersCarryUpdates == Spec => []AnswerCarriesUpdate
<1>1. IdentityInv => AnswerCarriesUpdate
  BY DEF IdentityInv, ClientInv, ClientOK, AnswerCarriesUpdate
<1> QED
  BY <1>1, IdentityInvariance, PTL

(***************************************************************************)
(* The signed card is the card, unless the last update failed half-way.    *)
(***************************************************************************)
THEOREM SignedIsCard == Spec => []StaleOnlyAfterFailure
<1>1. IdentityInv => StaleOnlyAfterFailure
  BY DEF IdentityInv, ClientInv, ClientOK, StaleOnlyAfterFailure
<1> QED
  BY <1>1, IdentityInvariance, PTL

(***************************************************************************)
(* update_groups: for any card that a client can have and any request, the *)
(* last record about a group that it comes to decides, and the card states *)
(* the valid memberships of its owner, one to a group.  The records are    *)
(* as many as the request has: the proof is by induction over them.        *)
(***************************************************************************)
THEOREM LastRecordsDecide == Spec => []LastRecordDecides
<1>1. IdentityInv => LastRecordDecides
  <2> SUFFICES ASSUME IdentityInv, NEW p \in Procs, self[p] # NoKey
               PROVE  /\ \A m \in card[p] : m.kind = "valid" /\ m.subject = self[p]
                      /\ \A m, n \in card[p] : m.group = n.group => m = n
                      /\ \A records \in Requests, g \in Groups :
                           {m \in UpdateGroups(self[p], card[p], records).groups : m.group = g}
                             = Expected(self[p], card[p], records, g)
    BY DEF LastRecordDecides
  <2>1. card[p] \in SUBSET Records /\ OwnCard(self[p], card[p])
    BY DEF IdentityInv, ClientInv, ClientTyped, ClientOK
  <2>2. ASSUME NEW records \in Requests, NEW g \in Groups
        PROVE  {m \in UpdateGroups(self[p], card[p], records).groups : m.group = g}
                 = Expected(self[p], card[p], records, g)
    <3>1. records \in Seq(Records)
      BY RequestAssumption
    <3> QED
      BY <2>1, <3>1, UpdateFacts DEF About
  <2> QED
    BY <2>1, <2>2 DEF OwnCard
<1> QED
  BY <1>1, IdentityInvariance, PTL

(***************************************************************************)
(* Everything the module says of the clients, their cards, signatures and  *)
(* connections has its type.                                               *)
(***************************************************************************)
THEOREM IdentityTyped == Spec => []TypeOK
<1>1. IdentityInv => TypeOK
  <2> SUFFICES ASSUME IdentityInv
               PROVE  TypeOK
    OBVIOUS
  <2>1. /\ signed \in [Procs -> [groups : SUBSET Records, no : Nat]]
        /\ requests \in 0..MaxRequests /\ MaxRequests \in Nat
        /\ \A p \in Procs : signed[p].no <= requests + 1
    BY RequestAssumption DEF IdentityInv, ClientInv, ClientTyped, RequestsCounted
  <2>2. \A p \in Procs : signed[p] \in [groups : SUBSET Records, no : 0..(MaxRequests + 1)]
    BY <2>1
  <2> QED
    BY <2>1, <2>2 DEF TypeOK, IdentityInv, StoreInv, ClientInv, ClientTyped, ClientOK
<1> QED
  BY <1>1, IdentityInvariance, PTL
=============================================================================
