------------------------------ MODULE Identity ------------------------------
(***************************************************************************)
(* Clients built from a DiskStore, and their ID cards.  A handshake        *)
(* request may bring membership records; the thread of the connection      *)
(* updates the card that all connections share, signs it, and answers with *)
(* the signed card, which it reads in a second visit to the mutex.         *)
(***************************************************************************)
EXTENDS DiskStore

CONSTANTS
  Online,       \* the processes that build a client from their store
  Conns,        \* connections of each client
  Groups,
  Requests,     \* record sequences a handshake request may carry
  MaxRequests   \* bound on the requests that carry records

(* What a server may put into a request: bytes that are no membership, one *)
(* with a bad signature, one that ends and one that states a membership.   *)
Records ==
  [kind : {"garbage", "forged", "revoked", "valid"}, subject : Keys, group : Groups, issue : Nat]

ASSUME RequestAssumption ==
  Online \subseteq Procs /\ Requests \subseteq Seq(Records) /\ MaxRequests \in Nat

VARIABLES
  self,      \* the identity key of each process's client
  card,      \* the memberships on its card
  signed,    \* those on the signed binary, and how often it was signed
  failed,    \* history: the last handle_groups returned an error
  link,      \* where the thread of each connection is
  due,       \* history: the signature its update made, until it has answered
  late,      \* history: its last answer carried an older signature than that
  requests   \* how many requests carried records

clientVars == <<self, card, signed, failed, link, due, late>>
vars == <<storeVars, clientVars, requests>>

LinkStates == {"off", "reading", "answering"}

(* Memberships of a card: a set, for nothing depends on their order, of    *)
(* records whose subject is implied.                                       *)
TypeOK ==
  /\ StoreTypeOK
  /\ self \in [Procs -> Keys \cup {NoKey}]
  /\ card \in [Procs -> SUBSET Records]
  /\ \A p \in Procs : signed[p] \in [groups : SUBSET Records, no : 0..(MaxRequests + 1)]
  /\ failed \in [Procs -> BOOLEAN]
  /\ link \in [Procs -> [Conns -> LinkStates]]
  /\ due \in [Procs -> [Conns -> Nat]] /\ late \in [Procs -> [Conns -> BOOLEAN]]
  /\ requests \in 0..MaxRequests
  /\ \A p \in Procs : self[p] # NoKey => signed[p].no >= 1

NoClient(p) ==
  /\ self' = [self EXCEPT ![p] = NoKey]
  /\ card' = [card EXCEPT ![p] = {}]
  /\ signed' = [signed EXCEPT ![p] = [groups |-> {}, no |-> 0]]
  /\ failed' = [failed EXCEPT ![p] = FALSE]
  /\ link' = [link EXCEPT ![p] = [c \in Conns |-> "off"]]
  /\ due' = [due EXCEPT ![p] = [c \in Conns |-> 0]]
  /\ late' = [late EXCEPT ![p] = [c \in Conns |-> FALSE]]

Init ==
  /\ StoreInit
  /\ self = [p \in Procs |-> NoKey]
  /\ card = [p \in Procs |-> {}]
  /\ signed = [p \in Procs |-> [groups |-> {}, no |-> 0]]
  /\ failed = [p \in Procs |-> FALSE]
  /\ link = [p \in Procs |-> [c \in Conns |-> "off"]]
  /\ due = [p \in Procs |-> [c \in Conns |-> 0]]
  /\ late = [p \in Procs |-> [c \in Conns |-> FALSE]]
  /\ requests = 0
----------------------------------------------------------------------------
(* DiskStore::keychain and build: the first key is the identity, and a new *)
(* card is signed with it.                                                 *)
BuildClient(p) ==
  /\ p \in Online /\ step[p] = "up" /\ self[p] = NoKey
  /\ self' = [self EXCEPT ![p] = Head(keys[p])]
  /\ signed' = [signed EXCEPT ![p] = [groups |-> {}, no |-> 1]]
  /\ UNCHANGED <<storeVars, card, failed, link, due, late, requests>>

(* A record that stops update_groups: it is no membership, or one of key   *)
(* k's that does not verify.  A stranger's is skipped unverified.          *)
Rejected(k, r) == r.kind = "garbage" \/ (r.kind = "forged" /\ r.subject = k)

(* The membership that a record states: none if it ends one. *)
Stated(r) == {m \in {r} : m.kind = "valid"}

(* Mutant: a record that ends a membership is skipped like a stranger's. *)
ApplyKeepsRevoked(k, st, r) ==
  IF ~st.ok \/ r.kind = "revoked" THEN st
  ELSE IF Rejected(k, r) THEN [st EXCEPT !.ok = FALSE]
  ELSE IF r.subject # k THEN st
  ELSE [st EXCEPT !.groups = {m \in @ : m.group # r.group} \cup {r}]

(* One record in update_groups, for the card of key k: it takes the place  *)
(* of the membership in its group, or ends it.                             *)
Apply(k, st, r) ==
  IF ~st.ok THEN st
  ELSE IF Rejected(k, r) THEN [st EXCEPT !.ok = FALSE]
  ELSE IF r.subject # k THEN st
  ELSE [st EXCEPT !.groups = {m \in @ : m.group # r.group} \cup Stated(r)]

(* update_groups stops at the first error; what it did before stays done. *)
UpdateGroups(k, groups, records) ==
  FoldLeft(LAMBDA st, r : Apply(k, st, r), [groups |-> groups, ok |-> TRUE], records)

(* A connection is dialled; its handshake begins. *)
Connect(p, c) ==
  /\ self[p] # NoKey /\ link[p][c] = "off"
  /\ link' = [link EXCEPT ![p][c] = "reading"]
  /\ UNCHANGED <<storeVars, self, card, signed, failed, due, late, requests>>

Disconnect(p, c) ==
  /\ link[p][c] # "off"
  /\ link' = [link EXCEPT ![p][c] = "off"]
  /\ due' = [due EXCEPT ![p][c] = 0]
  /\ late' = [late EXCEPT ![p][c] = FALSE]
  /\ UNCHANGED <<storeVars, self, card, signed, failed, requests>>

(* A request without records, in the handshake or later. *)
Challenge(p, c) ==
  /\ link[p][c] = "reading"
  /\ link' = [link EXCEPT ![p][c] = "answering"]
  /\ UNCHANGED <<storeVars, self, card, signed, failed, due, late, requests>>

(* Mutant: the card is signed before the records are applied. *)
HandleGroupsSignsFirst(p, c, records) ==
  /\ link[p][c] = "reading" /\ requests < MaxRequests
  /\ LET st == UpdateGroups(self[p], card[p], records)
         no == signed[p].no + 1
     IN  /\ card' = [card EXCEPT ![p] = st.groups]
         /\ failed' = [failed EXCEPT ![p] = ~st.ok]
         /\ IF st.ok THEN /\ signed' = [signed EXCEPT ![p] = [groups |-> card[p], no |-> no]]
                          /\ due' = [due EXCEPT ![p][c] = no]
            ELSE UNCHANGED <<signed, due>>
  /\ link' = [link EXCEPT ![p][c] = "answering"]
  /\ requests' = requests + 1
  /\ UNCHANGED <<storeVars, self, late>>

(***************************************************************************)
(* handle_groups, under the mutex of the card: the records are applied and *)
(* the card is signed, not after an error, which is only logged.           *)
(***************************************************************************)
HandleGroups(p, c, records) ==
  /\ link[p][c] = "reading" /\ requests < MaxRequests
  /\ LET st == UpdateGroups(self[p], card[p], records)
         no == signed[p].no + 1
     IN  /\ card' = [card EXCEPT ![p] = st.groups]
         /\ failed' = [failed EXCEPT ![p] = ~st.ok]
         /\ IF st.ok THEN /\ signed' = [signed EXCEPT ![p] = [groups |-> st.groups, no |-> no]]
                          /\ due' = [due EXCEPT ![p][c] = no]
            ELSE UNCHANGED <<signed, due>>
  /\ link' = [link EXCEPT ![p][c] = "answering"]
  /\ requests' = requests + 1
  /\ UNCHANGED <<storeVars, self, late>>

Sends(p, c, no) ==
  /\ link[p][c] = "answering"
  /\ late' = [late EXCEPT ![p][c] = no < due[p][c]]
  /\ due' = [due EXCEPT ![p][c] = 0]
  /\ link' = [link EXCEPT ![p][c] = "reading"]
  /\ UNCHANGED <<storeVars, self, card, signed, failed, requests>>

(* Mutant: the answer takes the card as it was when the client was built. *)
AnswerOld(p, c) == Sends(p, c, 1)

(* The rest of respond_handshake: id_bin is read and sent. *)
Answer(p, c) == Sends(p, c, signed[p].no)

(* A process that stops takes its client along. *)
Crash(p) == Stop(p) /\ NoClient(p) /\ UNCHANGED requests

ClientNext(p) ==
  \/ BuildClient(p)
  \/ \E c \in Conns :
       \/ Connect(p, c) \/ Disconnect(p, c) \/ Challenge(p, c) \/ Answer(p, c)
       \/ \E records \in Requests : HandleGroups(p, c, records)

Next ==
  \E p \in Procs :
    \/ StoreNext(p) /\ UNCHANGED <<clientVars, requests>>
    \/ ClientNext(p)
    \/ Crash(p)

Spec == Init /\ [][Next]_vars
----------------------------------------------------------------------------
(***************************************************************************)
(* The card that answers a request is at least as new as the one signed    *)
(* for it: the server sees the memberships it just sent, although other    *)
(* connections update and sign the card between the two visits.            *)
(***************************************************************************)
AnswerCarriesUpdate ==
  \A p \in Procs, c \in Conns : ~late[p][c]

(***************************************************************************)
(* The signed card is the card.  The exception the code makes: after a     *)
(* failed update records applied before the failure wait for the next      *)
(* update that succeeds, of whichever connection, to be signed.            *)
(***************************************************************************)
StaleOnlyAfterFailure ==
  \A p \in Procs : signed[p].groups # card[p] => failed[p]

(* The records about group g that update_groups comes to for key k, ...    *)
Reached(k, records, g) ==
  {i \in DOMAIN records :
     /\ records[i].subject = k /\ records[i].group = g
     /\ \A j \in 1..i : ~Rejected(k, records[j])}

(* ... of which the last one decides, and without one nothing changes.     *)
Expected(k, groups, records, g) ==
  LET reached == Reached(k, records, g)
  IN  IF reached = {} THEN {m \in groups : m.group = g}
      ELSE Stated(records[Max(reached)])

(***************************************************************************)
(* A card states the owner's valid memberships, one to a group, and from   *)
(* every card a client can have a request leaves each group as the last    *)
(* record about it says, no stranger's.  A request that fails does so for  *)
(* the records before the failing one.                                     *)
(***************************************************************************)
LastRecordDecides ==
  \A p \in {q \in Procs : self[q] # NoKey} :
    /\ \A m \in card[p] : m.kind = "valid" /\ m.subject = self[p]
    /\ \A m, n \in card[p] : m.group = n.group => m = n
    /\ \A records \in Requests, g \in Groups :
         {m \in UpdateGroups(self[p], card[p], records).groups : m.group = g}
           = Expected(self[p], card[p], records, g)
=============================================================================
