------------------------- MODULE QueryRouterProofs -------------------------
(***************************************************************************)
(* The safety of queries and of the readers that answer them, for any      *)
(* number of callers, readers and peers: no entry outlives its query, and  *)
(* an answer reaches a query that is waiting at most once.                 *)
(***************************************************************************)
EXTENDS QueryRouter, TLAPS

(* The states of a caller with a query in progress. *)
InQuery == {"push", "pushed", "wait"}

(***************************************************************************)
(* A nested query is made for a peer, and what is stored is a card.        *)
(***************************************************************************)
NestedForPeer ==
  \A c \in Callers :
    /\ pc[c] = "lookup" => target[c] \in Peers /\ stage[c] = "main"
    /\ stage[c] = "card" => target[c] \in Peers
    /\ pc[c] = "store" => card[c] # 0 /\ stage[c] = "card"

(* A caller has an id exactly while it has a query in progress ... *)
KeyInQuery == \A c \in Callers : key[c] # NoKey <=> pc[c] \in InQuery

(* ... and no other caller has the same. *)
KeysApart == \A c, d \in Callers : key[c] # NoKey /\ key[c] = key[d] => c = d

(* What is in the channel belongs to a query in progress. *)
ChannelOwned == \A c \in Callers : chan[c] # Empty => key[c] # NoKey

(* The peers were asked by queries that were pushed and not yet returned. *)
AskedInProgress == \A k \in asked : \E c \in Callers : key[c] = k /\ pc[c] \in {"pushed", "wait"}

(* Nobody can answer a query before it is pushed: its entry is untouched. *)
EntryBeforePush == \A c \in Callers : pc[c] = "push" => key[c] \in in_q

(* Where entries, senders and answers are. *)
Routing ==
  /\ KeyInQuery
  /\ KeysApart
  /\ ChannelOwned
  /\ AskedInProgress
  /\ EntryBeforePush
  /\ NoLeak
  /\ Answerable
  /\ AtMostOneAnswer

(* The inductive invariant of the query router. *)
QueryInv ==
  /\ TypeOK
  /\ NestedForPeer
  /\ Routing

(* A new client has no query in progress. *)
LEMMA QueryInvInit == Init => QueryInv
<1> SUFFICES ASSUME Init
             PROVE  QueryInv
  OBVIOUS
<1> USE QueryAssumption, EmptyAssumption DEF Init
<1>1. TypeOK
  <2>1. 0 \in Versions /\ 1 \in 1..MaxVersion /\ 0 \in 0..MaxUpdates /\ Server \in Targets
    BY DEF Versions, Targets
  <2> QED
    BY <2>1 DEF TypeOK, CallStates, Results
<1>2. NestedForPeer /\ KeyInQuery /\ KeysApart /\ ChannelOwned /\ AskedInProgress
  BY DEF NestedForPeer, KeyInQuery, KeysApart, ChannelOwned, AskedInProgress, InQuery
<1>3. EntryBeforePush /\ NoLeak /\ Answerable /\ AtMostOneAnswer
  BY DEF EntryBeforePush, NoLeak, Answerable, AtMostOneAnswer, Places
<1> QED
  BY <1>1, <1>2, <1>3 DEF QueryInv, Routing

(***************************************************************************)
(* Types.                                                                  *)
(***************************************************************************)

(* What Return leaves in the fields of the call is in range. *)
LEMMA ReturnTypes ==
  ASSUME TypeOK, NestedForPeer, NEW c \in Callers, NEW r \in Results, Return(c, r)
  PROVE  /\ pc' \in [Callers -> CallStates] /\ stage' \in [Callers -> {"card", "main"}]
         /\ target' \in [Callers -> Targets] /\ card' \in [Callers -> Versions]
         /\ expired' \in [Callers -> BOOLEAN] /\ result' \in [Callers -> Results]
         /\ \A d \in Callers :
              target'[d] \in Peers /\ stage'[d] = "main"
                /\ pc'[d] \in {"make", "push", "pushed", "wait"} => card'[d] # 0
         /\ NestedForPeer'
BY QueryAssumption DEF TypeOK, NestedForPeer, Return, CallStates, Targets, Versions

(* What LeaveQuery leaves of the query is in range. *)
LEMMA LeaveTypes ==
  ASSUME TypeOK, NEW c \in Callers, LeaveQuery(c)
  PROVE  /\ key' \in [Callers -> Keys \cup {NoKey}]
         /\ chan' \in [Callers -> Answers \cup {Empty}]
         /\ in_q' \subseteq Keys /\ asked' \subseteq Keys
BY DEF TypeOK, LeaveQuery

(* A call that returns from its current query keeps every type. *)
LEMMA ReturnedTypes ==
  ASSUME TypeOK, NestedForPeer, NEW c \in Callers, NEW r \in Results,
         LeaveQuery(c), Return(c, r), id_cache' \in [Peers -> Versions],
         UNCHANGED <<reader, peerVars, closed>>
  PROVE  TypeOK' /\ NestedForPeer'
BY ReturnTypes, LeaveTypes DEF TypeOK, peerVars

(* Every step of a caller keeps the types. *)
LEMMA CallerTypes ==
  ASSUME TypeOK, NestedForPeer, KeyInQuery, NEW c \in Callers, CallerNext(c)
  PROVE  TypeOK' /\ NestedForPeer'
<1> USE DEF CallStates
<1>0. 0 \in Versions /\ Server \notin Peers
  BY QueryAssumption DEF Versions
<1>1. ASSUME NEW t \in Targets, Call(c, t)
      PROVE  TypeOK' /\ NestedForPeer'
  BY <1>0, <1>1 DEF Call, TypeOK, NestedForPeer, Targets, Results, peerVars
<1>2. CASE Lookup(c)
  <2>1. target[c] \in Peers /\ id_cache[target[c]] \in Versions
    BY <1>2 DEF Lookup, NestedForPeer, TypeOK
  <2> QED
    BY <1>0, <1>2, <2>1 DEF Lookup, TypeOK, NestedForPeer, peerVars
<1>3. ASSUME NEW k \in Keys, MakeInQ(c, k)
      PROVE  TypeOK' /\ NestedForPeer'
  BY <1>3 DEF MakeInQ, TypeOK, NestedForPeer, peerVars
<1>4. CASE PushQuery(c)
  <2>1. key[c] \in Keys
    BY <1>4 DEF PushQuery, TypeOK, KeyInQuery, InQuery
  <2> QED
    BY <1>4, <2>1 DEF PushQuery, TypeOK, NestedForPeer, peerVars
<1>5. CASE Expire(c)
  BY <1>5 DEF Expire, TypeOK, NestedForPeer, peerVars
<1>6. CASE CheckDeadline(c)
  <2>1. CASE expired[c]
    <3>1. LeaveQuery(c) /\ Return(c, "timeout") /\ UNCHANGED <<reader, id_cache, peerVars, closed>>
      BY <1>6, <2>1 DEF CheckDeadline
    <3> QED
      BY <3>1, ReturnedTypes DEF TypeOK, Results
  <2>2. CASE ~expired[c]
    BY <1>6, <2>2 DEF CheckDeadline, TypeOK, NestedForPeer, peerVars
  <2> QED
    BY <2>1, <2>2
<1>7. CASE WaitTimeout(c)
  <2>1. /\ LeaveQuery(c) /\ UNCHANGED <<reader, id_cache, peerVars, closed>>
        /\ \E r \in Results : Return(c, r)
    BY <1>7 DEF WaitTimeout, Results
  <2> QED
    BY <2>1, ReturnedTypes DEF TypeOK
<1>8. CASE ReceiveCard(c)
  <2>1. /\ LeaveQuery(c) /\ UNCHANGED <<reader, id_cache, peerVars, closed>>
        /\ pc[c] = "wait" /\ stage[c] = "card" /\ chan[c] \in Answers
    BY <1>8 DEF ReceiveCard, TypeOK
  <2>2. CASE chan[c].error \/ chan[c].v = 0
    <3>1. \E r \in Results : Return(c, r)
      BY <1>8, <2>2 DEF ReceiveCard, Results
    <3> QED
      BY <2>1, <3>1, ReturnedTypes DEF TypeOK
  <2>3. CASE ~(chan[c].error \/ chan[c].v = 0)
    <3>1. /\ pc' = [pc EXCEPT ![c] = "store"] /\ card' = [card EXCEPT ![c] = chan[c].v]
          /\ UNCHANGED <<stage, target, expired, result>>
          /\ chan[c].v # 0
      BY <1>8, <2>3 DEF ReceiveCard
    <3>2. chan[c].v \in Versions
      BY <2>1 DEF Answers
    <3> QED
      BY <2>1, <3>1, <3>2, LeaveTypes DEF TypeOK, NestedForPeer, peerVars
  <2> QED
    BY <2>2, <2>3
<1>9. CASE StoreCard(c)
  BY <1>9 DEF StoreCard, TypeOK, NestedForPeer, peerVars
<1>10. CASE ReceiveMain(c)
  <2>1. NoCards \in [Peers -> Versions]
    BY <1>0 DEF NoCards
  <2>2. /\ LeaveQuery(c) /\ id_cache' \in [Peers -> Versions]
        /\ UNCHANGED <<reader, peerVars, closed>>
        /\ \E r \in Results : Return(c, r)
    BY <1>10, <2>1 DEF ReceiveMain, Results, TypeOK
  <2> QED
    BY <2>2, ReturnedTypes
<1> QED
  BY <1>1, <1>2, <1>3, <1>4, <1>5, <1>6, <1>7, <1>8, <1>9, <1>10 DEF CallerNext

(* What may be answered to a caller is an answer. *)
LEMMA AnswersTyped ==
  ASSUME TypeOK, NEW c \in Callers
  PROVE  AnswersTo(c) \subseteq Answers
<1> DEFINE known == IF target[c] \in Peers THEN 0..version[target[c]] ELSE {0}
<1>1. known \subseteq Versions /\ 0 \in Versions
  BY QueryAssumption DEF TypeOK, Versions
<1>2. AnswersTo(c) = IF stage[c] = "card"
        THEN [form : {"plain"}, v : known, error : {FALSE}]
               \cup [form : {"plain"}, v : {0}, error : {TRUE}]
        ELSE [form : {"plain", "open"}, v : {0}, error : BOOLEAN]
               \cup [form : {"sealed"}, v : known, error : BOOLEAN]
  BY DEF AnswersTo
<1> HIDE DEF known
<1>3. /\ [form : {"plain"}, v : known, error : {FALSE}] \subseteq Answers
      /\ [form : {"plain"}, v : {0}, error : {TRUE}] \subseteq Answers
      /\ [form : {"plain", "open"}, v : {0}, error : BOOLEAN] \subseteq Answers
      /\ [form : {"sealed"}, v : known, error : BOOLEAN] \subseteq Answers
  BY <1>1, Zenon DEF Answers
<1> QED
  BY <1>2, <1>3

(* So does every step of a reader, a peer or close(). *)
LEMMA OthersTypes ==
  ASSUME TypeOK, NestedForPeer,
         (\E r \in Readers : ReaderNext(r)) \/ PeerNext \/ Close
  PROVE  TypeOK' /\ NestedForPeer'
<1>1. ASSUME NEW r \in Readers, NEW c \in Callers, NEW a \in AnswersTo(c), Route(r, key[c], a)
      PROVE  TypeOK' /\ NestedForPeer'
  <2>1. a \in Answers /\ key[c] \in Keys
    BY <1>1, AnswersTyped DEF Route, TypeOK
  <2> QED
    BY <1>1, <2>1 DEF Route, TypeOK, NestedForPeer, callVars, peerVars
<1>2. ASSUME NEW r \in Readers, Hand(r)
      PROVE  TypeOK' /\ NestedForPeer'
  <2>1. reader[r][2] \in Answers
    BY <1>2 DEF Hand, TypeOK
  <2> QED
    BY <1>2, <2>1 DEF Hand, TypeOK, NestedForPeer, peerVars
<1>3. ASSUME NEW p \in Peers, Rotate(p)
      PROVE  TypeOK' /\ NestedForPeer'
  <2>1. version[p] + 1 \in 1..MaxVersion
    BY <1>3, QueryAssumption DEF Rotate, TypeOK
  <2> QED
    BY <1>3, <2>1 DEF Rotate, TypeOK, NestedForPeer, callVars
<1>4. ASSUME NEW p \in Peers, UpdateArrives(p)
      PROVE  TypeOK' /\ NestedForPeer'
  <2>1. <<p, version[p]>> \in Peers \X (1..MaxVersion) /\ updates + 1 \in 0..MaxUpdates
    BY <1>4, QueryAssumption DEF UpdateArrives, TypeOK
  <2> QED
    BY <1>4, <2>1 DEF UpdateArrives, TypeOK, NestedForPeer, callVars
<1>5. ASSUME NEW u \in update, UpdateStores(u)
      PROVE  TypeOK' /\ NestedForPeer'
  <2>1. u[2] \in Versions /\ NoCards \in [Peers -> Versions]
    BY QueryAssumption DEF TypeOK, Versions, NoCards
  <2>2. id_cache' \in [Peers -> Versions]
    BY <1>5, <2>1 DEF UpdateStores, TypeOK
  <2>3. update' \subseteq update
    BY <1>5 DEF UpdateStores
  <2> QED
    BY <1>5, <2>2, <2>3 DEF UpdateStores, TypeOK, NestedForPeer, callVars
<1>6. CASE Close
  BY <1>6 DEF Close, TypeOK, NestedForPeer, callVars, peerVars
<1> QED
  BY <1>1, <1>2, <1>3, <1>4, <1>5, <1>6 DEF ReaderNext, PeerNext

(***************************************************************************)
(* Entries, senders and answers.                                           *)
(***************************************************************************)

(* A key is held when some reader has its sender in hand. *)
LEMMA HeldByReader ==
  ASSUME NEW k
  PROVE  k \in HeldKeys <=> \E r \in Readers : reader[r] # Empty /\ reader[r][1] = k
BY DEF HeldKeys

(* A step that moves no query, entry, sender or answer. *)
LEMMA RoutingQuiet ==
  ASSUME Routing, UNCHANGED <<key, chan, in_q, asked, reader>>,
         \A c \in Callers : \/ pc'[c] = pc[c]
                            \/ {pc[c], pc'[c]} \cap InQuery = {}
                            \/ {pc[c], pc'[c]} \subseteq {"pushed", "wait"}
  PROVE  Routing'
<1> USE DEF Routing, InQuery
<1>1. KeyInQuery' /\ KeysApart' /\ ChannelOwned' /\ AskedInProgress' /\ EntryBeforePush'
  BY DEF KeyInQuery, KeysApart, ChannelOwned, AskedInProgress, EntryBeforePush
<1>2. NoLeak'
  BY DEF NoLeak
<1>3. Answerable' /\ AtMostOneAnswer'
  BY DEF Answerable, AtMostOneAnswer, Places, HeldKeys
<1> QED
  BY <1>1, <1>2, <1>3

(* The current query of c returns: everything else stays as it was. *)
LEMMA RoutingLeft ==
  ASSUME TypeOK, Routing, NEW c \in Callers, LeaveQuery(c), reader' = reader,
         pc[c] \in {"pushed", "wait"}, pc'[c] \notin InQuery,
         \A d \in Callers \ {c} : pc'[d] = pc[d]
  PROVE  Routing'
<1> USE DEF Routing, InQuery
<1>1. /\ in_q' = in_q \ {key[c]} /\ asked' = asked \ {key[c]}
      /\ key'[c] = NoKey /\ chan'[c] = Empty
      /\ \A d \in Callers \ {c} : key'[d] = key[d] /\ chan'[d] = chan[d]
      /\ HeldKeys' = HeldKeys
  BY DEF LeaveQuery, TypeOK, HeldKeys
<1>2. key[c] # NoKey /\ NoKey \notin asked /\ NoKey \notin in_q
  BY QueryAssumption DEF KeyInQuery, TypeOK
<1>3. \A d \in Callers \ {c} : key[d] # key[c]
  BY <1>2 DEF KeysApart
<1>4. KeyInQuery' /\ KeysApart' /\ ChannelOwned' /\ EntryBeforePush'
  BY <1>1, <1>2, <1>3 DEF KeyInQuery, KeysApart, ChannelOwned, EntryBeforePush
<1>5. AskedInProgress'
  BY <1>1, <1>2, <1>3 DEF AskedInProgress
<1>6. NoLeak'
  BY <1>1, <1>2, <1>3 DEF NoLeak
<1>7. Answerable'
  BY <1>1, <1>2, <1>3 DEF Answerable, Places
<1>8. AtMostOneAnswer'
  BY <1>1, <1>2, <1>3 DEF AtMostOneAnswer, Places
<1> QED
  BY <1>4, <1>5, <1>6, <1>7, <1>8

(* Every step of a caller keeps the routing. *)
LEMMA RoutingCaller ==
  ASSUME TypeOK, Routing, NEW c \in Callers, CallerNext(c)
  PROVE  Routing'
<1> USE DEF InQuery
<1>0. pc \in [Callers -> CallStates] /\ key \in [Callers -> Keys \cup {NoKey}] /\ NoKey \notin Keys
      /\ asked \subseteq Keys /\ in_q \subseteq Keys
  BY QueryAssumption DEF TypeOK
<1>1. ASSUME NEW t \in Targets, Call(c, t)
      PROVE  Routing'
  BY <1>0, <1>1, RoutingQuiet DEF Call
<1>2. CASE Lookup(c)
  BY <1>0, <1>2, RoutingQuiet DEF Lookup
<1>3. ASSUME NEW k \in Keys, MakeInQ(c, k)
      PROVE  Routing'
  <2> USE DEF Routing
  <2>1. /\ pc[c] = "make" /\ pc'[c] = "push" /\ key'[c] = k /\ in_q' = in_q \cup {k}
        /\ \A d \in Callers \ {c} : pc'[d] = pc[d] /\ key'[d] = key[d]
        /\ UNCHANGED <<chan, asked, reader>> /\ HeldKeys' = HeldKeys
    BY <1>0, <1>3 DEF MakeInQ, HeldKeys
  <2>2. /\ k \notin HeldKeys /\ k \notin in_q /\ k # NoKey
        /\ \A d \in Callers : key[d] # k
    BY <1>0, <1>3 DEF MakeInQ
  <2>3. k \notin asked /\ key[c] = NoKey /\ chan[c] = Empty
    BY <2>1, <2>2 DEF AskedInProgress, KeyInQuery, ChannelOwned
  <2>4. KeyInQuery' /\ KeysApart' /\ ChannelOwned' /\ EntryBeforePush'
    BY <2>1, <2>2, <2>3 DEF KeyInQuery, KeysApart, ChannelOwned, EntryBeforePush
  <2>5. AskedInProgress' /\ NoLeak'
    BY <2>1, <2>2, <2>3 DEF AskedInProgress, NoLeak
  <2>6. Answerable'
    BY <2>1, <2>2, <2>3 DEF Answerable, Places
  <2>7. AtMostOneAnswer'
    <3>1. \A r \in Readers : reader[r] # Empty => reader[r][1] # k
      BY <2>2, HeldByReader
    <3>2. ASSUME NEW d \in Callers, key'[d] # NoKey
          PROVE  /\ ~(key'[d] \in in_q' /\ key'[d] \in HeldKeys)
                 /\ chan[d] # Empty => key'[d] \notin in_q' /\ key'[d] \notin HeldKeys
      BY <2>1, <2>2, <2>3, <3>2 DEF AtMostOneAnswer, Places
    <3>3. ASSUME NEW d \in Callers, key'[d] # NoKey, NEW r \in Readers, NEW s \in Readers,
                 reader[r] # Empty, reader[s] # Empty,
                 reader[r][1] = key'[d], reader[s][1] = key'[d]
          PROVE  r = s
      BY <2>1, <2>2, <3>1, <3>3 DEF AtMostOneAnswer
    <3> QED
      BY <2>1, <3>2, <3>3 DEF AtMostOneAnswer, Places
  <2> QED
    BY <2>4, <2>5, <2>6, <2>7
<1>4. CASE PushQuery(c)
  <2> USE DEF Routing
  <2>1. /\ pc[c] = "push" /\ pc'[c] = "pushed" /\ asked' = asked \cup {key[c]}
        /\ \A d \in Callers \ {c} : pc'[d] = pc[d]
        /\ UNCHANGED <<key, chan, in_q, reader>> /\ HeldKeys' = HeldKeys
    BY <1>0, <1>4 DEF PushQuery, HeldKeys
  <2>2. key[c] \in in_q /\ key[c] # NoKey
    BY <2>1 DEF EntryBeforePush, KeyInQuery
  <2>3. KeyInQuery' /\ KeysApart' /\ ChannelOwned' /\ EntryBeforePush'
    BY <2>1 DEF KeyInQuery, KeysApart, ChannelOwned, EntryBeforePush
  <2>4. AskedInProgress' /\ NoLeak'
    BY <2>1 DEF AskedInProgress, NoLeak
  <2>5. Answerable'
    BY <2>1, <2>2 DEF Answerable, Places
  <2>6. AtMostOneAnswer'
    BY <2>1 DEF AtMostOneAnswer, Places
  <2> QED
    BY <2>3, <2>4, <2>5, <2>6
<1>5. CASE Expire(c)
  BY <1>5, RoutingQuiet DEF Expire
<1>6. CASE CheckDeadline(c)
  <2>1. CASE expired[c]
    <3>1. /\ LeaveQuery(c) /\ reader' = reader /\ pc[c] = "pushed"
          /\ pc' = [pc EXCEPT ![c] = "idle"]
      BY <1>6, <2>1 DEF CheckDeadline, Return
    <3> QED
      BY <1>0, <3>1, RoutingLeft
  <2>2. CASE ~expired[c]
    BY <1>0, <1>6, <2>2, RoutingQuiet DEF CheckDeadline
  <2> QED
    BY <2>1, <2>2
<1>7. CASE WaitTimeout(c)
  BY <1>0, <1>7, RoutingLeft DEF WaitTimeout, Return
<1>8. CASE ReceiveCard(c)
  <2>1. /\ LeaveQuery(c) /\ reader' = reader /\ pc[c] = "wait"
        /\ \E s \in {"idle", "store"} : pc' = [pc EXCEPT ![c] = s]
    BY <1>8 DEF ReceiveCard, Return
  <2> QED
    BY <1>0, <2>1, RoutingLeft
<1>9. CASE StoreCard(c)
  BY <1>0, <1>9, RoutingQuiet DEF StoreCard
<1>10. CASE ReceiveMain(c)
  BY <1>0, <1>10, RoutingLeft DEF ReceiveMain, Return
<1> QED
  BY <1>1, <1>2, <1>3, <1>4, <1>5, <1>6, <1>7, <1>8, <1>9, <1>10 DEF CallerNext

(* So does every step of a reader. *)
LEMMA RoutingReader ==
  ASSUME TypeOK, Routing, NEW r \in Readers, ReaderNext(r)
  PROVE  Routing'
<1> USE DEF Routing
<1>0. /\ key \in [Callers -> Keys \cup {NoKey}] /\ NoKey \notin Keys
      /\ asked \subseteq Keys /\ in_q \subseteq Keys
      /\ chan \in [Callers -> Answers \cup {Empty}]
      /\ reader \in [Readers -> (Keys \X Answers) \cup {Empty}] /\ Empty \notin Answers
      /\ Empty \notin Keys \X Answers
  BY QueryAssumption, EmptyAssumption DEF TypeOK
<1>1. ASSUME NEW c \in Callers, NEW a \in AnswersTo(c), Route(r, key[c], a)
      PROVE  Routing'
  <2> DEFINE k == key[c]
  <2>1. /\ reader[r] = Empty /\ k \in asked /\ k \in in_q /\ in_q' = in_q \ {k}
        /\ \A s \in Readers : reader'[s] = IF s = r THEN <<k, a>> ELSE reader[s]
        /\ UNCHANGED <<pc, key, chan, asked>>
    BY <1>0, <1>1 DEF Route, callVars
  <2>2. k # NoKey /\ <<k, a>> # Empty /\ \A d \in Callers : key[d] = k => d = c
    <3>1. k \in Keys /\ a \in Answers
      BY <1>0, <2>1, AnswersTyped
    <3> QED
      BY <1>0, <3>1 DEF KeysApart
  <2>3. \A s \in Readers : reader[s] # Empty => reader[s][1] # k
    <3>1. k \notin HeldKeys
      BY <2>1, <2>2 DEF AtMostOneAnswer, Places
    <3> QED
      BY <3>1, HeldByReader
  <2>4. HeldKeys' = HeldKeys \cup {k}
    <3>1. \A h : h \in HeldKeys' <=> \E s \in Readers : reader'[s] # Empty /\ reader'[s][1] = h
      BY DEF HeldKeys
    <3>2. \A h : h \in HeldKeys' <=> h = k \/ h \in HeldKeys
      BY <2>1, <2>2, <3>1, HeldByReader
    <3> QED
      BY <3>2
  <2>5. chan[c] = Empty
    BY <2>1, <2>2 DEF AtMostOneAnswer, Places
  <2>6. pc[c] # "push"
    BY <2>1, <2>2 DEF AskedInProgress
  <2> HIDE DEF k
  <2>7. KeyInQuery' /\ KeysApart' /\ ChannelOwned' /\ AskedInProgress' /\ NoLeak'
    BY <2>1 DEF KeyInQuery, KeysApart, ChannelOwned, AskedInProgress, NoLeak
  <2>8. EntryBeforePush'
    BY <2>1, <2>2, <2>6 DEF EntryBeforePush, k
  <2>9. Answerable'
    BY <2>1, <2>4 DEF Answerable, Places
  <2>10. AtMostOneAnswer'
    <3>1. ASSUME NEW d \in Callers, key[d] # NoKey
          PROVE  /\ ~(key[d] \in in_q' /\ key[d] \in HeldKeys')
                 /\ chan[d] # Empty => key[d] \notin in_q' /\ key[d] \notin HeldKeys'
      BY <2>1, <2>2, <2>4, <2>5, <3>1 DEF AtMostOneAnswer, Places
    <3>2. ASSUME NEW d \in Callers, key[d] # NoKey, NEW s \in Readers, NEW t \in Readers,
                 reader'[s] # Empty, reader'[t] # Empty,
                 reader'[s][1] = key[d], reader'[t][1] = key[d]
          PROVE  s = t
      BY <2>1, <2>3, <3>2 DEF AtMostOneAnswer
    <3> QED
      BY <2>1, <3>1, <3>2 DEF AtMostOneAnswer, Places
  <2> QED
    BY <2>7, <2>8, <2>9, <2>10
<1>2. CASE Hand(r)
  <2> DEFINE k == reader[r][1]
             a == reader[r][2]
  <2>1. /\ reader[r] # Empty /\ a # Empty
        /\ \A d \in Callers : chan'[d] = IF key[d] = k THEN a ELSE chan[d]
        /\ \A s \in Readers : reader'[s] = IF s = r THEN Empty ELSE reader[s]
        /\ UNCHANGED <<pc, key, in_q, asked>>
    BY <1>0, <1>2 DEF Hand
  <2>2. k \in HeldKeys /\ k \in Keys
    BY <1>0, <2>1, HeldByReader
  <2>3. \A h : h \in HeldKeys' <=> \E s \in Readers \ {r} : reader[s] # Empty /\ reader[s][1] = h
    <3>1. \A h : h \in HeldKeys' <=> \E s \in Readers : reader'[s] # Empty /\ reader'[s][1] = h
      BY DEF HeldKeys
    <3> QED
      BY <2>1, <3>1
  <2> HIDE DEF k, a
  <2>4. \A h : h \in HeldKeys' => h \in HeldKeys
    BY <2>3, HeldByReader
  <2>5. \A h : h \in HeldKeys /\ h # k => h \in HeldKeys'
    BY <2>3, HeldByReader DEF k
  <2>6. \A d \in Callers : key[d] = k => k \notin HeldKeys' /\ k \notin in_q
    <3> SUFFICES ASSUME NEW d \in Callers, key[d] = k
                 PROVE  k \notin HeldKeys' /\ k \notin in_q
      OBVIOUS
    <3>1. key[d] # NoKey
      BY <1>0, <2>2
    <3>2. k \notin in_q
      BY <2>2, <3>1 DEF AtMostOneAnswer, Places
    <3>3. \A s \in Readers : reader[s] # Empty /\ reader[s][1] = k => s = r
      BY <2>1, <3>1 DEF AtMostOneAnswer, k
    <3> QED
      BY <2>3, <3>2, <3>3
  <2>7. KeyInQuery' /\ KeysApart' /\ AskedInProgress' /\ EntryBeforePush' /\ NoLeak'
    BY <2>1 DEF KeyInQuery, KeysApart, AskedInProgress, EntryBeforePush, NoLeak
  <2>8. ChannelOwned'
    BY <1>0, <2>1, <2>2 DEF ChannelOwned
  <2>9. Answerable'
    BY <2>1, <2>5 DEF Answerable, Places
  <2>10. AtMostOneAnswer'
    <3>1. ASSUME NEW d \in Callers, key[d] # NoKey
          PROVE  /\ ~(key[d] \in in_q /\ key[d] \in HeldKeys')
                 /\ chan'[d] # Empty => key[d] \notin in_q /\ key[d] \notin HeldKeys'
      BY <2>1, <2>4, <2>6, <3>1 DEF AtMostOneAnswer, Places
    <3>2. ASSUME NEW d \in Callers, key[d] # NoKey, NEW s \in Readers, NEW t \in Readers,
                 reader'[s] # Empty, reader'[t] # Empty,
                 reader'[s][1] = key[d], reader'[t][1] = key[d]
          PROVE  s = t
      BY <2>1, <3>2 DEF AtMostOneAnswer
    <3> QED
      BY <2>1, <3>1, <3>2 DEF AtMostOneAnswer, Places
  <2> QED
    BY <2>7, <2>8, <2>9, <2>10
<1> QED
  BY <1>1, <1>2 DEF ReaderNext

LEMMA QueryInvNext == QueryInv /\ [Next]_vars => QueryInv'
<1>1. ASSUME QueryInv, UNCHANGED vars
      PROVE  QueryInv'
  <2>1. TypeOK' /\ NestedForPeer'
    BY <1>1 DEF QueryInv, TypeOK, NestedForPeer, vars, callVars, peerVars
  <2>2. Routing'
    BY <1>1, RoutingQuiet DEF QueryInv, vars, callVars
  <2> QED
    BY <2>1, <2>2 DEF QueryInv
<1>2. ASSUME QueryInv, NEW c \in Callers, CallerNext(c)
      PROVE  QueryInv'
  BY <1>2, CallerTypes, RoutingCaller DEF QueryInv, Routing
<1>3. ASSUME QueryInv, NEW r \in Readers, ReaderNext(r)
      PROVE  QueryInv'
  BY <1>3, OthersTypes, RoutingReader DEF QueryInv
<1>4. ASSUME QueryInv, PeerNext \/ Close
      PROVE  QueryInv'
  <2>1. UNCHANGED <<pc, key, chan, in_q, asked, reader>>
    BY <1>4 DEF PeerNext, Rotate, UpdateArrives, UpdateStores, Close, callVars
  <2> QED
    BY <1>4, <2>1, OthersTypes, RoutingQuiet DEF QueryInv
<1> QED
  BY <1>1, <1>2, <1>3, <1>4 DEF Next

LEMMA QueryInvariance == Spec => []QueryInv
BY QueryInvInit, QueryInvNext, PTL DEF Spec

(***************************************************************************)
(* Every field of the router has its type, and a peer's query is only made *)
(* with a card of the peer, for any number of callers and readers.         *)
(***************************************************************************)
THEOREM QueriesTyped == Spec => []TypeOK
<1>1. QueryInv => TypeOK
  BY DEF QueryInv
<1> QED
  BY <1>1, QueryInvariance, PTL

(***************************************************************************)
(* in_q never grows beyond the queries in progress: each way a query can   *)
(* end takes its entry with it, whatever the readers do meanwhile.         *)
(***************************************************************************)
THEOREM EntriesEndWithQueries == Spec => []NoLeak
<1>1. QueryInv => NoLeak
  BY DEF QueryInv, Routing
<1> QED
  BY <1>1, QueryInvariance, PTL

(***************************************************************************)
(* A pushed query can be answered until it returns, by any reader.         *)
(***************************************************************************)
THEOREM PushedIsAnswerable == Spec => []Answerable
<1>1. QueryInv => Answerable
  BY DEF QueryInv, Routing
<1> QED
  BY <1>1, QueryInvariance, PTL

(***************************************************************************)
(* However often the network repeats an answer and however many readers    *)
(* route it, a query receives one.                                         *)
(***************************************************************************)
THEOREM OneAnswerEach == Spec => []AtMostOneAnswer
<1>1. QueryInv => AtMostOneAnswer
  BY DEF QueryInv, Routing
<1> QED
  BY <1>1, QueryInvariance, PTL
============================================================================
