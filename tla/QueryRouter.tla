---------------------------- MODULE QueryRouter ----------------------------
(***************************************************************************)
(* Queries of a native spot client (Inner::query, get_idcard, in_q,        *)
(* route_message and the ID card cache of spotlib/src/client.rs).  Threads *)
(* of the application query the server or a peer; a query to a peer needs  *)
(* its ID card, from the cache or by a nested query to the server.  The    *)
(* readers of the connections hand answers to the waiting queries.  The    *)
(* network may lose, repeat, reorder and delay requests and answers: an    *)
(* answer to a query that is waiting may be routed at any time, any number *)
(* of times; one to a query that returned finds no entry in in_q and       *)
(* changes nothing.                                                        *)
(***************************************************************************)
EXTENDS Naturals, FiniteSets

CONSTANTS
  Callers,     \* threads that call query
  Readers,     \* read loops of the connections
  Peers,       \* the clients that can be addressed by key
  Server,      \* the other target, "@/..."
  Keys,        \* query ids; a pool, for ids are never reused in the program
  NoKey, Empty,
  MaxVersion,  \* bound on the cards a peer publishes
  MaxUpdates,  \* bound on the idcard_update notifications
  MaxCache     \* 1024 of set_idcard_cache

ASSUME QueryAssumption ==
  /\ Server \notin Peers
  /\ NoKey \notin Keys
  /\ MaxVersion \in Nat \ {0}
  /\ {MaxUpdates, MaxCache} \subseteq Nat

Targets == Peers \cup {Server}
Versions == 0..MaxVersion   \* 0: no card, or nobody's signature

(***************************************************************************)
(* An answer: not a bottle, a signed bottle, or an encrypted and signed    *)
(* one; v is the card the signer's key is on (of a card answer: the card   *)
(* in its body); error is MSG_FLAG_ERROR.                                  *)
(***************************************************************************)
Answers == [form : {"plain", "open", "sealed"}, v : Versions, error : BOOLEAN]

ASSUME EmptyAssumption == Empty \notin Answers \cup (Keys \X Answers)

VARIABLES
  pc,        \* where each caller is
  stage,     \* its nested "card" query or its "main" one
  target,    \* whom it queries
  card,      \* the version of the target's card it encrypted with
  expired,   \* its deadline has passed
  key,       \* the id of its current query
  chan,      \* the channel of its current query
  result,    \* how its last call ended
  in_q,      \* the ids registered for an answer
  asked,     \* the ids of queries pushed and not yet returned
  reader,    \* the sender and answer a read loop has in its hands
  id_cache,  \* the version of each peer's card in the cache
  version,   \* the newest card of each peer
  update,    \* idcard_update handlers that have not yet stored their card
  updates,   \* notifications so far
  closed     \* the closed flag

callVars == <<pc, stage, target, card, expired, key, chan, result>>
peerVars == <<version, update, updates>>
vars == <<callVars, in_q, asked, reader, id_cache, peerVars, closed>>

CallStates == {"idle", "lookup", "make", "push", "pushed", "wait", "store"}
Results == {"none", "ok", "remote", "failed", "timeout", "closed"}

(* Each part has its type, and a peer is only queried with a card of it. *)
TypeOK ==
  /\ pc \in [Callers -> CallStates]
  /\ stage \in [Callers -> {"card", "main"}]
  /\ target \in [Callers -> Targets]
  /\ card \in [Callers -> Versions]
  /\ expired \in [Callers -> BOOLEAN]
  /\ key \in [Callers -> Keys \cup {NoKey}]
  /\ chan \in [Callers -> Answers \cup {Empty}]
  /\ result \in [Callers -> Results]
  /\ in_q \subseteq Keys
  /\ asked \subseteq Keys
  /\ reader \in [Readers -> (Keys \X Answers) \cup {Empty}]
  /\ id_cache \in [Peers -> Versions]
  /\ version \in [Peers -> 1..MaxVersion]
  /\ update \subseteq Peers \X (1..MaxVersion)
  /\ updates \in 0..MaxUpdates
  /\ closed \in BOOLEAN
  /\ \A c \in Callers :
       target[c] \in Peers /\ stage[c] = "main" /\ pc[c] \in {"make", "push", "pushed", "wait"}
         => card[c] # 0

Init ==
  /\ pc = [c \in Callers |-> "idle"]
  /\ stage = [c \in Callers |-> "main"]
  /\ target = [c \in Callers |-> Server]
  /\ card = [c \in Callers |-> 0]
  /\ expired = [c \in Callers |-> FALSE]
  /\ key = [c \in Callers |-> NoKey]
  /\ chan = [c \in Callers |-> Empty]
  /\ result = [c \in Callers |-> "none"]
  /\ in_q = {}
  /\ asked = {}
  /\ reader = [r \in Readers |-> Empty]
  /\ id_cache = [p \in Peers |-> 0]
  /\ version = [p \in Peers |-> 1]
  /\ update = {}
  /\ updates = 0
  /\ closed = FALSE

HeldKeys == {reader[r][1] : r \in {s \in Readers : reader[s] # Empty}}
NoCards == [p \in Peers |-> 0]
Cached == {p \in Peers : id_cache[p] # 0}
----------------------------------------------------------------------------
(* A call begins, with a deadline for everything it does. *)
Call(c, t) ==
  /\ pc[c] = "idle"
  /\ pc' = [pc EXCEPT ![c] = IF t \in Peers THEN "lookup" ELSE "make"]
  /\ stage' = [stage EXCEPT ![c] = "main"]
  /\ target' = [target EXCEPT ![c] = t]
  /\ result' = [result EXCEPT ![c] = "none"]
  /\ UNCHANGED <<card, expired, key, chan, in_q, asked, reader, id_cache, peerVars, closed>>

(* get_idcard_from_cache: without a card, a nested query goes first. *)
Lookup(c) ==
  /\ pc[c] = "lookup"
  /\ pc' = [pc EXCEPT ![c] = "make"]
  /\ card' = [card EXCEPT ![c] = id_cache[target[c]]]
  /\ stage' = [stage EXCEPT ![c] = IF id_cache[target[c]] = 0 THEN "card" ELSE "main"]
  /\ UNCHANGED <<target, expired, key, chan, result, in_q, asked, reader, id_cache,
                 peerVars, closed>>

(* Mutant: the entry is made under the id after it was pushed. *)
MakeInQLate(c, k) ==
  /\ pc[c] = "make"
  /\ k \notin {key[d] : d \in Callers} \cup HeldKeys \cup in_q
  /\ key' = [key EXCEPT ![c] = k]
  /\ asked' = asked \cup {k}
  /\ pc' = [pc EXCEPT ![c] = "push"]
  /\ UNCHANGED <<stage, target, card, expired, chan, result, in_q, reader, id_cache,
                 peerVars, closed>>

(* make_in_q under a fresh id ... *)
MakeInQ(c, k) ==
  /\ pc[c] = "make"
  /\ k \notin {key[d] : d \in Callers} \cup HeldKeys \cup in_q
  /\ key' = [key EXCEPT ![c] = k]
  /\ in_q' = in_q \cup {k}
  /\ pc' = [pc EXCEPT ![c] = "push"]
  /\ UNCHANGED <<stage, target, card, expired, chan, result, asked, reader, id_cache,
                 peerVars, closed>>

(* ... then the request is pushed. *)
PushQuery(c) ==
  /\ pc[c] = "push"
  /\ asked' = asked \cup {key[c]}
  /\ pc' = [pc EXCEPT ![c] = "pushed"]
  /\ UNCHANGED <<stage, target, card, expired, key, chan, result, in_q, reader, id_cache,
                 peerVars, closed>>

Expire(c) ==
  /\ pc[c] # "idle" /\ ~expired[c]
  /\ expired' = [expired EXCEPT ![c] = TRUE]
  /\ UNCHANGED <<pc, stage, target, card, key, chan, result, in_q, asked, reader, id_cache,
                 peerVars, closed>>

(***************************************************************************)
(* The current query of c returns: InQGuard takes its entry out, and the   *)
(* channel is dropped with whatever is in it.                              *)
(***************************************************************************)
LeaveQuery(c) ==
  /\ in_q' = in_q \ {key[c]}
  /\ asked' = asked \ {key[c]}
  /\ key' = [key EXCEPT ![c] = NoKey]
  /\ chan' = [chan EXCEPT ![c] = Empty]

(* ... and with it the call, however deeply the query was nested. *)
Return(c, r) ==
  /\ pc' = [pc EXCEPT ![c] = "idle"]
  /\ result' = [result EXCEPT ![c] = r]
  /\ card' = [card EXCEPT ![c] = 0]
  /\ expired' = [expired EXCEPT ![c] = FALSE]
  /\ stage' = [stage EXCEPT ![c] = "main"]
  /\ target' = [target EXCEPT ![c] = Server]

(* A caller whose deadline has passed by then does not wait at all, even   *)
(* if it was answered already; the others go to wait.                      *)
CheckDeadline(c) ==
  /\ pc[c] = "pushed"
  /\ IF expired[c]
       THEN LeaveQuery(c) /\ Return(c, "timeout")
       ELSE /\ pc' = [pc EXCEPT ![c] = "wait"]
            /\ UNCHANGED <<stage, target, card, expired, key, chan, result, in_q, asked>>
  /\ UNCHANGED <<reader, id_cache, peerVars, closed>>

(* Mutant: the entry of a query that times out stays in in_q. *)
WaitTimeoutLeaks(c) ==
  /\ pc[c] = "wait" /\ chan[c] = Empty /\ expired[c]
  /\ Return(c, IF closed THEN "closed" ELSE "timeout")
  /\ asked' = asked \ {key[c]}
  /\ key' = [key EXCEPT ![c] = NoKey]
  /\ UNCHANGED <<chan, in_q, reader, id_cache, peerVars, closed>>

(* Mutant: a nested query that times out is made again with a new deadline. *)
WaitTimeoutRetries(c) ==
  /\ pc[c] = "wait" /\ chan[c] = Empty /\ expired[c]
  /\ LeaveQuery(c)
  /\ IF stage[c] = "card"
       THEN /\ pc' = [pc EXCEPT ![c] = "make"]
            /\ expired' = [expired EXCEPT ![c] = FALSE]
            /\ UNCHANGED <<stage, target, card, result>>
       ELSE Return(c, "timeout")
  /\ UNCHANGED <<reader, id_cache, peerVars, closed>>

(* recv_timeout finds nothing before the deadline. *)
WaitTimeout(c) ==
  /\ pc[c] = "wait" /\ chan[c] = Empty /\ expired[c]
  /\ LeaveQuery(c)
  /\ Return(c, IF closed THEN "closed" ELSE "timeout")
  /\ UNCHANGED <<reader, id_cache, peerVars, closed>>

(* The nested query is answered: the body is a card, or the call fails. *)
ReceiveCard(c) ==
  /\ pc[c] = "wait" /\ stage[c] = "card" /\ chan[c] # Empty
  /\ LeaveQuery(c)
  /\ IF chan[c].error \/ chan[c].v = 0
       THEN Return(c, IF chan[c].error THEN "remote" ELSE "failed")
       ELSE /\ pc' = [pc EXCEPT ![c] = "store"]
            /\ card' = [card EXCEPT ![c] = chan[c].v]
            /\ UNCHANGED <<stage, target, expired, result>>
  /\ UNCHANGED <<reader, id_cache, peerVars, closed>>

(* get_idcard caches the card, without set_idcard_cache, and goes on. *)
StoreCard(c) ==
  /\ pc[c] = "store"
  /\ id_cache' = [id_cache EXCEPT ![target[c]] = card[c]]
  /\ stage' = [stage EXCEPT ![c] = "main"]
  /\ pc' = [pc EXCEPT ![c] = "make"]
  /\ UNCHANGED <<target, card, expired, key, chan, result, in_q, asked, reader, peerVars, closed>>

(* A sealed answer of a peer that the card in use does not account for. *)
Mismatch(c) == target[c] \in Peers /\ chan[c].form = "sealed" /\ chan[c].v # card[c]

(* A peer must answer in a sealed bottle; the server may answer anyhow. *)
Readable(c) == target[c] \in Peers => chan[c].form = "sealed" /\ chan[c].v = card[c]

(* Mutant: a failed verification leaves the cache alone. *)
ReceiveMainKeepsCache(c) ==
  /\ pc[c] = "wait" /\ stage[c] = "main" /\ chan[c] # Empty
  /\ LeaveQuery(c)
  /\ Return(c, IF ~Readable(c) THEN "failed"
               ELSE IF chan[c].error THEN "remote" ELSE "ok")
  /\ UNCHANGED <<reader, id_cache, peerVars, closed>>

(***************************************************************************)
(* The answer of the target: decoded and verified; a signature that is not *)
(* on the card clears the whole cache (need_key_refresh).                  *)
(***************************************************************************)
ReceiveMain(c) ==
  /\ pc[c] = "wait" /\ stage[c] = "main" /\ chan[c] # Empty
  /\ LeaveQuery(c)
  /\ id_cache' = IF Mismatch(c) THEN NoCards ELSE id_cache
  /\ Return(c, IF ~Readable(c) THEN "failed"
               ELSE IF chan[c].error THEN "remote" ELSE "ok")
  /\ UNCHANGED <<reader, peerVars, closed>>
----------------------------------------------------------------------------
(* Mutant: the entry is looked up and stays in the map. *)
RouteKeeps(r, k, a) ==
  /\ reader[r] = Empty
  /\ k \in asked /\ k \in in_q
  /\ reader' = [reader EXCEPT ![r] = <<k, a>>]
  /\ UNCHANGED <<callVars, in_q, asked, id_cache, peerVars, closed>>

(* route_message takes the entry of the query an answer is for ... *)
Route(r, k, a) ==
  /\ reader[r] = Empty
  /\ k \in asked /\ k \in in_q
  /\ in_q' = in_q \ {k}
  /\ reader' = [reader EXCEPT ![r] = <<k, a>>]
  /\ UNCHANGED <<callVars, asked, id_cache, peerVars, closed>>

(* ... and sends the answer, to nobody if the query has returned. *)
Hand(r) ==
  /\ reader[r] # Empty
  /\ chan' = [c \in Callers |-> IF key[c] = reader[r][1] THEN reader[r][2] ELSE chan[c]]
  /\ reader' = [reader EXCEPT ![r] = Empty]
  /\ UNCHANGED <<pc, stage, target, card, expired, key, result, in_q, asked, id_cache,
                 peerVars, closed>>

(***************************************************************************)
(* What may be answered to c: the server has any card the peer published   *)
(* so far, or none that parses; a peer signs with any key it had so far.   *)
(***************************************************************************)
AnswersTo(c) ==
  LET known == IF target[c] \in Peers THEN 0..version[target[c]] ELSE {0}
  IN  IF stage[c] = "card"
        THEN [form : {"plain"}, v : known, error : {FALSE}]
               \cup [form : {"plain"}, v : {0}, error : {TRUE}]
        ELSE [form : {"plain", "open"}, v : {0}, error : BOOLEAN]
               \cup [form : {"sealed"}, v : known, error : BOOLEAN]

(* A peer publishes a new card, with new keys. *)
Rotate(p) ==
  /\ version[p] < MaxVersion
  /\ version' = [version EXCEPT ![p] = @ + 1]
  /\ UNCHANGED <<callVars, in_q, asked, reader, id_cache, update, updates, closed>>

(* idcard_update arrives: route_message starts a thread for its handler. *)
UpdateArrives(p) ==
  /\ updates < MaxUpdates
  /\ updates' = updates + 1
  /\ update' = update \cup {<<p, version[p]>>}
  /\ UNCHANGED <<callVars, in_q, asked, reader, id_cache, version, closed>>

(* The handler: set_idcard_cache, which clears an overfull cache first. *)
UpdateStores(u) ==
  /\ u \in update
  /\ update' = update \ {u}
  /\ id_cache' = [(IF Cardinality(Cached) > MaxCache THEN NoCards ELSE id_cache)
                    EXCEPT ![u[1]] = u[2]]
  /\ UNCHANGED <<callVars, in_q, asked, reader, version, updates, closed>>

Close ==
  /\ closed' = TRUE
  /\ UNCHANGED <<callVars, in_q, asked, reader, id_cache, peerVars>>
----------------------------------------------------------------------------
CallerNext(c) ==
  \/ \E t \in Targets : Call(c, t)
  \/ Lookup(c)
  \/ \E k \in Keys : MakeInQ(c, k)
  \/ PushQuery(c) \/ CheckDeadline(c) \/ Expire(c) \/ WaitTimeout(c)
  \/ ReceiveCard(c) \/ StoreCard(c) \/ ReceiveMain(c)

ReaderNext(r) ==
  \/ \E c \in Callers : \E a \in AnswersTo(c) : Route(r, key[c], a)
  \/ Hand(r)

PeerNext ==
  \/ \E p \in Peers : Rotate(p) \/ UpdateArrives(p)
  \/ \E u \in update : UpdateStores(u)

Next ==
  \/ \E c \in Callers : CallerNext(c)
  \/ \E r \in Readers : ReaderNext(r)
  \/ PeerNext
  \/ Close

Spec == Init /\ [][Next]_vars

(***************************************************************************)
(* Fairness: a thread inside a call keeps running, deadlines pass, readers *)
(* finish what they began.  Nobody is obliged to call, the network is not  *)
(* obliged to answer.                                                      *)
(***************************************************************************)
InCall(c) ==
  \/ Lookup(c) \/ (\E k \in Keys : MakeInQ(c, k)) \/ PushQuery(c) \/ CheckDeadline(c)
  \/ WaitTimeout(c)
  \/ ReceiveCard(c) \/ StoreCard(c) \/ ReceiveMain(c)

Fairness ==
  /\ \A c \in Callers : WF_vars(InCall(c)) /\ WF_vars(Expire(c))
  /\ \A r \in Readers : WF_vars(Hand(r))

FairSpec == Spec /\ Fairness

(***************************************************************************)
(* For recovery after a key rotation the others have to cooperate: callers *)
(* keep calling peers, queries that wait are answered, and notifications   *)
(* are handled.                                                            *)
(***************************************************************************)
GoodAnswer(c) ==
  [form |-> IF stage[c] = "card" THEN "plain" ELSE "sealed",
   v |-> version[target[c]], error |-> FALSE]

RouteGood(c) ==
  target[c] \in Peers /\ \E r \in Readers : Route(r, key[c], GoodAnswer(c))

Cooperation ==
  /\ \A c \in Callers : SF_vars(\E p \in Peers : Call(c, p)) /\ SF_vars(RouteGood(c))
  /\ WF_vars(\E u \in update : UpdateStores(u))
----------------------------------------------------------------------------
(***************************************************************************)
(* in_q holds entries of queries in progress only: however a query ends,   *)
(* its entry goes with it, although routing races with the deadline.       *)
(***************************************************************************)
NoLeak == in_q \subseteq {key[c] : c \in {d \in Callers : pc[d] \in {"push", "pushed", "wait"}}}

(* The places where the entry, the sender or the answer of c may be. *)
Places(c) ==
  [entry  |-> key[c] \in in_q,
   handed |-> key[c] \in HeldKeys,
   inbox  |-> chan[c] # Empty]

(***************************************************************************)
(* From before its request is pushed until it returns, the answer of a     *)
(* query can reach it: its entry is registered, or a reader has taken it   *)
(* and is about to send, or the answer is in the channel.                  *)
(***************************************************************************)
Answerable ==
  \A c \in Callers :
    key[c] \in asked => Places(c).entry \/ Places(c).handed \/ Places(c).inbox

(***************************************************************************)
(* A query gets at most one answer, however often the network repeats it   *)
(* and however many connections deliver it at once.                        *)
(***************************************************************************)
AtMostOneAnswer ==
  \A c \in Callers : key[c] # NoKey =>
    /\ ~(Places(c).entry /\ Places(c).handed)
    /\ Places(c).inbox => ~Places(c).entry /\ ~Places(c).handed
    /\ \A r, s \in Readers :
         reader[r] # Empty /\ reader[s] # Empty /\ reader[r][1] = key[c]
           /\ reader[s][1] = key[c] => r = s

(* Every call returns, by its deadline if not before. *)
QueryReturns == \A c \in Callers : (pc[c] # "idle") ~> (pc[c] = "idle")

(***************************************************************************)
(* "Clears the ID cache when signature verification fails, so fresh ID     *)
(* cards get fetched when needed" (client.rs:244-245): after the peers'    *)
(* last rotation a stale card does not make a caller fail for ever, once   *)
(* the server has the newest card, peers answer with their newest keys and *)
(* answers come before the deadlines.                                      *)
(***************************************************************************)
Settled ==
  \A c \in Callers :
    /\ ~expired[c]
    /\ target[c] \in Peers /\ chan[c] # Empty => chan[c] = GoodAnswer(c)

HealsAfterRotation ==
  Cooperation /\ <>[]Settled => \A c \in Callers :
    []<><<ReceiveMain(c) /\ target[c] \in Peers /\ result'[c] = "ok">>_vars
============================================================================
