------------------------- MODULE OnlineStateProofs -------------------------
(***************************************************************************)
(* The safety of the online-state cell for any set of waiters and any      *)
(* number of connections, and of what it tells the subscribers of the      *)
(* event hub, for any set of these.                                        *)
(***************************************************************************)
EXTENDS OnlineEvents, TLAPS

(***************************************************************************)
(* What the mutex buys wait_online: a thread that is about to park has     *)
(* seen too few connections, and nothing it looked at has moved since.     *)
(***************************************************************************)
ParkingJustified == \A w \in Waiters : wait[w] = "parking" => online_cnt < Want

(* The inductive invariant of the cell. *)
OnlineInv ==
  /\ OnlineTypeOK
  /\ MutexHeldToPark
  /\ ParkingJustified
  /\ NoMissedThreshold
  /\ PresenceReported

(* A new client satisfies the invariant (Inner's initial values). *)
LEMMA OnlineInvInit == OnlineInit => OnlineInv
<1> SUFFICES ASSUME OnlineInit
             PROVE  OnlineInv
  OBVIOUS
<1>1. OnlineTypeOK
  BY DEF OnlineInit, OnlineTypeOK, WaitStates
<1>2. \A w \in Waiters : wait[w] = "out" /\ lock # w
  BY OnlineAssumption DEF OnlineInit
<1>3. MutexHeldToPark /\ ParkingJustified /\ NoMissedThreshold
  BY <1>2 DEF MutexHeldToPark, ParkingJustified, NoMissedThreshold
<1>4. PresenceReported
  BY DEF OnlineInit, PresenceReported
<1> QED
  BY <1>1, <1>3, <1>4 DEF OnlineInv

(* notify_all leaves nobody parked and disturbs nobody else. *)
LEMMA NotifiedWaiters ==
  ASSUME wait \in [Waiters -> WaitStates]
  PROVE  /\ Notified \in [Waiters -> WaitStates]
         /\ \A w \in Waiters : Notified[w] # "parked"
         /\ \A w \in Waiters : Notified[w] = "parking" <=> wait[w] = "parking"
BY DEF Notified, WaitStates

(* Every step of the connections, run_connect or close() keeps it. *)
LEMMA OnlineInvCell ==
  ASSUME OnlineInv,
         \/ OnlineIncr
         \/ online_cnt > 0 /\ OnlineDecr
         \/ \E n \in Nat : StoreMinConn(n)
         \/ AnnounceMinConn
         \/ CloseStore
         \/ CloseNotify
  PROVE  OnlineInv'
<1> USE DEF OnlineInv, OnlineTypeOK, MutexHeldToPark, ParkingJustified,
            NoMissedThreshold, PresenceReported, Want
<1>n. /\ Notified \in [Waiters -> WaitStates]
      /\ \A w \in Waiters : Notified[w] # "parked"
      /\ \A w \in Waiters : Notified[w] = "parking" <=> wait[w] = "parking"
  BY NotifiedWaiters
<1>1. CASE OnlineIncr
  BY <1>1, <1>n, OnlineAssumption DEF OnlineIncr
<1>2. CASE online_cnt > 0 /\ OnlineDecr
  BY <1>2 DEF OnlineDecr
<1>3. CASE \E n \in Nat : StoreMinConn(n)
  BY <1>3, OnlineAssumption DEF StoreMinConn
<1>4. CASE AnnounceMinConn
  BY <1>4, <1>n DEF AnnounceMinConn
<1>5. CASE CloseStore
  BY <1>5 DEF CloseStore
<1>6. CASE CloseNotify
  BY <1>6, <1>n DEF CloseNotify
<1> QED
  BY <1>1, <1>2, <1>3, <1>4, <1>5, <1>6

(* Every step of a thread inside wait_online keeps it. *)
LEMMA OnlineInvWaiter ==
  ASSUME OnlineInv, NEW w \in Waiters, WaiterNext(w)
  PROVE  OnlineInv'
<1> USE OnlineAssumption
    DEF OnlineInv, OnlineTypeOK, MutexHeldToPark, ParkingJustified,
        NoMissedThreshold, PresenceReported, Want, WaitStates
<1>1. CASE WaitEnter(w)
  BY <1>1 DEF WaitEnter
<1>2. CASE WaitReturn(w)
  BY <1>2 DEF WaitReturn
<1>3. CASE WaitCheck(w)
  BY <1>3 DEF WaitCheck
<1>4. CASE WaitPark(w)
  BY <1>4 DEF WaitPark
<1>5. CASE Expire(w)
  BY <1>5 DEF Expire
<1>6. CASE WaitTimeout(w)
  BY <1>6 DEF WaitTimeout
<1>7. CASE SpuriousWake(w)
  BY <1>7 DEF SpuriousWake
<1> QED
  BY <1>1, <1>2, <1>3, <1>4, <1>5, <1>6, <1>7 DEF WaiterNext

(* A step that leaves the cell alone keeps it. *)
LEMMA OnlineInvStutter == OnlineInv /\ UNCHANGED onlineVars => OnlineInv'
BY DEF OnlineInv, OnlineTypeOK, MutexHeldToPark, ParkingJustified,
       NoMissedThreshold, PresenceReported, Want, onlineVars

LEMMA OnlineInvNext == OnlineInv /\ [OnlineNext]_onlineVars => OnlineInv'
<1> SUFFICES ASSUME OnlineInv, OnlineNext
             PROVE  OnlineInv'
  BY OnlineInvStutter
<1>1. CASE \E w \in Waiters : WaiterNext(w)
  BY <1>1, OnlineInvWaiter
<1>2. CASE \E n \in 0..MaxOnline : ~announcing /\ StoreMinConn(n)
  <2>1. \E n \in Nat : StoreMinConn(n)
    BY <1>2, OnlineAssumption
  <2> QED
    BY <2>1, OnlineInvCell
<1> QED
  BY <1>1, <1>2, OnlineInvCell DEF OnlineNext

(* The conjunction is an invariant of every behaviour of the cell. *)
THEOREM OnlineInvariance == OnlineSpec => []OnlineInv
<1> QED
  BY OnlineInvInit, OnlineInvNext, PTL DEF OnlineSpec

(***************************************************************************)
(* The counter of online_incr and online_decr never underflows and the     *)
(* other fields keep their types, for any number of waiters.               *)
(***************************************************************************)
THEOREM OnlineTyped == OnlineSpec => []OnlineTypeOK
<1>1. OnlineInv => OnlineTypeOK
  BY DEF OnlineInv
<1> QED
  BY <1>1, OnlineInvariance, PTL

(***************************************************************************)
(* No thread stays parked in wait_online once enough connections are       *)
(* online, however many threads wait and however the threshold moves.      *)
(***************************************************************************)
THEOREM ThresholdNotMissed == OnlineSpec => []NoMissedThreshold
<1>1. OnlineInv => NoMissedThreshold
  BY DEF OnlineInv
<1> QED
  BY <1>1, OnlineInvariance, PTL

(***************************************************************************)
(* The last Online or Offline event tells whether a connection is online.  *)
(***************************************************************************)
THEOREM PresenceIsReported == OnlineSpec => []PresenceReported
<1>1. OnlineInv => PresenceReported
  BY DEF OnlineInv
<1> QED
  BY <1>1, OnlineInvariance, PTL
----------------------------------------------------------------------------
(***************************************************************************)
(* What a subscriber of the event hub knows: the cell's invariant carried  *)
(* through the hub.                                                        *)
(***************************************************************************)
HubTypeOK ==
  /\ subs \subseteq Subs
  /\ heard \in [Subs -> Events \cup {"nothing"}]

(* Everyone who listens and heard something heard the last event. *)
LastEventHeard ==
  \A u \in Subs :
    u \in subs \ hung /\ heard[u] # "nothing" => (heard[u] = "Online" <=> reported > 0)

(* Nobody hears an event before subscribing: the hub drops only those that *)
(* hung up, so whoever is neither in its list nor gone was never in it.    *)
NothingBefore == \A u \in Subs \ (subs \cup hung) : heard[u] = "nothing"

(* The inductive invariant of the cell and its hub. *)
EventsInv ==
  /\ OnlineInv
  /\ HubTypeOK
  /\ NothingBefore
  /\ LastEventHeard

(* A new hub has no subscribers. *)
LEMMA EventsInvInit == EventsInit => EventsInv
BY OnlineInvInit DEF EventsInit, HubInit, EventsInv, HubTypeOK, NothingBefore, LastEventHeard

(* A step of the cell: what changes `reported` is emitted with it. *)
LEMMA EventsInvCell == EventsInv /\ CellStep => EventsInv'
<1> SUFFICES ASSUME EventsInv, CellStep
             PROVE  EventsInv'
  OBVIOUS
<1>1. OnlineInv'
  BY OnlineInvNext DEF EventsInv, CellStep
<1>2. CASE reported' = reported
  <2>1. UNCHANGED <<subs, hung, heard>>
    BY <1>2 DEF CellStep, hubVars
  <2> QED
    BY <1>1, <1>2, <2>1 DEF EventsInv, HubTypeOK, NothingBefore, LastEventHeard
<1>3. CASE reported' # reported
  <2> DEFINE ev == IF reported' > 0 THEN "Online" ELSE "Offline"
  <2>1. /\ subs' = subs \ hung /\ hung' = hung
        /\ heard' = [u \in Subs |-> IF u \in subs \ hung THEN ev ELSE heard[u]]
    BY <1>3 DEF CellStep, Emit
  <2>2. ev \in Events /\ (ev = "Online" <=> reported' > 0)
    BY DEF Events
  <2> HIDE DEF ev
  <2>3. HubTypeOK'
    BY <2>1, <2>2 DEF EventsInv, HubTypeOK
  <2>4. NothingBefore' /\ LastEventHeard'
    BY <2>1, <2>2 DEF EventsInv, NothingBefore, LastEventHeard
  <2> QED
    BY <1>1, <2>3, <2>4 DEF EventsInv
<1> QED
  BY <1>2, <1>3

(* Subscribers that come have heard nothing, those that go do not count. *)
LEMMA EventsInvHub == EventsInv /\ HubStep => EventsInv'
<1> SUFFICES ASSUME EventsInv, HubStep
             PROVE  EventsInv'
  OBVIOUS
<1>1. OnlineInv' /\ reported' = reported /\ heard' = heard
  BY OnlineInvStutter DEF EventsInv, HubStep, Subscribe, HangUp, onlineVars
<1>2. PICK u \in Subs : Subscribe(u) \/ HangUp(u)
  BY DEF HubStep
<1>3. CASE Subscribe(u)
  BY <1>1, <1>3 DEF Subscribe, EventsInv, HubTypeOK, NothingBefore, LastEventHeard
<1>4. CASE HangUp(u)
  BY <1>1, <1>4 DEF HangUp, EventsInv, HubTypeOK, NothingBefore, LastEventHeard
<1> QED
  BY <1>2, <1>3, <1>4

LEMMA EventsInvStutter == EventsInv /\ UNCHANGED onlineEventVars => EventsInv'
BY OnlineInvStutter DEF EventsInv, HubTypeOK, NothingBefore, LastEventHeard, onlineEventVars, onlineVars, hubVars

(***************************************************************************)
(* A subscriber that heard anything can rely on the last event it heard,   *)
(* for any number of subscribers that come, go and hang up.                *)
(***************************************************************************)
THEOREM SubscribersAgree == EventsSpec => []SubscriberAgrees
<1>1. EventsInv /\ [CellStep \/ HubStep]_onlineEventVars => EventsInv'
  BY EventsInvCell, EventsInvHub, EventsInvStutter
<1>2. EventsInv => SubscriberAgrees
  BY DEF EventsInv, OnlineInv, PresenceReported, LastEventHeard, SubscriberAgrees
<1> QED
  BY EventsInvInit, <1>1, <1>2, PTL DEF EventsSpec
============================================================================
