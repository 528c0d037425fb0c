---------------------------- MODULE OnlineState ----------------------------
(***************************************************************************)
(* The online-state cell of a native spot client: the counter of online    *)
(* connections behind its mutex, the condition variable wait_online parks  *)
(* on, the connection threshold min_conn, the closed flag, and the Status  *)
(* events the counter emits (spotlib/src/client.rs; the threshold store of *)
(* run_connect in spotlib/src/conn.rs).                                    *)
(*                                                                         *)
(* The connections are the environment here: any of them may come online   *)
(* or drop at any time.  Module ConnManager supplies the real ones and is  *)
(* checked to implement this specification.                                *)
(***************************************************************************)
EXTENDS Naturals

CONSTANTS
  Waiters,     \* the threads that call wait_online
  NoHolder,    \* "nobody holds the online_cnt mutex"
  MaxOnline    \* bound on the connections of the environment

ASSUME OnlineAssumption ==
  /\ NoHolder \notin Waiters
  /\ MaxOnline \in Nat

VARIABLES
  online_cnt,  \* connections past their handshake
  min_conn,    \* the threshold wait_online compares with
  announcing,  \* min_conn was stored and online_cv not yet notified
  closed,      \* the closed flag of the client
  closing,     \* close() stored the flag and did not yet notify online_cv
  lock,        \* the waiter that holds the online_cnt mutex across steps
  wait,        \* where each waiter is in wait_online
  expired,     \* its deadline has passed
  reported     \* online connections in the last Status event

onlineVars == <<online_cnt, min_conn, announcing, closed, closing, lock,
                wait, expired, reported>>

(***************************************************************************)
(* A waiter is outside wait_online, about to take the mutex, about to park *)
(* (its checks are done, it still holds the mutex), or parked.             *)
(***************************************************************************)
WaitStates == {"out", "locking", "parking", "parked"}

OnlineTypeOK ==
  /\ online_cnt \in Nat
  /\ min_conn \in Nat
  /\ announcing \in BOOLEAN
  /\ closed \in BOOLEAN
  /\ closing \in BOOLEAN
  /\ lock \in Waiters \cup {NoHolder}
  /\ wait \in [Waiters -> WaitStates]
  /\ expired \in [Waiters -> BOOLEAN]
  /\ reported \in Nat

OnlineInit ==
  /\ online_cnt = 0
  /\ min_conn = 1
  /\ announcing = FALSE
  /\ closed = FALSE
  /\ closing = FALSE
  /\ lock = NoHolder
  /\ wait = [w \in Waiters |-> "out"]
  /\ expired = [w \in Waiters |-> FALSE]
  /\ reported = 0

(* Condvar::notify_all: every parked thread goes for the mutex again. *)
Notified == [w \in Waiters |-> IF wait[w] = "parked" THEN "locking" ELSE wait[w]]
----------------------------------------------------------------------------
(* online_incr: under the mutex, a Status on 0 -> 1, then notify_all. *)
OnlineIncr ==
  /\ lock = NoHolder
  /\ online_cnt' = online_cnt + 1
  /\ reported' = IF online_cnt' = 1 THEN online_cnt' ELSE reported
  /\ wait' = Notified
  /\ UNCHANGED <<min_conn, announcing, closed, closing, lock, expired>>

(* Mutant: the drop is counted by the guard and once more by its caller. *)
OnlineDecrTwice ==
  /\ lock = NoHolder
  /\ online_cnt' = online_cnt - 2
  /\ reported' = IF online_cnt' = 0 THEN online_cnt' ELSE reported
  /\ UNCHANGED <<min_conn, announcing, closed, closing, lock, wait, expired>>

(* Mutant: the Offline test is made before the counter is decremented. *)
OnlineDecrTestsFirst ==
  /\ lock = NoHolder
  /\ online_cnt' = online_cnt - 1
  /\ reported' = IF online_cnt = 0 THEN online_cnt' ELSE reported
  /\ UNCHANGED <<min_conn, announcing, closed, closing, lock, wait, expired>>

(* online_decr: a Status on 1 -> 0; nobody is notified of a drop. *)
OnlineDecr ==
  /\ lock = NoHolder
  /\ online_cnt' = online_cnt - 1
  /\ reported' = IF online_cnt' = 0 THEN online_cnt' ELSE reported
  /\ UNCHANGED <<min_conn, announcing, closed, closing, lock, wait, expired>>

(* Mutant: the threshold is stored without the online_cnt mutex. *)
StoreMinConnUnlocked(n) ==
  /\ min_conn' = n
  /\ announcing' = TRUE
  /\ UNCHANGED <<online_cnt, closed, closing, lock, wait, expired, reported>>

(* run_connect stores the threshold while it holds the mutex ... *)
StoreMinConn(n) ==
  /\ lock = NoHolder
  /\ min_conn' = n
  /\ announcing' = TRUE
  /\ UNCHANGED <<online_cnt, closed, closing, lock, wait, expired, reported>>

(* ... and notifies the condition variable after it released it. *)
AnnounceMinConn ==
  /\ announcing
  /\ announcing' = FALSE
  /\ wait' = Notified
  /\ UNCHANGED <<online_cnt, min_conn, closed, closing, lock, expired, reported>>

(* Client::close stores the flag without the mutex ... *)
CloseStore ==
  /\ ~closing
  /\ closed' = TRUE
  /\ closing' = TRUE
  /\ UNCHANGED <<online_cnt, min_conn, announcing, lock, wait, expired, reported>>

(* ... and then notifies the condition variable. *)
CloseNotify ==
  /\ closing
  /\ closing' = FALSE
  /\ wait' = Notified
  /\ UNCHANGED <<online_cnt, min_conn, announcing, closed, lock, expired, reported>>
----------------------------------------------------------------------------
(* A caller enters wait_online with a fresh deadline. *)
WaitEnter(w) ==
  /\ wait[w] = "out"
  /\ wait' = [wait EXCEPT ![w] = "locking"]
  /\ expired' = [expired EXCEPT ![w] = FALSE]
  /\ UNCHANGED <<online_cnt, min_conn, announcing, closed, closing, lock, reported>>

(* The number of online connections wait_online asks for: min_conn.max(1). *)
Want == IF min_conn > 1 THEN min_conn ELSE 1

(* Mutant: the loop forgets to compare the time with the deadline. *)
WaitReturnNoDeadline(w) ==
  /\ wait[w] = "locking"
  /\ lock = NoHolder
  /\ online_cnt >= Want \/ closed
  /\ wait' = [wait EXCEPT ![w] = "out"]
  /\ UNCHANGED <<online_cnt, min_conn, announcing, closed, closing, lock,
                 expired, reported>>

(* The body of the loop returns Ok, Closed or Timeout ... *)
WaitReturn(w) ==
  /\ wait[w] = "locking"
  /\ lock = NoHolder
  /\ online_cnt >= Want \/ closed \/ expired[w]
  /\ wait' = [wait EXCEPT ![w] = "out"]
  /\ UNCHANGED <<online_cnt, min_conn, announcing, closed, closing, lock,
                 expired, reported>>

(* ... or finds nothing to return and keeps the mutex on its way to park. *)
WaitCheck(w) ==
  /\ wait[w] = "locking"
  /\ lock = NoHolder
  /\ ~(online_cnt >= Want \/ closed \/ expired[w])
  /\ lock' = w
  /\ wait' = [wait EXCEPT ![w] = "parking"]
  /\ UNCHANGED <<online_cnt, min_conn, announcing, closed, closing, expired, reported>>

(* Condvar::wait_timeout: release the mutex and park, in one step. *)
WaitPark(w) ==
  /\ wait[w] = "parking"
  /\ lock' = NoHolder
  /\ wait' = [wait EXCEPT ![w] = "parked"]
  /\ UNCHANGED <<online_cnt, min_conn, announcing, closed, closing, expired, reported>>

(* The deadline of a call in progress passes. *)
Expire(w) ==
  /\ wait[w] # "out"
  /\ ~expired[w]
  /\ expired' = [expired EXCEPT ![w] = TRUE]
  /\ UNCHANGED <<online_cnt, min_conn, announcing, closed, closing, lock, wait, reported>>

(* A park ends by its timeout ... *)
WaitTimeout(w) ==
  /\ wait[w] = "parked"
  /\ expired[w]
  /\ wait' = [wait EXCEPT ![w] = "locking"]
  /\ UNCHANGED <<online_cnt, min_conn, announcing, closed, closing, lock,
                 expired, reported>>

(* ... or spuriously, as a condition variable may. *)
SpuriousWake(w) ==
  /\ wait[w] = "parked"
  /\ ~expired[w]
  /\ wait' = [wait EXCEPT ![w] = "locking"]
  /\ UNCHANGED <<online_cnt, min_conn, announcing, closed, closing, lock,
                 expired, reported>>

WaiterNext(w) ==
  \/ WaitEnter(w) \/ WaitReturn(w) \/ WaitCheck(w) \/ WaitPark(w)
  \/ Expire(w) \/ WaitTimeout(w) \/ SpuriousWake(w)
----------------------------------------------------------------------------
OnlineNext ==
  \/ online_cnt < MaxOnline /\ OnlineIncr
  \/ online_cnt > 0 /\ OnlineDecr
  \/ \E n \in 0..MaxOnline : ~announcing /\ StoreMinConn(n)
  \/ AnnounceMinConn
  \/ CloseStore
  \/ CloseNotify
  \/ \E w \in Waiters : WaiterNext(w)

OnlineSpec == OnlineInit /\ [][OnlineNext]_onlineVars

(***************************************************************************)
(* A thread that is in the middle of a call keeps running, the mutex is    *)
(* eventually granted to each thread that asks for it again and again, and *)
(* every deadline is finite.  Nobody is obliged to call wait_online.       *)
(***************************************************************************)
OnlineFairness ==
  /\ WF_onlineVars(AnnounceMinConn)
  /\ WF_onlineVars(CloseNotify)
  /\ \A w \in Waiters :
       /\ SF_onlineVars(WaitReturn(w))
       /\ SF_onlineVars(WaitCheck(w))
       /\ WF_onlineVars(WaitPark(w))
       /\ WF_onlineVars(Expire(w))
       /\ WF_onlineVars(WaitTimeout(w))

FairOnlineSpec == OnlineSpec /\ OnlineFairness
----------------------------------------------------------------------------
(***************************************************************************)
(* No waiter sleeps through the condition it waits for: while a thread is  *)
(* parked in wait_online, fewer connections than the threshold are online, *)
(* unless run_connect is just about to notify.  This is what holding the   *)
(* mutex while min_conn is stored is for.                                  *)
(***************************************************************************)
NoMissedThreshold ==
  \A w \in Waiters : wait[w] = "parked" /\ ~announcing => online_cnt < Want

(***************************************************************************)
(* Subscribers that follow the Online and Offline events know whether the  *)
(* client is online: the last Status event reported a connection exactly   *)
(* when there is one.                                                      *)
(***************************************************************************)
PresenceReported == (reported > 0) <=> (online_cnt > 0)

(***************************************************************************)
(* The mutex is held across a step only by the waiter that is about to     *)
(* park, so at most one thread is between its checks and its wait.         *)
(***************************************************************************)
MutexHeldToPark == \A w \in Waiters : wait[w] = "parking" <=> lock = w

(* Every call of wait_online returns, whatever the connections do. *)
WaitReturns == \A w \in Waiters : (wait[w] # "out") ~> (wait[w] = "out")

(***************************************************************************)
(* "wake up wait_online callers" (client.rs:1140): once close() has        *)
(* notified, nobody is left parked.                                        *)
(***************************************************************************)
CloseWakesWaiters ==
  \A w \in Waiters : closed /\ ~closing => wait[w] # "parked"
============================================================================
