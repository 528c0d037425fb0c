--------------------------- MODULE BrowserClient ----------------------------
(***************************************************************************)
(* The browser build of the client: conn_wasm.rs and the wasm half of      *)
(* client.rs.  Everything runs on one event loop, so an action is what a   *)
(* task does from one await to the next.  Outgoing messages are written by *)
(* whichever task wants to send, on one sink that all connections share.   *)
(***************************************************************************)
EXTENDS Naturals, Sequences, FiniteSets, SequencesExt

CONSTANTS
  Hosts,        \* spot servers
  Queries,      \* calls of query, each with its message
  Waiters,      \* calls of wait_online
  Handshake,    \* a handshake response sent in mid-session
  NoSend,       \* "awaits no send"
  ApiLists,     \* the host lists the API may answer
  MaxReported,  \* largest min_conn the API reports
  MaxHosts,     \* host lists are cut to this length (10)
  MaxFail,      \* CONN_MAX_FAIL (10)
  SendsFail     \* whether a send may fail before the stream ends

ASSUME BrowserAssumption ==
  /\ Handshake \notin Queries /\ NoSend \notin Queries \cup {Handshake}
  /\ Hosts \cap Queries = {} /\ ApiLists \subseteq Seq(Hosts)
  /\ {MaxReported, MaxHosts, MaxFail} \subseteq Nat
  /\ SendsFail \in BOOLEAN

VARIABLES
  main,     \* what main_loop awaits
  todo,     \* the hosts run_connect has still to dial
  hosts, minConn, connCnt, online, closed,      \* fields of Inner
  task,     \* what the connection task of a host awaits
  fails,    \* its failure counter
  sink,     \* whether a send half is installed: the code never asks whose
  outq,     \* the queue of unsent messages
  flight,   \* the message whose send a task or a call awaits
  wire,     \* messages written; no field
  query,    \* the calls of query
  inq,      \* the calls that may still be answered
  wait      \* the calls of wait_online

mgrVars == <<main, todo, hosts, minConn, connCnt, closed>>
taskVars == <<task, fails>>
outVars == <<sink, outq, flight, wire>>
callVars == <<query, inq>>
vars == <<mgrVars, taskVars, outVars, callVars, online, wait>>

Flushers == Hosts \cup Queries

TypeOK ==
  /\ main \in {"fetch", "stagger", "tick", "done"}
  /\ todo \in Seq(Hosts)
  /\ hosts \subseteq Hosts
  /\ minConn \in Nat /\ connCnt \in Nat /\ online \in Nat
  /\ closed \in BOOLEAN
  /\ task \in [Hosts -> {"none", "dial", "shake", "online", "pause"}]
  /\ fails \in [Hosts -> 0..MaxFail]
  /\ sink \in BOOLEAN
  /\ outq \in Seq(Queries)
  /\ flight \in [Flushers -> Queries \cup {Handshake, NoSend}]
  /\ wire \subseteq Queries
  /\ query \in [Queries -> {"idle", "open", "done"}]
  /\ inq \subseteq Queries
  /\ wait \in [Waiters -> {"idle", "parked", "woken", "returned"}]

Init ==
  /\ main = "fetch" /\ todo = <<>> /\ hosts = {}
  /\ minConn = 1 /\ connCnt = 0 /\ online = 0 /\ closed = FALSE
  /\ task = [h \in Hosts |-> "none"]
  /\ fails = [h \in Hosts |-> 0]
  /\ sink = FALSE /\ outq = <<>> /\ wire = {}
  /\ flight = [f \in Flushers |-> NoSend]
  /\ query = [q \in Queries |-> "idle"] /\ inq = {}
  /\ wait = [w \in Waiters |-> "idle"]
----------------------------------------------------------------------------
(***************************************************************************)
(* Waiting for connections.                                                *)
(***************************************************************************)

(* wake_online_waiters fires every waker, and the list is empty again. *)
WakeWaiters == wait' = [w \in Waiters |-> IF wait[w] = "parked" THEN "woken" ELSE wait[w]]

(* The loop of wait_online: up to its result or its next await. *)
WaitCheck(w, expired) ==
  /\ wait' = [wait EXCEPT ![w] =
       IF online >= (IF minConn = 0 THEN 1 ELSE minConn) \/ closed \/ expired
         THEN "returned" ELSE "parked"]
  /\ UNCHANGED <<mgrVars, taskVars, outVars, callVars, online>>

(* The call begins, its waker fires, or its time is over. *)
WaitOnline(w) == wait[w] \in {"idle", "woken"} /\ \E late \in BOOLEAN : WaitCheck(w, late)
WaitExpires(w) == wait[w] = "parked" /\ WaitCheck(w, TRUE)

(***************************************************************************)
(* Inner::online_incr and Inner::online_decr; their events are those of    *)
(* OnlineState.                                                            *)
(***************************************************************************)
OnlineIncr == online' = online + 1 /\ WakeWaiters
OnlineDecr == online' = online - 1 /\ WakeWaiters
----------------------------------------------------------------------------
(***************************************************************************)
(* Sending.  One round of flush_out, from looking for a sink to awaiting   *)
(* the send of the first message of the queue q, or to its return.         *)
(***************************************************************************)
FlushRound(f, up, q) ==
  IF up /\ q # <<>>
    THEN outq' = Tail(q) /\ flight' = [flight EXCEPT ![f] = Head(q)]
    ELSE outq' = q /\ flight' = [flight EXCEPT ![f] = NoSend]

Sending(f) == flight[f] \in Queries

(***************************************************************************)
(* The awaited send succeeds, as it may on a socket that is going down,    *)
(* and flush_out goes on with the sink there is now.                       *)
(***************************************************************************)
SendOk(f) ==
  /\ Sending(f)
  /\ wire' = wire \cup {flight[f]}
  /\ FlushRound(f, sink, outq)
  /\ UNCHANGED <<mgrVars, taskVars, sink, callVars, online, wait>>

(* Mutant: the message is forgotten with the socket. *)
SendErrDrops(f) ==
  /\ Sending(f) /\ SendsFail
  /\ sink' = FALSE
  /\ FlushRound(f, FALSE, outq)
  /\ UNCHANGED <<mgrVars, taskVars, wire, callVars, online, wait>>

(***************************************************************************)
(* It fails: the message goes back to the front and the sink is dropped,   *)
(* also when it is no longer the sink that failed.                         *)
(***************************************************************************)
SendErr(f) ==
  /\ Sending(f) /\ SendsFail
  /\ sink' = FALSE
  /\ FlushRound(f, FALSE, <<flight[f]>> \o outq)
  /\ UNCHANGED <<mgrVars, taskVars, wire, callVars, online, wait>>
----------------------------------------------------------------------------
(***************************************************************************)
(* query: the entry in in_q, the push, then the wait under a timer of its  *)
(* own, which starts only when push_out has returned.                      *)
(***************************************************************************)
Query(q) ==
  /\ query[q] = "idle"
  /\ query' = [query EXCEPT ![q] = "open"]
  /\ inq' = inq \cup {q}
  /\ FlushRound(q, sink, Append(outq, q))
  /\ UNCHANGED <<mgrVars, taskVars, sink, wire, online, wait>>

(* The answer or the timer ends the call; its guard clears the entry. *)
QueryEnds(q) ==
  /\ query[q] = "open" /\ flight[q] = NoSend
  /\ query' = [query EXCEPT ![q] = "done"]
  /\ inq' = inq \ {q}
  /\ UNCHANGED <<mgrVars, taskVars, outVars, online, wait>>
----------------------------------------------------------------------------
(***************************************************************************)
(* A connection task.                                                      *)
(***************************************************************************)

(* Its end: the host may be dialled again. *)
TaskExit(h) ==
  /\ task' = [task EXCEPT ![h] = "none"]
  /\ fails' = [fails EXCEPT ![h] = 0]
  /\ hosts' = hosts \ {h}
  /\ connCnt' = connCnt - 1

(* After an attempt: give up on the host, or pause before the next one. *)
Failed(h) ==
  IF fails[h] + 1 > MaxFail
    THEN TaskExit(h)
    ELSE /\ task' = [task EXCEPT ![h] = "pause"]
         /\ fails' = [fails EXCEPT ![h] = @ + 1]
         /\ UNCHANGED <<hosts, connCnt>>

Healthy(h) ==
  /\ task' = [task EXCEPT ![h] = "pause"]
  /\ fails' = [fails EXCEPT ![h] = 0]
  /\ UNCHANGED <<hosts, connCnt>>

DialFails(h) ==
  /\ task[h] = "dial"
  /\ Failed(h)
  /\ UNCHANGED <<main, todo, minConn, closed, outVars, callVars, online, wait>>

DialOk(h) ==
  /\ task[h] = "dial"
  /\ task' = [task EXCEPT ![h] = "shake"]
  /\ UNCHANGED <<mgrVars, fails, outVars, callVars, online, wait>>

(* The pause is over: the loop tests the closed flag. *)
PauseEnds(h) ==
  /\ task[h] = "pause"
  /\ IF closed THEN TaskExit(h)
     ELSE task' = [task EXCEPT ![h] = "dial"] /\ UNCHANGED <<fails, hosts, connCnt>>
  /\ UNCHANGED <<main, todo, minConn, closed, outVars, callVars, online, wait>>

(* handshake() returns an error. *)
HandshakeFails(h) ==
  /\ task[h] = "shake"
  /\ Failed(h)
  /\ UNCHANGED <<main, todo, minConn, closed, outVars, callVars, online, wait>>

(* Mutant: the sink is installed and the queue left alone. *)
HandshakeOkNoFlush(h) ==
  /\ task[h] = "shake"
  /\ task' = [task EXCEPT ![h] = "online"]
  /\ OnlineIncr
  /\ sink' = TRUE
  /\ UNCHANGED <<mgrVars, fails, outq, flight, wire, callVars>>

(* It succeeds: the connection is online, its sink replaces the one that   *)
(* was installed, and the queue is flushed.                                *)
HandshakeOk(h) ==
  /\ task[h] = "shake"
  /\ task' = [task EXCEPT ![h] = "online"]
  /\ OnlineIncr
  /\ sink' = TRUE
  /\ FlushRound(h, TRUE, outq)
  /\ UNCHANGED <<mgrVars, fails, wire, callVars>>

(* read_loop returns: whatever sink is installed is dropped. *)
SessionEnds(h) ==
  /\ sink' = FALSE
  /\ OnlineDecr
  /\ Failed(h) \/ Healthy(h)
  /\ UNCHANGED <<main, todo, minConn, closed, outq, wire>>

Reading(h) == task[h] = "online" /\ flight[h] = NoSend

(* The stream ends or brings what does not parse ... *)
ReadEnds(h) ==
  /\ Reading(h)
  /\ SessionEnds(h)
  /\ UNCHANGED <<flight, callVars>>

(* Mutant: the loop goes on reading before it looks at the closed flag. *)
ReadPollsNot(h) ==
  /\ Reading(h) /\ closed
  /\ UNCHANGED vars

(* ... or the read deadline passes on a closed client ... *)
ReadPolls(h) ==
  /\ Reading(h) /\ closed
  /\ SessionEnds(h)
  /\ UNCHANGED <<flight, callVars>>

(* ... or an answer comes in, for the query if it still waits ... *)
ReadAnswer(h, q) ==
  /\ Reading(h) /\ q \in wire
  /\ inq' = inq \ {q}
  /\ IF closed THEN SessionEnds(h)
     ELSE UNCHANGED <<main, todo, minConn, closed, hosts, connCnt, taskVars, sink, outq, wire, online, wait>>
  /\ UNCHANGED <<flight, query>>

(***************************************************************************)
(* ... or the server starts another handshake: the response is sent on the *)
(* sink that is installed, and without one the session ends.               *)
(***************************************************************************)
ReadHandshake(h) ==
  /\ Reading(h)
  /\ IF ~sink THEN SessionEnds(h) /\ UNCHANGED flight
     ELSE /\ flight' = [flight EXCEPT ![h] = Handshake]
          /\ UNCHANGED <<mgrVars, taskVars, sink, outq, wire, online, wait>>
  /\ UNCHANGED callVars

(* send_raw returns; the loop goes on unless it failed or the client closed. *)
ResponseSent(h) ==
  /\ flight[h] = Handshake
  /\ flight' = [flight EXCEPT ![h] = NoSend]
  /\ \/ (closed \/ SendsFail) /\ SessionEnds(h)
     \/ ~closed /\ UNCHANGED <<mgrVars, taskVars, sink, outq, wire, online, wait>>
  /\ UNCHANGED callVars
----------------------------------------------------------------------------
(***************************************************************************)
(* The main loop.                                                          *)
(***************************************************************************)

(* The loop over the hosts in run_connect, from a list to the pause after  *)
(* the next task it spawns, or to its end.  A host is looked up when the   *)
(* loop comes to it.                                                       *)
DialNext(list) ==
  \/ /\ closed \/ \A i \in DOMAIN list : list[i] \in hosts
     /\ todo' = <<>>
     /\ main' = IF closed THEN "done" ELSE "tick"
     /\ UNCHANGED <<hosts, connCnt, task>>
  \/ /\ ~closed
     /\ \E i \in DOMAIN list :
          /\ list[i] \notin hosts /\ \A j \in 1..(i - 1) : list[j] \in hosts
          /\ hosts' = hosts \cup {list[i]}
          /\ task' = [task EXCEPT ![list[i]] = "dial"]
          /\ todo' = SubSeq(list, i + 1, Len(list))
     /\ main' = "stagger"
     /\ connCnt' = connCnt + 1

(* Mutant: the new threshold is stored and nobody is told. *)
FetchedSilent(list, reported) ==
  LET cut == SubSeq(list, 1, IF Len(list) > MaxHosts THEN MaxHosts ELSE Len(list)) IN
  /\ main = "fetch"
  /\ minConn' = IF reported = 0 \/ reported > Len(cut) THEN Len(cut) ELSE reported
  /\ wait' = wait
  /\ DialNext(cut)
  /\ UNCHANGED <<closed, fails, outVars, callVars, online>>

(* get_hosts answers: the threshold is stored and the waiters re-evaluate. *)
Fetched(list, reported) ==
  LET cut == SubSeq(list, 1, IF Len(list) > MaxHosts THEN MaxHosts ELSE Len(list)) IN
  /\ main = "fetch"
  /\ minConn' = IF reported = 0 \/ reported > Len(cut) THEN Len(cut) ELSE reported
  /\ WakeWaiters
  /\ DialNext(cut)
  /\ UNCHANGED <<closed, fails, outVars, callVars, online>>

(* It fails: the loop waits for its next tick, unless the client is closed. *)
FetchFails ==
  /\ main = "fetch"
  /\ main' = IF closed THEN "done" ELSE "tick"
  /\ UNCHANGED <<todo, hosts, minConn, connCnt, closed, taskVars, outVars, callVars, online, wait>>

(* CONN_STAGGER is over. *)
StaggerEnds ==
  /\ main = "stagger"
  /\ DialNext(todo)
  /\ UNCHANGED <<minConn, closed, fails, outVars, callVars, online, wait>>

(* MAINTENANCE_TICK *)
Tick ==
  /\ main = "tick"
  /\ main' = IF closed THEN "done" ELSE IF connCnt < minConn THEN "fetch" ELSE "tick"
  /\ UNCHANGED <<todo, hosts, minConn, connCnt, closed, taskVars, outVars, callVars, online, wait>>

(* Client::close *)
Close ==
  /\ closed' = TRUE
  /\ WakeWaiters
  /\ UNCHANGED <<main, todo, hosts, minConn, connCnt, taskVars, outVars, callVars, online>>
----------------------------------------------------------------------------
MainNext ==
  \/ \E list \in ApiLists, n \in 0..MaxReported : Fetched(list, n)
  \/ FetchFails \/ StaggerEnds \/ Tick

TaskNext(h) ==
  \/ DialFails(h) \/ DialOk(h) \/ PauseEnds(h)
  \/ HandshakeFails(h) \/ HandshakeOk(h)
  \/ ReadEnds(h) \/ ReadPolls(h) \/ ReadHandshake(h) \/ ResponseSent(h)
  \/ \E q \in Queries : ReadAnswer(h, q)

CallNext ==
  \/ \E q \in Queries : Query(q) \/ QueryEnds(q)
  \/ \E w \in Waiters : WaitOnline(w) \/ WaitExpires(w)
  \/ Close

Next ==
  \/ MainNext
  \/ \E h \in Hosts : TaskNext(h)
  \/ \E f \in Flushers : SendOk(f) \/ SendErr(f)
  \/ CallNext

Spec == Init /\ [][Next]_vars

(***************************************************************************)
(* Fairness: timers fire, awaited sends, dials and handshakes end, and the *)
(* event loop runs every task that can go on.  That a stream ends or that  *)
(* an answer comes is never due.                                           *)
(***************************************************************************)
Fairness ==
  /\ WF_vars(MainNext)
  /\ \A h \in Hosts :
       /\ WF_vars(DialFails(h) \/ DialOk(h) \/ PauseEnds(h))
       /\ WF_vars(HandshakeFails(h) \/ HandshakeOk(h))
       /\ WF_vars(ReadPolls(h))
       /\ WF_vars(ResponseSent(h))
  /\ \A f \in Flushers : WF_vars(SendOk(f) \/ SendErr(f))
  /\ \A q \in Queries : WF_vars(QueryEnds(q))
  /\ \A w \in Waiters : WF_vars(WaitOnline(w)) /\ WF_vars(WaitExpires(w))

FairSpec == Spec /\ Fairness
----------------------------------------------------------------------------
(***************************************************************************)
(* Messages survive the sink: from push_out to the write a message is in   *)
(* the queue or in the hands of one task that awaits its send, and it is   *)
(* written once, whatever sinks are swapped or dropped meanwhile.          *)
(***************************************************************************)
Abstract ==
  INSTANCE Outbox WITH
    Msgs <- Queries,
    pending <- Range(outq) \cup {flight[f] : f \in {g \in Flushers : Sending(g)}},
    delivered <- wire

ImplementsOutbox == Abstract!OutboxSpec

(***************************************************************************)
(* No message waits beside a usable sink: if the queue is not empty and no *)
(* task is in the middle of flush_out, no sink is installed.               *)
(***************************************************************************)
NoIdleQueue ==
  (outq # <<>> /\ \A f \in Flushers : ~Sending(f)) => ~sink

(***************************************************************************)
(* What the comments on `sink` and drop_sink say: a message waits in the   *)
(* queue only while no connection is online.                               *)
(***************************************************************************)
OnlineFlushes ==
  (outq # <<>> /\ online > 0) ~> (outq = <<>> \/ online = 0 \/ closed)

(***************************************************************************)
(* A caller of wait_online that sleeps has reason to: every change that    *)
(* could end its wait has fired its waker in the same step.                *)
(***************************************************************************)
ParkedMeansBelow ==
  \A w \in Waiters : wait[w] = "parked" => ~closed /\ (online < minConn \/ online = 0)

(* close() ends the main loop and every connection task. *)
CloseEnds == closed ~> (main = "done" /\ \A h \in Hosts : task[h] = "none")
============================================================================
