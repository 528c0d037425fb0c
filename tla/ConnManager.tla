---------------------------- MODULE ConnManager ----------------------------
(***************************************************************************)
(* The connection manager of a native spot client (spotlib/src/conn.rs):   *)
(* the main thread, which fetches the host list and keeps enough           *)
(* connections going, and one thread per host, which dials, performs the   *)
(* handshake, serves the session and reconnects until it gives up.  They   *)
(* share the set of hosts, the connection counter and the online-state     *)
(* cell of OnlineState with the callers of wait_online and close().        *)
(***************************************************************************)
EXTENDS OnlineState, Sequences, FiniteSets

CONSTANTS
  Hosts,        \* the host names the API may return
  NoHost,       \* "this slot runs no thread"
  Threads,      \* slots for connection threads: bounds how many live at once
  ApiLists,     \* the host lists the API may return
  MaxReported,  \* bound on the min_conn the API reports
  MaxHosts,     \* hosts.truncate(10)
  MaxFail,      \* CONN_MAX_FAIL
  HealthyAfter, \* CONN_HEALTHY_AFTER, in steps of the clock
  TickPeriod    \* main-loop ticks between two looks at the counters

ASSUME ConnAssumption ==
  /\ NoHost \notin Hosts
  /\ IsFiniteSet(Threads)
  /\ ApiLists \subseteq Seq(Hosts)
  /\ {MaxReported, MaxHosts, MaxFail, HealthyAfter} \subseteq Nat
  /\ TickPeriod \in Nat \ {0}

(* The environment of OnlineState is wide enough for these connections. *)
ASSUME BoundAssumption == Cardinality(Threads) <= MaxOnline /\ MaxHosts <= MaxOnline

VARIABLES
  hosts,     \* the hosts that have a connection thread
  conn_cnt,  \* the connection threads that are running
  mpc,       \* where the main thread is
  tick,      \* its tick counter
  todo,      \* the hosts run_connect has still to look at
  pc,        \* where each connection thread is
  at,        \* the host it serves
  fails,     \* its consecutive failed attempts
  age,       \* time since its dial succeeded (saturates at HealthyAfter)
  lasted     \* history: time since its handshake ended, in a session (saturates)

connVars == <<hosts, conn_cnt, mpc, tick, todo, pc, at, fails, age, lasted>>
threadVars == <<pc, at, fails, age, lasted>>
mainVars == <<mpc, tick, todo>>
vars == <<onlineVars, connVars>>

(***************************************************************************)
(* The main thread fetches, spawns, tests `closed` at the head of its      *)
(* loop, sleeps, or has returned.                                          *)
(***************************************************************************)
MainStates == {"fetch", "spawn", "head", "asleep", "done"}

(***************************************************************************)
(* A connection thread: spawned, at the head of its loop, dialling, in the *)
(* handshake, online, leaving the host set, leaving the counter.           *)
(***************************************************************************)
Registered == {"start", "loop", "dial", "shake", "online", "unreg"}
Counted == {"loop", "dial", "shake", "online", "unreg", "decr"}
ThreadStates == Registered \cup Counted \cup {"none"}

(* No u32 of the program leaves its range; each part has its type. *)
TypeOK ==
  /\ OnlineTypeOK
  /\ hosts \subseteq Hosts
  /\ conn_cnt \in Nat
  /\ mpc \in MainStates
  /\ tick \in 0..(TickPeriod - 1)
  /\ todo \in Seq(Hosts)
  /\ pc \in [Threads -> ThreadStates]
  /\ at \in [Threads -> Hosts \cup {NoHost}]
  /\ fails \in [Threads -> 0..(MaxFail + 1)]
  /\ age \in [Threads -> 0..HealthyAfter]
  /\ lasted \in [Threads -> 0..HealthyAfter]

Init ==
  /\ OnlineInit
  /\ hosts = {}
  /\ conn_cnt = 0
  /\ mpc = "fetch"
  /\ tick = 0
  /\ todo = <<>>
  /\ pc = [t \in Threads |-> "none"]
  /\ at = [t \in Threads |-> NoHost]
  /\ fails = [t \in Threads |-> 0]
  /\ age = [t \in Threads |-> 0]
  /\ lasted = [t \in Threads |-> 0]
----------------------------------------------------------------------------
(* run_connect: the API call fails and the threshold keeps its value. *)
RunConnectFail ==
  /\ mpc = "fetch"
  /\ mpc' = "head"
  /\ UNCHANGED <<onlineVars, hosts, conn_cnt, tick, todo, threadVars>>

Truncate(list) == IF Len(list) > MaxHosts THEN SubSeq(list, 1, MaxHosts) ELSE list

(* "All of them" by default, and never more than the length of the list. *)
Threshold(list, mc) == IF mc = 0 \/ mc > Len(list) THEN Len(list) ELSE mc

(* run_connect: a list arrives; the threshold is stored under the mutex. *)
RunConnectOk(list, mc) ==
  /\ mpc = "fetch"
  /\ StoreMinConn(Threshold(Truncate(list), mc))
  /\ todo' = Truncate(list)
  /\ mpc' = "spawn"
  /\ UNCHANGED <<hosts, conn_cnt, tick, threadVars>>

(* Mutant: the new threshold is not announced. *)
AnnounceSilently ==
  /\ announcing
  /\ announcing' = FALSE
  /\ UNCHANGED <<online_cnt, min_conn, closed, closing, lock, wait, expired,
                 reported, connVars>>

(* ... and announced once the mutex is released. *)
Announce == AnnounceMinConn /\ UNCHANGED connVars

(* Mutant: the result of HashSet::insert is not looked at. *)
SpawnConnTwice(t) ==
  /\ mpc = "spawn" /\ ~announcing
  /\ todo # <<>> /\ ~closed
  /\ pc[t] = "none"
  /\ hosts' = hosts \cup {Head(todo)}
  /\ pc' = [pc EXCEPT ![t] = "start"]
  /\ at' = [at EXCEPT ![t] = Head(todo)]
  /\ todo' = Tail(todo)
  /\ UNCHANGED <<onlineVars, conn_cnt, mpc, tick, fails, age, lasted>>

(* A host without a thread is registered and gets one ... *)
SpawnConn(t) ==
  /\ mpc = "spawn" /\ ~announcing
  /\ todo # <<>> /\ ~closed
  /\ Head(todo) \notin hosts
  /\ pc[t] = "none"
  /\ hosts' = hosts \cup {Head(todo)}
  /\ pc' = [pc EXCEPT ![t] = "start"]
  /\ at' = [at EXCEPT ![t] = Head(todo)]
  /\ todo' = Tail(todo)
  /\ UNCHANGED <<onlineVars, conn_cnt, mpc, tick, fails, age, lasted>>

(* ... a host that has one is passed over. *)
SkipHost ==
  /\ mpc = "spawn" /\ ~announcing
  /\ todo # <<>> /\ ~closed
  /\ Head(todo) \in hosts
  /\ todo' = Tail(todo)
  /\ UNCHANGED <<onlineVars, hosts, conn_cnt, mpc, tick, threadVars>>

(* The list is done, or the client was closed meanwhile. *)
SpawnDone ==
  /\ mpc = "spawn" /\ ~announcing
  /\ todo = <<>> \/ closed
  /\ todo' = <<>>
  /\ mpc' = "head"
  /\ UNCHANGED <<onlineVars, hosts, conn_cnt, tick, threadVars>>

LoopHead ==
  /\ mpc = "head"
  /\ mpc' = IF closed THEN "done" ELSE "asleep"
  /\ UNCHANGED <<onlineVars, hosts, conn_cnt, tick, todo, threadVars>>

(* Mutant: the tick counter is not reset and is compared with =. *)
TickNoReset ==
  /\ mpc = "asleep"
  /\ tick' = IF tick <= TickPeriod THEN tick + 1 ELSE tick
  /\ mpc' = IF tick' = TickPeriod /\ conn_cnt < min_conn THEN "fetch" ELSE "head"
  /\ UNCHANGED <<onlineVars, hosts, conn_cnt, todo, threadVars>>

(* One second later: every TickPeriod-th time, look at the counters. *)
Tick ==
  /\ mpc = "asleep"
  /\ tick' = (tick + 1) % TickPeriod
  /\ mpc' = IF tick' = 0 /\ conn_cnt < min_conn THEN "fetch" ELSE "head"
  /\ UNCHANGED <<onlineVars, hosts, conn_cnt, todo, threadVars>>
----------------------------------------------------------------------------
Goto(t, here, there) == pc[t] = here /\ pc' = [pc EXCEPT ![t] = there]

(* conn_thread begins to run and counts itself. *)
ThreadStart(t) ==
  /\ Goto(t, "start", "loop")
  /\ conn_cnt' = conn_cnt + 1
  /\ UNCHANGED <<onlineVars, hosts, mainVars, at, fails, age, lasted>>

(* Mutant: the loop of a connection thread does not look at the flag. *)
LoopCheckIgnoresClose(t) ==
  /\ Goto(t, "loop", "dial")
  /\ UNCHANGED <<onlineVars, hosts, conn_cnt, mainVars, at, fails, age, lasted>>

(* The head of the loop: a closed client makes no further attempt. *)
LoopCheck(t) ==
  /\ Goto(t, "loop", IF closed THEN "unreg" ELSE "dial")
  /\ UNCHANGED <<onlineVars, hosts, conn_cnt, mainVars, at, fails, age, lasted>>

(* A failed attempt is counted; too many in a row and the thread gives up. *)
AttemptFailed(t, here) ==
  /\ fails' = [fails EXCEPT ![t] = @ + 1]
  /\ Goto(t, here, IF fails[t] + 1 > MaxFail THEN "unreg" ELSE "loop")

DialFail(t) ==
  /\ AttemptFailed(t, "dial")
  /\ UNCHANGED <<onlineVars, hosts, conn_cnt, mainVars, at, age, lasted>>

DialOk(t) ==
  /\ Goto(t, "dial", "shake")
  /\ age' = [age EXCEPT ![t] = 0]
  /\ UNCHANGED <<onlineVars, hosts, conn_cnt, mainVars, at, fails, lasted>>

(* Mutant: the online guard is armed before the handshake. *)
HandshakeFailDecr(t) ==
  /\ AttemptFailed(t, "shake")
  /\ OnlineDecr
  /\ UNCHANGED <<hosts, conn_cnt, mainVars, at, age, lasted>>

HandshakeFail(t) ==
  /\ AttemptFailed(t, "shake")
  /\ UNCHANGED <<onlineVars, hosts, conn_cnt, mainVars, at, age, lasted>>

HandshakeOk(t) ==
  /\ Goto(t, "shake", "online")
  /\ OnlineIncr
  /\ UNCHANGED <<hosts, conn_cnt, mainVars, at, fails, age, lasted>>

(* One step of the clock that stops at HealthyAfter. *)
Older(clock, t) ==
  [clock EXCEPT ![t] = IF @ < HealthyAfter THEN @ + 1 ELSE @]

(* Time passes in a handshake or a session, until both clocks stand still. *)
Elapse(t) ==
  /\ \/ pc[t] = "shake" /\ age[t] < HealthyAfter /\ lasted' = lasted
     \/ pc[t] = "online" /\ lasted[t] < HealthyAfter /\ lasted' = Older(lasted, t)
  /\ age' = Older(age, t)
  /\ UNCHANGED <<onlineVars, hosts, conn_cnt, mainVars, pc, at, fails>>

(* Mutant: every session that was online at all resets the counter. *)
SessionEndForgives(t) ==
  /\ OnlineDecr
  /\ fails' = [fails EXCEPT ![t] = 0]
  /\ Goto(t, "online", "loop")
  /\ lasted' = [lasted EXCEPT ![t] = 0]
  /\ UNCHANGED <<hosts, conn_cnt, mainVars, at, age>>

(***************************************************************************)
(* handle() returns after a session: the guard counts the connection       *)
(* offline; a connection that lasted resets the failure counter, measured  *)
(* from the end of the dial, so that its handshake counts with it; a short *)
(* one is a failed attempt.                                                *)
(***************************************************************************)
SessionEnd(t) ==
  /\ OnlineDecr
  /\ IF age[t] >= HealthyAfter
       THEN fails' = [fails EXCEPT ![t] = 0] /\ Goto(t, "online", "loop")
       ELSE AttemptFailed(t, "online")
  /\ lasted' = [lasted EXCEPT ![t] = 0]
  /\ UNCHANGED <<hosts, conn_cnt, mainVars, at, age>>

(* Mutant: a thread that leaves keeps its host registered. *)
UnregisterForgotten(t) ==
  /\ Goto(t, "unreg", "decr")
  /\ UNCHANGED <<onlineVars, hosts, conn_cnt, mainVars, at, fails, age, lasted>>

(* The thread leaves the host set first: the host may be dialled again ... *)
Unregister(t) ==
  /\ Goto(t, "unreg", "decr")
  /\ hosts' = hosts \ {at[t]}
  /\ UNCHANGED <<onlineVars, conn_cnt, mainVars, at, fails, age, lasted>>

(* Mutant: the counter is set back instead of decremented. *)
ThreadExitResets(t) ==
  /\ Goto(t, "decr", "none")
  /\ conn_cnt' = 0
  /\ at' = [at EXCEPT ![t] = NoHost]
  /\ fails' = [fails EXCEPT ![t] = 0]
  /\ age' = [age EXCEPT ![t] = 0]
  /\ UNCHANGED <<onlineVars, hosts, mainVars, lasted>>

(* ... while it still counts; then it is gone and its slot is free. *)
ThreadExit(t) ==
  /\ Goto(t, "decr", "none")
  /\ conn_cnt' = conn_cnt - 1
  /\ at' = [at EXCEPT ![t] = NoHost]
  /\ fails' = [fails EXCEPT ![t] = 0]
  /\ age' = [age EXCEPT ![t] = 0]
  /\ UNCHANGED <<onlineVars, hosts, mainVars, lasted>>
----------------------------------------------------------------------------
MainNext ==
  \/ RunConnectFail
  \/ \E list \in ApiLists, mc \in 0..MaxReported : RunConnectOk(list, mc)
  \/ Announce
  \/ \E t \in Threads : SpawnConn(t)
  \/ SkipHost \/ SpawnDone \/ LoopHead \/ Tick

ThreadNext(t) ==
  \/ ThreadStart(t) \/ LoopCheck(t) \/ DialFail(t) \/ DialOk(t)
  \/ HandshakeFail(t) \/ HandshakeOk(t) \/ Elapse(t) \/ SessionEnd(t)
  \/ Unregister(t) \/ ThreadExit(t)

(* The application: close(), and threads inside wait_online. *)
UserNext ==
  /\ CloseStore \/ CloseNotify \/ \E w \in Waiters : WaiterNext(w)
  /\ UNCHANGED connVars

Next == MainNext \/ UserNext \/ \E t \in Threads : ThreadNext(t)

Spec == Init /\ [][Next]_vars

(***************************************************************************)
(* Fairness.  Every thread keeps running and gets the online_cnt mutex     *)
(* when it asks for it again and again; sleeps end; a dial ends within     *)
(* DIAL_TIMEOUT.  A handshake ends because each of its reads has a         *)
(* deadline and the server does not send other packets for ever.  A        *)
(* session need not end, except after close(), when the writer thread      *)
(* shuts the socket down or the reader polls the flag.  A call of          *)
(* wait_online releases the mutex it took.                                 *)
(***************************************************************************)
Fairness ==
  /\ SF_vars(RunConnectFail \/ \E list \in ApiLists, mc \in 0..MaxReported : RunConnectOk(list, mc))
  /\ WF_vars(Announce)
  /\ WF_vars((\E t \in Threads : SpawnConn(t)) \/ SkipHost \/ SpawnDone)
  /\ WF_vars(LoopHead \/ Tick)
  /\ \A t \in Threads :
       /\ WF_vars(ThreadStart(t) \/ LoopCheck(t) \/ Unregister(t) \/ ThreadExit(t))
       /\ WF_vars(DialFail(t) \/ DialOk(t))
       /\ SF_vars(HandshakeFail(t) \/ HandshakeOk(t))
       /\ SF_vars(closed /\ SessionEnd(t))
  /\ \A w \in Waiters : WF_vars(WaitPark(w) /\ UNCHANGED connVars)

FairSpec == Spec /\ Fairness
----------------------------------------------------------------------------
ThreadsIn(S) == {t \in Threads : pc[t] \in S}

(***************************************************************************)
(* conn_cnt and online_cnt, which connection_count() reports and the main  *)
(* loop decides by, are exactly the threads that run and the sessions that *)
(* are past their handshake, whatever path each thread took.               *)
(***************************************************************************)
CountersExact ==
  /\ conn_cnt = Cardinality(ThreadsIn(Counted))
  /\ online_cnt = Cardinality(ThreadsIn({"online"}))

(***************************************************************************)
(* Never two threads for one host, although a thread leaves the host set   *)
(* before it is done and its successor may start meanwhile.                *)
(***************************************************************************)
OneThreadPerHost ==
  \A t, u \in ThreadsIn(Registered) : at[t] = at[u] => t = u

(***************************************************************************)
(* The host set holds exactly the hosts that have a thread: a host is not  *)
(* lost to later host lists when its thread gave up or saw the client      *)
(* closed.                                                                 *)
(***************************************************************************)
HostsExact == hosts = {at[t] : t \in ThreadsIn(Registered)}

(* close() ends the main thread and every connection thread. *)
CloseTerminates ==
  closed ~> (mpc = "done" /\ \A t \in Threads : pc[t] = "none")

(***************************************************************************)
(* "once it falls below `min_conn` the main thread pulls a fresh host      *)
(* list": too few connections never persist without a new fetch.           *)
(***************************************************************************)
RefillHappens ==
  (conn_cnt < min_conn) ~> (mpc = "fetch" \/ conn_cnt >= min_conn \/ closed)

(***************************************************************************)
(* "a host that now accepts TCP but rejects the handshake eventually gives *)
(* up instead of pinning conn_cnt forever" (conn.rs:115-117), and so does  *)
(* one that drops soon after its dial: a thread ends, or stays in a        *)
(* session, or again and again has a connection that came online and got   *)
(* as old as CONN_HEALTHY_AFTER.  The age is what the code looks at, time  *)
(* in the handshake included; FlappersGiveUp leaves that time out.         *)
(***************************************************************************)
ShortConnectionsGiveUp ==
  \A t \in Threads :
    \/ []<>(pc[t] = "none")
    \/ <>[](pc[t] = "online")
    \/ []<>(pc[t] = "online" /\ age[t] >= HealthyAfter)

(***************************************************************************)
(* "How long a connection must stay online (past the handshake) before the *)
(* host is considered known-good [...]. A session that drops faster is     *)
(* treated as a failed attempt instead, so a host that changed and now     *)
(* misbehaves eventually gives up rather than looping forever"             *)
(* (conn.rs:37-40): a thread ends, or stays in a session, or again and     *)
(* again has a session that lasted that long after its handshake.          *)
(***************************************************************************)
FlappersGiveUp ==
  \A t \in Threads :
    \/ []<>(pc[t] = "none")
    \/ <>[](pc[t] = "online")
    \/ []<>(pc[t] = "online" /\ lasted[t] >= HealthyAfter)

(***************************************************************************)
(* "performs the initial connection, then periodically ensures enough      *)
(* connections are established" (conn.rs:47-48): an open client without    *)
(* any connection fetches a host list again.                               *)
(***************************************************************************)
KeepsTrying == (conn_cnt = 0) ~> (mpc = "fetch" \/ conn_cnt > 0 \/ closed)
============================================================================
