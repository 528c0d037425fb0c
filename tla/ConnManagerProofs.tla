------------------------- MODULE ConnManagerProofs -------------------------
(***************************************************************************)
(* The connection manager for any number of hosts, thread slots and        *)
(* waiters: its counters and its host set are exact, and its steps are     *)
(* steps of the online-state cell.  OnlineStateProofs also brings the      *)
(* variables of the event hub into scope; nothing here is about them.      *)
(***************************************************************************)
EXTENDS ConnManager, OnlineStateProofs, FiniteSetTheorems

(* run_connect is the only writer of the threshold. *)
AnnouncedBySpawn == announcing => mpc = "spawn"

(* A thread that still tries has not exhausted its attempts. *)
AttemptsLeft == \A t \in Threads : pc[t] \notin {"unreg", "decr"} => fails[t] <= MaxFail

(* The inductive invariant of the connection manager. *)
ConnInv ==
  /\ OnlineInv
  /\ TypeOK
  /\ CountersExact
  /\ OneThreadPerHost
  /\ HostsExact
  /\ AnnouncedBySpawn
  /\ AttemptsLeft

(* The states online_cnt counts. *)
OnlineStates == {"online"}

(* The threads whose state is in S, when f says where each thread is. *)
InStates(f, S) == {u \in Threads : f[u] \in S}

(* Such a set is finite and has at most as many members as there are slots. *)
LEMMA InStatesFinite ==
  ASSUME NEW f, NEW S
  PROVE  /\ IsFiniteSet(InStates(f, S))
         /\ Cardinality(InStates(f, S)) \in Nat
         /\ Cardinality(InStates(f, S)) <= Cardinality(Threads)
         /\ Cardinality(Threads) \in Nat
<1>1. InStates(f, S) \in SUBSET Threads
  BY DEF InStates
<1>2. IsFiniteSet(Threads)
  BY ConnAssumption
<1>3. IsFiniteSet(InStates(f, S)) /\ Cardinality(InStates(f, S)) <= Cardinality(Threads)
  BY <1>1, <1>2, FS_Subset
<1> QED
  BY <1>2, <1>3, FS_CardinalityType

(* Moves that neither enter nor leave S do not change their number. *)
LEMMA CountStays ==
  ASSUME NEW f, NEW g, NEW S, \A u \in Threads : g[u] \in S <=> f[u] \in S
  PROVE  Cardinality(InStates(g, S)) = Cardinality(InStates(f, S))
<1>1. InStates(g, S) = InStates(f, S)
  BY DEF InStates
<1> QED
  BY <1>1

(* A thread that enters or leaves S changes it by one. *)
LEMMA CountMove ==
  ASSUME NEW f, NEW g, NEW t \in Threads, NEW S,
         \A u \in Threads \ {t} : g[u] = f[u]
  PROVE  /\ f[t] \notin S /\ g[t] \in S
              => /\ Cardinality(InStates(g, S)) = Cardinality(InStates(f, S)) + 1
                 /\ Cardinality(InStates(f, S)) < Cardinality(Threads)
         /\ f[t] \in S /\ g[t] \notin S
              => /\ Cardinality(InStates(g, S)) = Cardinality(InStates(f, S)) - 1
                 /\ Cardinality(InStates(f, S)) > 0
<1>1. CASE f[t] \notin S /\ g[t] \in S
  <2>1. InStates(g, S) = InStates(f, S) \cup {t} /\ t \notin InStates(f, S)
    BY <1>1 DEF InStates
  <2>2. Cardinality(InStates(g, S)) = Cardinality(InStates(f, S)) + 1
    BY <2>1, InStatesFinite, FS_AddElement
  <2> QED
    BY <1>1, <2>2, InStatesFinite
<1>2. CASE f[t] \in S /\ g[t] \notin S
  <2>1. InStates(g, S) = InStates(f, S) \ {t} /\ t \in InStates(f, S)
    BY <1>2 DEF InStates
  <2>2. Cardinality(InStates(g, S)) = Cardinality(InStates(f, S)) - 1
    BY <2>1, InStatesFinite, FS_RemoveElement
  <2> QED
    BY <1>2, <2>2, InStatesFinite
<1> QED
  BY <1>1, <1>2

(* The thresholds run_connect stores are within OnlineState's bound. *)
LEMMA ThresholdBounded ==
  ASSUME NEW list \in ApiLists, NEW mc \in 0..MaxReported
  PROVE  /\ Truncate(list) \in Seq(Hosts)
         /\ Threshold(Truncate(list), mc) \in 0..MaxOnline
<1>1. list \in Seq(Hosts) /\ MaxHosts \in Nat /\ Len(list) \in Nat
  BY ConnAssumption
<1>2. CASE Len(list) > MaxHosts
  <2>1. Truncate(list) = SubSeq(list, 1, MaxHosts)
    BY <1>2 DEF Truncate
  <2>2. Truncate(list) \in Seq(Hosts) /\ Len(Truncate(list)) = MaxHosts
    BY <1>1, <1>2, <2>1
  <2> QED
    BY <1>1, <2>2, ConnAssumption, OnlineAssumption, BoundAssumption DEF Threshold
<1>3. CASE ~(Len(list) > MaxHosts)
  <2>1. Truncate(list) = list
    BY <1>3 DEF Truncate
  <2> QED
    BY <1>1, <1>3, <2>1, ConnAssumption, OnlineAssumption, BoundAssumption DEF Threshold
<1> QED
  BY <1>2, <1>3

(***************************************************************************)
(* Step simulation: every step of the manager is a step of the cell or     *)
(* leaves the cell alone.                                                  *)
(***************************************************************************)
LEMMA StepSimulation ==
  ASSUME ConnInv, [Next]_vars
  PROVE  [OnlineNext]_onlineVars
<1>1. CASE UNCHANGED vars
  BY <1>1 DEF vars
<1>2. CASE MainNext
  <2>1. ASSUME NEW list \in ApiLists, NEW mc \in 0..MaxReported, RunConnectOk(list, mc)
        PROVE  OnlineNext
    <3>1. ~announcing
      BY <2>1 DEF RunConnectOk, ConnInv, AnnouncedBySpawn
    <3>2. StoreMinConn(Threshold(Truncate(list), mc))
      BY <2>1 DEF RunConnectOk
    <3> QED
      BY <3>1, <3>2, ThresholdBounded DEF OnlineNext
  <2>2. CASE Announce
    BY <2>2 DEF Announce, OnlineNext
  <2>3. CASE RunConnectFail \/ SkipHost \/ SpawnDone \/ LoopHead \/ Tick
    BY <2>3 DEF RunConnectFail, SkipHost, SpawnDone, LoopHead, Tick
  <2>4. CASE \E t \in Threads : SpawnConn(t)
    BY <2>4 DEF SpawnConn
  <2> QED
    BY <1>2, <2>1, <2>2, <2>3, <2>4 DEF MainNext
<1>3. CASE UserNext
  BY <1>3 DEF UserNext, OnlineNext
<1>4. ASSUME NEW t \in Threads, ThreadNext(t)
      PROVE  [OnlineNext]_onlineVars
  <2>1. CASE HandshakeOk(t)
    <3>1. pc[t] = "shake" /\ pc' = [pc EXCEPT ![t] = "online"] /\ OnlineIncr
      BY <2>1 DEF HandshakeOk, Goto
    <3>2. pc \in [Threads -> ThreadStates] /\ online_cnt = Cardinality(InStates(pc, OnlineStates))
      BY DEF ConnInv, TypeOK, CountersExact, ThreadsIn, InStates, OnlineStates
    <3>3. Cardinality(InStates(pc, OnlineStates)) < Cardinality(Threads)
      <4>1. pc[t] \notin OnlineStates /\ pc'[t] \in OnlineStates
        BY <3>1, <3>2 DEF OnlineStates
      <4>2. \A u \in Threads \ {t} : pc'[u] = pc[u]
        BY <3>1, <3>2
      <4> QED
        BY <4>1, <4>2, CountMove
    <3>4. online_cnt < MaxOnline
      BY <3>2, <3>3, InStatesFinite, BoundAssumption, OnlineAssumption
    <3> QED
      BY <3>1, <3>4 DEF OnlineNext
  <2>2. CASE SessionEnd(t)
    <3>1. OnlineDecr /\ pc[t] = "online"
      BY <2>2 DEF SessionEnd, Goto, AttemptFailed
    <3>2. pc \in [Threads -> ThreadStates] /\ online_cnt = Cardinality(InStates(pc, OnlineStates))
      BY DEF ConnInv, TypeOK, CountersExact, ThreadsIn, InStates, OnlineStates
    <3>3. t \in InStates(pc, OnlineStates)
      BY <3>1 DEF InStates, OnlineStates
    <3>4. Cardinality(InStates(pc, OnlineStates)) > 0
      BY <3>3, InStatesFinite, FS_EmptySet
    <3> QED
      BY <3>1, <3>2, <3>4 DEF OnlineNext
  <2>3. CASE \/ ThreadStart(t) \/ LoopCheck(t) \/ DialFail(t) \/ DialOk(t)
             \/ HandshakeFail(t) \/ Elapse(t) \/ Unregister(t) \/ ThreadExit(t)
    BY <2>3 DEF ThreadStart, LoopCheck, DialFail, DialOk, HandshakeFail, Elapse,
                Unregister, ThreadExit
  <2> QED
    BY <1>4, <2>1, <2>2, <2>3 DEF ThreadNext
<1> QED
  BY <1>1, <1>2, <1>3, <1>4 DEF Next

(***************************************************************************)
(* The shape of a step of one thread: it moves between two states, one     *)
(* registered and counted as the other except when the thread starts,      *)
(* unregisters or exits.                                                   *)
(***************************************************************************)
LEMMA ThreadMoves ==
  ASSUME TypeOK, NEW t \in Threads, ThreadNext(t)
  PROVE  /\ \/ UNCHANGED <<pc, hosts, conn_cnt, online_cnt>>
            \/ \E a, b \in ThreadStates :
                 /\ pc[t] = a /\ pc' = [pc EXCEPT ![t] = b]
                 /\ a \in Counted /\ b \in Counted => conn_cnt' = conn_cnt
                 /\ a \notin Counted => b \in Counted /\ conn_cnt' = conn_cnt + 1
                 /\ b \notin Counted => a \in Counted /\ conn_cnt' = conn_cnt - 1
                 /\ a # "online" /\ b # "online" => online_cnt' = online_cnt
                 /\ b = "online" => a # "online" /\ online_cnt' = online_cnt + 1
                 /\ a = "online" => b # "online" /\ online_cnt' = online_cnt - 1
                 /\ a \in Registered /\ b \in Registered => hosts' = hosts
                 /\ a \in Registered /\ b \notin Registered => hosts' = hosts \ {at[t]}
                 /\ a \notin Registered => b \notin Registered /\ hosts' = hosts
         /\ at' = at \/ (pc[t] = "decr" /\ pc'[t] = "none" /\ at' = [at EXCEPT ![t] = NoHost])
<1> USE DEF ThreadStates, Registered, Counted, Goto, AttemptFailed, TypeOK
<1>1. CASE ThreadStart(t)
  BY <1>1 DEF ThreadStart, onlineVars
<1>2. CASE LoopCheck(t)
  BY <1>2 DEF LoopCheck, onlineVars
<1>3. CASE DialFail(t)
  BY <1>3 DEF DialFail, onlineVars
<1>4. CASE DialOk(t)
  BY <1>4 DEF DialOk, onlineVars
<1>5. CASE HandshakeFail(t)
  BY <1>5 DEF HandshakeFail, onlineVars
<1>6. CASE HandshakeOk(t)
  BY <1>6 DEF HandshakeOk, OnlineIncr
<1>7. CASE Elapse(t)
  BY <1>7 DEF Elapse, onlineVars
<1>8. CASE SessionEnd(t)
  BY <1>8 DEF SessionEnd, OnlineDecr
<1>9. CASE Unregister(t)
  BY <1>9 DEF Unregister, onlineVars
<1>10. CASE ThreadExit(t)
  BY <1>10 DEF ThreadExit, onlineVars
<1> QED
  BY <1>1, <1>2, <1>3, <1>4, <1>5, <1>6, <1>7, <1>8, <1>9, <1>10 DEF ThreadNext

(* The counters stay exact. *)
LEMMA CountersNext ==
  ASSUME ConnInv, Next
  PROVE  CountersExact'
<1>0. /\ pc \in [Threads -> ThreadStates]
      /\ conn_cnt = Cardinality(InStates(pc, Counted))
      /\ online_cnt = Cardinality(InStates(pc, OnlineStates))
  BY DEF ConnInv, TypeOK, CountersExact, ThreadsIn, InStates, OnlineStates
<1>1. CASE (MainNext /\ ~(\E t \in Threads : SpawnConn(t))) \/ UserNext
  <2>1. UNCHANGED <<pc, conn_cnt, online_cnt>>
    BY <1>1 DEF MainNext, RunConnectFail, RunConnectOk, StoreMinConn, Announce,
         AnnounceMinConn, SkipHost, SpawnDone, LoopHead, Tick, UserNext, CloseStore,
         CloseNotify, WaiterNext, WaitEnter, WaitReturn, WaitCheck, WaitPark, Expire,
         WaitTimeout, SpuriousWake, connVars, threadVars, onlineVars
  <2> QED
    BY <1>0, <2>1 DEF CountersExact, ThreadsIn, InStates, OnlineStates
<1>2. ASSUME NEW t \in Threads, SpawnConn(t)
      PROVE  CountersExact'
  <2>1. /\ pc[t] = "none" /\ pc' = [pc EXCEPT ![t] = "start"]
        /\ UNCHANGED <<conn_cnt, online_cnt>>
    BY <1>2 DEF SpawnConn, onlineVars
  <2>2. /\ pc[t] \notin Counted /\ pc[t] \notin OnlineStates
        /\ pc'[t] \notin Counted /\ pc'[t] \notin OnlineStates
    BY <1>0, <2>1 DEF Counted, OnlineStates
  <2>3. \A u \in Threads \ {t} : pc'[u] = pc[u]
    BY <1>0, <2>1
  <2>4. conn_cnt' = conn_cnt /\ online_cnt' = online_cnt
    BY <2>1
  <2>5. Cardinality(InStates(pc', Counted)) = Cardinality(InStates(pc, Counted))
    <3>1. \A u \in Threads : pc'[u] \in Counted <=> pc[u] \in Counted
      BY <2>2, <2>3
    <3> QED
      BY <3>1, CountStays
  <2>6. Cardinality(InStates(pc', OnlineStates)) = Cardinality(InStates(pc, OnlineStates))
    <3>1. \A u \in Threads : pc'[u] \in OnlineStates <=> pc[u] \in OnlineStates
      BY <2>2, <2>3
    <3> QED
      BY <3>1, CountStays
  <2> QED
    BY <1>0, <2>4, <2>5, <2>6 DEF CountersExact, ThreadsIn, InStates, OnlineStates
<1>3. ASSUME NEW t \in Threads, ThreadNext(t)
      PROVE  CountersExact'
  <2>0. TypeOK
    BY DEF ConnInv
  <2>1. CASE UNCHANGED <<pc, hosts, conn_cnt, online_cnt>>
    BY <1>0, <2>1 DEF CountersExact, ThreadsIn, InStates, OnlineStates
  <2>2. ASSUME NEW a \in ThreadStates, NEW b \in ThreadStates,
               pc[t] = a, pc' = [pc EXCEPT ![t] = b],
               a \in Counted /\ b \in Counted => conn_cnt' = conn_cnt,
               a \notin Counted => b \in Counted /\ conn_cnt' = conn_cnt + 1,
               b \notin Counted => a \in Counted /\ conn_cnt' = conn_cnt - 1,
               a # "online" /\ b # "online" => online_cnt' = online_cnt,
               b = "online" => a # "online" /\ online_cnt' = online_cnt + 1,
               a = "online" => b # "online" /\ online_cnt' = online_cnt - 1
        PROVE  CountersExact'
    <3>1. \A u \in Threads \ {t} : pc'[u] = pc[u]
      BY <1>0, <2>2
    <3>2. /\ (pc[t] \in Counted <=> pc'[t] \in Counted) => conn_cnt' = conn_cnt
          /\ pc[t] \notin Counted /\ pc'[t] \in Counted => conn_cnt' = conn_cnt + 1
          /\ pc[t] \in Counted /\ pc'[t] \notin Counted => conn_cnt' = conn_cnt - 1
      BY <1>0, <2>2
    <3>3. /\ (pc[t] \in OnlineStates <=> pc'[t] \in OnlineStates) => online_cnt' = online_cnt
          /\ pc[t] \notin OnlineStates /\ pc'[t] \in OnlineStates
               => online_cnt' = online_cnt + 1
          /\ pc[t] \in OnlineStates /\ pc'[t] \notin OnlineStates
               => online_cnt' = online_cnt - 1
      BY <1>0, <2>2 DEF OnlineStates
    <3>4. conn_cnt' = Cardinality(InStates(pc', Counted))
      <4>1. CASE pc[t] \in Counted <=> pc'[t] \in Counted
        <5>1. Cardinality(InStates(pc', Counted)) = Cardinality(InStates(pc, Counted))
          <6>1. \A u \in Threads : pc'[u] \in Counted <=> pc[u] \in Counted
            BY <3>1, <4>1
          <6> QED
            BY <6>1, CountStays
        <5> QED
          BY <1>0, <3>2, <4>1, <5>1
      <4>2. CASE pc[t] \notin Counted /\ pc'[t] \in Counted
        <5>1. Cardinality(InStates(pc', Counted)) = Cardinality(InStates(pc, Counted)) + 1
          BY <3>1, <4>2, CountMove
        <5> QED
          BY <1>0, <3>2, <4>2, <5>1
      <4>3. CASE pc[t] \in Counted /\ pc'[t] \notin Counted
        <5>1. Cardinality(InStates(pc', Counted)) = Cardinality(InStates(pc, Counted)) - 1
          BY <3>1, <4>3, CountMove
        <5> QED
          BY <1>0, <3>2, <4>3, <5>1
      <4> QED
        BY <4>1, <4>2, <4>3
    <3>5. online_cnt' = Cardinality(InStates(pc', OnlineStates))
      <4>1. CASE pc[t] \in OnlineStates <=> pc'[t] \in OnlineStates
        <5>1. Cardinality(InStates(pc', OnlineStates)) = Cardinality(InStates(pc, OnlineStates))
          <6>1. \A u \in Threads : pc'[u] \in OnlineStates <=> pc[u] \in OnlineStates
            BY <3>1, <4>1
          <6> QED
            BY <6>1, CountStays
        <5> QED
          BY <1>0, <3>3, <4>1, <5>1
      <4>2. CASE pc[t] \notin OnlineStates /\ pc'[t] \in OnlineStates
        <5>1. Cardinality(InStates(pc', OnlineStates)) = Cardinality(InStates(pc, OnlineStates)) + 1
          BY <3>1, <4>2, CountMove
        <5> QED
          BY <1>0, <3>3, <4>2, <5>1
      <4>3. CASE pc[t] \in OnlineStates /\ pc'[t] \notin OnlineStates
        <5>1. Cardinality(InStates(pc', OnlineStates)) = Cardinality(InStates(pc, OnlineStates)) - 1
          BY <3>1, <4>3, CountMove
        <5> QED
          BY <1>0, <3>3, <4>3, <5>1
      <4> QED
        BY <4>1, <4>2, <4>3
    <3> QED
      BY <3>4, <3>5 DEF CountersExact, ThreadsIn, InStates, OnlineStates
  <2> QED
    BY <1>3, <2>0, <2>1, <2>2, ThreadMoves
<1> QED
  BY <1>1, <1>2, <1>3 DEF Next

(* The host set stays exact and no host gets a second thread. *)
LEMMA HostsNext ==
  ASSUME ConnInv, Next
  PROVE  OneThreadPerHost' /\ HostsExact'
<1> USE DEF ThreadsIn
<1>0. /\ pc \in [Threads -> ThreadStates] /\ at \in [Threads -> Hosts \cup {NoHost}]
      /\ OneThreadPerHost /\ HostsExact /\ TypeOK
  BY DEF ConnInv, TypeOK
<1>1. CASE (MainNext /\ ~(\E t \in Threads : SpawnConn(t))) \/ UserNext
  <2>1. UNCHANGED <<pc, at, hosts>>
    BY <1>1 DEF MainNext, RunConnectFail, RunConnectOk, Announce,
         SkipHost, SpawnDone, LoopHead, Tick, UserNext, connVars, threadVars
  <2> QED
    BY <1>0, <2>1 DEF OneThreadPerHost, HostsExact
<1>2. ASSUME NEW t \in Threads, SpawnConn(t)
      PROVE  OneThreadPerHost' /\ HostsExact'
  <2> DEFINE h == Head(todo)
  <2>1. /\ pc[t] = "none" /\ pc' = [pc EXCEPT ![t] = "start"]
        /\ at' = [at EXCEPT ![t] = h] /\ h \notin hosts /\ hosts' = hosts \cup {h}
    BY <1>2 DEF SpawnConn
  <2>2. "none" \notin Registered /\ "start" \in Registered
    BY DEF Registered
  <2>3. \A u \in Threads : pc'[u] \in Registered <=> (u = t \/ pc[u] \in Registered)
    BY <1>0, <2>1, <2>2
  <2>4. \A u \in Threads : at'[u] = IF u = t THEN h ELSE at[u]
    BY <1>0, <2>1
  <2>5. \A u \in Threads : pc[u] \in Registered => at[u] # h
    BY <1>0, <2>1 DEF HostsExact
  <2> HIDE DEF h
  <2>6. OneThreadPerHost'
    BY <1>0, <2>3, <2>4, <2>5 DEF OneThreadPerHost
  <2>7. HostsExact'
    BY <1>0, <2>1, <2>2, <2>3, <2>4 DEF HostsExact
  <2> QED
    BY <2>6, <2>7
<1>3. ASSUME NEW t \in Threads, ThreadNext(t)
      PROVE  OneThreadPerHost' /\ HostsExact'
  <2>1. \A u \in Threads : pc'[u] \in Registered => pc[u] \in Registered /\ at'[u] = at[u]
    BY <1>0, <1>3, ThreadMoves DEF Registered
  <2>2. OneThreadPerHost'
    BY <1>0, <2>1 DEF OneThreadPerHost
  <2>3. CASE ~(pc[t] \in Registered /\ pc'[t] \notin Registered)
    <3>1. hosts' = hosts /\ \A u \in Threads : pc[u] \in Registered => pc'[u] \in Registered
      BY <1>0, <1>3, <2>3, ThreadMoves
    <3> QED
      BY <1>0, <2>1, <2>2, <3>1 DEF HostsExact
  <2>4. CASE pc[t] \in Registered /\ pc'[t] \notin Registered
    <3>1. /\ hosts' = hosts \ {at[t]}
          /\ \A u \in Threads \ {t} : pc[u] \in Registered => pc'[u] \in Registered
      BY <1>0, <1>3, <2>4, ThreadMoves
    <3>2. \A u \in Threads \ {t} : pc[u] \in Registered => at[u] # at[t]
      BY <1>0, <2>4 DEF OneThreadPerHost
    <3> QED
      BY <1>0, <2>1, <2>2, <2>4, <3>1, <3>2 DEF HostsExact
  <2> QED
    BY <2>3, <2>4
<1> QED
  BY <1>1, <1>2, <1>3 DEF Next

(* Counting a failed attempt keeps the failure counter in range. *)
LEMMA FailedTypes ==
  ASSUME TypeOK, AttemptsLeft, NEW t \in Threads, NEW here \in {"dial", "shake", "online"},
         AttemptFailed(t, here)
  PROVE  /\ pc' \in [Threads -> ThreadStates]
         /\ fails' \in [Threads -> 0..(MaxFail + 1)]
         /\ AttemptsLeft'
<1>1. MaxFail \in Nat
  BY ConnAssumption
<1>2. /\ pc \in [Threads -> ThreadStates] /\ fails \in [Threads -> 0..(MaxFail + 1)]
      /\ pc[t] = here
  BY DEF TypeOK, AttemptFailed, Goto
<1>3. fails[t] \in 0..MaxFail
  BY <1>1, <1>2 DEF AttemptsLeft
<1>4. fails[t] + 1 \in 0..(MaxFail + 1)
  BY <1>1, <1>3
<1>5. fails' = [fails EXCEPT ![t] = fails[t] + 1]
  BY DEF AttemptFailed
<1>6. fails' \in [Threads -> 0..(MaxFail + 1)]
  BY <1>2, <1>4, <1>5
<1>7. pc' = [pc EXCEPT ![t] = IF fails[t] + 1 > MaxFail THEN "unreg" ELSE "loop"]
  BY DEF AttemptFailed, Goto
<1>8. pc' \in [Threads -> ThreadStates]
  BY <1>2, <1>7 DEF ThreadStates, Registered
<1>9. ASSUME NEW u \in Threads, pc'[u] \notin {"unreg", "decr"}
      PROVE  fails'[u] <= MaxFail
  <2>1. CASE u = t
    BY <1>1, <1>2, <1>3, <1>5, <1>7, <1>9, <2>1
  <2>2. CASE u # t
    <3>1. pc'[u] = pc[u] /\ fails'[u] = fails[u]
      BY <1>2, <1>5, <1>7, <2>2
    <3> QED
      BY <1>9, <3>1 DEF AttemptsLeft
  <2> QED
    BY <2>1, <2>2
<1> QED
  BY <1>6, <1>8, <1>9 DEF AttemptsLeft

(* A clock that is turned on stays within its bound. *)
LEMMA OlderTypes ==
  ASSUME NEW clock \in [Threads -> 0..HealthyAfter], NEW t \in Threads
  PROVE  Older(clock, t) \in [Threads -> 0..HealthyAfter]
<1>1. HealthyAfter \in Nat /\ clock[t] \in 0..HealthyAfter
  BY ConnAssumption
<1>2. (IF clock[t] < HealthyAfter THEN clock[t] + 1 ELSE clock[t]) \in 0..HealthyAfter
  BY <1>1
<1> QED
  BY <1>2 DEF Older

(* The types, apart from the online-state cell. *)
LEMMA TypesNext ==
  ASSUME ConnInv, Next, OnlineTypeOK'
  PROVE  TypeOK' /\ AnnouncedBySpawn' /\ AttemptsLeft'
<1> USE ConnAssumption DEF TypeOK, AnnouncedBySpawn, AttemptsLeft
<1>0. TypeOK /\ AnnouncedBySpawn /\ AttemptsLeft
  BY DEF ConnInv
<1>1. CASE RunConnectFail
  BY <1>0, <1>1 DEF RunConnectFail, MainStates, onlineVars, threadVars
<1>2. ASSUME NEW list \in ApiLists, NEW mc \in 0..MaxReported, RunConnectOk(list, mc)
      PROVE  TypeOK' /\ AnnouncedBySpawn' /\ AttemptsLeft'
  <2>1. Truncate(list) \in Seq(Hosts)
    BY ThresholdBounded
  <2>2. /\ todo' = Truncate(list) /\ mpc' = "spawn"
        /\ UNCHANGED <<hosts, conn_cnt, tick, pc, at, fails, age, lasted>>
    BY <1>2 DEF RunConnectOk, threadVars
  <2> QED
    BY <1>0, <2>1, <2>2 DEF MainStates
<1>3. CASE Announce
  BY <1>0, <1>3 DEF Announce, AnnounceMinConn, connVars
<1>4. ASSUME NEW t \in Threads, SpawnConn(t)
      PROVE  TypeOK' /\ AnnouncedBySpawn' /\ AttemptsLeft'
  <2>1. Head(todo) \in Hosts /\ Tail(todo) \in Seq(Hosts)
    BY <1>0, <1>4 DEF SpawnConn
  <2>2. /\ hosts' = hosts \cup {Head(todo)} /\ todo' = Tail(todo)
        /\ pc[t] = "none" /\ pc' = [pc EXCEPT ![t] = "start"]
        /\ at' = [at EXCEPT ![t] = Head(todo)]
        /\ UNCHANGED <<announcing, conn_cnt, mpc, tick, fails, age, lasted>>
    BY <1>4 DEF SpawnConn, onlineVars
  <2>3. hosts' \subseteq Hosts /\ todo' \in Seq(Hosts) /\ at' \in [Threads -> Hosts \cup {NoHost}]
    BY <1>0, <2>1, <2>2
  <2>4. pc' \in [Threads -> ThreadStates] /\ AttemptsLeft'
    BY <1>0, <2>2 DEF ThreadStates, Registered
  <2> QED
    BY <1>0, <2>2, <2>3, <2>4
<1>5. CASE SkipHost
  <2>1. Tail(todo) \in Seq(Hosts)
    BY <1>0, <1>5 DEF SkipHost
  <2> QED
    BY <1>0, <1>5, <2>1 DEF SkipHost, onlineVars, threadVars
<1>6. CASE SpawnDone
  <2>1. <<>> \in Seq(Hosts)
    OBVIOUS
  <2> QED
    BY <1>0, <1>6, <2>1 DEF SpawnDone, MainStates, onlineVars, threadVars
<1>7. CASE LoopHead
  BY <1>0, <1>7 DEF LoopHead, MainStates, onlineVars, threadVars
<1>8. CASE Tick
  <2>1. (tick + 1) % TickPeriod \in 0..(TickPeriod - 1)
    BY <1>0
  <2> QED
    BY <1>0, <1>8, <2>1 DEF Tick, MainStates, onlineVars, threadVars
<1>9. CASE UserNext
  <2>1. UNCHANGED connVars
    BY <1>9 DEF UserNext
  <2>2. announcing' = announcing
    BY <1>9 DEF UserNext, CloseStore, CloseNotify, WaiterNext, WaitEnter, WaitReturn,
                WaitCheck, WaitPark, Expire, WaitTimeout, SpuriousWake
  <2> QED
    BY <1>0, <2>1, <2>2 DEF connVars
<1>10. ASSUME NEW t \in Threads, ThreadNext(t)
       PROVE  TypeOK' /\ AnnouncedBySpawn' /\ AttemptsLeft'
  <2> USE DEF ThreadStates, Registered, Counted, Goto, AttemptFailed, mainVars
  <2>0. Cardinality(ThreadsIn(Counted)) \in Nat /\ conn_cnt' \in Nat
    <3>1. CountersExact'
      BY CountersNext
    <3>2. conn_cnt' = Cardinality(InStates(pc', Counted))
      BY <3>1 DEF CountersExact, ThreadsIn, InStates
    <3>3. Cardinality(InStates(pc', Counted)) \in Nat
      BY InStatesFinite
    <3>4. Cardinality(InStates(pc, Counted)) \in Nat
      BY InStatesFinite
    <3> QED
      BY <3>2, <3>3, <3>4 DEF ThreadsIn, InStates
  <2>n. MaxFail \in Nat /\ HealthyAfter \in Nat
    BY ConnAssumption
  <2>u. /\ OnlineTypeOK' /\ hosts \subseteq Hosts /\ conn_cnt \in Nat
        /\ mpc \in MainStates /\ tick \in 0..(TickPeriod - 1) /\ todo \in Seq(Hosts)
        /\ pc \in [Threads -> ThreadStates] /\ at \in [Threads -> Hosts \cup {NoHost}]
        /\ fails \in [Threads -> 0..(MaxFail + 1)]
        /\ age \in [Threads -> 0..HealthyAfter]
        /\ lasted \in [Threads -> 0..HealthyAfter]
        /\ AnnouncedBySpawn /\ AttemptsLeft
    BY <1>0
  <2>1. CASE ThreadStart(t)
    BY <2>n, <2>u, <2>0, <2>1 DEF ThreadStart, onlineVars
  <2>2. CASE LoopCheck(t)
    BY <2>n, <2>u, <2>2 DEF LoopCheck, onlineVars
  <2>3. CASE DialFail(t)
    <3>1. AttemptFailed(t, "dial") /\ TypeOK /\ AttemptsLeft
      BY <1>0, <2>3 DEF DialFail
    <3>2. /\ pc' \in [Threads -> ThreadStates] /\ fails' \in [Threads -> 0..(MaxFail + 1)]
          /\ AttemptsLeft'
      BY <3>1, FailedTypes
    <3>3. UNCHANGED <<announcing, hosts, conn_cnt, mpc, tick, todo, at, age, lasted>>
      BY <2>3 DEF DialFail, onlineVars
    <3> QED
      BY <2>u, <3>2, <3>3
  <2>4. CASE DialOk(t)
    BY <2>n, <2>u, <2>4 DEF DialOk, onlineVars
  <2>5. CASE HandshakeFail(t)
    <3>1. AttemptFailed(t, "shake") /\ TypeOK /\ AttemptsLeft
      BY <1>0, <2>5 DEF HandshakeFail
    <3>2. /\ pc' \in [Threads -> ThreadStates] /\ fails' \in [Threads -> 0..(MaxFail + 1)]
          /\ AttemptsLeft'
      BY <3>1, FailedTypes
    <3>3. UNCHANGED <<announcing, hosts, conn_cnt, mpc, tick, todo, at, age, lasted>>
      BY <2>5 DEF HandshakeFail, onlineVars
    <3> QED
      BY <2>u, <3>2, <3>3
  <2>6. CASE HandshakeOk(t)
    BY <2>n, <2>u, <2>6 DEF HandshakeOk, OnlineIncr
  <2>7. CASE Elapse(t)
    <3>1. age' = Older(age, t) /\ (lasted' = lasted \/ lasted' = Older(lasted, t))
      BY <2>7 DEF Elapse
    <3>2. age' \in [Threads -> 0..HealthyAfter] /\ lasted' \in [Threads -> 0..HealthyAfter]
      BY <2>u, <3>1, OlderTypes
    <3>3. UNCHANGED <<announcing, hosts, conn_cnt, mpc, tick, todo, pc, at, fails>>
      BY <2>7 DEF Elapse, onlineVars
    <3> QED
      BY <2>u, <3>2, <3>3
  <2>8. CASE SessionEnd(t)
    <3>1. /\ UNCHANGED <<announcing, hosts, conn_cnt, mpc, tick, todo, at, age>>
      BY <2>8 DEF SessionEnd, OnlineDecr
    <3>l. lasted' \in [Threads -> 0..HealthyAfter]
      BY <2>n, <2>u, <2>8 DEF SessionEnd
    <3>2. CASE AttemptFailed(t, "online")
      <4>1. /\ pc' \in [Threads -> ThreadStates] /\ fails' \in [Threads -> 0..(MaxFail + 1)]
            /\ AttemptsLeft'
        BY <1>0, <3>2, FailedTypes
      <4> QED
        BY <2>u, <3>1, <3>l, <4>1
    <3>3. CASE fails' = [fails EXCEPT ![t] = 0] /\ Goto(t, "online", "loop")
      BY <2>n, <2>u, <3>1, <3>l, <3>3
    <3> QED
      BY <2>8, <3>2, <3>3 DEF SessionEnd
  <2>9. CASE Unregister(t)
    BY <2>n, <2>u, <2>9 DEF Unregister, onlineVars
  <2>10. CASE ThreadExit(t)
    BY <2>n, <2>u, <2>0, <2>10 DEF ThreadExit, onlineVars
  <2> QED
    BY <1>10, <2>1, <2>2, <2>3, <2>4, <2>5, <2>6, <2>7, <2>8, <2>9, <2>10 DEF ThreadNext
<1> QED
  BY <1>1, <1>2, <1>3, <1>4, <1>5, <1>6, <1>7, <1>8, <1>9, <1>10 DEF Next, MainNext

(* A new client satisfies the invariant. *)
LEMMA ConnInvInit == Init => ConnInv
<1> SUFFICES ASSUME Init
             PROVE  ConnInv
  OBVIOUS
<1>1. OnlineInv
  BY OnlineInvInit DEF Init
<1>2. \A t \in Threads : pc[t] = "none" /\ fails[t] = 0 /\ age[t] = 0
  BY DEF Init
<1>3. TypeOK
  <2>1. OnlineTypeOK
    BY <1>1 DEF OnlineInv
  <2>2. <<>> \in Seq(Hosts)
    OBVIOUS
  <2> QED
    BY <2>1, <2>2, ConnAssumption DEF Init, TypeOK, MainStates, ThreadStates
<1>4. CountersExact /\ OneThreadPerHost /\ HostsExact
  <2>1. ThreadsIn(Counted) = {} /\ ThreadsIn({"online"}) = {} /\ ThreadsIn(Registered) = {}
    BY <1>2 DEF ThreadsIn, Counted, Registered
  <2>2. conn_cnt = 0 /\ online_cnt = 0 /\ hosts = {}
    BY DEF Init, OnlineInit
  <2> QED
    BY <2>1, <2>2, FS_EmptySet DEF CountersExact, OneThreadPerHost, HostsExact
<1>5. AnnouncedBySpawn
  BY DEF Init, OnlineInit, AnnouncedBySpawn
<1>6. AttemptsLeft
  BY <1>2, ConnAssumption DEF AttemptsLeft
<1> QED
  BY <1>1, <1>3, <1>4, <1>5, <1>6 DEF ConnInv

(* Every step keeps it. *)
LEMMA ConnInvNext == ConnInv /\ [Next]_vars => ConnInv'
<1>1. ASSUME ConnInv, UNCHANGED vars
      PROVE  ConnInv'
  BY <1>1, OnlineInvStutter
     DEF ConnInv, vars, onlineVars, connVars, TypeOK, OnlineTypeOK, CountersExact,
         OneThreadPerHost, HostsExact, AnnouncedBySpawn, AttemptsLeft,
         ThreadsIn
<1>2. ASSUME ConnInv, Next
      PROVE  ConnInv'
  <2>1. OnlineInv'
    BY <1>2, StepSimulation, OnlineInvNext DEF ConnInv
  <2>2. OnlineTypeOK'
    BY <2>1 DEF OnlineInv
  <2> QED
    BY <1>2, <2>1, <2>2, TypesNext, CountersNext, HostsNext DEF ConnInv
<1> QED
  BY <1>1, <1>2

LEMMA ConnInvariance == Spec => []ConnInv
BY ConnInvInit, ConnInvNext, PTL DEF Spec

(***************************************************************************)
(* No counter of the manager underflows and every field keeps its type.    *)
(***************************************************************************)
THEOREM ConnTyped == Spec => []TypeOK
<1>1. ConnInv => TypeOK
  BY DEF ConnInv
<1> QED
  BY <1>1, ConnInvariance, PTL

(***************************************************************************)
(* connection_count() is exact for any number of hosts and threads: every  *)
(* path of every thread balances its increments.                           *)
(***************************************************************************)
THEOREM CountersAreExact == Spec => []CountersExact
<1>1. ConnInv => CountersExact
  BY DEF ConnInv
<1> QED
  BY <1>1, ConnInvariance, PTL

(* No host is served by two threads, whatever lists the API returns. *)
THEOREM OneThreadEach == Spec => []OneThreadPerHost
<1>1. ConnInv => OneThreadPerHost
  BY DEF ConnInv
<1> QED
  BY <1>1, ConnInvariance, PTL

(* The host set is exactly the set of hosts that have a thread. *)
THEOREM HostsAreExact == Spec => []HostsExact
<1>1. ConnInv => HostsExact
  BY DEF ConnInv
<1> QED
  BY <1>1, ConnInvariance, PTL

(***************************************************************************)
(* The connection manager implements the online-state cell: whatever the   *)
(* threads do, wait_online and its events see a behaviour of OnlineState,  *)
(* so what is proved there holds here.                                     *)
(***************************************************************************)
THEOREM ManagerImplementsCell == Spec => OnlineSpec
<1>1. Init => OnlineInit
  BY DEF Init
<1>2. ConnInv /\ [Next]_vars => [OnlineNext]_onlineVars
  BY StepSimulation
<1> QED
  BY <1>1, <1>2, ConnInvariance, PTL DEF Spec, OnlineSpec
============================================================================
