------------------------ MODULE BrowserClientProofs -------------------------
(***************************************************************************)
(* The browser client for any number of hosts, queries and waiters: the    *)
(* queue keeps the promise of Outbox, no message waits beside a usable     *)
(* sink, and no caller of wait_online sleeps without reason.               *)
(***************************************************************************)
EXTENDS BrowserClient, SequenceTheorems, FiniteSetTheorems, TLAPS

(* Every connection task is registered, and the counters count them. *)
TasksCounted ==
  /\ hosts = {h \in Hosts : task[h] # "none"}
  /\ IsFiniteSet(hosts)
  /\ connCnt = Cardinality(hosts)
  /\ online = Cardinality({h \in Hosts : task[h] = "online"})

(* Only a task in a session and a call that is open await a send. *)
SendersRun ==
  /\ \A h \in Hosts : task[h] # "online" => flight[h] = NoSend
  /\ \A q \in Queries : query[q] # "open" => flight[q] = NoSend

(* The messages in the hands of a task that awaits their send. *)
Hands == {flight[f] : f \in {g \in Flushers : Sending(g)}}

(* A message is in one place: once in the queue or in one pair of hands ... *)
OnePlace ==
  /\ \A i, j \in 1..Len(outq) : outq[i] = outq[j] => i = j
  /\ \A f, g \in Flushers : Sending(f) /\ Sending(g) /\ flight[f] = flight[g] => f = g
  /\ Range(outq) \cap Hands = {}

(* ... and it is one that a call of query has handed over. *)
HandedOver ==
  \A q \in Range(outq) \cup Hands \cup wire : query[q] # "idle"

(* The inductive invariant of the client. *)
ClientInv ==
  /\ TypeOK
  /\ TasksCounted
  /\ SendersRun
  /\ OnePlace
  /\ HandedOver
  /\ NoIdleQueue
  /\ ParkedMeansBelow
----------------------------------------------------------------------------
(***************************************************************************)
(* Connection tasks and their counters.                                    *)
(***************************************************************************)
TaskStates == {"none", "dial", "shake", "online", "pause"}

TasksTyped ==
  /\ task \in [Hosts -> TaskStates]
  /\ fails \in [Hosts -> 0..MaxFail]
  /\ hosts \subseteq Hosts
  /\ connCnt \in Nat /\ online \in Nat

(* Counting an element in or out of a finite set. *)
LEMMA CountMoves ==
  ASSUME NEW S, IsFiniteSet(S), NEW x
  PROVE  /\ IsFiniteSet(S \cup {x}) /\ IsFiniteSet(S \ {x})
         /\ Cardinality(S) \in Nat
         /\ x \notin S => Cardinality(S \cup {x}) = Cardinality(S) + 1
         /\ x \in S => Cardinality(S) - 1 \in Nat /\ Cardinality(S \ {x}) = Cardinality(S) - 1
<1>1. Cardinality(S) \in Nat /\ Cardinality(S \ {x}) \in Nat
  BY FS_RemoveElement, FS_CardinalityType
<1>2. /\ IsFiniteSet(S \cup {x})
      /\ Cardinality(S \cup {x}) = IF x \in S THEN Cardinality(S) ELSE Cardinality(S) + 1
  BY FS_AddElement
<1>3. /\ IsFiniteSet(S \ {x})
      /\ Cardinality(S \ {x}) = IF x \in S THEN Cardinality(S) - 1 ELSE Cardinality(S)
  BY FS_RemoveElement
<1> QED
  BY <1>1, <1>2, <1>3

(* A task moves to state x, and the counters follow. *)
LEMMA TaskMoves ==
  ASSUME TypeOK, TasksCounted, NEW h \in Hosts, NEW x \in TaskStates,
         task' = [task EXCEPT ![h] = x],
         hosts' = IF x = "none" THEN hosts \ {h} ELSE hosts \cup {h},
         connCnt' = IF x = "none" THEN (IF task[h] = "none" THEN connCnt ELSE connCnt - 1)
                    ELSE (IF task[h] = "none" THEN connCnt + 1 ELSE connCnt),
         online' = IF x = "online" THEN (IF task[h] = "online" THEN online ELSE online + 1)
                   ELSE (IF task[h] = "online" THEN online - 1 ELSE online)
  PROVE  /\ TasksCounted' /\ connCnt' \in Nat /\ online' \in Nat
         /\ task' \in [Hosts -> TaskStates] /\ hosts' \subseteq Hosts
         /\ \A g \in Hosts : task'[g] = IF g = h THEN x ELSE task[g]
<1> DEFINE S == {g \in Hosts : task[g] = "online"}
<1>1. /\ task \in [Hosts -> TaskStates] /\ hosts \subseteq Hosts
      /\ hosts = {g \in Hosts : task[g] # "none"}
      /\ IsFiniteSet(hosts) /\ connCnt = Cardinality(hosts) /\ online = Cardinality(S)
  BY DEF TypeOK, TasksCounted, TaskStates
<1>2. /\ task' \in [Hosts -> TaskStates]
      /\ \A g \in Hosts : task'[g] = IF g = h THEN x ELSE task[g]
  BY <1>1
<1>3. hosts' = {g \in Hosts : task'[g] # "none"} /\ hosts' \subseteq Hosts
  BY <1>1, <1>2
<1>4. IsFiniteSet(S)
  <2>1. S \subseteq hosts
    BY <1>1
  <2> QED
    BY <1>1, <2>1, FS_Subset
<1>5. {g \in Hosts : task'[g] = "online"} = IF x = "online" THEN S \cup {h} ELSE S \ {h}
  BY <1>2
<1>6. h \in S <=> task[h] = "online"
  OBVIOUS
<1>7. h \in hosts <=> task[h] # "none"
  BY <1>1
<1> HIDE DEF S
<1>8. IsFiniteSet(hosts') /\ connCnt' = Cardinality(hosts') /\ connCnt' \in Nat
  <2>1. /\ IsFiniteSet(hosts \cup {h}) /\ IsFiniteSet(hosts \ {h})
        /\ Cardinality(hosts) \in Nat
        /\ h \notin hosts => Cardinality(hosts \cup {h}) = Cardinality(hosts) + 1
        /\ h \in hosts => /\ Cardinality(hosts) - 1 \in Nat
                          /\ Cardinality(hosts \ {h}) = Cardinality(hosts) - 1
    BY <1>1, CountMoves
  <2>2. CASE h \in hosts
    <3>1. hosts \cup {h} = hosts
      BY <2>2
    <3> QED
      BY <1>1, <1>7, <2>1, <2>2, <3>1
  <2>3. CASE h \notin hosts
    <3>1. hosts \ {h} = hosts /\ task[h] = "none"
      BY <1>7, <2>3
    <3>2. CASE x = "none"
      <4>1. hosts' = hosts /\ connCnt' = connCnt
        BY <3>1, <3>2
      <4> QED
        BY <1>1, <2>1, <4>1
    <3>3. CASE x # "none"
      <4>1. hosts' = hosts \cup {h} /\ connCnt' = connCnt + 1
        BY <3>1, <3>3
      <4>2. Cardinality(hosts \cup {h}) = Cardinality(hosts) + 1
        BY <2>1, <2>3
      <4> QED
        BY <1>1, <2>1, <4>1, <4>2
    <3> QED
      BY <3>2, <3>3
  <2> QED
    BY <2>2, <2>3
<1>9. online' = Cardinality({g \in Hosts : task'[g] = "online"}) /\ online' \in Nat
  <2>1. /\ Cardinality(S) \in Nat
        /\ h \notin S => Cardinality(S \cup {h}) = Cardinality(S) + 1
        /\ h \in S => Cardinality(S) - 1 \in Nat /\ Cardinality(S \ {h}) = Cardinality(S) - 1
    BY <1>4, CountMoves
  <2>2. CASE h \in S
    <3>1. S \cup {h} = S
      BY <2>2
    <3> QED
      BY <1>1, <1>5, <1>6, <2>1, <2>2, <3>1
  <2>3. CASE h \notin S
    <3>1. S \ {h} = S /\ task[h] # "online"
      BY <1>6, <2>3
    <3>2. CASE x = "online"
      <4>1. {g \in Hosts : task'[g] = "online"} = S \cup {h} /\ online' = online + 1
        BY <1>5, <3>1, <3>2
      <4>2. Cardinality(S \cup {h}) = Cardinality(S) + 1
        BY <2>1, <2>3
      <4>3. Cardinality({g \in Hosts : task'[g] = "online"}) = Cardinality(S \cup {h})
        BY <4>1, Zenon
      <4>4. online' = Cardinality(S) + 1 /\ Cardinality(S) + 1 \in Nat
        BY <1>1, <2>1, <4>1
      <4> QED
        BY <4>2, <4>3, <4>4, Zenon
    <3>3. CASE x # "online"
      <4>1. {g \in Hosts : task'[g] = "online"} = S /\ online' = online
        BY <1>5, <3>1, <3>3
      <4> QED
        BY <1>1, <2>1, <4>1
    <3> QED
      BY <3>2, <3>3
  <2> QED
    BY <2>2, <2>3
<1> QED
  BY <1>2, <1>3, <1>8, <1>9 DEF TasksCounted

(* An attempt or a session is over, or the client closed in the pause. *)
LEMMA TaskLeaves ==
  ASSUME BrowserAssumption, TypeOK, TasksCounted, NEW h \in Hosts,
         Failed(h) \/ Healthy(h) \/ TaskExit(h), task[h] # "none",
         online' = IF task[h] = "online" THEN online - 1 ELSE online
  PROVE  /\ TasksTyped' /\ TasksCounted'
         /\ task'[h] \in {"none", "pause"}
         /\ \A g \in Hosts \ {h} : task'[g] = task[g]
<1>0. /\ MaxFail \in Nat /\ fails \in [Hosts -> 0..MaxFail]
      /\ hosts = {g \in Hosts : task[g] # "none"}
  BY DEF BrowserAssumption, TypeOK, TasksCounted
<1>1. PICK x \in {"none", "pause"} :
        /\ task' = [task EXCEPT ![h] = x]
        /\ x = "none" => TaskExit(h)
        /\ x = "pause" => hosts' = hosts /\ connCnt' = connCnt
  BY DEF Failed, Healthy, TaskExit
<1>2. fails' \in [Hosts -> 0..MaxFail]
  <2>1. fails[h] + 1 \in 0..MaxFail \/ fails[h] + 1 > MaxFail
    BY <1>0
  <2>2. 0 \in 0..MaxFail
    BY <1>0
  <2> QED
    BY <1>0, <2>1, <2>2 DEF Failed, Healthy, TaskExit
<1>3. /\ hosts' = IF x = "none" THEN hosts \ {h} ELSE hosts \cup {h}
      /\ connCnt' = IF x = "none" THEN connCnt - 1 ELSE connCnt
  BY <1>0, <1>1 DEF TaskExit
<1>4. x \in TaskStates /\ x # "online"
  BY DEF TaskStates
<1>5. /\ TasksCounted' /\ connCnt' \in Nat /\ online' \in Nat
      /\ task' \in [Hosts -> TaskStates] /\ hosts' \subseteq Hosts
      /\ \A g \in Hosts : task'[g] = IF g = h THEN x ELSE task[g]
  BY <1>1, <1>3, <1>4, TaskMoves
<1> QED
  BY <1>2, <1>5 DEF TasksTyped

----------------------------------------------------------------------------
(***************************************************************************)
(* Sequences and their ranges.                                             *)
(***************************************************************************)

LEMMA InRange ==
  ASSUME NEW S, NEW s \in Seq(S), NEW m
  PROVE  m \in Range(s) <=> \E i \in 1..Len(s) : s[i] = m
BY RangeEquality

LEMMA EmptyRange == Range(<<>>) = {}
<1>1. DOMAIN <<>> = {}
  OBVIOUS
<1> QED
  BY <1>1 DEF Range

(* A message that is not in a queue leaves it free of repetitions ... *)
LEMMA AppendFresh ==
  ASSUME NEW S, NEW s \in Seq(S), NEW m \in S
  PROVE  /\ Append(s, m) \in Seq(S) /\ Len(Append(s, m)) = Len(s) + 1
         /\ Range(Append(s, m)) = Range(s) \cup {m}
         /\ (\A i, j \in 1..Len(s) : s[i] = s[j] => i = j) /\ m \notin Range(s)
              => \A i, j \in 1..Len(Append(s, m)) : Append(s, m)[i] = Append(s, m)[j] => i = j
<1> DEFINE t == Append(s, m)
<1>1. /\ t \in Seq(S) /\ Len(t) = Len(s) + 1 /\ t[Len(s) + 1] = m
      /\ \A i \in 1..Len(s) : t[i] = s[i]
      /\ Len(s) \in Nat
  BY AppendProperties, LenProperties
<1> HIDE DEF t
<1>2. \A x : x \in Range(s) <=> \E i \in 1..Len(s) : s[i] = x
  BY InRange
<1>3. \A x : x \in Range(t) <=> \E i \in 1..Len(t) : t[i] = x
  BY <1>1, InRange
<1>4. \A x : x \in Range(t) <=> x \in Range(s) \/ x = m
  BY <1>1, <1>2, <1>3
<1>5. ASSUME \A i, j \in 1..Len(s) : s[i] = s[j] => i = j, m \notin Range(s)
      PROVE  \A i, j \in 1..Len(t) : t[i] = t[j] => i = j
  BY <1>1, <1>2, <1>5
<1> QED
  BY <1>1, <1>4, <1>5 DEF t

(* ... at the front as well as at the back ... *)
LEMMA ConsFresh ==
  ASSUME NEW S, NEW s \in Seq(S), NEW m \in S
  PROVE  /\ <<m>> \o s \in Seq(S) /\ Len(<<m>> \o s) = Len(s) + 1
         /\ (<<m>> \o s)[1] = m /\ \A i \in 1..Len(s) : (<<m>> \o s)[i + 1] = s[i]
         /\ Range(<<m>> \o s) = Range(s) \cup {m}
         /\ (\A i, j \in 1..Len(s) : s[i] = s[j] => i = j) /\ m \notin Range(s)
              => \A i, j \in 1..Len(<<m>> \o s) : (<<m>> \o s)[i] = (<<m>> \o s)[j] => i = j
<1> DEFINE t == <<m>> \o s
<1>0. <<m>> \in Seq(S) /\ Len(<<m>>) = 1 /\ <<m>>[1] = m /\ Len(s) \in Nat
  BY LenProperties
<1>1. t \in Seq(S) /\ Len(t) = Len(s) + 1
  BY <1>0, ConcatProperties
<1>2. \A i \in 1..Len(s) + 1 : t[i] = IF i = 1 THEN m ELSE s[i - 1]
  <2>1. \A i \in 1..1 + Len(s) : t[i] = IF i <= 1 THEN <<m>>[i] ELSE s[i - 1]
    BY <1>0, ConcatProperties
  <2> QED
    BY <1>0, <2>1
<1> HIDE DEF t
<1>3. t[1] = m /\ \A i \in 1..Len(s) : t[i + 1] = s[i]
  BY <1>0, <1>2
<1>4. \A x : x \in Range(s) <=> \E i \in 1..Len(s) : s[i] = x
  BY InRange
<1>5. \A x : x \in Range(t) <=> \E i \in 1..Len(t) : t[i] = x
  BY <1>1, InRange
<1>6. \A x : x \in Range(t) <=> x \in Range(s) \/ x = m
  <2>1. \A x : x \in Range(t) => x \in Range(s) \/ x = m
    BY <1>0, <1>1, <1>2, <1>4, <1>5
  <2>2. \A x : x \in Range(s) => x \in Range(t)
    <3> SUFFICES ASSUME NEW i \in 1..Len(s)
                 PROVE  \E j \in 1..Len(t) : t[j] = s[i]
      BY <1>4, <1>5
    <3>1. i + 1 \in 1..Len(t) /\ t[i + 1] = s[i]
      BY <1>0, <1>1, <1>3
    <3> QED
      BY <3>1
  <2> QED
    BY <1>0, <1>1, <1>3, <1>5, <2>1, <2>2
<1>7. ASSUME \A i, j \in 1..Len(s) : s[i] = s[j] => i = j, m \notin Range(s)
      PROVE  \A i, j \in 1..Len(t) : t[i] = t[j] => i = j
  <2> SUFFICES ASSUME NEW i \in 1..Len(t), NEW j \in 1..Len(t), t[i] = t[j]
               PROVE  i = j
    OBVIOUS
  <2>1. \A l \in 1..Len(t) : l # 1 => l - 1 \in 1..Len(s) /\ t[l] = s[l - 1] /\ t[l] # m
    BY <1>0, <1>1, <1>2, <1>4, <1>7
  <2>2. CASE i = 1 \/ j = 1
    BY <1>3, <2>1, <2>2
  <2>3. CASE i # 1 /\ j # 1
    <3>1. i - 1 = j - 1
      BY <1>7, <2>1, <2>3
    <3> QED
      BY <3>1
  <2> QED
    BY <2>2, <2>3
<1> QED
  BY <1>1, <1>3, <1>6, <1>7 DEF t

(* ... and taking the head out takes the message out. *)
LEMMA TailFresh ==
  ASSUME NEW S, NEW s \in Seq(S), s # <<>>, \A i, j \in 1..Len(s) : s[i] = s[j] => i = j
  PROVE  /\ Head(s) = s[1] /\ Head(s) \in S /\ Head(s) \in Range(s)
         /\ Tail(s) \in Seq(S) /\ Len(Tail(s)) = Len(s) - 1 /\ Len(s) \in Nat \ {0}
         /\ \A i \in 1..Len(Tail(s)) : Tail(s)[i] = s[i + 1]
         /\ Range(Tail(s)) = Range(s) \ {Head(s)}
         /\ \A i, j \in 1..Len(Tail(s)) : Tail(s)[i] = Tail(s)[j] => i = j
<1> DEFINE t == Tail(s)
           h == Head(s)
<1>1. /\ h \in S /\ t \in Seq(S) /\ Len(t) = Len(s) - 1
      /\ \A i \in 1..Len(t) : t[i] = s[i + 1]
  BY HeadTailProperties
<1>2. h = s[1]
  OBVIOUS
<1>3. Len(s) \in Nat \ {0}
  BY EmptySeq
<1> HIDE DEF t, h
<1>4. \A x : x \in Range(s) <=> \E i \in 1..Len(s) : s[i] = x
  BY InRange
<1>5. \A x : x \in Range(t) <=> \E i \in 1..Len(t) : t[i] = x
  BY <1>1, InRange
<1>6. h \in Range(s)
  BY <1>2, <1>3, <1>4
<1>7. \A x : x \in Range(t) <=> x \in Range(s) /\ x # h
  <2>1. ASSUME NEW i \in 1..Len(t)
        PROVE  t[i] \in Range(s) /\ t[i] # h
    <3>1. i + 1 \in 1..Len(s) /\ i + 1 # 1 /\ 1 \in 1..Len(s) /\ t[i] = s[i + 1]
      BY <1>1, <1>3
    <3> QED
      BY <1>2, <1>4, <3>1
  <2>2. ASSUME NEW i \in 1..Len(s), s[i] # h
        PROVE  s[i] \in Range(t)
    <3>1. i - 1 \in 1..Len(t) /\ t[i - 1] = s[i]
      BY <1>1, <1>2, <1>3, <2>2
    <3> QED
      BY <1>5, <3>1
  <2> QED
    BY <1>4, <1>5, <2>1, <2>2
<1>8. \A i, j \in 1..Len(t) : t[i] = t[j] => i = j
  BY <1>1, <1>3
<1> QED
  BY <1>1, <1>2, <1>3, <1>6, <1>7, <1>8 DEF t, h
----------------------------------------------------------------------------
(***************************************************************************)
(* One round of flush_out.                                                 *)
(***************************************************************************)

(* It changes the queue and what one task holds. *)
LEMMA FlushTouches ==
  ASSUME NEW f \in Flushers, NEW up \in BOOLEAN, NEW q \in Seq(Queries),
         flight \in [Flushers -> Queries \cup {Handshake, NoSend}], FlushRound(f, up, q)
  PROVE  /\ flight' \in [Flushers -> Queries \cup {Handshake, NoSend}]
         /\ \A g \in Flushers \ {f} : flight'[g] = flight[g]
         /\ outq' \in Seq(Queries)
         /\ up /\ q # <<>> => outq' = Tail(q) /\ flight'[f] = Head(q) /\ Head(q) \in Queries
         /\ ~(up /\ q # <<>>) => outq' = q /\ flight'[f] = NoSend
<1>1. CASE up /\ q # <<>>
  <2>1. Head(q) \in Queries /\ Tail(q) \in Seq(Queries)
    BY <1>1, HeadTailProperties
  <2> QED
    BY <1>1, <2>1 DEF FlushRound
<1>2. CASE ~(up /\ q # <<>>)
  BY <1>2 DEF FlushRound
<1> QED
  BY <1>1, <1>2

(* A message is in hand when some task awaits its send. *)
LEMMA InHand ==
  ASSUME NEW m
  PROVE  m \in Hands <=> \E f \in Flushers : flight[f] \in Queries /\ flight[f] = m
BY DEF Hands, Sending

(* The messages that everyone but f holds. *)
Others(f) == {flight[g] : g \in {e \in Flushers \ {f} : Sending(e)}}

(***************************************************************************)
(* The round moves messages from the queue q into the hands of f, and      *)
(* nothing else: none is lost, none is doubled, and none is left behind    *)
(* beside a sink unless f has one in hand.                                 *)
(***************************************************************************)
LEMMA FlushPlaces ==
  ASSUME BrowserAssumption, NEW f \in Flushers, NEW up \in BOOLEAN, NEW q \in Seq(Queries),
         flight \in [Flushers -> Queries \cup {Handshake, NoSend}], FlushRound(f, up, q),
         \A i, j \in 1..Len(q) : q[i] = q[j] => i = j,
         \A e, g \in Flushers \ {f} : Sending(e) /\ Sending(g) /\ flight[e] = flight[g] => e = g,
         Range(q) \cap Others(f) = {}
  PROVE  /\ OnePlace'
         /\ Range(outq') \cup Hands' = Range(q) \cup Others(f)
         /\ up /\ outq' # <<>> => Sending(f)'
<1>0. NoSend \notin Queries
  BY DEF BrowserAssumption
<1>1. /\ flight' \in [Flushers -> Queries \cup {Handshake, NoSend}]
      /\ \A g \in Flushers \ {f} : flight'[g] = flight[g]
      /\ outq' \in Seq(Queries)
      /\ up /\ q # <<>> => outq' = Tail(q) /\ flight'[f] = Head(q) /\ Head(q) \in Queries
      /\ ~(up /\ q # <<>>) => outq' = q /\ flight'[f] = NoSend
  BY FlushTouches
<1>2. \A m : m \in Others(f) <=> \E g \in Flushers \ {f} : flight[g] \in Queries /\ flight[g] = m
  BY DEF Others, Sending
<1>3. \A m : m \in Hands' <=> \E g \in Flushers : flight'[g] \in Queries /\ flight'[g] = m
  BY DEF Hands, Sending
<1>4. CASE up /\ q # <<>>
  <2>1. /\ outq' = Tail(q) /\ flight'[f] = Head(q) /\ Head(q) \in Queries
        /\ Head(q) \in Range(q) /\ Range(outq') = Range(q) \ {Head(q)}
        /\ \A i, j \in 1..Len(outq') : outq'[i] = outq'[j] => i = j
    <3>1. /\ Head(q) \in Range(q) /\ Range(Tail(q)) = Range(q) \ {Head(q)}
          /\ \A i, j \in 1..Len(Tail(q)) : Tail(q)[i] = Tail(q)[j] => i = j
      BY <1>4, TailFresh
    <3>2. outq' = Tail(q) /\ flight'[f] = Head(q) /\ Head(q) \in Queries
      BY <1>1, <1>4
    <3> QED
      BY <3>1, <3>2, Zenon
  <2>2. Hands' = Others(f) \cup {Head(q)}
    BY <1>1, <1>2, <1>3, <2>1
  <2>3. \A e, g \in Flushers : /\ flight'[e] \in Queries /\ flight'[g] \in Queries
                                /\ flight'[e] = flight'[g] => e = g
    BY <1>1, <1>2, <2>1 DEF Sending
  <2>4. Range(outq') \cap Hands' = {}
    BY <2>1, <2>2
  <2>5. Sending(f)'
    BY <2>1 DEF Sending
  <2> QED
    BY <2>1, <2>2, <2>3, <2>4, <2>5 DEF OnePlace, Sending
<1>5. CASE ~(up /\ q # <<>>)
  <2>1. outq' = q /\ flight'[f] = NoSend
    BY <1>1, <1>5
  <2>2. Hands' = Others(f)
    <3>1. \A g \in Flushers : flight'[g] \in Queries => g # f
      BY <1>0, <2>1
    <3>2. \A m : m \in Hands' <=> m \in Others(f)
      BY <1>1, <1>2, <1>3, <3>1
    <3> QED
      BY <3>2
  <2>3. \A e, g \in Flushers : /\ flight'[e] \in Queries /\ flight'[g] \in Queries
                                /\ flight'[e] = flight'[g] => e = g
    BY <1>0, <1>1, <2>1 DEF Sending
  <2>4. up => outq' = <<>>
    BY <1>5, <2>1
  <2> QED
    BY <2>1, <2>2, <2>3, <2>4 DEF OnePlace, Sending
<1> QED
  BY <1>4, <1>5
----------------------------------------------------------------------------
(***************************************************************************)
(* What a step does to the main loop and to the connection tasks.          *)
(***************************************************************************)

(* A host list that is cut to length. *)
LEMMA Cut ==
  ASSUME NEW list \in Seq(Hosts), MaxHosts \in Nat
  PROVE  /\ SubSeq(list, 1, IF Len(list) > MaxHosts THEN MaxHosts ELSE Len(list)) \in Seq(Hosts)
         /\ Len(SubSeq(list, 1, IF Len(list) > MaxHosts THEN MaxHosts ELSE Len(list))) \in Nat
<1> DEFINE n == IF Len(list) > MaxHosts THEN MaxHosts ELSE Len(list)
<1>1. n \in Nat /\ n <= Len(list) /\ Len(list) \in Nat
  BY LenProperties
<1>2. \A j \in 1..n : list[j] \in Hosts
  BY <1>1, ElementOfSeq
<1> HIDE DEF n
<1>3. SubSeq(list, 1, n) \in Seq(Hosts)
  BY <1>1, <1>2, SubSeqProperties
<1> QED
  BY <1>3, LenProperties DEF n

(* The main loop dials only hosts that are listed and not registered. *)
LEMMA DialTasks ==
  ASSUME BrowserAssumption, TypeOK, TasksCounted, NEW list \in Seq(Hosts), DialNext(list),
         UNCHANGED <<fails, online>>
  PROVE  /\ main' \in {"stagger", "tick", "done"} /\ todo' \in Seq(Hosts)
         /\ TasksTyped' /\ TasksCounted'
         /\ \A h \in Hosts : task[h] = "online" => task'[h] = "online"
<1>0. /\ hosts = {h \in Hosts : task[h] # "none"} /\ fails \in [Hosts -> 0..MaxFail]
      /\ Len(list) \in Nat /\ DOMAIN list = 1..Len(list) /\ <<>> \in Seq(Hosts)
      /\ \A i \in 1..Len(list) : list[i] \in Hosts
  BY LenProperties, ElementOfSeq DEF TypeOK, TasksCounted
<1>1. CASE closed \/ \A i \in DOMAIN list : list[i] \in hosts
  <2>1. /\ todo' = <<>> /\ main' = IF closed THEN "done" ELSE "tick"
        /\ UNCHANGED <<hosts, connCnt, task>>
    BY <1>1 DEF DialNext
  <2> QED
    BY <1>0, <2>1 DEF TypeOK, TasksTyped, TasksCounted, TaskStates
<1>2. CASE ~closed /\ ~\A i \in DOMAIN list : list[i] \in hosts
  <2>1. PICK i \in DOMAIN list :
          /\ list[i] \notin hosts
          /\ hosts' = hosts \cup {list[i]}
          /\ task' = [task EXCEPT ![list[i]] = "dial"]
          /\ todo' = SubSeq(list, i + 1, Len(list))
    BY <1>2 DEF DialNext
  <2>2. main' = "stagger" /\ connCnt' = connCnt + 1
    BY <1>2 DEF DialNext
  <2>3. list[i] \in Hosts /\ task[list[i]] = "none" /\ i + 1 \in Nat \ {0}
    BY <1>0, <2>1
  <2>4. todo' \in Seq(Hosts)
    <3>1. \A j \in (i + 1)..Len(list) : list[j] \in Hosts
      BY <1>0, <2>3
    <3> QED
      BY <1>0, <2>1, <2>3, <3>1, SubSeqProperties
  <2>5. /\ TasksCounted' /\ connCnt' \in Nat /\ online' \in Nat
        /\ task' \in [Hosts -> TaskStates] /\ hosts' \subseteq Hosts
        /\ \A g \in Hosts : task'[g] = IF g = list[i] THEN "dial" ELSE task[g]
    <3> DEFINE h == list[i]
    <3>1. "dial" \in TaskStates /\ "dial" # "none" /\ "dial" # "online"
      BY DEF TaskStates
    <3>2. h \in Hosts /\ task[h] = "none" /\ task' = [task EXCEPT ![h] = "dial"]
      BY <2>1, <2>3
    <3>3. hosts' = IF "dial" = "none" THEN hosts \ {h} ELSE hosts \cup {h}
      BY <2>1, <3>1
    <3>4. /\ connCnt' = IF "dial" = "none"
                          THEN (IF task[h] = "none" THEN connCnt ELSE connCnt - 1)
                          ELSE (IF task[h] = "none" THEN connCnt + 1 ELSE connCnt)
          /\ online' = IF "dial" = "online"
                         THEN (IF task[h] = "online" THEN online ELSE online + 1)
                         ELSE (IF task[h] = "online" THEN online - 1 ELSE online)
      BY <2>2, <3>1, <3>2
    <3> HIDE DEF h
    <3>5. /\ TasksCounted' /\ connCnt' \in Nat /\ online' \in Nat
          /\ task' \in [Hosts -> TaskStates] /\ hosts' \subseteq Hosts
          /\ \A g \in Hosts : task'[g] = IF g = h THEN "dial" ELSE task[g]
      BY <3>1, <3>2, <3>3, <3>4, TaskMoves
    <3> QED
      BY <3>5 DEF h
  <2> QED
    BY <1>0, <2>2, <2>3, <2>4, <2>5 DEF TasksTyped
<1> QED
  BY <1>1, <1>2

(* A session that ends leaves the task of its host pausing or gone. *)
LEMMA SessionTasks ==
  ASSUME BrowserAssumption, TypeOK, TasksCounted, NEW h \in Hosts, task[h] = "online", SessionEnds(h)
  PROVE  /\ TasksTyped' /\ TasksCounted'
         /\ \A g \in Hosts \ {h} : task'[g] = task[g]
<1>1. /\ Failed(h) \/ Healthy(h) \/ TaskExit(h)
      /\ task[h] # "none"
      /\ online' = IF task[h] = "online" THEN online - 1 ELSE online
  BY DEF SessionEnds, OnlineDecr
<1> QED
  BY <1>1, TaskLeaves

(* The counters stay right, and a session that ends awaits no send. *)
LEMMA TasksStep ==
  ASSUME BrowserAssumption, TypeOK, TasksCounted, SendersRun, Next
  PROVE  /\ TasksTyped' /\ TasksCounted'
         /\ \A h \in Hosts : task[h] = "online" => task'[h] = "online" \/ flight'[h] = NoSend
<1> DEFINE Good ==
      /\ TasksTyped' /\ TasksCounted'
      /\ \A h \in Hosts : task[h] = "online" => task'[h] = "online" \/ flight'[h] = NoSend
<1>0. /\ task \in [Hosts -> TaskStates] /\ TasksTyped
      /\ flight \in [Flushers -> Queries \cup {Handshake, NoSend}]
      /\ NoSend # Handshake /\ Hosts \subseteq Flushers
      /\ ApiLists \subseteq Seq(Hosts) /\ MaxHosts \in Nat /\ todo \in Seq(Hosts)
      /\ \A h \in Hosts : task[h] # "online" => flight[h] = NoSend
  BY DEF TypeOK, TasksTyped, TaskStates, BrowserAssumption, Flushers, SendersRun
<1>1. ASSUME UNCHANGED <<hosts, connCnt, taskVars, online>>
      PROVE  Good
  BY <1>0, <1>1 DEF taskVars, TasksTyped, TasksCounted
<1>2. ASSUME NEW h \in Hosts, task[h] = "online", SessionEnds(h), flight'[h] = NoSend
      PROVE  Good
  BY <1>2, SessionTasks
<1>3. ASSUME NEW h \in Hosts, Failed(h) \/ TaskExit(h), task[h] \notin {"none", "online"},
             UNCHANGED online
      PROVE  Good
  BY <1>3, TaskLeaves
<1>4. ASSUME NEW h \in Hosts, NEW x \in TaskStates \ {"none"}, task[h] \notin {"none", "online"},
             task' = [task EXCEPT ![h] = x],
             online' = IF x = "online" THEN online + 1 ELSE online,
             UNCHANGED <<fails, hosts, connCnt>>
      PROVE  Good
  <2>1. h \in hosts
    BY <1>4 DEF TasksCounted
  <2>2. /\ hosts' = IF x = "none" THEN hosts \ {h} ELSE hosts \cup {h}
        /\ connCnt' = IF x = "none" THEN (IF task[h] = "none" THEN connCnt ELSE connCnt - 1)
                      ELSE (IF task[h] = "none" THEN connCnt + 1 ELSE connCnt)
        /\ online' = IF x = "online" THEN (IF task[h] = "online" THEN online ELSE online + 1)
                     ELSE (IF task[h] = "online" THEN online - 1 ELSE online)
    BY <1>4, <2>1
  <2>3. /\ TasksCounted' /\ connCnt' \in Nat /\ online' \in Nat
        /\ task' \in [Hosts -> TaskStates] /\ hosts' \subseteq Hosts
        /\ \A g \in Hosts : task'[g] = IF g = h THEN x ELSE task[g]
    BY <1>4, <2>2, TaskMoves
  <2> QED
    BY <1>0, <1>4, <2>3 DEF TasksTyped
<1>5. ASSUME NEW list \in Seq(Hosts), DialNext(list), UNCHANGED <<fails, online>>
      PROVE  Good
  BY <1>5, DialTasks
<1> HIDE DEF Good
<1>6. ASSUME NEW h \in Hosts, TaskNext(h)
      PROVE  Good
  <2>1. CASE DialFails(h) \/ HandshakeFails(h)
    BY <1>3, <2>1 DEF DialFails, HandshakeFails
  <2>2. CASE PauseEnds(h)
    <3>1. CASE closed
      BY <1>3, <2>2, <3>1 DEF PauseEnds
    <3>2. CASE ~closed
      <4>1. "dial" \in TaskStates \ {"none"} /\ "dial" # "online"
        BY DEF TaskStates
      <4> QED
        BY <1>4, <2>2, <3>2, <4>1 DEF PauseEnds
    <3> QED
      BY <3>1, <3>2
  <2>3. CASE DialOk(h)
    <3>1. "shake" \in TaskStates \ {"none"} /\ "shake" # "online"
      BY DEF TaskStates
    <3> QED
      BY <1>4, <2>3, <3>1 DEF DialOk, mgrVars
  <2>4. CASE HandshakeOk(h)
    <3>1. "online" \in TaskStates \ {"none"}
      BY DEF TaskStates
    <3> QED
      BY <1>4, <2>4, <3>1 DEF HandshakeOk, OnlineIncr, mgrVars
  <2>5. CASE ReadEnds(h) \/ ReadPolls(h)
    BY <1>2, <2>5 DEF ReadEnds, ReadPolls, Reading
  <2>6. CASE ReadHandshake(h)
    BY <1>1, <1>2, <2>6 DEF ReadHandshake, Reading, mgrVars
  <2>7. CASE ResponseSent(h)
    <3>1. task[h] = "online" /\ flight'[h] = NoSend
      BY <1>0, <2>7 DEF ResponseSent
    <3> QED
      BY <1>1, <1>2, <2>7, <3>1 DEF ResponseSent, mgrVars
  <2>8. ASSUME NEW q \in Queries, ReadAnswer(h, q)
        PROVE  Good
    BY <1>1, <1>2, <2>8 DEF ReadAnswer, Reading
  <2> QED
    BY <1>6, <2>1, <2>2, <2>3, <2>4, <2>5, <2>6, <2>7, <2>8 DEF TaskNext
<1>7. ASSUME MainNext
      PROVE  Good
  <2>1. ASSUME NEW list \in ApiLists, NEW n \in 0..MaxReported, Fetched(list, n)
        PROVE  Good
    <3> DEFINE cut == SubSeq(list, 1, IF Len(list) > MaxHosts THEN MaxHosts ELSE Len(list))
    <3>1. cut \in Seq(Hosts)
      BY <1>0, Cut
    <3>2. DialNext(cut) /\ UNCHANGED <<fails, online>>
      BY <2>1 DEF Fetched
    <3> QED
      BY <1>5, <3>1, <3>2
  <2>2. CASE StaggerEnds
    <3>1. DialNext(todo) /\ UNCHANGED <<fails, online>>
      BY <2>2 DEF StaggerEnds
    <3> QED
      BY <1>0, <1>5, <3>1
  <2>3. CASE FetchFails \/ Tick
    <3>1. UNCHANGED <<hosts, connCnt, taskVars, online>>
      BY <2>3 DEF FetchFails, Tick
    <3> QED
      BY <1>1, <3>1
  <2> QED
    BY <1>7, <2>1, <2>2, <2>3 DEF MainNext
<1>8. ASSUME CallNext \/ \E f \in Flushers : SendOk(f) \/ SendErr(f)
      PROVE  Good
  <2>1. UNCHANGED <<hosts, connCnt, taskVars, online>>
    BY <1>8 DEF CallNext, Query, QueryEnds, WaitOnline, WaitExpires, WaitCheck, Close,
                SendOk, SendErr, mgrVars
  <2> QED
    BY <1>1, <2>1
<1> QED
  BY <1>6, <1>7, <1>8 DEF Next, Good
----------------------------------------------------------------------------
(***************************************************************************)
(* The steps that move messages.                                           *)
(***************************************************************************)

(* The messages of the outbox. *)
Pending == Range(outq) \cup Hands

(* The part of the invariant that is about messages. *)
Kept == OnePlace /\ HandedOver /\ NoIdleQueue

LEMMA OthersHands ==
  ASSUME OnePlace, NEW f \in Flushers
  PROVE  /\ Sending(f) => flight[f] \in Hands /\ Others(f) = Hands \ {flight[f]}
         /\ ~Sending(f) => Others(f) = Hands
<1>1. \A m : m \in Hands <=> \E g \in Flushers : Sending(g) /\ flight[g] = m
  BY DEF Hands
<1>2. \A m : m \in Others(f) <=> \E g \in Flushers \ {f} : Sending(g) /\ flight[g] = m
  BY DEF Others
<1>3. \A g \in Flushers : Sending(f) /\ Sending(g) /\ flight[f] = flight[g] => f = g
  BY DEF OnePlace
<1>4. ASSUME Sending(f)
      PROVE  flight[f] \in Hands /\ Others(f) = Hands \ {flight[f]}
  BY <1>1, <1>2, <1>3, <1>4
<1>5. ASSUME ~Sending(f)
      PROVE  Others(f) = Hands
  BY <1>1, <1>2, <1>5
<1> QED
  BY <1>4, <1>5

(* A call hands a new message over. *)
LEMMA QueryPlaces ==
  ASSUME BrowserAssumption, TypeOK, SendersRun, Kept, NEW q \in Queries, Query(q)
  PROVE  /\ q \notin Pending \cup wire
         /\ Pending' = Pending \cup {q} /\ wire' = wire
         /\ Kept'
<1> DEFINE t == Append(outq, q)
<1>0. /\ outq \in Seq(Queries) /\ sink \in BOOLEAN /\ q \in Flushers
      /\ flight \in [Flushers -> Queries \cup {Handshake, NoSend}]
      /\ query \in [Queries -> {"idle", "open", "done"}]
      /\ wire \subseteq Queries
      /\ query[q] = "idle" /\ query' = [query EXCEPT ![q] = "open"]
      /\ FlushRound(q, sink, t) /\ sink' = sink /\ wire' = wire
      /\ OnePlace /\ HandedOver
  BY DEF TypeOK, Query, Flushers, Kept
<1>1. q \notin Pending \cup wire
  BY <1>0 DEF HandedOver, Pending
<1>2. ~Sending(q) /\ Others(q) = Hands
  <2>1. ~Sending(q)
    BY <1>0 DEF SendersRun, Sending, BrowserAssumption
  <2> QED
    BY <1>0, <2>1, OthersHands
<1>3. /\ t \in Seq(Queries) /\ Range(t) = Range(outq) \cup {q}
      /\ \A i, j \in 1..Len(t) : t[i] = t[j] => i = j
  <2>1. q \notin Range(outq) /\ \A i, j \in 1..Len(outq) : outq[i] = outq[j] => i = j
    BY <1>0, <1>1 DEF Pending, OnePlace
  <2> QED
    BY <1>0, <2>1, AppendFresh
<1> HIDE DEF t
<1>4. /\ \A e, g \in Flushers \ {q} : Sending(e) /\ Sending(g) /\ flight[e] = flight[g] => e = g
      /\ Range(t) \cap Others(q) = {}
  BY <1>0, <1>1, <1>2, <1>3 DEF OnePlace, Pending
<1>5. OnePlace' /\ Pending' = Range(t) \cup Others(q) /\ (sink /\ outq' # <<>> => Sending(q)')
  BY <1>0, <1>3, <1>4, FlushPlaces DEF Pending
<1>6. Pending' = Pending \cup {q}
  BY <1>2, <1>3, <1>5 DEF Pending
<1>7. HandedOver'
  <2>1. \A m \in Pending \cup wire : query[m] # "idle"
    BY <1>0 DEF HandedOver, Pending
  <2>2. \A m \in Queries : query'[m] = IF m = q THEN "open" ELSE query[m]
    BY <1>0
  <2>3. Pending' \subseteq Queries
    <3>1. Range(outq) \subseteq Queries
      BY <1>0, InRange, ElementOfSeq
    <3>2. Hands \subseteq Queries
      BY DEF Hands, Sending
    <3> QED
      BY <1>6, <3>1, <3>2 DEF Pending
  <2>4. \A m \in Pending' \cup wire' : query'[m] # "idle"
    BY <1>0, <1>6, <2>1, <2>2, <2>3
  <2> QED
    BY <2>4 DEF HandedOver, Pending
<1>8. NoIdleQueue'
  BY <1>0, <1>5 DEF NoIdleQueue
<1> QED
  BY <1>0, <1>1, <1>5, <1>6, <1>7, <1>8 DEF Kept

(* A send ends: the message is on the wire ... *)
LEMMA SendOkPlaces ==
  ASSUME BrowserAssumption, TypeOK, SendersRun, Kept, NEW f \in Flushers, SendOk(f)
  PROVE  /\ flight[f] \in Pending
         /\ Pending' = Pending \ {flight[f]} /\ wire' = wire \cup {flight[f]}
         /\ Kept'
<1>0. /\ outq \in Seq(Queries) /\ sink \in BOOLEAN
      /\ flight \in [Flushers -> Queries \cup {Handshake, NoSend}]
      /\ Sending(f) /\ wire' = wire \cup {flight[f]}
      /\ FlushRound(f, sink, outq) /\ sink' = sink /\ query' = query
      /\ OnePlace /\ HandedOver
  BY DEF TypeOK, SendOk, Kept, callVars
<1>1. flight[f] \in Hands /\ Others(f) = Hands \ {flight[f]}
  BY <1>0, OthersHands
<1>2. /\ \A i, j \in 1..Len(outq) : outq[i] = outq[j] => i = j
      /\ \A e, g \in Flushers \ {f} : Sending(e) /\ Sending(g) /\ flight[e] = flight[g] => e = g
      /\ Range(outq) \cap Hands = {}
      /\ Range(outq) \cap Others(f) = {}
  BY <1>0, <1>1 DEF OnePlace
<1>3. /\ OnePlace'
      /\ Pending' = Range(outq) \cup Others(f)
      /\ sink /\ outq' # <<>> => Sending(f)'
  BY <1>0, <1>2, FlushPlaces DEF Pending
<1>4. Pending' = Pending \ {flight[f]}
  BY <1>1, <1>2, <1>3 DEF Pending
<1>5. HandedOver'
  BY <1>0, <1>1, <1>4 DEF HandedOver, Pending
<1>6. NoIdleQueue'
  BY <1>0, <1>3 DEF NoIdleQueue
<1> QED
  BY <1>0, <1>1, <1>3, <1>4, <1>5, <1>6 DEF Kept, Pending

(* ... or back at the front of the queue. *)
LEMMA SendErrPlaces ==
  ASSUME BrowserAssumption, TypeOK, SendersRun, Kept, NEW f \in Flushers, SendErr(f)
  PROVE  Pending' = Pending /\ wire' = wire /\ Kept'
<1> DEFINE q == <<flight[f]>> \o outq
<1>0. /\ outq \in Seq(Queries)
      /\ flight \in [Flushers -> Queries \cup {Handshake, NoSend}]
      /\ Sending(f) /\ flight[f] \in Queries /\ wire' = wire
      /\ FlushRound(f, FALSE, q) /\ sink' = FALSE /\ query' = query
      /\ OnePlace /\ HandedOver
  BY DEF TypeOK, SendErr, Kept, callVars, Sending
<1>1. flight[f] \in Hands /\ Others(f) = Hands \ {flight[f]}
  BY <1>0, OthersHands
<1>2. flight[f] \notin Range(outq) /\ \A i, j \in 1..Len(outq) : outq[i] = outq[j] => i = j
  BY <1>0, <1>1 DEF OnePlace
<1>3. /\ q \in Seq(Queries) /\ Range(q) = Range(outq) \cup {flight[f]}
      /\ \A i, j \in 1..Len(q) : q[i] = q[j] => i = j
  BY <1>0, <1>2, ConsFresh
<1> HIDE DEF q
<1>4. /\ \A e, g \in Flushers \ {f} : Sending(e) /\ Sending(g) /\ flight[e] = flight[g] => e = g
      /\ Range(q) \cap Others(f) = {}
  BY <1>0, <1>1, <1>3 DEF OnePlace
<1>5. OnePlace' /\ Pending' = Range(q) \cup Others(f)
  BY <1>0, <1>3, <1>4, FlushPlaces DEF Pending
<1>6. Pending' = Pending
  BY <1>1, <1>3, <1>5 DEF Pending
<1>7. HandedOver'
  BY <1>0, <1>6 DEF HandedOver, Pending
<1>8. NoIdleQueue'
  BY <1>0 DEF NoIdleQueue
<1> QED
  BY <1>0, <1>5, <1>6, <1>7, <1>8 DEF Kept

(* A handshake succeeds: the new sink takes the head of the queue. *)
LEMMA HandshakePlaces ==
  ASSUME BrowserAssumption, TypeOK, SendersRun, Kept, NEW h \in Hosts, HandshakeOk(h)
  PROVE  Pending' = Pending /\ wire' = wire /\ Kept'
<1>0. /\ outq \in Seq(Queries) /\ h \in Flushers
      /\ flight \in [Flushers -> Queries \cup {Handshake, NoSend}]
      /\ ~Sending(h) /\ wire' = wire
      /\ FlushRound(h, TRUE, outq) /\ query' = query
      /\ OnePlace /\ HandedOver
  BY DEF TypeOK, HandshakeOk, Kept, callVars, Sending, SendersRun, BrowserAssumption, Flushers
<1>1. Others(h) = Hands
  BY <1>0, OthersHands
<1>2. /\ \A i, j \in 1..Len(outq) : outq[i] = outq[j] => i = j
      /\ \A e, g \in Flushers \ {h} : Sending(e) /\ Sending(g) /\ flight[e] = flight[g] => e = g
      /\ Range(outq) \cap Others(h) = {}
  BY <1>0, <1>1 DEF OnePlace
<1>3. /\ OnePlace'
      /\ Pending' = Range(outq) \cup Others(h)
      /\ outq' # <<>> => Sending(h)'
  BY <1>0, <1>2, FlushPlaces DEF Pending
<1>4. Pending' = Pending
  BY <1>1, <1>3 DEF Pending
<1>5. HandedOver'
  BY <1>0, <1>4 DEF HandedOver, Pending
<1>6. NoIdleQueue'
  BY <1>0, <1>3 DEF NoIdleQueue
<1> QED
  BY <1>0, <1>3, <1>4, <1>5, <1>6 DEF Kept

(* The steps that move no message: they may drop a sink, end a call, or    *)
(* begin or end the response to a handshake.                               *)
Quiet ==
  /\ UNCHANGED <<outq, wire>>
  /\ sink' => sink
  /\ \A q \in Queries : query[q] # "idle" => query'[q] # "idle"
  /\ \A f \in Flushers : \/ flight'[f] = flight[f]
                         \/ ~Sending(f) /\ ~Sending(f)'

LEMMA QuietPlaces ==
  ASSUME TypeOK, Kept, Quiet
  PROVE  Pending' = Pending /\ wire' = wire /\ Kept'
<1>0. OnePlace /\ HandedOver /\ NoIdleQueue /\ outq \in Seq(Queries) /\ wire \subseteq Queries
  BY DEF Kept, TypeOK
<1>1. /\ outq' = outq /\ wire' = wire /\ (sink' => sink)
      /\ \A f \in Flushers : Sending(f)' <=> Sending(f)
      /\ \A f \in Flushers : Sending(f) => flight'[f] = flight[f]
  BY DEF Quiet, Sending
<1>2. Hands' = Hands
  <2>1. \A m : m \in Hands' <=> \E f \in Flushers : Sending(f)' /\ flight'[f] = m
    BY DEF Hands
  <2>2. \A m : m \in Hands <=> \E f \in Flushers : Sending(f) /\ flight[f] = m
    BY DEF Hands
  <2>3. \A m : m \in Hands' <=> m \in Hands
    BY <1>1, <2>1, <2>2
  <2> QED
    BY <2>3
<1>3. OnePlace'
  BY <1>0, <1>1, <1>2 DEF OnePlace
<1>4. HandedOver'
  <2>1. Range(outq) \cup Hands \cup wire \subseteq Queries
    <3>1. Range(outq) \subseteq Queries
      BY <1>0, InRange, ElementOfSeq
    <3>2. Hands \subseteq Queries
      BY DEF Hands, Sending
    <3> QED
      BY <1>0, <3>1, <3>2
  <2> QED
    BY <1>0, <1>1, <1>2, <2>1 DEF HandedOver, Quiet
<1>5. NoIdleQueue'
  BY <1>0, <1>1 DEF NoIdleQueue
<1> QED
  BY <1>1, <1>2, <1>3, <1>4, <1>5 DEF Kept, Pending

QuietNext ==
  \/ MainNext
  \/ \E h \in Hosts :
       \/ DialFails(h) \/ DialOk(h) \/ PauseEnds(h) \/ HandshakeFails(h)
       \/ ReadEnds(h) \/ ReadPolls(h) \/ ReadHandshake(h) \/ ResponseSent(h)
       \/ \E q \in Queries : ReadAnswer(h, q)
  \/ \E q \in Queries : QueryEnds(q)
  \/ \E w \in Waiters : WaitOnline(w) \/ WaitExpires(w)
  \/ Close

LEMMA QuietSteps ==
  ASSUME BrowserAssumption, TypeOK, QuietNext
  PROVE  Quiet
<1>0. /\ NoSend \notin Queries /\ Handshake \notin Queries
      /\ flight \in [Flushers -> Queries \cup {Handshake, NoSend}]
      /\ query \in [Queries -> {"idle", "open", "done"}]
      /\ Hosts \subseteq Flushers
  BY DEF BrowserAssumption, TypeOK, Flushers
<1>1. ASSUME UNCHANGED <<outq, flight, wire, query>>, sink' => sink
      PROVE  Quiet
  BY <1>1 DEF Quiet
<1>2. ASSUME NEW h \in Hosts, UNCHANGED <<outq, wire, query>>, sink' => sink,
             NEW x \in {Handshake, NoSend}, flight' = [flight EXCEPT ![h] = x], ~Sending(h)
      PROVE  Quiet
  <2>1. \A f \in Flushers : flight'[f] = IF f = h THEN x ELSE flight[f]
    BY <1>0, <1>2
  <2>2. ~Sending(h)'
    BY <1>0, <2>1 DEF Sending
  <2> QED
    BY <1>2, <2>1, <2>2 DEF Quiet
<1>3. ASSUME NEW h \in Hosts,
             \/ DialFails(h) \/ DialOk(h) \/ PauseEnds(h) \/ HandshakeFails(h)
             \/ ReadEnds(h) \/ ReadPolls(h)
             \/ \E q \in Queries : ReadAnswer(h, q)
      PROVE  Quiet
  <2>1. UNCHANGED <<outq, flight, wire, query>> /\ (sink' => sink)
    BY <1>3 DEF DialFails, DialOk, PauseEnds, HandshakeFails, ReadEnds, ReadPolls, ReadAnswer,
                SessionEnds, outVars, callVars
  <2> QED
    BY <1>1, <2>1
<1>4. ASSUME NEW h \in Hosts, ReadHandshake(h)
      PROVE  Quiet
  <2>1. CASE ~sink
    <3>1. UNCHANGED <<outq, flight, wire, query>> /\ (sink' => sink)
      BY <1>4, <2>1 DEF ReadHandshake, SessionEnds, callVars
    <3> QED
      BY <1>1, <3>1
  <2>2. CASE sink
    <3>1. /\ UNCHANGED <<outq, wire, query>> /\ (sink' => sink)
          /\ flight' = [flight EXCEPT ![h] = Handshake] /\ ~Sending(h)
      BY <1>0, <1>4, <2>2 DEF ReadHandshake, callVars, Reading, Sending
    <3> QED
      BY <1>2, <3>1
  <2> QED
    BY <2>1, <2>2
<1>5. ASSUME NEW h \in Hosts, ResponseSent(h)
      PROVE  Quiet
  <2>1. /\ UNCHANGED <<outq, wire, query>> /\ (sink' => sink)
        /\ flight' = [flight EXCEPT ![h] = NoSend] /\ ~Sending(h)
    BY <1>0, <1>5 DEF ResponseSent, SessionEnds, callVars, Sending
  <2> QED
    BY <1>2, <2>1
<1>6. ASSUME NEW q \in Queries, QueryEnds(q)
      PROVE  Quiet
  <2>1. /\ UNCHANGED <<outq, flight, wire>> /\ sink' = sink
        /\ \A r \in Queries : query[r] # "idle" => query'[r] # "idle"
    BY <1>0, <1>6 DEF QueryEnds, outVars
  <2> QED
    BY <2>1 DEF Quiet
<1>7. ASSUME MainNext \/ Close \/ \E w \in Waiters : WaitOnline(w) \/ WaitExpires(w)
      PROVE  Quiet
  <2>1. UNCHANGED <<outq, flight, wire, query>> /\ (sink' => sink)
    BY <1>7 DEF MainNext, Fetched, FetchFails, StaggerEnds, Tick, Close, WaitOnline, WaitExpires,
                WaitCheck, outVars, callVars
  <2> QED
    BY <1>1, <2>1
<1> QED
  BY <1>3, <1>4, <1>5, <1>6, <1>7 DEF QuietNext

(* A step is quiet, or one of the four that move messages. *)
LEMMA StepKinds ==
  ASSUME Next
  PROVE  \/ QuietNext
         \/ \E h \in Hosts : HandshakeOk(h)
         \/ \E f \in Flushers : SendOk(f) \/ SendErr(f)
         \/ \E q \in Queries : Query(q)
BY DEF Next, MainNext, TaskNext, CallNext, QuietNext

(* Only a task in a session and an open call begin to await a send. *)
LEMMA SendersStep ==
  ASSUME BrowserAssumption, TypeOK, TasksCounted, SendersRun, Kept, Next
  PROVE  SendersRun'
<1>0. /\ NoSend \notin Queries /\ Handshake \notin Queries /\ Hosts \cap Queries = {}
      /\ flight \in [Flushers -> Queries \cup {Handshake, NoSend}]
      /\ task \in [Hosts -> TaskStates]
      /\ query \in [Queries -> {"idle", "open", "done"}]
      /\ sink \in BOOLEAN /\ outq \in Seq(Queries)
      /\ Flushers = Hosts \cup Queries
  BY DEF BrowserAssumption, TypeOK, TaskStates, Flushers
<1>1. \A h \in Hosts : task[h] = "online" => task'[h] = "online" \/ flight'[h] = NoSend
  BY TasksStep
<1> DEFINE Good(f) ==
      \/ flight'[f] = flight[f] \/ flight'[f] = NoSend
      \/ f \in Hosts /\ task'[f] = "online"
      \/ f \in Queries /\ query'[f] = "open"
<1>2. ASSUME NEW q \in Queries
      PROVE  query[q] = "open" => query'[q] = "open" \/ flight'[q] = NoSend
  <2>1. ASSUME NEW r \in Queries, QueryEnds(r)
        PROVE  query[q] = "open" => query'[q] = "open" \/ flight'[q] = NoSend
    <3>1. /\ flight' = flight /\ flight[r] = NoSend
          /\ q # r => query'[q] = query[q]
      BY <1>0, <2>1 DEF QueryEnds, outVars
    <3> QED
      BY <3>1
  <2>2. ASSUME NEW r \in Queries, Query(r)
        PROVE  query[q] = "open" => query'[q] = "open"
    BY <1>0, <2>2 DEF Query
  <2>3. ASSUME ~\E r \in Queries : Query(r) \/ QueryEnds(r)
        PROVE  query' = query
    BY <2>3 DEF Next, MainNext, TaskNext, CallNext, Fetched, FetchFails, StaggerEnds, Tick, DialFails,
         DialOk, PauseEnds, HandshakeFails, HandshakeOk, ReadEnds, ReadPolls, ReadHandshake,
         ResponseSent, ReadAnswer, SendOk, SendErr, WaitOnline, WaitExpires, WaitCheck, Close, callVars
  <2> QED
    BY <2>1, <2>2, <2>3
<1>3. ASSUME NEW f \in Flushers
      PROVE  Good(f)
  <2>1. ASSUME NEW g \in Flushers, NEW up \in BOOLEAN, NEW q \in Seq(Queries), FlushRound(g, up, q),
               g \in Hosts => task'[g] = "online", g \in Queries => query'[g] = "open"
        PROVE  Good(f)
    <3>1. \A e \in Flushers \ {g} : flight'[e] = flight[e]
      BY <1>0, <2>1, FlushTouches
    <3>2. (g \in Hosts /\ task'[g] = "online") \/ (g \in Queries /\ query'[g] = "open")
      BY <1>0, <2>1
    <3> QED
      BY <3>1, <3>2
  <2>2. ASSUME NEW q \in Queries, Query(q)
        PROVE  Good(f)
    <3>1. Append(outq, q) \in Seq(Queries) /\ q \in Flushers /\ q \notin Hosts
      BY <1>0, AppendFresh
    <3>2. query'[q] = "open" /\ FlushRound(q, sink, Append(outq, q))
      BY <1>0, <2>2 DEF Query
    <3> QED
      BY <1>0, <2>1, <3>1, <3>2
  <2>3. ASSUME NEW h \in Hosts, HandshakeOk(h)
        PROVE  Good(f)
    <3>1. task'[h] = "online" /\ FlushRound(h, TRUE, outq) /\ h \in Flushers /\ h \notin Queries
      BY <1>0, <2>3 DEF HandshakeOk
    <3> QED
      BY <1>0, <2>1, <3>1
  <2>4. ASSUME NEW g \in Flushers, SendOk(g) \/ SendErr(g)
        PROVE  Good(f)
    <3>1. /\ task' = task /\ query' = query /\ flight[g] \in Queries
          /\ FlushRound(g, sink, outq) \/ FlushRound(g, FALSE, <<flight[g]>> \o outq)
      BY <2>4 DEF SendOk, SendErr, Sending, taskVars, callVars
    <3>2. (g \in Hosts => task'[g] = "online") /\ (g \in Queries => query'[g] = "open")
      BY <1>0, <3>1 DEF SendersRun
    <3>3. <<flight[g]>> \o outq \in Seq(Queries)
      BY <1>0, <3>1, ConsFresh
    <3> QED
      BY <1>0, <2>1, <3>1, <3>2, <3>3
  <2>5. CASE QuietNext
    <3>1. ASSUME flight' # flight
          PROVE  \E h \in Hosts : ResponseSent(h) \/ (ReadHandshake(h) /\ sink)
      BY <2>5, <3>1 DEF QuietNext, MainNext, Fetched, FetchFails, StaggerEnds, Tick, DialFails,
           DialOk, PauseEnds, HandshakeFails, ReadEnds, ReadPolls, ReadHandshake,
           ReadAnswer, QueryEnds, WaitOnline, WaitExpires, WaitCheck, Close, outVars
    <3>2. ASSUME NEW h \in Hosts, ResponseSent(h)
          PROVE  Good(f)
      BY <1>0, <3>2 DEF ResponseSent
    <3>3. ASSUME NEW h \in Hosts, ReadHandshake(h), sink
          PROVE  Good(f)
      <4>1. task[h] = "online" /\ task' = task /\ flight' = [flight EXCEPT ![h] = Handshake]
        BY <3>3 DEF ReadHandshake, Reading, taskVars
      <4>2. CASE f = h
        BY <3>3, <4>1, <4>2
      <4>3. CASE f # h
        BY <1>0, <4>1, <4>3
      <4> QED
        BY <4>2, <4>3
    <3> QED
      BY <3>1, <3>2, <3>3
  <2> QED
    BY <2>2, <2>3, <2>4, <2>5, StepKinds
<1>4. ASSUME NEW h \in Hosts, task'[h] # "online"
      PROVE  flight'[h] = NoSend
  BY <1>0, <1>1, <1>3, <1>4 DEF SendersRun
<1>5. ASSUME NEW q \in Queries, query'[q] # "open"
      PROVE  flight'[q] = NoSend
  BY <1>0, <1>2, <1>3, <1>5 DEF SendersRun
<1> QED
  BY <1>4, <1>5 DEF SendersRun
----------------------------------------------------------------------------
(***************************************************************************)
(* The rest of the types, and the callers of wait_online.                  *)
(***************************************************************************)

LEMMA TypesStep ==
  ASSUME BrowserAssumption, TypeOK, TasksCounted, SendersRun, Next
  PROVE  TypeOK'
<1>0. /\ ApiLists \subseteq Seq(Hosts) /\ MaxHosts \in Nat /\ MaxReported \in Nat
      /\ Flushers = Hosts \cup Queries
      /\ main \in {"fetch", "stagger", "tick", "done"} /\ todo \in Seq(Hosts)
      /\ minConn \in Nat /\ closed \in BOOLEAN /\ sink \in BOOLEAN
      /\ outq \in Seq(Queries) /\ wire \subseteq Queries
      /\ flight \in [Flushers -> Queries \cup {Handshake, NoSend}]
      /\ query \in [Queries -> {"idle", "open", "done"}] /\ inq \subseteq Queries
      /\ wait \in [Waiters -> {"idle", "parked", "woken", "returned"}]
  BY DEF BrowserAssumption, TypeOK, Flushers
<1> DEFINE MainOK == /\ main' \in {"fetch", "stagger", "tick", "done"} /\ todo' \in Seq(Hosts)
                     /\ minConn' \in Nat /\ closed' \in BOOLEAN
           SentOK == /\ sink' \in BOOLEAN /\ outq' \in Seq(Queries) /\ wire' \subseteq Queries
                     /\ flight' \in [Flushers -> Queries \cup {Handshake, NoSend}]
           CallOK == /\ query' \in [Queries -> {"idle", "open", "done"}] /\ inq' \subseteq Queries
                     /\ wait' \in [Waiters -> {"idle", "parked", "woken", "returned"}]
<1>1. TasksTyped'
  BY TasksStep
<1>2. MainOK
  <2>1. ASSUME NEW list \in ApiLists, NEW n \in 0..MaxReported, Fetched(list, n)
        PROVE  MainOK
    <3> DEFINE cut == SubSeq(list, 1, IF Len(list) > MaxHosts THEN MaxHosts ELSE Len(list))
    <3>1. cut \in Seq(Hosts) /\ Len(cut) \in Nat
      BY <1>0, Cut
    <3>2. /\ DialNext(cut) /\ UNCHANGED <<fails, online>> /\ closed' = closed
          /\ minConn' = IF n = 0 \/ n > Len(cut) THEN Len(cut) ELSE n
      BY <2>1 DEF Fetched, taskVars
    <3> HIDE DEF cut
    <3>3. main' \in {"stagger", "tick", "done"} /\ todo' \in Seq(Hosts)
      BY <3>1, <3>2, DialTasks
    <3>4. minConn' \in Nat
      BY <1>0, <3>1, <3>2
    <3> QED
      BY <1>0, <3>2, <3>3, <3>4
  <2>2. ASSUME StaggerEnds
        PROVE  MainOK
    <3>1. DialNext(todo) /\ UNCHANGED <<fails, online, minConn, closed>>
      BY <2>2 DEF StaggerEnds, taskVars
    <3>2. main' \in {"stagger", "tick", "done"} /\ todo' \in Seq(Hosts)
      BY <1>0, <3>1, DialTasks
    <3> QED
      BY <1>0, <3>1, <3>2
  <2>3. ASSUME FetchFails \/ Tick
        PROVE  MainOK
    BY <1>0, <2>3 DEF FetchFails, Tick
  <2>4. ASSUME ~MainNext
        PROVE  MainOK
    <3>1. UNCHANGED <<main, todo, minConn>> /\ closed' \in {closed, TRUE}
      BY <2>4 DEF Next, TaskNext, CallNext, DialFails,
         DialOk, PauseEnds, HandshakeFails, HandshakeOk, ReadEnds, ReadPolls, ReadHandshake,
         ResponseSent, ReadAnswer, SessionEnds, SendOk, SendErr, Query, QueryEnds, WaitOnline,
         WaitExpires, WaitCheck, Close, mgrVars
    <3> QED
      BY <1>0, <3>1
  <2> QED
    BY <2>1, <2>2, <2>3, <2>4 DEF MainNext
<1>3. SentOK
  <2>1. ASSUME NEW f \in Flushers, NEW up \in BOOLEAN, NEW q \in Seq(Queries), FlushRound(f, up, q),
               sink' \in BOOLEAN, wire' \subseteq Queries
        PROVE  SentOK
    BY <1>0, <2>1, FlushTouches
  <2>2. ASSUME NEW q \in Queries, Query(q)
        PROVE  SentOK
    <3>1. Append(outq, q) \in Seq(Queries) /\ q \in Flushers
      BY <1>0, AppendFresh
    <3>2. sink' = sink /\ wire' = wire /\ FlushRound(q, sink, Append(outq, q))
      BY <2>2 DEF Query
    <3> QED
      BY <1>0, <2>1, <3>1, <3>2
  <2>3. ASSUME NEW h \in Hosts, HandshakeOk(h)
        PROVE  SentOK
    <3>1. sink' = TRUE /\ wire' = wire /\ FlushRound(h, TRUE, outq) /\ h \in Flushers
      BY <1>0, <2>3 DEF HandshakeOk
    <3> QED
      BY <1>0, <2>1, <3>1
  <2>4. ASSUME NEW f \in Flushers, SendOk(f)
        PROVE  SentOK
    <3>1. sink' = sink /\ wire' \subseteq Queries /\ FlushRound(f, sink, outq)
      BY <1>0, <2>4 DEF SendOk, Sending
    <3> QED
      BY <1>0, <2>1, <3>1
  <2>5. ASSUME NEW f \in Flushers, SendErr(f)
        PROVE  SentOK
    <3>1. /\ sink' = FALSE /\ wire' = wire /\ flight[f] \in Queries
          /\ FlushRound(f, FALSE, <<flight[f]>> \o outq)
      BY <2>5 DEF SendErr, Sending
    <3>2. <<flight[f]>> \o outq \in Seq(Queries)
      BY <1>0, <3>1, ConsFresh
    <3> QED
      BY <1>0, <2>1, <3>1, <3>2
  <2>6. ASSUME QuietNext
        PROVE  SentOK
    <3>1. outq' = outq /\ wire' = wire /\ sink' \in {sink, FALSE}
      BY <2>6 DEF QuietNext, MainNext, Fetched, FetchFails, StaggerEnds, Tick, DialFails,
           DialOk, PauseEnds, HandshakeFails, ReadEnds, ReadPolls, ReadHandshake, ResponseSent,
           ReadAnswer, SessionEnds, QueryEnds, WaitOnline, WaitExpires, WaitCheck, Close, outVars
    <3>2. \/ flight' = flight
          \/ \E h \in Hosts, x \in {Handshake, NoSend} : flight' = [flight EXCEPT ![h] = x]
      BY <2>6 DEF QuietNext, MainNext, Fetched, FetchFails, StaggerEnds, Tick, DialFails,
           DialOk, PauseEnds, HandshakeFails, ReadEnds, ReadPolls, ReadHandshake, ResponseSent,
           ReadAnswer, QueryEnds, WaitOnline, WaitExpires, WaitCheck, Close, outVars
    <3>3. flight' \in [Flushers -> Queries \cup {Handshake, NoSend}]
      BY <1>0, <3>2
    <3> QED
      BY <1>0, <3>1, <3>3
  <2> QED
    BY <2>2, <2>3, <2>4, <2>5, <2>6, StepKinds
<1>4. CallOK
  <2>1. query' = query \/ \E q \in Queries : query' = [query EXCEPT ![q] = "open"]
                                            \/ query' = [query EXCEPT ![q] = "done"]
    BY DEF Next, MainNext, TaskNext, CallNext, Fetched, FetchFails, StaggerEnds, Tick, DialFails,
       DialOk, PauseEnds, HandshakeFails, HandshakeOk, ReadEnds, ReadPolls, ReadHandshake,
       ResponseSent, ReadAnswer, SendOk, SendErr, Query, QueryEnds, WaitOnline, WaitExpires,
       WaitCheck, Close, callVars
  <2>2. inq' = inq \/ \E q \in Queries : inq' = inq \cup {q} \/ inq' = inq \ {q}
    BY DEF Next, MainNext, TaskNext, CallNext, Fetched, FetchFails, StaggerEnds, Tick, DialFails,
       DialOk, PauseEnds, HandshakeFails, HandshakeOk, ReadEnds, ReadPolls, ReadHandshake,
       ResponseSent, ReadAnswer, SendOk, SendErr, Query, QueryEnds, WaitOnline, WaitExpires,
       WaitCheck, Close, callVars
  <2>3. \/ wait' = wait \/ WakeWaiters
        \/ \E w \in Waiters, x \in {"returned", "parked"} : wait' = [wait EXCEPT ![w] = x]
    BY DEF Next, MainNext, TaskNext, CallNext, Fetched, FetchFails, StaggerEnds, Tick, DialFails,
       DialOk, PauseEnds, HandshakeFails, HandshakeOk, ReadEnds, ReadPolls, ReadHandshake,
       ResponseSent, ReadAnswer, SessionEnds, OnlineIncr, OnlineDecr, SendOk, SendErr, Query,
       QueryEnds, WaitOnline, WaitExpires, WaitCheck, Close
  <2>4. wait' \in [Waiters -> {"idle", "parked", "woken", "returned"}]
    BY <1>0, <2>3 DEF WakeWaiters
  <2>5. query' \in [Queries -> {"idle", "open", "done"}]
    BY <1>0, <2>1
  <2>6. inq' \subseteq Queries
    BY <1>0, <2>2
  <2> QED
    BY <2>4, <2>5, <2>6
<1> QED
  BY <1>1, <1>2, <1>3, <1>4 DEF TypeOK, TasksTyped, TaskStates

(* What a waiter compares may change only in a step that wakes them all. *)
LEMMA WaitersStep ==
  ASSUME TypeOK, ParkedMeansBelow, Next
  PROVE  ParkedMeansBelow'
<1>0. /\ wait \in [Waiters -> {"idle", "parked", "woken", "returned"}]
      /\ online \in Nat /\ minConn \in Nat /\ closed \in BOOLEAN
  BY DEF TypeOK
<1>1. ASSUME WakeWaiters
      PROVE  ParkedMeansBelow'
  <2>1. \A w \in Waiters : wait'[w] # "parked"
    BY <1>0, <1>1 DEF WakeWaiters
  <2> QED
    BY <2>1 DEF ParkedMeansBelow
<1>2. ASSUME UNCHANGED <<wait, online, minConn, closed>>
      PROVE  ParkedMeansBelow'
  BY <1>2 DEF ParkedMeansBelow
<1>3. ASSUME NEW w \in Waiters, NEW expired \in BOOLEAN, WaitCheck(w, expired)
      PROVE  ParkedMeansBelow'
  <2>1. UNCHANGED <<online, minConn, closed>>
    BY <1>3 DEF WaitCheck, mgrVars
  <2>2. wait'[w] = "parked" => ~closed /\ (online < minConn \/ online = 0)
    BY <1>0, <1>3 DEF WaitCheck
  <2>3. \A v \in Waiters \ {w} : wait'[v] = wait[v]
    BY <1>0, <1>3 DEF WaitCheck
  <2> QED
    BY <2>1, <2>2, <2>3 DEF ParkedMeansBelow
<1>4. \/ WakeWaiters
      \/ UNCHANGED <<wait, online, minConn, closed>>
      \/ \E w \in Waiters, expired \in BOOLEAN : WaitCheck(w, expired)
  BY DEF Next, MainNext, TaskNext, CallNext, Fetched, FetchFails, StaggerEnds, Tick, DialFails,
     DialOk, PauseEnds, HandshakeFails, HandshakeOk, ReadEnds, ReadPolls, ReadHandshake,
     ResponseSent, ReadAnswer, SessionEnds, OnlineIncr, OnlineDecr, SendOk, SendErr, Query,
     QueryEnds, WaitOnline, WaitExpires, Close, mgrVars
<1> QED
  BY <1>1, <1>2, <1>3, <1>4
----------------------------------------------------------------------------
(***************************************************************************)
(* The theorems.                                                           *)
(***************************************************************************)

(* Where the messages go in a step: the step of the outbox it stands for. *)
LEMMA MessagesStep ==
  ASSUME BrowserAssumption, TypeOK, SendersRun, Kept, Next
  PROVE  /\ Kept'
         /\ \/ Pending' = Pending /\ wire' = wire
            \/ \E q \in Queries : q \notin Pending \cup wire /\ Pending' = Pending \cup {q} /\ wire' = wire
            \/ \E q \in Queries : q \in Pending /\ Pending' = Pending \ {q} /\ wire' = wire \cup {q}
<1>1. CASE QuietNext
  BY <1>1, QuietSteps, QuietPlaces
<1>2. ASSUME NEW h \in Hosts, HandshakeOk(h)
      PROVE  Kept' /\ Pending' = Pending /\ wire' = wire
  BY <1>2, HandshakePlaces
<1>3. ASSUME NEW f \in Flushers, SendErr(f)
      PROVE  Kept' /\ Pending' = Pending /\ wire' = wire
  BY <1>3, SendErrPlaces
<1>4. ASSUME NEW f \in Flushers, SendOk(f)
      PROVE  /\ Kept'
             /\ \E q \in Queries : q \in Pending /\ Pending' = Pending \ {q} /\ wire' = wire \cup {q}
  <2>1. flight[f] \in Queries
    BY <1>4 DEF SendOk, Sending
  <2> QED
    BY <1>4, <2>1, SendOkPlaces
<1>5. ASSUME NEW q \in Queries, Query(q)
      PROVE  /\ Kept' /\ q \notin Pending \cup wire
             /\ Pending' = Pending \cup {q} /\ wire' = wire
  BY <1>5, QueryPlaces
<1> QED
  BY <1>1, <1>2, <1>3, <1>4, <1>5, StepKinds

LEMMA ClientInvInit == BrowserAssumption /\ Init => ClientInv
<1> SUFFICES ASSUME BrowserAssumption, Init
             PROVE  ClientInv
  OBVIOUS
<1>1. 0 \in 0..MaxFail /\ <<>> \in Seq(Hosts) /\ <<>> \in Seq(Queries) /\ Len(<<>>) = 0
  BY DEF BrowserAssumption
<1>2. TypeOK
  BY <1>1 DEF Init, TypeOK
<1>3. TasksCounted
  <2>1. /\ {h \in Hosts : task[h] # "none"} = {} /\ {h \in Hosts : task[h] = "online"} = {}
        /\ hosts = {} /\ connCnt = 0 /\ online = 0
    BY DEF Init
  <2>2. IsFiniteSet({}) /\ Cardinality({}) = 0
    BY FS_EmptySet
  <2> QED
    BY <2>1, <2>2 DEF TasksCounted
<1>4. SendersRun
  BY DEF Init, SendersRun, Flushers
<1>5. OnePlace /\ HandedOver
  <2>1. Hands = {}
    BY DEF Init, Hands, Sending, BrowserAssumption
  <2>2. outq = <<>> /\ wire = {} /\ Range(outq) = {} /\ \A f \in Flushers : ~Sending(f)
    BY EmptyRange DEF Init, Sending, BrowserAssumption
  <2> QED
    BY <1>1, <2>1, <2>2 DEF OnePlace, HandedOver
<1>6. NoIdleQueue /\ ParkedMeansBelow
  BY DEF Init, NoIdleQueue, ParkedMeansBelow
<1> QED
  BY <1>2, <1>3, <1>4, <1>5, <1>6 DEF ClientInv

LEMMA ClientInvStep == BrowserAssumption /\ ClientInv /\ [Next]_vars => ClientInv'
<1> SUFFICES ASSUME BrowserAssumption, ClientInv, [Next]_vars
             PROVE  ClientInv'
  OBVIOUS
<1>0. TypeOK /\ TasksCounted /\ SendersRun /\ Kept /\ ParkedMeansBelow
  BY DEF ClientInv, Kept
<1>1. CASE Next
  BY <1>0, <1>1, TypesStep, TasksStep, SendersStep, MessagesStep, WaitersStep DEF ClientInv, Kept
<1>2. CASE UNCHANGED vars
  BY <1>2 DEF ClientInv, vars, mgrVars, taskVars, outVars, callVars, TypeOK, TasksCounted, SendersRun,
     OnePlace, HandedOver, Hands, Sending, NoIdleQueue, ParkedMeansBelow
<1> QED
  BY <1>1, <1>2

LEMMA ClientInvariance == Spec => []ClientInv
BY BrowserAssumption, ClientInvInit, ClientInvStep, PTL DEF Spec

(***************************************************************************)
(* The variables of the browser client keep their types; the counters that *)
(* online_decr and the end of a task lower are never below zero.           *)
(***************************************************************************)
THEOREM ClientTyped == Spec => []TypeOK
<1>1. ClientInv => TypeOK
  BY DEF ClientInv
<1> QED
  BY <1>1, ClientInvariance, PTL

(***************************************************************************)
(* flush_out never leaves a message beside a usable sink: with no task in  *)
(* the middle of a send, a queue that is not empty has no sink.            *)
(***************************************************************************)
THEOREM QueueNeverIdles == Spec => []NoIdleQueue
<1>1. ClientInv => NoIdleQueue
  BY DEF ClientInv
<1> QED
  BY <1>1, ClientInvariance, PTL

(***************************************************************************)
(* wake_online_waiters is called wherever it has to be: a caller of        *)
(* wait_online that sleeps has too few connections and an open client.     *)
(***************************************************************************)
THEOREM SleepersHaveReason == Spec => []ParkedMeansBelow
<1>1. ClientInv => ParkedMeansBelow
  BY DEF ClientInv
<1> QED
  BY <1>1, ClientInvariance, PTL

(***************************************************************************)
(* The shared sink and its queue implement Outbox: push_out submits, a     *)
(* send that succeeds transmits, and no other step, whichever sinks it     *)
(* swaps or drops, loses a message or takes one twice.                     *)
(***************************************************************************)
THEOREM SinkIsOutbox == Spec => ImplementsOutbox
<1> DEFINE pending == Range(outq) \cup {flight[f] : f \in {g \in Flushers : Sending(g)}}
<1>1. Init => Abstract!OutboxInit
  <2> SUFFICES ASSUME Init
               PROVE  pending = {} /\ wire = {}
    BY DEF Abstract!OutboxInit
  <2>1. Hands = {} /\ Range(outq) = {} /\ wire = {}
    BY BrowserAssumption, EmptyRange DEF Init, Hands, Sending, BrowserAssumption
  <2> QED
    BY <2>1 DEF Hands
<1>2. ClientInv /\ [Next]_vars => [Abstract!OutboxNext]_(Abstract!outboxVars)
  <2> SUFFICES ASSUME ClientInv, [Next]_vars
               PROVE  Abstract!OutboxNext \/ UNCHANGED Abstract!outboxVars
    OBVIOUS
  <2>1. ASSUME pending' = pending, wire' = wire
        PROVE  UNCHANGED Abstract!outboxVars
    BY <2>1 DEF Abstract!outboxVars
  <2>2. ASSUME NEW q \in Queries, q \notin pending \cup wire, pending' = pending \cup {q}, wire' = wire
        PROVE  Abstract!OutboxNext
    <3>1. Abstract!Submit(q)
      BY <2>2 DEF Abstract!Submit
    <3> QED
      BY <3>1 DEF Abstract!OutboxNext
  <2>3. ASSUME NEW q \in Queries, q \in pending, pending' = pending \ {q}, wire' = wire \cup {q}
        PROVE  Abstract!OutboxNext
    <3>1. Abstract!Transmit(q)
      BY <2>3 DEF Abstract!Transmit
    <3> QED
      BY <3>1 DEF Abstract!OutboxNext
  <2>4. pending = Pending /\ pending' = Pending'
    BY DEF Pending, Hands
  <2>5. ASSUME UNCHANGED vars
        PROVE  pending' = pending /\ wire' = wire
    BY <2>5 DEF vars, outVars, Sending
  <2> HIDE DEF pending
  <2>6. CASE Next
    <3>1. TypeOK /\ SendersRun /\ Kept
      BY DEF ClientInv, Kept
    <3> QED
      BY <2>1, <2>2, <2>3, <2>4, <2>6, <3>1, BrowserAssumption, MessagesStep
  <2> QED
    BY <2>1, <2>5, <2>6
<1> QED
  BY <1>1, <1>2, ClientInvariance, PTL DEF Spec, ImplementsOutbox, Abstract!OutboxSpec
=============================================================================
