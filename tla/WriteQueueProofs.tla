-------------------------- MODULE WriteQueueProofs --------------------------
(***************************************************************************)
(* The outgoing queue for any number of messages and connections: it keeps *)
(* the promise of Outbox, and first tries happen in the order of pushes.   *)
(***************************************************************************)
EXTENDS WriteQueue, SequenceTheorems, FiniteSetTheorems, TLAPS

(* The messages in the hands of writers. *)
Hands == {held[c] : c \in {d \in Conns : wpc[d] = "send"}}

(* A writer holds a message exactly while it sends; it was tried before. *)
HeldToSend ==
  \A c \in Conns :
    /\ wpc[c] = "send" <=> held[c] # NoMsg
    /\ wpc[c] = "send" => held[c] \in tried

(* A message is pushed once ... *)
PushedOnce == \A i, j \in 1..Len(pushed) : pushed[i] = pushed[j] => i = j

(* ... and is in one place: once in the queue or in one writer's hands. *)
OnePlace ==
  /\ \A i, j \in 1..Len(wrq) : wrq[i] = wrq[j] => i = j
  /\ \A c, d \in Conns : wpc[c] = "send" /\ wpc[d] = "send" /\ held[c] = held[d] => c = d
  /\ Range(wrq) \cap Hands = {}

(* Nothing is in the queue, in hand or on the wire that nobody pushed. *)
AllPushed == Range(wrq) \cup Hands \cup Range(wire) \subseteq Range(pushed)

(* The queue, index by index: n requeued messages, and behind them the     *)
(* pushes after the first k, which are the ones that were tried.           *)
QueueSplit(k, n) ==
  /\ Len(wrq) = n + (Len(pushed) - k)
  /\ tried = {pushed[i] : i \in 1..k}
  /\ \A i \in 1..n : wrq[i] \in tried
  /\ \A i \in 1..(Len(pushed) - k) : wrq[n + i] = pushed[k + i]

(* Where the messages are. *)
Placed ==
  /\ HeldToSend
  /\ PushedOnce
  /\ OnePlace
  /\ AllPushed
  /\ \E k \in 0..Len(pushed) : \E n \in 0..Len(wrq) : QueueSplit(k, n)

(* A connection has a writer exactly while it has a session, so a new one  *)
(* never replaces a writer that holds a message.                           *)
WriterInSession == \A c \in Conns : wpc[c] = "none" <=> sess[c] \in {"down", "dialing"}

(* The inductive invariant of the queue and its writers. *)
QueueInv ==
  /\ TypeOK
  /\ WriterInSession
  /\ Placed
----------------------------------------------------------------------------
(***************************************************************************)
(* Facts about sequences and their ranges.                                 *)
(***************************************************************************)

LEMMA InRange ==
  ASSUME NEW S, NEW s \in Seq(S), NEW m
  PROVE  m \in Range(s) <=> \E i \in 1..Len(s) : s[i] = m
BY RangeEquality

LEMMA EmptyRange == Range(<<>>) = {}
<1>1. DOMAIN <<>> = {}
  OBVIOUS
<1> QED
  BY <1>1 DEF Range

(* A message that is not in a queue leaves it free of repetitions ... *)
LEMMA AppendFresh ==
  ASSUME NEW S, NEW s \in Seq(S), NEW m \in S
  PROVE  /\ Append(s, m) \in Seq(S) /\ Len(Append(s, m)) = Len(s) + 1
         /\ Range(Append(s, m)) = Range(s) \cup {m}
         /\ (\A i, j \in 1..Len(s) : s[i] = s[j] => i = j) /\ m \notin Range(s)
              => \A i, j \in 1..Len(Append(s, m)) : Append(s, m)[i] = Append(s, m)[j] => i = j
<1> DEFINE t == Append(s, m)
<1>1. /\ t \in Seq(S) /\ Len(t) = Len(s) + 1 /\ t[Len(s) + 1] = m
      /\ \A i \in 1..Len(s) : t[i] = s[i]
      /\ Len(s) \in Nat
  BY AppendProperties, LenProperties
<1> HIDE DEF t
<1>2. \A x : x \in Range(s) <=> \E i \in 1..Len(s) : s[i] = x
  BY InRange
<1>3. \A x : x \in Range(t) <=> \E i \in 1..Len(t) : t[i] = x
  BY <1>1, InRange
<1>4. \A x : x \in Range(t) <=> x \in Range(s) \/ x = m
  BY <1>1, <1>2, <1>3
<1>5. ASSUME \A i, j \in 1..Len(s) : s[i] = s[j] => i = j, m \notin Range(s)
      PROVE  \A i, j \in 1..Len(t) : t[i] = t[j] => i = j
  BY <1>1, <1>2, <1>5
<1> QED
  BY <1>1, <1>4, <1>5 DEF t

(* ... at the front as well as at the back ... *)
LEMMA ConsFresh ==
  ASSUME NEW S, NEW s \in Seq(S), NEW m \in S
  PROVE  /\ <<m>> \o s \in Seq(S) /\ Len(<<m>> \o s) = Len(s) + 1
         /\ (<<m>> \o s)[1] = m /\ \A i \in 1..Len(s) : (<<m>> \o s)[i + 1] = s[i]
         /\ Range(<<m>> \o s) = Range(s) \cup {m}
         /\ (\A i, j \in 1..Len(s) : s[i] = s[j] => i = j) /\ m \notin Range(s)
              => \A i, j \in 1..Len(<<m>> \o s) : (<<m>> \o s)[i] = (<<m>> \o s)[j] => i = j
<1> DEFINE t == <<m>> \o s
<1>0. <<m>> \in Seq(S) /\ Len(<<m>>) = 1 /\ <<m>>[1] = m /\ Len(s) \in Nat
  BY LenProperties
<1>1. t \in Seq(S) /\ Len(t) = Len(s) + 1
  BY <1>0, ConcatProperties
<1>2. \A i \in 1..Len(s) + 1 : t[i] = IF i = 1 THEN m ELSE s[i - 1]
  <2>1. \A i \in 1..1 + Len(s) : t[i] = IF i <= 1 THEN <<m>>[i] ELSE s[i - 1]
    BY <1>0, ConcatProperties
  <2> QED
    BY <1>0, <2>1
<1> HIDE DEF t
<1>3. t[1] = m /\ \A i \in 1..Len(s) : t[i + 1] = s[i]
  BY <1>0, <1>2
<1>4. \A x : x \in Range(s) <=> \E i \in 1..Len(s) : s[i] = x
  BY InRange
<1>5. \A x : x \in Range(t) <=> \E i \in 1..Len(t) : t[i] = x
  BY <1>1, InRange
<1>6. \A x : x \in Range(t) <=> x \in Range(s) \/ x = m
  <2>1. \A x : x \in Range(t) => x \in Range(s) \/ x = m
    BY <1>0, <1>1, <1>2, <1>4, <1>5
  <2>2. \A x : x \in Range(s) => x \in Range(t)
    <3> SUFFICES ASSUME NEW i \in 1..Len(s)
                 PROVE  \E j \in 1..Len(t) : t[j] = s[i]
      BY <1>4, <1>5
    <3>1. i + 1 \in 1..Len(t) /\ t[i + 1] = s[i]
      BY <1>0, <1>1, <1>3
    <3> QED
      BY <3>1
  <2> QED
    BY <1>0, <1>1, <1>3, <1>5, <2>1, <2>2
<1>7. ASSUME \A i, j \in 1..Len(s) : s[i] = s[j] => i = j, m \notin Range(s)
      PROVE  \A i, j \in 1..Len(t) : t[i] = t[j] => i = j
  <2> SUFFICES ASSUME NEW i \in 1..Len(t), NEW j \in 1..Len(t), t[i] = t[j]
               PROVE  i = j
    OBVIOUS
  <2>1. \A l \in 1..Len(t) : l # 1 => l - 1 \in 1..Len(s) /\ t[l] = s[l - 1] /\ t[l] # m
    BY <1>0, <1>1, <1>2, <1>4, <1>7
  <2>2. CASE i = 1 \/ j = 1
    BY <1>3, <2>1, <2>2
  <2>3. CASE i # 1 /\ j # 1
    <3>1. i - 1 = j - 1
      BY <1>7, <2>1, <2>3
    <3> QED
      BY <3>1
  <2> QED
    BY <2>2, <2>3
<1> QED
  BY <1>1, <1>3, <1>6, <1>7 DEF t

(* ... and taking the head out takes the message out. *)
LEMMA TailFresh ==
  ASSUME NEW S, NEW s \in Seq(S), s # <<>>, \A i, j \in 1..Len(s) : s[i] = s[j] => i = j
  PROVE  /\ Head(s) = s[1] /\ Head(s) \in S /\ Head(s) \in Range(s)
         /\ Tail(s) \in Seq(S) /\ Len(Tail(s)) = Len(s) - 1 /\ Len(s) \in Nat \ {0}
         /\ \A i \in 1..Len(Tail(s)) : Tail(s)[i] = s[i + 1]
         /\ Range(Tail(s)) = Range(s) \ {Head(s)}
         /\ \A i, j \in 1..Len(Tail(s)) : Tail(s)[i] = Tail(s)[j] => i = j
<1> DEFINE t == Tail(s)
           h == Head(s)
<1>1. /\ h \in S /\ t \in Seq(S) /\ Len(t) = Len(s) - 1
      /\ \A i \in 1..Len(t) : t[i] = s[i + 1]
  BY HeadTailProperties
<1>2. h = s[1]
  OBVIOUS
<1>3. Len(s) \in Nat \ {0}
  BY EmptySeq
<1> HIDE DEF t, h
<1>4. \A x : x \in Range(s) <=> \E i \in 1..Len(s) : s[i] = x
  BY InRange
<1>5. \A x : x \in Range(t) <=> \E i \in 1..Len(t) : t[i] = x
  BY <1>1, InRange
<1>6. h \in Range(s)
  BY <1>2, <1>3, <1>4
<1>7. \A x : x \in Range(t) <=> x \in Range(s) /\ x # h
  <2>1. ASSUME NEW i \in 1..Len(t)
        PROVE  t[i] \in Range(s) /\ t[i] # h
    <3>1. i + 1 \in 1..Len(s) /\ i + 1 # 1 /\ 1 \in 1..Len(s) /\ t[i] = s[i + 1]
      BY <1>1, <1>3
    <3> QED
      BY <1>2, <1>4, <3>1
  <2>2. ASSUME NEW i \in 1..Len(s), s[i] # h
        PROVE  s[i] \in Range(t)
    <3>1. i - 1 \in 1..Len(t) /\ t[i - 1] = s[i]
      BY <1>1, <1>2, <1>3, <2>2
    <3> QED
      BY <1>5, <3>1
  <2> QED
    BY <1>4, <1>5, <2>1, <2>2
<1>8. \A i, j \in 1..Len(t) : t[i] = t[j] => i = j
  BY <1>1, <1>3
<1> QED
  BY <1>1, <1>2, <1>3, <1>6, <1>7, <1>8 DEF t, h
----------------------------------------------------------------------------
(***************************************************************************)
(* The steps that move messages.  Each lemma says where they go and that   *)
(* everything stays placed.                                                *)
(***************************************************************************)

(* A message is in hand when some writer sends it. *)
LEMMA InHand ==
  ASSUME NEW m
  PROVE  m \in Hands <=> \E c \in Conns : wpc[c] = "send" /\ held[c] = m
BY DEF Hands

(* A push puts a new message into the queue, behind everything else. *)
LEMMA PushPlaces ==
  ASSUME QueueInv, NEW m \in Msgs, Push(m)
  PROVE  /\ m \notin Range(wrq) \cup Hands \cup Range(wire)
         /\ Range(wrq') = Range(wrq) \cup {m} /\ Hands' = Hands /\ wire' = wire
         /\ TypeOK' /\ Placed'
<1>0. /\ TypeOK /\ HeldToSend /\ PushedOnce /\ OnePlace /\ AllPushed
      /\ \E k \in 0..Len(pushed) : \E n \in 0..Len(wrq) : QueueSplit(k, n)
  BY DEF QueueInv, Placed
<1>1. /\ m \notin Range(pushed) /\ wrq' = Append(wrq, m) /\ pushed' = Append(pushed, m)
      /\ UNCHANGED <<sess, sock, dead, wpc, held, tried, wire, closed, breaks>>
      /\ wrq \in Seq(Msgs) /\ pushed \in Seq(Msgs)
  BY <1>0 DEF Push, connVars, TypeOK
<1>2. m \notin Range(wrq) \cup Hands \cup Range(wire)
  BY <1>0, <1>1 DEF AllPushed
<1>3. /\ wrq' \in Seq(Msgs) /\ Len(wrq') = Len(wrq) + 1 /\ Range(wrq') = Range(wrq) \cup {m}
      /\ \A i, j \in 1..Len(wrq') : wrq'[i] = wrq'[j] => i = j
  <2>1. m \notin Range(wrq) /\ \A i, j \in 1..Len(wrq) : wrq[i] = wrq[j] => i = j
    BY <1>0, <1>2 DEF OnePlace
  <2> QED
    BY <1>1, <2>1, AppendFresh
<1>4. /\ pushed' \in Seq(Msgs) /\ Len(pushed') = Len(pushed) + 1
      /\ Range(pushed') = Range(pushed) \cup {m}
      /\ \A i, j \in 1..Len(pushed') : pushed'[i] = pushed'[j] => i = j
  <2>1. \A i, j \in 1..Len(pushed) : pushed[i] = pushed[j] => i = j
    BY <1>0 DEF PushedOnce
  <2> QED
    BY <1>1, <2>1, AppendFresh
<1>5. Hands' = Hands
  BY <1>1 DEF Hands
<1>6. TypeOK'
  BY <1>0, <1>1, <1>3, <1>4 DEF TypeOK
<1>7. HeldToSend' /\ PushedOnce' /\ AllPushed'
  BY <1>0, <1>1, <1>3, <1>4, <1>5 DEF HeldToSend, PushedOnce, AllPushed
<1>8. OnePlace'
  BY <1>0, <1>1, <1>2, <1>3, <1>5 DEF OnePlace
<1>9. PICK k \in 0..Len(pushed), n \in 0..Len(wrq) : QueueSplit(k, n)
  BY <1>0
<1>10. /\ Len(wrq) = n + (Len(pushed) - k)
       /\ tried = {pushed[i] : i \in 1..k}
       /\ \A i \in 1..n : wrq[i] \in tried
       /\ \A i \in 1..(Len(pushed) - k) : wrq[n + i] = pushed[k + i]
  BY <1>9 DEF QueueSplit
<1>11. QueueSplit(k, n)'
  <2>0. k \in 0..Len(pushed) /\ n \in 0..Len(wrq)
    OBVIOUS
  <2>1. /\ Len(wrq) \in Nat /\ Len(pushed) \in Nat /\ k \in Nat /\ n \in Nat
        /\ \A i \in 1..Len(wrq) : wrq'[i] = wrq[i]
        /\ wrq'[Len(wrq) + 1] = m
        /\ \A i \in 1..Len(pushed) : pushed'[i] = pushed[i]
        /\ pushed'[Len(pushed) + 1] = m
    BY <1>1, AppendProperties, LenProperties
  <2>2. Len(wrq') = n + (Len(pushed') - k)
    BY <1>3, <1>4, <1>10, <2>1
  <2>3. tried' = {pushed'[i] : i \in 1..k}
    <3>1. \A i \in 1..k : pushed'[i] = pushed[i]
      BY <2>0, <2>1
    <3> QED
      BY <1>1, <1>10, <3>1
  <2>4. \A i \in 1..n : wrq'[i] \in tried'
    BY <1>1, <1>10, <2>0, <2>1
  <2>5. ASSUME NEW i \in 1..(Len(pushed') - k)
        PROVE  wrq'[n + i] = pushed'[k + i]
    <3>1. CASE i \in 1..(Len(pushed) - k)
      <4>1. n + i \in 1..Len(wrq) /\ k + i \in 1..Len(pushed)
        BY <1>10, <2>0, <2>1, <3>1
      <4> QED
        BY <1>10, <2>1, <3>1, <4>1
    <3>2. CASE i = Len(pushed) - k + 1
      <4>1. n + i = Len(wrq) + 1 /\ k + i = Len(pushed) + 1
        BY <1>10, <2>1, <3>2
      <4> QED
        BY <2>1, <4>1
    <3> QED
      BY <1>4, <2>1, <3>1, <3>2
  <2> QED
    BY <2>2, <2>3, <2>4, <2>5 DEF QueueSplit
<1>12. k \in 0..Len(pushed') /\ n \in 0..Len(wrq')
  BY <1>1, <1>3, <1>4, LenProperties
<1>13. Placed'
  BY <1>7, <1>8, <1>11, <1>12 DEF Placed
<1> QED
  BY <1>1, <1>2, <1>3, <1>5, <1>6, <1>13

(***************************************************************************)
(* A pop takes the head into the hands of the writer.  If no requeued      *)
(* message is left, it is the first one that was never tried.              *)
(***************************************************************************)
LEMMA PopPlaces ==
  ASSUME QueueInv, NEW c \in Conns, WriterPop(c)
  PROVE  /\ Range(wrq') \cup Hands' = Range(wrq) \cup Hands /\ wire' = wire
         /\ TypeOK' /\ Placed'
<1> DEFINE h == Head(wrq)
<1>0. /\ TypeOK /\ HeldToSend /\ PushedOnce /\ OnePlace /\ AllPushed
      /\ \E k \in 0..Len(pushed) : \E n \in 0..Len(wrq) : QueueSplit(k, n)
  BY DEF QueueInv, Placed
<1>1. /\ wpc[c] = "pop" /\ wrq # <<>> /\ wrq' = Tail(wrq) /\ tried' = tried \cup {h}
      /\ held' = [held EXCEPT ![c] = h] /\ wpc' = [wpc EXCEPT ![c] = "send"]
      /\ UNCHANGED <<closed, sess, sock, dead, pushed, wire, breaks>>
      /\ wrq \in Seq(Msgs) /\ pushed \in Seq(Msgs) /\ tried \subseteq Msgs
      /\ held \in [Conns -> Msgs \cup {NoMsg}] /\ wpc \in [Conns -> WriterStates]
  BY <1>0 DEF WriterPop, TypeOK
<1>2. /\ h = wrq[1] /\ h \in Msgs /\ h \in Range(wrq)
      /\ wrq' \in Seq(Msgs) /\ Len(wrq') = Len(wrq) - 1 /\ Len(wrq) \in Nat \ {0}
      /\ \A i \in 1..Len(wrq') : wrq'[i] = wrq[i + 1]
      /\ Range(wrq') = Range(wrq) \ {h}
      /\ \A i, j \in 1..Len(wrq') : wrq'[i] = wrq'[j] => i = j
  <2>1. \A i, j \in 1..Len(wrq) : wrq[i] = wrq[j] => i = j
    BY <1>0 DEF OnePlace
  <2> QED
    BY <1>1, <2>1, TailFresh
<1> HIDE DEF h
<1>3. /\ \A d \in Conns : wpc'[d] = IF d = c THEN "send" ELSE wpc[d]
      /\ \A d \in Conns : held'[d] = IF d = c THEN h ELSE held[d]
  BY <1>1
<1>4. Hands' = Hands \cup {h}
  <2>1. \A m : m \in Hands' <=> \E d \in Conns : wpc'[d] = "send" /\ held'[d] = m
    BY DEF Hands
  <2>2. \A m : m \in Hands' <=> m \in Hands \/ m = h
    BY <1>1, <1>3, <2>1, InHand
  <2> QED
    BY <2>2
<1>5. h \notin Hands
  BY <1>0, <1>2 DEF OnePlace
<1>6. TypeOK'
  BY <1>0, <1>1, <1>2 DEF TypeOK, WriterStates
<1>7. HeldToSend'
  BY <1>0, <1>1, <1>2, <1>3, QueueAssumption DEF HeldToSend
<1>8. PushedOnce' /\ AllPushed'
  BY <1>0, <1>1, <1>2, <1>4 DEF PushedOnce, AllPushed
<1>9. OnePlace'
  <2>1. ASSUME NEW d \in Conns, NEW e \in Conns, wpc'[d] = "send", wpc'[e] = "send",
               held'[d] = held'[e]
        PROVE  d = e
    <3>1. \A b \in Conns : wpc[b] = "send" => held[b] # h
      BY <1>5, InHand
    <3> QED
      BY <1>0, <1>3, <2>1, <3>1 DEF OnePlace
  <2>2. Range(wrq') \cap Hands' = {}
    BY <1>0, <1>2, <1>4 DEF OnePlace
  <2> QED
    BY <1>2, <2>1, <2>2 DEF OnePlace
<1>10. PICK k \in 0..Len(pushed), n \in 0..Len(wrq) : QueueSplit(k, n)
  BY <1>0
<1>11. /\ Len(wrq) = n + (Len(pushed) - k)
       /\ tried = {pushed[i] : i \in 1..k}
       /\ \A i \in 1..n : wrq[i] \in tried
       /\ \A i \in 1..(Len(pushed) - k) : wrq[n + i] = pushed[k + i]
       /\ Len(pushed) \in Nat
  BY <1>1, <1>10, LenProperties DEF QueueSplit
<1>12. \E l \in 0..Len(pushed') : \E o \in 0..Len(wrq') : QueueSplit(l, o)'
  <2>1. CASE n > 0
    <3>1. n - 1 \in 0..Len(wrq') /\ k \in 0..Len(pushed')
      BY <1>1, <1>2, <2>1
    <3>2. h \in tried /\ tried' = tried
      BY <1>1, <1>2, <1>11, <2>1
    <3>3. Len(wrq') = (n - 1) + (Len(pushed') - k)
      BY <1>1, <1>2, <1>11
    <3>4. \A i \in 1..(n - 1) : wrq'[i] \in tried'
      BY <1>2, <1>11, <2>1, <3>1, <3>2
    <3>5. ASSUME NEW i \in 1..(Len(pushed) - k)
          PROVE  wrq'[(n - 1) + i] = pushed[k + i]
      <4>1. (n - 1) + i \in 1..Len(wrq') /\ ((n - 1) + i) + 1 = n + i
        BY <1>2, <1>11, <2>1
      <4> QED
        BY <1>2, <1>11, <4>1
    <3>6. QueueSplit(k, n - 1)'
      BY <1>1, <1>11, <3>2, <3>3, <3>4, <3>5 DEF QueueSplit
    <3> QED
      BY <3>1, <3>6
  <2>2. CASE n = 0
    <3>1. k + 1 \in 1..Len(pushed) /\ 0 \in 0..Len(wrq')
      BY <1>2, <1>11, <2>2
    <3>2. h = pushed[k + 1]
      <4>1. 1 \in 1..(Len(pushed) - k) /\ n + 1 = 1
        BY <1>2, <1>11, <2>2
      <4> QED
        BY <1>2, <1>11, <4>1
    <3>3. tried' = {pushed[i] : i \in 1..(k + 1)}
      <4>1. 1..(k + 1) = (1..k) \cup {k + 1}
        BY <3>1
      <4> QED
        BY <1>1, <1>11, <3>2, <4>1
    <3>4. Len(wrq') = 0 + (Len(pushed') - (k + 1))
      BY <1>1, <1>2, <1>11, <2>2
    <3>5. ASSUME NEW i \in 1..(Len(pushed) - (k + 1))
          PROVE  wrq'[0 + i] = pushed[(k + 1) + i]
      <4>1. /\ i \in 1..Len(wrq') /\ i + 1 \in 1..(Len(pushed) - k)
            /\ n + (i + 1) = i + 1 /\ k + (i + 1) = (k + 1) + i /\ 0 + i = i
        BY <1>1, <1>2, <1>11, <2>2, <3>4
      <4>2. wrq[n + (i + 1)] = pushed[k + (i + 1)]
        BY <1>11, <4>1
      <4> QED
        BY <1>2, <4>1, <4>2
    <3> DEFINE l == k + 1
    <3>6. l \in 0..Len(pushed')
      BY <1>1, <1>11, <3>1
    <3>7. tried' = {pushed'[i] : i \in 1..l}
      BY <1>1, <3>3
    <3>8. \A i \in 1..(Len(pushed') - l) : wrq'[0 + i] = pushed'[l + i]
      BY <1>1, <3>5
    <3> HIDE DEF l
    <3>9. QueueSplit(l, 0)'
      BY <3>4, <3>7, <3>8 DEF QueueSplit, l
    <3> QED
      BY <3>1, <3>6, <3>9
  <2> QED
    BY <2>1, <2>2
<1>13. Placed'
  BY <1>7, <1>8, <1>9, <1>12 DEF Placed
<1>14. Range(wrq') \cup Hands' = Range(wrq) \cup Hands
  BY <1>2, <1>4
<1> QED
  BY <1>1, <1>6, <1>13, <1>14

(* A writer that is done with its message has empty hands again. *)
LEMMA Released ==
  ASSUME QueueInv, NEW c \in Conns, wpc[c] = "send",
         held' = [held EXCEPT ![c] = NoMsg],
         \E s \in WriterStates \ {"send"} : wpc' = [wpc EXCEPT ![c] = s]
  PROVE  /\ held[c] \in Msgs /\ held[c] \in Hands /\ Hands' = Hands \ {held[c]}
         /\ held[c] \notin Range(wrq) /\ held[c] \in tried /\ held[c] \in Range(pushed)
         /\ \A d, e \in Conns :
              wpc'[d] = "send" /\ wpc'[e] = "send" /\ held'[d] = held'[e] => d = e
         /\ \A d \in Conns : wpc'[d] = "send" <=> held'[d] # NoMsg
         /\ \A d \in Conns : wpc'[d] = "send" => held'[d] = held[d] /\ wpc[d] = "send"
<1>0. TypeOK /\ HeldToSend /\ OnePlace /\ AllPushed
  BY DEF QueueInv, Placed
<1>1. held \in [Conns -> Msgs \cup {NoMsg}] /\ wpc \in [Conns -> WriterStates]
  BY <1>0 DEF TypeOK
<1>2. /\ wpc'[c] # "send" /\ held'[c] = NoMsg
      /\ \A d \in Conns \ {c} : wpc'[d] = wpc[d] /\ held'[d] = held[d]
  BY <1>1
<1>3. held[c] \in Msgs /\ held[c] \in tried /\ held[c] \in Hands
  BY <1>0, <1>1, InHand DEF HeldToSend
<1>4. held[c] \notin Range(wrq) /\ held[c] \in Range(pushed)
  BY <1>0, <1>3 DEF OnePlace, AllPushed
<1>5. Hands' = Hands \ {held[c]}
  <2>1. \A m : m \in Hands' <=> \E d \in Conns : wpc'[d] = "send" /\ held'[d] = m
    BY DEF Hands
  <2>2. \A d \in Conns \ {c} : wpc[d] = "send" => held[d] # held[c]
    BY <1>0 DEF OnePlace
  <2>3. \A m : m \in Hands' <=> m \in Hands /\ m # held[c]
    BY <1>2, <2>1, <2>2, InHand
  <2> QED
    BY <2>3
<1> QED
  BY <1>0, <1>2, <1>3, <1>4, <1>5 DEF HeldToSend, OnePlace

(* A write that succeeds moves the message to the wire. *)
LEMMA SendPlaces ==
  ASSUME QueueInv, NEW c \in Conns, WriterSendOk(c)
  PROVE  /\ held[c] \in Msgs /\ held[c] \in Hands /\ held[c] \notin Range(wrq)
         /\ Range(wrq') = Range(wrq) /\ Hands' = Hands \ {held[c]}
         /\ Range(wire') = Range(wire) \cup {held[c]}
         /\ TypeOK' /\ Placed'
<1>0. /\ TypeOK /\ HeldToSend /\ PushedOnce /\ OnePlace /\ AllPushed
      /\ \E k \in 0..Len(pushed) : \E n \in 0..Len(wrq) : QueueSplit(k, n)
  BY DEF QueueInv, Placed
<1>1. /\ wpc[c] = "send" /\ wire' = Append(wire, held[c])
      /\ held' = [held EXCEPT ![c] = NoMsg] /\ wpc' = [wpc EXCEPT ![c] = "check"]
      /\ UNCHANGED <<wrq, closed, sess, sock, dead, tried, pushed, breaks>>
      /\ wire \in Seq(Msgs)
  BY <1>0 DEF WriterSendOk, TypeOK
<1>2. /\ held[c] \in Msgs /\ held[c] \in Hands /\ Hands' = Hands \ {held[c]}
      /\ held[c] \notin Range(wrq) /\ held[c] \in Range(pushed)
      /\ \A d, e \in Conns : wpc'[d] = "send" /\ wpc'[e] = "send" /\ held'[d] = held'[e] => d = e
      /\ \A d \in Conns : wpc'[d] = "send" <=> held'[d] # NoMsg
      /\ \A d \in Conns : wpc'[d] = "send" => held'[d] = held[d] /\ wpc[d] = "send"
  BY <1>1, Released DEF WriterStates
<1>3. wire' \in Seq(Msgs) /\ Range(wire') = Range(wire) \cup {held[c]}
  BY <1>1, <1>2, AppendFresh
<1>4. TypeOK'
  BY <1>0, <1>1, <1>2, <1>3 DEF TypeOK, WriterStates
<1>5. HeldToSend' /\ PushedOnce' /\ AllPushed'
  BY <1>0, <1>1, <1>2, <1>3 DEF HeldToSend, PushedOnce, AllPushed
<1>6. OnePlace'
  BY <1>0, <1>1, <1>2 DEF OnePlace
<1>7. \E k \in 0..Len(pushed') : \E n \in 0..Len(wrq') : QueueSplit(k, n)'
  <2>1. PICK k \in 0..Len(pushed), n \in 0..Len(wrq) : QueueSplit(k, n)
    BY <1>0
  <2>2. UNCHANGED <<wrq, pushed, tried>>
    BY <1>1
  <2>3. QueueSplit(k, n)'
    BY <2>1, <2>2 DEF QueueSplit
  <2> QED
    BY <2>2, <2>3
<1> QED
  BY <1>1, <1>2, <1>3, <1>4, <1>5, <1>6, <1>7 DEF Placed

(* A write that fails puts it back to the front, among the tried ones. *)
LEMMA RequeuePlaces ==
  ASSUME QueueInv, NEW c \in Conns, WriterSendErr(c)
  PROVE  /\ Range(wrq') \cup Hands' = Range(wrq) \cup Hands /\ wire' = wire
         /\ TypeOK' /\ Placed'
<1> DEFINE m == held[c]
<1>0. /\ TypeOK /\ HeldToSend /\ PushedOnce /\ OnePlace /\ AllPushed
      /\ \E k \in 0..Len(pushed) : \E n \in 0..Len(wrq) : QueueSplit(k, n)
  BY DEF QueueInv, Placed
<1>1. /\ wpc[c] = "send" /\ wrq' = <<m>> \o wrq
      /\ held' = [held EXCEPT ![c] = NoMsg] /\ wpc' = [wpc EXCEPT ![c] = "exited"]
      /\ UNCHANGED <<closed, sess, sock, dead, tried, pushed, wire, breaks>>
      /\ wrq \in Seq(Msgs) /\ pushed \in Seq(Msgs)
  BY <1>0 DEF WriterSendErr, WriterGivesUp, TypeOK
<1>2. /\ m \in Msgs /\ m \in Hands /\ Hands' = Hands \ {m}
      /\ m \notin Range(wrq) /\ m \in tried /\ m \in Range(pushed)
      /\ \A d, e \in Conns : wpc'[d] = "send" /\ wpc'[e] = "send" /\ held'[d] = held'[e] => d = e
      /\ \A d \in Conns : wpc'[d] = "send" <=> held'[d] # NoMsg
      /\ \A d \in Conns : wpc'[d] = "send" => held'[d] = held[d] /\ wpc[d] = "send"
  BY <1>1, Released DEF WriterStates
<1> HIDE DEF m
<1>3. /\ wrq' \in Seq(Msgs) /\ Len(wrq') = Len(wrq) + 1 /\ Range(wrq') = Range(wrq) \cup {m}
      /\ wrq'[1] = m /\ \A i \in 1..Len(wrq) : wrq'[i + 1] = wrq[i]
      /\ \A i, j \in 1..Len(wrq') : wrq'[i] = wrq'[j] => i = j
  <2>1. /\ wrq \in Seq(Msgs) /\ m \in Msgs /\ m \notin Range(wrq)
        /\ \A i, j \in 1..Len(wrq) : wrq[i] = wrq[j] => i = j
    BY <1>0, <1>1, <1>2 DEF OnePlace
  <2> DEFINE t == <<m>> \o wrq
  <2>2. /\ t \in Seq(Msgs) /\ Len(t) = Len(wrq) + 1 /\ Range(t) = Range(wrq) \cup {m}
        /\ t[1] = m /\ \A i \in 1..Len(wrq) : t[i + 1] = wrq[i]
    BY <2>1, ConsFresh
  <2>3. \A i, j \in 1..Len(t) : t[i] = t[j] => i = j
    BY <2>1, ConsFresh, Zenon
  <2> HIDE DEF t
  <2>4. wrq' = t
    BY <1>1 DEF t
  <2> QED
    BY <2>2, <2>3, <2>4
<1>4. TypeOK'
  BY <1>0, <1>1, <1>2, <1>3 DEF TypeOK, WriterStates
<1>5. HeldToSend' /\ PushedOnce' /\ AllPushed'
  BY <1>0, <1>1, <1>2, <1>3 DEF HeldToSend, PushedOnce, AllPushed
<1>6. OnePlace'
  BY <1>0, <1>1, <1>2, <1>3 DEF OnePlace
<1>7. PICK k \in 0..Len(pushed), n \in 0..Len(wrq) : QueueSplit(k, n)
  BY <1>0
<1>8. /\ Len(wrq) = n + (Len(pushed) - k)
      /\ tried = {pushed[i] : i \in 1..k}
      /\ \A i \in 1..n : wrq[i] \in tried
      /\ \A i \in 1..(Len(pushed) - k) : wrq[n + i] = pushed[k + i]
      /\ Len(pushed) \in Nat /\ Len(wrq) \in Nat
  BY <1>1, <1>7, LenProperties DEF QueueSplit
<1>9. \A i \in 1..(n + 1) : wrq'[i] \in tried'
  <2> SUFFICES ASSUME NEW i \in 1..(n + 1)
               PROVE  wrq'[i] \in tried
    BY <1>1
  <2>1. CASE i = 1
    BY <1>2, <1>3, <2>1
  <2>2. CASE i # 1
    <3>1. i - 1 \in 1..n /\ i - 1 \in 1..Len(wrq) /\ (i - 1) + 1 = i
      BY <1>8, <2>2
    <3> QED
      BY <1>3, <1>8, <3>1
  <2> QED
    BY <2>1, <2>2
<1>10. ASSUME NEW i \in 1..(Len(pushed) - k)
       PROVE  wrq'[(n + 1) + i] = pushed[k + i]
  <2>1. n + i \in 1..Len(wrq) /\ (n + 1) + i = (n + i) + 1
    BY <1>8
  <2> QED
    BY <1>3, <1>8, <2>1
<1> DEFINE o == n + 1
<1>11. \A i \in 1..(Len(pushed') - k) : wrq'[o + i] = pushed'[k + i]
  BY <1>1, <1>10
<1>12. /\ k \in 0..Len(pushed') /\ o \in 0..Len(wrq')
       /\ Len(wrq') = o + (Len(pushed') - k) /\ tried' = {pushed'[i] : i \in 1..k}
  BY <1>1, <1>3, <1>8
<1>13. QueueSplit(k, o)'
  <2> HIDE DEF o
  <2> QED
    BY <1>9, <1>11, <1>12 DEF QueueSplit, o
<1>14. Placed'
  BY <1>5, <1>6, <1>12, <1>13 DEF Placed
<1>15. Range(wrq') \cup Hands' = Range(wrq) \cup Hands
  BY <1>2, <1>3
<1> QED
  BY <1>1, <1>4, <1>14, <1>15

(* A step that moves no message: what it does to its connection is typed.  *)
LEMMA QuietPlaces ==
  ASSUME QueueInv, UNCHANGED <<wrq, held, tried, pushed, wire>>, TypeOK',
         \A c \in Conns : wpc'[c] = "send" <=> wpc[c] = "send"
  PROVE  Hands' = Hands /\ Placed'
<1>0. /\ HeldToSend /\ PushedOnce /\ OnePlace /\ AllPushed
      /\ \E k \in 0..Len(pushed) : \E n \in 0..Len(wrq) : QueueSplit(k, n)
  BY DEF QueueInv, Placed
<1>1. Hands' = Hands
  BY DEF Hands
<1>2. HeldToSend' /\ PushedOnce' /\ OnePlace' /\ AllPushed'
  BY <1>0, <1>1 DEF HeldToSend, PushedOnce, OnePlace, AllPushed
<1>3. \E k \in 0..Len(pushed') : \E n \in 0..Len(wrq') : QueueSplit(k, n)'
  <2>1. PICK k \in 0..Len(pushed), n \in 0..Len(wrq) : QueueSplit(k, n)
    BY <1>0
  <2>2. QueueSplit(k, n)'
    BY <2>1 DEF QueueSplit
  <2> QED
    BY <2>2
<1> QED
  BY <1>1, <1>2, <1>3 DEF Placed

(* The steps of a read loop, and of a writer without a message. *)
QuietNext(c) ==
  ReaderNext(c) \/ WriterCheck(c) \/ WriterPopNone(c)

LEMMA QuietSteps ==
  ASSUME QueueInv, NEW c \in Conns, QuietNext(c)
  PROVE  UNCHANGED <<wrq, wire>> /\ Hands' = Hands /\ TypeOK' /\ Placed' /\ WriterInSession'
<1> USE DEF SessStates, SockStates, WriterStates
<1>0. TypeOK /\ WriterInSession /\ MaxBreaks \in Nat
  BY QueueAssumption DEF QueueInv
<1>1. /\ UNCHANGED <<wrq, held, tried, pushed, wire>>
      /\ \A d \in Conns \ {c} : wpc'[d] = wpc[d] /\ sess'[d] = sess[d]
  BY <1>0 DEF QuietNext, ReaderNext, Dial, DialFails, SessionUp, SockBreak, ReadEnds, LeaveLoop,
         ReadRejects, ReadPoll, Join, WriterCheck, WriterPopNone, TypeOK
<1>2. /\ TypeOK'
      /\ wpc'[c] = "send" <=> wpc[c] = "send"
      /\ wpc'[c] = "none" <=> sess'[c] \in {"down", "dialing"}
  <2> USE DEF TypeOK, WriterInSession
  <2>1. CASE Dial(c)
    BY <1>0, <2>1 DEF Dial
  <2>2. CASE DialFails(c)
    BY <1>0, <2>2 DEF DialFails
  <2>3. CASE SessionUp(c)
    BY <1>0, <2>3 DEF SessionUp
  <2>4. CASE SockBreak(c)
    <3>1. breaks + 1 \in 0..MaxBreaks
      BY <1>0, <2>4 DEF SockBreak
    <3> QED
      BY <1>0, <2>4, <3>1 DEF SockBreak
  <2>5. CASE ReadEnds(c)
    BY <1>0, <2>5 DEF ReadEnds, LeaveLoop
  <2>6. CASE ReadRejects(c)
    <3>1. breaks + 1 \in 0..MaxBreaks
      BY <1>0, <2>6 DEF ReadRejects
    <3> QED
      BY <1>0, <2>6, <3>1 DEF ReadRejects, LeaveLoop
  <2>7. CASE ReadPoll(c)
    BY <1>0, <2>7 DEF ReadPoll, LeaveLoop
  <2>8. CASE Join(c)
    BY <1>0, <2>8 DEF Join
  <2>9. CASE WriterCheck(c)
    BY <1>0, <2>9 DEF WriterCheck
  <2>10. CASE WriterPopNone(c)
    BY <1>0, <2>10 DEF WriterPopNone
  <2> QED
    BY <2>1, <2>2, <2>3, <2>4, <2>5, <2>6, <2>7, <2>8, <2>9, <2>10 DEF QuietNext, ReaderNext
<1>3. \A d \in Conns : wpc'[d] = "send" <=> wpc[d] = "send"
  BY <1>1, <1>2
<1>4. WriterInSession'
  BY <1>0, <1>1, <1>2 DEF WriterInSession
<1> QED
  BY <1>1, <1>2, <1>3, <1>4, QuietPlaces

(* So does close(), and a step outside the queue. *)
LEMMA CloseOrStutter ==
  ASSUME QueueInv, Close \/ UNCHANGED vars
  PROVE  UNCHANGED <<wrq, wire>> /\ Hands' = Hands /\ QueueInv'
<1>1. UNCHANGED <<wrq, sess, sock, dead, wpc, held, tried, pushed, wire, breaks>> /\ TypeOK'
  BY DEF Close, vars, connVars, QueueInv, TypeOK
<1> QED
  BY <1>1, QuietPlaces DEF QueueInv, WriterInSession

(* A step of a writer that moves a message keeps it with its session. *)
LEMMA MoversInSession ==
  ASSUME QueueInv, NEW c \in Conns, WriterPop(c) \/ WriterSendOk(c) \/ WriterSendErr(c)
  PROVE  WriterInSession'
BY DEF QueueInv, TypeOK, WriterInSession, WriterPop, WriterSendOk, WriterSendErr, WriterGivesUp
----------------------------------------------------------------------------
(* A new client has nothing to send. *)
LEMMA QueueInvInit == Init => QueueInv
<1> SUFFICES ASSUME Init
             PROVE  QueueInv
  OBVIOUS
<1> USE QueueAssumption DEF Init
<1>1. <<>> \in Seq(Msgs) /\ Len(<<>>) = 0 /\ Range(<<>>) = {}
  BY EmptySeq, EmptyRange
<1>2. TypeOK /\ WriterInSession
  <2>1. 0 \in 0..MaxBreaks
    BY QueueAssumption
  <2> QED
    BY <1>1, <2>1 DEF TypeOK, WriterInSession, SessStates, SockStates, WriterStates
<1>3. Hands = {}
  BY DEF Hands
<1>4. HeldToSend /\ PushedOnce /\ OnePlace /\ AllPushed
  BY <1>1, <1>3 DEF HeldToSend, PushedOnce, OnePlace, AllPushed
<1>5. QueueSplit(0, 0)
  BY <1>1 DEF QueueSplit
<1>6. 0 \in 0..Len(pushed) /\ 0 \in 0..Len(wrq)
  BY <1>1
<1> QED
  BY <1>2, <1>4, <1>5, <1>6 DEF QueueInv, Placed

LEMMA QueueInvNext == QueueInv /\ [Next]_vars => QueueInv'
<1>1. ASSUME QueueInv, NEW m \in Msgs, Push(m)
      PROVE  QueueInv'
  <2>1. UNCHANGED <<wpc, sess>>
    BY <1>1 DEF Push, connVars
  <2> QED
    BY <1>1, <2>1, PushPlaces DEF QueueInv, WriterInSession
<1>2. ASSUME QueueInv, NEW c \in Conns, ReaderNext(c) \/ WriterNext(c)
      PROVE  QueueInv'
  BY <1>2, QuietSteps, PopPlaces, SendPlaces, RequeuePlaces, MoversInSession
     DEF QueueInv, QuietNext, WriterNext
<1> QED
  BY <1>1, <1>2, CloseOrStutter DEF Next

LEMMA QueueInvariance == Spec => []QueueInv
BY QueueInvInit, QueueInvNext, PTL DEF Spec

(***************************************************************************)
(* Every field of the queue and its connections has its type.              *)
(***************************************************************************)
THEOREM QueueTyped == Spec => []TypeOK
<1>1. QueueInv => TypeOK
  BY DEF QueueInv
<1> QED
  BY <1>1, QueueInvariance, PTL

(***************************************************************************)
(* The queue and its writers implement Outbox for any number of messages   *)
(* and connections: a failing write, a requeue or a dying session neither  *)
(* loses a message nor writes it twice.                                    *)
(***************************************************************************)
THEOREM QueueIsOutbox == Spec => ImplementsOutbox
<1> DEFINE pending == Range(wrq) \cup Hands
           delivered == Range(wire)
<1>1. Init => Abstract!OutboxInit
  BY EmptyRange DEF Init, Abstract!OutboxInit
<1>2. ASSUME QueueInv, [Next]_vars
      PROVE  [Abstract!OutboxNext]_(Abstract!outboxVars)
  <2>1. ASSUME NEW m \in Msgs, Push(m)
        PROVE  Abstract!OutboxNext
    <3>1. m \notin pending \cup delivered /\ pending' = pending \cup {m} /\ delivered' = delivered
      BY <1>2, <2>1, PushPlaces
    <3>2. Abstract!Submit(m)
      BY <3>1 DEF Abstract!Submit, Hands
    <3> QED
      BY <3>2 DEF Abstract!OutboxNext
  <2>2. ASSUME NEW c \in Conns, WriterSendOk(c)
        PROVE  Abstract!OutboxNext
    <3>1. PICK m \in Msgs : m = held[c]
      BY <1>2, <2>2, SendPlaces
    <3>2. m \in pending /\ pending' = pending \ {m} /\ delivered' = delivered \cup {m}
      BY <1>2, <2>2, <3>1, SendPlaces
    <3>3. Abstract!Transmit(m)
      BY <3>2 DEF Abstract!Transmit, Hands
    <3> QED
      BY <3>3 DEF Abstract!OutboxNext
  <2>3. ASSUME pending' = pending, delivered' = delivered
        PROVE  UNCHANGED Abstract!outboxVars
    BY <2>3 DEF Abstract!outboxVars, Hands
  <2>4. ASSUME NEW c \in Conns, WriterPop(c) \/ WriterSendErr(c)
        PROVE  pending' = pending /\ delivered' = delivered
    BY <1>2, <2>4, PopPlaces, RequeuePlaces
  <2>5. ASSUME NEW c \in Conns, QuietNext(c)
        PROVE  pending' = pending /\ delivered' = delivered
    BY <1>2, <2>5, QuietSteps
  <2>6. ASSUME Close \/ UNCHANGED vars
        PROVE  pending' = pending /\ delivered' = delivered
    BY <1>2, <2>6, CloseOrStutter
  <2> HIDE DEF pending, delivered
  <2> QED
    BY <1>2, <2>1, <2>2, <2>3, <2>4, <2>5, <2>6 DEF Next, WriterNext, QuietNext
<1> QED
  BY <1>1, <1>2, QueueInvariance, PTL DEF Spec, ImplementsOutbox, Abstract!OutboxSpec
----------------------------------------------------------------------------
(***************************************************************************)
(* From the index-by-index form of the queue to FirstTriesInOrder.         *)
(***************************************************************************)

(* Reverse keeps the length and counts indices from the other end. *)
LEMMA ReverseIndexed ==
  ASSUME NEW S, NEW s \in Seq(S)
  PROVE  /\ Reverse(s) \in Seq(S) /\ Len(Reverse(s)) = Len(s)
         /\ \A i \in 1..Len(s) : Reverse(s)[i] = s[(Len(s) - i) + 1]
<1> DEFINE r == Reverse(s)
           n == Len(s)
<1>1. n \in Nat /\ \A i \in 1..n : s[i] \in S
  BY LenProperties, ElementOfSeq
<1>2. r = [i \in 1..n |-> s[(n - i) + 1]]
  BY DEF Reverse
<1> HIDE DEF r, n
<1>3. r \in [1..n -> S]
  <2>1. \A i \in 1..n : (n - i) + 1 \in 1..n
    BY <1>1
  <2> QED
    BY <1>1, <1>2, <2>1
<1>4. r \in Seq(S) /\ Len(r) = n
  BY <1>1, <1>3
<1>5. \A i \in 1..n : r[i] = s[(n - i) + 1]
  BY <1>2
<1> QED
  BY <1>4, <1>5 DEF r, n

(* A sequence that another one ends with, index by index, is a suffix. *)
LEMMA SuffixByIndex ==
  ASSUME NEW S, NEW s \in Seq(S), NEW t \in Seq(S), NEW n \in Nat,
         Len(t) = n + Len(s), \A i \in 1..Len(s) : t[n + i] = s[i]
  PROVE  IsSuffix(s, t)
<1> DEFINE rs == Reverse(s)
           rt == Reverse(t)
           ls == Len(s)
           lt == Len(t)
<1>1. ls \in Nat /\ lt \in Nat /\ lt = n + ls
  BY LenProperties
<1>2. /\ rs \in Seq(S) /\ Len(rs) = ls /\ \A i \in 1..ls : rs[i] = s[(ls - i) + 1]
      /\ rt \in Seq(S) /\ Len(rt) = lt /\ \A i \in 1..lt : rt[i] = t[(lt - i) + 1]
  BY ReverseIndexed
<1>3. \A i \in 1..ls : t[n + i] = s[i]
  OBVIOUS
<1>4. IsSuffix(s, t) <=> IsPrefix(rs, rt)
  BY DEF IsSuffix
<1> HIDE DEF rs, rt, ls, lt
<1>5. /\ SubSeq(rt, 1, ls) \in Seq(S) /\ Len(SubSeq(rt, 1, ls)) = ls
      /\ \A i \in 1..ls : SubSeq(rt, 1, ls)[i] = rt[i]
  <2>1. \A i \in 1..ls : rt[i] \in S
    BY <1>1, <1>2, ElementOfSeq
  <2>2. /\ SubSeq(rt, 1, ls) \in Seq(S)
        /\ Len(SubSeq(rt, 1, ls)) = IF 1 <= ls THEN (ls - 1) + 1 ELSE 0
        /\ \A i \in 1..((ls - 1) + 1) : SubSeq(rt, 1, ls)[i] = rt[(1 + i) - 1]
    BY <1>1, <2>1, SubSeqProperties
  <2> QED
    BY <1>1, <2>2
<1>6. ASSUME NEW i \in 1..ls
      PROVE  rs[i] = rt[i]
  <2> DEFINE j == (ls - i) + 1
  <2>1. j \in 1..ls /\ i \in 1..lt /\ (lt - i) + 1 = n + j
    BY <1>1
  <2>2. rs[i] = s[j]
    BY <1>2
  <2>3. rt[i] = t[n + j]
    BY <1>2, <2>1
  <2> HIDE DEF j
  <2> QED
    BY <1>3, <2>1, <2>2, <2>3
<1>7. rs = SubSeq(rt, 1, ls)
  BY <1>2, <1>5, <1>6, SeqEqual
<1>8. SubSeq(rs, 1, ls) = rs
  BY <1>2, SubSeqFull
<1>9. ls <= lt
  BY <1>1
<1> QED
  BY <1>2, <1>4, <1>7, <1>8, <1>9 DEF IsPrefix

(* The messages tried are as many as the pushes they are. *)
LEMMA TriedCount ==
  ASSUME QueueInv, NEW k \in 0..Len(pushed), tried = {pushed[i] : i \in 1..k}
  PROVE  Cardinality(tried) = k
<1>1. \A i, j \in 1..k : pushed[i] = pushed[j] => i = j
  <2>1. Len(pushed) \in Nat
    BY LenProperties DEF QueueInv, TypeOK
  <2> QED
    BY <2>1 DEF QueueInv, Placed, PushedOnce
<1> DEFINE f == [i \in 1..k |-> pushed[i]]
<1>2. f \in Bijection(1..k, tried)
  <2>1. f \in [1..k -> tried]
    OBVIOUS
  <2>2. \A i, j \in 1..k : f[i] = f[j] => i = j
    BY <1>1
  <2>3. \A m \in tried : \E i \in 1..k : f[i] = m
    OBVIOUS
  <2> HIDE DEF f
  <2> QED
    BY <2>1, <2>2, <2>3 DEF Bijection, Injection, Surjection, IsInjective
<1>3. k \in Nat
  BY LenProperties DEF QueueInv, TypeOK
<1> QED
  BY <1>2, <1>3, FS_CountingElements DEF ExistsBijection

LEMMA QueueInvOrders == QueueInv => FirstTriesInOrder
<1> SUFFICES ASSUME QueueInv
             PROVE  FirstTriesInOrder
  OBVIOUS
<1>1. wrq \in Seq(Msgs) /\ pushed \in Seq(Msgs) /\ Len(wrq) \in Nat /\ Len(pushed) \in Nat
  BY LenProperties DEF QueueInv, TypeOK
<1>2. PICK k \in 0..Len(pushed), n \in 0..Len(wrq) : QueueSplit(k, n)
  BY DEF QueueInv, Placed
<1>3. /\ Len(wrq) = n + (Len(pushed) - k)
      /\ tried = {pushed[i] : i \in 1..k}
      /\ \A i \in 1..n : wrq[i] \in tried
      /\ \A i \in 1..(Len(pushed) - k) : wrq[n + i] = pushed[k + i]
  BY <1>2 DEF QueueSplit
<1>4. Cardinality(tried) = k
  BY <1>3, TriedCount
<1> DEFINE first == SubSeq(pushed, 1, k)
           fresh == SubSeq(pushed, k + 1, Len(pushed))
           again == SubSeq(wrq, 1, Len(wrq) - Len(fresh))
<1>5. \A i \in 1..Len(pushed) : pushed[i] \in Msgs
  BY <1>1, ElementOfSeq
<1>6. /\ first \in Seq(Msgs) /\ Len(first) = k
      /\ \A i \in 1..k : first[i] = pushed[i]
  <2>1. \A i \in 1..k : pushed[i] \in Msgs
    BY <1>1, <1>5
  <2>2. /\ first \in Seq(Msgs) /\ Len(first) = IF 1 <= k THEN (k - 1) + 1 ELSE 0
        /\ \A i \in 1..((k - 1) + 1) : first[i] = pushed[(1 + i) - 1]
    BY <2>1, SubSeqProperties
  <2> HIDE DEF first
  <2> QED
    BY <1>1, <2>2
<1>7. /\ fresh \in Seq(Msgs) /\ Len(fresh) = Len(pushed) - k
      /\ \A i \in 1..(Len(pushed) - k) : fresh[i] = pushed[k + i]
  <2>1. \A i \in (k + 1)..Len(pushed) : pushed[i] \in Msgs
    BY <1>1, <1>5
  <2>2. /\ fresh \in Seq(Msgs)
        /\ Len(fresh) = IF k + 1 <= Len(pushed) THEN (Len(pushed) - (k + 1)) + 1 ELSE 0
        /\ \A i \in 1..((Len(pushed) - (k + 1)) + 1) : fresh[i] = pushed[((k + 1) + i) - 1]
    BY <1>1, <2>1, SubSeqProperties
  <2> HIDE DEF fresh
  <2>3. k \in Nat /\ Len(pushed) \in Nat /\ k <= Len(pushed)
    BY <1>1
  <2>4. Len(fresh) = Len(pushed) - k
    BY <2>2, <2>3
  <2>5. ASSUME NEW i \in 1..(Len(pushed) - k)
        PROVE  fresh[i] = pushed[k + i]
    <3>1. i \in 1..((Len(pushed) - (k + 1)) + 1) /\ ((k + 1) + i) - 1 = k + i
      BY <2>3
    <3> QED
      BY <2>2, <3>1
  <2> QED
    BY <2>2, <2>4, <2>5
<1>8. /\ again \in Seq(Msgs) /\ Len(again) = n
      /\ \A i \in 1..n : again[i] = wrq[i]
  <2>1. Len(wrq) - Len(fresh) = n
    BY <1>1, <1>3, <1>7
  <2>2. \A i \in 1..n : wrq[i] \in Msgs
    BY <1>1, ElementOfSeq
  <2>3. /\ again \in Seq(Msgs) /\ Len(again) = IF 1 <= n THEN (n - 1) + 1 ELSE 0
        /\ \A i \in 1..((n - 1) + 1) : again[i] = wrq[(1 + i) - 1]
    BY <1>1, <2>1, <2>2, SubSeqProperties
  <2> HIDE DEF again
  <2> QED
    BY <1>1, <2>3
<1> HIDE DEF first, fresh, again
<1>9. tried = Range(first)
  <2>1. Range(first) = {first[i] : i \in 1..k}
    BY <1>6, RangeEquality
  <2> QED
    BY <1>3, <1>6, <2>1
<1>10. IsSuffix(fresh, wrq)
  <2>1. n \in Nat /\ Len(wrq) = n + Len(fresh)
    BY <1>1, <1>3, <1>7
  <2>2. \A i \in 1..Len(fresh) : wrq[n + i] = fresh[i]
    BY <1>3, <1>7
  <2> QED
    BY <1>1, <1>7, <2>1, <2>2, SuffixByIndex
<1>11. Range(again) \subseteq tried
  <2>1. Range(again) = {again[i] : i \in 1..n}
    BY <1>8, RangeEquality
  <2> QED
    BY <1>3, <1>8, <2>1
<1> QED
  BY <1>4, <1>9, <1>10, <1>11 DEF FirstTriesInOrder, first, fresh, again

(***************************************************************************)
(* First tries happen in the order of the pushes, and a requeued message   *)
(* is tried again before any other that was not tried yet, for any number  *)
(* of writers that pop and put back.                                       *)
(***************************************************************************)
THEOREM TriesAreOrdered == Spec => []FirstTriesInOrder
BY QueueInvOrders, QueueInvariance, PTL
============================================================================
