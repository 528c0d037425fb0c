-------------------------- MODULE EndpointsProofs ---------------------------
(***************************************************************************)
(* Handlers, their answers and the receivers of PacketConns, for any       *)
(* number of clients, names and threads.                                   *)
(***************************************************************************)
EXTENDS Endpoints, SequenceTheorems, FiniteSetTheorems, TLAPS

(* Questions are counted, so that each has an id of its own. *)
AskedCounted == IsFiniteSet(asked)

(* A message that asks is one that was sent, not one a handler made up. *)
QuestionsSent == \A m \in net \cup {t.msg : t \in running} : m.asks => m \in asked

(* The mutex of a PacketConn is held by a thread in a call of its recv, *)
(* and nobody is in a call of one that is not there.                    *)
ReceiversInCall ==
  /\ \A c \in Conns, r \in Receivers : lock[c] = r => recv[r] = c
  /\ \A r \in Receivers, c \in Conns : recv[r] = c => conn[c] = "open"

(* The inductive invariant of the endpoints. *)
EndpointInv ==
  /\ TypeOK
  /\ AskedCounted
  /\ QuestionsSent
  /\ AnswersMatch
  /\ ReceiversInCall

(* New clients have no messages and only the handlers they were built with. *)
LEMMA EndpointInvInit == Init => EndpointInv
<1> SUFFICES ASSUME Init
             PROVE  EndpointInv
  OBVIOUS
<1> USE EndpointAssumption DEF Init
<1>1. TypeOK
  <2>1. \A n \in Names : Default(n) \in Handlers \cup {NoHandler}
    BY DEF Default, Handlers
  <2>2. handlers \in [Clients -> [Names -> Handlers \cup {NoHandler}]]
    BY <2>1 DEF Handlers
  <2>3. inbox \in [Conns -> Seq(Messages)]
    BY EmptySeq
  <2> QED
    BY <2>2, <2>3 DEF TypeOK
<1>2. AskedCounted
  BY FS_EmptySet DEF AskedCounted
<1>3. QuestionsSent /\ AnswersMatch
  BY DEF QuestionsSent, AnswersMatch
<1>4. ReceiversInCall
  BY DEF ReceiversInCall
<1> QED
  BY <1>1, <1>2, <1>3, <1>4 DEF EndpointInv

(* A handler that is run for a message may send it an answer of its type. *)
LEMMA AnswerTyped ==
  ASSUME NEW m \in Messages
  PROVE  /\ Answer(m) \in Messages /\ ~Answer(m).asks
         /\ Answer(m).id = m.id /\ Answer(m).bottle = m.bottle
         /\ Answer(m).to = m.from /\ Answer(m).from = m.to /\ Answer(m).name = m.back
BY EndpointAssumption DEF Answer, Messages

(***************************************************************************)
(* Messages only move from the net into a thread: what is said of all of   *)
(* them stays true.                                                        *)
(***************************************************************************)
LEMMA FewerMessages ==
  ASSUME QuestionsSent, AnswersMatch, asked' = asked,
         \A m \in net' \cup {t.msg : t \in running'} : m \in net \cup {t.msg : t \in running}
  PROVE  QuestionsSent' /\ AnswersMatch'
BY DEF QuestionsSent, AnswersMatch

(* A question gets the next id and is on record when it is sent. *)
LEMMA SendKeeps ==
  ASSUME EndpointInv, NEW q \in Questions, Send(q)
  PROVE  EndpointInv'
<1> DEFINE m == [id |-> Cardinality(asked) + 1, asks |-> TRUE, bottle |-> q.from \in Clients,
                 from |-> q.from, back |-> q.back, to |-> q.to, name |-> q.name]
<1>1. /\ Cardinality(asked) < MaxSends /\ asked' = asked \cup {m} /\ net' = net \cup {m}
      /\ UNCHANGED <<handlers, conn, running, inbox, lock, recv>>
  BY DEF Send, handlerVars, recvVars
<1>2. Cardinality(asked) \in Nat /\ MaxSends \in Nat
  BY FS_CardinalityType, EndpointAssumption DEF EndpointInv, AskedCounted
<1>3. m \in Messages /\ m.asks
  <2>1. Cardinality(asked) + 1 \in 1..MaxSends
    BY <1>1, <1>2
  <2>2. q.from \in Clients \cup {Server} /\ q.back \in Names /\ q.to \in Clients /\ q.name \in Names
    BY EndpointAssumption
  <2> QED
    BY <2>1, <2>2 DEF Messages
<1> HIDE DEF m
<1>4. TypeOK'
  BY <1>1, <1>3 DEF EndpointInv, TypeOK
<1>5. AskedCounted'
  BY <1>1, FS_AddElement DEF EndpointInv, AskedCounted
<1>6. QuestionsSent' /\ AnswersMatch'
  BY <1>1, <1>3 DEF EndpointInv, QuestionsSent, AnswersMatch
<1>7. ReceiversInCall'
  BY <1>1 DEF EndpointInv, ReceiversInCall
<1> QED
  BY <1>4, <1>5, <1>6, <1>7 DEF EndpointInv

(* A message that is routed is the same message in the hands of a thread. *)
LEMMA RouteKeeps ==
  ASSUME EndpointInv, NEW m \in net, Route(m)
  PROVE  EndpointInv'
<1> DEFINE new == {[msg |-> m, h |-> h] :
                     h \in {handlers[a][m.name] : a \in Clients \cap {m.to}} \ {NoHandler}}
<1>1. /\ net' = net \ {m} /\ running' = running \cup new
      /\ UNCHANGED <<handlers, conn, inbox, lock, recv, asked>>
  BY DEF Route, handlerVars, recvVars
<1>2. \A t \in new : t.msg = m
  OBVIOUS
<1>3. new \subseteq [msg : Messages, h : Handlers]
  <2>1. m \in Messages /\ m.name \in Names
    BY DEF EndpointInv, TypeOK, Messages
  <2>2. \A a \in Clients : handlers[a][m.name] \in Handlers \cup {NoHandler}
    BY <2>1 DEF EndpointInv, TypeOK
  <2> QED
    BY <2>1, <2>2
<1> HIDE DEF new
<1>4. TypeOK' /\ AskedCounted' /\ ReceiversInCall'
  BY <1>1, <1>3 DEF EndpointInv, TypeOK, AskedCounted, ReceiversInCall
<1>5. \A x \in net' \cup {t.msg : t \in running'} : x \in net \cup {t.msg : t \in running}
  BY <1>1, <1>2
<1> QED
  BY <1>1, <1>4, <1>5, FewerMessages DEF EndpointInv

(* The answer of a handler answers the message it was called for. *)
LEMMA HandlerKeeps ==
  ASSUME EndpointInv, NEW t \in running, RunHandler(t)
  PROVE  EndpointInv'
<1> DEFINE m == t.msg
<1>1. /\ running' = running \ {t}
      /\ net' = net \/ (m.asks /\ net' = net \cup {Answer(m)})
      /\ UNCHANGED <<handlers, conn, lock, recv, asked>>
  BY DEF RunHandler, handlerVars, recvVars
<1>2. m \in Messages
  BY DEF EndpointInv, TypeOK
<1>3. inbox' \in [Conns -> Seq(Messages)]
  <2>1. \A c \in Conns : inbox[c] \in Seq(Messages) /\ Append(inbox[c], m) \in Seq(Messages)
    BY <1>2, AppendProperties DEF EndpointInv, TypeOK
  <2>2. inbox' = [c \in Conns |->
          IF c = t.h /\ m.bottle /\ conn[c] = "open" THEN Append(inbox[c], m) ELSE inbox[c]]
    BY DEF RunHandler, Deliver
  <2> QED
    BY <2>1, <2>2
<1>4. /\ Answer(m) \in Messages /\ ~Answer(m).asks
      /\ Answer(m).id = m.id /\ Answer(m).bottle = m.bottle
      /\ Answer(m).to = m.from /\ Answer(m).from = m.to /\ Answer(m).name = m.back
  BY <1>2, AnswerTyped
<1>5. TypeOK' /\ AskedCounted' /\ ReceiversInCall'
  BY <1>1, <1>3, <1>4 DEF EndpointInv, TypeOK, AskedCounted, ReceiversInCall
<1>6. \A x \in net' \cup {u.msg : u \in running'} :
        \/ x \in net \cup {u.msg : u \in running}
        \/ m.asks /\ x = Answer(m)
  BY <1>1
<1>7. m.asks => m \in asked
  BY DEF EndpointInv, QuestionsSent
<1> HIDE DEF m
<1>8. QuestionsSent'
  BY <1>1, <1>4, <1>6 DEF EndpointInv, QuestionsSent
<1>9. AnswersMatch'
  <2> SUFFICES ASSUME NEW x \in net' \cup {u.msg : u \in running'}, ~x.asks
               PROVE  \E q \in asked : /\ q.id = x.id /\ q.from = x.to /\ q.back = x.name
                                       /\ q.to = x.from /\ q.bottle = x.bottle
    BY <1>1 DEF AnswersMatch
  <2>1. CASE x \in net \cup {u.msg : u \in running}
    BY <2>1 DEF EndpointInv, AnswersMatch
  <2>2. CASE m.asks /\ x = Answer(m)
    BY <1>4, <1>7, <2>2
  <2> QED
    BY <1>6, <2>1, <2>2
<1> QED
  BY <1>5, <1>8, <1>9 DEF EndpointInv

(* The application changes handlers, never messages. *)
LEMMA AppKeeps ==
  ASSUME EndpointInv, AppNext
  PROVE  EndpointInv'
<1> USE EndpointAssumption
<1>0. TypeOK /\ ReceiversInCall
  BY DEF EndpointInv
<1>1. UNCHANGED <<net, running, lock, recv, asked>>
  BY DEF AppNext, SetHandler, Listen, DropConn, recvVars
<1>2. ASSUME NEW p \in Configurable, NEW h \in {"user", NoHandler}, SetHandler(p[1], p[2], h)
      PROVE  TypeOK' /\ ReceiversInCall'
  <2>1. p[1] \in Clients /\ p[2] \in Names /\ h \in Handlers \cup {NoHandler}
    BY DEF Handlers
  <2>2. handlers' \in [Clients -> [Names -> Handlers \cup {NoHandler}]]
    BY <1>0, <1>2, <2>1 DEF SetHandler, TypeOK
  <2> QED
    BY <1>0, <1>2, <2>2 DEF SetHandler, TypeOK, ReceiversInCall, recvVars
<1>3. ASSUME NEW c \in Conns, Listen(c)
      PROVE  TypeOK' /\ ReceiversInCall'
  <2>1. Owner[c] \in Clients /\ Name[c] \in Names /\ c \in Handlers
    BY DEF Handlers
  <2>2. handlers' \in [Clients -> [Names -> Handlers \cup {NoHandler}]]
    BY <1>0, <1>3, <2>1 DEF Listen, TypeOK
  <2> QED
    BY <1>0, <1>3, <2>2 DEF Listen, TypeOK, ReceiversInCall, recvVars
<1>4. ASSUME NEW c \in Conns, DropConn(c)
      PROVE  TypeOK' /\ ReceiversInCall'
  <2>1. Owner[c] \in Clients /\ Name[c] \in Names
    OBVIOUS
  <2>2. handlers' \in [Clients -> [Names -> Handlers \cup {NoHandler}]]
    BY <1>0, <1>4, <2>1 DEF DropConn, TypeOK
  <2>3. <<>> \in Seq(Messages)
    BY EmptySeq
  <2>4. inbox' \in [Conns -> Seq(Messages)]
    BY <1>0, <1>4, <2>3 DEF DropConn, TypeOK
  <2> QED
    BY <1>0, <1>4, <2>2, <2>4 DEF DropConn, TypeOK, ReceiversInCall, recvVars
<1>5. TypeOK' /\ ReceiversInCall'
  BY <1>2, <1>3, <1>4 DEF AppNext
<1>6. \A m \in net' \cup {t.msg : t \in running'} : m \in net \cup {t.msg : t \in running}
  BY <1>1
<1>7. QuestionsSent' /\ AnswersMatch'
  BY <1>1, <1>6, FewerMessages DEF EndpointInv
<1> QED
  BY <1>1, <1>5, <1>7 DEF EndpointInv, AskedCounted

(* Receivers consume packets, and leave their mutex when they leave. *)
LEMMA RecvKeeps ==
  ASSUME EndpointInv, NEW r \in Receivers, RecvNext(r)
  PROVE  EndpointInv'
<1> USE EndpointAssumption
<1>0. TypeOK /\ ReceiversInCall
  BY DEF EndpointInv
<1>1. UNCHANGED <<handlers, conn, net, running, asked>>
  BY DEF RecvNext, RecvCall, RecvLock, RecvPacket, RecvClosed, RecvTimeout, RecvLeave, handlerVars
<1>2. ASSUME NEW c \in Conns, RecvCall(r, c)
      PROVE  TypeOK' /\ ReceiversInCall'
  <2>1. recv' \in [Receivers -> Conns \cup {Nobody}]
    BY <1>0, <1>2 DEF RecvCall, TypeOK
  <2>2. lock' = lock /\ inbox' = inbox /\ conn[c] = "open" /\ recv[r] = Nobody
        /\ recv' = [recv EXCEPT ![r] = c]
    BY <1>2 DEF RecvCall
  <2>3. TypeOK'
    BY <1>0, <1>1, <2>1, <2>2 DEF TypeOK
  <2>4. \A x \in Receivers : recv'[x] = IF x = r THEN c ELSE recv[x]
    BY <1>0, <2>2 DEF TypeOK
  <2>5. \A d \in Conns : lock[d] # r
    BY <1>0, <2>2 DEF ReceiversInCall
  <2>6. ReceiversInCall'
    BY <1>0, <1>1, <2>2, <2>4, <2>5 DEF ReceiversInCall
  <2> QED
    BY <2>3, <2>6
<1>3. ASSUME RecvLock(r)
      PROVE  TypeOK' /\ ReceiversInCall'
  <2>1. /\ recv[r] \in Conns /\ lock' = [lock EXCEPT ![recv[r]] = r]
        /\ UNCHANGED <<inbox, recv>>
    BY <1>0, <1>3 DEF RecvLock, TypeOK
  <2>2. TypeOK'
    BY <1>0, <1>1, <2>1 DEF TypeOK
  <2>3. \A d \in Conns : lock'[d] = IF d = recv[r] THEN r ELSE lock[d]
    BY <1>0, <2>1 DEF TypeOK
  <2>4. ReceiversInCall'
    BY <1>0, <1>1, <2>1, <2>3 DEF ReceiversInCall
  <2> QED
    BY <2>2, <2>4
<1>4. ASSUME RecvPacket(r) \/ RecvClosed(r) \/ RecvTimeout(r)
      PROVE  TypeOK' /\ ReceiversInCall'
  <2>1. /\ recv[r] \in Conns /\ lock[recv[r]] = r
        /\ lock' = [lock EXCEPT ![recv[r]] = Nobody] /\ recv' = [recv EXCEPT ![r] = Nobody]
    BY <1>0, <1>4 DEF RecvPacket, RecvClosed, RecvTimeout, RecvLeave, Waits, TypeOK
  <2>2. inbox' \in [Conns -> Seq(Messages)]
    <3>1. CASE RecvPacket(r)
      <4>1. Tail(inbox[recv[r]]) \in Seq(Messages)
        BY <1>0, <2>1, <3>1, HeadTailProperties DEF RecvPacket, TypeOK
      <4> QED
        BY <1>0, <2>1, <3>1, <4>1 DEF RecvPacket, TypeOK
    <3>2. CASE RecvClosed(r) \/ RecvTimeout(r)
      BY <1>0, <3>2 DEF RecvClosed, RecvTimeout, TypeOK
    <3> QED
      BY <1>4, <3>1, <3>2
  <2>3. TypeOK'
    BY <1>0, <1>1, <2>1, <2>2 DEF TypeOK
  <2>4. /\ \A d \in Conns : lock'[d] = IF d = recv[r] THEN Nobody ELSE lock[d]
        /\ \A x \in Receivers : recv'[x] = IF x = r THEN Nobody ELSE recv[x]
    BY <1>0, <2>1 DEF TypeOK
  <2>5. ReceiversInCall'
    BY <1>0, <1>1, <2>4 DEF ReceiversInCall
  <2> QED
    BY <2>3, <2>5
<1>5. TypeOK' /\ ReceiversInCall'
  BY <1>2, <1>3, <1>4 DEF RecvNext
<1>6. \A m \in net' \cup {t.msg : t \in running'} : m \in net \cup {t.msg : t \in running}
  BY <1>1
<1>7. QuestionsSent' /\ AnswersMatch'
  BY <1>1, <1>6, FewerMessages DEF EndpointInv
<1> QED
  BY <1>1, <1>5, <1>7 DEF EndpointInv, AskedCounted

LEMMA EndpointInvNext == EndpointInv /\ [Next]_vars => EndpointInv'
<1>1. ASSUME EndpointInv, UNCHANGED vars
      PROVE  EndpointInv'
  BY <1>1 DEF vars, handlerVars, recvVars, EndpointInv, TypeOK, AskedCounted, QuestionsSent,
              AnswersMatch, ReceiversInCall
<1>2. ASSUME EndpointInv, NEW m \in net, Lose(m)
      PROVE  EndpointInv'
  <2>1. /\ \A x \in net' \cup {t.msg : t \in running'} : x \in net \cup {t.msg : t \in running}
        /\ UNCHANGED <<handlers, conn, running, inbox, lock, recv, asked>> /\ net' \subseteq net
    BY <1>2 DEF Lose, handlerVars, recvVars
  <2> QED
    BY <1>2, <2>1, FewerMessages DEF EndpointInv, TypeOK, AskedCounted, ReceiversInCall
<1>3. ASSUME EndpointInv, NEW t \in running, RunHandlerFails(t)
      PROVE  EndpointInv'
  <2>1. /\ \A x \in net' \cup {u.msg : u \in running'} : x \in net \cup {u.msg : u \in running}
        /\ UNCHANGED <<handlers, conn, net, inbox, lock, recv, asked>> /\ running' \subseteq running
    BY <1>3 DEF RunHandlerFails, handlerVars, recvVars
  <2> QED
    BY <1>3, <2>1, FewerMessages DEF EndpointInv, TypeOK, AskedCounted, ReceiversInCall
<1> QED
  BY <1>1, <1>2, <1>3, SendKeeps, RouteKeeps, HandlerKeeps, AppKeeps, RecvKeeps
     DEF Next, ThreadNext

LEMMA EndpointInvariance == Spec => []EndpointInv
BY EndpointInvInit, EndpointInvNext, PTL DEF Spec

(***************************************************************************)
(* Every message, handler, inbox and mutex of the endpoints has its type.  *)
(***************************************************************************)
THEOREM EndpointsTyped == Spec => []TypeOK
<1>1. EndpointInv => TypeOK
  BY DEF EndpointInv
<1> QED
  BY <1>1, EndpointInvariance, PTL

(***************************************************************************)
(* Whatever handlers run, are replaced or removed, every answer under way  *)
(* goes where its question wanted it and is sealed if the question was.    *)
(***************************************************************************)
THEOREM AnswersAlwaysMatch == Spec => []AnswersMatch
<1>1. EndpointInv => AnswersMatch
  BY DEF EndpointInv
<1> QED
  BY <1>1, EndpointInvariance, PTL
============================================================================
