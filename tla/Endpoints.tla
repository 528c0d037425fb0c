----------------------------- MODULE Endpoints ------------------------------
(***************************************************************************)
(* The endpoints of native spot clients: the handler map, run_handler,     *)
(* which answers a message by what its handler returns, and PacketConn,    *)
(* which turns a handler into an inbox that receivers share.  All clients  *)
(* run this code, so the answer of one is a message to an endpoint of      *)
(* another.  Each message is handled in a thread of its own.               *)
(***************************************************************************)
EXTENDS Naturals, Sequences, FiniteSets, SequencesExt

CONSTANTS
  Clients,
  Server,        \* its questions are no bottles; an answer to it leaves the model
  Names,         \* endpoint names messages carry
  Questions,     \* who may send to which endpoint, and where an answer goes
  Built,         \* <<client, name>> of the handlers given to the builders
  Configurable,  \* <<client, name>> that set_handler may be called for
  Conns,         \* PacketConns, each of a client and a name
  Owner, Name,   \* functions on Conns
  Receivers,     \* threads that call recv
  Timed,         \* those of them that pass a timeout
  NoHandler, Nobody,
  MaxSends       \* bound on the messages that are not answers

ASSUME EndpointAssumption ==
  /\ Questions \subseteq [from : Clients \cup {Server}, back : Names, to : Clients, name : Names]
  /\ "noreply" \in Names   \* the endpoint an answer names
  /\ Owner \in [Conns -> Clients] /\ Name \in [Conns -> Names]
  /\ Built \subseteq Clients \X Names /\ Configurable \subseteq Clients \X Names
  /\ Timed \subseteq Receivers
  /\ Server \notin Clients /\ Nobody \notin Conns \cup Receivers
  /\ Conns \cap {NoHandler, "reply", "update", "user"} = {}
  /\ NoHandler \notin {"reply", "update", "user"}
  /\ MaxSends \in Nat

VARIABLES
  handlers,   \* the handler map of each client
  net,        \* messages pushed and not yet routed
  running,    \* the threads of run_handler: the message and its handler
  conn,       \* whether each PacketConn exists
  inbox,      \* what the handler of each PacketConn sent down its channel
  lock,       \* who holds the mutex around its receiver
  recv,       \* the PacketConn each receiver is in a call of
  asked       \* every message that was not an answer; no field

handlerVars == <<handlers, conn>>
recvVars == <<lock, recv>>
vars == <<handlerVars, net, running, inbox, recvVars, asked>>

(***************************************************************************)
(* A message: from whom to whom, to which endpoint, which endpoint an      *)
(* answer goes to, whether it asks (no MSG_FLAG_RESPONSE) and whether its  *)
(* body is a bottle (no MSG_FLAG_NOT_BOTTLE).                              *)
(***************************************************************************)
Messages ==
  [id : 1..MaxSends, asks : BOOLEAN, bottle : BOOLEAN, from : Clients \cup {Server},
   back : Names, to : Clients \cup {Server}, name : Names]

Handlers == {"reply", "update", "user"} \cup Conns

TypeOK ==
  /\ handlers \in [Clients -> [Names -> Handlers \cup {NoHandler}]]
  /\ net \subseteq Messages
  /\ running \subseteq [msg : Messages, h : Handlers]
  /\ conn \in [Conns -> {"new", "open", "dropped"}]
  /\ inbox \in [Conns -> Seq(Messages)]
  /\ lock \in [Conns -> Receivers \cup {Nobody}]
  /\ recv \in [Receivers -> Conns \cup {Nobody}]
  /\ asked \subseteq Messages

(* default_handlers and register_inner_handlers. *)
Default(name) ==
  CASE name \in {"ping", "version", "finger"} -> "reply"
    [] name = "idcard_update" -> "update"
    [] OTHER -> NoHandler

Init ==
  /\ handlers = [a \in Clients |-> [n \in Names |->
                   IF <<a, n>> \in Built THEN "user" ELSE Default(n)]]
  /\ net = {} /\ running = {} /\ asked = {}
  /\ conn = [c \in Conns |-> "new"]
  /\ inbox = [c \in Conns |-> <<>>]
  /\ lock = [c \in Conns |-> Nobody]
  /\ recv = [r \in Receivers |-> Nobody]
----------------------------------------------------------------------------
(***************************************************************************)
(* send_to_with_from, PacketConn::send_to, or the server's relay: a        *)
(* message to an endpoint, with an endpoint for the answer.                *)
(***************************************************************************)
Send(q) ==
  /\ Cardinality(asked) < MaxSends
  /\ LET m == [id |-> Cardinality(asked) + 1, asks |-> TRUE, bottle |-> q.from \in Clients,
               from |-> q.from, back |-> q.back, to |-> q.to, name |-> q.name]
     IN  asked' = asked \cup {m} /\ net' = net \cup {m}
  /\ UNCHANGED <<handlerVars, running, inbox, recvVars>>

(* The network loses a message. *)
Lose(m) ==
  /\ m \in net
  /\ net' = net \ {m}
  /\ UNCHANGED <<handlerVars, running, inbox, recvVars, asked>>

(* route_message: the handler there is now gets a thread with the message. *)
Route(m) ==
  /\ m \in net
  /\ net' = net \ {m}
  /\ running' = running \cup
       {[msg |-> m, h |-> h] :
          h \in {handlers[a][m.name] : a \in Clients \cap {m.to}} \ {NoHandler}}
  /\ UNCHANGED <<handlerVars, inbox, recvVars, asked>>
----------------------------------------------------------------------------
(***************************************************************************)
(* What a handler may return for a message.  idcard_update rejects what is *)
(* not a card; a panic of a user's handler counts as an error; the handler *)
(* of a PacketConn refuses what is not a bottle.                           *)
(***************************************************************************)
Results(t) ==
  CASE t.h = "reply"  -> {"body"}
    [] t.h = "update" -> {"nothing", "error"}
    [] t.h = "user"   -> {"body", "nothing", "error"}
    [] OTHER          -> IF t.msg.bottle THEN {"nothing"} ELSE {"error"}

(* Mutant: an answer is never encrypted. *)
AnswerPlain(m) ==
  [id |-> m.id, asks |-> FALSE, bottle |-> FALSE,
   from |-> m.to, back |-> "noreply", to |-> m.from, name |-> m.back]

(* The answer run_handler pushes. *)
Answer(m) ==
  [id |-> m.id, asks |-> FALSE, bottle |-> m.bottle,
   from |-> m.to, back |-> "noreply", to |-> m.from, name |-> m.back]

(* The handler of a PacketConn sends the packet, to nobody if it is gone. *)
Deliver(t, takes) ==
  inbox' = [c \in Conns |->
    IF c = t.h /\ takes /\ conn[c] = "open" THEN Append(inbox[c], t.msg) ELSE inbox[c]]

(* Mutant: the response flag of the message is not looked at. *)
RunHandlerAnswersAll(t) ==
  /\ t \in running
  /\ running' = running \ {t}
  /\ \E res \in Results(t) :
       net' = IF res # "nothing" THEN net \cup {Answer(t.msg)} ELSE net
  /\ Deliver(t, t.msg.bottle)
  /\ UNCHANGED <<handlerVars, recvVars, asked>>

(* run_handler: the handler is called, and its result is the answer unless *)
(* there is none or the message was an answer itself ...                   *)
RunHandler(t) ==
  /\ t \in running
  /\ running' = running \ {t}
  /\ \E res \in Results(t) :
       net' = IF t.msg.asks /\ res # "nothing" THEN net \cup {Answer(t.msg)} ELSE net
  /\ Deliver(t, t.msg.bottle)
  /\ UNCHANGED <<handlerVars, recvVars, asked>>

(* ... but a bottle whose sender has no card to be found, or that does not *)
(* open, is dropped in silence.                                            *)
RunHandlerFails(t) ==
  /\ t \in running /\ t.msg.bottle
  /\ running' = running \ {t}
  /\ UNCHANGED <<handlerVars, net, inbox, recvVars, asked>>
----------------------------------------------------------------------------
(* Client::set_handler *)
SetHandler(a, name, h) ==
  /\ handlers' = [handlers EXCEPT ![a][name] = h]
  /\ UNCHANGED <<conn, net, running, inbox, recvVars, asked>>

(* Client::listen_packet takes the name over from whoever has it. *)
Listen(c) ==
  /\ conn[c] = "new"
  /\ conn' = [conn EXCEPT ![c] = "open"]
  /\ handlers' = [handlers EXCEPT ![Owner[c]][Name[c]] = c]
  /\ UNCHANGED <<net, running, inbox, recvVars, asked>>

(***************************************************************************)
(* PacketConn::drop, when no call borrows it: the handler of its name is   *)
(* removed, also when it is no longer its own.                             *)
(***************************************************************************)
DropConn(c) ==
  /\ conn[c] = "open" /\ \A r \in Receivers : recv[r] # c
  /\ conn' = [conn EXCEPT ![c] = "dropped"]
  /\ handlers' = [handlers EXCEPT ![Owner[c]][Name[c]] = NoHandler]
  /\ inbox' = [inbox EXCEPT ![c] = <<>>]
  /\ UNCHANGED <<net, running, recvVars, asked>>
----------------------------------------------------------------------------
(* Mutant: the PacketConn keeps a sender of its own. *)
DisconnectedNever(c) == conn[c] = "dropped"

(***************************************************************************)
(* The sender of a channel lives in the handler: in the map, and in the    *)
(* threads that run it.                                                    *)
(***************************************************************************)
Disconnected(c) ==
  /\ handlers[Owner[c]][Name[c]] # c
  /\ \A t \in running : t.h # c

(* PacketConn::recv begins by asking for the mutex ... *)
RecvCall(r, c) ==
  /\ recv[r] = Nobody /\ conn[c] = "open"
  /\ recv' = [recv EXCEPT ![r] = c]
  /\ UNCHANGED <<handlerVars, net, running, inbox, lock, asked>>

(* ... and waits on the channel with the mutex in its hands. *)
RecvLock(r) ==
  /\ recv[r] # Nobody /\ lock[recv[r]] = Nobody
  /\ lock' = [lock EXCEPT ![recv[r]] = r]
  /\ UNCHANGED <<handlerVars, net, running, inbox, recv, asked>>

Waits(r) == recv[r] # Nobody /\ lock[recv[r]] = r

RecvLeave(r) ==
  /\ lock' = [lock EXCEPT ![recv[r]] = Nobody]
  /\ recv' = [recv EXCEPT ![r] = Nobody]
  /\ UNCHANGED <<handlerVars, net, running, asked>>

RecvPacket(r) ==
  /\ Waits(r) /\ inbox[recv[r]] # <<>>
  /\ inbox' = [inbox EXCEPT ![recv[r]] = Tail(@)]
  /\ RecvLeave(r)

RecvClosed(r) ==
  /\ Waits(r) /\ inbox[recv[r]] = <<>> /\ Disconnected(recv[r])
  /\ RecvLeave(r)
  /\ UNCHANGED inbox

(* Mutant: the time a receiver may take starts anew with every look. *)
RecvTimeoutRestarts(r) ==
  /\ Waits(r) /\ r \in Timed /\ inbox[recv[r]] = <<>>
  /\ UNCHANGED vars

RecvTimeout(r) ==
  /\ Waits(r) /\ r \in Timed /\ inbox[recv[r]] = <<>>
  /\ RecvLeave(r)
  /\ UNCHANGED inbox
----------------------------------------------------------------------------
ThreadNext(t) == RunHandler(t) \/ RunHandlerFails(t)

AppNext ==
  \/ \E p \in Configurable, h \in {"user", NoHandler} : SetHandler(p[1], p[2], h)
  \/ \E c \in Conns : Listen(c) \/ DropConn(c)

RecvNext(r) ==
  \/ \E c \in Conns : RecvCall(r, c)
  \/ RecvLock(r) \/ RecvPacket(r) \/ RecvClosed(r) \/ RecvTimeout(r)

Next ==
  \/ \E q \in Questions : Send(q)
  \/ \E m \in net : Route(m) \/ Lose(m)
  \/ \E t \in running : ThreadNext(t)
  \/ AppNext
  \/ \E r \in Receivers : RecvNext(r)

Spec == Init /\ [][Next]_vars

(***************************************************************************)
(* Fairness: each message arrives or is lost, handlers return, deadlines   *)
(* pass, and a mutex that is free again and again is granted in the end.   *)
(***************************************************************************)
Fairness ==
  /\ WF_vars(\E m \in net : Route(m) \/ Lose(m))
  /\ WF_vars(\E t \in running : ThreadNext(t))
  /\ \A r \in Receivers :
       /\ SF_vars(RecvLock(r))
       /\ WF_vars(RecvPacket(r) \/ RecvClosed(r) \/ RecvTimeout(r))

FairSpec == Spec /\ Fairness
----------------------------------------------------------------------------
(***************************************************************************)
(* An answer answers: it goes back to the endpoint the question named, and *)
(* a question asked in a bottle is never answered in the clear.            *)
(***************************************************************************)
AnswersMatch ==
  \A m \in net \cup {t.msg : t \in running} :
    ~m.asks => \E q \in asked :
      q.id = m.id /\ q.from = m.to /\ q.back = m.name /\ q.to = m.from /\ q.bottle = m.bottle

(***************************************************************************)
(* Clients that only handle what they receive fall silent: no exchange of  *)
(* answers keeps itself alive, whatever the handlers return and even when  *)
(* the endpoint an answer goes to has a handler that always replies.       *)
(***************************************************************************)
ConversationEnds == <>[](net = {} /\ running = {})

(***************************************************************************)
(* A PacketConn whose handler is gone returns Closed from recv, to every   *)
(* receiver in turn, once its packets are consumed.                        *)
(***************************************************************************)
ClosedRecvReturns ==
  \A r \in Receivers, c \in Conns :
    (recv[r] = c /\ handlers[Owner[c]][Name[c]] # c) ~> (recv[r] # c)

(***************************************************************************)
(* A recv with a timeout returns, unless one without holds the mutex.      *)
(***************************************************************************)
TimedRecvReturns ==
  \A r \in Timed, c \in Conns :
    (recv[r] = c) ~> (recv[r] # c \/ lock[c] \in Receivers \ Timed)
============================================================================
