----------------------------- MODULE WriteQueue -----------------------------
(***************************************************************************)
(* The outgoing message queue of a native spot client and its consumers:   *)
(* the WriteQueue of spotlib/src/client.rs, and for each connection the    *)
(* read loop and the writer thread that handle() of spotlib/src/conn.rs    *)
(* runs side by side on one websocket.  A message whose write fails goes   *)
(* back to the front of the queue; a writer leaves when its read loop is   *)
(* gone or the client is closed.                                           *)
(***************************************************************************)
EXTENDS Naturals, Sequences, FiniteSets, SequencesExt

CONSTANTS
  Msgs,            \* the messages callers push, each once
  NoMsg,           \* "the writer holds no message"
  Conns,           \* the connection threads
  ShutdownHandle,  \* the connections whose transport has a WsShutdown handle
  MaxBreaks        \* bound on the sessions that end by a fault

ASSUME QueueAssumption ==
  /\ NoMsg \notin Msgs
  /\ ShutdownHandle \subseteq Conns
  /\ MaxBreaks \in Nat

VARIABLES
  wrq,      \* the queue
  closed,   \* the closed flag of the client
  sess,     \* what the thread of each connection is doing
  sock,     \* its websocket
  dead,     \* the flag the read loop leaves for its writer
  wpc,      \* where its writer thread is
  held,     \* the message its writer has popped
  tried,    \* the messages a writer has popped so far; no field
  pushed,   \* the messages in the order they were pushed; no field
  wire,     \* the messages in the order they were written; no field
  breaks    \* sessions that ended by a fault so far; no field

connVars == <<sess, sock, dead, wpc, held>>
vars == <<wrq, closed, connVars, tried, pushed, wire, breaks>>

(***************************************************************************)
(* A connection thread dials (or performs its handshake), runs the read    *)
(* loop, or has left it and joins its writer.                              *)
(***************************************************************************)
SessStates == {"down", "dialing", "reading", "joining"}

(* The socket works, fails on the next use, or was shut down on purpose. *)
SockStates == {"open", "broken", "shut"}

(***************************************************************************)
(* The writer tests its flags, waits in pop_timeout, sends, or is gone.    *)
(***************************************************************************)
WriterStates == {"none", "check", "pop", "send", "exited"}

TypeOK ==
  /\ wrq \in Seq(Msgs)
  /\ closed \in BOOLEAN
  /\ sess \in [Conns -> SessStates]
  /\ sock \in [Conns -> SockStates]
  /\ dead \in [Conns -> BOOLEAN]
  /\ wpc \in [Conns -> WriterStates]
  /\ held \in [Conns -> Msgs \cup {NoMsg}]
  /\ tried \subseteq Msgs
  /\ pushed \in Seq(Msgs)
  /\ wire \in Seq(Msgs)
  /\ breaks \in 0..MaxBreaks

Init ==
  /\ wrq = <<>>
  /\ closed = FALSE
  /\ sess = [c \in Conns |-> "down"]
  /\ sock = [c \in Conns |-> "shut"]
  /\ dead = [c \in Conns |-> FALSE]
  /\ wpc = [c \in Conns |-> "none"]
  /\ held = [c \in Conns |-> NoMsg]
  /\ tried = {}
  /\ pushed = <<>>
  /\ wire = <<>>
  /\ breaks = 0
----------------------------------------------------------------------------
(* WriteQueue::push, by a query, a handler or a send; also after close(). *)
Push(m) ==
  /\ m \notin Range(pushed)
  /\ wrq' = Append(wrq, m)
  /\ pushed' = Append(pushed, m)
  /\ UNCHANGED <<closed, connVars, tried, wire, breaks>>

(* Client::close; wake_all only makes the writers look at the queue. *)
Close ==
  /\ closed' = TRUE
  /\ UNCHANGED <<wrq, connVars, tried, pushed, wire, breaks>>

(* The loop of conn_thread: an open client makes another attempt. *)
Dial(c) ==
  /\ sess[c] = "down" /\ ~closed
  /\ sess' = [sess EXCEPT ![c] = "dialing"]
  /\ UNCHANGED <<wrq, closed, sock, dead, wpc, held, tried, pushed, wire, breaks>>

(* The dial or the handshake fails. *)
DialFails(c) ==
  /\ sess[c] = "dialing" /\ breaks < MaxBreaks
  /\ sess' = [sess EXCEPT ![c] = "down"]
  /\ breaks' = breaks + 1
  /\ UNCHANGED <<wrq, closed, sock, dead, wpc, held, tried, pushed, wire>>

(* handle(): past the handshake, which does not look at `closed`, the      *)
(* writer is spawned with its own `dead` flag and the read loop begins.    *)
SessionUp(c) ==
  /\ sess[c] = "dialing"
  /\ sess' = [sess EXCEPT ![c] = "reading"]
  /\ sock' = [sock EXCEPT ![c] = "open"]
  /\ dead' = [dead EXCEPT ![c] = FALSE]
  /\ wpc' = [wpc EXCEPT ![c] = "check"]
  /\ UNCHANGED <<wrq, closed, held, tried, pushed, wire, breaks>>

(* The network or the peer breaks a socket in use. *)
SockBreak(c) ==
  /\ sess[c] = "reading" /\ sock[c] = "open" /\ breaks < MaxBreaks
  /\ sock' = [sock EXCEPT ![c] = "broken"]
  /\ breaks' = breaks + 1
  /\ UNCHANGED <<wrq, closed, sess, dead, wpc, held, tried, pushed, wire>>

(* The read loop returns, and the flag for the writer is stored. *)
LeaveLoop(c) ==
  /\ sess[c] = "reading"
  /\ sess' = [sess EXCEPT ![c] = "joining"]
  /\ dead' = [dead EXCEPT ![c] = TRUE]

(* It finds the socket broken, closed by the peer or shut down ... *)
ReadEnds(c) ==
  /\ sock[c] # "open"
  /\ LeaveLoop(c)
  /\ UNCHANGED <<wrq, closed, sock, wpc, held, tried, pushed, wire, breaks>>

(* ... or it cannot parse a packet, with the socket still working ... *)
ReadRejects(c) ==
  /\ sock[c] = "open" /\ breaks < MaxBreaks
  /\ LeaveLoop(c)
  /\ breaks' = breaks + 1
  /\ UNCHANGED <<wrq, closed, sock, wpc, held, tried, pushed, wire>>

(* ... or, without a shutdown handle, its read deadline passes: the only   *)
(* case in which it looks at `closed`.                                     *)
ReadPoll(c) ==
  /\ c \notin ShutdownHandle
  /\ closed
  /\ LeaveLoop(c)
  /\ UNCHANGED <<wrq, closed, sock, wpc, held, tried, pushed, wire, breaks>>

(* handle() joins the writer and returns; the socket is dropped. *)
Join(c) ==
  /\ sess[c] = "joining" /\ wpc[c] = "exited"
  /\ sess' = [sess EXCEPT ![c] = "down"]
  /\ sock' = [sock EXCEPT ![c] = "shut"]
  /\ wpc' = [wpc EXCEPT ![c] = "none"]
  /\ UNCHANGED <<wrq, closed, dead, held, tried, pushed, wire, breaks>>
----------------------------------------------------------------------------
(* Mutant: the writer of a closed client leaves without closing anything. *)
WriterCheckSilent(c) ==
  /\ wpc[c] = "check"
  /\ wpc' = [wpc EXCEPT ![c] = IF dead[c] \/ closed THEN "exited" ELSE "pop"]
  /\ UNCHANGED <<wrq, closed, sess, sock, dead, held, tried, pushed, wire, breaks>>

(***************************************************************************)
(* The head of the writer's loop: leave if the read loop is gone; close    *)
(* the websocket of a closed client, and shut its socket down if the       *)
(* transport can; else look for a message.                                 *)
(***************************************************************************)
WriterCheck(c) ==
  /\ wpc[c] = "check"
  /\ wpc' = [wpc EXCEPT ![c] = IF dead[c] \/ closed THEN "exited" ELSE "pop"]
  /\ sock' = IF ~dead[c] /\ closed /\ c \in ShutdownHandle
               THEN [sock EXCEPT ![c] = "shut"] ELSE sock
  /\ UNCHANGED <<wrq, closed, sess, dead, held, tried, pushed, wire, breaks>>

(* Mutant: a writer peeks at the message it sends and pops it afterwards. *)
WriterPeek(c) ==
  /\ wpc[c] = "pop" /\ wrq # <<>>
  /\ held' = [held EXCEPT ![c] = Head(wrq)]
  /\ wpc' = [wpc EXCEPT ![c] = "send"]
  /\ UNCHANGED <<wrq, closed, sess, sock, dead, tried, pushed, wire, breaks>>

(* pop_timeout finds a message ... *)
WriterPop(c) ==
  /\ wpc[c] = "pop" /\ wrq # <<>>
  /\ held' = [held EXCEPT ![c] = Head(wrq)]
  /\ wrq' = Tail(wrq)
  /\ tried' = tried \cup {Head(wrq)}
  /\ wpc' = [wpc EXCEPT ![c] = "send"]
  /\ UNCHANGED <<closed, sess, sock, dead, pushed, wire, breaks>>

(* ... or gives up after WRITE_POLL. *)
WriterPopNone(c) ==
  /\ wpc[c] = "pop" /\ wrq = <<>>
  /\ wpc' = [wpc EXCEPT ![c] = "check"]
  /\ UNCHANGED <<wrq, closed, sess, sock, dead, held, tried, pushed, wire, breaks>>

(* The write succeeds, as it may for a while on a broken socket. *)
WriterSendOk(c) ==
  /\ wpc[c] = "send" /\ sock[c] # "shut"
  /\ wire' = Append(wire, held[c])
  /\ held' = [held EXCEPT ![c] = NoMsg]
  /\ wpc' = [wpc EXCEPT ![c] = "check"]
  /\ UNCHANGED <<wrq, closed, sess, sock, dead, tried, pushed, breaks>>

(* A writer whose write failed leaves. *)
WriterGivesUp(c) ==
  /\ wpc[c] = "send" /\ sock[c] # "open"
  /\ wpc' = [wpc EXCEPT ![c] = "exited"]
  /\ held' = [held EXCEPT ![c] = NoMsg]
  /\ UNCHANGED <<closed, sess, sock, dead, tried, pushed, wire, breaks>>

(* Mutant: the message is dropped with the connection. *)
WriterSendErrDrops(c) ==
  /\ WriterGivesUp(c)
  /\ UNCHANGED wrq

(* Mutant: the message is requeued at the back. *)
WriterSendErrAppends(c) ==
  /\ WriterGivesUp(c)
  /\ wrq' = Append(wrq, held[c])

(* The write fails: the message goes back to the front of the queue. *)
WriterSendErr(c) ==
  /\ WriterGivesUp(c)
  /\ wrq' = <<held[c]>> \o wrq
----------------------------------------------------------------------------
ReaderNext(c) ==
  \/ Dial(c) \/ DialFails(c) \/ SessionUp(c) \/ SockBreak(c)
  \/ ReadEnds(c) \/ ReadRejects(c) \/ ReadPoll(c) \/ Join(c)

WriterNext(c) ==
  \/ WriterCheck(c) \/ WriterPop(c) \/ WriterPopNone(c)
  \/ WriterSendOk(c) \/ WriterSendErr(c)

Next ==
  \/ \E m \in Msgs : Push(m)
  \/ Close
  \/ \E c \in Conns : ReaderNext(c) \/ WriterNext(c)

Spec == Init /\ [][Next]_vars

(***************************************************************************)
(* Fairness: threads keep running, so an open client dials, an attempt     *)
(* ends, a broken or shut socket is noticed, the read deadline passes      *)
(* where there is one, and writers go on.  Faults are never due.           *)
(***************************************************************************)
Fairness ==
  \A c \in Conns :
    /\ WF_vars(Dial(c))
    /\ WF_vars(SessionUp(c) \/ DialFails(c))
    /\ WF_vars(ReadEnds(c) \/ ReadPoll(c))
    /\ WF_vars(Join(c))
    /\ WF_vars(WriterNext(c))

FairSpec == Spec /\ Fairness
----------------------------------------------------------------------------
(***************************************************************************)
(* The queue keeps the promise of Outbox: a message is in the queue or in  *)
(* a writer's hands until it is written, and written once, through every   *)
(* failing write, dying connection and requeue.                            *)
(***************************************************************************)
Abstract ==
  INSTANCE Outbox WITH
    pending <- Range(wrq) \cup {held[c] : c \in {d \in Conns : wpc[d] = "send"}},
    delivered <- Range(wire)

ImplementsOutbox == Abstract!OutboxSpec

(***************************************************************************)
(* Messages are tried in the order they were pushed, and one whose write   *)
(* failed is tried again before any that was not tried yet: the queue is   *)
(* some requeued messages and then exactly the pushes nobody took so far,  *)
(* whatever the writers of several connections pop and put back.           *)
(***************************************************************************)
FirstTriesInOrder ==
  LET k == Cardinality(tried)
      fresh == SubSeq(pushed, k + 1, Len(pushed))
  IN  /\ tried = Range(SubSeq(pushed, 1, k))
      /\ IsSuffix(fresh, wrq)
      /\ Range(SubSeq(wrq, 1, Len(wrq) - Len(fresh))) \subseteq tried

(***************************************************************************)
(* While the client is open and the faults end, every message is written.  *)
(***************************************************************************)
Delivered == \A m \in Msgs : (m \in Range(pushed)) ~> (m \in Range(wire) \/ closed)

(***************************************************************************)
(* close() ends every read loop and every writer, wherever they are: a     *)
(* parked reader is woken, a writer never waits for ever on the queue.     *)
(***************************************************************************)
CloseEnds == closed ~> (\A c \in Conns : sess[c] = "down" /\ wpc[c] = "none")
============================================================================
