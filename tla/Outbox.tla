------------------------------- MODULE Outbox -------------------------------
(***************************************************************************)
(* What the outgoing queue of a native client promises its callers: a      *)
(* message handed to the client stays pending until it is written to       *)
(* exactly one connection, and then is never written again.                *)
(***************************************************************************)
CONSTANT Msgs        \* the messages of the callers

VARIABLES pending,   \* handed to the client and not yet written
          delivered  \* written to a connection

outboxVars == <<pending, delivered>>

OutboxInit == pending = {} /\ delivered = {}

(* A query, a handler's response or a send hands a new message over. *)
Submit(m) ==
  /\ m \notin pending \cup delivered
  /\ pending' = pending \cup {m}
  /\ UNCHANGED delivered

(* Some connection writes a pending message. *)
Transmit(m) ==
  /\ m \in pending
  /\ pending' = pending \ {m}
  /\ delivered' = delivered \cup {m}

OutboxNext == \E m \in Msgs : Submit(m) \/ Transmit(m)

OutboxSpec == OutboxInit /\ [][OutboxNext]_outboxVars
============================================================================
