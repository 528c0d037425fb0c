------------------------------ MODULE EventHub ------------------------------
(***************************************************************************)
(* The event hub of spotlib/src/events.rs: every subscriber gets every     *)
(* event emitted after it subscribed, and one that hung up is dropped from *)
(* the list by the next emission.                                          *)
(***************************************************************************)
CONSTANT Subs        \* who may call subscribe_events

VARIABLES subs,      \* the senders in the list
          hung,      \* subscribers that dropped their receiver
          heard      \* the last event each subscriber received

hubVars == <<subs, hung, heard>>

Events == {"Online", "Offline"}

HubInit == subs = {} /\ hung = {} /\ heard = [u \in Subs |-> "nothing"]

(* Hub::subscribe *)
Subscribe(u) ==
  /\ u \notin subs \cup hung
  /\ subs' = subs \cup {u}
  /\ UNCHANGED <<hung, heard>>

(* The receiver is dropped; the hub does not know yet. *)
HangUp(u) ==
  /\ u \in subs \ hung
  /\ hung' = hung \cup {u}
  /\ UNCHANGED <<subs, heard>>

(* Mutant: the subscribers behind one that hung up are dropped with it. *)
EmitStops(ev) ==
  /\ subs' = IF subs \cap hung = {} THEN subs ELSE {}
  /\ heard' = [u \in Subs |-> IF u \in subs' THEN ev ELSE heard[u]]
  /\ UNCHANGED hung

(* Hub::emit sends and retains those whose send succeeded. *)
Emit(ev) ==
  /\ subs' = subs \ hung
  /\ heard' = [u \in Subs |-> IF u \in subs \ hung THEN ev ELSE heard[u]]
  /\ UNCHANGED hung
============================================================================
