---------------------------- MODULE OnlineEvents ----------------------------
(***************************************************************************)
(* The online-state cell together with the event hub it reports to: the    *)
(* counter emits its Status events while it holds the mutex, subscribers   *)
(* come and go without it.                                                 *)
(***************************************************************************)
EXTENDS OnlineState, EventHub

onlineEventVars == <<onlineVars, hubVars>>

EventsInit == OnlineInit /\ HubInit

(* A step of the cell, with the event it emits if it emits one. *)
CellStep ==
  /\ OnlineNext
  /\ IF reported' = reported THEN UNCHANGED hubVars
     ELSE Emit(IF reported' > 0 THEN "Online" ELSE "Offline")

HubStep ==
  /\ \E u \in Subs : Subscribe(u) \/ HangUp(u)
  /\ UNCHANGED onlineVars

EventsSpec ==
  EventsInit /\ [][CellStep \/ HubStep]_onlineEventVars /\ OnlineFairness
----------------------------------------------------------------------------
(***************************************************************************)
(* A subscriber that received an event can rely on the last one: it is     *)
(* "Online" exactly when a connection is online, whatever order counter,   *)
(* subscriptions and hang-ups of others came in.                           *)
(***************************************************************************)
SubscriberAgrees ==
  \A u \in Subs :
    u \in subs \ hung /\ heard[u] # "nothing" =>
      (heard[u] = "Online" <=> online_cnt > 0)
============================================================================
