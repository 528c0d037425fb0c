---------------------------- MODULE MCEndpoints -----------------------------
(* Endpoints for TLC: client a opens two PacketConns under one name. *)
EXTENDS Endpoints, TLC

CONSTANTS a, b, c1, c2

Question(from, back, to, name) == [from |-> from, back |-> back, to |-> to, name |-> name]

(* A packet to a, one from a, and a question that is no bottle. *)
MCQuestions ==
  {Question(b, "ping", a, "chat"), Question(a, "chat", b, "ping"),
   Question(Server, "noreply", a, "chat")}

(* Even "noreply" has a handler. *)
MCBuilt == {<<a, "noreply">>, <<b, "noreply">>}
MCConfigurable == {<<a, "chat">>}
MCOwner == [c \in {c1, c2} |-> a]
MCName == [c \in {c1, c2} |-> "chat"]
============================================================================
