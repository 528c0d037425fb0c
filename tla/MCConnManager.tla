--------------------------- MODULE MCConnManager ---------------------------
(* ConnManager for TLC: every list of at most MaxList hosts, repeats too. *)
EXTENDS ConnManager, TLC

CONSTANT MaxList   \* longest host list of the API

MCApiLists == UNION {[1..n -> Hosts] : n \in 0..MaxList}

============================================================================
