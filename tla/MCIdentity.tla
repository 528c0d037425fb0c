----------------------------- MODULE MCIdentity -----------------------------
(* Identity for TLC: requests that join, renew and leave groups, for the   *)
(* client's key and for a stranger's, and requests that fail half-way.     *)
EXTENDS Identity, TLC

CONSTANTS g1, g2

Record(kind, subject, group, issue) ==
  [kind |-> kind, subject |-> subject, group |-> group, issue |-> issue]

MCRequests ==
  {<<Record("valid", 1, g1, 1), Record("valid", 2, g2, 1)>>,
   <<Record("valid", 1, g2, 1), Record("valid", 1, g1, 2), Record("revoked", 1, g2, 2)>>,
   <<Record("revoked", 1, g1, 3), Record("forged", 1, g2, 3)>>}

ConnSymmetry == Permutations(Conns)
============================================================================
