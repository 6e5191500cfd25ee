--------------------------- MODULE MCFindingGates ---------------------------
(* Small instances of FindingGates. *)
EXTENDS FindingGates

CONSTANTS a, b, c, p, q

MCProviderOf == [o \in Object |-> IF o = c THEN q ELSE p]
=============================================================================
