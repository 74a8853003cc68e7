--------------------------- MODULE MCSingleInstance ---------------------------
(***************************************************************************)
(* Three processes, enough for a server, a client that dies and one that   *)
(* waits; one of them has a second argument.                               *)
(***************************************************************************)
EXTENDS SingleInstance

CONSTANTS p1, p2, p3

MCProc == {p1, p2, p3}
MCArgs == [p \in MCProc |-> IF p = p1 THEN 2 ELSE 1]

=============================================================================
