------------------------------ MODULE MCSocket ------------------------------
(***************************************************************************)
(* Socket on a small instance.  The variables and the SSL objects are      *)
(* interchangeable; the runs that use the symmetry check safety only.      *)
(***************************************************************************)
EXTENDS Socket, TLC

Symmetric == Permutations(Sock) \cup Permutations(SslObj)

=============================================================================
