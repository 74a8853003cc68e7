------------------------------ MODULE MCBuffer ------------------------------
(***************************************************************************)
(* Buffer on a small instance: chunks of two bytes instead of 4096 and     *)
(* sizes modulo 64 instead of 2^32.  Buffers are             *)
(* interchangeable; every property checked is safety.                      *)
(***************************************************************************)
EXTENDS Buffer

Symmetric == Permutations(Buf)

=============================================================================
