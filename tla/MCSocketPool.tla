---------------------------- MODULE MCSocketPool ----------------------------
(***************************************************************************)
(* SocketPool on small instances.  The application's variables and the SSL *)
(* objects are interchangeable; every property checked is safety.          *)
(***************************************************************************)
EXTENDS SocketPool, TLC

Symmetric == Permutations(Sock) \cup Permutations(SslObj)

=============================================================================
