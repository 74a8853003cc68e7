----------------------------- MODULE MCWebServer -----------------------------
(***************************************************************************)
(* WebServer with a few clients.  No symmetry: liveness is checked.        *)
(***************************************************************************)
EXTENDS WebServer

=============================================================================
