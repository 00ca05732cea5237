------------------------------- MODULE MCRealtime -------------------------------
(***************************************************************************)
(* Realtime on small instances.                                            *)
(***************************************************************************)
EXTENDS Realtime

CONSTANTS owner, provider, s1, s2

=============================================================================
