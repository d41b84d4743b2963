---------------------------- MODULE MCNsdpSession -----------------------------
(***************************************************************************)
(* Two settings, so that a SET follows a SET; two attempts, so that a GET  *)
(* is repeated and given up; two faults, so that one can hit the recovery  *)
(* from the other.                                                         *)
(***************************************************************************)
EXTENDS NsdpSession

MCSettings == 1 .. 2
MCNonces == 1 .. 8
MCSeqs == 1 .. 8
=============================================================================
