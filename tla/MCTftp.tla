------------------------------- MODULE MCTftp -------------------------------
(* One transfer in each role, of files up to three blocks.                 *)
EXTENDS Tftp
=============================================================================
