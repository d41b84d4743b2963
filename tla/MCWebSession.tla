----------------------------- MODULE MCWebSession -----------------------------
(***************************************************************************)
(* A plan with one form of each kind, so that a form is sent at once,      *)
(* after a page, and after a read that captures a hash of its own. Three   *)
(* faults: the session is lost before a form, again before its repetition  *)
(* and before the form that follows, and a driver fills its counter with a *)
(* lost answer after each refusal. Two restores, of the same file or of    *)
(* two, at any time between the operations, the second also while the      *)
(* first is still to be booted; two logins in a wait.                      *)
(***************************************************************************)
EXTENDS RestoreSession

MCSids == 1 .. 8

MCPlan == <<"add", "set", "delete">>
=============================================================================
