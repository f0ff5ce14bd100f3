----------------------------- MODULE MCCronStore -----------------------------
(***************************************************************************)
(* Model of CronStore: a durable one-shot, a durable recurring task and a  *)
(* one-shot of the session, in two processes and a store of two tasks.     *)
(***************************************************************************)
EXTENDS CronStore, TLC

CONSTANTS p1, p2, dOnce, dDaily, sOnce

MCProc == {p1, p2}
MCTask == {dOnce, dDaily, sOnce}
MCDurable == {dOnce, dDaily}
MCOneShot == {dOnce, sOnce}

\* The processes are alike.
ProcSymmetry == Permutations(MCProc)

=============================================================================
