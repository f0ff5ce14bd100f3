----------------------------- MODULE MCGoalLoop ------------------------------
(* GoalLoop for two processes.  Each has its own part of the commands, so   *)
(* that those that race are given in different ones: a message or an audit  *)
(* starts a loop in the one, a new goal in the other, which may also pause, *)
(* resume and clear the goal while the first works on it.                   *)
EXTENDS GoalLoop, TLC

CONSTANTS r1, r2

MCRepl == {r1, r2}
MCCommands ==
  (r1 :> {"message", "audit"}) @@ (r2 :> {"set", "pause", "resume", "clear"})
=============================================================================
