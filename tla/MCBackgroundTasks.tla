-------------------------- MODULE MCBackgroundTasks --------------------------
(***************************************************************************)
(* Model of BackgroundTasks: a watched command and an agent, with calls    *)
(* that cancel either.                                                     *)
(***************************************************************************)
EXTENDS BackgroundTasks
=============================================================================
