----------------------------- MODULE MCQueryLoop -----------------------------
(* Small instances of QueryLoop, in the configurations that differ.         *)
EXTENDS QueryLoop

Anthropic == [path |-> "anthropic", reactive |-> FALSE, fallback |-> TRUE]
Reactive == [path |-> "anthropic", reactive |-> TRUE, fallback |-> FALSE]
Provider == [path |-> "provider", reactive |-> FALSE, fallback |-> FALSE]

All == {Anthropic, Reactive, Provider}
=============================================================================
