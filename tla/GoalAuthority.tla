---------------------------- MODULE GoalAuthority ----------------------------
(***************************************************************************)
(* What a captured goal turn promises, independently of who shares it and  *)
(* of how it observes the store: it works until it completes or loses its  *)
(* authority, it completes at most once, and only a completed turn answers *)
(* - once - which ends it.  GoalTurn implements this specification.        *)
(***************************************************************************)
CONSTANT Turn

VARIABLES
  live,          \* turns holding authority
  completed,     \* turns that completed their goal
  answered       \* turns whose one final response was delivered

vars == <<live, completed, answered>>

TypeOK == /\ live \subseteq Turn
          /\ completed \subseteq Turn
          /\ answered \subseteq completed

Init == live = {} /\ completed = {} /\ answered = {}

Begin(t) == /\ t \notin live \cup completed
            /\ live' = live \cup {t}
            /\ UNCHANGED <<completed, answered>>

Complete(t) == /\ t \in live \ completed
               /\ completed' = completed \cup {t}
               /\ UNCHANGED <<live, answered>>

Revoke(t) == /\ t \in live
             /\ live' = live \ {t}
             /\ UNCHANGED <<completed, answered>>

(* The response may finish after another holder observed a revocation. *)
Answer(t) == /\ t \in completed \ answered
             /\ answered' = answered \cup {t}
             /\ live' = live \ {t}
             /\ UNCHANGED completed

Next == \E t \in Turn : Begin(t) \/ Complete(t) \/ Revoke(t) \/ Answer(t)

Spec == Init /\ [][Next]_vars
=============================================================================
