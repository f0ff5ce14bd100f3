---------------------------- MODULE MCConversation ----------------------------
(* What the user and the environment do.  In Goals messages of goals are    *)
(* taken back, in Store conversations are replaced; TurnsWithTools has      *)
(* neither.                                                                 *)
EXTENDS Conversation

Goals == [made |-> 4,
          does |-> {"goal", "fails", "interrupts", "remote", "compacts", "crashes"}]
Store == [made |-> 5,
          does |-> {"tools", "rewinds", "switches", "commands", "crashes", "interrupts"}]
TurnsWithTools == [made |-> 4, does |-> {"tools"}]

MCScenarios == {Goals, Store}
MCOnlyTools == {TurnsWithTools}
===============================================================================
