----------------------- MODULE InteractiveSession_proofs -----------------------
(***************************************************************************)
(* Theorems about the event loop, for any texts, any number of automatic   *)
(* retries, both renderers and every set of features; but for              *)
(* NothingEnteredIsLost, which says which features it excludes.            *)
(*                                                                         *)
(* The invariant is SessionInv: the types, the owner of a running turn,    *)
(* the bound of the retries, and where a text of the local user may be;    *)
(* and KeptInv beside it, for what is not lost.                            *)
(***************************************************************************)
EXTENDS InteractiveSession, TLAPS

(* A text of the local user is at one place: in the prompt, once in the    *)
(* queue, or dispatched; and what is past the prompt was entered.          *)
OnePlace ==
  /\ \A i \in 1..Len(queue) : queue[i] \in entered
  /\ \A m \in Message : ran[m] <= 1 /\ (ran[m] > 0 => m \in entered)
  /\ \A m \in Message : prompt = m => ran[m] = 0 /\ \A i \in 1..Len(queue) : queue[i] # m
  /\ \A i \in 1..Len(queue) : queue[i] \in Message => ran[queue[i]] = 0
  /\ \A i, j \in 1..Len(queue) : i # j /\ queue[i] \in Message => queue[i] # queue[j]

SessionInv == TypeOK /\ AuthorityKept /\ RetriesBounded /\ OnePlace

-----------------------------------------------------------------------------
(* The recovery. *)

(* What each move of the recovery returns is a recovery that is armed only *)
(* with a retry left.                                                      *)
LEMMA RecoveryMoves ==
  ASSUME NEW r \in Recovery, r.armed => r.used < MaxAutoRetries
  PROVE  /\ Dismissed(r) \in Recovery /\ ~Dismissed(r).armed
         /\ Cleared(r) \in Recovery /\ ~Cleared(r).armed
         /\ \A o \in Origin : RetryRequested(r, o) \in Recovery /\ ~RetryRequested(r, o).armed
         /\ \A short \in BOOLEAN :
              /\ Opened(r, short) \in Recovery
              /\ Opened(r, short).armed => Opened(r, short).used < MaxAutoRetries
         /\ LET s == [r EXCEPT !.abandoned = FALSE] IN
              s \in Recovery /\ (s.armed => s.used < MaxAutoRetries)
         /\ LET s == [r EXCEPT !.used = 0] IN
              s \in Recovery /\ (s.armed => s.used < MaxAutoRetries)
         /\ LET s == [r EXCEPT !.pending = "none"] IN
              s \in Recovery /\ (s.armed => s.used < MaxAutoRetries)
         /\ r.armed => LET s == [RetryRequested(r, "timer") EXCEPT !.used = @ + 1] IN
              s \in Recovery /\ ~s.armed
<1>1. Dismissed(r) \in Recovery /\ ~Dismissed(r).armed
  BY RetryAssumption DEF Recovery, Dismissed, Origin
<1>2. Cleared(r) \in Recovery /\ ~Cleared(r).armed
  BY RetryAssumption DEF Recovery, Dismissed, Cleared, Origin
<1>3. \A o \in Origin : RetryRequested(r, o) \in Recovery /\ ~RetryRequested(r, o).armed
  BY RetryAssumption DEF Recovery, RetryRequested, Origin
<1>4. ASSUME NEW short \in BOOLEAN
      PROVE  /\ Opened(r, short) \in Recovery
             /\ Opened(r, short).armed => Opened(r, short).used < MaxAutoRetries
  BY <1>4, RetryAssumption DEF Recovery, Opened, MayArm, Origin
<1>5. LET s == [r EXCEPT !.abandoned = FALSE] IN
        s \in Recovery /\ (s.armed => s.used < MaxAutoRetries)
  BY RetryAssumption DEF Recovery, Origin
<1>6. LET s == [r EXCEPT !.used = 0] IN
        s \in Recovery /\ (s.armed => s.used < MaxAutoRetries)
  BY RetryAssumption DEF Recovery, Origin
<1>7. LET s == [r EXCEPT !.pending = "none"] IN
        s \in Recovery /\ (s.armed => s.used < MaxAutoRetries)
  BY RetryAssumption DEF Recovery, Origin
<1>8. ASSUME r.armed
      PROVE  LET s == [RetryRequested(r, "timer") EXCEPT !.used = @ + 1] IN
               s \in Recovery /\ ~s.armed
  <2> DEFINE t == RetryRequested(r, "timer")
             n == r.used + 1
  <2>1. t \in Recovery /\ ~t.armed /\ t.used = r.used
    BY <1>3 DEF Recovery, RetryRequested, Origin
  <2>2. n \in 0..MaxAutoRetries
    BY <1>8, RetryAssumption DEF Recovery
  <2> HIDE DEF n
  <2>3. [t EXCEPT !.used = n] \in Recovery /\ ~[t EXCEPT !.used = n].armed
    BY <2>1, <2>2 DEF Recovery
  <2> USE DEF n
  <2>4. [t EXCEPT !.used = @ + 1] = [t EXCEPT !.used = n]
    BY <2>1
  <2>5. QED
    BY <2>3, <2>4
<1>9. QED
  BY <1>1, <1>2, <1>3, <1>4, <1>5, <1>6, <1>7, <1>8

(* Every step keeps the recovery and the bound of its retries. *)
LEMMA RecoveryStep ==
  ASSUME TypeOK, RetriesBounded, [Next]_vars
  PROVE  recovery' \in Recovery /\ RetriesBounded'
<1> USE DEF RetriesBounded
<1>0. recovery \in Recovery
  BY DEF TypeOK
<1>1. ASSUME UNCHANGED recovery PROVE recovery' \in Recovery /\ RetriesBounded'
  BY <1>0, <1>1
<1>2. ASSUME recovery' = Dismissed(recovery) PROVE recovery' \in Recovery /\ RetriesBounded'
  BY <1>0, <1>2, RecoveryMoves
<1>3. ASSUME NEW x, Submit(x) PROVE recovery' \in Recovery /\ RetriesBounded'
  BY <1>0, <1>3, RecoveryMoves DEF Submit
<1>4. ASSUME Enter PROVE recovery' \in Recovery /\ RetriesBounded'
  <2>1. CASE EnterModal
    <3>1. PICK o \in Origin : recovery' = RetryRequested(recovery, o)
      BY <2>1 DEF EnterModal, Origin
    <3>2. QED
      BY <1>0, <3>1, RecoveryMoves
  <2>2. CASE EnterBusy \/ EnterEmpty
    BY <1>1, <2>2 DEF EnterBusy, EnterEmpty
  <2>3. CASE EnterIdle
    BY <1>3, <2>3 DEF EnterIdle
  <2>4. QED
    BY <1>4, <2>1, <2>2, <2>3 DEF Enter
<1>5. ASSUME Escape PROVE recovery' \in Recovery /\ RetriesBounded'
  BY <1>1, <1>2, <1>5 DEF Escape
<1>6. ASSUME Settle PROVE recovery' \in Recovery /\ RetriesBounded'
  BY <1>0, <1>6, RecoveryMoves DEF Settle
<1>7. ASSUME Bridge PROVE recovery' \in Recovery /\ RetriesBounded'
  BY <1>1, <1>3, <1>7 DEF Bridge
<1>8. ASSUME Tick PROVE recovery' \in Recovery /\ RetriesBounded'
  <2>1. CASE UNCHANGED recovery
    BY <1>1, <2>1
  <2>2. CASE ~UNCHANGED recovery
    BY <1>0, <1>8, <2>2, RecoveryMoves DEF Tick
  <2>3. QED
    BY <2>1, <2>2
<1>9. ASSUME Retry PROVE recovery' \in Recovery /\ RetriesBounded'
  BY <1>0, <1>9, RecoveryMoves DEF Retry
<1>10. ASSUME Cancel PROVE recovery' \in Recovery /\ RetriesBounded'
  BY <1>1, <1>2, <1>10 DEF Cancel
<1>11. ASSUME FinishTask PROVE recovery' \in Recovery /\ RetriesBounded'
  <2>1. recovery' \in RecoveryAfter(recovery)
    BY <1>11 DEF FinishTask
  <2>2. \/ \E short \in BOOLEAN : recovery' = Opened(recovery, short)
        \/ recovery' = [recovery EXCEPT !.used = 0]
        \/ recovery' = recovery
    BY <2>1 DEF RecoveryAfter
  <2>3. QED
    BY <1>0, <2>2, RecoveryMoves
<1>12. ASSUME NoKey \/ Drain \/ FrameEnds \/ Disconnect \/ HungUp
       PROVE  recovery' \in Recovery /\ RetriesBounded'
  BY <1>1, <1>12 DEF NoKey, Drain, FrameEnds, Disconnect, HungUp
<1>13. ASSUME Interrupt \/ RemoteCancel PROVE recovery' \in Recovery /\ RetriesBounded'
  BY <1>2, <1>13 DEF Interrupt, RemoteCancel
<1>14. ASSUME Task PROVE recovery' \in Recovery /\ RetriesBounded'
  BY <1>1, <1>14 DEF Task, Emit, EndTurn, EndEarly, TaskStep
<1>15. ASSUME NEW x, Type(x) \/ Receive(x) PROVE recovery' \in Recovery /\ RetriesBounded'
  BY <1>1, <1>15 DEF Type, Receive
<1>16. QED
  BY <1>1, <1>4, <1>5, <1>6, <1>7, <1>8, <1>9, <1>10, <1>11, <1>12, <1>13, <1>14, <1>15
  DEF Next, Loop, UserKey, vars

-----------------------------------------------------------------------------
(* The types. *)

TextTypes ==
  /\ prompt \in Text \cup {Empty} /\ queue \in Seq(Text) /\ remote \in Seq(Remote)
  /\ connected \in BOOLEAN
  /\ entered \subseteq Text /\ sent \subseteq Remote /\ ran \in [Text -> 0..2]

LoopTypes ==
  /\ phase \in Phase /\ autoSubmit \in BOOLEAN /\ isStreaming \in BOOLEAN
  /\ query \in [kind : Kind, status : {"running"} \cup Outcome]
  /\ cancelled \in BOOLEAN /\ undrained \in {"nothing", "streaming", "stopped"}
  /\ displaced \in BOOLEAN
  /\ owner \in {"none", "held", "abandoned"}
  /\ cancellation \in {"Idle", "Requested", "AwaitingRuntime"}
  /\ full \in BOOLEAN /\ autoCompact \in BOOLEAN

(* Texts stay texts, in the prompt, in the queues and in the history. *)
LEMMA TextStep ==
  ASSUME TypeOK, [Next]_vars
  PROVE  TextTypes'
<1>0. TextTypes
  BY DEF TypeOK, TextTypes
<1>1. ASSUME UNCHANGED <<prompt, queue, remoteVars, entered, sent, ran>> PROVE TextTypes'
  BY <1>0, <1>1 DEF TextTypes, remoteVars
<1>2. ASSUME NEW x \in Text, Submit(x) PROVE ran' \in [Text -> 0..2]
  BY <1>0, <1>2 DEF Submit, TextTypes
<1>3. ASSUME NEW m \in Message, Type(m) PROVE TextTypes'
  BY <1>0, <1>3 DEF TextTypes, Type, Text, remoteVars, historyVars
<1>4. ASSUME Enter PROVE TextTypes'
  <2>1. CASE EnterModal \/ EnterEmpty
    BY <1>1, <1>4, <2>1 DEF Enter, EnterModal, EnterEmpty, remoteVars, historyVars
  <2>2. CASE EnterBusy
    <3>1. UNCHANGED <<remoteVars, sent, ran>> /\ prompt' = Empty
      BY <1>4, <2>2 DEF Enter, EnterBusy
    <3>2. queue' \in Seq(Text) /\ entered' \subseteq Text
      BY <1>0, <2>2 DEF EnterBusy, TextTypes
    <3>3. QED
      BY <1>0, <3>1, <3>2 DEF TextTypes, remoteVars
  <2>3. CASE EnterIdle
    <3>1. prompt \in Text
      BY <1>0, <2>3 DEF EnterIdle, TextTypes
    <3>2. ran' \in [Text -> 0..2]
      BY <1>2, <2>3, <3>1 DEF EnterIdle
    <3>3. QED
      BY <1>0, <1>4, <2>3, <3>1, <3>2 DEF Enter, EnterIdle, TextTypes, remoteVars
  <2>4. QED
    BY <1>4, <2>1, <2>2, <2>3 DEF Enter
<1>5. ASSUME Interrupt PROVE TextTypes'
  BY <1>0, <1>5 DEF Interrupt, TextTypes, remoteVars, historyVars
<1>6. ASSUME Bridge PROVE TextTypes'
  <2>1. CASE remote # <<>> /\ ~isStreaming /\ Idle
    <3>1. Head(remote) \in Remote /\ Tail(remote) \in Seq(Remote)
      BY <1>0, <2>1 DEF TextTypes
    <3>2. Head(remote) \in Text
      BY <3>1 DEF Text
    <3>3. ran' \in [Text -> 0..2]
      BY <1>2, <1>6, <2>1, <3>2 DEF Bridge
    <3>4. QED
      BY <1>0, <1>6, <2>1, <3>1, <3>2, <3>3 DEF Bridge, TextTypes, remoteVars
  <2>2. CASE ~(remote # <<>> /\ ~isStreaming /\ Idle)
    BY <1>1, <1>6, <2>2 DEF Bridge, remoteVars
  <2>3. QED
    BY <2>1, <2>2
<1>7. ASSUME FinishTask PROVE TextTypes'
  <2>1. UNCHANGED <<remoteVars, entered, sent, ran>>
    BY <1>7 DEF FinishTask, remoteVars, historyVars
  <2>2. prompt' \in Text \cup {Empty} /\ queue' \in Seq(Text)
    <3>1. NextQueued /\ prompt \in Text \cup {Empty} /\ queue \in Seq(Text)
      BY <1>0, <1>7 DEF FinishTask, TextTypes
    <3>2. QED
      BY ONLY <3>1 DEF NextQueued, inputVars
  <2>3. QED
    BY <1>0, <2>1, <2>2 DEF TextTypes, remoteVars
<1>8. ASSUME NEW x \in Remote, Receive(x) PROVE TextTypes'
  BY <1>0, <1>8 DEF Receive, TextTypes, inputVars
<1>9. ASSUME NoKey \/ Escape \/ Drain \/ Settle \/ Tick \/ Retry \/ Cancel \/ FrameEnds
             \/ RemoteCancel \/ Task
      PROVE  TextTypes'
  BY <1>1, <1>9 DEF NoKey, Escape, Drain, Settle, Tick, Retry, Cancel, FrameEnds,
     RemoteCancel, Task, Emit, EndTurn, EndEarly, TaskStep, inputVars, remoteVars, historyVars
<1>10. ASSUME Disconnect \/ HungUp PROVE TextTypes'
  <2>1. UNCHANGED <<prompt, queue, entered, sent, ran>> /\ remote' = <<>>
    BY <1>10 DEF Disconnect, HungUp, inputVars, historyVars
  <2>2. connected' \in BOOLEAN
    BY <1>0, <1>10 DEF Disconnect, HungUp, TextTypes
  <2>3. remote' \in Seq(Remote)
    BY <2>1
  <2>4. QED
    BY <1>0, <2>1, <2>2, <2>3 DEF TextTypes
<1>11. QED
  BY <1>1, <1>3, <1>4, <1>5, <1>6, <1>7, <1>8, <1>9, <1>10
  DEF Next, Loop, UserKey, vars, inputVars, remoteVars, historyVars

(* The state of the loop and of its task keeps its types. *)
LEMMA LoopStepTypes ==
  ASSUME TypeOK, [Next]_vars
  PROVE  LoopTypes'
<1>0. LoopTypes
  BY DEF TypeOK, LoopTypes
<1>1. ASSUME UNCHANGED <<autoSubmit, isStreaming, taskVars, owner, cancellation, full,
                         autoCompact>>,
             phase' \in Phase
      PROVE  LoopTypes'
  BY <1>0, <1>1 DEF LoopTypes, taskVars
<1>2. ASSUME NEW kind \in Kind, Spawn(kind)
      PROVE  /\ query' \in [kind : Kind, status : {"running"} \cup Outcome]
             /\ cancelled' \in BOOLEAN /\ isStreaming' \in BOOLEAN
             /\ undrained' \in {"nothing", "streaming", "stopped"} /\ displaced' \in BOOLEAN
  BY <1>0, <1>2 DEF LoopTypes, Spawn, Start
<1>3. ASSUME Abandon
      PROVE  /\ query' \in [kind : Kind, status : {"running"} \cup Outcome]
             /\ cancelled' \in BOOLEAN /\ owner' \in {"none", "held", "abandoned"}
             /\ undrained' \in {"nothing", "streaming", "stopped"} /\ displaced' \in BOOLEAN
  BY <1>0, <1>3 DEF LoopTypes, Abandon
<1>4. ASSUME Enter PROVE LoopTypes'
  <2>1. UNCHANGED <<cancellation, full, autoCompact>> /\ autoSubmit' \in BOOLEAN
    BY <1>0, <1>4 DEF Enter, LoopTypes
  <2>2. CASE EnterModal \/ EnterBusy \/ EnterEmpty
    BY <1>0, <2>1, <2>2 DEF EnterModal, EnterBusy, EnterEmpty, LoopTypes, Phase, taskVars
  <2>3. CASE EnterIdle
    <3>1. Spawn("turn") /\ owner' = "held" /\ phase' = "input"
      BY <2>3 DEF EnterIdle, Submit
    <3>2. QED
      BY <1>0, <1>2, <2>1, <3>1 DEF LoopTypes, Kind, Phase
  <2>4. QED
    BY <1>4, <2>2, <2>3 DEF Enter
<1>5. ASSUME Escape PROVE LoopTypes'
  <2>1. /\ phase' \in Phase /\ isStreaming' \in BOOLEAN
        /\ cancellation' \in {"Idle", "Requested", "AwaitingRuntime"}
    BY <1>0, <1>5 DEF Escape, Requested, LoopTypes, Phase
  <2>2. UNCHANGED <<autoSubmit, query, cancelled, undrained, displaced, owner, full, autoCompact>>
    BY <1>5 DEF Escape, inputVars, taskVars
  <2>3. QED
    BY <1>0, <2>1, <2>2 DEF LoopTypes
<1>6. ASSUME Interrupt PROVE LoopTypes'
  BY <1>0, <1>3, <1>6 DEF Interrupt, LoopTypes, Phase
<1>7. ASSUME Drain PROVE LoopTypes'
  BY <1>0, <1>7 DEF Drain, LoopTypes, Phase, inputVars
<1>8. ASSUME Settle PROVE LoopTypes'
  <2>1. UNCHANGED <<autoSubmit, cancellation, full, autoCompact>> /\ phase' = "bridge"
    BY <1>8 DEF Settle, inputVars
  <2>2. CASE Spawn("compact") /\ owner' = "none"
    BY <1>0, <1>2, <2>1, <2>2 DEF LoopTypes, Kind, Phase
  <2>3. CASE owner' = Settled /\ UNCHANGED <<taskVars, isStreaming>>
    BY <1>0, <2>1, <2>3 DEF LoopTypes, Settled, Phase, taskVars
  <2>4. QED
    BY <1>8, <2>2, <2>3 DEF Settle
<1>9. ASSUME Bridge PROVE LoopTypes'
  <2>1. UNCHANGED <<autoSubmit, cancellation, full, autoCompact>> /\ phase' = "tick"
    BY <1>9 DEF Bridge
  <2>2. CASE Submit(Head(remote))
    BY <1>0, <1>2, <2>1, <2>2 DEF LoopTypes, Submit, Kind, Phase
  <2>3. CASE UNCHANGED <<taskVars, isStreaming, owner>>
    BY <1>0, <2>1, <2>3 DEF LoopTypes, Phase, taskVars
  <2>4. QED
    BY <1>9, <2>2, <2>3 DEF Bridge
<1>10. ASSUME RemoteCancel PROVE LoopTypes'
  BY <1>0, <1>3, <1>10 DEF RemoteCancel, LoopTypes, inputVars
<1>11. ASSUME Retry PROVE LoopTypes'
  <2>1. UNCHANGED <<autoSubmit, owner, cancellation, full, autoCompact>> /\ phase' = "cancel"
    BY <1>11 DEF Retry, inputVars
  <2>2. CASE Spawn("turn")
    BY <1>0, <1>2, <2>1, <2>2 DEF LoopTypes, Kind, Phase
  <2>3. CASE UNCHANGED <<taskVars, isStreaming>>
    BY <1>0, <2>1, <2>3 DEF LoopTypes, Phase, taskVars
  <2>4. QED
    BY <1>11, <2>2, <2>3 DEF Retry
<1>12. ASSUME Cancel PROVE LoopTypes'
  <2>1. UNCHANGED <<autoSubmit, isStreaming, full, autoCompact>> /\ phase' = "finish"
    BY <1>12 DEF Cancel, inputVars
  <2>2. cancellation' \in {"Idle", "Requested", "AwaitingRuntime"}
    BY <1>0, <1>12 DEF Cancel, LoopTypes
  <2>3. CASE Abandon
    BY <1>0, <1>3, <2>1, <2>2, <2>3 DEF LoopTypes, Phase
  <2>4. CASE UNCHANGED <<owner, taskVars>>
    BY <1>0, <2>1, <2>2, <2>4 DEF LoopTypes, Phase, taskVars
  <2>5. QED
    BY <1>12, <2>3, <2>4 DEF Cancel
<1>13. ASSUME FinishTask PROVE LoopTypes'
  <2>1. phase' = "input" /\ full' \in BOOLEAN /\ autoCompact' \in BOOLEAN
    BY <1>0, <1>13 DEF FinishTask, LoopTypes
  <2>2. autoSubmit' \in BOOLEAN /\ cancellation' \in {"Idle", "Requested", "AwaitingRuntime"}
    BY <1>0, <1>13 DEF FinishTask, NextQueued, Confirmed, LoopTypes, inputVars
  <2>3. CASE Continues
    BY <1>0, <2>1, <2>2, <2>3 DEF Continues, Start, LoopTypes, Phase, Kind
  <2>4. CASE Releases
    BY <1>0, <2>1, <2>2, <2>4 DEF Releases, NoQuery, LoopTypes, Phase, Kind
  <2>5. QED
    BY <1>13, <2>3, <2>4 DEF FinishTask
<1>14. ASSUME FrameEnds PROVE LoopTypes'
  BY <1>0, <1>14 DEF FrameEnds, Confirmed, LoopTypes, Phase, inputVars
<1>15. ASSUME Task PROVE LoopTypes'
  <2>1. UNCHANGED <<phase, autoSubmit, isStreaming, cancelled, displaced, owner,
                    cancellation, full, autoCompact>>
    BY <1>15 DEF Task, Emit, EndTurn, EndEarly, TaskStep, inputVars
  <2>2. /\ query' \in [kind : Kind, status : {"running"} \cup Outcome]
        /\ undrained' \in {"nothing", "streaming", "stopped"}
    BY <1>0, <1>15 DEF Task, Emit, EndTurn, EndEarly, LoopTypes, Outcome
  <2>3. QED
    BY <1>0, <2>1, <2>2 DEF LoopTypes
<1>16. ASSUME NoKey \/ Tick \/ Disconnect \/ HungUp PROVE LoopTypes'
  BY <1>1, <1>16 DEF NoKey, Tick, Disconnect, HungUp, Phase, inputVars
<1>17. ASSUME NEW x, Type(x) \/ Receive(x) PROVE LoopTypes'
  BY <1>0, <1>1, <1>17 DEF Type, Receive, Phase, inputVars, LoopTypes
<1>18. CASE UNCHANGED vars
  BY <1>0, <1>1, <1>18 DEF vars, inputVars, LoopTypes
<1>19. QED
  BY <1>4, <1>5, <1>6, <1>7, <1>8, <1>9, <1>10, <1>11, <1>12, <1>13, <1>14, <1>15,
     <1>16, <1>17, <1>18
  DEF Next, Loop, UserKey

(* The initial state has the invariant. *)
LEMMA SessionInit == Init => SessionInv
<1> SUFFICES ASSUME Init PROVE SessionInv
  OBVIOUS
<1>1. recovery \in Recovery
  BY RetryAssumption DEF Init, Recovery, Origin
<1>2. TypeOK
  <2>1. TextTypes
    BY DEF Init, TextTypes
  <2>2. LoopTypes
    BY DEF Init, LoopTypes, NoQuery, Phase, Kind
  <2>3. QED
    BY <1>1, <2>1, <2>2 DEF TypeOK, TextTypes, LoopTypes
<1>3. AuthorityKept /\ RetriesBounded
  BY DEF Init, AuthorityKept, RetriesBounded, NoQuery
<1>4. OnePlace
  BY TextAssumption DEF Init, OnePlace, Text
<1>5. QED
  BY <1>2, <1>3, <1>4 DEF SessionInv

-----------------------------------------------------------------------------
(* The owner of the turn. *)

(* A turn is spawned for a holder, an abandoned turn gives its authority   *)
(* up only when its task is gone, and a task that ends keeps its kind.     *)
LEMMA AuthorityStep ==
  ASSUME TypeOK, AuthorityKept, [Next]_vars
  PROVE  AuthorityKept'
<1>0. query \in [kind : Kind, status : {"running"} \cup Outcome]
  BY DEF TypeOK
<1>1. ASSUME UNCHANGED <<query, owner>> PROVE AuthorityKept'
  BY <1>1 DEF AuthorityKept
<1>2. ASSUME Abandon PROVE AuthorityKept'
  BY <1>2 DEF Abandon, AuthorityKept
<1>3. ASSUME NEW x, Submit(x) PROVE AuthorityKept'
  BY <1>3 DEF Submit, AuthorityKept
<1>4. ASSUME Enter PROVE AuthorityKept'
  BY <1>1, <1>3, <1>4 DEF Enter, EnterModal, EnterBusy, EnterIdle, EnterEmpty, taskVars
<1>5. ASSUME Settle PROVE AuthorityKept'
  <2>1. CASE Spawn("compact")
    BY <2>1 DEF Spawn, Start, AuthorityKept
  <2>2. CASE owner' = Settled /\ UNCHANGED query
    BY <2>2 DEF Settled, Idle, AuthorityKept
  <2>3. QED
    BY <1>5, <2>1, <2>2 DEF Settle, taskVars
<1>6. ASSUME Bridge PROVE AuthorityKept'
  BY <1>1, <1>3, <1>6 DEF Bridge, taskVars
<1>7. ASSUME Retry PROVE AuthorityKept'
  <2>1. CASE owner = "held"
    BY <1>7, <2>1 DEF Retry, AuthorityKept
  <2>2. CASE owner # "held"
    BY <1>1, <1>7, <2>2 DEF Retry, taskVars
  <2>3. QED
    BY <2>1, <2>2
<1>8. ASSUME Cancel PROVE AuthorityKept'
  BY <1>1, <1>2, <1>8 DEF Cancel, taskVars
<1>9. ASSUME FinishTask PROVE AuthorityKept'
  BY <1>9 DEF FinishTask, Continues, Start, Releases, NoQuery, AuthorityKept
<1>10. ASSUME Interrupt \/ RemoteCancel PROVE AuthorityKept'
  BY <1>2, <1>10 DEF Interrupt, RemoteCancel
<1>11. ASSUME Task PROVE AuthorityKept'
  <2>1. UNCHANGED owner /\ query'.kind = query.kind
    BY <1>0, <1>11 DEF Task, Emit, EndTurn, EndEarly, TaskStep
  <2>2. QED
    BY <2>1 DEF AuthorityKept
<1>12. ASSUME NoKey \/ Escape \/ Drain \/ Tick \/ FrameEnds \/ Disconnect \/ HungUp
       PROVE  AuthorityKept'
  BY <1>1, <1>12 DEF NoKey, Escape, Drain, Tick, FrameEnds, Disconnect, HungUp, taskVars
<1>13. ASSUME NEW x, Type(x) \/ Receive(x) PROVE AuthorityKept'
  BY <1>1, <1>13 DEF Type, Receive, taskVars
<1>14. QED
  BY <1>1, <1>4, <1>5, <1>6, <1>7, <1>8, <1>9, <1>10, <1>11, <1>12, <1>13
  DEF Next, Loop, UserKey, vars, taskVars

-----------------------------------------------------------------------------
(* The texts of the local user. *)

(* Entering a text that cannot run yet moves it to the end of the queue.   *)
LEMMA QueuedOnce ==
  ASSUME TextTypes, OnePlace, prompt # Empty, queue' = Append(queue, prompt),
         entered' = entered \cup {prompt}, prompt' = Empty, UNCHANGED ran
  PROVE  OnePlace'
<1>1. /\ prompt \in Text
      /\ Len(queue') = Len(queue) + 1 /\ queue'[Len(queue) + 1] = prompt
      /\ Len(queue) \in Nat /\ \A i \in 1..Len(queue) : queue'[i] = queue[i]
  BY DEF TextTypes
<1>2. \A i \in 1..Len(queue') :
        \/ i = Len(queue) + 1 /\ queue'[i] = prompt
        \/ i \in 1..Len(queue) /\ queue'[i] = queue[i]
  BY <1>1
<1>3. \A i \in 1..Len(queue') : queue'[i] \in entered'
  BY <1>2 DEF OnePlace
<1>4. \A m \in Message : ran'[m] <= 1 /\ (ran'[m] > 0 => m \in entered')
  BY DEF OnePlace
<1>5. \A m \in Message : prompt' # m
  BY TextAssumption DEF Text
<1>6. \A i \in 1..Len(queue') : queue'[i] \in Message => ran'[queue'[i]] = 0
  BY <1>2 DEF OnePlace
<1>7. ASSUME NEW i \in 1..Len(queue'), NEW j \in 1..Len(queue'), i # j, queue'[i] \in Message
      PROVE  queue'[i] # queue'[j]
  BY <1>2, <1>7 DEF OnePlace
<1>8. QED
  BY <1>3, <1>4, <1>5, <1>6, <1>7 DEF OnePlace

(* Dispatching a text moves it out of the prompt, where it was once.       *)
LEMMA RunOnce ==
  ASSUME TextTypes, OnePlace, NEW x \in Text, Submit(x), UNCHANGED queue,
         \/ x = prompt /\ prompt' = Empty /\ entered' = entered \cup {x}
         \/ x \in Remote /\ prompt' = x /\ entered' = entered
  PROVE  OnePlace'
<1>1. \A y \in Text : ran[y] \in 0..2 /\ ran'[y] \in 0..2
  <2>1. ran' = [ran EXCEPT ![x] = IF @ = 2 THEN 2 ELSE @ + 1]
    BY DEF Submit
  <2>2. QED
    BY <2>1 DEF TextTypes
<1>2. \A y \in Text \ {x} : ran'[y] = ran[y]
  BY DEF Submit, TextTypes
<1>3. Message \subseteq Text /\ (x \in Remote => x \notin Message)
  BY TextAssumption DEF Text
<1>4. \A m \in Message : prompt' # m
  BY <1>3, TextAssumption
<1>5. x \in Message => prompt = x /\ ran[x] = 0 /\ ran'[x] = 1 /\ x \in entered'
                       /\ \A i \in 1..Len(queue) : queue[i] # x
  BY <1>3 DEF OnePlace, Submit, TextTypes
<1>6. \A i \in 1..Len(queue') : queue'[i] \in entered'
  BY DEF OnePlace
<1>7. \A m \in Message : ran'[m] <= 1 /\ (ran'[m] > 0 => m \in entered')
  <2> SUFFICES ASSUME NEW m \in Message
               PROVE  ran'[m] <= 1 /\ (ran'[m] > 0 => m \in entered')
    OBVIOUS
  <2>1. CASE m = x
    BY <1>5, <2>1
  <2>2. CASE m # x
    BY <1>2, <1>3, <2>2 DEF OnePlace
  <2>3. QED
    BY <2>1, <2>2
<1>8. \A i \in 1..Len(queue') : queue'[i] \in Message => ran'[queue'[i]] = 0
  BY <1>2, <1>3, <1>5 DEF OnePlace
<1>9. \A i, j \in 1..Len(queue') : i # j /\ queue'[i] \in Message => queue'[i] # queue'[j]
  BY DEF OnePlace
<1>10. QED
  BY <1>4, <1>6, <1>7, <1>8, <1>9 DEF OnePlace

(* A queued text that comes back to the prompt has left the queue.         *)
LEMMA PoppedOnce ==
  ASSUME TextTypes, OnePlace, queue # <<>>, prompt' = Head(queue), queue' = Tail(queue),
         UNCHANGED <<ran, entered>>
  PROVE  OnePlace'
<1>1. /\ Len(queue) \in Nat /\ Len(queue) > 0 /\ Len(queue') = Len(queue) - 1
      /\ prompt' = queue[1]
      /\ \A i \in 1..Len(queue') : queue'[i] = queue[i + 1]
  BY DEF TextTypes
<1>2. 1 \in 1..Len(queue) /\ \A i \in 1..Len(queue') : i + 1 \in 1..Len(queue) /\ i + 1 # 1
  BY <1>1
<1>3. \A i \in 1..Len(queue') : queue'[i] \in entered'
  BY <1>1, <1>2 DEF OnePlace
<1>4. \A m \in Message : ran'[m] <= 1 /\ (ran'[m] > 0 => m \in entered')
  BY DEF OnePlace
<1>5. \A m \in Message : prompt' = m => ran'[m] = 0 /\ \A i \in 1..Len(queue') : queue'[i] # m
  BY <1>1, <1>2 DEF OnePlace
<1>6. \A i \in 1..Len(queue') : queue'[i] \in Message => ran'[queue'[i]] = 0
  BY <1>1, <1>2 DEF OnePlace
<1>7. ASSUME NEW i \in 1..Len(queue'), NEW j \in 1..Len(queue'), i # j, queue'[i] \in Message
      PROVE  queue'[i] # queue'[j]
  <2>1. i + 1 # j + 1
    BY <1>1, <1>7
  <2>2. QED
    BY <1>1, <1>2, <1>7, <2>1 DEF OnePlace
<1>8. QED
  BY <1>3, <1>4, <1>5, <1>6, <1>7 DEF OnePlace

(* No step gives a text of the local user a second place. *)
LEMMA OnePlaceStep ==
  ASSUME TypeOK, OnePlace, [Next]_vars
  PROVE  OnePlace'
<1>0. TextTypes
  BY DEF TypeOK, TextTypes
<1>1. ASSUME UNCHANGED <<prompt, queue, entered, ran>> PROVE OnePlace'
  BY <1>1 DEF OnePlace
<1>2. ASSUME prompt' = Empty, UNCHANGED <<queue, entered, ran>> PROVE OnePlace'
  BY <1>2, TextAssumption DEF OnePlace, Text
<1>3. ASSUME NEW m \in Message, Type(m) PROVE OnePlace'
  <2>1. m \notin entered /\ prompt' = m /\ UNCHANGED <<queue, entered, ran>>
    BY <1>3 DEF Type, remoteVars, historyVars
  <2>2. ran[m] = 0
    BY <1>0, <2>1 DEF OnePlace, TextTypes, Text
  <2>3. QED
    BY <2>1, <2>2 DEF OnePlace
<1>4. ASSUME Enter PROVE OnePlace'
  <2>1. CASE EnterModal \/ EnterEmpty
    BY <1>1, <2>1 DEF EnterModal, EnterEmpty, remoteVars, historyVars
  <2>2. CASE EnterBusy
    <3>1. CASE prompt = Empty
      BY <1>2, <2>2, <3>1 DEF EnterBusy
    <3>2. CASE prompt # Empty
      BY <1>0, <2>2, <3>2, QueuedOnce DEF EnterBusy
    <3>3. QED
      BY <3>1, <3>2
  <2>3. CASE EnterIdle
    <3>1. prompt \in Text
      BY <1>0, <2>3 DEF EnterIdle, TextTypes
    <3>2. QED
      BY <1>0, <2>3, <3>1, RunOnce DEF EnterIdle
  <2>4. QED
    BY <1>4, <2>1, <2>2, <2>3 DEF Enter
<1>5. ASSUME Interrupt PROVE OnePlace'
  BY <1>1, <1>2, <1>5 DEF Interrupt, remoteVars, historyVars
<1>6. ASSUME Bridge PROVE OnePlace'
  <2>1. CASE remote # <<>> /\ ~isStreaming /\ Idle
    <3>1. Head(remote) \in Remote /\ Head(remote) \in Text
      BY <1>0, <2>1 DEF TextTypes, Text
    <3>2. QED
      BY <1>0, <1>6, <2>1, <3>1, RunOnce DEF Bridge
  <2>2. CASE ~(remote # <<>> /\ ~isStreaming /\ Idle)
    BY <1>1, <1>6, <2>2 DEF Bridge
  <2>3. QED
    BY <2>1, <2>2
<1>7. ASSUME FinishTask PROVE OnePlace'
  <2>1. UNCHANGED <<entered, ran>>
    BY <1>7 DEF FinishTask, remoteVars, historyVars
  <2>2. CASE queue = <<>>
    BY <1>1, <1>7, <2>1, <2>2 DEF FinishTask, NextQueued, inputVars
  <2>3. CASE queue # <<>>
    BY <1>0, <1>7, <2>1, <2>3, PoppedOnce DEF FinishTask, NextQueued
  <2>4. QED
    BY <2>2, <2>3
<1>8. ASSUME NoKey \/ Escape \/ Drain \/ Settle \/ Tick \/ Retry \/ Cancel \/ FrameEnds
             \/ RemoteCancel \/ Disconnect \/ HungUp \/ Task
      PROVE  OnePlace'
  BY <1>1, <1>8 DEF NoKey, Escape, Drain, Settle, Tick, Retry, Cancel, FrameEnds,
     RemoteCancel, Disconnect, HungUp, Task, Emit, EndTurn, EndEarly, TaskStep, inputVars, remoteVars, historyVars
<1>9. ASSUME NEW x, Receive(x) PROVE OnePlace'
  BY <1>1, <1>9 DEF Receive, inputVars
<1>10. QED
  BY <1>1, <1>3, <1>4, <1>5, <1>6, <1>7, <1>8, <1>9
  DEF Next, Loop, UserKey, vars, inputVars, remoteVars, historyVars

-----------------------------------------------------------------------------
(* The theorems. *)

(* SessionInv is an invariant of the event loop. *)
THEOREM SessionInvariant == Spec => []SessionInv
<1>1. Init => SessionInv
  BY SessionInit
<1>2. SessionInv /\ [Next]_vars => SessionInv'
  <2> SUFFICES ASSUME SessionInv, [Next]_vars PROVE SessionInv'
    OBVIOUS
  <2>1. TypeOK /\ AuthorityKept /\ RetriesBounded /\ OnePlace
    BY DEF SessionInv
  <2>2. TextTypes' /\ LoopTypes' /\ recovery' \in Recovery /\ RetriesBounded'
    BY <2>1, TextStep, LoopStepTypes, RecoveryStep
  <2>3. TypeOK'
    BY <2>2 DEF TypeOK, TextTypes, LoopTypes
  <2>4. AuthorityKept' /\ OnePlace'
    BY <2>1, AuthorityStep, OnePlaceStep
  <2>5. QED
    BY <2>2, <2>3, <2>4 DEF SessionInv
<1>3. QED
  BY <1>1, <1>2, PTL DEF Spec

(* While the task of a turn works, the turn that owns it is known. *)
THEOREM TurnsKeepTheirOwner == Spec => []AuthorityKept
<1>1. SessionInv => AuthorityKept
  BY DEF SessionInv
<1>2. QED
  BY <1>1, SessionInvariant, PTL

(* The countdown is armed only with a retry left: at most MaxAutoRetries   *)
(* of an episode start without the user.                                   *)
THEOREM AutoRetriesAreBounded == Spec => []RetriesBounded
<1>1. SessionInv => RetriesBounded
  BY DEF SessionInv
<1>2. QED
  BY <1>1, SessionInvariant, PTL

(* However a text is queued, popped and queued again, it is dispatched at  *)
(* most once, for any number of texts.                                     *)
THEOREM NoTextRunsTwice == Spec => []MessagesRunOnce
<1>1. SessionInv => MessagesRunOnce
  BY DEF SessionInv, OnePlace, MessagesRunOnce
<1>2. QED
  BY <1>1, SessionInvariant, PTL

(* Whatever spawns a query finds current_query empty: no task is displaced  *)
(* before its outcome was looked at.                                       *)
THEOREM OneQueryAtATime == Spec => []SingleFlight
<1>1. Init => SingleFlight
  BY DEF Init, SingleFlight
<1>2. SingleFlight /\ [Next]_vars => SingleFlight'
  <2> SUFFICES ASSUME ~displaced, [Next]_vars PROVE ~displaced'
    BY DEF SingleFlight
  <2>1. CASE Enter
    BY <2>1 DEF Enter, EnterModal, EnterBusy, EnterIdle, EnterEmpty, Submit, Spawn, taskVars
  <2>2. CASE Settle
    BY <2>2 DEF Settle, Spawn, taskVars
  <2>3. CASE Bridge
    BY <2>3 DEF Bridge, Submit, Spawn, taskVars
  <2>4. CASE Retry
    BY <2>4 DEF Retry, Spawn, taskVars
  <2>5. CASE FinishTask
    BY <2>5 DEF FinishTask, Continues, Releases
  <2>6. CASE Task
    BY <2>6 DEF Task, Emit, EndTurn, EndEarly, TaskStep
  <2>7. CASE \/ NoKey \/ Escape \/ Interrupt \/ Drain \/ Tick \/ Cancel \/ FrameEnds
             \/ RemoteCancel \/ Disconnect \/ HungUp
    BY <2>7 DEF NoKey, Escape, Interrupt, Drain, Tick, Cancel, FrameEnds,
       RemoteCancel, Disconnect, HungUp, Abandon, taskVars
  <2>8. ASSUME NEW x, Type(x) \/ Receive(x) PROVE ~displaced'
    BY <2>8 DEF Type, Receive, taskVars
  <2>9. QED
    BY <2>1, <2>2, <2>3, <2>4, <2>5, <2>6, <2>7, <2>8 DEF Next, Loop, UserKey, vars, taskVars
<1>3. QED
  BY <1>1, <1>2, PTL DEF Spec

(* A remote control that is gone has no prompts left, so that none of them *)
(* starts a turn any more.                                                 *)
THEOREM RemoteGoneForGood == Spec => DisconnectedIsSilent
<1> DEFINE Silent == phase = "bridge" /\ ~connected => UNCHANGED ran
           Empties == ~connected => remote = <<>>
<1>1. Init => Empties
  BY DEF Init
<1>2. Empties /\ [Next]_vars => Empties'
  <2> SUFFICES ASSUME Empties, [Next]_vars PROVE Empties'
    OBVIOUS
  <2>1. CASE Enter
    BY <2>1 DEF Enter, remoteVars
  <2>2. CASE Bridge
    BY <2>2 DEF Bridge
  <2>3. CASE Disconnect \/ HungUp
    BY <2>3 DEF Disconnect, HungUp
  <2>4. CASE Task
    BY <2>4 DEF Task, Emit, EndTurn, EndEarly, TaskStep, remoteVars
  <2>5. CASE \/ NoKey \/ Escape \/ Interrupt \/ Drain \/ Settle \/ Tick \/ Retry \/ Cancel
             \/ FinishTask \/ FrameEnds \/ RemoteCancel
    BY <2>5 DEF NoKey, Escape, Interrupt, Drain, Settle, Tick, Retry, Cancel, FinishTask,
       FrameEnds, RemoteCancel, remoteVars
  <2>6. ASSUME NEW x, Type(x) \/ Receive(x) PROVE Empties'
    BY <2>6 DEF Type, Receive, remoteVars
  <2>7. QED
    BY <2>1, <2>2, <2>3, <2>4, <2>5, <2>6 DEF Next, Loop, UserKey, vars, remoteVars
<1>3. Empties /\ [Next]_vars => [Silent]_vars
  <2> SUFFICES ASSUME Empties, phase = "bridge", ~connected, [Next]_vars PROVE UNCHANGED ran
    OBVIOUS
  <2>1. CASE Bridge
    BY <2>1 DEF Bridge
  <2>2. CASE Settle \/ Task \/ RemoteCancel \/ Disconnect \/ HungUp
    BY <2>2 DEF Settle, Task, Emit, EndTurn, EndEarly, TaskStep, RemoteCancel, Disconnect,
       HungUp, historyVars
  <2>3. CASE \/ Enter \/ NoKey \/ Escape \/ Interrupt \/ Drain \/ Tick \/ Retry \/ Cancel
             \/ FinishTask \/ FrameEnds
    BY <2>3 DEF Enter, NoKey, Escape, Interrupt, Key, Drain, Tick, Retry, Cancel, FinishTask,
       FrameEnds
  <2>4. ASSUME NEW x, Type(x) \/ Receive(x) PROVE UNCHANGED ran
    BY <2>4 DEF Type, Receive, historyVars
  <2>5. QED
    BY <2>1, <2>2, <2>3, <2>4 DEF Next, Loop, UserKey, vars, historyVars
<1>4. QED
  BY <1>1, <1>2, <1>3, PTL DEF Spec, DisconnectedIsSilent

(* No retry and no continuation runs under an abandoned turn. *)
THEOREM AbandonedStaysOver == Spec => AbandonedIsOver
<1> DEFINE Over == owner = "abandoned" /\ phase \in {"retry", "finish"} =>
                     ~(query' # query /\ query'.kind = "turn" /\ query'.status = "running")
<1>1. ASSUME TypeOK, [Next]_vars PROVE Over
  <2>0. query \in [kind : Kind, status : {"running"} \cup Outcome]
    BY <1>1 DEF TypeOK
  <2>1. CASE Retry
    BY <2>1 DEF Retry, taskVars
  <2>2. CASE FinishTask
    BY <2>2 DEF FinishTask, Continues, Start, Releases, NoQuery
  <2>3. CASE Task
    BY <2>0, <2>3 DEF Task, Emit, EndTurn, EndEarly, Outcome
  <2>4. CASE Enter \/ Settle \/ Bridge
    BY <2>4 DEF Enter, Settle, Bridge
  <2>5. CASE \/ NoKey \/ Escape \/ Interrupt \/ Drain \/ Tick \/ Cancel \/ FrameEnds
             \/ RemoteCancel \/ Disconnect \/ HungUp
    BY <2>5 DEF NoKey, Escape, Interrupt, Drain, Tick, Cancel, FrameEnds,
       RemoteCancel, Disconnect, HungUp, Abandon, taskVars
  <2>6. ASSUME NEW x, Type(x) \/ Receive(x) PROVE Over
    BY <2>6 DEF Type, Receive, taskVars
  <2>7. QED
    BY <1>1, <2>1, <2>2, <2>3, <2>4, <2>5, <2>6 DEF Next, Loop, UserKey, vars, taskVars
<1>2. TypeOK /\ [Next]_vars => [Over]_vars
  BY <1>1
<1>3. SessionInv => TypeOK
  BY DEF SessionInv
<1>4. QED
  BY <1>2, <1>3, SessionInvariant, PTL DEF Spec, AbandonedIsOver

-----------------------------------------------------------------------------
(* What was entered is kept. *)

(* A text that was entered and is in the prompt waits there for an Enter   *)
(* that is synthesized before any key: nothing runs, and nothing else of   *)
(* the frame comes before it.                                              *)
Waiting == phase = "input" /\ autoSubmit /\ Idle /\ ~isStreaming

(* What is in a queue or in the prompt after it left the remote control    *)
(* was dispatched, and without limits the modal never opens.               *)
KeptInv ==
  /\ InputKept
  /\ prompt \in entered \cap Message => Waiting
  /\ \A x \in Remote : prompt = x \/ Contains(queue, x) => ran[x] > 0
  /\ ~recovery.visible /\ query.status # "RateLimit"

(* A text stays in a queue to which another one is added, and a text that  *)
(* leaves the queue is the one that comes to the prompt.                   *)
LEMMA QueueMoves ==
  ASSUME TextTypes, NEW x
  PROVE  /\ prompt # Empty =>
              (Contains(Append(queue, prompt), x) <=> Contains(queue, x) \/ x = prompt)
         /\ queue # <<>> =>
              (Contains(queue, x) <=> Contains(Tail(queue), x) \/ x = Head(queue))
<1>1. queue \in Seq(Text) /\ Len(queue) \in Nat
  BY DEF TextTypes
<1>2. ASSUME prompt # Empty
      PROVE  Contains(Append(queue, prompt), x) <=> Contains(queue, x) \/ x = prompt
  <2>1. prompt \in Text
    BY <1>2 DEF TextTypes
  <2> DEFINE q == Append(queue, prompt)
  <2>2. /\ Len(q) = Len(queue) + 1 /\ q[Len(queue) + 1] = prompt
        /\ \A i \in 1..Len(queue) : q[i] = queue[i]
    BY <1>1, <2>1
  <2> HIDE DEF q
  <2>3. (\E i \in 1..Len(q) : q[i] = x) <=> (\E i \in 1..Len(queue) : queue[i] = x) \/ x = prompt
    BY <1>1, <2>2
  <2>4. QED
    BY <2>3 DEF Contains, q
<1>3. ASSUME queue # <<>>
      PROVE  Contains(queue, x) <=> Contains(Tail(queue), x) \/ x = Head(queue)
  <2> DEFINE q == Tail(queue)
  <2>1. /\ Len(queue) > 0 /\ Len(q) = Len(queue) - 1 /\ Head(queue) = queue[1]
        /\ \A i \in 1..Len(q) : q[i] = queue[i + 1]
    BY <1>1, <1>3
  <2> HIDE DEF q
  <2>2. ASSUME NEW i \in 1..Len(queue), queue[i] = x
        PROVE  x = Head(queue) \/ \E j \in 1..Len(q) : q[j] = x
    <3>1. CASE i = 1
      BY <2>1, <2>2, <3>1
    <3>2. CASE i # 1
      <4>1. i - 1 \in 1..Len(q) /\ q[i - 1] = x
        BY <1>1, <2>1, <2>2, <3>2
      <4>2. QED
        BY <4>1
    <3>3. QED
      BY <3>1, <3>2
  <2>3. ASSUME NEW j \in 1..Len(q) PROVE j + 1 \in 1..Len(queue) /\ queue[j + 1] = q[j]
    BY <1>1, <2>1
  <2>4. 1 \in 1..Len(queue)
    BY <1>1, <2>1
  <2>5. (\E i \in 1..Len(queue) : queue[i] = x) <=> (\E j \in 1..Len(q) : q[j] = x) \/ x = Head(queue)
    BY <2>1, <2>2, <2>3, <2>4
  <2>6. QED
    BY <2>5 DEF Contains, q
<1>4. QED
  BY <1>2, <1>3

(* Dispatching a text leaves every other one where it was. *)
LEMMA SubmitCounts ==
  ASSUME TextTypes, NEW x \in Text, Submit(x)
  PROVE  ran'[x] > 0 /\ \A y \in Text : ran[y] > 0 => ran'[y] > 0
<1>1. ran' = [ran EXCEPT ![x] = IF @ = 2 THEN 2 ELSE @ + 1] /\ ran \in [Text -> 0..2]
  BY DEF Submit, TextTypes
<1>2. QED
  BY <1>1

(* The recovery stays closed while it is not opened. *)
LEMMA RecoveryStaysClosed ==
  ASSUME recovery \in Recovery, ~recovery.visible
  PROVE  /\ ~Dismissed(recovery).visible /\ ~Cleared(recovery).visible
         /\ \A o \in Origin : ~RetryRequested(recovery, o).visible
         /\ ~[recovery EXCEPT !.abandoned = FALSE].visible
         /\ ~[recovery EXCEPT !.used = 0].visible
         /\ ~[recovery EXCEPT !.pending = "none"].visible
BY DEF Recovery, Dismissed, Cleared, RetryRequested

(* Without a goal that takes the frame from a popped text, and without a   *)
(* modal that takes its Enter, no step loses what was entered.             *)
LEMMA KeptStep ==
  ASSUME TypeOK, OnePlace, KeptInv, [Next]_vars,
         "goal" \notin Features, "limits" \notin Features
  PROVE  KeptInv'
<1>0. TextTypes /\ recovery \in Recovery /\ ~recovery.visible
      /\ query \in [kind : Kind, status : {"running"} \cup Outcome]
  BY DEF TypeOK, TextTypes, KeptInv
<1> DEFINE Quiet == ~recovery'.visible /\ query'.status # "RateLimit"
           Stays == UNCHANGED <<prompt, queue, entered, ran>>
<1>1. ASSUME Stays, Quiet, Waiting => Waiting' PROVE KeptInv'
  BY <1>1 DEF KeptInv, InputKept
<1>2. ASSUME Stays, Quiet, phase # "input" PROVE KeptInv'
  BY <1>1, <1>2 DEF Waiting
<1>3. ASSUME Stays, Quiet, Key PROVE KeptInv'
  BY <1>1, <1>3 DEF Waiting, Key, Synthesize
<1>4. ASSUME NEW kind, Spawn(kind) PROVE query'.status # "RateLimit"
  BY <1>4 DEF Spawn, Start
<1>5. query.status # "RateLimit"
  BY DEF KeptInv
<1>6. ASSUME NEW m \in Message, Type(m) PROVE KeptInv'
  <2>1. m \notin entered /\ prompt = Empty /\ prompt' = m
        /\ UNCHANGED <<queue, entered, ran, recovery, query>>
    BY <1>6 DEF Type, remoteVars, historyVars, taskVars
  <2>2. m \notin Remote /\ Empty \notin entered
    BY <1>0, TextAssumption DEF TextTypes, Text
  <2>3. \A x \in entered : prompt # x
    BY <2>1, <2>2
  <2>4. \A x \in Remote : prompt' # x
    BY <2>1, <2>2
  <2>5. QED
    BY <1>0, <1>5, <2>1, <2>2, <2>3, <2>4 DEF KeptInv, InputKept
<1>7. ASSUME Enter PROVE KeptInv'
  <2>1. ~EnterModal
    BY <1>0 DEF EnterModal
  <2>2. CASE EnterEmpty
    <3>1. prompt = Empty /\ Stays /\ Quiet
      BY <1>0, <1>5, <2>2 DEF EnterEmpty, remoteVars, historyVars, taskVars
    <3>2. prompt' \notin entered'
      BY <1>0, <3>1, TextAssumption DEF TextTypes
    <3>3. QED
      BY <3>1, <3>2 DEF KeptInv, InputKept
  <2>3. CASE EnterBusy /\ prompt = Empty
    <3>1. Stays /\ Quiet
      BY <1>0, <1>5, <2>3 DEF EnterBusy, taskVars
    <3>2. prompt' \notin entered'
      BY <1>0, <2>3, <3>1, TextAssumption DEF TextTypes
    <3>3. QED
      BY <3>1, <3>2 DEF KeptInv, InputKept
  <2>4. CASE EnterBusy /\ prompt # Empty
    <3>1. /\ queue' = Append(queue, prompt) /\ prompt' = Empty
          /\ entered' = entered \cup {prompt} /\ UNCHANGED ran /\ Quiet
      BY <1>0, <1>5, <2>4 DEF EnterBusy, taskVars
    <3>2. prompt \in Text /\ Empty \notin Text
      BY <1>0, <2>4, TextAssumption DEF TextTypes
    <3>3. \A x : Contains(queue', x) <=> Contains(queue, x) \/ x = prompt
      BY <1>0, <2>4, <3>1, QueueMoves
    <3>4. InputKept'
      BY <3>1, <3>3 DEF KeptInv, InputKept
    <3>5. \A x \in Remote : prompt' = x \/ Contains(queue', x) => ran'[x] > 0
      BY <3>1, <3>2, <3>3 DEF KeptInv, Text
    <3>6. QED
      BY <3>1, <3>2, <3>4, <3>5 DEF KeptInv, Text
  <2>5. CASE EnterIdle
    <3>1. /\ Submit(prompt) /\ prompt' = Empty /\ entered' = entered \cup {prompt}
          /\ UNCHANGED queue
      BY <2>5 DEF EnterIdle
    <3>2. prompt \in Text /\ Empty \notin Text /\ entered \subseteq Text
      BY <1>0, <2>5, TextAssumption DEF TextTypes, EnterIdle
    <3>3. ran'[prompt] > 0 /\ \A y \in Text : ran[y] > 0 => ran'[y] > 0
      BY <1>0, <3>1, <3>2, SubmitCounts
    <3>4. Quiet
      BY <1>0, <1>4, <3>1, RecoveryStaysClosed DEF Submit
    <3>5. InputKept'
      BY <3>1, <3>2, <3>3 DEF KeptInv, InputKept
    <3>6. \A x \in Remote : prompt' = x \/ Contains(queue', x) => ran'[x] > 0
      BY <3>1, <3>2, <3>3 DEF KeptInv, Text
    <3>7. QED
      BY <3>1, <3>2, <3>4, <3>5, <3>6 DEF KeptInv, Text
  <2>6. QED
    BY <1>7, <2>1, <2>2, <2>3, <2>4, <2>5 DEF Enter
<1>8. ASSUME NoKey \/ Escape PROVE KeptInv'
  <2>1. Key /\ Stays /\ Quiet
    BY <1>0, <1>5, <1>8, RecoveryStaysClosed DEF NoKey, Escape, inputVars, taskVars, remoteVars, historyVars
  <2>2. QED
    BY <1>3, <2>1
<1>9. ASSUME Interrupt PROVE KeptInv'
  <2>1. Key /\ Quiet /\ UNCHANGED <<queue, entered, ran>> /\ (prompt' = prompt \/ prompt' = Empty)
    BY <1>0, <1>5, <1>9, RecoveryStaysClosed DEF Interrupt, Abandon, remoteVars, historyVars
  <2>2. ~Waiting
    BY <2>1 DEF Waiting, Key, Synthesize
  <2>3. \A x \in entered : prompt = x => ran[x] > 0
    <3>1. \A x \in entered \cap Remote : prompt = x => ran[x] > 0
      BY DEF KeptInv
    <3>2. QED
      BY <1>0, <2>2, <3>1 DEF KeptInv, TextTypes, Text
  <2>4. Empty \notin Text /\ entered \subseteq Text
    BY <1>0, TextAssumption DEF TextTypes
  <2>5. QED
    BY <2>1, <2>2, <2>3, <2>4 DEF KeptInv, InputKept, Text
<1>10. ASSUME Drain \/ Tick PROVE KeptInv'
  <2>1. phase # "input" /\ Stays /\ Quiet
    BY <1>0, <1>5, <1>10 DEF Drain, Tick, inputVars, taskVars, remoteVars, historyVars
  <2>2. QED
    BY <1>2, <2>1
<1>11. ASSUME Settle PROVE KeptInv'
  <2>1. phase # "input" /\ Stays /\ ~recovery'.visible
    BY <1>0, <1>11, RecoveryStaysClosed DEF Settle, inputVars, remoteVars, historyVars
  <2>2. query'.status # "RateLimit"
    BY <1>4, <1>5, <1>11 DEF Settle, taskVars
  <2>3. QED
    BY <1>2, <2>1, <2>2
<1>12. ASSUME Bridge PROVE KeptInv'
  <2>1. CASE remote # <<>> /\ ~isStreaming /\ Idle
    <3> DEFINE x == Head(remote)
    <3>1. x \in Remote /\ x \in Text
      BY <1>0, <2>1 DEF TextTypes, Text
    <3>2. Submit(x) /\ prompt' = x /\ UNCHANGED <<queue, entered>> /\ phase = "bridge"
      BY <1>12, <2>1 DEF Bridge
    <3> HIDE DEF x
    <3>3. ran'[x] > 0 /\ \A y \in Text : ran[y] > 0 => ran'[y] > 0
      BY <1>0, <3>1, <3>2, SubmitCounts
    <3>4. Quiet
      BY <1>0, <1>4, <3>2, RecoveryStaysClosed DEF Submit
    <3>5. \A y \in entered : y \in Text /\ (prompt = y => ran[y] > 0)
      <4>1. \A y \in entered \cap Message : prompt # y
        BY <3>2 DEF KeptInv, Waiting
      <4>2. \A y \in entered \cap Remote : prompt = y => ran[y] > 0
        BY DEF KeptInv
      <4>3. QED
        BY <1>0, <4>1, <4>2 DEF TextTypes, Text
    <3>6. InputKept'
      BY <3>2, <3>3, <3>5 DEF KeptInv, InputKept
    <3>7. x \notin Message
      BY <3>1, TextAssumption
    <3>8. \A y \in Remote : prompt' = y \/ Contains(queue', y) => ran'[y] > 0
      BY <3>2, <3>3 DEF KeptInv, Text
    <3>9. QED
      BY <3>2, <3>4, <3>6, <3>7, <3>8 DEF KeptInv
  <2>2. CASE ~(remote # <<>> /\ ~isStreaming /\ Idle)
    <3>1. phase # "input" /\ Stays /\ Quiet
      BY <1>0, <1>5, <1>12, <2>2 DEF Bridge, taskVars
    <3>2. QED
      BY <1>2, <3>1
  <2>3. QED
    BY <2>1, <2>2
<1>13. ASSUME RemoteCancel \/ Cancel PROVE KeptInv'
  <2>1. phase # "input" /\ Stays /\ Quiet
    BY <1>0, <1>5, <1>13, RecoveryStaysClosed
    DEF RemoteCancel, Cancel, Abandon, inputVars, taskVars, remoteVars, historyVars
  <2>2. QED
    BY <1>2, <2>1
<1>14. ASSUME Retry PROVE KeptInv'
  <2>1. phase # "input" /\ Stays
    BY <1>14 DEF Retry, inputVars, remoteVars, historyVars
  <2>2. ~recovery'.visible
    BY <1>0, <1>14, RecoveryStaysClosed DEF Retry
  <2>3. query'.status # "RateLimit"
    BY <1>4, <1>5, <1>14 DEF Retry, taskVars
  <2>4. QED
    BY <1>2, <2>1, <2>2, <2>3
<1>15. ASSUME FinishTask PROVE KeptInv'
  <2>1. phase = "finish" /\ phase' = "input" /\ UNCHANGED <<entered, ran>> /\ NextQueued
        /\ recovery' \in RecoveryAfter(recovery) /\ Releases
    BY <1>15 DEF FinishTask, Continues, Start, remoteVars, historyVars
  <2>2. ~recovery'.visible
    <3>1. recovery' = [recovery EXCEPT !.used = 0] \/ recovery' = recovery
      BY <1>5, <2>1 DEF RecoveryAfter
    <3>2. QED
      BY <1>0, <3>1, RecoveryStaysClosed
  <2>3. query'.status # "RateLimit" /\ Idle' /\ ~isStreaming'
    BY <2>1 DEF Releases, NoQuery, Idle
  <2>4. \A y \in entered : y \in Text /\ (prompt = y => ran[y] > 0)
    <3>1. \A y \in entered \cap Message : prompt # y
      BY <2>1 DEF KeptInv, Waiting
    <3>2. \A y \in entered \cap Remote : prompt = y => ran[y] > 0
      BY DEF KeptInv
    <3>3. QED
      BY <1>0, <3>1, <3>2 DEF TextTypes, Text
  <2>5. CASE queue = <<>>
    <3>1. UNCHANGED <<prompt, queue>>
      BY <2>1, <2>5 DEF NextQueued, inputVars
    <3>2. prompt' \notin entered' \cap Message
      BY <2>1, <3>1 DEF KeptInv, Waiting
    <3>3. QED
      BY <2>1, <2>2, <2>3, <3>1, <3>2 DEF KeptInv, InputKept
  <2>6. CASE queue # <<>>
    <3>1. prompt' = Head(queue) /\ queue' = Tail(queue) /\ autoSubmit'
      BY <2>1, <2>6 DEF NextQueued
    <3>2. \A x : Contains(queue, x) <=> Contains(queue', x) \/ x = prompt'
      BY <1>0, <2>6, <3>1, QueueMoves
    <3>3. InputKept'
      BY <2>1, <2>4, <3>2 DEF KeptInv, InputKept
    <3>4. \A x \in Remote : prompt' = x \/ Contains(queue', x) => ran'[x] > 0
      BY <2>1, <3>2 DEF KeptInv
    <3>5. Waiting'
      BY <2>1, <2>3, <3>1 DEF Waiting
    <3>6. QED
      BY <2>2, <2>3, <3>3, <3>4, <3>5 DEF KeptInv
  <2>7. QED
    BY <2>5, <2>6
<1>16. ASSUME FrameEnds PROVE KeptInv'
  <2>1. phase # "input" /\ Stays /\ Quiet
    BY <1>0, <1>5, <1>16 DEF FrameEnds, inputVars, remoteVars, historyVars
  <2>2. QED
    BY <1>2, <2>1
<1>17. ASSUME Task PROVE KeptInv'
  <2>1. Running /\ Stays /\ UNCHANGED recovery
    BY <1>17 DEF Task, Emit, EndTurn, EndEarly, TaskStep, inputVars, remoteVars, historyVars
  <2>2. ~Waiting
    BY <2>1 DEF Waiting, Running, Idle
  <2>3. query'.status # "RateLimit"
    BY <1>0, <1>5, <1>17 DEF Task, Emit, EndTurn, EndEarly
  <2>4. QED
    BY <1>0, <1>1, <2>1, <2>2, <2>3
<1>18. ASSUME NEW x, Receive(x) PROVE KeptInv'
  <2>1. Stays /\ UNCHANGED <<phase, autoSubmit, isStreaming, query, recovery>>
    BY <1>18 DEF Receive, inputVars, taskVars
  <2>2. QED
    BY <1>0, <1>1, <1>5, <2>1 DEF Waiting, Idle
<1>19. CASE UNCHANGED vars
  <2>1. Stays /\ UNCHANGED <<phase, autoSubmit, isStreaming, query, recovery>>
    BY <1>19 DEF vars, inputVars, taskVars, remoteVars, historyVars
  <2>2. QED
    BY <1>0, <1>1, <1>5, <2>1 DEF Waiting, Idle
<1>20. ASSUME Disconnect \/ HungUp PROVE KeptInv'
  <2>1. phase # "input" /\ Stays /\ Quiet
    BY <1>0, <1>5, <1>20 DEF Disconnect, HungUp, KeptInv, inputVars, taskVars, historyVars
  <2>2. QED
    BY <1>2, <2>1
<1>21. QED
  BY <1>6, <1>7, <1>8, <1>9, <1>10, <1>11, <1>12, <1>13, <1>14, <1>15, <1>16, <1>17,
     <1>18, <1>19, <1>20
  DEF Next, Loop, UserKey

(* What was entered is in the queue, in the prompt, or dispatched: while   *)
(* no goal is set and no rate limit is met, whichever way queries end and  *)
(* whatever the users interrupt. With either a message may be lost.        *)
THEOREM NothingEnteredIsLost ==
  ASSUME "goal" \notin Features, "limits" \notin Features
  PROVE  Spec => []InputKept
<1>1. Init => KeptInv
  <2> SUFFICES ASSUME Init PROVE KeptInv
    OBVIOUS
  <2>1. prompt = Empty /\ queue = <<>> /\ entered = {} /\ ~recovery.visible
        /\ query.status # "RateLimit"
    BY DEF Init, NoQuery
  <2>2. \A x \in Remote : prompt # x /\ ~Contains(queue, x)
    BY <2>1, TextAssumption DEF Contains, Text
  <2>3. QED
    BY <2>1, <2>2 DEF KeptInv, InputKept
<1>2. SessionInv /\ KeptInv /\ [Next]_vars => KeptInv'
  BY KeptStep DEF SessionInv
<1>3. KeptInv => InputKept
  BY DEF KeptInv
<1>4. QED
  BY <1>1, <1>2, <1>3, SessionInvariant, PTL DEF Spec
===============================================================================
