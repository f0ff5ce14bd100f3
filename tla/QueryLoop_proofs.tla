--------------------------- MODULE QueryLoop_proofs ---------------------------
(***************************************************************************)
(* Theorems about QueryLoop for every configuration, every limit of turns, *)
(* retries, nudges, resumptions and cost, and every environment.           *)
(***************************************************************************)
EXTENDS QueryLoop, TLAPS, SequenceTheorems, WellFoundedInduction

(* The limits, one by one.                                                 *)
LEMMA Limits ==
  /\ MaxTurns \in Nat /\ StallRetries \in Nat
  /\ ResumeLimit \in Nat /\ NudgeLimit \in Nat
BY LimitAssumption

(* Whatever a stream ends with, its stop reason is one.                    *)
LEMMA StopReasons == Stops \cup {"end_turn"} \subseteq StopReason
BY BoundAssumption DEF StopReason

-----------------------------------------------------------------------------
(* The actions that only move on: the counters, the responses and the      *)
(* environment stay as they are.                                           *)
Settles ==
  \/ TopEnds \/ RequestCut \/ RequestOpens \/ Veto \/ PostModelTurn
  \/ StartCompact \/ Compact \/ CompactFails \/ CompactCancelled \/ NothingToCompact
  \/ StopHook \/ Unsupported

Kept == <<counterVars, sampleVars, historyVars, envVars>>

(* The counters, the responses and the environment stay.                   *)
LEMMA SettlesKeep ==
  ASSUME Settles
  PROVE  UNCHANGED Kept
BY DEF Settles, Kept, TopEnds, RequestCut, RequestOpens, Veto, PostModelTurn,
       StartCompact, Compact, CompactFails, CompactCancelled, NothingToCompact,
       StopHook, Unsupported, recordVars

(* Where they move: never to a place that a final response must not see,   *)
(* never to the tools, and back to the top or to the end from anywhere.    *)
LEMMA SettlesMoves ==
  ASSUME Settles
  PROVE  \/ pc' = "done" /\ outcome' \in {"Error", "Cancelled"}
         \/ pc' = "done" /\ outcome' = "EndTurn" /\ authority = "return"
         \/ pc' \in {"top", "stream"} /\ pc # "done" /\ pc # "top" /\ UNCHANGED outcome
         \/ /\ pc \in {"hooks", "compact", "compacting", "settle"}
            /\ pc' \in {"compact", "compacting", "settle", "stopped"}
            /\ UNCHANGED outcome
BY DEF Settles, TopEnds, RequestCut, RequestOpens, Veto, PostModelTurn,
       StartCompact, Compact, CompactFails, CompactCancelled, NothingToCompact,
       StopHook, Unsupported, LeaveWork, GoTo, Return

(* None of them leaves the end, and none but the first leaves the top.     *)
LEMMA SettlesFrom ==
  ASSUME Settles
  PROVE  /\ pc # "done"
         /\ pc = "top" => pc' = "done"
BY DEF Settles, TopEnds, RequestCut, RequestOpens, Veto, PostModelTurn,
       StartCompact, Compact, CompactFails, CompactCancelled, NothingToCompact,
       StopHook, Unsupported, LeaveWork, GoTo, Return

(* They preserve the invariant.                                            *)
LEMMA SettlesInv ==
  ASSUME IInv, Settles
  PROVE  IInv'
<1>1. UNCHANGED <<turn, asked, retriesLeft, resumes, nudges, usedFallback, sampled,
                  stop, billed, completes, ran, requests, authority, cancelled, config>>
  BY SettlesKeep DEF Kept, counterVars, sampleVars, historyVars, envVars
<1>2. attempt' = attempt /\ RequestLimit' = RequestLimit
  BY <1>1 DEF attempt, RequestLimit
<1>3. TypeOK'
  <2>1. /\ pc' \in {"top", "request", "stream", "handover", "hooks", "compact", "compacting",
                   "settle", "stopped", "tools", "execute", "executed", "refused", "done"}
        /\ outcome' \in Outcome \cup {"none"} /\ (outcome' = "none" <=> pc' # "done")
    BY SettlesMoves DEF IInv, TypeOK, Outcome
  <2>2. TypeOK
    BY DEF IInv
  <2>3. QED
    BY ONLY <1>1, <1>2, <2>1, <2>2 DEF TypeOK
<1>4. CompleteIsTheEnd'
  <2>1. completes' = completes /\ authority' = authority /\ completes = 0
    BY <1>1, SettlesMoves, SettlesFrom DEF IInv
  <2>2. outcome' = "EndTurn" => authority = "return" \/ outcome = "EndTurn"
    BY SettlesMoves
  <2>3. CompleteIsTheEnd
    BY DEF IInv
  <2>4. QED
    BY ONLY <2>1, <2>2, <2>3 DEF CompleteIsTheEnd
<1>5. RequestsBounded' /\ BilledOnce'
  BY <1>1, <1>2 DEF IInv, RequestsBounded, BilledOnce
<1>6. QED
  BY <1>1, <1>2, <1>3, <1>4, <1>5, SettlesMoves, SettlesFrom DEF IInv

-----------------------------------------------------------------------------
(* The actions that count.                                                 *)

(* One request more, paid for by one turn more.                            *)
LEMMA OneMore ==
  ASSUME NEW p \in Nat, NEW q \in Nat, NEW r \in Nat, NEW t \in Nat, NEW s \in Nat,
         NEW x \in Nat, p <= q + 1, q + r <= t + s + x
  PROVE  p + r <= (t + 1) + s + x
OBVIOUS

(* A request takes a turn, unless there is none left.                      *)
LEMMA TopInv ==
  ASSUME IInv, Top
  PROVE  IInv'
<1> USE Limits
<1>1. attempt' = attempt /\ RequestLimit' = RequestLimit
  BY DEF Top, attempt, RequestLimit, envVars
<1>2. /\ pc = "top" /\ turn \in 0..MaxTurns /\ turn' = turn + 1
      /\ requests' = requests \/ (requests' = Saturated(requests + 1) /\ turn' <= MaxTurns)
      /\ pc' = "done" \/ (pc' = "request" /\ turn' <= MaxTurns)
  BY DEF Top, IInv, TypeOK, GoTo, Return
<1>3. RequestLimit \in Nat /\ RequestLimit >= MaxTurns + StallRetries
  BY DEF RequestLimit
<1>4. /\ requests' \in Nat /\ requests' <= requests + 1
      /\ requests' <= RequestLimit
  <2>1. requests + retriesLeft <= turn + StallRetries + (IF usedFallback THEN 1 ELSE 0)
    BY DEF IInv
  <2>2. turn' <= MaxTurns => requests + 1 <= RequestLimit
    BY <1>2, <2>1 DEF IInv, TypeOK, RequestLimit
  <2>3. QED
    BY <1>2, <1>3, <2>2 DEF IInv, TypeOK, RequestsBounded, Saturated
<1>5. TypeOK'
  BY <1>1, <1>2, <1>4 DEF Top, IInv, TypeOK, GoTo, Return, Outcome, envVars
<1>6. CompleteIsTheEnd'
  BY <1>2 DEF Top, IInv, CompleteIsTheEnd, GoTo, Return, TypeOK
<1>7. asked' = "final" => pc' \in {"request", "done"} /\ authority' = "final"
  BY <1>2 DEF Top, envVars
<1>8. UNCHANGED <<retriesLeft, usedFallback, sampled, billed, completes, config>>
  BY DEF Top, envVars
<1>9. requests' + retriesLeft' <= turn' + StallRetries + (IF usedFallback' THEN 1 ELSE 0)
  <2>1. PICK extra \in Nat : extra = IF usedFallback THEN 1 ELSE 0
    OBVIOUS
  <2>2. /\ requests + retriesLeft <= turn + StallRetries + extra
        /\ requests \in Nat /\ retriesLeft \in Nat /\ turn \in Nat /\ StallRetries \in Nat
    BY <2>1 DEF IInv, TypeOK
  <2>3. turn' = turn + 1 /\ requests' \in Nat /\ requests' <= requests + 1
    BY <1>2, <1>4
  <2>4. PICK p \in Nat : p = requests' /\ p <= requests + 1
    BY <2>3
  <2>5. p + retriesLeft <= (turn + 1) + StallRetries + extra
    BY <2>2, <2>4, OneMore
  <2>6. requests' + retriesLeft <= turn' + StallRetries + extra
    BY <2>3, <2>4, <2>5
  <2>7. QED
    BY <1>8, <2>1, <2>6
<1>10. /\ pc' # "done" => turn' <= MaxTurns /\ completes' = 0
       /\ pc' \notin {"top", "done"} => turn' > 0
       /\ pc' \in {"request", "done"}
       /\ usedFallback' => config'.fallback
  BY <1>2, <1>8 DEF IInv
<1>11. RequestsBounded' /\ BilledOnce'
  BY <1>1, <1>4, <1>8 DEF IInv, RequestsBounded, BilledOnce
<1>12. QED
  BY <1>5, <1>6, <1>7, <1>9, <1>10, <1>11 DEF IInv

(* The fallback gives the turn of the refused request back, once.          *)
LEMMA RequestFailsInv ==
  ASSUME IInv, RequestFails
  PROVE  IInv'
<1> USE Limits
<1>1. attempt' = attempt /\ RequestLimit' = RequestLimit
  BY DEF RequestFails, recordVars, sampleVars, attempt, RequestLimit, envVars
<1>2. /\ pc = "request" /\ turn \in 1..MaxTurns
      /\ pc' = "top" \/ (pc' = "done" /\ outcome' = "Error")
      /\ pc' = "top" => UNCHANGED outcome
      /\ \/ UNCHANGED <<turn, usedFallback>>
         \/ turn' = turn - 1 /\ ~usedFallback /\ usedFallback' /\ config.fallback
  BY DEF RequestFails, FallBack, IInv, TypeOK, GoTo, Return
<1>3. UNCHANGED <<asked, retriesLeft, resumes, nudges, sampled, stop, billed, completes,
                  ran, requests, authority, cancelled, config>>
  BY DEF RequestFails, recordVars, sampleVars, historyVars, envVars
<1>4. usedFallback' \in BOOLEAN /\ turn' \in 0..MaxTurns
  <2>1. turn' \in 0..MaxTurns
    BY <1>2
  <2>2. usedFallback' \in BOOLEAN
    <3>1. usedFallback \in BOOLEAN
      BY DEF IInv, TypeOK
    <3>2. usedFallback' = TRUE \/ usedFallback' = usedFallback
      BY DEF RequestFails
    <3>3. QED
      BY <3>1, <3>2
  <2>3. QED
    BY <2>1, <2>2
<1>5. TypeOK'
  BY <1>1, <1>2, <1>3, <1>4 DEF IInv, TypeOK, Outcome
<1>6. CompleteIsTheEnd'
  BY <1>2, <1>3 DEF IInv, CompleteIsTheEnd, TypeOK
<1>7. requests' + retriesLeft' <= turn' + StallRetries + (IF usedFallback' THEN 1 ELSE 0)
  BY <1>2, <1>3 DEF IInv, TypeOK
<1>8. QED
  BY <1>1, <1>2, <1>3, <1>4, <1>5, <1>6, <1>7 DEF IInv, RequestsBounded, BilledOnce

(* A response is billed, whatever becomes of it; a retry gives its turn    *)
(* back for one of the retries.  The final response is not worked with.    *)
LEMMA ReceiveInv ==
  ASSUME IInv, Receive
  PROVE  IInv'
<1> USE Limits
<1>1. PICK end \in StreamEnd, r \in Response :
        /\ stop' \in StopsOf(end)
        /\ sampled' = Append(sampled, r)
        /\ \/ ReceiveHandover(end, r, attempt + 1) \/ Retry(end, r, attempt + 1)
           \/ ReceiveCut(end, r, attempt + 1) \/ ReceiveWhole(end, r, attempt + 1)
  BY DEF Receive
<1>2. UNCHANGED <<asked, resumes, nudges, usedFallback, completes, ran, requests,
                  authority, cancelled, config>>
  BY DEF Receive, historyVars, envVars
<1>3. /\ attempt \in Nat /\ attempt' = attempt + 1
      /\ sampled' \in Seq(Response) /\ RequestLimit' = RequestLimit
  BY <1>1, <1>2 DEF IInv, TypeOK, attempt, RequestLimit
<1>4. stop' \in StopReason
  BY <1>1, StopReasons DEF StopsOf
<1>5. pc = "stream" /\ turn \in 1..MaxTurns /\ completes = 0 /\ outcome = "none"
  BY DEF Receive, IInv, TypeOK
<1>6. billed' = billed + 1
  BY <1>1 DEF ReceiveHandover, Retry, ReceiveCut, ReceiveWhole
<1>7. \/ pc' \in {"handover", "hooks"} /\ UNCHANGED <<turn, retriesLeft, outcome>>
      \/ /\ pc' = "done" /\ outcome' \in {"Cancelled", "Error", "BudgetExceeded"}
         /\ UNCHANGED <<turn, retriesLeft>>
      \/ /\ pc' = "top" /\ UNCHANGED outcome
         /\ retriesLeft > 0 /\ retriesLeft' = retriesLeft - 1 /\ turn' = turn - 1
  BY <1>1 DEF ReceiveHandover, Retry, ReceiveCut, ReceiveWhole, GoTo, Return
<1>8. asked = "final" => pc' # "hooks"
  BY <1>1 DEF ReceiveHandover, Retry, ReceiveCut, ReceiveWhole, GoTo, Return, HandsOver
<1>9. TypeOK'
  <2>1. ran \subseteq 1..attempt'
    BY <1>3 DEF IInv, TypeOK
  <2>2. billed' \in Nat
    BY <1>6 DEF IInv, TypeOK
  <2>3. /\ turn' \in 0..(MaxTurns + 1) /\ retriesLeft' \in 0..StallRetries
        /\ pc' \in {"top", "handover", "hooks", "done"}
        /\ outcome' \in Outcome \cup {"none"} /\ (outcome' = "none") = (pc' # "done")
    BY <1>5, <1>7 DEF IInv, TypeOK, Outcome
  <2>4. QED
    BY <1>2, <1>3, <1>4, <2>1, <2>2, <2>3 DEF IInv, TypeOK
<1>10. CompleteIsTheEnd'
  BY <1>2, <1>5, <1>7 DEF CompleteIsTheEnd
<1>11. /\ pc' # "done" => turn' <= MaxTurns
       /\ pc' \notin {"top", "done"} => turn' > 0
       /\ requests' + retriesLeft' <= turn' + StallRetries + (IF usedFallback' THEN 1 ELSE 0)
  BY <1>2, <1>5, <1>7 DEF IInv, TypeOK
<1>12. BilledOnce' /\ attempt' > 0
  BY <1>3, <1>6 DEF IInv, BilledOnce
<1>13. QED
  BY <1>2, <1>3, <1>5, <1>7, <1>8, <1>9, <1>10, <1>11, <1>12 DEF IInv, RequestsBounded

-----------------------------------------------------------------------------
(* The actions that end a turn, push the model or run a tool.              *)

(* What the checks after a response handed over leave.                     *)
LEMMA HandoverInv ==
  ASSUME IInv, Handover
  PROVE  IInv'
<1>1. UNCHANGED <<turn, asked, retriesLeft, resumes, nudges, usedFallback, sampled, stop,
                  billed, ran, requests, authority, cancelled, config>>
  BY DEF Handover, counterVars, recordVars, sampleVars, envVars
<1>2. attempt' = attempt /\ RequestLimit' = RequestLimit
  BY <1>1 DEF attempt, RequestLimit
<1>3. pc = "handover" /\ completes = 0 /\ outcome = "none"
  BY DEF Handover, IInv, TypeOK
<1>4. \/ pc' = "top" /\ UNCHANGED <<outcome, completes>>
      \/ pc' = "done" /\ outcome' = "EndTurn" /\ completes' = 1
      \/ /\ pc' = "done" /\ outcome' \in Outcome \ {"EndTurn"}
         /\ completes' = 0
  BY <1>3 DEF Handover, EndWith, GoTo, Return, Outcome
<1>5. TypeOK'
  BY <1>1, <1>2, <1>3, <1>4 DEF IInv, TypeOK, Outcome
<1>6. CompleteIsTheEnd'
  BY <1>3, <1>4 DEF CompleteIsTheEnd
<1>7. QED
  BY <1>1, <1>2, <1>3, <1>4, <1>5, <1>6 DEF IInv, RequestsBounded, BilledOnce, TypeOK

(* Nudge and Resume, within their limits.                                  *)
LEMMA PushInv ==
  ASSUME IInv, Nudge \/ Resume
  PROVE  IInv'
<1> USE Limits
<1>1. UNCHANGED <<turn, asked, retriesLeft, usedFallback, sampled, stop,
                  billed, completes, ran, requests, authority, cancelled, config>>
  BY DEF Nudge, Resume, sampleVars, historyVars, envVars
<1>2. attempt' = attempt /\ RequestLimit' = RequestLimit
  BY <1>1 DEF attempt, RequestLimit
<1>3. pc = "settle" /\ pc' = "top" /\ UNCHANGED outcome
  BY DEF Nudge, Resume, KeepAndAsk, GoTo
<1>4. nudges' \in 0..NudgeLimit /\ resumes' \in 0..ResumeLimit
  BY DEF Nudge, Resume, IInv, TypeOK
<1>5. TypeOK'
  BY <1>1, <1>2, <1>3, <1>4 DEF IInv, TypeOK
<1>6. QED
  BY <1>1, <1>2, <1>3, <1>5 DEF IInv, RequestsBounded, BilledOnce, CompleteIsTheEnd, TypeOK

(* The ends that may announce a complete turn.                             *)
LEMMA EndInv ==
  ASSUME IInv, MaxTokens \/ EndTurn
  PROVE  IInv'
<1>1. UNCHANGED <<turn, asked, retriesLeft, resumes, nudges, usedFallback, sampled, stop,
                  billed, ran, requests, authority, cancelled, config>>
  BY DEF MaxTokens, EndTurn, counterVars, sampleVars, envVars
<1>2. attempt' = attempt /\ RequestLimit' = RequestLimit
  BY <1>1 DEF attempt, RequestLimit
<1>3. pc \in {"settle", "stopped"} /\ completes = 0 /\ outcome = "none"
  BY DEF MaxTokens, EndTurn, IInv, TypeOK
<1>4. \/ pc' = "top" /\ UNCHANGED <<outcome, completes>>
      \/ pc' = "done" /\ outcome' = "EndTurn" /\ completes' = 1
      \/ pc' = "done" /\ outcome' \in {"MaxTokens", "Error"} /\ completes' = 0
  <2>1. CASE MaxTokens
    BY <1>3, <2>1 DEF MaxTokens, EndWith, Return
  <2>2. CASE EndTurn
    <3>1. stop \in {"end_turn", "stop_sequence"}
      BY <2>2 DEF EndTurn, Ends
    <3>2. EmitsComplete(Exhausted) = ~Exhausted
      BY <3>1 DEF EmitsComplete, Exhausted
    <3>3. \/ LeaveWork(messages) /\ UNCHANGED completes
          \/ EndWith(IF Exhausted THEN "Error" ELSE "EndTurn", ~Exhausted)
      BY <2>2, <3>2 DEF EndTurn
    <3>4. CASE LeaveWork(messages) /\ UNCHANGED completes
      BY <1>3, <3>4 DEF LeaveWork, GoTo, Return
    <3>5. CASE EndWith(IF Exhausted THEN "Error" ELSE "EndTurn", ~Exhausted)
      <4>1. CASE Exhausted
        BY <1>3, <3>5, <4>1 DEF EndWith, Return
      <4>2. CASE ~Exhausted
        BY <1>3, <3>5, <4>2 DEF EndWith, Return
      <4>3. QED
        BY <4>1, <4>2
    <3>6. QED
      BY <3>3, <3>4, <3>5
  <2>3. QED
    BY <2>1, <2>2
<1>5. TypeOK'
  BY <1>1, <1>2, <1>3, <1>4 DEF IInv, TypeOK, Outcome
<1>6. CompleteIsTheEnd'
  BY <1>3, <1>4 DEF CompleteIsTheEnd
<1>7. QED
  BY <1>1, <1>2, <1>3, <1>4, <1>5, <1>6 DEF IInv, RequestsBounded, BilledOnce, TypeOK

(* A tool round resets what was pushed, and runs this attempt at most.     *)
ToolRound == StartTools \/ PrepareTool \/ ExecuteTool \/ FinishTools

LEMMA ToolInv ==
  ASSUME IInv, ToolRound
  PROVE  IInv'
<1> USE Limits
<1> USE DEF ToolRound, StartTools, PrepareTool, ExecuteTool, FinishTools
<1>1. UNCHANGED <<turn, asked, retriesLeft, usedFallback, sampled, stop,
                  billed, completes, requests, outcome, authority, cancelled, config>>
  BY DEF AddResults, counterVars, recordVars, sampleVars, historyVars, envVars, GoTo
<1>2. attempt' = attempt /\ RequestLimit' = RequestLimit
  BY <1>1 DEF attempt, RequestLimit
<1>3. \/ pc = "settle" /\ pc' = "tools"
      \/ pc = "tools" /\ pc' \in {"execute", "refused"}
      \/ pc = "execute" /\ pc' \in {"executed", "refused"}
      \/ pc \in {"executed", "refused"} /\ pc' = "top"
  BY DEF AddResults, GoTo
<1>4. nudges' \in 0..NudgeLimit /\ resumes' \in 0..ResumeLimit
  BY DEF counterVars, IInv, TypeOK
<1>5. ran' \subseteq 1..attempt
  <2>1. attempt \in Nat /\ attempt > 0 /\ ran \subseteq 1..attempt
    BY <1>3 DEF IInv, TypeOK, attempt
  <2>2. ran' \subseteq ran \cup {attempt}
    BY DEF historyVars
  <2>3. QED
    BY <2>1, <2>2
<1> HIDE DEF ToolRound, StartTools, PrepareTool, ExecuteTool, FinishTools
<1>6. TypeOK'
  BY <1>1, <1>2, <1>3, <1>4, <1>5 DEF IInv, TypeOK
<1>7. QED
  BY <1>1, <1>2, <1>3, <1>6 DEF IInv, RequestsBounded, BilledOnce, CompleteIsTheEnd, TypeOK

(* What others change.                                                     *)
LEMMA OthersInv ==
  ASSUME IInv, AuthorityNarrows \/ Cancel \/ UNCHANGED vars
  PROVE  IInv'
<1>1. UNCHANGED <<pc, outcome, turn, asked, retriesLeft, resumes, nudges, usedFallback,
                  sampled, stop, billed, completes, ran, requests, config>>
  BY DEF AuthorityNarrows, Cancel, vars, counterVars, recordVars, sampleVars,
         historyVars, envVars
<1>2. attempt' = attempt /\ RequestLimit' = RequestLimit
  BY <1>1 DEF attempt, RequestLimit
<1>3. /\ authority' \in Permission /\ cancelled' \in BOOLEAN
      /\ authority' = authority \/ (pc # "done" /\ authority' \in Narrower(authority))
  BY DEF AuthorityNarrows, Cancel, vars, envVars, Narrower, Permission, IInv, TypeOK
<1>4. TypeOK'
  BY <1>1, <1>2, <1>3 DEF IInv, TypeOK
<1>5. CompleteIsTheEnd'
  BY <1>1, <1>3 DEF IInv, CompleteIsTheEnd, TypeOK
<1>6. asked' = "final" => authority' \in {"final", "revoked"}
  BY <1>1, <1>3 DEF IInv, Narrower
<1>7. QED
  BY <1>1, <1>2, <1>4, <1>5, <1>6 DEF IInv, RequestsBounded, BilledOnce

-----------------------------------------------------------------------------
(* The steps, by what they change.                                         *)
LEMMA NextCases ==
  ASSUME [Next]_vars
  PROVE  \/ Settles \/ Top \/ RequestFails \/ Receive \/ Handover
         \/ Nudge \/ Resume \/ MaxTokens \/ EndTurn \/ ToolRound
         \/ AuthorityNarrows \/ Cancel \/ UNCHANGED vars
BY DEF Next, Answered, OwnSteps, Done, Settles, ToolRound

(* The counters of a query are consistent in every reachable state.        *)
THEOREM QueryInductiveInvariant == Spec => []IInv
<1>1. Init => IInv
  <2> SUFFICES ASSUME Init PROVE IInv
    OBVIOUS
  <2> USE Limits DEF Init
  <2>1. attempt = 0 /\ ran \subseteq 1..attempt
    <3>1. sampled = << >> /\ ran = {}
      OBVIOUS
    <3>2. Len(sampled) = 0
      BY <3>1
    <3>3. QED
      BY <3>1, <3>2 DEF attempt
  <2>2. TypeOK
    <3>1. sampled \in Seq(Response) /\ outcome \in Outcome \cup {"none"}
      OBVIOUS
    <3>2. /\ turn \in 0..(MaxTurns + 1) /\ retriesLeft \in 0..StallRetries
          /\ resumes \in 0..ResumeLimit /\ nudges \in 0..NudgeLimit
      OBVIOUS
    <3>3. /\ authority \in Permission /\ cancelled \in BOOLEAN /\ usedFallback \in BOOLEAN
          /\ asked \in {"work", "final"} /\ stop \in StopReason \cup {"none"}
          /\ (outcome = "none") = (pc # "done") /\ pc = "top" /\ config \in Config
          /\ billed \in Nat /\ completes \in Nat /\ requests \in Nat
      BY DEF Permission
    <3>4. QED
      BY <2>1, <3>1, <3>2, <3>3 DEF TypeOK
  <2>3. RequestLimit \in Nat
    BY DEF RequestLimit
  <2>4. RequestsBounded /\ BilledOnce /\ CompleteIsTheEnd
    BY <2>1, <2>3 DEF RequestsBounded, BilledOnce, CompleteIsTheEnd
  <2>5. QED
    BY <2>2, <2>4 DEF IInv
<1>2. IInv /\ [Next]_vars => IInv'
  BY NextCases, SettlesInv, TopInv, RequestFailsInv, ReceiveInv, HandoverInv, PushInv,
     EndInv, ToolInv, OthersInv
<1>3. QED
  BY <1>1, <1>2, PTL DEF Spec

(* The retries of a stalled stream and the fallback model give turns back, *)
(* but the requests of a query stay bounded whatever the limits are.       *)
THEOREM RequestsStayBounded == Spec => []RequestsBounded
<1>1. IInv => RequestsBounded
  BY DEF IInv
<1>2. QED
  BY <1>1, QueryInductiveInvariant, PTL

(* No response goes unbilled and none is billed twice: handed over,        *)
(* retried, cut, over budget or worked with.                               *)
THEOREM EveryResponseBilledOnce == Spec => []BilledOnce
<1>1. IInv => BilledOnce
  BY DEF IInv
<1>2. QED
  BY <1>1, QueryInductiveInvariant, PTL

(* A completed turn is announced once, at the end of the query.            *)
THEOREM AnnouncedAtTheEnd == Spec => []CompleteIsTheEnd
<1>1. IInv => CompleteIsTheEnd
  BY DEF IInv
<1>2. QED
  BY <1>1, QueryInductiveInvariant, PTL

(* Once the final response was asked for, no tool runs.                    *)
THEOREM NothingAfterFinal == Spec => FinalIsFinal
<1> DEFINE Final == asked = "final" => ran' = ran /\ asked' = "final" /\ pc' # "hooks"
<1>1. ASSUME IInv, [Next]_vars, asked = "final" PROVE Final
  <2>1. pc \in {"top", "request", "stream", "handover", "done"} /\ authority # "work"
    BY <1>1 DEF IInv
  <2>2. CASE Settles
    BY <2>1, <2>2, SettlesKeep, SettlesMoves, SettlesFrom
       DEF Kept, counterVars, historyVars
  <2>3. CASE Top
    BY <1>1, <2>1, <2>3 DEF Top, GoTo, Return
  <2>4. CASE Receive
    BY <1>1, <2>4
       DEF Receive, historyVars, ReceiveHandover, Retry, ReceiveCut, ReceiveWhole,
           GoTo, Return, HandsOver
  <2>5. CASE RequestFails \/ Handover
    BY <2>5 DEF RequestFails, Handover, counterVars, historyVars, EndWith, GoTo, Return
  <2>6. CASE AuthorityNarrows \/ Cancel \/ UNCHANGED vars
    BY <2>1, <2>6 DEF AuthorityNarrows, Cancel, vars, counterVars, historyVars
  <2>7. CASE Nudge \/ Resume \/ MaxTokens \/ EndTurn \/ ToolRound
    BY <2>1, <2>7 DEF Nudge, Resume, MaxTokens, EndTurn, ToolRound, StartTools,
                      PrepareTool, ExecuteTool, FinishTools
  <2>8. QED
    BY <1>1, <2>2, <2>3, <2>4, <2>5, <2>6, <2>7, NextCases
<1>2. IInv /\ [Next]_vars => [asked = "final" => ran' = ran /\ asked' = "final" /\ pc' # "hooks"]_vars
  BY <1>1
<1>3. QED
  BY <1>2, QueryInductiveInvariant, PTL DEF Spec, FinalIsFinal

-----------------------------------------------------------------------------
(* Transcripts and durable records are sequences of messages.              *)

Text == {"none", "announce", "plain", "placeholder"}
Message ==
  [kind : {"user"}] \cup [kind : {"hook"}, of : Nat]
    \cup [kind : {"model"}, of : Nat, text : Text]
    \cup [kind : {"results"}, of : Nat, executed : BOOLEAN]

About(m, a) == m.kind # "user" /\ m.of = a

(* The messages the loop makes are messages.                               *)
LEMMA MessageTypes ==
  ASSUME NEW a \in Nat
  PROVE  /\ UserMessage \in Message /\ HookError(a) \in Message
         /\ \A t \in Text : Model(a, t) \in Message
         /\ \A e \in BOOLEAN : Results(a, e) \in Message
BY DEF Message, UserMessage, HookError, Model, Results

(* What each of them is.                                                   *)
LEMMA MessageKinds ==
  ASSUME NEW a
  PROVE  /\ UserMessage.kind = "user"
         /\ HookError(a).kind = "hook" /\ HookError(a).of = a
         /\ \A t : Model(a, t).kind = "model" /\ Model(a, t).of = a
         /\ \A e : /\ Results(a, e).kind = "results" /\ Results(a, e).of = a
                   /\ Results(a, e).executed = e
BY DEF UserMessage, HookError, Model, Results

(* A nonempty set of numbers with a bound has a greatest member.           *)
LEMMA Greatest ==
  ASSUME NEW n \in Nat, NEW I \in SUBSET (1..n), I # {}
  PROVE  \E m \in I : \A i \in I : i <= m
<1> DEFINE T == {n - i : i \in I}
<1>1. T \subseteq Nat /\ T # {}
  <2>1. \A i \in I : i \in 1..n
    OBVIOUS
  <2>2. \A i \in I : n - i \in Nat
    BY <2>1
  <2>3. PICK i \in I : TRUE
    OBVIOUS
  <2>4. n - i \in T
    OBVIOUS
  <2>5. QED
    BY <2>2, <2>4
<1>2. PICK t \in T : \A y \in T : ~(<<y, t>> \in OpToRel(<, Nat))
  BY <1>1, NatLessThanWellFounded, WFMin
<1>3. PICK m \in I : t = n - m
  OBVIOUS
<1>4. ASSUME NEW i \in I PROVE i <= m
  <2>1. n - i \in T
    OBVIOUS
  <2>2. ~(n - i < t)
    BY <1>1, <1>2, <2>1 DEF OpToRel
  <2>3. i \in Nat /\ m \in Nat
    OBVIOUS
  <2>4. QED
    BY <1>3, <2>2, <2>3
<1>5. QED
  BY <1>4

(* LastCopy finds the last response of an attempt, or says there is none.  *)
LEMMA LastCopyFinds ==
  ASSUME NEW s \in Seq(Message), NEW a
  PROVE  \/ LastCopy(s, a) = 0 /\ Places(s, "model", a) = {}
         \/ /\ LastCopy(s, a) \in Places(s, "model", a)
            /\ \A k \in (LastCopy(s, a) + 1)..Len(s) : ~IsOf(s[k], "model", a)
<1> DEFINE I == {i \in 1..Len(s) : IsOf(s[i], "model", a)}
<1>1. I = Places(s, "model", a)
  BY DEF Places
<1>2. LastCopy(s, a) = IF I # {} THEN Max(I) ELSE 0
  BY DEF LastCopy, SelectLastInSeq
<1>3. CASE I = {}
  BY <1>1, <1>2, <1>3
<1>4. CASE I # {}
  <2>0. Len(s) \in Nat /\ I \in SUBSET (1..Len(s))
    OBVIOUS
  <2> HIDE DEF I
  <2>1. PICK m \in I : \A i \in I : i <= m
    BY <1>4, <2>0, Greatest
  <2>2. \E x \in I : \A y \in I : x >= y
    BY <2>1
  <2>3. Max(I) \in I /\ \A y \in I : Max(I) >= y
    BY <2>2 DEF Max
  <2>4. \A k \in (Max(I) + 1)..Len(s) : k \notin I
    <3>1. PICK j \in 1..Len(s) : j = Max(I)
      BY <2>0, <2>3
    <3>2. QED
      BY <2>0, <2>3, <3>1
  <2>5. \A k \in (Max(I) + 1)..Len(s) : ~IsOf(s[k], "model", a)
    <3>1. Max(I) \in 1..Len(s)
      BY <2>0, <2>3
    <3>2. QED
      BY <2>0, <2>4, <3>1 DEF I
  <2>6. QED
    BY <1>1, <1>2, <1>4, <2>3, <2>5
<1>5. QED
  BY <1>3, <1>4

(* What the operations on sequences do, element by element.                *)
LEMMA InsertAtElements ==
  ASSUME NEW s \in Seq(Message), NEW i \in 1..(Len(s) + 1), NEW e \in Message
  PROVE  /\ InsertAt(s, i, e) \in Seq(Message)
         /\ Len(InsertAt(s, i, e)) = Len(s) + 1
         /\ InsertAt(s, i, e)[i] = e
         /\ \A k \in 1..(i - 1) : InsertAt(s, i, e)[k] = s[k]
         /\ \A k \in (i + 1)..(Len(s) + 1) : InsertAt(s, i, e)[k] = s[k - 1]
<1> DEFINE front == SubSeq(s, 1, i - 1)
           back == SubSeq(s, i, Len(s))
<1>1. /\ front \in Seq(Message) /\ Len(front) = i - 1
      /\ \A k \in 1..(i - 1) : front[k] = s[k]
  OBVIOUS
<1>2. /\ back \in Seq(Message) /\ Len(back) = Len(s) - i + 1
      /\ \A k \in 1..(Len(s) - i + 1) : back[k] = s[k + i - 1]
  OBVIOUS
<1>3. InsertAt(s, i, e) = front \o <<e>> \o back
  BY DEF InsertAt
<1> HIDE DEF front, back
<1>4. PICK f \in Seq(Message) : f = front \o <<e>>
  <2>1. <<e>> \in Seq(Message)
    OBVIOUS
  <2>2. QED
    BY <1>1, <2>1, ConcatProperties
<1>5. Len(f) = i /\ f[i] = e /\ \A k \in 1..(i - 1) : f[k] = s[k]
  <2>1. PICK g \in Seq(Message) : g = <<e>> /\ Len(g) = 1 /\ g[1] = e
    <3>1. <<e>> \in Seq(Message) /\ Len(<<e>>) = 1 /\ <<e>>[1] = e
      OBVIOUS
    <3>2. QED
      BY ONLY <3>1
  <2>2. f = front \o g /\ i \in Nat
    BY <1>4, <2>1
  <2>3. QED
    BY ONLY <1>1, <2>1, <2>2, f \in Seq(Message), ConcatProperties
<1>6. InsertAt(s, i, e) = f \o back
  BY <1>3, <1>4
<1>7. InsertAt(s, i, e) \in Seq(Message) /\ Len(InsertAt(s, i, e)) = Len(s) + 1
  BY <1>2, <1>5, <1>6, ConcatProperties
<1>8. InsertAt(s, i, e)[i] = e /\ \A k \in 1..(i - 1) : InsertAt(s, i, e)[k] = s[k]
  BY <1>2, <1>5, <1>6
<1>9. ASSUME NEW k \in (i + 1)..(Len(s) + 1) PROVE InsertAt(s, i, e)[k] = s[k - 1]
  <2>1. (f \o back)[k] = back[k - i]
    BY <1>2, <1>5
  <2>2. back[k - i] = s[(k - i) + i - 1] /\ (k - i) + i - 1 = k - 1
    BY <1>2
  <2>3. QED
    BY <1>6, <2>1, <2>2
<1>10. QED
  BY <1>7, <1>8, <1>9

(* RemoveAt: what comes after it moves up.                                 *)
LEMMA RemoveAtElements ==
  ASSUME NEW s \in Seq(Message), NEW i \in 1..Len(s)
  PROVE  /\ RemoveAt(s, i) \in Seq(Message)
         /\ Len(RemoveAt(s, i)) = Len(s) - 1
         /\ \A k \in 1..(i - 1) : RemoveAt(s, i)[k] = s[k]
         /\ \A k \in i..(Len(s) - 1) : RemoveAt(s, i)[k] = s[k + 1]
<1> DEFINE front == SubSeq(s, 1, i - 1)
           back == SubSeq(s, i + 1, Len(s))
<1>1. /\ front \in Seq(Message) /\ Len(front) = i - 1
      /\ \A k \in 1..(i - 1) : front[k] = s[k]
  OBVIOUS
<1>2. /\ back \in Seq(Message) /\ Len(back) = Len(s) - i
      /\ \A k \in 1..(Len(s) - i) : back[k] = s[k + i]
  OBVIOUS
<1>3. RemoveAt(s, i) = front \o back
  BY DEF RemoveAt
<1> HIDE DEF front, back
<1>4. RemoveAt(s, i) \in Seq(Message) /\ Len(RemoveAt(s, i)) = Len(s) - 1
  BY <1>1, <1>2, <1>3
<1>5. \A k \in 1..(i - 1) : RemoveAt(s, i)[k] = s[k]
  BY <1>1, <1>2, <1>3
<1>6. ASSUME NEW k \in i..(Len(s) - 1) PROVE RemoveAt(s, i)[k] = s[k + 1]
  <2>1. (front \o back)[k] = back[k - (i - 1)]
    BY <1>1, <1>2
  <2>2. back[k - (i - 1)] = s[(k - (i - 1)) + i] /\ (k - (i - 1)) + i = k + 1
    BY <1>2
  <2>3. QED
    BY <1>3, <2>1, <2>2
<1>7. QED
  BY <1>4, <1>5, <1>6

(* ReplaceAt: the others stay.                                             *)
LEMMA ReplaceAtElements ==
  ASSUME NEW s \in Seq(Message), NEW i \in 1..Len(s), NEW e \in Message
  PROVE  /\ ReplaceAt(s, i, e) \in Seq(Message)
         /\ Len(ReplaceAt(s, i, e)) = Len(s)
         /\ ReplaceAt(s, i, e)[i] = e
         /\ \A k \in 1..Len(s) : k # i => ReplaceAt(s, i, e)[k] = s[k]
BY DEF ReplaceAt

(* Append: one more, at the end.                                           *)
LEMMA AppendElements ==
  ASSUME NEW s \in Seq(Message), NEW e \in Message
  PROVE  /\ Append(s, e) \in Seq(Message)
         /\ Len(Append(s, e)) = Len(s) + 1
         /\ Append(s, e)[Len(s) + 1] = e
         /\ \A k \in 1..Len(s) : Append(s, e)[k] = s[k]
OBVIOUS

(* A transcript redone from somewhere on, where it is only about attempt a *)
(* or the user's: what it says of the other attempts stays as it is.       *)
Redone(s, t, a) ==
  \E p \in 0..Len(s) :
    /\ p <= Len(t)
    /\ \A k \in 1..p : t[k] = s[k]
    /\ \A k \in (p + 1)..Len(s) : About(s[k], a)
    /\ \A k \in (p + 1)..Len(t) : About(t[k], a) \/ t[k].kind = "user"

(* A transcript left alone is redone from its end.                         *)
LEMMA RedoneNot ==
  ASSUME NEW s \in Seq(Message), NEW a
  PROVE  Redone(s, s, a)
BY DEF Redone

(* Redoing twice is redoing, from the earlier place.                       *)
LEMMA RedoneTwice ==
  ASSUME NEW s \in Seq(Message), NEW t \in Seq(Message), NEW u \in Seq(Message), NEW a,
         Redone(s, t, a), Redone(t, u, a)
  PROVE  Redone(s, u, a)
<1>1. PICK p \in 0..Len(s) :
        /\ p <= Len(t)
        /\ \A k \in 1..p : t[k] = s[k]
        /\ \A k \in (p + 1)..Len(s) : About(s[k], a)
        /\ \A k \in (p + 1)..Len(t) : About(t[k], a) \/ t[k].kind = "user"
  BY DEF Redone
<1>2. PICK q \in 0..Len(t) :
        /\ q <= Len(u)
        /\ \A k \in 1..q : u[k] = t[k]
        /\ \A k \in (q + 1)..Len(t) : About(t[k], a)
        /\ \A k \in (q + 1)..Len(u) : About(u[k], a) \/ u[k].kind = "user"
  BY DEF Redone
<1>3. CASE p <= q
  <2>1. p <= Len(u) /\ \A k \in 1..p : u[k] = s[k]
    BY <1>1, <1>2, <1>3
  <2>2. \A k \in (p + 1)..Len(u) : About(u[k], a) \/ u[k].kind = "user"
    BY <1>1, <1>2, <1>3
  <2>3. QED
    BY <1>1, <2>1, <2>2 DEF Redone
<1>4. CASE q < p
  <2>1. q \in 0..Len(s) /\ q <= Len(u) /\ \A k \in 1..q : u[k] = s[k]
    BY <1>1, <1>2, <1>4
  <2>2. \A k \in (q + 1)..Len(s) : About(s[k], a)
    BY <1>1, <1>2, <1>4
  <2>3. QED
    BY <1>2, <2>1, <2>2 DEF Redone
<1>5. QED
  BY <1>3, <1>4

(* A call that stays in the transcript is answered.                        *)
AnsweredIn(s, a) ==
  \A i \in Places(s, "model", a) :
    \E j \in Places(s, "results", a) :
      /\ Places(s, "results", a) = {j}
      /\ i < j
      /\ \A k \in (i + 1)..(j - 1) : IsOf(s[k], "hook", a)

(* The responses and results of another attempt stay where they are, and   *)
(* its answers with them.                                                  *)
LEMMA RedoneOthers ==
  ASSUME NEW s \in Seq(Message), NEW t \in Seq(Message), NEW a, NEW b, Redone(s, t, a),
         a # b
  PROVE  /\ Places(t, "model", b) = Places(s, "model", b)
         /\ Places(t, "results", b) = Places(s, "results", b)
         /\ AnsweredIn(s, b) => AnsweredIn(t, b)
<1>1. PICK p \in 0..Len(s) :
        /\ p <= Len(t)
        /\ \A k \in 1..p : t[k] = s[k]
        /\ \A k \in (p + 1)..Len(s) : About(s[k], a)
        /\ \A k \in (p + 1)..Len(t) : About(t[k], a) \/ t[k].kind = "user"
  BY DEF Redone
<1>2. ASSUME NEW kind \in {"model", "results"}
      PROVE  /\ Places(s, kind, b) = {k \in 1..p : IsOf(s[k], kind, b)}
             /\ Places(t, kind, b) = {k \in 1..p : IsOf(t[k], kind, b)}
  <2>1. \A k \in (p + 1)..Len(s) : ~IsOf(s[k], kind, b)
    BY <1>1 DEF IsOf, About
  <2>2. \A k \in (p + 1)..Len(t) : ~IsOf(t[k], kind, b)
    BY <1>1 DEF IsOf, About
  <2>3. DOMAIN s = 1..Len(s) /\ DOMAIN t = 1..Len(t) /\ Len(t) \in Nat /\ Len(s) \in Nat
    OBVIOUS
  <2>4. QED
    BY <1>1, <2>1, <2>2, <2>3 DEF Places
<1>3. \A kind \in {"model", "results"} : Places(t, kind, b) = Places(s, kind, b)
  BY <1>1, <1>2
<1>5. ASSUME AnsweredIn(s, b), NEW i \in Places(t, "model", b)
      PROVE  \E j \in Places(t, "results", b) :
               /\ Places(t, "results", b) = {j}
               /\ i < j
               /\ \A k \in (i + 1)..(j - 1) : IsOf(t[k], "hook", b)
  <2>1. PICK j \in Places(s, "results", b) :
          /\ Places(s, "results", b) = {j}
          /\ i < j
          /\ \A k \in (i + 1)..(j - 1) : IsOf(s[k], "hook", b)
    BY <1>3, <1>5 DEF AnsweredIn
  <2>2. i \in 1..p /\ j \in 1..p
    BY <1>2, <1>3
  <2>3. \A k \in (i + 1)..(j - 1) : t[k] = s[k]
    BY <1>1, <2>2
  <2>4. QED
    BY <1>3, <2>1, <2>3
<1>6. QED
  BY <1>3, <1>5 DEF AnsweredIn

-----------------------------------------------------------------------------
(* A response not yet finished in a transcript has no results, and what    *)
(* follows it is its own; with a call, only errors of its hooks follow.    *)
Ready(s, a) ==
  /\ Places(s, "results", a) = {}
  /\ \A i \in Places(s, "model", a) : \A k \in (i + 1)..Len(s) : About(s[k], a)

Open(s, a) ==
  /\ Places(s, "results", a) = {}
  /\ \A i \in Places(s, "model", a) : \A k \in (i + 1)..Len(s) : IsOf(s[k], "hook", a)

(* All the results that the transcript has for an attempt are refusals.    *)
Refuses(s, a) == \A k \in Places(s, "results", a) : s[k].executed = FALSE

(* An open attempt may be finished.                                        *)
LEMMA OpenReady ==
  ASSUME NEW s, NEW a, Open(s, a)
  PROVE  Ready(s, a)
BY DEF Open, Ready, IsOf, About

(* The last copy of a response is replaced by the final one, or that one   *)
(* added.                                                                  *)
LEMMA SyncRedoes ==
  ASSUME NEW s \in Seq(Message), NEW a \in Nat, NEW text \in Text, Ready(s, a),
         NEW t, t = Sync(s, Model(a, text))
  PROVE  /\ t \in Seq(Message) /\ Redone(s, t, a) /\ Ready(t, a)
         /\ Places(t, "model", a) # {}
         /\ Open(s, a) => Open(t, a)
<1> DEFINE m == Model(a, text)
           i == LastCopy(s, a)
<1>1. m \in Message /\ IsOf(m, "model", a) /\ m.of = a /\ About(m, a)
  BY MessageTypes, MessageKinds DEF IsOf, About
<1> HIDE DEF m
<1>2. CASE i = 0
  <2>1. t = Append(s, m) /\ Places(s, "model", a) = {}
    BY <1>1, <1>2, LastCopyFinds DEF Sync, m, Places
  <2>2. /\ t \in Seq(Message) /\ Len(t) = Len(s) + 1 /\ t[Len(s) + 1] = m
        /\ \A k \in 1..Len(s) : t[k] = s[k]
    BY <1>1, <2>1, AppendElements
  <2>3. Redone(s, t, a)
    BY <1>1, <2>2 DEF Redone
  <2>4. Places(t, "model", a) = {Len(s) + 1}
    BY <1>1, <2>1, <2>2 DEF Places
  <2>5. Places(t, "results", a) = {}
    BY <1>1, <2>2 DEF Places, IsOf, Ready
  <2>6. \A k \in ((Len(s) + 1) + 1)..Len(t) : FALSE
    BY <2>2
  <2>7. Ready(t, a) /\ Open(t, a)
    BY <2>4, <2>5, <2>6 DEF Ready, Open
  <2>8. QED
    BY <2>2, <2>3, <2>4, <2>7
<1>3. CASE i # 0
  <2>1. /\ i \in Places(s, "model", a)
        /\ \A k \in (i + 1)..Len(s) : ~IsOf(s[k], "model", a)
    BY <1>3, LastCopyFinds
  <2>2. i \in 1..Len(s) /\ t = ReplaceAt(s, i, m) /\ IsOf(s[i], "model", a)
    BY <1>1, <1>3, <2>1 DEF Sync, m, Places
  <2> HIDE DEF i
  <2>3. /\ t \in Seq(Message) /\ Len(t) = Len(s) /\ t[i] = m
        /\ \A k \in 1..Len(s) : k # i => t[k] = s[k]
    <3>1. m \in Message /\ i \in 1..Len(s)
      BY <1>1, <2>2
    <3>2. /\ ReplaceAt(s, i, m) \in Seq(Message)
          /\ Len(ReplaceAt(s, i, m)) = Len(s)
          /\ ReplaceAt(s, i, m)[i] = m
          /\ \A k \in 1..Len(s) : k # i => ReplaceAt(s, i, m)[k] = s[k]
      BY <3>1, ReplaceAtElements
    <3>3. QED
      BY <2>2, <3>2
  <2>4. \A k \in (i + 1)..Len(s) : About(s[k], a)
    BY <2>1 DEF Ready
  <2>5. Redone(s, t, a)
    <3>1. i - 1 \in 0..Len(s) /\ i - 1 <= Len(t)
      BY <2>2, <2>3
    <3>2. \A k \in 1..(i - 1) : t[k] = s[k]
      BY <2>2, <2>3
    <3>3. \A k \in ((i - 1) + 1)..Len(s) : About(s[k], a) /\ About(t[k], a)
      BY <1>1, <2>2, <2>3, <2>4 DEF IsOf, About
    <3>4. QED
      BY <2>3, <3>1, <3>2, <3>3 DEF Redone
  <2>6. Places(t, "model", a) = Places(s, "model", a)
    BY <1>1, <2>2, <2>3 DEF Places
  <2>7. Places(t, "results", a) = {}
    BY <1>1, <2>2, <2>3 DEF Places, Ready, IsOf
  <2>8. Ready(t, a)
    <3>1. ASSUME NEW j \in Places(s, "model", a), NEW k \in (j + 1)..Len(s)
          PROVE  About(t[k], a)
      <4>1. About(s[k], a) /\ j \in 1..Len(s) /\ k \in 1..Len(s)
        BY DEF Ready, Places
      <4>2. QED
        BY <1>1, <2>3, <4>1
    <3>2. QED
      BY <2>3, <2>6, <2>7, <3>1 DEF Ready
  <2>9. ASSUME Open(s, a) PROVE Open(t, a)
    <3>1. ASSUME NEW j \in Places(s, "model", a), NEW k \in (j + 1)..Len(s)
          PROVE  IsOf(t[k], "hook", a)
      <4>1. IsOf(s[k], "hook", a) /\ j \in 1..Len(s) /\ k \in 1..Len(s)
        BY <2>9 DEF Open, Places
      <4>2. k # i
        BY <2>2, <4>1 DEF IsOf
      <4>3. QED
        BY <2>3, <4>1, <4>2
    <3>2. QED
      BY <2>3, <2>6, <2>7, <3>1 DEF Open
  <2>10. QED
    BY <2>1, <2>3, <2>5, <2>6, <2>8, <2>9
<1>4. QED
  BY <1>2, <1>3

(* The refusal of a call comes right after its response.                   *)
LEMMA InsertedRedoes ==
  ASSUME NEW s \in Seq(Message), NEW a \in Nat, Ready(s, a), Places(s, "model", a) # {},
         NEW m \in Message, IsOf(m, "results", a), m.executed = FALSE,
         NEW t, t = InsertAt(s, LastCopy(s, a) + 1, m)
  PROVE  /\ t \in Seq(Message) /\ Redone(s, t, a)
         /\ Refuses(t, a)
         /\ Open(s, a) => AnsweredIn(t, a)
<1> DEFINE i == LastCopy(s, a)
<1>1. About(m, a)
  BY DEF IsOf, About
<1>2. /\ i \in Places(s, "model", a)
      /\ \A k \in (i + 1)..Len(s) : ~IsOf(s[k], "model", a) /\ About(s[k], a)
  BY LastCopyFinds DEF Ready
<1>3. i \in 1..Len(s) /\ IsOf(s[i], "model", a)
  BY <1>2 DEF Places
<1>4. t = InsertAt(s, i + 1, m)
  OBVIOUS
<1> HIDE DEF i
<1>5. i + 1 \in 1..(Len(s) + 1) /\ (i + 1) - 1 = i
  BY <1>3
<1>6. /\ t \in Seq(Message) /\ Len(t) = Len(s) + 1 /\ t[i + 1] = m
      /\ \A k \in 1..((i + 1) - 1) : t[k] = s[k]
      /\ \A k \in ((i + 1) + 1)..(Len(s) + 1) : t[k] = s[k - 1]
  <2>1. PICK j \in 1..(Len(s) + 1) : j = i + 1
    BY <1>5
  <2>2. /\ InsertAt(s, j, m) \in Seq(Message)
        /\ Len(InsertAt(s, j, m)) = Len(s) + 1
        /\ InsertAt(s, j, m)[j] = m
        /\ \A k \in 1..(j - 1) : InsertAt(s, j, m)[k] = s[k]
        /\ \A k \in (j + 1)..(Len(s) + 1) : InsertAt(s, j, m)[k] = s[k - 1]
    BY InsertAtElements
  <2>3. QED
    BY <1>4, <2>1, <2>2
<1>7. /\ \A k \in 1..i : t[k] = s[k]
      /\ \A k \in (i + 2)..(Len(s) + 1) : t[k] = s[k - 1] /\ k - 1 \in (i + 1)..Len(s)
  BY <1>3, <1>6
<1>8. \A k \in (i + 1)..Len(t) : About(t[k], a)
  BY <1>1, <1>2, <1>3, <1>6, <1>7
<1>9. Redone(s, t, a)
  BY <1>2, <1>3, <1>6, <1>7, <1>8 DEF Redone
<1>10. Places(t, "results", a) = {i + 1}
  <2>1. \A k \in 1..Len(s) : ~IsOf(s[k], "results", a)
    BY DEF Ready, Places
  <2>2. \A k \in 1..Len(t) : k # i + 1 => ~IsOf(t[k], "results", a)
    BY <1>3, <1>6, <1>7, <2>1
  <2>3. i + 1 \in 1..Len(t) /\ DOMAIN t = 1..Len(t)
    BY <1>3, <1>6
  <2>4. QED
    BY <1>1, <1>6, <2>2, <2>3 DEF Places
<1>11. ASSUME Open(s, a) PROVE AnsweredIn(t, a)
  <2>1. ASSUME NEW k \in Places(t, "model", a) PROVE k = i
    <3>1. k \in 1..Len(t) /\ IsOf(t[k], "model", a)
      BY <1>6 DEF Places
    <3>2. k # i + 1
      BY <1>1, <1>6, <3>1 DEF IsOf
    <3>3. k <= i
      BY <1>2, <1>3, <1>6, <1>7, <3>1, <3>2
    <3>4. k \in Places(s, "model", a)
      BY <1>3, <1>7, <3>1, <3>3 DEF Places
    <3>5. k < i => IsOf(s[i], "hook", a)
      BY <1>3, <1>11, <3>1, <3>4 DEF Open
    <3>6. QED
      BY <1>3, <3>1, <3>3, <3>5 DEF IsOf
  <2>2. \A k \in (i + 1)..((i + 1) - 1) : FALSE
    BY <1>3
  <2>3. i < i + 1
    BY <1>3
  <2>4. QED
    BY <1>10, <2>1, <2>2, <2>3 DEF AnsweredIn
<1>12. QED
  BY <1>1, <1>6, <1>9, <1>10, <1>11 DEF Refuses

(* A finished response and the refusal of its call, if it has one.         *)
LEMMA FinalizedRedoes ==
  ASSUME NEW s \in Seq(Message), NEW a \in Nat, Ready(s, a),
         NEW r, r.text \in Text, r.call => Open(s, a),
         NEW t, t = Finalized(s, a, r)
  PROVE  /\ t \in Seq(Message) /\ Redone(s, t, a)
         /\ Refuses(t, a)
         /\ r.call => AnsweredIn(t, a)
<1>1. PICK u : u = Sync(s, Model(a, r.text))
  OBVIOUS
<1>3. /\ u \in Seq(Message) /\ Redone(s, u, a) /\ Ready(u, a)
      /\ Places(u, "model", a) # {}
      /\ Open(s, a) => Open(u, a)
  BY <1>1, SyncRedoes
<1>4. t = Refused(u, a, r.call)
  BY <1>1 DEF Finalized
<1>5. CASE r.call
  <2>1. t = InsertAt(u, LastCopy(u, a) + 1, Results(a, FALSE))
    BY <1>3, <1>4, <1>5 DEF Refused, NeedsRefusal, Ready
  <2>2. PICK m \in Message : m = Results(a, FALSE)
    BY MessageTypes
  <2>3. IsOf(m, "results", a) /\ m.executed = FALSE
    BY <2>2 DEF Results, IsOf
  <2>4. t = InsertAt(u, LastCopy(u, a) + 1, m)
    BY <2>1, <2>2
  <2>5. /\ t \in Seq(Message) /\ Redone(u, t, a)
        /\ Refuses(t, a)
        /\ Open(u, a) => AnsweredIn(t, a)
    BY <1>3, <2>3, <2>4, InsertedRedoes
  <2>6. QED
    BY <1>3, <1>5, <2>5, RedoneTwice
<1>6. CASE ~r.call
  <2>1. t = u
    BY <1>4, <1>6 DEF Refused, NeedsRefusal
  <2>2. QED
    BY <1>3, <1>6, <2>1 DEF Ready, Refuses
<1>7. QED
  BY <1>5, <1>6

(* A response without content is taken out again.                          *)
LEMMA WithoutRedoes ==
  ASSUME NEW s \in Seq(Message), NEW a \in Nat, Open(s, a), NEW t, t = Without(s, a)
  PROVE  /\ t \in Seq(Message) /\ Redone(s, t, a) /\ Places(t, "results", a) = {}
<1> DEFINE i == LastCopy(s, a)
<1>1. CASE i = 0
  BY <1>1, RedoneNot DEF Without, Open
<1>2. CASE i # 0
  <2>1. i \in Places(s, "model", a)
    BY <1>2, LastCopyFinds
  <2>2. i \in 1..Len(s) /\ IsOf(s[i], "model", a) /\ t = RemoveAt(s, i)
    BY <1>2, <2>1 DEF Without, Places
  <2>3. \A k \in (i + 1)..Len(s) : IsOf(s[k], "hook", a)
    BY <2>1 DEF Open
  <2> HIDE DEF i
  <2>4. /\ RemoveAt(s, i) \in Seq(Message)
        /\ Len(RemoveAt(s, i)) = Len(s) - 1
        /\ \A k \in 1..(i - 1) : RemoveAt(s, i)[k] = s[k]
        /\ \A k \in i..(Len(s) - 1) : RemoveAt(s, i)[k] = s[k + 1]
    BY <2>2, RemoveAtElements
  <2>5. /\ t \in Seq(Message) /\ Len(t) = Len(s) - 1
        /\ \A k \in 1..(i - 1) : t[k] = s[k]
        /\ \A k \in i..(Len(s) - 1) : IsOf(t[k], "hook", a)
    BY <2>2, <2>3, <2>4
  <2>6. Redone(s, t, a)
    <3>1. i - 1 \in 0..Len(s) /\ i - 1 <= Len(t)
      BY <2>2, <2>5
    <3>2. \A k \in ((i - 1) + 1)..Len(s) : About(s[k], a)
      BY <2>2, <2>3 DEF IsOf, About
    <3>3. \A k \in ((i - 1) + 1)..Len(t) : About(t[k], a)
      BY <2>2, <2>5 DEF IsOf, About
    <3>4. QED
      BY <2>5, <3>1, <3>2, <3>3 DEF Redone
  <2>7. \A k \in 1..Len(t) : ~IsOf(t[k], "results", a)
    <3>1. \A k \in 1..Len(s) : ~IsOf(s[k], "results", a)
      BY DEF Open, Places
    <3>2. QED
      BY <2>2, <2>5, <3>1 DEF IsOf
  <2>8. QED
    BY <2>5, <2>6, <2>7 DEF Places
<1>3. QED
  BY <1>1, <1>2

(* A message at the end leaves what came before it.                        *)
LEMMA AppendRedoes ==
  ASSUME NEW s \in Seq(Message), NEW a, NEW m \in Message, m.kind = "user" \/ About(m, a),
         NEW t, t = Append(s, m)
  PROVE  Redone(s, t, a)
<1>1. /\ t \in Seq(Message) /\ Len(t) = Len(s) + 1 /\ t[Len(s) + 1] = m
      /\ \A k \in 1..Len(s) : t[k] = s[k]
  BY AppendElements
<1>2. \A k \in (Len(s) + 1)..Len(s) : FALSE
  OBVIOUS
<1>3. \A k \in (Len(s) + 1)..Len(t) : t[k] = m
  BY <1>1
<1>4. Len(s) \in 0..Len(s) /\ Len(s) <= Len(t)
  BY <1>1
<1>5. QED
  BY <1>1, <1>2, <1>3, <1>4 DEF Redone

(* A message at the end adds no place but its own.                         *)
LEMMA AppendPlaces ==
  ASSUME NEW s \in Seq(Message), NEW m \in Message, NEW b
  PROVE  /\ IsOf(m, "model", b) \/ Places(Append(s, m), "model", b) = Places(s, "model", b)
         /\ IsOf(m, "results", b) \/ Places(Append(s, m), "results", b) = Places(s, "results", b)
<1>0. PICK t : t = Append(s, m)
  OBVIOUS
<1>1. /\ t \in Seq(Message) /\ Len(t) = Len(s) + 1 /\ t[Len(s) + 1] = m
      /\ \A k \in 1..Len(s) : t[k] = s[k]
  BY <1>0, AppendElements
<1>2. DOMAIN t = 1..(Len(s) + 1) /\ DOMAIN s = 1..Len(s) /\ Len(s) \in Nat
  BY <1>1
<1>3. \A k \in 1..(Len(s) + 1) : k \in 1..Len(s) \/ k = Len(s) + 1
  BY <1>2
<1>4. ASSUME NEW kind, ~IsOf(m, kind, b)
      PROVE  Places(t, kind, b) = Places(s, kind, b)
  BY <1>1, <1>2, <1>3, <1>4 DEF Places
<1>5. QED
  BY <1>0, <1>4

(* One of the user or of a hook disturbs no answer.                        *)
LEMMA AppendAnswered ==
  ASSUME NEW s \in Seq(Message), NEW m \in Message, NEW t, t = Append(s, m),
         m.kind \in {"user", "hook"}, NEW b, AnsweredIn(s, b)
  PROVE  AnsweredIn(t, b)
<1>1. \A k \in 1..Len(s) : t[k] = s[k]
  BY AppendElements
<1>2. ~IsOf(m, "model", b) /\ ~IsOf(m, "results", b)
  BY DEF IsOf
<1>3. /\ Places(t, "model", b) = Places(s, "model", b)
      /\ Places(t, "results", b) = Places(s, "results", b)
  BY <1>2, AppendPlaces
<1>4. ASSUME NEW i \in Places(t, "model", b)
      PROVE  \E j \in Places(t, "results", b) :
               /\ Places(t, "results", b) = {j}
               /\ i < j
               /\ \A k \in (i + 1)..(j - 1) : IsOf(t[k], "hook", b)
  <2>1. PICK j \in Places(s, "results", b) :
          /\ Places(s, "results", b) = {j}
          /\ i < j
          /\ \A k \in (i + 1)..(j - 1) : IsOf(s[k], "hook", b)
    BY <1>3, <1>4 DEF AnsweredIn
  <2>2. i \in 1..Len(s) /\ j \in 1..Len(s)
    BY <1>3 DEF Places
  <2>3. QED
    BY <1>1, <1>3, <2>1, <2>2
<1>5. QED
  BY <1>4 DEF AnsweredIn

-----------------------------------------------------------------------------
(* What always holds of the transcript m and the record d after n attempts *)
(* of which R had their tool executed.                                     *)
Within(s, n) == \A k \in DOMAIN s : s[k].kind # "user" => s[k].of \in 1..n

Truthful(s, R) ==
  \A k \in DOMAIN s : s[k].kind = "results" => (s[k].executed <=> s[k].of \in R)

Begun(m) == Len(m) > 0 /\ m[1].kind = "user"

Sound(m, d, n, R) ==
  /\ m \in Seq(Message) /\ d \in Seq(Message)
  /\ Begun(m) /\ Within(m, n) /\ Within(d, n)
  /\ Truthful(m, R) /\ Truthful(d, R)

(* A transcript redone keeps what holds of every message, if the results   *)
(* of its attempt are true.                                                *)
LEMMA RedoneSound ==
  ASSUME NEW s \in Seq(Message), NEW t \in Seq(Message), NEW n \in Nat, NEW a \in 1..n,
         Redone(s, t, a), NEW R, NEW Q, \A b : b # a => (b \in R <=> b \in Q),
         \A k \in Places(t, "results", a) : t[k].executed <=> a \in Q
  PROVE  /\ Begun(s) => Begun(t)
         /\ Within(s, n) => Within(t, n)
         /\ Truthful(s, R) => Truthful(t, Q)
<1>1. PICK p \in 0..Len(s) :
        /\ p <= Len(t)
        /\ \A k \in 1..p : t[k] = s[k]
        /\ \A k \in (p + 1)..Len(s) : About(s[k], a)
        /\ \A k \in (p + 1)..Len(t) : About(t[k], a) \/ t[k].kind = "user"
  BY DEF Redone
<1>2. ASSUME Begun(s) PROVE Begun(t)
  <2>1. p > 0
    BY <1>1, <1>2 DEF Begun, About
  <2>2. QED
    BY <1>1, <1>2, <2>1 DEF Begun
<1>3. DOMAIN s = 1..Len(s) /\ DOMAIN t = 1..Len(t) /\ Len(s) \in Nat /\ Len(t) \in Nat
  OBVIOUS
<1>4. ASSUME Within(s, n) PROVE Within(t, n)
  BY <1>1, <1>3, <1>4 DEF Within, About
<1>5. ASSUME Truthful(s, R), NEW k \in 1..Len(t), t[k].kind = "results"
      PROVE  t[k].executed <=> t[k].of \in Q
  <2>1. CASE t[k].of = a
    <3>1. k \in Places(t, "results", a)
      BY <1>3, <1>5, <2>1 DEF Places, IsOf
    <3>2. QED
      BY <2>1, <3>1
  <2>2. CASE t[k].of # a
    <3>1. k \in 1..p
      BY <1>1, <1>3, <1>5, <2>2 DEF About
    <3>2. t[k] = s[k] /\ k \in DOMAIN s
      BY <1>1, <1>3, <3>1
    <3>3. t[k].executed <=> t[k].of \in R
      BY <1>5, <3>2 DEF Truthful
    <3>4. QED
      BY <2>2, <3>3
  <2>3. QED
    BY <2>1, <2>2
<1>6. Truthful(s, R) => Truthful(t, Q)
  BY <1>3, <1>5 DEF Truthful
<1>7. QED
  BY <1>2, <1>4, <1>6

(* What the record says of attempt a, whose response was r: its facts      *)
(* once, in their order.                                                   *)
Told(d, r, a) ==
  /\ \/ Once(d, "model", a)
     \/ ~HasMaterial(r) /\ Places(d, "model", a) = {}
  /\ IF r.call THEN Once(d, "results", a) ELSE Places(d, "results", a) = {}
  /\ \A i \in Places(d, "model", a) : \A j \in Places(d, "results", a) : i < j

(* Response and results.                                                   *)
ToldWhole(d, a) ==
  /\ Once(d, "model", a) /\ Once(d, "results", a)
  /\ \A i \in Places(d, "model", a) : \A j \in Places(d, "results", a) : i < j

Untold(d, a) == Places(d, "model", a) = {} /\ Places(d, "results", a) = {}

(* The first message of its kind about an attempt is the one just added.   *)
LEMMA PlacesAppended ==
  ASSUME NEW d \in Seq(Message), NEW m \in Message, NEW t, t = Append(d, m), NEW a,
         NEW kind \in {"model", "results"}, IsOf(m, kind, a), Places(d, kind, a) = {}
  PROVE  Places(t, kind, a) = {Len(t)} /\ Once(t, kind, a) /\ Len(t) = Len(d) + 1
<1>1. /\ t \in Seq(Message) /\ Len(t) = Len(d) + 1 /\ t[Len(d) + 1] = m
      /\ \A k \in 1..Len(d) : t[k] = d[k]
  BY AppendElements
<1>2. DOMAIN t = 1..(Len(d) + 1) /\ Len(d) \in Nat
  BY <1>1
<1>3. \A k \in 1..Len(d) : ~IsOf(d[k], kind, a)
  BY DEF Places
<1>4. \A k \in 1..(Len(d) + 1) : IsOf(t[k], kind, a) <=> k = Len(d) + 1
  BY <1>1, <1>2, <1>3
<1>5. Places(t, kind, a) = {Len(d) + 1}
  BY <1>2, <1>4 DEF Places
<1>6. QED
  BY <1>1, <1>2, <1>5 DEF Once

(* A response without a call is told alone, one with a call before its     *)
(* results.                                                                *)
LEMMA ToldAlone ==
  ASSUME NEW d \in Seq(Message), NEW a \in Nat, Untold(d, a), NEW text \in Text,
         NEW t, t = Append(d, Model(a, text))
  PROVE  /\ t \in Seq(Message) /\ Redone(d, t, a)
         /\ Places(t, "model", a) = {Len(t)} /\ Once(t, "model", a)
         /\ Places(t, "results", a) = {}
<1>1. PICK m \in Message : m = Model(a, text)
  BY MessageTypes
<1>2. m.kind = "model" /\ m.of = a
  BY <1>1 DEF Model
<1>3. IsOf(m, "model", a) /\ ~IsOf(m, "results", a) /\ About(m, a) /\ t = Append(d, m)
  BY <1>1, <1>2 DEF IsOf, About
<1>4. /\ t \in Seq(Message) /\ Redone(d, t, a)
      /\ Places(t, "results", a) = Places(d, "results", a)
  <2>1. t \in Seq(Message)
    BY <1>3, AppendElements
  <2>2. Redone(d, t, a)
    BY <1>3, AppendRedoes
  <2>3. Places(t, "results", a) = Places(d, "results", a)
    BY <1>3, AppendPlaces
  <2>4. QED
    BY <2>1, <2>2, <2>3
<1>5. Places(t, "model", a) = {Len(t)} /\ Once(t, "model", a)
  BY <1>3, PlacesAppended DEF Untold
<1>6. QED
  BY <1>4, <1>5 DEF Untold

(* The results of a response that was told follow it.                      *)
LEMMA ToldWithResults ==
  ASSUME NEW d \in Seq(Message), NEW a \in Nat, Once(d, "model", a),
         Places(d, "results", a) = {},
         NEW m \in Message, IsOf(m, "results", a), NEW t, t = Append(d, m)
  PROVE  /\ t \in Seq(Message) /\ Redone(d, t, a) /\ ToldWhole(t, a) /\ t[Len(t)] = m
<1>1. ~IsOf(m, "model", a) /\ About(m, a)
  BY DEF IsOf, About
<1>2. /\ t \in Seq(Message) /\ Len(t) = Len(d) + 1 /\ t[Len(t)] = m
      /\ \A k \in 1..Len(d) : t[k] = d[k]
      /\ Redone(d, t, a)
      /\ Places(t, "model", a) = Places(d, "model", a)
  <2>1. /\ t \in Seq(Message) /\ Len(t) = Len(d) + 1 /\ t[Len(d) + 1] = m
        /\ \A k \in 1..Len(d) : t[k] = d[k]
    BY AppendElements
  <2>2. Redone(d, t, a)
    BY <1>1, AppendRedoes
  <2>3. Places(t, "model", a) = Places(d, "model", a)
    BY <1>1, AppendPlaces
  <2>4. QED
    BY <2>1, <2>2, <2>3
<1>3. Places(t, "results", a) = {Len(t)} /\ Once(t, "results", a)
  BY PlacesAppended
<1>4. Once(t, "model", a)
  BY <1>2 DEF Once, Places
<1>5. \A i \in Places(t, "model", a) : i < Len(t)
  BY <1>2 DEF Places
<1>6. ToldWhole(t, a)
  BY <1>3, <1>4, <1>5 DEF ToldWhole
<1>7. QED
  BY <1>2, <1>3, <1>4, <1>6

(* The facts of a finished response tell all there is to tell of it.       *)
LEMMA FactsTold ==
  ASSUME NEW d \in Seq(Message), NEW s, NEW a \in Nat, Untold(d, a), Ready(s, a),
         NEW r, r.text \in Text, NEW f, f = FinalFacts(s, a, r), NEW t, t = d \o f
  PROVE  /\ t \in Seq(Message) /\ Redone(d, t, a) /\ Told(t, r, a) /\ Once(t, "model", a)
         /\ Refuses(t, a)
<1>1. PICK u : u = Append(d, Model(a, r.text))
  OBVIOUS
<1>2. /\ u \in Seq(Message) /\ Redone(d, u, a)
      /\ Places(u, "model", a) = {Len(u)} /\ Once(u, "model", a)
      /\ Places(u, "results", a) = {}
  BY <1>1, ToldAlone
<1>3. Model(a, r.text) \in Message /\ Results(a, FALSE) \in Message
  BY MessageTypes
<1>4. CASE r.call
  <2>1. t = d \o (<<Model(a, r.text)>> \o <<Results(a, FALSE)>>)
    BY <1>4 DEF FinalFacts, NeedsRefusal, Ready
  <2>2. PICK m \in Message, n \in Message : m = Model(a, r.text) /\ n = Results(a, FALSE)
    BY <1>3
  <2>3. d \o (<<m>> \o <<n>>) = Append(Append(d, m), n)
    OBVIOUS
  <2>4. t = Append(u, n)
    BY <1>1, <2>1, <2>2, <2>3
  <2>5. IsOf(n, "results", a) /\ n.executed = FALSE
    BY <2>2 DEF Results, IsOf
  <2>6. /\ t \in Seq(Message) /\ Redone(u, t, a) /\ ToldWhole(t, a) /\ t[Len(t)] = n
        /\ Places(t, "results", a) = {Len(t)}
    <3>1. n \in Message /\ u \in Seq(Message)
      BY <1>2
    <3>2. t \in Seq(Message) /\ Redone(u, t, a) /\ ToldWhole(t, a) /\ t[Len(t)] = n
      BY ONLY <1>2, <2>4, <2>5, <3>1, a \in Nat, ToldWithResults
    <3>3. Places(t, "results", a) = {Len(t)}
      BY ONLY <1>2, <2>4, <2>5, <3>1, a \in Nat, PlacesAppended
    <3>4. QED
      BY <3>2, <3>3
  <2>7. Refuses(t, a)
    BY <2>5, <2>6 DEF Refuses
  <2>8. QED
    BY <1>2, <1>4, <2>6, <2>7, RedoneTwice DEF Told, ToldWhole
<1>5. CASE ~r.call
  <2>1. t = d \o (<<Model(a, r.text)>> \o << >>)
    BY <1>5 DEF FinalFacts, NeedsRefusal
  <2>2. PICK m \in Message : m = Model(a, r.text)
    BY <1>3
  <2>3. d \o (<<m>> \o << >>) = Append(d, m)
    OBVIOUS
  <2>4. t = u
    BY <1>1, <2>1, <2>2, <2>3
  <2>5. QED
    BY <1>2, <1>5, <2>4 DEF Told, Refuses
<1>6. QED
  BY <1>4, <1>5

-----------------------------------------------------------------------------
(* The attempts up to n that are over: their calls are answered, and they  *)
(* were told to the store.                                                 *)
Past(m, d, smp, n) ==
  \A a \in 1..n : (smp[a].call => AnsweredIn(m, a)) /\ Told(d, smp[a], a)

(* What a step on attempt n may do to the transcript and to the record     *)
(* leaves the others over and everything true.                             *)
LEMMA StepOnOthers ==
  ASSUME NEW n \in Nat, n > 0, NEW R, NEW Q, \A b : b # n => (b \in R <=> b \in Q),
         NEW m, NEW d, Sound(m, d, n, R), NEW smp, Past(m, d, smp, n - 1),
         NEW t \in Seq(Message), NEW e \in Seq(Message), Redone(m, t, n), Redone(d, e, n),
         \A k \in Places(t, "results", n) : t[k].executed <=> n \in Q,
         \A k \in Places(e, "results", n) : e[k].executed <=> n \in Q
  PROVE  Sound(t, e, n, Q) /\ Past(t, e, smp, n - 1)
<1>1. m \in Seq(Message) /\ d \in Seq(Message) /\ n \in 1..n
  BY DEF Sound
<1>2. Begun(t) /\ Within(t, n) /\ Truthful(t, Q)
  BY <1>1, RedoneSound DEF Sound
<1>3. Within(e, n) /\ Truthful(e, Q)
  BY <1>1, RedoneSound DEF Sound
<1>4. ASSUME NEW a \in 1..(n - 1)
      PROVE  (smp[a].call => AnsweredIn(t, a)) /\ Told(e, smp[a], a)
  <2>1. a # n
    OBVIOUS
  <2>2. AnsweredIn(m, a) => AnsweredIn(t, a)
    BY ONLY <1>1, <2>1, t \in Seq(Message), Redone(m, t, n), RedoneOthers
  <2>3. /\ Places(e, "model", a) = Places(d, "model", a)
        /\ Places(e, "results", a) = Places(d, "results", a)
    BY ONLY <1>1, <2>1, e \in Seq(Message), Redone(d, e, n), RedoneOthers
  <2>4. \A kind \in {"model", "results"} : Once(d, kind, a) => Once(e, kind, a)
    BY <2>3 DEF Once, Places
  <2>5. Told(d, smp[a], a)
    BY DEF Past
  <2>6. Told(e, smp[a], a)
    BY <2>3, <2>4, <2>5 DEF Told
  <2>7. QED
    BY <2>2, <2>6 DEF Past
<1>5. QED
  BY <1>2, <1>3, <1>4 DEF Sound, Past

(* One attempt more is over.                                               *)
LEMMA PastMore ==
  ASSUME NEW n \in Nat, n > 0, NEW m, NEW d, NEW smp, Past(m, d, smp, n - 1),
         smp[n].call => AnsweredIn(m, n), Told(d, smp[n], n)
  PROVE  Past(m, d, smp, n)
<1>1. \A a \in 1..n : a \in 1..(n - 1) \/ a = n
  OBVIOUS
<1>2. QED
  BY <1>1 DEF Past

(* Attempt n is finished, with or without its call, from a transcript s    *)
(* that its own hooks or a placeholder made of m: it is over.              *)
LEMMA Finishing ==
  ASSUME NEW n \in Nat, n > 0, NEW R, n \notin R,
         NEW m, NEW d, Sound(m, d, n, R), NEW smp, Past(m, d, smp, n - 1), Untold(d, n),
         NEW s \in Seq(Message), Redone(m, s, n), Ready(s, n),
         NEW r, r.text \in Text, r.call => Open(s, n), smp[n].call = r.call,
         NEW q, q.text \in Text, q.call = r.call, NEW x, Ready(x, n),
         NEW t, t = Finalized(s, n, r), NEW e, e = d \o FinalFacts(x, n, q)
  PROVE  Sound(t, e, n, R) /\ Past(t, e, smp, n)
<1>1. m \in Seq(Message) /\ d \in Seq(Message)
  BY DEF Sound
<1>2. /\ t \in Seq(Message) /\ Redone(s, t, n)
      /\ Refuses(t, n)
      /\ r.call => AnsweredIn(t, n)
  BY FinalizedRedoes
<1>3. Redone(m, t, n)
  BY <1>1, <1>2, RedoneTwice
<1>4. /\ e \in Seq(Message) /\ Redone(d, e, n) /\ Told(e, q, n) /\ Once(e, "model", n)
      /\ Refuses(e, n)
  <2>1. PICK f : f = FinalFacts(x, n, q)
    OBVIOUS
  <2>2. e = d \o f
    BY <2>1
  <2>3. QED
    BY <1>1, <2>1, <2>2, FactsTold
<1>5. Told(e, smp[n], n)
  BY <1>4 DEF Told
<1>6. Sound(t, e, n, R) /\ Past(t, e, smp, n - 1)
  <2>1. \A k \in Places(t, "results", n) : t[k].executed <=> n \in R
    BY <1>2 DEF Refuses
  <2>2. \A k \in Places(e, "results", n) : e[k].executed <=> n \in R
    BY <1>4 DEF Refuses
  <2>3. QED
    BY ONLY <1>2, <1>3, <1>4, <2>1, <2>2, n \in Nat, n > 0, Sound(m, d, n, R),
            Past(m, d, smp, n - 1), StepOnOthers
<1>7. QED
  BY <1>2, <1>5, <1>6, PastMore

(* A message of the user, or an error of a hook, added to a transcript     *)
(* whose attempts are over.                                                *)
LEMMA Adding ==
  ASSUME NEW n \in Nat, n > 0, NEW R, NEW m, NEW d, Sound(m, d, n, R),
         NEW smp, NEW o \in 0..n, Past(m, d, smp, o),
         NEW x \in Message, x.kind = "user" \/ IsOf(x, "hook", n), NEW t, t = Append(m, x)
  PROVE  Sound(t, d, n, R) /\ Past(t, d, smp, o)
<1>1. m \in Seq(Message) /\ d \in Seq(Message) /\ n \in 1..n
  BY DEF Sound
<1>2. x.kind \in {"user", "hook"} /\ (x.kind = "user" \/ x.of \in 1..n)
  BY <1>1 DEF IsOf
<1>3. /\ t \in Seq(Message) /\ Len(t) = Len(m) + 1 /\ t[Len(m) + 1] = x
      /\ \A k \in 1..Len(m) : t[k] = m[k]
  BY <1>1, AppendElements
<1>4. DOMAIN t = 1..(Len(m) + 1) /\ DOMAIN m = 1..Len(m) /\ Len(m) \in Nat
  BY <1>1, <1>3
<1>5. \A k \in 1..(Len(m) + 1) : k \in 1..Len(m) \/ k = Len(m) + 1
  BY <1>4
<1>6. Begun(t)
  BY <1>3, <1>4 DEF Begun, Sound
<1>7. Within(t, n)
  BY <1>2, <1>3, <1>4, <1>5 DEF Within, Sound
<1>8. Truthful(t, R)
  BY <1>2, <1>3, <1>4, <1>5 DEF Truthful, Sound
<1>9. \A a \in 1..o : AnsweredIn(m, a) => AnsweredIn(t, a)
  BY <1>1, <1>2, AppendAnswered
<1>10. QED
  BY <1>3, <1>6, <1>7, <1>8, <1>9 DEF Sound, Past

(* What compaction makes of a transcript in which attempt n is open.       *)
LEMMA Compacting ==
  ASSUME NEW n \in Nat, n > 0, NEW R, NEW m, NEW d, Sound(m, d, n, R),
         NEW smp, Past(m, d, smp, n - 1), Open(m, n),
         NEW t, t \in {Summarised(m), Collapsed(m)}
  PROVE  Sound(t, d, n, R) /\ Past(t, d, smp, n - 1) /\ Open(t, n)
<1>1. m \in Seq(Message) /\ d \in Seq(Message) /\ UserMessage \in Message
  BY MessageTypes DEF Sound
<1>2. UserMessage.kind = "user"
  BY DEF UserMessage
<1>3. DOMAIN m = 1..Len(m) /\ Len(m) \in Nat
  BY <1>1
<1>4. CASE t = m
  BY <1>4
<1>5. CASE t # m /\ t = Summarised(m)
  <2>1. /\ KeepRecent \in Nat /\ KeepRecent < Len(m)
        /\ t = <<UserMessage>> \o SubSeq(m, Len(m) - KeepRecent + 1, Len(m))
    <3>1. KeepRecent \in Nat
      BY LimitAssumption
    <3>2. /\ ~(Len(m) <= IF config.reactive THEN KeepRecent ELSE KeepRecent + 1)
          /\ t = <<UserMessage>> \o SubSeq(m, Len(m) - KeepRecent + 1, Len(m))
      BY ONLY <1>5 DEF Summarised
    <3>3. KeepRecent < Len(m)
      BY ONLY <1>3, <3>1, <3>2
    <3>4. QED
      BY <3>1, <3>2, <3>3
  <2>2. PICK f \in 1..Len(m) : f = Len(m) - KeepRecent
    <3>1. Len(m) - KeepRecent \in 1..Len(m)
      BY <1>3, <2>1
    <3>2. QED
      BY <3>1
  <2>3. PICK u : u = SubSeq(m, f + 1, Len(m))
    OBVIOUS
  <2>4. /\ u \in Seq(Message) /\ Len(u) = Len(m) - f
        /\ \A k \in 1..(Len(m) - f) : u[k] = m[f + k]
    BY <1>1, <2>2, <2>3
  <2>5. t = <<UserMessage>> \o u
    BY <2>1, <2>2, <2>3
  <2>6. <<UserMessage>> \in Seq(Message) /\ Len(<<UserMessage>>) = 1
    BY <1>1
  <2>7. /\ t \in Seq(Message) /\ Len(t) = Len(m) - f + 1 /\ t[1] = UserMessage
        /\ \A k \in 2..(Len(m) - f + 1) : t[k] = u[k - 1]
    BY <1>1, <2>4, <2>5, <2>6, ConcatProperties
  <2>8. PICK g \in Nat : g = f - 1
    OBVIOUS
  <2>9. \A k \in 2..Len(t) : t[k] = m[k + g] /\ k + g \in 1..Len(m)
    <3>1. ASSUME NEW k \in 2..Len(t)
          PROVE  t[k] = m[k + g] /\ k + g \in 1..Len(m)
      <4>1. k \in 2..(Len(m) - f + 1) /\ k - 1 \in 1..(Len(m) - f)
        BY <1>3, <2>7
      <4>2. t[k] = u[k - 1] /\ u[k - 1] = m[f + (k - 1)]
        BY <2>4, <2>7, <4>1
      <4>3. f + (k - 1) = k + g /\ k + g \in 1..Len(m)
        BY <1>3, <2>8, <4>1
      <4>4. QED
        BY <4>2, <4>3
    <3>2. QED
      BY <3>1
  <2>10. Len(t) + g = Len(m) /\ DOMAIN t = 1..Len(t) /\ Len(t) \in Nat /\ Len(t) > 0
    BY <1>3, <2>7, <2>8
  <2>11. ASSUME NEW kind, NEW a, kind # "user"
         PROVE  /\ \A k \in Places(t, kind, a) : k \in 2..Len(t) /\ k + g \in Places(m, kind, a)
                /\ \A k \in 2..Len(t) : k + g \in Places(m, kind, a) => k \in Places(t, kind, a)
    <3>1. ~IsOf(t[1], kind, a)
      BY <1>2, <2>7, <2>11 DEF IsOf
    <3>2. \A k \in 1..Len(t) : k = 1 \/ k \in 2..Len(t)
      BY <2>10
    <3>3. \A k \in 2..Len(t) : k \in 1..Len(t)
      BY <2>10
    <3>4. QED
      BY <1>3, <2>9, <2>10, <3>1, <3>2, <3>3 DEF Places
  <2>12. Begun(t) /\ Within(t, n) /\ Truthful(t, R)
    <3>1. \A k \in 1..Len(t) : k = 1 \/ k \in 2..Len(t)
      BY <2>10
    <3>2. \A k \in 1..Len(t) : t[k].kind = "user" \/ \E j \in 1..Len(m) : t[k] = m[j]
      BY <1>2, <2>7, <2>9, <3>1
    <3>3. Within(t, n)
      BY <1>3, <2>10, <3>2 DEF Within, Sound
    <3>4. Truthful(t, R)
      BY <1>3, <2>10, <3>2 DEF Truthful, Sound
    <3>5. QED
      BY <1>2, <2>7, <2>10, <3>3, <3>4 DEF Begun
  <2>13. ASSUME NEW a, AnsweredIn(m, a) PROVE AnsweredIn(t, a)
    <3>1. ASSUME NEW i \in Places(t, "model", a)
          PROVE  \E j \in Places(t, "results", a) :
                   /\ Places(t, "results", a) = {j}
                   /\ i < j
                   /\ \A k \in (i + 1)..(j - 1) : IsOf(t[k], "hook", a)
      <4>1. i \in 2..Len(t) /\ i + g \in Places(m, "model", a)
        BY <2>11, <3>1
      <4>2. PICK h \in Places(m, "results", a) :
              /\ Places(m, "results", a) = {h}
              /\ i + g < h
              /\ \A k \in (i + g + 1)..(h - 1) : IsOf(m[k], "hook", a)
        BY <2>13, <4>1 DEF AnsweredIn
      <4>3. h \in 1..Len(m)
        BY <1>3, <4>2 DEF Places
      <4>4. PICK j \in 2..Len(t) : j + g = h
        <5>1. h - g \in 2..Len(t) /\ (h - g) + g = h
          BY <1>3, <2>10, <4>1, <4>2, <4>3
        <5>2. QED
          BY <5>1
      <4>5. j \in Places(t, "results", a) /\ i < j
        <5>1. j + g \in Places(m, "results", a)
          BY <4>2, <4>4
        <5>2. j \in Places(t, "results", a)
          BY <2>11, <4>4, <5>1
        <5>3. i < j
          BY ONLY <2>10, <4>1, <4>2, <4>4, g \in Nat
        <5>4. QED
          BY <5>2, <5>3
      <4>6. \A l \in Places(t, "results", a) : l = j
        <5>1. \A l \in Places(t, "results", a) : l \in 2..Len(t) /\ l + g = h
          BY <2>11, <4>2
        <5>2. QED
          BY <4>4, <5>1
      <4>7. \A k \in (i + 1)..(j - 1) : IsOf(t[k], "hook", a)
        <5>1. ASSUME NEW k \in (i + 1)..(j - 1) PROVE IsOf(t[k], "hook", a)
          <6>1. k \in 2..Len(t) /\ k + g \in (i + g + 1)..(h - 1)
            BY <2>10, <4>1, <4>4
          <6>2. QED
            BY <2>9, <4>2, <6>1
        <5>2. QED
          BY <5>1
      <4>8. QED
        BY <4>5, <4>6, <4>7
    <3>2. QED
      BY <3>1 DEF AnsweredIn
  <2>14. Open(t, n)
    <3>1. Places(t, "results", n) = {}
      BY <2>11 DEF Open
    <3>2. ASSUME NEW i \in Places(t, "model", n), NEW k \in (i + 1)..Len(t)
          PROVE  IsOf(t[k], "hook", n)
      <4>1. i \in 2..Len(t) /\ i + g \in Places(m, "model", n)
        BY <2>11, <3>2
      <4>2. k \in 2..Len(t) /\ k + g \in (i + g + 1)..Len(m)
        BY <2>10, <3>2, <4>1
      <4>3. IsOf(m[k + g], "hook", n)
        BY <4>1, <4>2 DEF Open
      <4>4. QED
        BY <2>9, <4>2, <4>3
    <3>3. QED
      BY <3>1, <3>2 DEF Open
  <2>15. QED
    BY <2>7, <2>12, <2>13, <2>14 DEF Sound, Past
<1>6. CASE t = Collapsed(m)
  <2> DEFINE I == {i \in 1..Len(m) : m[i].kind # "model"}
  <2>1. PICK j \in I : t = <<UserMessage, m[j]>>
    <3>1. 1 \in I
      BY <1>3 DEF Sound, Begun
    <3>2. PICK h \in I : \A i \in I : i <= h
      <4>1. I \in SUBSET (1..Len(m)) /\ Len(m) \in Nat /\ I # {}
        BY <1>3, <3>1
      <4> HIDE DEF I
      <4>2. QED
        BY <4>1, Greatest
    <3>3. \E x \in I : \A y \in I : x >= y
      BY <3>2
    <3>4. Max(I) \in I
      BY <3>3 DEF Max
    <3>5. t = <<UserMessage, m[Max(I)]>>
      BY <1>6, <3>1 DEF Collapsed, SelectLastInSeq
    <3>6. QED
      BY <3>4, <3>5
  <2>2. j \in 1..Len(m) /\ m[j] \in Message /\ m[j].kind # "model"
    BY <1>1
  <2>3. t \in Seq(Message) /\ Len(t) = 2 /\ t[1] = UserMessage /\ t[2] = m[j] /\ DOMAIN t = 1..2
    BY <1>1, <2>1, <2>2
  <2>4. \A k \in 1..2 : k = 1 \/ k = 2
    OBVIOUS
  <2>5. \A a : Places(t, "model", a) = {}
    BY <1>2, <2>2, <2>3, <2>4 DEF Places, IsOf
  <2>6. Places(t, "results", n) = {}
    <3>1. ~IsOf(m[j], "results", n)
      BY <1>3, <2>2 DEF Open, Places
    <3>2. QED
      BY <1>2, <2>3, <2>4, <3>1 DEF Places, IsOf
  <2>7. Begun(t) /\ Within(t, n) /\ Truthful(t, R)
    <3>1. Within(t, n)
      BY <1>2, <1>3, <2>2, <2>3, <2>4 DEF Within, Sound
    <3>2. Truthful(t, R)
      BY <1>2, <1>3, <2>2, <2>3, <2>4 DEF Truthful, Sound
    <3>3. QED
      BY <1>2, <2>3, <3>1, <3>2 DEF Begun
  <2>8. QED
    BY <2>3, <2>5, <2>6, <2>7 DEF Sound, Past, AnsweredIn, Open
<1>7. QED
  BY <1>4, <1>5, <1>6

-----------------------------------------------------------------------------
(* The transcript and the record at every place of the loop: between turns *)
(* all attempts are over; while the last response is worked with, it is    *)
(* open and untold; while its tool runs, it is open and told.              *)
Working == {"hooks", "compact", "compacting", "settle", "stopped"}
Tooling == {"tools", "execute", "executed", "refused"}

OpenAttempt ==
  /\ attempt > 0 /\ attempt \notin ran /\ Open(messages, attempt)
  /\ Past(messages, durable, sampled, attempt - 1)

\* The call of the response was told, its result was not, and its tool ran only
\* where the loop knows it.
OpenCall ==
  /\ attempt > 0 /\ Open(messages, attempt) /\ response.call
  /\ Past(messages, durable, sampled, attempt - 1)
  /\ Places(messages, "model", attempt) # {}
  /\ Once(durable, "model", attempt) /\ Places(durable, "results", attempt) = {}
  /\ attempt \in ran <=> pc = "executed"

RecordInv ==
  /\ Sound(messages, durable, attempt, ran)
  /\ pc \notin Working \cup Tooling => Past(messages, durable, sampled, attempt)
  /\ pc \in Working => OpenAttempt /\ Untold(durable, attempt)
  /\ pc \in Tooling => OpenCall
  /\ pc \in {"compact", "compacting", "stopped"} => config.path = "anthropic"
  /\ pc \in {"hooks", "settle"} /\ config.path = "provider" =>
       About(messages[Len(messages)], attempt)

(* Every response has a text, the last one too.                            *)
LEMMA Responses ==
  ASSUME TypeOK
  PROVE  /\ attempt \in Nat
         /\ \A a \in 1..attempt : sampled[a].text \in Text
         /\ attempt > 0 => response = sampled[attempt] /\ response.text \in Text
<1>1. attempt \in Nat /\ \A a \in 1..attempt : sampled[a] \in Response
  BY DEF TypeOK, attempt
<1>2. \A a \in 1..attempt : sampled[a].text \in Text
  BY <1>1 DEF Response, Text
<1>3. QED
  BY <1>1, <1>2 DEF response

(* Moving on without touching the transcript.                              *)
LEMMA Resting ==
  ASSUME RecordInv, UNCHANGED <<messages, durable, sampled, ran, config>>,
         pc \notin Working \cup Tooling, pc' \notin Working \cup Tooling
  PROVE  RecordInv'
<1>1. attempt' = attempt
  BY DEF attempt
<1>2. Sound(messages, durable, attempt, ran)' /\ Past(messages, durable, sampled, attempt)'
  BY <1>1 DEF RecordInv, Sound, Past, Told, HasMaterial
<1>3. QED
  BY <1>2 DEF RecordInv, Working, Tooling

(* The response stays open, in a transcript that may be another.           *)
LEMMA StillWorking ==
  ASSUME RecordInv, UNCHANGED <<durable, sampled, ran, config>>,
         pc \in Working, pc' \in Working, attempt > 0, TypeOK,
         Sound(messages', durable, attempt, ran), Open(messages', attempt),
         Past(messages', durable, sampled, attempt - 1),
         pc' \in {"compact", "compacting", "stopped"} => config.path = "anthropic",
         pc' \in {"hooks", "settle"} /\ config.path = "provider" =>
           About(messages'[Len(messages')], attempt)
  PROVE  RecordInv'
<1>1. attempt' = attempt
  BY DEF attempt
<1>2. OpenAttempt' /\ Untold(durable, attempt)'
  BY <1>1 DEF RecordInv, OpenAttempt, Untold
<1>3. Sound(messages, durable, attempt, ran)'
  BY <1>1
<1>4. QED
  BY <1>1, <1>2, <1>3 DEF RecordInv, Working, Tooling

(* The last attempt is over.                                               *)
LEMMA Over ==
  ASSUME UNCHANGED <<sampled, ran>>, pc' \notin Working \cup Tooling,
         Sound(messages', durable', attempt, ran),
         Past(messages', durable', sampled, attempt)
  PROVE  RecordInv'
<1>1. attempt' = attempt
  BY DEF attempt
<1>2. Sound(messages, durable, attempt, ran)' /\ Past(messages, durable, sampled, attempt)'
  BY <1>1
<1>3. QED
  BY <1>2 DEF RecordInv, Working, Tooling

(* The response is finished as the transcript stands.                      *)
LEMMA FinishOpen ==
  ASSUME RecordInv, TypeOK, pc \in Working, UNCHANGED <<sampled, ran>>, pc' \in {"top", "done"},
         Finalize(messages, attempt, response)
  PROVE  RecordInv'
<1>1. /\ Sound(messages, durable, attempt, ran) /\ OpenAttempt /\ Untold(durable, attempt)
      /\ attempt \in Nat /\ attempt > 0 /\ response.text \in Text
      /\ response = sampled[attempt] /\ messages \in Seq(Message)
  BY Responses DEF RecordInv, OpenAttempt, Sound
<1>2. Ready(messages, attempt) /\ Redone(messages, messages, attempt)
  BY <1>1, OpenReady, RedoneNot DEF OpenAttempt
<1>3. /\ Sound(messages', durable', attempt, ran)
      /\ Past(messages', durable', sampled, attempt)
  BY <1>1, <1>2, Finishing DEF Finalize, OpenAttempt
<1>4. QED
  BY <1>3, Over DEF Working, Tooling

(* The errors of the hooks of an open attempt join the transcript.         *)
LEMMA HookJoins ==
  ASSUME RecordInv, TypeOK, pc \in Working, NEW s, s = Append(messages, HookError(attempt))
  PROVE  /\ s \in Seq(Message) /\ Redone(messages, s, attempt) /\ Open(s, attempt)
         /\ Sound(s, durable, attempt, ran) /\ Past(s, durable, sampled, attempt - 1)
         /\ About(s[Len(s)], attempt)
<1>1. /\ Sound(messages, durable, attempt, ran) /\ OpenAttempt
      /\ attempt \in Nat /\ attempt > 0 /\ messages \in Seq(Message)
  BY Responses DEF RecordInv, OpenAttempt, Sound
<1>2. PICK x \in Message : x = HookError(attempt)
  BY <1>1, MessageTypes
<1>3. x.kind = "hook" /\ IsOf(x, "hook", attempt) /\ About(x, attempt)
  BY <1>2 DEF HookError, IsOf, About
<1>4. /\ s \in Seq(Message) /\ Len(s) = Len(messages) + 1 /\ s[Len(messages) + 1] = x
      /\ \A k \in 1..Len(messages) : s[k] = messages[k]
  BY <1>1, <1>2, AppendElements
<1>5. Redone(messages, s, attempt)
  BY <1>1, <1>2, <1>3, AppendRedoes
<1>6. /\ Places(s, "model", attempt) = Places(messages, "model", attempt)
      /\ Places(s, "results", attempt) = Places(messages, "results", attempt)
  <2>1. ~IsOf(x, "model", attempt) /\ ~IsOf(x, "results", attempt)
    BY <1>3 DEF IsOf
  <2>2. QED
    BY <1>1, <1>2, <2>1, AppendPlaces
<1>7. Open(s, attempt)
  <2>1. ASSUME NEW i \in Places(messages, "model", attempt), NEW k \in (i + 1)..Len(s)
        PROVE  IsOf(s[k], "hook", attempt)
    <3>1. i \in 1..Len(messages)
      BY <1>1 DEF Places
    <3>2. CASE k = Len(messages) + 1
      BY <1>3, <1>4, <3>2
    <3>3. CASE k # Len(messages) + 1
      <4>1. k \in (i + 1)..Len(messages) /\ k \in 1..Len(messages)
        BY <1>1, <1>4, <3>1, <3>3
      <4>2. QED
        BY <1>1, <1>4, <4>1 DEF OpenAttempt, Open
    <3>4. QED
      BY <3>2, <3>3
  <2>2. QED
    BY <1>1, <1>6, <2>1 DEF OpenAttempt, Open
<1>8. Sound(s, durable, attempt, ran) /\ Past(s, durable, sampled, attempt - 1)
  <2>1. attempt - 1 \in 0..attempt
    BY <1>1
  <2>2. QED
    BY <1>1, <1>2, <1>3, <2>1, Adding DEF OpenAttempt
<1>9. QED
  BY <1>1, <1>3, <1>4, <1>5, <1>7, <1>8

(* An attempt is finished from the transcript s its hooks left, and a      *)
(* message may be added after it.                                          *)
LEMMA FinishHooked ==
  ASSUME RecordInv, TypeOK, pc \in Working, UNCHANGED <<sampled, ran>>, pc' \in {"top", "done"},
         NEW s, s = Append(messages, HookError(attempt)),
         Finalize(s, attempt, response)
  PROVE  RecordInv'
<1>1. /\ Sound(messages, durable, attempt, ran) /\ OpenAttempt /\ Untold(durable, attempt)
      /\ attempt \in Nat /\ attempt > 0 /\ response.text \in Text
      /\ response = sampled[attempt] /\ messages \in Seq(Message)
  BY Responses DEF RecordInv, OpenAttempt, Sound
<1>2. s \in Seq(Message) /\ Redone(messages, s, attempt) /\ Open(s, attempt)
  BY HookJoins
<1>3. Ready(s, attempt)
  BY <1>2, OpenReady
<1>4. /\ Sound(messages', durable', attempt, ran)
      /\ Past(messages', durable', sampled, attempt)
  BY <1>1, <1>2, <1>3, Finishing DEF Finalize, OpenAttempt
<1>5. QED
  BY <1>4, Over DEF Working, Tooling

(* The response is finished, and a message added after it.                 *)
LEMMA FinishAndAdd ==
  ASSUME RecordInv, TypeOK, pc \in Working, UNCHANGED <<sampled, ran>>, pc' \in {"top", "done"},
         NEW x \in {UserMessage, HookError(attempt)},
         messages' = Append(Finalized(messages, attempt, response), x),
         durable' = durable \o FinalFacts(messages, attempt, response)
  PROVE  RecordInv'
<1>1. /\ Sound(messages, durable, attempt, ran) /\ OpenAttempt /\ Untold(durable, attempt)
      /\ attempt \in Nat /\ attempt > 0 /\ response.text \in Text
      /\ response = sampled[attempt] /\ messages \in Seq(Message)
  BY Responses DEF RecordInv, OpenAttempt, Sound
<1>2. Ready(messages, attempt) /\ Redone(messages, messages, attempt)
  BY <1>1, OpenReady, RedoneNot DEF OpenAttempt
<1>3. PICK t : t = Finalized(messages, attempt, response)
  OBVIOUS
<1>4. Sound(t, durable', attempt, ran) /\ Past(t, durable', sampled, attempt)
  BY <1>1, <1>2, <1>3, Finishing DEF OpenAttempt
<1>5. x \in Message /\ (x.kind = "user" \/ IsOf(x, "hook", attempt))
  <2>1. UserMessage.kind = "user" /\ IsOf(HookError(attempt), "hook", attempt)
    BY DEF UserMessage, HookError, IsOf
  <2>2. UserMessage \in Message /\ HookError(attempt) \in Message
    BY <1>1, MessageTypes
  <2>3. QED
    BY <2>1, <2>2
<1>6. attempt \in 0..attempt
  BY <1>1
<1>7. Sound(messages', durable', attempt, ran) /\ Past(messages', durable', sampled, attempt)
  <2>1. messages' = Append(t, x)
    BY <1>3
  <2>2. QED
    BY <1>1, <1>4, <1>5, <1>6, <2>1, Adding
<1>8. QED
  BY <1>7, Over DEF Working, Tooling

(* A response without content is taken out and the model asked again.      *)
LEMMA TakenOut ==
  ASSUME RecordInv, TypeOK, pc \in Working, UNCHANGED <<sampled, ran>>, pc' \in {"top", "done"},
         ~HasMaterial(response),
         messages' = Append(Without(messages, attempt), UserMessage),
         durable' = durable \o << >>
  PROVE  RecordInv'
<1>1. /\ Sound(messages, durable, attempt, ran) /\ OpenAttempt /\ Untold(durable, attempt)
      /\ attempt \in Nat /\ attempt > 0 /\ attempt \notin ran
      /\ response = sampled[attempt] /\ messages \in Seq(Message) /\ durable \in Seq(Message)
      /\ Open(messages, attempt) /\ Past(messages, durable, sampled, attempt - 1)
  BY Responses DEF RecordInv, OpenAttempt, Sound
<1>2. PICK t : t = Without(messages, attempt)
  OBVIOUS
<1>3. t \in Seq(Message) /\ Redone(messages, t, attempt) /\ Places(t, "results", attempt) = {}
  BY <1>1, <1>2, WithoutRedoes
<1>4. durable' = durable
  BY <1>1
<1>5. Sound(t, durable, attempt, ran) /\ Past(t, durable, sampled, attempt - 1)
  <2>1. /\ \A k \in Places(t, "results", attempt) : t[k].executed <=> attempt \in ran
        /\ \A k \in Places(durable, "results", attempt) :
              durable[k].executed <=> attempt \in ran
    BY <1>1, <1>3 DEF Untold
  <2>2. Redone(durable, durable, attempt)
    BY <1>1, RedoneNot
  <2>3. QED
    BY <1>1, <1>3, <2>1, <2>2, StepOnOthers
<1>6. Past(t, durable, sampled, attempt)
  <2>1. ~response.call /\ Told(durable, response, attempt)
    BY <1>1 DEF HasMaterial, Told, Untold
  <2>2. QED
    BY <1>1, <1>5, <2>1, PastMore
<1>7. UserMessage \in Message /\ UserMessage.kind = "user"
  BY MessageTypes DEF UserMessage
<1>8. Sound(messages', durable', attempt, ran) /\ Past(messages', durable', sampled, attempt)
  <2>1. messages' = Append(t, UserMessage) /\ attempt \in 0..attempt
    BY <1>1, <1>2
  <2>2. QED
    BY <1>1, <1>4, <1>5, <1>6, <1>7, <2>1, Adding
<1>9. QED
  BY <1>8, Over DEF Working, Tooling

(* A new response: nothing is known of it yet.                             *)
LEMMA Beginning ==
  ASSUME RecordInv, TypeOK, pc = "stream", NEW r \in Response, sampled' = Append(sampled, r),
         NEW n, n = attempt + 1
  PROVE  /\ n \in Nat /\ n > 0 /\ n = attempt' /\ n \notin ran /\ n - 1 = attempt
         /\ Sound(messages, durable, n, ran) /\ messages \in Seq(Message)
         /\ durable \in Seq(Message)
         /\ Past(messages, durable, sampled', n - 1)
         /\ Open(messages, n) /\ Untold(durable, n) /\ Places(messages, "model", n) = {}
         /\ sampled'[n] = r /\ r.text \in Text
<1>1. /\ attempt \in Nat /\ n \in Nat /\ n > 0 /\ n = attempt' /\ n - 1 = attempt
      /\ sampled'[n] = r /\ \A a \in 1..attempt : sampled'[a] = sampled[a]
  BY DEF TypeOK, attempt
<1>2. n \notin ran /\ r.text \in Text
  BY <1>1 DEF TypeOK, Response, Text
<1>3. /\ Sound(messages, durable, attempt, ran)
      /\ Past(messages, durable, sampled, attempt)
  BY DEF RecordInv, Working, Tooling
<1>4. messages \in Seq(Message) /\ durable \in Seq(Message)
  BY <1>3 DEF Sound
<1>5. Past(messages, durable, sampled', n - 1)
  BY <1>1, <1>3 DEF Past
<1>6. Within(messages, n) /\ Within(durable, n)
  BY <1>1, <1>3 DEF Sound, Within
<1>7. ASSUME NEW s, Within(s, attempt), NEW kind, kind # "user" PROVE Places(s, kind, n) = {}
  BY <1>1, <1>7 DEF Within, Places, IsOf
<1>8. /\ Places(messages, "model", n) = {} /\ Places(messages, "results", n) = {}
      /\ Places(durable, "model", n) = {} /\ Places(durable, "results", n) = {}
  BY <1>3, <1>7 DEF Sound
<1>9. QED
  BY <1>1, <1>2, <1>3, <1>4, <1>5, <1>6, <1>8 DEF Sound, Open, Untold

(* A response comes in: it is finished at once, dropped for a retry if it  *)
(* is empty, or worked with.                                               *)
LEMMA ReceiveRecord ==
  ASSUME RecordInv, TypeOK, Receive
  PROVE  RecordInv'
<1>1. PICK end \in StreamEnd, r \in Response :
        /\ sampled' = Append(sampled, r)
        /\ \/ ReceiveHandover(end, r, attempt + 1) \/ Retry(end, r, attempt + 1)
           \/ ReceiveCut(end, r, attempt + 1) \/ ReceiveWhole(end, r, attempt + 1)
  BY DEF Receive
<1>2. pc = "stream" /\ ran' = ran /\ config' = config
  BY DEF Receive, historyVars, envVars
<1>3. PICK n : n = attempt + 1
  OBVIOUS
<1>4. /\ n \in Nat /\ n > 0 /\ n = attempt' /\ n \notin ran /\ n - 1 = attempt
      /\ Sound(messages, durable, n, ran) /\ messages \in Seq(Message)
      /\ durable \in Seq(Message)
      /\ Past(messages, durable, sampled', n - 1)
      /\ Open(messages, n) /\ Untold(durable, n) /\ Places(messages, "model", n) = {}
      /\ sampled'[n] = r /\ r.text \in Text
  BY <1>1, <1>2, <1>3, Beginning
<1>5. Ready(messages, n) /\ Redone(messages, messages, n)
  BY <1>4, OpenReady, RedoneNot
<1>6. ASSUME Finalize(messages, n, r), pc' \in {"top", "done", "handover"}
      PROVE  RecordInv'
  <2>1. Sound(messages', durable', n, ran) /\ Past(messages', durable', sampled', n)
    BY <1>4, <1>5, <1>6, Finishing DEF Finalize
  <2>2. QED
    BY <1>2, <1>4, <1>6, <2>1 DEF RecordInv, Working, Tooling
<1>7. CASE ReceiveHandover(end, r, n)
  BY <1>6, <1>7 DEF ReceiveHandover, GoTo
<1>8. CASE ReceiveCut(end, r, n)
  BY <1>6, <1>8 DEF ReceiveCut, Return
<1>9. CASE Retry(end, r, n)
  <2>1. CASE HasMaterial(r)
    BY <1>6, <1>9, <2>1 DEF Retry, GoTo
  <2>2. CASE ~HasMaterial(r)
    <3>1. UNCHANGED <<messages, durable>> /\ pc' = "top"
      BY <1>9, <2>2 DEF Retry, GoTo
    <3>2. ~r.call /\ Told(durable, r, n)
      BY <1>4, <2>2 DEF HasMaterial, Told, Untold
    <3>3. Past(messages, durable, sampled', n)
      BY <1>4, <3>2, PastMore
    <3>4. QED
      BY <1>2, <1>4, <3>1, <3>3 DEF RecordInv, Working, Tooling
  <2>3. QED
    BY <2>1, <2>2
<1>10. CASE ReceiveWhole(end, r, n)
  <2>1. CASE OverBudget(billed + 1)
    BY <1>6, <1>10, <2>1 DEF ReceiveWhole, Return
  <2>2. CASE ~OverBudget(billed + 1)
    <3>1. messages' = Append(messages, Model(n, r.text)) /\ pc' = "hooks" /\ durable' = durable
      BY <1>10, <2>2 DEF ReceiveWhole, GoTo
    <3>2. PICK m \in Message : m = Model(n, r.text)
      BY <1>4, MessageTypes
    <3>3. m.kind = "model" /\ m.of = n
      BY <3>2 DEF Model
    <3>4. IsOf(m, "model", n) /\ ~IsOf(m, "results", n) /\ About(m, n)
      BY <3>3 DEF IsOf, About
    <3>5. messages' = Append(messages, m)
      BY <3>1, <3>2
    <3>6. /\ messages' \in Seq(Message) /\ Len(messages') = Len(messages) + 1
          /\ messages'[Len(messages) + 1] = m
      BY <1>4, <3>5, AppendElements
    <3>7. Redone(messages, messages', n)
      BY <1>4, <3>4, <3>5, AppendRedoes
    <3>8. Places(messages', "results", n) = {}
      BY <1>4, <3>4, <3>5, AppendPlaces DEF Open
    <3>9. Places(messages', "model", n) = {Len(messages')}
      <4>1. Places(messages, "model", n) = {} /\ messages \in Seq(Message)
        BY <1>4 DEF Open
      <4>2. QED
        BY ONLY <3>4, <3>5, <4>1, m \in Message, PlacesAppended
    <3>10. Open(messages', n)
      <4>1. Len(messages') \in Nat
        BY <3>6
      <4>2. \A k \in (Len(messages') + 1)..Len(messages') : FALSE
        BY <4>1
      <4>3. QED
        BY <3>8, <3>9, <4>2 DEF Open
    <3>11. Sound(messages', durable, n, ran) /\ Past(messages', durable, sampled', n - 1)
      <4>1. /\ \A k \in Places(messages', "results", n) : messages'[k].executed <=> n \in ran
            /\ \A k \in Places(durable, "results", n) : durable[k].executed <=> n \in ran
        BY <1>4, <3>8 DEF Untold
      <4>2. Redone(durable, durable, n)
        BY <1>4, RedoneNot
      <4>3. PICK t, s : t = messages' /\ s = sampled'
        OBVIOUS
      <4>4. /\ n \in Nat /\ n > 0 /\ Sound(messages, durable, n, ran)
            /\ Past(messages, durable, s, n - 1)
            /\ t \in Seq(Message) /\ durable \in Seq(Message) /\ Redone(messages, t, n)
        BY <1>4, <3>6, <3>7, <4>3
      <4>5. Sound(t, durable, n, ran) /\ Past(t, durable, s, n - 1)
        BY ONLY <4>1, <4>2, <4>3, <4>4, StepOnOthers
      <4>6. QED
        BY <4>3, <4>5
    <3>12. OpenAttempt' /\ Untold(durable, attempt)'
      BY <1>2, <1>4, <3>1, <3>10, <3>11 DEF OpenAttempt, Untold
    <3>13. Sound(messages, durable, attempt, ran)' /\ About(messages[Len(messages)], attempt)'
      BY <1>2, <1>4, <3>1, <3>4, <3>6, <3>11
    <3>14. QED
      BY <3>1, <3>12, <3>13 DEF RecordInv, Working, Tooling
  <2>3. QED
    BY <2>1, <2>2
<1>11. QED
  BY <1>1, <1>3, <1>7, <1>8, <1>9, <1>10

-----------------------------------------------------------------------------
(* A step that leaves the transcript and goes on with the response.        *)
LEMMA GoesOn ==
  ASSUME RecordInv, TypeOK, UNCHANGED <<messages, durable, sampled, ran, config>>,
         pc \in Working, pc' \in {"compacting", "stopped", "settle"},
         config.path = "anthropic"
  PROVE  RecordInv'
<1>1. attempt > 0 /\ Sound(messages, durable, attempt, ran) /\ Open(messages, attempt)
      /\ Past(messages, durable, sampled, attempt - 1)
  BY DEF RecordInv, OpenAttempt
<1>2. pc' \in Working /\ config.path # "provider"
  BY DEF Working, Tooling
<1>3. QED
  BY <1>1, <1>2, StillWorking

(* Without the authority to work, the response is finished.                *)
LEMMA LeavesWork ==
  ASSUME RecordInv, TypeOK, pc \in Working, UNCHANGED <<sampled, ran>>, LeaveWork(messages)
  PROVE  RecordInv'
BY FinishOpen DEF LeaveWork, Return, GoTo

(* PostModelTurn: a veto ends the query, errors join the transcript, or    *)
(* nothing happens.                                                        *)
LEMMA HooksRecord ==
  ASSUME RecordInv, TypeOK, Veto \/ PostModelTurn
  PROVE  RecordInv'
<1>1. pc = "hooks" /\ pc \in Working /\ UNCHANGED <<sampled, ran, config>>
  BY DEF Veto, PostModelTurn, Working, Tooling, sampleVars, historyVars, envVars
<1>2. CASE Veto
  BY <1>1, <1>2, FinishAndAdd DEF Veto, Return
<1>3. CASE PostModelTurn
  <2>1. PICK s : /\ s = messages \/ s = Append(messages, HookError(attempt))
                 /\ IF authority = "work"
                    THEN /\ messages' = s /\ UNCHANGED durable
                         /\ GoTo(IF config.path = "anthropic" THEN "compact" ELSE "settle")
                    ELSE LeaveWork(s)
    BY <1>3 DEF PostModelTurn
  <2>2. CASE authority # "work"
    BY <1>1, <2>1, <2>2, LeavesWork, FinishHooked DEF LeaveWork, Return, GoTo
  <2>3. CASE authority = "work"
    <3>1. messages' = s /\ durable' = durable
          /\ pc' = IF config.path = "anthropic" THEN "compact" ELSE "settle"
      BY <2>1, <2>3 DEF GoTo
    <3>2. pc' \in Working
      BY <3>1 DEF Working, Tooling
    <3>3. /\ attempt > 0 /\ Sound(s, durable, attempt, ran) /\ Open(s, attempt)
          /\ Past(s, durable, sampled, attempt - 1)
          /\ config.path = "provider" => About(s[Len(s)], attempt)
      <4>1. CASE s = messages
        BY <1>1, <4>1 DEF RecordInv, OpenAttempt
      <4>2. CASE s = Append(messages, HookError(attempt))
        <5>1. attempt > 0
          BY <1>1 DEF RecordInv, OpenAttempt
        <5>2. QED
          BY <1>1, <4>2, <5>1, HookJoins
      <4>3. QED
        BY <2>1, <4>1, <4>2
    <3>4. pc' \in {"compact", "compacting", "stopped"} => config.path = "anthropic"
      BY <3>1
    <3>5. pc' \in {"hooks", "settle"} /\ config.path = "provider" =>
            About(messages'[Len(messages')], attempt)
      BY <3>1, <3>3
    <3>6. QED
      BY <1>1, <3>1, <3>2, <3>3, <3>4, <3>5, StillWorking
  <2>4. QED
    BY <2>2, <2>3
<1>4. QED
  BY <1>2, <1>3

(* Compaction replaces the transcript or fails, or there is nothing to     *)
(* compact.                                                                *)
LEMMA CompactRecord ==
  ASSUME RecordInv, TypeOK,
         StartCompact \/ Compact \/ CompactFails \/ CompactCancelled \/ NothingToCompact
  PROVE  RecordInv'
<1>1. /\ pc \in {"compact", "compacting"} /\ pc \in Working
      /\ UNCHANGED <<sampled, ran, config>>
  BY DEF StartCompact, Compact, CompactFails, CompactCancelled, NothingToCompact, Working, Tooling,
         recordVars, sampleVars, historyVars, envVars
<1>2. config.path = "anthropic"
  BY <1>1 DEF RecordInv
<1>3. CASE StartCompact
  BY <1>1, <1>2, <1>3, GoesOn DEF StartCompact, GoTo, recordVars
<1>4. CASE CompactFails
  BY <1>1, <1>4, LeavesWork, FinishOpen DEF CompactFails, Return
<1>5. CASE CompactCancelled
  BY <1>1, <1>5, FinishOpen DEF CompactCancelled, Return
<1>6. CASE NothingToCompact
  BY <1>1, <1>2, <1>6, GoesOn, LeavesWork DEF NothingToCompact, GoTo
<1>7. CASE Compact
  <2>1. PICK t \in {Summarised(messages), Collapsed(messages)} :
          IF authority = "work"
          THEN messages' = t /\ UNCHANGED durable /\ GoTo("settle")
          ELSE LeaveWork(messages)
    BY <1>7 DEF Compact
  <2>2. CASE authority # "work"
    BY <1>1, <2>1, <2>2, LeavesWork
  <2>3. CASE authority = "work"
    <3>1. messages' = t /\ durable' = durable /\ pc' = "settle"
      BY <2>1, <2>3 DEF GoTo
    <3>2. /\ attempt \in Nat /\ attempt > 0 /\ Sound(messages, durable, attempt, ran)
          /\ Open(messages, attempt) /\ Past(messages, durable, sampled, attempt - 1)
      BY <1>1, Responses DEF RecordInv, OpenAttempt
    <3>3. /\ Sound(t, durable, attempt, ran) /\ Open(t, attempt)
          /\ Past(t, durable, sampled, attempt - 1)
      BY <3>2, Compacting
    <3>4. pc' \in Working /\ config.path # "provider"
      BY <1>2, <3>1 DEF Working, Tooling
    <3>5. QED
      BY <1>1, <1>2, <3>1, <3>2, <3>3, <3>4, StillWorking
  <2>4. QED
    BY <2>2, <2>3
<1>8. QED
  BY <1>3, <1>4, <1>5, <1>6, <1>7

(* The model is asked to go on.                                            *)
LEMMA PushRecord ==
  ASSUME RecordInv, TypeOK, Nudge \/ Resume
  PROVE  RecordInv'
<1>1. /\ pc \in Working /\ UNCHANGED <<sampled, ran>> /\ KeepAndAsk(response)
  BY DEF Nudge, Resume, Working, Tooling, sampleVars, historyVars
<1>2. pc' \in {"top", "done"}
  BY <1>1 DEF KeepAndAsk, GoTo
<1>3. CASE HasMaterial(response)
  BY <1>1, <1>2, <1>3, FinishAndAdd DEF KeepAndAsk, KeptAndAsked
<1>4. CASE ~HasMaterial(response)
  BY <1>1, <1>2, <1>4, TakenOut DEF KeepAndAsk, KeptAndAsked
<1>5. QED
  BY <1>3, <1>4

(* The provider path writes its placeholder over the last message, which   *)
(* is about the response: the response itself, or an error of a hook.      *)
LEMMA PlaceholderReady ==
  ASSUME RecordInv, TypeOK, pc = "settle", config.path = "provider", ~response.call,
         NEW s, s = WithPlaceholder(messages, response)
  PROVE  s \in Seq(Message) /\ Redone(messages, s, attempt) /\ Ready(s, attempt)
<1>1. /\ attempt \in Nat /\ attempt > 0 /\ messages \in Seq(Message)
      /\ Begun(messages) /\ Open(messages, attempt)
      /\ About(messages[Len(messages)], attempt)
  BY Responses DEF RecordInv, OpenAttempt, Sound, Working, Tooling
<1>2. CASE ~Placeholder(response)
  <2>1. s = messages
    BY <1>2 DEF WithPlaceholder
  <2>2. QED
    BY <1>1, <2>1, RedoneNot, OpenReady
<1>3. CASE Placeholder(response)
  <2>1. PICK x \in Message : x = Model(attempt, "placeholder")
    BY <1>1, MessageTypes DEF Text
  <2>2. PICK n \in Nat : n = Len(messages) /\ n > 0
    BY <1>1 DEF Begun
  <2>3. s = ReplaceAt(messages, n, x) /\ n \in 1..Len(messages)
    BY <1>3, <2>1, <2>2 DEF WithPlaceholder
  <2>4. /\ s \in Seq(Message) /\ Len(s) = n /\ s[n] = x
        /\ \A k \in 1..n : k # n => s[k] = messages[k]
    <3>1. /\ ReplaceAt(messages, n, x) \in Seq(Message)
          /\ Len(ReplaceAt(messages, n, x)) = Len(messages)
          /\ ReplaceAt(messages, n, x)[n] = x
          /\ \A k \in 1..Len(messages) : k # n => ReplaceAt(messages, n, x)[k] = messages[k]
      BY ONLY <1>1, <2>1, <2>3, ReplaceAtElements
    <3>2. QED
      BY ONLY <2>2, <2>3, <3>1
  <2>5. x.kind = "model" /\ x.of = attempt
    BY <2>1 DEF Model
  <2>6. About(x, attempt) /\ ~IsOf(x, "results", attempt)
    BY <2>5 DEF About, IsOf
  <2>7. Redone(messages, s, attempt)
    <3>1. n - 1 \in 0..Len(messages) /\ n - 1 <= Len(s)
      BY <2>2, <2>4
    <3>2. \A k \in 1..(n - 1) : s[k] = messages[k]
      BY <2>2, <2>4
    <3>3. \A k \in (n - 1 + 1)..n : k = n
      BY <2>2
    <3>4. \A k \in (n - 1 + 1)..Len(messages) : About(messages[k], attempt)
      BY <1>1, <2>2, <3>3
    <3>5. \A k \in (n - 1 + 1)..Len(s) : About(s[k], attempt)
      BY <2>4, <2>6, <3>3
    <3>6. QED
      BY <3>1, <3>2, <3>4, <3>5 DEF Redone
  <2>8. \A k \in DOMAIN s : k \in 1..n /\ (k # n => s[k] = messages[k])
    BY <2>4
  <2>9. DOMAIN messages = 1..n
    BY <1>1, <2>2
  <2>10. Places(s, "results", attempt) = {}
    BY <1>1, <2>4, <2>6, <2>8, <2>9 DEF Open, Places
  <2>11. ASSUME NEW i \in Places(s, "model", attempt), NEW k \in (i + 1)..Len(s)
         PROVE  About(s[k], attempt)
    <3>1. i \in 1..n /\ k \in 1..n /\ i < k
      BY <2>2, <2>4, <2>8, <2>11 DEF Places
    <3>2. CASE k = n
      BY <2>4, <2>6, <3>2
    <3>3. CASE k # n
      <4>1. i # n /\ i \in Places(messages, "model", attempt) /\ k \in (i + 1)..Len(messages)
        BY <2>2, <2>4, <2>9, <2>11, <3>1, <3>3 DEF Places
      <4>2. IsOf(messages[k], "hook", attempt)
        BY <1>1, <4>1 DEF Open
      <4>3. QED
        BY <2>4, <3>1, <3>3, <4>2 DEF IsOf, About
    <3>4. QED
      BY <3>2, <3>3
  <2>12. QED
    BY <2>4, <2>7, <2>10, <2>11 DEF Ready
<1>4. QED
  BY <1>2, <1>3

(* The turn ends, with a placeholder on the provider path.                 *)
LEMMA EndRecord ==
  ASSUME RecordInv, TypeOK, EndTurn
  PROVE  RecordInv'
<1>1. /\ pc \in {"settle", "stopped"} /\ pc \in Working /\ UNCHANGED <<sampled, ran>>
      /\ config.path \in {"anthropic", "provider"}
      /\ pc = "settle" => config.path = "provider" /\ ~response.call
      /\ pc = "stopped" => config.path = "anthropic"
  BY ConfigAssumption DEF EndTurn, Working, Tooling, sampleVars, TypeOK, RecordInv
<1>2. CASE config.path = "anthropic"
  <2>1. ~Placeholder(response)
    BY <1>2 DEF Placeholder
  <2>2. WithPlaceholder(messages, response) = messages /\ Shown(response) = response
    BY <2>1 DEF WithPlaceholder, Shown
  <2>3. \/ LeaveWork(messages)
        \/ Finalize(messages, attempt, response) /\ pc' = "done"
    BY <2>2 DEF EndTurn, EndWith, Return
  <2>4. QED
    BY <1>1, <2>3, LeavesWork, FinishOpen
<1>3. CASE config.path = "provider"
  <2>1. PICK s : s = WithPlaceholder(messages, response)
    OBVIOUS
  <2>2. PICK r : r = Shown(response)
    OBVIOUS
  <2>3. Finalize(s, attempt, r) /\ pc' = "done" /\ pc = "settle" /\ ~response.call
    BY <1>1, <1>3, <2>1, <2>2 DEF EndTurn, EndWith, Return
  <2>4. s \in Seq(Message) /\ Redone(messages, s, attempt) /\ Ready(s, attempt)
    BY <1>3, <2>1, <2>3, PlaceholderReady
  <2>5. /\ Sound(messages, durable, attempt, ran) /\ attempt \notin ran /\ attempt > 0
        /\ Past(messages, durable, sampled, attempt - 1) /\ Untold(durable, attempt)
        /\ attempt \in Nat /\ response = sampled[attempt] /\ response.text \in Text
        /\ response \in Response
    BY <1>1, Responses DEF RecordInv, OpenAttempt, TypeOK, response, attempt
  <2>6. r.text \in Text /\ r.call = response.call
    BY <2>2, <2>5 DEF Shown, Response, Text
  <2>7. ~r.call /\ sampled[attempt].call = r.call
    BY <2>3, <2>5, <2>6
  <2>8. Sound(messages', durable', attempt, ran) /\ Past(messages', durable', sampled, attempt)
    BY <2>3, <2>4, <2>5, <2>6, <2>7, Finishing DEF Finalize
  <2>9. QED
    BY <1>1, <2>3, <2>8, Over DEF Working, Tooling
<1>4. QED
  BY <1>1, <1>2, <1>3

(* MaxTokens, Unsupported and StopHook finish the response or go on.       *)
LEMMA StopRecord ==
  ASSUME RecordInv, TypeOK, MaxTokens \/ Unsupported \/ StopHook
  PROVE  RecordInv'
<1>1. pc \in Working /\ UNCHANGED <<sampled, ran, config>>
  BY DEF MaxTokens, Unsupported, StopHook, Working, Tooling, sampleVars, historyVars, envVars
<1>2. CASE MaxTokens
  BY <1>1, <1>2, FinishOpen DEF MaxTokens, EndWith, Return
<1>3. CASE Unsupported
  BY <1>1, <1>3, LeavesWork, FinishOpen DEF Unsupported, Return
<1>4. CASE StopHook
  BY <1>1, <1>4, GoesOn, LeavesWork DEF StopHook, GoTo
<1>5. QED
  BY <1>2, <1>3, <1>4

(* The call is told before its tool runs, and its result after.            *)
LEMMA ToolsStartRecord ==
  ASSUME RecordInv, TypeOK, StartTools
  PROVE  RecordInv'
<1>1. /\ pc = "settle" /\ pc \in Working /\ UNCHANGED <<sampled, ran, config>>
      /\ response.call /\ pc' = "tools"
  BY DEF StartTools, RunsTool, Working, Tooling, GoTo, sampleVars, historyVars, envVars
<1>2. /\ attempt \in Nat /\ attempt > 0 /\ attempt \notin ran
      /\ Sound(messages, durable, attempt, ran) /\ Open(messages, attempt)
      /\ Past(messages, durable, sampled, attempt - 1) /\ Untold(durable, attempt)
      /\ messages \in Seq(Message) /\ durable \in Seq(Message)
  BY <1>1, Responses DEF RecordInv, OpenAttempt, Sound
<1>3. PICK text \in Text : text = response.text
  BY <1>2, Responses
<1>4. PICK t : t = Sync(messages, Model(attempt, text))
  OBVIOUS
<1>5. PICK e : e = Append(durable, Model(attempt, text))
  OBVIOUS
<1>6. messages' = t /\ durable' = e
  BY <1>3, <1>4, <1>5 DEF StartTools
<1>7. /\ t \in Seq(Message) /\ Redone(messages, t, attempt)
      /\ Places(t, "model", attempt) # {} /\ Open(t, attempt)
  BY <1>2, <1>4, OpenReady, SyncRedoes
<1>8. /\ e \in Seq(Message) /\ Redone(durable, e, attempt)
      /\ Once(e, "model", attempt) /\ Places(e, "results", attempt) = {}
  BY <1>2, <1>5, ToldAlone
<1>9. Sound(t, e, attempt, ran) /\ Past(t, e, sampled, attempt - 1)
  <2>1. /\ \A k \in Places(t, "results", attempt) : t[k].executed <=> attempt \in ran
        /\ \A k \in Places(e, "results", attempt) : e[k].executed <=> attempt \in ran
    BY <1>7, <1>8 DEF Open
  <2>2. QED
    BY <1>2, <1>7, <1>8, <2>1, StepOnOthers
<1>10. attempt' = attempt /\ response' = response
  BY <1>1 DEF attempt, response
<1>11. Sound(messages, durable, attempt, ran)' /\ OpenAttempt'
  BY <1>1, <1>2, <1>6, <1>7, <1>9, <1>10 DEF OpenAttempt
<1>12. /\ Places(messages, "model", attempt)' # {} /\ Once(durable, "model", attempt)'
       /\ Places(durable, "results", attempt)' = {} /\ response'.call
  BY <1>1, <1>6, <1>7, <1>8, <1>10
<1>13. OpenCall'
  BY <1>1, <1>2, <1>10, <1>11, <1>12 DEF OpenAttempt, OpenCall
<1>14. QED
  BY <1>1, <1>11, <1>13 DEF RecordInv, Working, Tooling

(* Between the call and its result only the history of what ran changes.   *)
LEMMA ToolRunsRecord ==
  ASSUME RecordInv, TypeOK, PrepareTool \/ ExecuteTool
  PROVE  RecordInv'
<1>1. /\ UNCHANGED <<messages, durable, sampled, config>> /\ attempt' = attempt
      /\ pc \in {"tools", "execute"} /\ pc' \in {"execute", "executed", "refused"}
      /\ ran' = IF pc' = "executed" THEN ran \cup {attempt} ELSE ran
  BY DEF PrepareTool, ExecuteTool, GoTo, recordVars, sampleVars, historyVars, envVars, attempt
<1>2. /\ attempt \in Nat /\ OpenCall /\ attempt \notin ran /\ response' = response
      /\ Sound(messages, durable, attempt, ran)
      /\ messages \in Seq(Message) /\ durable \in Seq(Message)
  BY <1>1, Responses DEF RecordInv, Tooling, OpenCall, Sound, response
<1>3. Truthful(messages, ran') /\ Truthful(durable, ran')
  <2>1. /\ Places(messages, "results", attempt) = {} /\ Places(durable, "results", attempt) = {}
        /\ Truthful(messages, ran) /\ Truthful(durable, ran)
    BY <1>2 DEF OpenCall, Open, Sound
  <2>2. \A b : b # attempt => (b \in ran <=> b \in ran')
    BY <1>1
  <2>3. QED
    BY <2>1, <2>2 DEF Truthful, Places, IsOf
<1>4. Sound(messages, durable, attempt, ran)'
  BY <1>1, <1>2, <1>3 DEF Sound
<1>5. OpenCall'
  BY <1>1, <1>2 DEF OpenCall
<1>6. QED
  BY <1>1, <1>4, <1>5 DEF RecordInv, Working, Tooling

(* The result follows the call in both, and says whether the tool ran.     *)
LEMMA ToolsFinishRecord ==
  ASSUME RecordInv, TypeOK, FinishTools
  PROVE  RecordInv'
<1>1. /\ attempt \in Nat /\ attempt > 0
      /\ Sound(messages, durable, attempt, ran) /\ Open(messages, attempt)
      /\ Past(messages, durable, sampled, attempt - 1)
      /\ Places(messages, "model", attempt) # {} /\ response.call
      /\ Once(durable, "model", attempt) /\ Places(durable, "results", attempt) = {}
      /\ messages \in Seq(Message) /\ durable \in Seq(Message)
      /\ response = sampled[attempt]
  BY Responses DEF FinishTools, RecordInv, Tooling, OpenCall, Sound
<1>2. PICK executed \in BOOLEAN :
        /\ ran' = ran /\ (executed <=> attempt \in ran)
        /\ messages' = Append(messages, Results(attempt, executed))
        /\ durable' = Append(durable, Results(attempt, executed))
  BY DEF FinishTools, AddResults, RecordInv, Tooling, OpenCall, historyVars
<1>3. pc' = "top" /\ sampled' = sampled
  BY DEF FinishTools, AddResults, GoTo, sampleVars
<1>4. PICK x \in Message : x = Results(attempt, executed)
  BY <1>1, MessageTypes
<1>5. x.kind = "results" /\ x.of = attempt /\ x.executed = executed
  BY <1>4 DEF Results
<1>6. IsOf(x, "results", attempt) /\ About(x, attempt) /\ ~IsOf(x, "model", attempt)
  BY <1>5 DEF IsOf, About
<1>7. PICK t : t = Append(messages, x)
  OBVIOUS
<1>8. PICK e : e = Append(durable, x)
  OBVIOUS
<1>9. messages' = t /\ durable' = e
  BY <1>2, <1>4, <1>7, <1>8
<1>10. /\ t \in Seq(Message) /\ Len(t) = Len(messages) + 1 /\ t[Len(messages) + 1] = x
       /\ \A k \in 1..Len(messages) : t[k] = messages[k]
  BY <1>1, <1>7, AppendElements
<1>11. Redone(messages, t, attempt)
  BY <1>1, <1>6, <1>7, AppendRedoes
<1>12. Places(t, "model", attempt) = Places(messages, "model", attempt)
  BY <1>1, <1>6, <1>7, AppendPlaces
<1>13. Places(t, "results", attempt) = {Len(t)}
  BY <1>1, <1>6, <1>7, PlacesAppended DEF Open
<1>14. AnsweredIn(t, attempt)
  <2>1. ASSUME NEW i \in Places(t, "model", attempt)
        PROVE  i < Len(t) /\ \A k \in (i + 1)..(Len(t) - 1) : IsOf(t[k], "hook", attempt)
    <3>1. i \in Places(messages, "model", attempt) /\ i \in 1..Len(messages)
      BY <1>1, <1>12 DEF Places
    <3>2. \A k \in (i + 1)..(Len(t) - 1) : k \in 1..Len(messages) /\ k \in (i + 1)..Len(messages)
      BY <1>1, <1>10, <3>1
    <3>3. QED
      BY <1>1, <1>10, <3>1, <3>2 DEF Open
  <2>2. QED
    BY <1>13, <2>1 DEF AnsweredIn
<1>15. /\ e \in Seq(Message) /\ Redone(durable, e, attempt) /\ ToldWhole(e, attempt)
       /\ Places(e, "results", attempt) = {Len(e)} /\ e[Len(e)] = x
  <2>1. /\ e \in Seq(Message) /\ Redone(durable, e, attempt) /\ ToldWhole(e, attempt)
        /\ e[Len(e)] = x
    BY <1>1, <1>6, <1>8, ToldWithResults
  <2>2. Places(e, "results", attempt) = {Len(e)}
    BY <1>1, <1>6, <1>8, PlacesAppended
  <2>3. QED
    BY <2>1, <2>2
<1>16. executed <=> attempt \in ran'
  BY <1>1, <1>2
<1>17. /\ \A k \in Places(t, "results", attempt) : t[k].executed <=> attempt \in ran'
       /\ \A k \in Places(e, "results", attempt) : e[k].executed <=> attempt \in ran'
  BY <1>5, <1>10, <1>13, <1>15, <1>16
<1>18. \A b : b # attempt => (b \in ran <=> b \in ran')
  BY <1>2
<1>19. Sound(t, e, attempt, ran') /\ Past(t, e, sampled, attempt - 1)
  BY <1>1, <1>10, <1>11, <1>15, <1>17, <1>18, StepOnOthers
<1>20. Past(t, e, sampled, attempt)
  <2>1. Told(e, response, attempt)
    BY <1>1, <1>15 DEF Told, ToldWhole
  <2>2. QED
    BY <1>1, <1>14, <1>19, <2>1, PastMore
<1>21. attempt' = attempt
  BY <1>3 DEF attempt
<1>22. Sound(messages, durable, attempt, ran)' /\ Past(messages, durable, sampled, attempt)'
  BY <1>3, <1>9, <1>19, <1>20, <1>21
<1>23. QED
  BY <1>3, <1>22 DEF RecordInv, Working, Tooling

(* The steps that leave the record alone.                                  *)
LEMMA OtherRecord ==
  ASSUME RecordInv, TopEnds \/ Top \/ RequestCut \/ RequestFails \/ RequestOpens \/ Handover
  PROVE  RecordInv'
<1>1. UNCHANGED <<messages, durable, sampled, ran, config>>
  BY DEF TopEnds, Top, RequestCut, RequestFails, RequestOpens, Handover, recordVars,
         sampleVars, historyVars, envVars
<1>2. pc \in {"top", "request", "handover"} /\ pc' \in {"top", "request", "stream", "done"}
  BY DEF TopEnds, Top, RequestCut, RequestFails, RequestOpens, Handover, EndWith,
         Return, GoTo
<1>3. QED
  BY <1>1, <1>2, Resting DEF Working, Tooling

(* What others change is not the record.                                   *)
LEMMA EnvironmentRecord ==
  ASSUME RecordInv, AuthorityNarrows \/ Cancel \/ UNCHANGED vars
  PROVE  RecordInv'
<1>1. UNCHANGED <<pc, messages, durable, sampled, ran, config>>
  BY DEF AuthorityNarrows, Cancel, vars, recordVars, sampleVars, historyVars, envVars
<1>2. attempt' = attempt /\ response' = response
  BY <1>1 DEF attempt, response
<1>3. QED
  BY <1>1, <1>2 DEF RecordInv, OpenAttempt, OpenCall

(* Nothing has been asked or told at the start.                            *)
LEMMA InitRecord ==
  ASSUME Init
  PROVE  RecordInv
<1>1. pc = "top" /\ messages = <<UserMessage>> /\ durable = << >> /\ sampled = << >> /\ ran = {}
  BY DEF Init
<1>2. attempt = 0
  BY <1>1 DEF attempt
<1>3. UserMessage \in Message /\ UserMessage.kind = "user"
  BY MessageTypes DEF UserMessage
<1>4. Sound(messages, durable, attempt, ran)
  <2>1. /\ messages \in Seq(Message) /\ durable \in Seq(Message)
        /\ Len(messages) = 1 /\ messages[1] = UserMessage
        /\ DOMAIN messages = {1} /\ DOMAIN durable = {}
    BY <1>1, <1>3
  <2>2. QED
    BY <1>3, <2>1 DEF Sound, Begun, Within, Truthful
<1>5. Past(messages, durable, sampled, attempt)
  BY <1>2 DEF Past
<1>6. QED
  BY <1>1, <1>4, <1>5 DEF RecordInv, Working, Tooling

(* The transcript and the record agree in every reachable state.           *)
THEOREM RecordInvariant == Spec => []RecordInv
<1>1. Init => RecordInv
  BY InitRecord
<1>2. IInv /\ RecordInv /\ [Next]_vars => RecordInv'
  <2> SUFFICES ASSUME IInv, RecordInv, [Next]_vars PROVE RecordInv'
    OBVIOUS
  <2>1. TypeOK
    BY DEF IInv
  <2>2. CASE Settles
    BY <2>1, <2>2, OtherRecord, HooksRecord, CompactRecord, StopRecord DEF Settles
  <2>3. CASE Top \/ RequestFails \/ Handover
    BY <2>3, OtherRecord
  <2>4. CASE Receive
    BY <2>1, <2>4, ReceiveRecord
  <2>5. CASE Nudge \/ Resume \/ MaxTokens \/ EndTurn
    BY <2>1, <2>5, PushRecord, StopRecord, EndRecord
  <2>6. CASE ToolRound
    BY <2>1, <2>6, ToolsStartRecord, ToolRunsRecord, ToolsFinishRecord DEF ToolRound
  <2>7. CASE AuthorityNarrows \/ Cancel \/ UNCHANGED vars
    BY <2>7, EnvironmentRecord
  <2>8. QED
    BY <2>2, <2>3, <2>4, <2>5, <2>6, <2>7, NextCases
<1>3. QED
  BY <1>1, <1>2, QueryInductiveInvariant, PTL DEF Spec

(* At rest: no attempt is open.                                            *)
LEMMA PastAtRest ==
  ASSUME RecordInv, AtRest
  PROVE  Past(messages, durable, sampled, attempt)
BY DEF RecordInv, AtRest, Working, Tooling

(* Whatever ended the turn, every call that is still in the transcript has *)
(* its one result after it.                                                *)
THEOREM NoCallUnanswered == Spec => []CallsAnswered
<1>1. RecordInv => CallsAnswered
  BY PastAtRest DEF CallsAnswered, Past, AnsweredIn
<1>2. QED
  BY <1>1, RecordInvariant, PTL

(* Every response with content is in the session store once, its result    *)
(* after it.                                                               *)
THEOREM ToldOnce == Spec => []DurableOnce
<1>1. RecordInv => DurableOnce
  BY PastAtRest DEF DurableOnce, Past, Told
<1>2. QED
  BY <1>1, RecordInvariant, PTL

(* Only a tool that the model called has run.                              *)
LEMMA RanWasCalled == Spec => [](\A a \in ran : sampled[a].call)
<1> DEFINE Called == \A a \in ran : sampled[a].call
<1>1. Init => Called
  BY DEF Init
<1>2. IInv /\ RecordInv /\ Called /\ [Next]_vars => Called'
  <2> SUFFICES ASSUME IInv, RecordInv, Called, [Next]_vars PROVE Called'
    OBVIOUS
  <2>1. attempt \in Nat /\ ran \subseteq 1..attempt
    BY DEF IInv, TypeOK, attempt
  <2>2. CASE ExecuteTool
    <3>1. /\ sampled' = sampled /\ ran' \subseteq ran \cup {attempt}
          /\ sampled[attempt].call
      BY <2>2 DEF ExecuteTool, recordVars, sampleVars, RecordInv, Tooling, OpenCall, response
    <3>2. QED
      BY <3>1
  <2>3. CASE Receive
    <3>1. PICK r \in Response : sampled' = Append(sampled, r)
      BY <2>3 DEF Receive
    <3>2. ran' = ran /\ \A a \in 1..attempt : sampled'[a] = sampled[a]
      BY <2>1, <2>3, <3>1 DEF Receive, historyVars, IInv, TypeOK, attempt
    <3>3. QED
      BY <2>1, <3>2
  <2>4. CASE StartTools \/ PrepareTool \/ FinishTools
    BY <2>4 DEF StartTools, PrepareTool, FinishTools, recordVars, sampleVars, historyVars
  <2>5. CASE Settles \/ Top \/ RequestFails \/ Handover
    BY <2>5, SettlesKeep DEF Kept, Top, RequestFails, Handover, recordVars, sampleVars,
                             historyVars
  <2>6. CASE Nudge \/ Resume \/ MaxTokens \/ EndTurn
    BY <2>6 DEF Nudge, Resume, MaxTokens, EndTurn, sampleVars, historyVars
  <2>7. CASE AuthorityNarrows \/ Cancel \/ UNCHANGED vars
    BY <2>7 DEF AuthorityNarrows, Cancel, vars, recordVars, sampleVars, historyVars
  <2>8. QED
    BY <2>2, <2>3, <2>4, <2>5, <2>6, <2>7, NextCases DEF ToolRound
<1>3. QED
  BY <1>1, <1>2, QueryInductiveInvariant, RecordInvariant, PTL DEF Spec

(* A tool that ran, and no other, has the result that says so, whenever    *)
(* the goal ended: before the tool, while its hooks ran or through it.     *)
THEOREM ResultsTrue == Spec => []ResultsAreTrue
<1>1. IInv /\ RecordInv /\ (\A a \in ran : sampled[a].call) => ResultsAreTrue
  <2> SUFFICES ASSUME IInv, RecordInv, \A a \in ran : sampled[a].call
               PROVE  ResultsAreTrue
    OBVIOUS
  <2>1. \A s \in {messages, durable} : \A i \in DOMAIN s :
          s[i].kind = "results" => (s[i].executed <=> s[i].of \in ran)
    BY DEF RecordInv, Sound, Truthful
  <2>2. ASSUME AtRest, NEW a \in ran PROVE Places(durable, "results", a) # {}
    <3>1. a \in 1..attempt /\ Past(messages, durable, sampled, attempt)
      BY <2>2, PastAtRest DEF IInv, TypeOK
    <3>2. Once(durable, "results", a)
      BY <3>1 DEF Past, Told
    <3>3. QED
      BY <3>2 DEF Once
  <2>3. QED
    BY <2>1, <2>2 DEF ResultsAreTrue
<1>2. QED
  BY <1>1, QueryInductiveInvariant, RecordInvariant, RanWasCalled, PTL
=============================================================================
