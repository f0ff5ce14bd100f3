------------------------------ MODULE Acp_proofs ------------------------------
(***************************************************************************)
(* Theorems about the ACP server.  About its connection: frames are never  *)
(* torn, and the detailed connection takes only steps RequestReply allows. *)
(* About what is above it, for any sessions, prompts and bounds: what is   *)
(* promised of permissions and transcripts in the sessions that are        *)
(* prompted only when they are idle, whatever happens in the others.       *)
(***************************************************************************)
EXTENDS AcpConnection, AcpServer, TLAPS

\* The type invariant is preserved; a frame is never sent past its end because
\* the writer knows how much of it the transport has taken.
LEMMA WireTypeStep ==
  ASSUME WireIInv, WireAssumption, [WireNext]_wireVars
  PROVE  WireTypeOK'
<1> USE WireAssumption DEF WireIInv, WireTypeOK, HolderHasFrame, Message, Holds, senders, incoming
<1>1. ASSUME NEW m \in Message, SendNote(m) PROVE WireTypeOK'
  BY <1>1 DEF SendNote
<1>2. ASSUME NEW m \in Message, SendRequest(m) PROVE WireTypeOK'
  BY <1>2 DEF SendRequest, Ends
<1>3. ASSUME NEW m \in Message, Acquire(m) PROVE WireTypeOK'
  BY <1>3 DEF Acquire
<1>4. ASSUME NEW m \in Message, Advance(m) PROVE WireTypeOK'
  BY <1>4 DEF Advance
<1>5. ASSUME NEW m \in Message, Flush(m) PROVE WireTypeOK'
  BY <1>5 DEF Flush, Ends
<1>6. ASSUME NEW m \in Message, WriteFails(m) PROVE WireTypeOK'
  BY <1>6 DEF WriteFails, Ends
<1>7. ASSUME NEW m \in Message, Drop(m) PROVE WireTypeOK'
  BY <1>7 DEF Drop, Ends
<1>8. ASSUME NEW m \in Message, TakeReply(m) PROVE WireTypeOK'
  BY <1>8 DEF TakeReply, Ends
<1>9. ASSUME NEW m \in Message, GiveUp(m) PROVE WireTypeOK'
  BY <1>9 DEF GiveUp, Ends
<1>10. ASSUME NEW r \in Outbound, PeerReplies(r) PROVE WireTypeOK'
  BY <1>10 DEF PeerReplies
<1>11. ASSUME NEW r \in Outbound, Deliver(r) PROVE WireTypeOK'
  BY <1>11 DEF Deliver
<1>12. ASSUME CloseReader PROVE WireTypeOK'
  BY <1>12 DEF CloseReader
<1>13. ASSUME UNCHANGED wireVars PROVE WireTypeOK'
  BY <1>13 DEF wireVars
<1> QED BY <1>1, <1>2, <1>3, <1>4, <1>5, <1>6, <1>7, <1>8, <1>9, <1>10, <1>11, <1>12, <1>13
   DEF WireNext, Sender

\* The mutex has one holder, and the writer's frame is the holder's, or the
\* one it found.
LEMMA HolderStep ==
  ASSUME WireIInv, WireAssumption, [WireNext]_wireVars
  PROVE  OneHolder' /\ HolderHasFrame' /\ FramesWhole'
<1> USE WireAssumption DEF WireIInv, WireTypeOK, OneHolder, HolderHasFrame, FramesWhole, RegisteredAreAwaited, Message, Holds, Pending, senders, incoming
<1>1. ASSUME NEW m \in Message, SendNote(m) PROVE OneHolder' /\ HolderHasFrame' /\ FramesWhole'
  BY <1>1 DEF SendNote
<1>2. ASSUME NEW m \in Message, SendRequest(m) PROVE OneHolder' /\ HolderHasFrame' /\ FramesWhole'
  BY <1>2 DEF SendRequest, Ends
<1>3. ASSUME NEW m \in Message, Acquire(m) PROVE OneHolder' /\ HolderHasFrame' /\ FramesWhole'
  BY <1>3 DEF Acquire
<1>4. ASSUME NEW m \in Message, Advance(m) PROVE OneHolder' /\ HolderHasFrame' /\ FramesWhole'
  BY <1>4 DEF Advance
<1>5. ASSUME NEW m \in Message, Flush(m) PROVE OneHolder' /\ HolderHasFrame' /\ FramesWhole'
  BY <1>5 DEF Flush, Ends
<1>6. ASSUME NEW m \in Message, WriteFails(m) PROVE OneHolder' /\ HolderHasFrame' /\ FramesWhole'
  BY <1>6 DEF WriteFails, Ends
<1>7. ASSUME NEW m \in Message, Drop(m) PROVE OneHolder' /\ HolderHasFrame' /\ FramesWhole'
  BY <1>7 DEF Drop, Ends
<1>8. ASSUME NEW m \in Message, TakeReply(m) PROVE OneHolder' /\ HolderHasFrame' /\ FramesWhole'
  BY <1>8 DEF TakeReply, Ends
<1>9. ASSUME NEW m \in Message, GiveUp(m) PROVE OneHolder' /\ HolderHasFrame' /\ FramesWhole'
  BY <1>9 DEF GiveUp, Ends
<1>10. ASSUME NEW r \in Outbound, PeerReplies(r) PROVE OneHolder' /\ HolderHasFrame' /\ FramesWhole'
  BY <1>10 DEF PeerReplies
<1>11. ASSUME NEW r \in Outbound, Deliver(r) PROVE OneHolder' /\ HolderHasFrame' /\ FramesWhole'
  BY <1>11 DEF Deliver
<1>12. ASSUME CloseReader PROVE OneHolder' /\ HolderHasFrame' /\ FramesWhole'
  BY <1>12 DEF CloseReader
<1>13. ASSUME UNCHANGED wireVars PROVE OneHolder' /\ HolderHasFrame' /\ FramesWhole'
  BY <1>13 DEF wireVars
<1> QED BY <1>1, <1>2, <1>3, <1>4, <1>5, <1>6, <1>7, <1>8, <1>9, <1>10, <1>11, <1>12, <1>13
   DEF WireNext, Sender

\* The pending map and the inboxes belong to requests still awaited.
LEMMA RegisteredStep ==
  ASSUME WireIInv, WireAssumption, [WireNext]_wireVars
  PROVE  RegisteredAreAwaited'
<1> USE WireAssumption DEF WireIInv, WireTypeOK, OneHolder, HolderHasFrame, RegisteredAreAwaited, Message, Holds, Pending, senders, incoming
<1>1. ASSUME NEW m \in Message, SendNote(m) PROVE RegisteredAreAwaited'
  BY <1>1 DEF SendNote
<1>2. ASSUME NEW m \in Message, SendRequest(m) PROVE RegisteredAreAwaited'
  BY <1>2 DEF SendRequest, Ends
<1>3. ASSUME NEW m \in Message, Acquire(m) PROVE RegisteredAreAwaited'
  BY <1>3 DEF Acquire
<1>4. ASSUME NEW m \in Message, Advance(m) PROVE RegisteredAreAwaited'
  BY <1>4 DEF Advance
<1>5. ASSUME NEW m \in Message, Flush(m) PROVE RegisteredAreAwaited'
  BY <1>5 DEF Flush, Ends
<1>6. ASSUME NEW m \in Message, WriteFails(m) PROVE RegisteredAreAwaited'
  BY <1>6 DEF WriteFails, Ends
<1>7. ASSUME NEW m \in Message, Drop(m) PROVE RegisteredAreAwaited'
  BY <1>7 DEF Drop, Ends
<1>8. ASSUME NEW m \in Message, TakeReply(m) PROVE RegisteredAreAwaited'
  BY <1>8 DEF TakeReply, Ends
<1>9. ASSUME NEW m \in Message, GiveUp(m) PROVE RegisteredAreAwaited'
  BY <1>9 DEF GiveUp, Ends
<1>10. ASSUME NEW r \in Outbound, PeerReplies(r) PROVE RegisteredAreAwaited'
  BY <1>10 DEF PeerReplies
<1>11. ASSUME NEW r \in Outbound, Deliver(r) PROVE RegisteredAreAwaited'
  BY <1>11 DEF Deliver
<1>12. ASSUME CloseReader PROVE RegisteredAreAwaited'
  BY <1>12 DEF CloseReader
<1>13. ASSUME UNCHANGED wireVars PROVE RegisteredAreAwaited'
  BY <1>13 DEF wireVars
<1> QED BY <1>1, <1>2, <1>3, <1>4, <1>5, <1>6, <1>7, <1>8, <1>9, <1>10, <1>11, <1>12, <1>13
   DEF WireNext, Sender

-----------------------------------------------------------------------------
\* Nobody has sent anything at first.
LEMMA WireStarts == ASSUME WireAssumption, WireInit PROVE WireIInv
<1> USE WireAssumption DEF WireAssumption, WireInit, Message, Holds, Pending
<1>1. WireTypeOK
  <2>1. 0 \in 0..FrameSize /\ 0 \in 0..MaxReplies OBVIOUS
  <2> QED BY <2>1 DEF WireTypeOK
<1>2. FramesWhole BY DEF FramesWhole
<1>3. OneHolder BY DEF OneHolder
<1>4. HolderHasFrame BY DEF HolderHasFrame
<1>5. RegisteredAreAwaited BY DEF RegisteredAreAwaited
<1> QED BY <1>1, <1>2, <1>3, <1>4, <1>5 DEF WireIInv

\* The inductive invariant for any messages, any length of frames and any
\* number of replies: frames are whole, and replies go where they belong.
THEOREM WireInvariant == WireAssumption => (WireSpec => []WireIInv)
<1> SUFFICES ASSUME WireAssumption PROVE WireSpec => []WireIInv
  OBVIOUS
<1>1. WireInit => WireIInv BY WireStarts
<1>2. WireIInv /\ [WireNext]_wireVars => WireIInv'
  BY WireTypeStep, HolderStep, RegisteredStep DEF WireIInv
<1> QED BY <1>1, <1>2, PTL DEF WireSpec

\* A sender that left before anything of its frame was sent is never heard of
\* again, whatever later senders find in the writer: of the message the writer
\* holds, some part has been sent or its sender is still there.
THEOREM NothingAfterLeaving == WireAssumption => (WireSpec => LeftUnseen)
<1> SUFFICES ASSUME WireAssumption PROVE WireSpec => LeftUnseen
  OBVIOUS
<1>1. ASSUME WireIInv, [WireNext]_wireVars
      PROVE [\A m \in Message : pc[m] = "ended" /\ onWire[m] = 0 => onWire'[m] = 0]_wireVars
  <2> SUFFICES ASSUME WireNext, NEW m \in Message, pc[m] = "ended", onWire[m] = 0 PROVE onWire'[m] = 0
    BY <1>1
  <2>1. ASSUME NEW n \in Message, Advance(n) PROVE onWire'[m] = 0
    <3>1. frame.msg # m
      <4>1. CASE pc[n] = "leftover"
        BY <1>1, <2>1, <4>1 DEF WireIInv, WireTypeOK, HolderHasFrame
      <4>2. CASE pc[n] = "own"
        BY <1>1, <2>1, <4>2 DEF WireIInv, HolderHasFrame
      <4> QED BY <2>1, <4>1, <4>2 DEF Advance, Holds
    <3> QED BY <1>1, <2>1, <3>1 DEF Advance, WireIInv, WireTypeOK
  <2>2. ASSUME NEW n \in Message,
               SendNote(n) \/ SendRequest(n) \/ Acquire(n) \/ Flush(n) \/ WriteFails(n)
               \/ Drop(n) \/ TakeReply(n) \/ GiveUp(n)
        PROVE onWire' = onWire
    BY <2>2 DEF SendNote, SendRequest, Acquire, Flush, WriteFails, Drop, TakeReply, GiveUp
  <2>3. ASSUME NEW r \in Outbound, PeerReplies(r) \/ Deliver(r) PROVE onWire' = onWire
    BY <2>3 DEF PeerReplies, Deliver
  <2>4. ASSUME CloseReader PROVE onWire' = onWire
    BY <2>4 DEF CloseReader
  <2> QED BY <2>1, <2>2, <2>3, <2>4 DEF WireNext, Sender
<1> QED BY <1>1, WireInvariant, PTL DEF WireSpec, LeftUnseen

-----------------------------------------------------------------------------
\* How a request stands in the eyes of who sent it.
Stand(r) == CASE pc[r] = "new" -> "new"
              [] Pending(r) -> "open"
              [] pc[r] = "ended" /\ result[r] = "reply" -> "answered"
              [] OTHER -> "failed"

Stands == [r \in Outbound |-> Stand(r)]

Replied == {r \in Outbound : replies[r] > 0}

\* The actions of the promise, in the connection's own state.
LEMMA PromiseActions ==
  ASSUME NEW r \in Outbound
  PROVE  /\ Promise!Open(r) <=> /\ Stands[r] = "new"
                                /\ Stands' = [Stands EXCEPT ![r] = IF readerClosed THEN "failed" ELSE "open"]
                                /\ UNCHANGED <<Replied, readerClosed>>
         /\ Promise!Reply(r) <=> /\ Stands[r] # "new"
                                 /\ Replied' = Replied \cup {r}
                                 /\ UNCHANGED <<Stands, readerClosed>>
         /\ Promise!Answer(r) <=> /\ Stands[r] = "open" /\ r \in Replied
                                  /\ Stands' = [Stands EXCEPT ![r] = "answered"]
                                  /\ UNCHANGED <<Replied, readerClosed>>
         /\ Promise!Fail(r) <=> /\ Stands[r] = "open"
                                /\ Stands' = [Stands EXCEPT ![r] = "failed"]
                                /\ UNCHANGED <<Replied, readerClosed>>
         /\ Promise!rrVars = <<Stands, Replied, readerClosed>>
  BY DEF Promise!Open, Promise!Reply, Promise!Answer, Promise!Fail, Promise!rrVars,
         Stands, Stand, Replied

\* Every step of the connection is a step of the promise or leaves it alone,
\* for any messages and any length of frames (safety; that every request ends
\* is left to the model checker).
THEOREM KeepsPromiseSafely ==
  WireAssumption => (WireSpec => Promise!RRInit /\ [][Promise!RRNext]_(Promise!rrVars))
<1> SUFFICES ASSUME WireAssumption
             PROVE WireSpec => Promise!RRInit /\ [][Promise!RRNext]_(Promise!rrVars)
  OBVIOUS
<1>1. WireInit => Promise!RRInit
  <2> SUFFICES ASSUME WireInit PROVE Promise!RRInit
    OBVIOUS
  <2>1. Stands = [r \in Outbound |-> "new"] BY DEF WireInit, Stands, Stand, Pending, Message
  <2>2. Replied = {}
    <3>1. \A r \in Outbound : replies[r] = 0 BY DEF WireInit
    <3> QED BY <3>1 DEF Replied
  <2> QED BY <2>1, <2>2 DEF WireInit, Promise!RRInit, Stands, Stand, Replied
<1>2. ASSUME WireIInv, [WireNext]_wireVars PROVE [Promise!RRNext]_(Promise!rrVars)
  <2> USE WireAssumption DEF WireAssumption
  <2>0. /\ pc \in [Message -> {"new", "queued", "leftover", "own", "written", "ended"}]
        /\ result \in [Message -> {"none", "sent", "reply", "closed", "error", "dropped"}]
        /\ Outbound \subseteq Message
        /\ \A m \in Message : result[m] # "none" <=> pc[m] = "ended"
        /\ \A r \in inbox : r \in Outbound /\ replies[r] > 0
        /\ replies \in [Outbound -> 0..MaxReplies]
        /\ waiting \cup inbox \subseteq Outbound
    BY <1>2 DEF WireIInv, WireTypeOK, RegisteredAreAwaited, Message
  <2> DEFINE Same == UNCHANGED <<Stands, Replied, readerClosed>>
  <2>1. Same => [Promise!RRNext]_(Promise!rrVars)
    BY DEF Promise!rrVars, Stands, Stand, Replied
  <2>2. ASSUME NEW r \in Outbound, Promise!Open(r) \/ Promise!Reply(r) \/ Promise!Answer(r) \/ Promise!Fail(r)
        PROVE [Promise!RRNext]_(Promise!rrVars)
    BY <2>2 DEF Promise!RRNext
  <2>3. ASSUME NEW m \in Message, m \in Note,
               SendNote(m) \/ Flush(m) \/ WriteFails(m) \/ Acquire(m) \/ Advance(m)
        PROVE Same
    <3>1. UNCHANGED <<Replied, readerClosed>>
      BY <2>3 DEF SendNote, Flush, WriteFails, Acquire, Advance, incoming, Replied
    <3>2. \A r \in Outbound : pc'[r] = pc[r] /\ result'[r] = result[r]
      BY <2>0, <2>3 DEF SendNote, Flush, WriteFails, Acquire, Advance, Ends, senders
    <3> QED BY <3>1, <3>2 DEF Stands, Stand, Pending
  <2>4. ASSUME NEW r \in Outbound, SendRequest(r) PROVE Promise!Open(r)
    <3>1. UNCHANGED <<Replied, readerClosed>> /\ Stand(r) = "new"
      BY <2>4 DEF SendRequest, incoming, Replied, Stand, Pending
    <3>2. \A q \in Outbound : Stand(q)' = IF q = r THEN IF readerClosed THEN "failed" ELSE "open" ELSE Stand(q)
      <4>1. CASE readerClosed
        <5>1. pc' = [pc EXCEPT ![r] = "ended"] /\ result' = [result EXCEPT ![r] = "closed"]
          BY <2>4, <4>1 DEF SendRequest, Ends
        <5> QED BY <2>0, <4>1, <5>1 DEF Stand, Pending
      <4>2. CASE ~readerClosed
        <5>1. pc' = [pc EXCEPT ![r] = "queued"] /\ result' = result
          BY <2>4, <4>2 DEF SendRequest
        <5> QED BY <2>0, <4>2, <5>1 DEF Stand, Pending
      <4> QED BY <4>1, <4>2
    <3> QED BY <3>1, <3>2, PromiseActions DEF Stands
  <2>5. ASSUME NEW r \in Outbound, Acquire(r) \/ Advance(r) \/ (Flush(r) /\ pc'[r] # "ended") PROVE Same
    <3>1. UNCHANGED <<Replied, readerClosed>>
      BY <2>5 DEF Acquire, Advance, Flush, incoming, Replied
    <3>2. \A q \in Outbound : Stand(q)' = Stand(q)
      BY <2>0, <2>5 DEF Acquire, Advance, Flush, Ends, Holds, Stand, Pending, senders
    <3> QED BY <3>1, <3>2 DEF Stands
  <2>6. ASSUME NEW r \in Outbound, WriteFails(r) \/ Drop(r) \/ GiveUp(r) PROVE Promise!Fail(r)
    <3>1. UNCHANGED <<Replied, readerClosed>> /\ Stand(r) = "open"
      BY <2>6 DEF WriteFails, Drop, GiveUp, incoming, Replied, Stand, Pending, Holds
    <3>2. \A q \in Outbound : Stand(q)' = IF q = r THEN "failed" ELSE Stand(q)
      BY <2>0, <2>6 DEF WriteFails, Drop, GiveUp, Ends, Stand, Pending
    <3> QED BY <3>1, <3>2, PromiseActions DEF Stands
  <2>7. ASSUME NEW r \in Message, TakeReply(r) PROVE r \in Outbound /\ Promise!Answer(r)
    <3>0. r \in Outbound /\ r \in Replied BY <2>0, <2>7 DEF TakeReply, Replied
    <3>1. UNCHANGED <<Replied, readerClosed>> /\ Stand(r) = "open"
      BY <2>7 DEF TakeReply, incoming, Replied, Stand, Pending
    <3>2. \A q \in Outbound : Stand(q)' = IF q = r THEN "answered" ELSE Stand(q)
      BY <2>0, <2>7, <3>0 DEF TakeReply, Ends, Stand, Pending
    <3> QED BY <3>0, <3>1, <3>2, PromiseActions DEF Stands
  <2>8. ASSUME NEW r \in Outbound, PeerReplies(r) PROVE Promise!Reply(r)
    <3>1. UNCHANGED <<Stands, readerClosed>>
      BY <2>8 DEF PeerReplies, senders, Stands, Stand, Pending
    <3>2. Replied' = Replied \cup {r}
      BY <2>0, <2>8 DEF PeerReplies, Replied
    <3>3. Stand(r) # "new"
      BY <1>2, <2>0, <2>8 DEF PeerReplies, Stand, WireIInv, HolderHasFrame, Pending
    <3> QED BY <3>1, <3>2, <3>3, PromiseActions DEF Stands
  <2>9. ASSUME NEW r \in Outbound, Deliver(r) PROVE Same
    BY <2>9 DEF Deliver, senders, Stands, Stand, Pending, Replied
  <2>10. ASSUME CloseReader PROVE Promise!Close
    BY <2>10 DEF CloseReader, Reading, Promise!Close, senders, incoming, Stands, Stand, Pending, Replied
  <2>11. ASSUME UNCHANGED wireVars PROVE Same
    BY <2>11 DEF wireVars, senders, incoming, Stands, Stand, Pending, Replied
  <2>12. ASSUME NEW m \in Message, Sender(m) PROVE [Promise!RRNext]_(Promise!rrVars)
    <3>1. CASE m \in Note
      <4>1. m \notin Outbound BY <3>1
      <4>2. ~SendRequest(m) /\ ~Drop(m) /\ ~GiveUp(m) BY <4>1 DEF SendRequest, Drop, GiveUp
      <4>3. ~TakeReply(m) BY <2>7, <4>1
      <4> QED BY <2>1, <2>3, <2>12, <3>1, <4>2, <4>3 DEF Sender
    <3>2. CASE m \in Outbound
      <4>1. ~SendNote(m) BY <3>2 DEF SendNote
      <4>2. Flush(m) => pc'[m] # "ended" BY <2>0, <3>2 DEF Flush
      <4> QED BY <2>1, <2>2, <2>4, <2>5, <2>6, <2>7, <2>12, <3>2, <4>1, <4>2 DEF Sender
    <3> QED BY <3>1, <3>2 DEF Message
  <2> QED BY <1>2, <2>1, <2>2, <2>8, <2>9, <2>10, <2>11, <2>12 DEF WireNext, Promise!RRNext
<1> QED BY <1>1, <1>2, WireInvariant, PTL DEF WireSpec

-----------------------------------------------------------------------------
\* At most one prompt of an orderly session is in flight.
OneInFlight ==
  \A p, q \in Prompt :
    Orderly(p) /\ SessionOf[p] = SessionOf[q] /\ InFlight(p) /\ InFlight(q) =>
      p = q

\* A waiting tool keeps its query running.
BlockedRuns == \A p \in Prompt : blocked[p] => phase[p] = "running"

\* The n-th permission of a query: not asked for yet, it is nowhere; in the store
\* of a session, it is the one its query waits for, and so it is while a drainer
\* forwards it, which for the query of a prompt of an orderly session is the
\* drainer of that very prompt; decided, it is as DeniedByClient says.
Placed(a, n) ==
  /\ n > asks[a] => owner[<<a, n>>] = Nobody /\ verdict[<<a, n>>] = "none"
  /\ \A s \in Session : <<a, n>> \in queue[s] =>
       /\ s = SessionOf[a] /\ blocked[a] /\ n = asks[a]
       /\ owner[<<a, n>>] = Nobody /\ verdict[<<a, n>>] = "none"
  /\ Undecided(<<a, n>>) =>
       /\ blocked[a] /\ n = asks[a]
       /\ a \in Prompt /\ Orderly(a) => owner[<<a, n>>] = a
  /\ verdict[<<a, n>>] = "deny" => <<a, n>> \in replied \/ closed \/ broken
  /\ a \in Prompt /\ Orderly(a) => verdict[<<a, n>>] # "dropped"

\* The copy of a prompt holds what its session's transcript holds, and more.
CopyKept ==
  \A p \in Prompt : Orderly(p) =>
    /\ phase[p] \in {"copied", "running", "ended", "settled"} =>
         history[SessionOf[p]] \cup {p} \subseteq view[p]
    /\ phase[p] = "saved" => p \in history[SessionOf[p]]

\* A cancellation on its way is within the bound.
CancelCounted == \A s \in cancels : armed[s] < MaxCancels

PromptInv == OneInFlight /\ BlockedRuns /\ CopyKept /\ TurnsKept

PermissionInv == \A a \in Asker, n \in 1..MaxAsks : Placed(a, n)

ServerInv == ServerTypeOK /\ CancelCounted /\ PromptInv /\ PermissionInv

-----------------------------------------------------------------------------
USE ServerAssumption DEF Asker

\* Every step keeps the types.
LEMMA TypesKept ==
  ASSUME ServerTypeOK, CancelCounted, [ServerNext]_serverVars
  PROVE  ServerTypeOK' /\ CancelCounted'
<1>1. ASSUME NEW p \in Prompt, SendPrompt(p) PROVE ServerTypeOK' /\ CancelCounted'
  BY <1>1 DEF SendPrompt, ServerTypeOK, CancelCounted, Request, C!RRTypeOK,
        C!Status, prompts, queries, sessions, requests, connection
<1>2. ASSUME NEW s \in Session, SendCancel(s) PROVE ServerTypeOK' /\ CancelCounted'
  BY <1>2 DEF SendCancel, ServerTypeOK, CancelCounted, Request, C!RRTypeOK,
        C!Status, prompts, queries, sessions, requests, connection
<1>3. ASSUME NEW r \in Request, ClientReplies(r) PROVE ServerTypeOK' /\ CancelCounted'
  BY <1>3 DEF ClientReplies, C!Reply, ServerTypeOK, CancelCounted, Request,
        C!RRTypeOK, C!Status, prompts, queries, sessions, requests, connection
<1>4. CASE EndOfInput
  BY <1>4 DEF EndOfInput, C!Close, ServerTypeOK, CancelCounted, Request,
        C!RRTypeOK, C!Status, prompts, queries, sessions, requests, connection
<1>5. CASE EndOfOutput
  BY <1>5 DEF EndOfOutput, ServerTypeOK, CancelCounted, Request, C!RRTypeOK,
        C!Status, prompts, queries, sessions, requests, connection
<1>6. ASSUME NEW p \in Prompt, CopyTranscript(p) PROVE ServerTypeOK' /\ CancelCounted'
  <2>1. history[SessionOf[p]] \cup {p} \in SUBSET Prompt
    BY ServerAssumption DEF ServerTypeOK
  <2>2. view' \in [Prompt -> SUBSET Prompt]
    BY <1>6, <2>1 DEF CopyTranscript, ServerTypeOK
  <2>3. phase' \in [Prompt -> {"new", "sent", "copied", "running", "ended",
                              "settled", "saved", "done"}]
    BY <1>6 DEF CopyTranscript, ServerTypeOK
  <2>4. outcome' \in [Prompt -> {"none", "over", "cancelled", "invalid"}]
    BY <1>6 DEF CopyTranscript, ServerTypeOK
  <2>5. UNCHANGED <<token, queries, sessions, requests, connection>>
    BY <1>6 DEF CopyTranscript
  <2>6. QED
    BY <2>2, <2>3, <2>4, <2>5 DEF ServerTypeOK, CancelCounted, Request, Asker,
       C!RRTypeOK, queries, sessions, requests, connection
<1>7. ASSUME NEW s \in Session, CancelTurn(s) PROVE ServerTypeOK' /\ CancelCounted'
  BY <1>7 DEF CancelTurn, ServerTypeOK, CancelCounted, Request, C!RRTypeOK,
        C!Status, prompts, queries, sessions, requests, connection
<1>8. ASSUME NEW p \in Prompt, CaptureToken(p) PROVE ServerTypeOK' /\ CancelCounted'
  BY <1>8 DEF CaptureToken, ServerTypeOK, CancelCounted, Request, C!RRTypeOK,
        C!Status, prompts, queries, sessions, requests, connection
<1>9. ASSUME NEW p \in Asker, Ask(p) PROVE ServerTypeOK' /\ CancelCounted'
  BY <1>9 DEF Ask, ServerTypeOK, CancelCounted, Request, C!RRTypeOK, C!Status,
        prompts, queries, sessions, requests, connection
<1>10. ASSUME NEW p \in Asker, Resume(p) PROVE ServerTypeOK' /\ CancelCounted'
  BY <1>10 DEF Resume, ServerTypeOK, CancelCounted, Request, C!RRTypeOK,
        C!Status, prompts, queries, sessions, requests, connection
<1>11. ASSUME NEW p \in Prompt, QueryEnds(p) PROVE ServerTypeOK' /\ CancelCounted'
  BY <1>11 DEF QueryEnds, ServerTypeOK, CancelCounted, Request, C!RRTypeOK,
        C!Status, prompts, queries, sessions, requests, connection
<1>12. ASSUME NEW p \in Prompt, JoinDrainer(p) PROVE ServerTypeOK' /\ CancelCounted'
  BY <1>12 DEF JoinDrainer, ServerTypeOK, CancelCounted, Request, C!RRTypeOK,
        C!Status, prompts, queries, sessions, requests, connection
<1>13. ASSUME NEW p \in Prompt, SaveTranscript(p) PROVE ServerTypeOK' /\ CancelCounted'
  BY <1>13 DEF SaveTranscript, ServerTypeOK, CancelCounted, Request,
        C!RRTypeOK, C!Status, prompts, queries, sessions, requests, connection
<1>14. ASSUME NEW p \in Prompt, Respond(p) PROVE ServerTypeOK' /\ CancelCounted'
  BY <1>14 DEF Respond, ServerTypeOK, CancelCounted, Request, C!RRTypeOK,
        C!Status, prompts, queries, sessions, requests, connection
<1>15. ASSUME NEW p \in Prompt, Drain(p) PROVE ServerTypeOK' /\ CancelCounted'
  BY <1>15 DEF Drain, ServerTypeOK, CancelCounted, Request, C!RRTypeOK,
        C!Status, prompts, queries, sessions, requests, connection
<1>16. ASSUME NEW r \in Request, Forward(r) PROVE ServerTypeOK' /\ CancelCounted'
  BY <1>16 DEF Forward, Tell, C!Open, ServerTypeOK, CancelCounted, Request,
        C!RRTypeOK, C!Status, prompts, queries, sessions, requests, connection
<1>17. ASSUME NEW r \in Request, Decide(r) PROVE ServerTypeOK' /\ CancelCounted'
  BY <1>17 DEF Decide, Tell, C!Answer, ServerTypeOK, CancelCounted, Request,
        C!RRTypeOK, C!Status, prompts, queries, sessions, requests, connection
<1>18. ASSUME NEW r \in Request, DenyUnanswered(r) PROVE ServerTypeOK' /\ CancelCounted'
  BY <1>18 DEF DenyUnanswered, Tell, C!Fail, ServerTypeOK, CancelCounted,
        Request, C!RRTypeOK, C!Status, prompts, queries, sessions, requests, connection
<1>19. ASSUME NEW r \in Request, Abort(r) PROVE ServerTypeOK' /\ CancelCounted'
  BY <1>19 DEF Abort, Tell, C!Fail, ServerTypeOK, CancelCounted, Request,
        C!RRTypeOK, C!Status, prompts, queries, sessions, requests, connection
<1>20. CASE UNCHANGED serverVars
  BY <1>20 DEF serverVars, ServerTypeOK, CancelCounted, Request, C!RRTypeOK,
        C!Status, prompts, queries, sessions, requests, connection
<1>21. ASSUME NEW p \in Prompt, NEW g \in Agent, StartAgent(p, g)
       PROVE  ServerTypeOK' /\ CancelCounted'
  BY <1>21 DEF StartAgent, ServerTypeOK, CancelCounted, Request, C!RRTypeOK,
        C!Status, prompts, sessions, requests, connection
<1>22. QED
  BY <1>21, <1>1, <1>2, <1>3, <1>4, <1>5, <1>6, <1>7, <1>8, <1>9, <1>10, <1>11,
        <1>12, <1>13, <1>14, <1>15, <1>16, <1>17, <1>18, <1>19, <1>20
     DEF ServerNext, Handle, ForwardTask, Asker

-----------------------------------------------------------------------------
\* Steps that touch no prompt and no transcript.
LEMMA PromptsUntouched ==
  ASSUME PromptInv, UNCHANGED <<phase, view, blocked, outcome, history, overlapped>>
  PROVE  PromptInv'
BY DEF PromptInv, OneInFlight, BlockedRuns, CopyKept, TurnsKept, InFlight, Orderly

\* Every step keeps what is said of prompts and transcripts.
LEMMA PromptsKept ==
  ASSUME ServerTypeOK, PromptInv, [ServerNext]_serverVars
  PROVE  PromptInv'
<1>1. ASSUME NEW p \in Prompt, SendPrompt(p) PROVE PromptInv'
  BY <1>1 DEF SendPrompt, ServerTypeOK, PromptInv, OneInFlight,
         BlockedRuns, CopyKept, TurnsKept, InFlight, Orderly, sessions, prompts, queries
<1>2. ASSUME NEW p \in Prompt, CopyTranscript(p) PROVE PromptInv'
  <2>1. OneInFlight'
    BY <1>2 DEF CopyTranscript, ServerTypeOK, PromptInv, OneInFlight, BlockedRuns,
           CopyKept, TurnsKept, InFlight, Orderly, sessions, queries
  <2>2. BlockedRuns'
    BY <1>2 DEF CopyTranscript, ServerTypeOK, PromptInv, OneInFlight, BlockedRuns,
           CopyKept, TurnsKept, InFlight, Orderly, sessions, queries
  <2>3. CopyKept'
    BY <1>2 DEF CopyTranscript, ServerTypeOK, PromptInv, OneInFlight, BlockedRuns,
           CopyKept, TurnsKept, InFlight, Orderly, sessions, queries
  <2>4. TurnsKept'
    BY <1>2 DEF CopyTranscript, ServerTypeOK, PromptInv, OneInFlight, BlockedRuns,
           CopyKept, TurnsKept, InFlight, Orderly, sessions, queries
  <2>5. QED
    BY <2>1, <2>2, <2>3, <2>4 DEF PromptInv
<1>3. ASSUME NEW p \in Prompt, CaptureToken(p) PROVE PromptInv'
  BY <1>3 DEF CaptureToken, ServerTypeOK, PromptInv, OneInFlight,
         BlockedRuns, CopyKept, TurnsKept, InFlight, Orderly, sessions, prompts, queries
<1>4. ASSUME NEW p \in Asker, Ask(p) PROVE PromptInv'
  <2>1. UNCHANGED <<phase, view, outcome, history, overlapped>>
    BY <1>4 DEF Ask, prompts
  <2>2. BlockedRuns'
    BY <1>4, <2>1 DEF Ask, Asking, ServerTypeOK, ServerAssumption, PromptInv, BlockedRuns
  <2>3. QED
    BY <2>1, <2>2 DEF PromptInv, OneInFlight, CopyKept, TurnsKept, InFlight, Orderly
<1>5. ASSUME NEW p \in Asker, Resume(p) PROVE PromptInv'
  BY <1>5 DEF Resume, ServerTypeOK, PromptInv, OneInFlight,
         BlockedRuns, CopyKept, TurnsKept, InFlight, Orderly, sessions, prompts, queries
<1>6. ASSUME NEW p \in Prompt, QueryEnds(p) PROVE PromptInv'
  BY <1>6 DEF QueryEnds, ServerTypeOK, PromptInv, OneInFlight,
         BlockedRuns, CopyKept, TurnsKept, InFlight, Orderly, sessions, prompts, queries
<1>7. ASSUME NEW p \in Prompt, JoinDrainer(p) PROVE PromptInv'
  BY <1>7 DEF JoinDrainer, ServerTypeOK, PromptInv, OneInFlight,
         BlockedRuns, CopyKept, TurnsKept, InFlight, Orderly, sessions, prompts, queries
<1>8. ASSUME NEW p \in Prompt, SaveTranscript(p) PROVE PromptInv'
  <2>1. OneInFlight'
    BY <1>8 DEF SaveTranscript, ServerTypeOK, PromptInv, OneInFlight, BlockedRuns,
           CopyKept, TurnsKept, InFlight, Orderly, sessions, queries
  <2>2. BlockedRuns'
    BY <1>8 DEF SaveTranscript, ServerTypeOK, PromptInv, OneInFlight, BlockedRuns,
           CopyKept, TurnsKept, InFlight, Orderly, sessions, queries
  <2>3. CopyKept'
    BY <1>8 DEF SaveTranscript, ServerTypeOK, PromptInv, OneInFlight, BlockedRuns,
           CopyKept, TurnsKept, InFlight, Orderly, sessions, queries
  <2>4. TurnsKept'
    BY <1>8 DEF SaveTranscript, ServerTypeOK, PromptInv, OneInFlight, BlockedRuns,
           CopyKept, TurnsKept, InFlight, Orderly, sessions, queries
  <2>5. QED
    BY <2>1, <2>2, <2>3, <2>4 DEF PromptInv
<1>9. ASSUME NEW p \in Prompt, Respond(p) PROVE PromptInv'
  BY <1>9 DEF Respond, ServerTypeOK, PromptInv, OneInFlight,
         BlockedRuns, CopyKept, TurnsKept, InFlight, Orderly, sessions, prompts, queries
<1>10. ASSUME NEW p \in Prompt, Drain(p) PROVE PromptInv'
  BY <1>10, PromptsUntouched DEF Drain, prompts, queries
<1>11. ASSUME NEW s \in Session, SendCancel(s) \/ CancelTurn(s) PROVE PromptInv'
  BY <1>11, PromptsUntouched DEF SendCancel, CancelTurn, prompts, queries
<1>12. ASSUME NEW r \in Request, ClientReplies(r) \/ ForwardTask(r) PROVE PromptInv'
  BY <1>12, PromptsUntouched DEF ClientReplies, ForwardTask, Forward, Decide,
     DenyUnanswered, Abort, prompts, queries, sessions
<1>13. CASE EndOfInput \/ EndOfOutput \/ UNCHANGED serverVars
  BY <1>13, PromptsUntouched DEF EndOfInput, EndOfOutput, prompts, queries, sessions, serverVars
<1>14. ASSUME NEW p \in Prompt, NEW g \in Agent, StartAgent(p, g) PROVE PromptInv'
  BY <1>14, PromptsUntouched DEF StartAgent, prompts, sessions
<1>15. QED
  BY <1>1, <1>2, <1>3, <1>4, <1>5, <1>6, <1>7, <1>8, <1>9, <1>10, <1>11, <1>12,
     <1>13, <1>14 DEF ServerNext, Handle, Asker

-----------------------------------------------------------------------------
\* Steps that touch no permission; the client may reply or leave.
LEMMA PermissionsUntouched ==
  ASSUME PermissionInv,
         UNCHANGED <<asks, blocked, queue, owner, verdict>>,
         overlapped \subseteq overlapped', replied \subseteq replied',
         closed => closed', broken => broken'
  PROVE  PermissionInv'
<1> SUFFICES ASSUME NEW q \in Asker, NEW n \in 1..MaxAsks PROVE Placed(q, n)'
  BY DEF PermissionInv
<1>1. Placed(q, n)
  BY DEF PermissionInv
<1>2. QED
  BY <1>1 DEF Placed, Undecided, Orderly

(* A tool that asks puts its request in the queue of its session, and      *)
(* keeps the places of the others.                                         *)
LEMMA AskPlaces ==
  ASSUME ServerTypeOK, PromptInv, PermissionInv, NEW p \in Asker, Ask(p),
         NEW q \in Asker, NEW n \in 1..MaxAsks
  PROVE  Placed(q, n)'
<1> USE DEF Ask, ServerTypeOK, requests, connection
<1>1. Placed(q, n) /\ UNCHANGED <<owner, verdict, replied, closed, broken, overlapped>>
  BY DEF PermissionInv
<1>2. CASE q = p
  <2>1. /\ asks'[q] = asks[q] + 1 /\ blocked'[q]
        /\ ~blocked[q] /\ asks[q] \in Nat
    BY <1>2
  <2>2. \A s \in Session : <<q, n>> \in queue'[s] =>
          <<q, n>> \in queue[s] \/ (s = SessionOf[q] /\ n = asks[q] + 1)
    BY <1>2
  <2>3. n \in Nat
    OBVIOUS
  <2>4. QED
    BY ONLY <1>1, <2>1, <2>2, <2>3 DEF Placed, Undecided, Orderly
<1>3. CASE q # p
  <2>1. asks'[q] = asks[q] /\ blocked'[q] = blocked[q]
    BY <1>3
  <2>2. \A s \in Session : <<q, n>> \in queue'[s] => <<q, n>> \in queue[s]
    BY <1>3
  <2>3. QED
    BY ONLY <1>1, <2>1, <2>2 DEF Placed, Undecided, Orderly
<1>4. QED
  BY <1>2, <1>3

(* A tool that resumes has its verdict; the places of the other requests   *)
(* stay.                                                                   *)
LEMMA ResumePlaces ==
  ASSUME ServerTypeOK, PermissionInv, NEW p \in Asker, Resume(p),
         NEW q \in Asker, NEW n \in 1..MaxAsks
  PROVE  Placed(q, n)'
<1>1. Placed(q, n)
  BY DEF PermissionInv
<1>2. UNCHANGED <<asks, queue, owner, verdict, overlapped, replied, closed, broken>>
  BY DEF Resume, sessions, requests, connection
<1>3. CASE q = p
  <2>1. n = asks[q] => verdict[<<q, n>>] # "none"
    BY <1>3 DEF Resume, Latest
  <2>2. ~Undecided(<<q, n>>) /\ \A s \in Session : <<q, n>> \notin queue[s]
    BY <1>1, <2>1 DEF Placed, Undecided
  <2>3. QED
    BY <1>1, <1>2, <2>2 DEF Placed, Undecided, Orderly
<1>4. CASE q # p
  <2>1. blocked'[q] = blocked[q]
    BY <1>4 DEF Resume, ServerTypeOK
  <2>2. QED
    BY <1>1, <1>2, <2>1 DEF Placed, Undecided, Orderly
<1>5. QED
  BY <1>3, <1>4

\* A drainer empties its session's store: in an orderly session what it takes is
\* its own prompt's.
LEMMA DrainPlaces ==
  ASSUME ServerTypeOK, PromptInv, PermissionInv, NEW p \in Prompt, Drain(p),
         NEW q \in Asker, NEW n \in 1..MaxAsks
  PROVE  Placed(q, n)'
<1>1. Placed(q, n) /\ <<q, n>> \in Request
  BY DEF PermissionInv, Request
<1>2. UNCHANGED <<asks, blocked, verdict, overlapped, replied, closed, broken>>
  BY DEF Drain, prompts, queries, connection
<1>3. /\ phase[p] \in {"running", "ended"}
      /\ queue' = [queue EXCEPT ![SessionOf[p]] = {}]
      /\ owner'[<<q, n>>] = IF <<q, n>> \in queue[SessionOf[p]]
                            THEN p ELSE owner[<<q, n>>]
  BY <1>1 DEF Drain
<1>4. CASE <<q, n>> \in queue[SessionOf[p]]
  <2>1. /\ SessionOf[q] = SessionOf[p] /\ blocked[q] /\ n = asks[q]
        /\ verdict[<<q, n>>] = "none"
        /\ \A s \in Session : <<q, n>> \in queue[s] => s = SessionOf[p]
    BY <1>1, <1>4 DEF Placed
  <2>2. q \in Prompt /\ Orderly(q) => q = p
    BY <1>3, <2>1 DEF PromptInv, BlockedRuns, OneInFlight, InFlight
  <2>3. \A s \in Session : <<q, n>> \notin queue'[s]
    BY <1>3, <2>1 DEF ServerTypeOK
  <2>4. asks[q] \in Nat
    BY DEF ServerTypeOK
  <2>5. QED
    BY <1>2, <1>3, <1>4, <2>1, <2>2, <2>3, <2>4 DEF Placed, Orderly
<1>5. CASE <<q, n>> \notin queue[SessionOf[p]]
  <2>1. owner'[<<q, n>>] = owner[<<q, n>>]
    BY <1>3, <1>5
  <2>2. \A s \in Session : <<q, n>> \in queue'[s] => <<q, n>> \in queue[s]
    BY <1>3, <1>5 DEF ServerTypeOK
  <2>3. QED
    BY <1>1, <1>2, <2>1, <2>2 DEF Placed, Undecided, Orderly
<1>6. QED
  BY <1>4, <1>5

\* Forwarding decides a request at most: by the client's reply, because the
\* client is gone, or by Abort, which finds no request of an orderly session.
LEMMA ForwardPlaces ==
  ASSUME ServerTypeOK, PromptInv, PermissionInv, NEW r \in Request, ForwardTask(r),
         NEW q \in Asker, NEW n \in 1..MaxAsks
  PROVE  Placed(q, n)'
<1> USE DEF ForwardTask, Forward, Decide, DenyUnanswered, Abort
<1>1. Placed(q, n) /\ <<q, n>> \in Request
  BY DEF PermissionInv, Request
<1>2. UNCHANGED <<asks, blocked, queue, owner, overlapped, replied, closed, broken>>
  BY DEF prompts, queries, sessions, C!Open, C!Answer, C!Fail
<1>3. CASE verdict'[<<q, n>>] = verdict[<<q, n>>]
  BY <1>1, <1>2, <1>3 DEF Placed, Undecided, Orderly
<1>4. CASE verdict'[<<q, n>>] # verdict[<<q, n>>]
  <2>1. <<q, n>> = r
    BY <1>1, <1>4 DEF Tell, ServerTypeOK
  <2>2. Undecided(<<q, n>>) /\ verdict'[<<q, n>>] # "none"
    BY <1>1, <1>4, <2>1 DEF Tell, ServerTypeOK
  <2>3. /\ blocked[q] /\ n = asks[q] /\ (q \in Prompt /\ Orderly(q) => owner[<<q, n>>] = q)
        /\ \A s \in Session : <<q, n>> \notin queue[s]
    BY <1>1, <2>2 DEF Placed, Undecided
  <2>4. /\ verdict'[<<q, n>>] = "deny" => <<q, n>> \in replied \/ closed \/ broken
        /\ q \in Prompt /\ Orderly(q) => verdict'[<<q, n>>] # "dropped"
    <3>1. CASE Decide(r) \/ Forward(r) \/ DenyUnanswered(r)
      <4>1. verdict'[r] \in {"allow", "deny"}
        BY <1>1, <1>4, <2>1, <3>1 DEF Tell, ServerTypeOK
      <4>2. r \in replied \/ closed \/ broken
        BY <1>1, <1>4, <2>1, <3>1 DEF Tell, C!Answer
      <4>3. QED
        BY <2>1, <4>1, <4>2
    <3>2. CASE Abort(r)
      <4>1. verdict'[r] = "dropped" /\ phase[owner[r]] = "ended"
        BY <1>1, <2>1, <3>2 DEF Tell, ServerTypeOK
      <4>2. ~(q \in Prompt /\ Orderly(q))
        BY <2>1, <2>3, <4>1 DEF PromptInv, BlockedRuns
      <4>3. QED
        BY <2>1, <4>1, <4>2
    <3>3. QED
      BY <3>1, <3>2
  <2>5. asks[q] \in Nat
    BY DEF ServerTypeOK
  <2>6. QED
    BY <1>2, <2>2, <2>3, <2>4, <2>5 DEF Placed, Undecided, Orderly
<1>5. QED
  BY <1>3, <1>4

\* Every step keeps what is said of permissions.
LEMMA PermissionsKept ==
  ASSUME ServerTypeOK, PromptInv, PermissionInv, [ServerNext]_serverVars
  PROVE  PermissionInv'
<1>1. ASSUME NEW p \in Asker, Ask(p) PROVE PermissionInv'
  BY <1>1, AskPlaces DEF PermissionInv
<1>2. ASSUME NEW p \in Asker, Resume(p) PROVE PermissionInv'
  BY <1>2, ResumePlaces DEF PermissionInv
<1>3. ASSUME NEW p \in Prompt, Drain(p) PROVE PermissionInv'
  BY <1>3, DrainPlaces DEF PermissionInv
<1>4. ASSUME NEW r \in Request, ForwardTask(r) PROVE PermissionInv'
  BY <1>4, ForwardPlaces DEF PermissionInv
<1>5. CASE \/ \E s \in Session : SendCancel(s) \/ CancelTurn(s)
           \/ \E r \in Request : ClientReplies(r)
           \/ \E p \in Prompt : \/ SendPrompt(p) \/ CopyTranscript(p) \/ CaptureToken(p)
                                \/ QueryEnds(p) \/ JoinDrainer(p)
                                \/ SaveTranscript(p) \/ Respond(p)
           \/ \E p \in Prompt, g \in Agent : StartAgent(p, g)
           \/ EndOfInput \/ EndOfOutput \/ UNCHANGED serverVars
  <2>1. /\ UNCHANGED <<asks, blocked, queue, owner, verdict>>
        /\ overlapped \subseteq overlapped' /\ replied \subseteq replied'
        /\ (closed => closed') /\ (broken => broken')
    BY <1>5 DEF SendCancel, CancelTurn, ClientReplies, SendPrompt, CopyTranscript,
       CaptureToken, QueryEnds, JoinDrainer, SaveTranscript, Respond, StartAgent, EndOfInput,
       EndOfOutput, prompts, queries, sessions, requests, connection, serverVars, C!Reply, C!Close
  <2>2. QED
    BY <2>1, PermissionsUntouched
<1>6. QED
  BY <1>1, <1>2, <1>3, <1>4, <1>5 DEF ServerNext, Handle, Asker

-----------------------------------------------------------------------------
\* The server starts with no prompt and no request.
LEMMA ServerStarts == ASSUME ServerInit PROVE ServerInv
<1>1. ServerTypeOK /\ CancelCounted
  <2>1. C!RRTypeOK
    BY DEF ServerInit, C!RRInit, C!RRTypeOK, C!Status
  <2>2. /\ 0 \in 0..MaxCancels /\ 0 \in 0..MaxAsks
        /\ {} \in SUBSET Prompt /\ {} \in SUBSET Request
    OBVIOUS
  <2>3. QED
    BY <2>1, <2>2 DEF ServerInit, ServerTypeOK, CancelCounted
<1>2. PromptInv
  BY DEF ServerInit, PromptInv, OneInFlight, BlockedRuns, CopyKept, TurnsKept, InFlight
<1>3. PermissionInv
  BY DEF ServerInit, PermissionInv, Placed, Undecided, Request
<1>4. QED
  BY <1>1, <1>2, <1>3 DEF ServerInv

\* The inductive invariant of the server: types, prompts and permissions.
THEOREM ServerInvariant == ServerSpec => []ServerInv
<1>1. ServerInit => ServerInv
  BY ServerStarts
<1>2. ServerInv /\ [ServerNext]_serverVars => ServerInv'
  BY TypesKept, PromptsKept, PermissionsKept DEF ServerInv
<1>3. QED
  BY <1>1, <1>2, PTL DEF ServerSpec

\* A denial is the client's or that of a client that is gone; and in a session
\* that is prompted only when it is idle the end of a prompt denies none of its
\* own tools on the client's behalf, however often the client cancels, whatever
\* agents ask through the same store and whatever the other sessions do
\* (prompt::handle, spawn_drainer, forward_pending).
THEOREM DeniedByClientOnly == ServerSpec => []DeniedByClient
<1>1. ServerInv => DeniedByClient
  BY DEF ServerInv, PermissionInv, Placed, DeniedByClient, Request, Asker
<1>2. QED
  BY <1>1, ServerInvariant, PTL

\* In such a session no answered turn is lost from the transcript, though every
\* prompt replaces it by a copy (prompt::handle).
THEOREM TurnsAreKept == ServerSpec => []TurnsKept
<1>1. ServerInv => TurnsKept
  BY DEF ServerInv, PromptInv
<1>2. QED
  BY <1>1, ServerInvariant, PTL
=============================================================================
