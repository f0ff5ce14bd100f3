---------------------------- MODULE Conversation ----------------------------
(***************************************************************************)
(* The copies of one conversation in the interactive program: what the     *)
(* loop sends to the model, what the screen shows, the record of the       *)
(* session that is written to its file, the copy a query task works on,    *)
(* and the search index.  Each is changed at its own point of the frame,   *)
(* and keys, commands, the remote control and crashes come between.        *)
(*                                                                         *)
(* When a query may start, and what becomes of the prompt, is the subject  *)
(* of InteractiveSession; here a frame has only the points that touch a    *)
(* copy.  A write of the file and the index is one step with what led to   *)
(* it.  A message is told apart by its kind, its session and a number.     *)
(* "goal" is a synthetic message, the only kind with an id of its own that *)
(* the loop can take back; "results" carry what tools returned; "notice"   *)
(* is the output of a command, which only the screen shows.                *)
(***************************************************************************)
EXTENDS Naturals, Sequences, SequencesExt

CONSTANTS
  Session,   \* ids of sessions
  First,     \* the session the program starts with
  Keep,      \* KEEP_RECENT_MESSAGES
  MaxMade,   \* bound: how many messages are ever made
  Scenario   \* bound: what the user and the environment do, and how much of it

ASSUME SessionAssumption == First \in Session
ASSUME BoundAssumption == MaxMade \in Nat /\ Keep \in Nat
ASSUME ScenarioAssumption == \A sc \in Scenario :
  /\ sc.made \in 0..MaxMade
  /\ sc.does \subseteq {"goal", "tools", "remote", "compacts", "rewinds", "switches",
                        "commands", "fails", "interrupts", "crashes"}

Kind == {"user", "goal", "answer", "results", "notice", "summary"}
Message == [kind : Kind, in : Session, n : 1..MaxMade]
None == [kind |-> "none", in |-> First, n |-> 0]
Outcome == {"EndTurn", "RateLimit", "Error", "Cancelled"}

VARIABLES
  scenario,   \* the scenario, which does not change
  phase,      \* where in the frame the loop is
  session,    \* the id of the session
  copies,     \* messages, app.messages (the screen) and session.messages
  disk,       \* per session, its file
  index,      \* goal messages the search index has
  owner,      \* goal_turn
  task,       \* current_query and the copy it works on
  events,     \* events of the current generation not yet drained
  streaming,  \* app.is_streaming
  recovery,   \* RateLimitRecoveryState: "closed", "open" or "pending"
  overlay,    \* the rewind overlay is open
  made,       \* history: how many messages were made
  since,      \* history: messages up to this number were cleared
  rolled,     \* history: messages taken back
  sent        \* history: goal messages a model was asked about

store == <<disk, index>>
history == <<made, since, rolled, sent>>
vars == <<scenario, phase, session, copies, store, owner, task, events, streaming,
          recovery, overlay, history>>

Turn == [held : BOOLEAN, message : Message \cup {None}, abandoned : BOOLEAN,
         revoked : BOOLEAN, attempted : BOOLEAN]
Task == [job : {"none", "turn", "compact"}, outcome : {"running"} \cup Outcome,
         messages : Seq(Message), from : 0..MaxMade, current : BOOLEAN,
         cancelled : BOOLEAN]
Event == [message : Message \cup {None}, streaming : BOOLEAN]

TypeOK ==
  /\ scenario \in Scenario
  /\ phase \in {"key", "drain", "settle", "remote", "retry", "end"}
  /\ session \in Session
  /\ copies \in [messages : Seq(Message), screen : Seq(Message), record : Seq(Message)]
  /\ disk \in [Session -> Seq(Message)]
  /\ index \subseteq Message
  /\ owner \in Turn /\ task \in Task /\ events \in Seq(Event)
  /\ streaming \in BOOLEAN /\ overlay \in BOOLEAN
  /\ recovery \in {"closed", "open", "pending"}
  /\ made \in 0..MaxMade /\ since \in 0..MaxMade
  /\ rolled \subseteq Message /\ sent \subseteq Message

NoFile == <<>>
NoOwner == [held |-> FALSE, message |-> None, abandoned |-> FALSE,
            revoked |-> FALSE, attempted |-> FALSE]
NoTask == [job |-> "none", outcome |-> "running", messages |-> <<>>, from |-> 0,
           current |-> FALSE, cancelled |-> FALSE]

Alike(s) == [messages |-> s, screen |-> s, record |-> s]

Init ==
  /\ scenario \in Scenario /\ phase = "key" /\ session = First /\ copies = Alike(<<>>)
  /\ disk = [s \in Session |-> NoFile] /\ index = {}
  /\ owner = NoOwner /\ task = NoTask /\ events = <<>> /\ streaming = FALSE
  /\ recovery = "closed" /\ overlay = FALSE
  /\ made = 0 /\ since = 0 /\ rolled = {} /\ sent = {}

Does(f) == f \in scenario.does

Idle == task.job = "none"
Running == ~Idle /\ task.outcome = "running"

New(kind) == [kind |-> kind, in |-> session, n |-> made + 1]
Make == made < scenario.made /\ made' = made + 1

-----------------------------------------------------------------------------
(* What the steps of the frame are made of. *)

OwnerOf(m) == [NoOwner EXCEPT !.held = TRUE, !.message = m]

Spawn(job, msgs) ==
  /\ task' = [job |-> job, outcome |-> "running", messages |-> msgs, from |-> made,
              current |-> TRUE, cancelled |-> FALSE]
  /\ streaming' = TRUE

(* A message of the user or of the goal enters all three copies; the       *)
(* record is made equal to what the loop will send.                        *)
Said(c, m) == [messages |-> Append(c.messages, m), screen |-> Append(c.screen, m),
               record |-> Append(c.messages, m)]

(* Mutant of MayRollBack: what was sent is taken back, too. *)
MayRollBackSent(force) ==
  owner.message # None /\ (force \/ owner.abandoned \/ owner.revoked)

MayRollBack(force) ==
  owner.message # None /\ ~owner.attempted /\ (force \/ owner.abandoned \/ owner.revoked)

(* A message is at most once in a copy (OldStaysOut).                      *)
Without(c, m) == [messages |-> RemoveFirst(c.messages, m),
                  screen |-> RemoveFirst(c.screen, m),
                  record |-> RemoveFirst(c.record, m)]

(* Mutant of RolledBack: nothing is taken back at the end of the task. *)
RolledBackEarly(c, force) ==
  IF force /\ MayRollBack(force) THEN Without(c, owner.message) ELSE c

(* rollback_unattempted_turn removes the message of the turn everywhere.   *)
RolledBack(c, force) ==
  IF MayRollBack(force) THEN Without(c, owner.message) ELSE c

Note(before, after) ==
  rolled' = IF before = after THEN rolled ELSE rolled \cup {owner.message}

(* Mutant of Indexed: the message of a turn is indexed before it is sent.  *)
IndexedEarly(rec) == {m \in ToSet(rec) : m.kind = "goal"}

Indexed(rec) ==
  {m \in ToSet(rec) : m.kind = "goal" /\ (m = owner.message => owner.attempted)}

(* persist_interactive_session: the file is replaced, then the index is    *)
(* completed, never corrected.                                             *)
Persist(rec) ==
  /\ disk' = [disk EXCEPT ![session] = rec]
  /\ index' = index \cup Indexed(rec)

(* A forced rollback is persisted if it changed anything. *)
ForcedRollback(c) ==
  /\ Note(copies, c)
  /\ IF c = copies THEN UNCHANGED store ELSE Persist(c.record)

(* Mutant of Advance: late events reach the new conversation. *)
AdvanceNothing == UNCHANGED <<task, events>>

(* SessionScope::advance: events of older generations will be discarded    *)
(* when they are drained, here at once.                                    *)
Advance == task' = [task EXCEPT !.current = FALSE] /\ events' = <<>>

-----------------------------------------------------------------------------
(* Keys. *)

(* What a key event ends with, unless it started the next frame at once: a *)
(* screen that is shorter than the conversation is taken for a rewind.     *)
KeyEnds(screen, str) ==
  /\ phase = "key" /\ phase' = "drain" /\ streaming' = str
  /\ IF ~str /\ Len(screen) < Len(copies.messages)
     THEN copies' = Alike(screen) /\ Advance
     ELSE copies' = [copies EXCEPT !.screen = screen] /\ UNCHANGED <<task, events>>
  /\ UNCHANGED <<session, store, history>>

NoKey ==
  /\ phase = "key" /\ phase' = "drain"
  /\ UNCHANGED <<session, copies, store, owner, task, events, streaming,
                 recovery, overlay, history>>

(* Any key without a meaning here; it may close the overlay. *)
OrdinaryKey ==
  /\ KeyEnds(copies.screen, streaming)
  /\ overlay' \in {overlay, FALSE} /\ UNCHANGED <<owner, recovery>>

(* Esc stops showing the stream, while the query goes on. *)
Escape ==
  /\ Does("interrupts") /\ streaming /\ recovery # "open" /\ ~overlay
  /\ KeyEnds(copies.screen, FALSE) /\ UNCHANGED <<owner, recovery, overlay>>

(* The rewind overlay is confirmed at one of the messages on the screen. *)
RewindTo(i) ==
  /\ overlay /\ i < Len(copies.screen)
  /\ KeyEnds(SubSeq(copies.screen, 1, i), streaming)
  /\ overlay' = FALSE /\ UNCHANGED <<owner, recovery>>

(* A key of the recovery modal retries, or dismisses it and gives the turn *)
(* up: settle_abandoned_turn tells its owner in the same frame.            *)
RecoveryKey ==
  /\ recovery = "open" /\ KeyEnds(copies.screen, streaming) /\ UNCHANGED overlay
  /\ \/ recovery' = "pending" /\ UNCHANGED owner
     \/ recovery' = "closed" /\ owner' = [owner EXCEPT !.abandoned = owner.held]

(* abandon_interactive_turn, by the interrupt key, the remote control, or   *)
(* at the end of a frame for an Esc of the Next renderer.                  *)
Abandon ==
  /\ Does("interrupts")
  /\ phase \in {"key", "remote"} \/ (phase = "end" /\ ~Idle)
  /\ owner' = [owner EXCEPT !.abandoned = owner.held]
  /\ task' = [task EXCEPT !.cancelled = ~Idle]
  /\ recovery' = "closed" /\ streaming' = (streaming /\ phase = "end")
  /\ UNCHANGED <<phase, session, copies, store, events, overlay, history>>

-----------------------------------------------------------------------------
(* Enter: submissions and commands, which start the next frame at once. *)

Entered == phase = "key" /\ Idle /\ ~streaming /\ recovery # "open" /\ ~overlay

(* A turn starts, with a text of the user or of a goal. *)
Starts(kind) ==
  LET c == RolledBack(copies, TRUE)
      m == New(kind) IN
  /\ Make /\ ForcedRollback(c) /\ copies' = Said(c, m)
  /\ owner' = OwnerOf(IF kind = "goal" THEN m ELSE None)
  /\ Spawn("turn", Append(c.messages, m)) /\ recovery' = "closed"
  /\ UNCHANGED <<session, events, overlay, since, sent>>

Submit ==
  /\ Entered /\ UNCHANGED phase
  /\ Starts("user") \/ (Does("goal") /\ Starts("goal"))

(* inject refuses: the goal may not work now. *)
SubmitRefused ==
  /\ Entered /\ Does("goal")
  /\ copies' = RolledBack(copies, TRUE) /\ ForcedRollback(copies')
  /\ owner' = NoOwner /\ recovery' = "closed"
  /\ UNCHANGED <<phase, session, task, events, streaming, overlay, made, since,
                 sent>>

Command == Entered /\ UNCHANGED <<phase, owner, streaming, recovery, rolled, sent>>

Clear ==
  /\ Command /\ Does("rewinds")
  /\ copies' = Alike(<<>>) /\ Advance /\ since' = made
  /\ UNCHANGED <<session, store, overlay, made>>

(* /rewind opens the overlay over what the loop would send. *)
OpenRewind ==
  /\ Command /\ Does("rewinds") /\ copies.messages # <<>>
  /\ copies' = [copies EXCEPT !.screen = copies.messages] /\ overlay' = TRUE
  /\ UNCHANGED <<session, store, task, events, made, since>>

(* /resume replaces the session by one that was saved; the owner stays. *)
Resume(s) ==
  /\ Command /\ Does("switches") /\ disk[s] # NoFile
  /\ session' = s /\ copies' = Alike(disk[s])
  /\ Advance /\ since' = 0
  /\ UNCHANGED <<store, overlay, made>>

(* A command that prints. *)
Output ==
  /\ Command /\ Does("commands") /\ Make
  /\ copies' = [copies EXCEPT !.screen = Append(@, New("notice"))]
  /\ UNCHANGED <<session, store, task, events, overlay, since>>

(* /session rename saves the record. *)
Rename ==
  /\ Command /\ Does("commands")
  /\ disk' = [disk EXCEPT ![session] = copies.record]
  /\ UNCHANGED <<session, copies, index, task, events, overlay, made, since>>

-----------------------------------------------------------------------------
(* The rest of the frame. *)

(* The screen takes an answer it does not show yet; results of tools go to *)
(* their cards and are no message of the screen.                           *)
Shown(screen, m) ==
  IF m = None \/ Contains(screen, m) THEN screen ELSE Append(screen, m)

(* One event after the other, while the task may send more. *)
Drain ==
  /\ phase = "drain" /\ events # <<>>
  /\ copies' = [copies EXCEPT !.screen = Shown(@, Head(events).message)]
  /\ streaming' = Head(events).streaming
  /\ events' = Tail(events)
  /\ UNCHANGED <<phase, session, store, owner, task, recovery, overlay, history>>

Drained ==
  /\ phase = "drain" /\ events = <<>> /\ phase' = "settle"
  /\ UNCHANGED <<session, copies, store, owner, task, events, streaming,
                 recovery, overlay, history>>

(* settle_abandoned_turn, then an idle session may be compacted. *)
Settle ==
  /\ phase = "settle" /\ phase' = "remote"
  /\ IF owner.abandoned
     THEN copies' = RolledBack(copies, TRUE) /\ ForcedRollback(copies')
     ELSE UNCHANGED <<copies, store, rolled>>
  /\ \/ /\ Does("compacts") /\ Idle /\ ~streaming /\ recovery = "closed"
        /\ Spawn("compact", copies'.messages) /\ owner' = NoOwner
     \/ /\ owner' = IF owner.abandoned /\ Idle THEN NoOwner ELSE owner
        /\ UNCHANGED <<task, streaming>>
  /\ UNCHANGED <<session, events, recovery, overlay, made, since, sent>>

RemotePrompt ==
  /\ phase = "remote" /\ phase' = "retry"
  /\ Does("remote") /\ Idle /\ ~streaming /\ Starts("user")

NoRemotePrompt ==
  /\ phase = "remote" /\ phase' = "retry"
  /\ UNCHANGED <<session, copies, store, owner, task, events, streaming,
                 recovery, overlay, history>>

Retry ==
  /\ phase = "retry" /\ phase' = "end"
  /\ IF recovery = "pending" /\ Idle /\ ~streaming
     THEN /\ recovery' = "closed"
          /\ IF copies.messages # <<>> /\ owner.held /\ ~owner.abandoned
             THEN Spawn("turn", copies.messages)
             ELSE UNCHANGED <<task, streaming>>
     ELSE UNCHANGED <<recovery, task, streaming>>
  /\ UNCHANGED <<session, copies, store, owner, events, overlay, history>>

NotEnded ==
  /\ phase = "end" /\ phase' = "key" /\ (Idle \/ Running)
  /\ UNCHANGED <<session, copies, store, owner, task, events, streaming,
                 recovery, overlay, history>>

(* Mutant of Synced: the record is left as it was. *)
SyncedLate == [copies EXCEPT !.messages = task.messages]

(* The copy of the task becomes the conversation; the screen is left to    *)
(* the events.                                                             *)
Synced == [copies EXCEPT !.messages = task.messages, !.record = task.messages]

(* A goal goes on with a message of its own, which is not saved yet. *)
Continues(c) ==
  /\ Does("goal") /\ task.job = "turn" /\ task.outcome = "EndTurn"
  /\ ~owner.abandoned /\ Make
  /\ LET m == New("goal") IN
       copies' = Said(c, m) /\ owner' = OwnerOf(m) /\ Spawn("turn", Append(c.messages, m))

(* An error leaves the owner for a retry; everything else releases it. *)
Stops(c) ==
  /\ copies' = c /\ task' = NoTask /\ streaming' = FALSE /\ UNCHANGED made
  /\ owner' = IF task.outcome \in {"EndTurn", "Cancelled"} \/ task.job = "compact"
                 \/ owner.abandoned
              THEN NoOwner ELSE owner

End ==
  LET c == RolledBack(Synced, FALSE) IN
  /\ phase = "end" /\ phase' = "key" /\ ~Idle /\ ~Running
  /\ recovery' = IF task.outcome = "RateLimit" /\ ~owner.abandoned THEN "open"
                 ELSE recovery
  /\ Note(Synced, c) /\ Persist(c.record)
  /\ Continues(c) \/ Stops(c)
  /\ UNCHANGED <<session, events, overlay, since, sent>>

-----------------------------------------------------------------------------
(* The task, on its own copy. *)

(* Events are tagged with the generation the task was started in. *)
Tell(e) == events' = IF task.current THEN Append(events, e) ELSE events

TaskStep == UNCHANGED <<phase, session, copies, store, streaming, recovery,
                        overlay, since, rolled>>

(* The request is about to leave: the goal allows it, and says so first. *)
Attempt ==
  /\ Running /\ task.job = "turn" /\ ~owner.attempted /\ ~owner.revoked
  /\ owner' = [owner EXCEPT !.attempted = TRUE]
  /\ sent' = IF owner.message = None THEN sent ELSE sent \cup {owner.message}
  /\ UNCHANGED <<task, events, made>> /\ TaskStep

Answered == LET last == Last(task.messages) IN
  task.messages # <<>> /\ last.kind = "answer" /\ last.n > task.from

Answer ==
  /\ Running /\ task.job = "turn" /\ owner.attempted /\ ~Answered /\ Make
  /\ task' = [task EXCEPT !.messages = Append(@, New("answer"))]
  /\ Tell([message |-> New("answer"), streaming |-> FALSE])
  /\ UNCHANGED <<owner, sent>> /\ TaskStep

(* The answer had calls: tools run, and their results join the copy. *)
CallTools ==
  /\ Running /\ task.job = "turn" /\ Does("tools") /\ Answered /\ Make
  /\ task' = [task EXCEPT !.messages = Append(@, New("results"))]
  /\ Tell([message |-> None, streaming |-> TRUE])
  /\ UNCHANGED <<owner, sent>> /\ TaskStep

(* All but the last messages are replaced by a summary, if there is more   *)
(* than one of them.                                                       *)
Compact ==
  LET all == task.messages IN
  /\ Running /\ task.job = "compact"
  /\ IF Len(all) <= Keep + 1 THEN UNCHANGED made /\ task' = [task EXCEPT !.outcome = "EndTurn"]
     ELSE /\ Make
          /\ task' = [task EXCEPT !.outcome = "EndTurn",
                        !.messages = <<New("summary")>>
                                     \o SubSeq(all, Len(all) - Keep + 1, Len(all))]
  /\ UNCHANGED <<owner, events, sent>> /\ TaskStep

Returns(outcome) ==
  /\ Running
  /\ CASE outcome = "EndTurn" -> task.job = "turn" /\ Answered
       [] outcome = "RateLimit" -> /\ task.job = "turn" /\ Does("fails")
                                   /\ owner.attempted /\ ~Answered
       [] outcome = "Error" -> Does("fails") \/ owner.revoked
       [] outcome = "Cancelled" -> task.cancelled
  /\ task' = [task EXCEPT !.outcome = outcome]
  /\ UNCHANGED <<owner, events, made, sent>> /\ TaskStep

-----------------------------------------------------------------------------
(* Somebody pauses, clears or replaces the goal of the turn. *)
Revoke ==
  /\ Does("goal") /\ owner.held /\ ~owner.revoked
  /\ owner' = [owner EXCEPT !.revoked = TRUE]
  /\ UNCHANGED <<task, events, made, sent>> /\ TaskStep

(* The program ends, anywhere, and is started again, on a session it has   *)
(* saved or a new one.                                                     *)
Restart(s) ==
  /\ Does("crashes") /\ (s = session \/ Does("switches"))
  /\ phase' = "key" /\ session' = s
  /\ copies' = Alike(disk[s]) /\ owner' = NoOwner /\ task' = NoTask
  /\ events' = <<>> /\ streaming' = FALSE /\ recovery' = "closed" /\ overlay' = FALSE
  /\ since' = 0 /\ UNCHANGED <<store, made, rolled, sent>>

Next ==
  \/ NoKey \/ OrdinaryKey \/ Escape \/ RecoveryKey \/ Abandon
  \/ \E i \in 0..MaxMade : RewindTo(i)
  \/ Submit \/ SubmitRefused \/ Clear \/ OpenRewind \/ Rename
  \/ \E s \in Session : Resume(s) \/ Restart(s)
  \/ Output
  \/ Drain \/ Drained \/ Settle \/ RemotePrompt \/ NoRemotePrompt \/ Retry \/ NotEnded \/ End
  \/ Attempt \/ Answer \/ CallTools \/ Compact \/ (\E o \in Outcome : Returns(o))
  \/ Revoke

Spec == Init /\ [][Next /\ UNCHANGED scenario]_vars

-----------------------------------------------------------------------------
(* Properties. *)

Copies == {copies.messages, copies.screen, copies.record}

(* The messages of a turn that was taken back before a model was asked are *)
(* in no copy once nothing runs, and not in the file: whichever came first,*)
(* the rollback, the end of the task or another submission.                *)
TakenBackIsGone ==
  Idle => \A m \in rolled \ sent :
            /\ \A s \in Copies : ~Contains(s, m)
            /\ ~Contains(disk[session], m)

(* The search index is never corrected, so a message is not in it as long  *)
(* as it can still be taken back.                                          *)
IndexIsFinal == index \cap rolled \subseteq sent

(* A message that a model was asked about is in the conversation when the  *)
(* query ends, although it may have been taken back just before the        *)
(* request left.                                                           *)
SentIsKept ==
  [][ End /\ owner.message \in sent /\ Contains(task.messages, owner.message)
      => /\ Contains(copies'.messages, owner.message)
         /\ Contains(disk'[session], owner.message) ]_vars

(* When nothing runs the file has the whole conversation, a crash loses at *)
(* most the turn in progress.  Output of commands is not part of it, nor is*)
(* what a rewind brings back of a conversation that has been compacted.    *)
Compacted == \E m \in ToSet(disk[session]) : m.kind = "summary"
AtRestOnDisk ==
  Idle => \A m \in ToSet(copies.messages) :
            m.kind = "notice" \/ Contains(disk[session], m) \/ Compacted

(* What was cleared is gone, what belongs to one session stays in it, and  *)
(* nothing is said twice, although events of the old conversation may be   *)
(* delivered later, and an answer reaches the screen on two ways.          *)
OldStaysOut ==
  /\ \A s \in Copies :
       /\ IsInjective(s)
       /\ \A m \in ToSet(s) : m.n > since /\ m.in = session
  /\ \A s \in Session : \A m \in ToSet(disk[s]) : m.in = s

(* "An in-App rewind replaced the visible conversation": once all that a   *)
(* query said has been drained, no other key takes anything from it.       *)
OnlyRewindsShorten ==
  [][ /\ phase = "key" /\ phase' = "drain" /\ Idle /\ events = <<>>
      /\ copies'.messages # copies.messages
      => \E i \in 0..MaxMade : RewindTo(i) ]_vars
=============================================================================
