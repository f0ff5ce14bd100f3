# coven-code in TLA+

coven-code is an interactive coding agent in Rust (`src/src-rust/crates`). A user
types messages; a query loop sends the transcript to a model, runs the tools the
model asks for and repeats; a *goal* makes the program dispatch further turns by
itself until the model says, under an authority that the program checks again and
again, that the goal is complete. This directory models the part of the program
where steps of several actors meet: the goal and its authority, the autonomous
loop, the interactive event loop, the query loop, the copies of a conversation,
scheduled tasks, background tasks, and the ACP server through which an editor drives
the program.

Paths below are relative to `src/src-rust/crates` unless they start with `docs`.

## 1. Inventory

| Component | State it keeps | Operations | What makes it hard | What makes it correct |
|---|---|---|---|---|
| Goal store (`core/src/goal.rs`) | one row per session in `goals.sqlite`: goal, status, budget, tokens, turns, time | set, pause, resume, clear, record a turn, limit, complete, each one transaction | several processes on one session; a row replaced between two statements | a turn never changes a goal it does not own; complete is final until replaced |
| Turn authority (`core/src/goal.rs`, `tools/src/goal_complete.rs`) | per captured turn, behind a mutex: receipt of completion, revocation, reservation in flight; per holder a role | capture, validate, child and background projections, complete, reserve, finish, drop | concurrent holders (foreground, tools, child agents, housekeeping); check and use under two acquisitions | one final response, only by the foreground, only under a receipt; nobody works after a revocation |
| Goal loop (`query/src/goal_loop.rs`, `InteractiveTurn` in `cli/src/main.rs`, `/goal` in `commands/src/lib.rs`) | the turn in progress and its token baseline | account, check, record, guard, pause, limit, continue | every read and write is its own transaction | cap and budget hold; reports are true; the loop ends |
| Interactive event loop (`cli/src/main.rs`, `tui/src/app.rs`) | prompt, queue, streaming flag, current query, owner of the turn, cancellation | keys, events, settling, remote prompts, retries, compaction, the end of a query | a task beside the frame, whose events and outcome arrive in different places | one query at a time; input is not lost or run twice; abandoned turns are over |
| Rate-limit recovery (`tui/src/rate_limit_recovery.rs`) | modal, countdown, retries used, pending request | open, tick, request, dismiss, clear | a timer races keys, queue and cancellation | automatic retries are bounded |
| Query loop (`query/src/lib.rs`) | transcript, counters of turns, retries, resumptions and nudges, cost | request, receive, hand over, retry, hooks, compaction, tools | some twenty ways out of a turn; goal and cancellation change at every await | each call has its result; each fact is told to the store once; requests are bounded; it ends |
| Compaction (`query/src/compact.rs`, `core/src/context_collapse.rs`) | rewrites the transcript | summarise, collapse | cuts by position | no call that stays loses its result |
| Background agents and tasks (`core/src/lib.rs`, `tools/src/background_shell.rs`, `shell_pipe.rs`, `monitor_tool.rs`, `query/src/agent_tool.rs`) | registry of tasks; per command a process, two pipes, a deadline | start, drain, finish, time out, cancel, notify | runner, deadline, watcher and monitor calls finish the same task; pipes outlive the process | a finished task is gone; a notification stays true and complete; no runner is left behind |
| Scheduled tasks (`tools/src/cron.rs`, `query/src/cron_scheduler.rs`) | `scheduled_tasks.json` and a copy per process | load, create, delete, tick, persist | whole-file rewrites by several processes; a crash or a failed write between two steps | a one-shot runs once; what was reported stays true; a refused creation never runs |
| ACP connection (`acp/src/connection.rs`) | the writer with a partly sent frame, pending requests, the reader | send, reply, drop, close | a sender may be dropped at any await | frames stay whole; a request ends once, with its reply or an error |
| ACP server (`acp/src/lib.rs`, `prompt.rs`, `permission.rs`, `sessions.rs`) | sessions with transcript, cancellation token and permission requests | prompt, cancel, ask, forward, decide | every message is a task of its own; a tool blocks its thread on the client | a tool is denied only by the client; turns are kept; the server can always shut down |
| Conversation and session transcripts (`cli/src/main.rs`, `tui/src/app.rs`, `core/src/lib.rs`, `sqlite_storage.rs`, `session_storage.rs`) | what is sent, what the screen shows, the record, the copy of the task; a file per session and a search index | say, take back, rewind, clear, resume, save, tag | the copies are made equal at different points of a frame, by events, lengths and ids; a crash anywhere | what was taken back is gone, what was sent is kept, what is at rest is in the file, nothing old comes back |
| Command queue (`query/src/command_queue.rs`) | a priority queue | push, drain | left empty by production callers | order by priority, then by arrival |

The remaining components (headless and stream modes, MCP client, bridge,
permission classifiers, plugins and hooks, coven daemon, memory, synchronisation,
model providers, tools, widgets, accounts, file history, other slash commands,
packaging, vendored code) are listed in `PROJECT.json` with the reason why they are
left out: they are I/O, translation of formats, or rendering. Where their results
steer a modelled component (a hook's veto, a provider's stop reason, a remote
prompt), they are inputs of its actions.

### How the parts interact

    user, remote control
        |  keys, prompts
    InteractiveSession ---- one task ---> QueryLoop ---- validate, reserve ---> GoalTurn
        |  end of a turn                      |  facts                            |
    GoalLoop ----------- transactions ----------------------------------------> GoalStore
        ^ other processes on the same session use the same row

* The event loop and the query loop share a channel of events, a join handle and a
  cancellation token. `InteractiveSession` abstracts the query to *running* and an
  outcome; `QueryLoop` abstracts the session to a token that may be cancelled.
* The query loop asks the turn's authority before every request, hook and tool.
  `QueryLoop` keeps only the answer (`authority`), which narrows at any moment;
  that it only narrows, and what narrows it, is what `GoalTurn` shows.
* `GoalTurn` and `GoalLoop` both extend `GoalStore`, the row and its transactions.
  `GoalTurn` uses it in full generality; `GoalLoop` with the reads and writes that
  one process makes around a query, in the order it makes them.
* `AcpServer` sends its permission requests over a connection that is
  `RequestReply`: an instance, whose actions are conjuncts of the server's.
  `AcpConnection` is the connection of the code, and implements `RequestReply`.
* `BackgroundTasks` takes from `QueryLoop` only that a cancelled query ends
  (`CancelEnds`), which is the fairness of a background agent.
* `Conversation` takes from `InteractiveSession` when a query may start (nothing runs,
  nothing streams, no modal is open) and from `GoalTurn` that a turn may be revoked at
  any moment, and says before a request that it is made.
* `CronStore` meets the rest in one place: a task that is due becomes a query of
  its own, which is the end of it here.

## 2. Modules

| Module | Models | Lines |
|---|---|---|
| `GoalStore` | the row and each transaction | 105 |
| `GoalAuthority` | abstract: what a captured turn promises | 44 |
| `GoalTurn` | the authority of captured turns, any number of holders | 415 |
| `GoalLoop` | what a process decides before and after each turn | 359 |
| `InteractiveSession` | the frame of the event loop and the recovery modal | 498 |
| `QueryLoop` | the turns of one query, with compaction | 644 |
| `Conversation` | the copies of a conversation, their file and index | 491 |
| `CronStore` | the scheduled tasks of several processes over one file | 291 |
| `RequestReply` | abstract: what a connection promises to those who send requests | 62 |
| `AcpConnection` | the shared writer, the pending requests and the reader | 270 |
| `AcpServer` | prompts, permissions, cancellation and transcripts of sessions, and the agents that share them | 339 |
| `BackgroundTasks` | commands and agents in the background, and who finishes them | 297 |
| `GoalTurn_proofs`, `GoalLoop_proofs`, `InteractiveSession_proofs`, `QueryLoop_proofs`, `CronStore_proofs`, `Acp_proofs`, `BackgroundTasks_proofs`, `Conversation_proofs` | the theorems about each; `Acp_proofs` is about the connection and the server | 9910 |
| `MC*` | small instances for TLC | |

Correspondence with the code, in short (`PROJECT.json` "map" gives the lines):

* **GoalStore.** `goal` is the row or `NoGoal`. Ids are never reused (UUIDs).
  `SetGoal`, `SetStatus`, `ClearGoal`, `RecordCompletedTurn`, `PauseActiveGoal`,
  `BudgetLimitGoal`, `CompleteGoal` are the transactions of `GoalStore`; `Owned`,
  `OwnedActive` and `Workable` are their common guards. Time is a stamp: it only
  makes two versions of a row differ.
* **GoalTurn.** A `Turn` is one `GoalTurnState`, an `Agent` a holder of a context.
  What the mutex makes atomic is one action; `reserve_final_response` (validate,
  then reserve) and the completion tool (require work, then complete) take it twice
  and are two actions. Completion resolves the path of the store before it looks at
  the turn: a fault there revokes the turn, be it completed or not (`Failed`). `Elsewhere` is any transaction of another process.
* **GoalLoop.** One program counter per process. Every read of the row is an
  action, since another process may write between any two.
* **InteractiveSession.** `phase` is the place in a frame: one key, then drain the
  events, settle an abandoned turn, remote prompt, tick, retry, cancel, look at the
  finished task. `undrained` is what the undrained events will leave
  `is_streaming` at, which is all the loop keeps of them. `connected` is the remote
  control: `Disconnect` clears the prompts received and stops its tasks, which may
  still send until `HungUp` has emptied the channel. `displaced` is history: a query
  was started before the one that ran was looked at and over (`Spawn`).
* **QueryLoop.** `pc` is where the loop awaits. A response is a class of text and
  whether it has a call. `messages` is the transcript, `durable` the facts told to
  the store. The configuration (path, compaction gate, fallback) is chosen in
  `Init`. A tool round is three steps, since its hooks and its tool take time and the
  tool may end the goal itself: `PrepareTool` (hooks), `ExecuteTool` (work is required
  once more, the tool starts) and `FinishTools` (its result is told).
* **Conversation.** `copies` holds `messages` (the loop), `screen` (`app.messages`) and
  `record` (`session.messages`); `task.messages` is the copy behind the `Arc`. `phase`
  is the place in the frame, as in `InteractiveSession`, reduced to the places that
  touch a copy; a key ends with `KeyEnds`, the comparison of lengths at the end of the
  key handler. `owner` is the `InteractiveTurn`: its synthetic message, whether it was
  abandoned, whether its goal was revoked, whether a request was made. The generation
  of `SessionScope` is `task.current`; `Advance` discards at once the events that the
  code discards when it drains them, and `Drain` takes the others one by one, while the
  task may send more. `since`, `rolled` and `sent` are history.
* **CronStore.** `file` is the JSON file, `mem[p]` the `CRON_STORE` of a process and
  `lock[p]` the write in progress under its write lock; other operations of that
  process wait. `Create`, `Delete` and `Tick` change the store and, for durable
  tasks, leave the write to `Persist` or `PersistFails`, which rolls back what the
  code rolls back. `due[p]` is what a tick took and has not spawned yet; `Exit` may
  come anywhere. A tick chooses the tasks whose expression matches. `overlap` is
  history: two processes have had the store loaded at once.
* **AcpConnection.** `pc[m]` is where the call that sends message *m* awaits, `frame`
  what is left in the writer and how much of it was taken, `onWire` the pieces sent.
  `Drop` is a future dropped at an await: it gives back the mutex and its place in
  the pending map, never what it left in the writer: `Acquire` of the next
  sender discards a frame of which nothing was sent, and finishes any other first.
* **AcpServer.** `phase[p]` is the place in `prompt::handle`. `view[p]` is the copy of
  the transcript it works on, `token[p]` the cancellation token it captured,
  `queue[s]` the permission requests of a session, `owner[r]` the prompt whose drainer
  took request *r*. A tool that asks blocks its query (`blocked`), as the code blocks
  its thread. An agent that a query starts in the background has the session's store of
  permission requests but its own query and token: it asks without blocking the prompt,
  also after the prompt ended (`StartAgent`, `Ask`, `Resume`).
* **BackgroundTasks.** `runner[t]` is the place in the spawned future, `status[t]` the
  entry in the registry. `child`, `open` and `written` are the command itself: its
  process, who holds its pipes, what it wrote. `held` is what the drain keeps of
  stderr until stdout ends. `LookUp`, `Signal` and `CancelTask` are one monitor call;
  the copy of the entry it works on is `call[c]`.

## 3. Runs

Twelve runs, each a question: eleven that pass and one that keeps a finding. Mutants in `PROJECT.json` show that each property of a
passing run can fail.

| Run | Question | Bounds |
|---|---|---|
| `turn` | Is the authority of a turn safe under any interleaving of holders, and does it implement `GoalAuthority`? | 2 goals, 2 turns, 2 agents, budget 1, store faults; 835k states up to symmetry |
| `loop` | Do cap, budget, accounting and reports hold with two processes on one goal, and does the autonomous loop end? | 2 goals, 2 processes whose users share out the commands, 2 requests per query, cap 2, faults; 539k |
| `session` | Is the event loop safe with every feature at once? | 3 messages, 1 remote prompt, 1 automatic retry, a disconnection, Next renderer; 4.1M |
| `session_queue` | Is input kept and does every queued text run, without failures, and every remote prompt while its connection lasts? | same, Classic renderer, compaction, a disconnection; 77k |
| `query` | Are transcript, durable record, bill and announcements right on every way out? | 2 turns, 1 retry, 1 resumption, 1 nudge, all stop reasons, hooks and events, three configurations; 2.5M |
| `query_ends` | Does every query end, and a cancelled one even without a server? | same, two stop reasons; 184k |
| `conversation` | Is a goal's message taken back everywhere, or kept once a model was asked? Is what was said in the file, and does nothing of a replaced conversation come back? | two scenarios, chosen at the start. Goals: 4 messages, failures, remote prompts, compaction, restarts. Store: 5 messages, 2 sessions, tools, rewinds, clears, commands, restarts; 3.6M |
| `cron` | Does a one-shot run once, and does what the tools reported stay true, through crashes and failed writes? | 2 processes, a durable one-shot, a durable and a session task, room for 2 tasks; 758k |
| `acp_wire` | Are frames whole, is what was given up never sent, and does the connection keep `RequestReply`? | 2 requests, a note, an error of the reader, 2 pieces per frame, 2 replies; 164k |
| `acp_server` | Is a tool of a prompt denied only by the client, are turns kept, and does the server never stall? | 2 prompts of one session, overlapping or not, and a background agent; a permission asked by a prompt and one by the agent (`MayAsk`), 1 cancellation; 605k |
| `tasks` | Is a finished task gone, is a notification true, and does every runner end? | a watched command, an agent, 2 monitor calls, a line per pipe; 565k |
| `conversation_keys` | finding: any key after a turn with tools drops their results | 4 messages |

Why the bounds are enough. The real limits (3 resumptions, 2 nudges, 2 retries, 10
recent messages, 3 automatic retries, 200 goal turns) are counters compared with a
constant in one place: with limit 1 or 2 the comparison is met on both sides, and
the counters meet each other, which is where the interesting cases are. Two agents
and two turns are the smallest instance in which a reservation is contended, a
child or a housekeeper coexists with the foreground and a second turn coexists with
a replaced goal; the theorems below have no such bound. Three messages are the
smallest number with one running, one queued and one typed. Two pieces per frame are
enough to be in the middle of one. Four messages are a prompt, a goal's message and an
answer to each, or a turn with tools and one of its own results; the fifth lets a command
print beside them. Goals and the replacement of conversations are
scenarios of their own, so that each has room for its messages. One message kept by a
compaction is enough to have some before it. Two processes that use the cron file one
after the other are enough for everything a restart can meet, and at once for what `overlap`
excludes. Two prompts of one session are enough for one drainer to take the request of
the other; the properties of the server speak of sessions prompted only when idle, and
the instance has both. One agent is enough for a request in a drainer that its query does
not wait for, and one prompt that asks: its request may be in its own drainer, in that of
the other prompt, or beside the one of the agent in either. Two monitor calls race each other and the runner for one task.
In `loop` the user of one process gives messages and audits, that of the other sets,
pauses, resumes and clears, so that commands race with a loop in either.
`requests` saturates one above the bound it is compared with. `Stamp = {0}` makes a
replaced row differ from an old one only by its id and counters, the harder case for a
comparison of rows.

Deadlock is checked in every run except `turn`, `acp_wire`, `acp_server` and `tasks`,
where the instance really stops: the turns and goals, the messages, the prompts or the
tasks are used up.

### Fairness

* `GoalLoop`: weak fairness of each process's own steps (`LoopStep`). Threads are
  scheduled, a query ends by `QueryLoop`'s property; users owe nothing.
* `InteractiveSession`: weak fairness of the frame's steps and of the end of the
  task, strong fairness of a frame without a key. The last says that the user does
  not keep the keyboard so busy that every frame starts over; without it, keys that
  `continue` the loop would starve everything behind them.
* `QueryLoop`: weak fairness of the loop's own steps, tools and hooks included, and
  of noticing a cancellation in a stream. `Terminates` states as its own hypothesis
  that servers answer (`WF(Answered)`); `CancelEnds` does without.
* `AcpConnection`: a request whose reply has come, or whose reader is gone, is polled.
  That the peer takes anything is not assumed.
* `AcpServer`: the tasks of the runtime are scheduled, a reply reaches the request it
  is for, and what is written is read or the write fails. Nothing is assumed of the
  client's decisions, nor that it stays.
* `BackgroundTasks`: runners, watchers and the deadline are scheduled; a command need
  do nothing at all, and an agent's query ends only once it is cancelled.

## 4. What is proved

Every theorem holds for all values of the constants that meet the named assumptions of
the modules (`GoalStore`, `GoalTurn`, `GoalLoop`, ...), and rests on nothing else. Each
proof module follows one plan: an inductive invariant found with TLC, one lemma per
action or group of actions, and the theorems from it. Every safety invariant and every
action property of the passing runs is stated by a theorem; section 5 lists the rest.

### GoalTurn

* `TypeCorrect`, `InductiveInvariant` - the types, and `IInv`.
* `AtMostOneFinalResponse`, `ReservationExclusive`, `OnlyForegroundAnswers`,
  `OwnReceipts` - the safety properties of the run `turn`.
* `FenceIsKept` - an agent starts to work, or earns the final response, only in a step
  in which the row says so and its turn is not revoked.
* `CompletionIsOwn` - who completes a row.
* `RevocationHasCause` - a turn is revoked by its answer, or because its row says so, or by
  a fault of the store at the moment its authority is asked; the last also of a turn that
  was completed. The run has faults; the theorem is about a store that works, too.
* `Implementation` - `GoalTurn` implements `GoalAuthority`.

"At most one final response" is not inductive: in a state where a turn has been
answered and a reservation of it is in flight, `Finish` would answer a second time.
What forbids that state is a chain of facts, each needing the next:

1. whoever holds the reservation has not answered (`pc[a] = "final"` implies
   `answers = 0`);
2. an answered turn is revoked, and `Reserve` looks at that under the lock;
3. between `Finish` and the drop of the reservation nobody else can be at "final",
   since the mark `inFlight` is set exactly while somebody holds it
   (`OneReservation`);
4. whoever is near the final response is a foreground holder under a receipt;
5. a receipt is never taken back, and it is the captured goal's own row, complete;
6. descendants of housekeeping stay housekeeping, because `ForChildWork` keeps it.

`IInv` is the conjunction of these with the types, split into `TurnInv`, `AgentInv`
and `OneReservation`. `Implementation` then needs only that a step which changes
`receipt`, `revoked` or `answers` of a turn finds it in the abstract state the abstract
action wants; the three action properties need only `IInv` before the step.

### GoalLoop

* `LoopInvariant`, `TurnsStayBounded`, `NobodyIsOvercharged` - the counters, for any
  number of processes.
* `ReportsStayTrue`, `OnlyOwnGoals` - what a process says and what it touches; the second
  is only proved, its property (`ActsOnOwnGoal`) is in no run.

`TurnsBounded` says that a goal records at most the cap and one turn for each *other*
process; why is not visible in one state. `CapInv` puts it there: at the cap only a
process past its last look at it (`Past`: its turn is over, or was given the permission
to complete) may still record, each of them once, and `turns + |Past| + 1` stays within
`cap + |Repl|`. Nobody enters `Past` at the cap, and who records leaves it.
`NeverOvercharged` needs that the total a process is about to store is at most what the
recorded turns spent and its own (`ProcInv`), although others record between its
baseline and its record.

### InteractiveSession

* `SessionInvariant`, `TurnsKeepTheirOwner`, `AutoRetriesAreBounded`.
* `NoTextRunsTwice` - a text queued, popped, edited and queued again runs at most once.
* `OneQueryAtATime` - no turn and no compaction is started before the one that ran is over
  and was looked at; a key, a remote prompt, a retry, a goal and the queue included.
* `AbandonedStaysOver`.
* `RemoteGoneForGood` - a prompt of a remote control that is gone starts no turn, whenever
  it was sent.
* `NothingEnteredIsLost` - what was entered is in the queue, in the prompt or dispatched,
  as long as no goal is set and no rate limit is met.

The invariant behind `NoTextRunsTwice` is `OnePlace`: each local text is in the prompt,
or once in the queue, or dispatched, and what was entered once is not typed again. The
drain of the queue and the keys that pop from it move a text between those places.

`NothingEnteredIsLost` is the one theorem about `InputKept`, and it has two hypotheses,
because without either the property is false (TLC finds both losses): the continuation
of a goal runs a query while a popped message is in the prompt, and the modal of a rate
limit takes the Enter that was meant for it; whoever writes the prompt next then
overwrites the message (section 6). What the hypotheses leave is everything else: both
renderers, failures, interrupts, compactions, the remote control. `KeptInv` says why: a
text that was entered and is in the prompt is there only at the start of a frame, with
nothing running and an Enter due that goes before every key (`Waiting`).

### QueryLoop

* `QueryInductiveInvariant` - `IInv` of `QueryLoop`.
* `RequestsStayBounded` - a query makes at most `MaxTurns + StallRetries` requests, and
  one more with a fallback model, although retries and the fallback give turns back.
* `EveryResponseBilledOnce` - each response is billed once, however its stream ended.
* `AnnouncedAtTheEnd` - `TurnComplete` comes at most once, at the end.
* `NothingAfterFinal` - once the final response was asked for, no tool runs, no hook
  fires and no work is asked for.

`RequestsBounded` is not inductive: nothing in it says why the next request is one of
the last. What grows and what pays for it must be put together, and that is the
potential in `IInv`: `requests + retriesLeft <= turn + StallRetries + (1 if the fallback
was used)`. A request raises both sides by one; a retry gives its turn back and spends
a retry; the fallback gives its turn back and is used. With `turn <= MaxTurns` in every
state but the last the bound follows. `FinalIsFinal` needs that a query which asked for
the final response is between the request and the end with the authority *final* or
*revoked*, which is where the response is handed over and never worked with.

* `RecordInvariant`, and from it `NoCallUnanswered`, `ToldOnce`, `ResultsTrue` - every
  call that is still in the transcript has one result after it, with nothing but errors of
  its own hooks in between; every response with content is in the durable record once; and
  a tool that ran, and no other, is told to have run. For any length of the transcript,
  whatever hooks add, compaction removes, recoveries take back and the goal cuts short.
  That a provider accepts the transcript is not said: compaction may leave a result
  without its call, and the error of a hook may stand before a result.

`CallsAnswered` and `DurableOnce` speak of the loop at rest only, since in the middle of
a turn both are false. `RecordInv` says what holds instead at each place of the loop. An
attempt is *past* (answered and told) or *open*: while its last response is worked with
it is open and untold, while its tool is run or refused it is open and told (`OpenCall`),
and the place of the loop says whether the tool ran. Each of the ways out of
a turn turns open into past: the results of the tool are added, or a refusal is inserted
after the call (`InsertAt` at the place `LastCopy` finds), or the response is taken back. That the search
finds the last response of the attempt, and what insertion, removal and the cut of a
compaction do to the places of all other messages, are lemmas about sequences
(`LastCopyFinds`, `InsertAtElements`, `RemoveAtElements`, and those after them).

### Conversation

* `ConversationInvariant`, `TypeCorrect`.
* `NothingTakenBackStays` - what was taken back before a model was asked is in no copy
  and not in the file, once nothing runs.
* `SentStays` - what a model was asked about stays, whoever gave the turn up.
* `ConversationIsSaved` - once nothing runs the file has the whole conversation.
* `OldNeverReturns` - nothing that was cleared or left comes back, and nothing twice.
* `IndexStaysFinal` - the search index has nothing that can still be taken back.

None of these is inductive, because a copy is made equal to another only later in the
frame, or when the task ends. What is known in between:

1. between steps the record is what the loop will send (`Agree`);
2. what was taken back may still be in the copy of a task, but only as the message of a
   turn that is given up, so that it is rolled back when the task ends (`Gone`);
3. while a task runs, the screen and the events not yet drained are accounted for by
   what the conversation will be, which is the copy of the task (`Tip`, `Seen`, `Speaks`);
4. a message is indexed, or counts as sent, only after its request was made, and then
   its turn is never rolled back (`Owns`, `Final`);
5. numbers of messages grow, so that those of a conversation that was replaced are below
   all of the present one (`Fits`).

A step does several things one after the other: the end of a task makes the copies equal,
rolls back, saves, indexes and may start the next turn. The invariant is therefore stated as a predicate (`Whole`)
of all the values a step may change; there is one lemma for each thing done to them, and
a step is what these give together.

### CronStore

* `CronInvariant`, `OneShotsFireOnce`, `ReportsStayTrue` - a one-shot fires once and
  the reports of `CronCreate` and `CronDelete` stay true while one process at a time
  uses the file, through crashes, restarts and failed writes.
* `RefusedSafe` - a creation reported as failed never runs, with no such condition.

The invariant relates the file, the copies and what is in flight: a task that fired is
in no copy and not in the file once its tick was persisted, and until then only in the
write that its process is making, for the removal is written before it is delivered.
Four of its parts are false once two processes overlap, and are stated under `~overlap`;
the rest holds always.

### AcpConnection

* `WireInvariant` - frames are never interleaved, one sender holds the writer, and a
  registered request is awaited.
* `NothingAfterLeaving` - what was given up before its first byte is never sent.
* `KeepsPromiseSafely` - every step is a step or a stutter of `RequestReply`.

### AcpServer

* `ServerInvariant`, `DeniedByClientOnly`, `TurnsAreKept`. A denial always comes from the
  client, or from its being gone. In a session that is prompted only when idle, whatever
  other sessions are, a request of a prompt's own query ends in no other way, although
  agents of the session use the same store and the same drainers, and the transcript keeps
  each answered turn. Of the requests of agents the same is false (section 6). The
  invariant says for such a session that at most one prompt is in flight,
  that a request in the queue is the one its tool waits for and the prompt's own drainer
  takes it, and that the copy of the prompt holds all its session's transcript holds.

### BackgroundTasks

* `TaskInvariant`, `FinishedAreGone` - a task reported as over is over: its process was
  reaped or its query done, and exactly the cancelled agents are told to stop.
* `NotificationsStayTrue` - what a watcher told of a command's status is final.
* `LineInvariant`, `NotificationsAreComplete` - a notification has the lines of stdout
  and then those of stderr, and of a command that ended by itself all of them, if both
  pipes could be read.

`LineInv` follows a line from its pipe to the notification: it is in the pipe, or held
back while stdout is open, or in the output, and these add up to what was read
(`Counted`); a pipe that was read to its end has nothing left (`ReadAll`). After the
deadline lines may be lost, so the count is claimed of a drain in progress and of a
command that ended by itself (`Draining`, `Drained`).

## 5. What is only model-checked

* Liveness (`LoopEnds`, `QueuedRuns`, `Terminates`, `CancelEnds`, `NeverStalls`,
  `TasksEnd`, and the fairness `RequestReply` asks of a connection in `KeepsPromise`):
  the prover has no support for fairness and ENABLED here.
* `InputKept` where a goal or a rate limit is possible is false, and not claimed;
  without them it is proved.
* What the operators of the community modules compute is used by their definitions
  (`SelectLastInSeq`, `InsertAt`, `RemoveAt`, `Contains`); no theorem rests on a
  recursive definition.
* The bounds of a run that are not of the code (numbers of messages, lines, requests)
  are constants of the theorems too: they hold for each value of them.

## 6. Where code and documents disagree

One run keeps the gravest, with the line it contradicts (`PROJECT.json` "findings"):

* `conversation_keys`: results of tools are not on the screen, so after a turn that used
  a tool the next key finds the screen shorter than the conversation, takes it for a
  rewind, and drops the results from the conversation and from the record
  (`cli/src/main.rs:4399`). The property excludes, and the code has, a second way: a key
  between the end of a query and the drain of its last events drops the answer itself.

Seen while modelling, with no run kept:

Goals and the query loop.

* Compaction cuts the transcript at a message, not at a round as its head says, and may
  leave results without their call (`query/src/compact.rs:702`; 9).
* Tokens of two processes that account at once are stored as a maximum of absolute
  totals, so one turn's tokens may be lost (`cli/src/main.rs:2195`;
  `query/src/goal_loop.rs:76`). The other direction, overcharging, is proved impossible.
* A query that runs out of turns ends in an error, and the goal stays active
  (`query/src/lib.rs:1906`; `docs/advanced.md:205`).
* The turn that completes its goal is not accounted and never announced as complete
  (`cli/src/main.rs:2550`; `query/src/goal_loop.rs:42`).
* `/goal resume` resumes a goal whose budget or cap then refuses the turn
  (`commands/src/lib.rs:1740`, its message 1744).
* `/goal pause` may overwrite a completion by another process
  (`commands/src/lib.rs:1712`, the refusal 1699).
* The placeholder for an empty answer overwrites the error of a soft hook
  (`query/src/lib.rs:2816`), and a stalled attempt is retried without a look at the cost
  cap (`query/src/lib.rs:3075`).

The event loop and the conversation.

* `/session tag` writes the file behind the back of the loop's record, whose next save
  removes the tag (`commands/src/named_commands.rs:593`; `docs/commands.md:112`).
* A rewind that was opened before an idle compaction ends brings back what was compacted;
  the file has it again only with the next turn (`cli/src/main.rs:4399`).
* After a failed query the queued messages wait for the next key
  (`cli/src/main.rs:5342`, `tui/src/app.rs:7734`; `tui/src/app.rs:865`).
* A message popped for a turn that a goal's continuation then takes is overwritten
  (`cli/src/main.rs:5347`, 3306, 3376).
* A retry may be started by an Enter that was synthesized for a queued message
  (`cli/src/main.rs:3306`; `tui/src/rate_limit_recovery.rs:26`).
* A remote prompt stays in the local prompt, where Enter submits it again
  (`cli/src/main.rs:4865`).
* Messages of the user have no id and are indexed as "unknown", which the index takes
  once: only the first one ever is found by a search (`cli/src/main.rs:2477`,
  `core/src/sqlite_storage.rs:88`).
* `/session resume` and an idle compaction drop the owner of a goal's message that was
  never sent: nobody takes it back any more (`cli/src/main.rs:3622`, 4632).

Scheduled and background tasks.

* Two processes that overlap each fire the same one-shot (`tools/src/cron.rs:185`; the
  promise is at 400).
* `notify_on_complete` (`tools/src/bash.rs:226`, 274) is never kept, since no production
  caller gives the query a command queue.
* A command cancelled before its process id is recorded is marked cancelled while it
  runs until its deadline; the signal may make the runner report "failed" before the
  monitor reports the cancellation; output may still grow after a task was cancelled.
* A command that exited but whose pipes a descendant holds is reported as timed out; a
  command that timed out loses the lines of stderr that were held back; a line that is
  not UTF-8 ends the reading of its pipe.

The ACP server.

* When two prompts of a session overlap, the drainer of one takes the permission request
  of the other and, when it ends, answers it "denied by user"; the last to finish
  overwrites the transcript of the other.
* An agent in the background shares its session's store of permission requests, and its
  request may be in the drainer of a prompt when that prompt ends. The drainer aborts what
  it still forwards (`acp/src/permission.rs:272`) and the tool is told that the user denied
  it (`tools/src/lib.rs:409`), though every decision is said to be deferred to the client
  (`acp/src/permission.rs:22`). In the model this is `Abort` of a request of an agent.
* `session/cancel` is lost when it comes before the prompt captured its token, or meets
  the next prompt; and it does not release a tool that waits for permission.
* "Allow always" is remembered nowhere. A request that a background agent makes after its
  prompt ended waits for the drainer of the next prompt, if there is one.
* The reader is stuck in its own report of a parse error when the client does not read.

## 7. Not modelled, and why

The map covers a few lines in a hundred of the repository. Most of its 190 thousand
lines have no state another component depends on, or none that steps in different
orders could damage: drawing and text editing, wording, parsing and printing of the
formats of two dozen providers, the bodies of tools (files, search, the web), lists of
commands and settings. A model of those would restate them. What they can do to the rest
is in the models as an input: a provider answers, refuses or is cut off; a hook vetoes or
fails; a tool returns an error. `PROJECT.json` "components" gives the reason for each.

Left out of what is modelled: pid reuse; slash commands other than `/goal`,
`/compact` and those of `Conversation`; fork, branch and checkpoints of a session;
several calls in one response; the attachments of a prompt; ids of the ACP's
initialization.

## 8. Plan

Done: `GoalStore`, `GoalAuthority`, `GoalTurn`, `GoalLoop`, `InteractiveSession`,
`QueryLoop`, `CronStore`, `RequestReply`, `AcpConnection`, `AcpServer`,
`BackgroundTasks` and `Conversation`, each with its proofs. Next, in this order:

1. `Transcript`: the append-only entries of `session_storage.rs`, composed with the
   facts `QueryLoop` tells the store, and forks and branches of a session.
2. An abstract specification of a query (requests, facts, an outcome) that `QueryLoop`
   implements and `InteractiveSession` uses.
3. The live reconnection of MCP servers, the command queue and the merges of settings.
