--------------------------- MODULE BackgroundTasks ---------------------------
(***************************************************************************)
(* Background shell commands and background agents in the registry of      *)
(* tasks they share (core/src/lib.rs: tasks; tools/src/background_shell.rs,*)
(* shell_pipe.rs, bash.rs, monitor_tool.rs; query/src/agent_tool.rs).      *)
(*                                                                         *)
(* Each task has a runner; calls of the monitor tool cancel tasks and a    *)
(* watcher of a command polls for its end.  An operation of the registry   *)
(* holds the entry it works on, what lies between two of them interleaves. *)
(* A line is the pipe it came from; the pid of a child is told apart from  *)
(* no pid, and no pid is used twice.                                       *)
(***************************************************************************)
EXTENDS Integers, Sequences, FiniteSets

CONSTANTS Shell,     \* background commands
          Agent,     \* background agents
          Watched,   \* commands with notify_on_complete and a notifier
          Call,      \* calls of the monitor tool that cancel
          MaxLines   \* bound: lines a command writes to one pipe

ASSUME TaskAssumption ==
  /\ Shell \cap Agent = {}
  /\ Watched \subseteq Shell
  /\ MaxLines \in Nat

Task == Shell \cup Agent
Pipe == {"out", "err"}

VARIABLES status,    \* BackgroundTask::status, "none" before it is registered
          known,     \* commands whose entry has a pid
          token,     \* agents whose cancel_token is cancelled
          output,    \* BackgroundTask::output
          runner,    \* how far the spawned future of a task has come
          read,      \* lines of a pipe the runner has read
          ended,     \* pipes drained to their end
          held,      \* lines of stderr kept back until stdout ends
          child,     \* the process of a command
          open,      \* pipes that some process may still write to
          written,   \* lines written to a pipe
          cut,       \* commands with a pipe that could not be read to its end
          call,      \* the cancellation a monitor call works on, or Idle
          told       \* the notification of a command's watcher

registry == <<status, known, token, output>>
drain == <<read, ended, held, cut>>
process == <<child, open, written>>
taskVars == <<registry, runner, drain, process, call, told>>

Idle == [task |-> "none", pid |-> FALSE]
Silent == [status |-> "none", output |-> <<>>]

TaskInit ==
  /\ status = [t \in Task |-> "none"]
  /\ known = {} /\ token = {} /\ cut = {}
  /\ output = [t \in Task |-> <<>>]
  /\ runner = [t \in Task |-> "none"]
  /\ read = [t \in Shell |-> [p \in Pipe |-> 0]]
  /\ ended = [t \in Shell |-> {}]
  /\ held = [t \in Shell |-> 0]
  /\ child = [t \in Shell |-> "none"]
  /\ open = [t \in Shell |-> {}]
  /\ written = [t \in Shell |-> [p \in Pipe |-> 0]]
  /\ call = [c \in Call |-> Idle]
  /\ told = [t \in Watched |-> Silent]

Becomes(t, phase) == runner' = [runner EXCEPT ![t] = phase]

-----------------------------------------------------------------------------
\* Mutant of FinishIfRunning: TaskRegistry::update_status.
UpdateStatus(t, how) ==
  /\ status' = [status EXCEPT ![t] = how]
  /\ token' = IF how = "cancelled" /\ t \in Agent THEN token \cup {t} ELSE token

\* finish_if_running: the first to finish a task decides what it is; a
\* cancellation that wins reaches the agent through its token.
FinishIfRunning(t, how) ==
  IF status[t] = "running"
  THEN UpdateStatus(t, how)
  ELSE UNCHANGED <<status, token>>

\* The task is registered, then its future spawned.
Start(t) ==
  /\ status[t] = "none"
  /\ status' = [status EXCEPT ![t] = "running"]
  /\ Becomes(t, IF t \in Shell THEN "spawning" ELSE "querying")
  /\ UNCHANGED <<known, token, output, drain, process, call, told>>

-----------------------------------------------------------------------------
\* The runner of a command.
SpawnChild(t) ==
  /\ runner[t] = "spawning"
  /\ \/ /\ Becomes(t, "recording")
        /\ child' = [child EXCEPT ![t] = "alive"]
        /\ open' = [open EXCEPT ![t] = Pipe]
        /\ UNCHANGED <<status, token>>
     \/ /\ Becomes(t, "over")
        /\ FinishIfRunning(t, "unspawned")
        /\ UNCHANGED <<child, open>>
  /\ UNCHANGED <<known, output, drain, written, call, told>>

\* A cancelled task gets its pid all the same.  The timer is first looked at
\* when the future has to wait.
RecordPid(t) ==
  /\ runner[t] = "recording"
  /\ known' = known \cup {t}
  /\ Becomes(t, "draining")
  /\ UNCHANGED <<status, token, output, drain, process, call, told>>

AppendLines(t, lines) == output' = [output EXCEPT ![t] = @ \o lines]

Errors(n) == [i \in 1..n |-> "err"]

\* Stderr is appended only after the end of stdout.
ReadLine(t, p) ==
  /\ runner[t] = "draining" /\ p \notin ended[t]
  /\ read[t][p] < written[t][p]
  /\ read' = [read EXCEPT ![t][p] = @ + 1]
  /\ IF p = "out" \/ "out" \in ended[t]
     THEN AppendLines(t, <<p>>) /\ UNCHANGED held
     ELSE held' = [held EXCEPT ![t] = @ + 1] /\ UNCHANGED output
  /\ UNCHANGED <<status, known, token, runner, ended, cut, process, call, told>>

\* The end of a pipe, or a line that is not text, which ends the reading of
\* its pipe as well.
EndOfPipe(t, p) ==
  /\ runner[t] = "draining" /\ p \notin ended[t]
  /\ \/ p \notin open[t] /\ read[t][p] = written[t][p] /\ UNCHANGED cut
     \/ read[t][p] < written[t][p] /\ cut' = cut \cup {t}
  /\ ended' = [ended EXCEPT ![t] = @ \cup {p}]
  /\ IF p = "out"
     THEN AppendLines(t, Errors(held[t])) /\ held' = [held EXCEPT ![t] = 0]
     ELSE UNCHANGED <<output, held>>
  /\ UNCHANGED <<status, known, token, runner, read, process, call, told>>

\* c.wait() reaps the child; the exit code is looked at without another await.
WaitForChild(t) ==
  /\ runner[t] = "draining" /\ ended[t] = Pipe
  /\ child[t] = "exited"
  /\ child' = [child EXCEPT ![t] = "reaped"]
  /\ \E how \in {"completed", "failed"} : Becomes(t, how)
  /\ UNCHANGED <<registry, drain, open, written, call, told>>

\* Mutant of Timed: the deadline bounds the reading of the pipes only.
TimedReading(t) == runner[t] = "draining" /\ ended[t] # Pipe

\* Where the deadline is waited for.
Timed(t) == runner[t] = "draining"

\* Mutant of TimeOut: the task is failed before its child is killed.
TimeOutReported(t) ==
  /\ Timed(t)
  /\ Becomes(t, "killing")
  /\ held' = [held EXCEPT ![t] = 0]
  /\ FinishIfRunning(t, "timeout")
  /\ UNCHANGED <<known, output, read, ended, cut, process, call, told>>

\* The deadline passes: what was kept back of stderr is lost.
TimeOut(t) ==
  /\ Timed(t)
  /\ Becomes(t, "killing")
  /\ held' = [held EXCEPT ![t] = 0]
  /\ UNCHANGED <<registry, read, ended, cut, process, call, told>>

\* c.kill() kills and reaps, or fails.
KillChild(t) ==
  /\ runner[t] = "killing"
  /\ \/ Becomes(t, "timeout") /\ child' = [child EXCEPT ![t] = "reaped"]
     \/ Becomes(t, "unkilled") /\ UNCHANGED child
  /\ UNCHANGED <<registry, drain, open, written, call, told>>

-----------------------------------------------------------------------------
\* The runner of an agent: the query, the removal of its worktree, the text of
\* the outcome, then the status that goes with the outcome.
QueryEnds(t) ==
  /\ runner[t] = "querying"
  /\ \E how \in {"completed", "failed"} \cup (IF t \in token THEN {"cancelled"} ELSE {}) :
       /\ Becomes(t, how)
       /\ AppendLines(t, <<how>>)
  /\ UNCHANGED <<status, known, token, drain, process, call, told>>

\* The last step of every runner: finish_if_running with what it has seen.
Report(t) ==
  /\ runner[t] \in {"completed", "failed", "timeout", "unkilled", "cancelled"}
  /\ FinishIfRunning(t, runner[t])
  /\ Becomes(t, "over")
  /\ UNCHANGED <<known, output, drain, process, call, told>>

-----------------------------------------------------------------------------
\* MonitorAction::Cancel looks at a copy of the entry, signals the process if
\* the copy has a pid, which takes a while, and then cancels the task.
LookUp(c, t) ==
  /\ call[c] = Idle
  /\ status[t] = "running"
  /\ call' = [call EXCEPT ![c] = [task |-> t, pid |-> t \in known]]
  /\ UNCHANGED <<registry, runner, drain, process, told>>

\* The signal ends the child or is ignored; a reaped child is past it.
Signal(c) ==
  /\ call[c] # Idle /\ call[c].pid
  /\ LET t == call[c].task
     IN \E what \in {"exited", child[t]} :
          child' = IF child[t] = "alive" THEN [child EXCEPT ![t] = what] ELSE child
  /\ call' = [call EXCEPT ![c].pid = FALSE]
  /\ UNCHANGED <<registry, runner, drain, open, written, told>>

CancelTask(c) ==
  /\ call[c] # Idle /\ ~call[c].pid
  /\ FinishIfRunning(call[c].task, "cancelled")
  /\ call' = [call EXCEPT ![c] = Idle]
  /\ UNCHANGED <<known, output, runner, drain, process, told>>

\* The watcher of run_in_background: one notification, of what it reads.
Notify(t) ==
  /\ told[t] = Silent
  /\ status[t] \notin {"none", "running"}
  /\ told' = [told EXCEPT ![t] = [status |-> status[t], output |-> output[t]]]
  /\ UNCHANGED <<registry, runner, drain, process, call>>

-----------------------------------------------------------------------------
\* The command: it writes, closes its pipes and exits as it likes; what it
\* started itself may hold the pipes beyond its own end.
WriteLine(t, p) ==
  /\ p \in open[t] /\ written[t][p] < MaxLines
  /\ written' = [written EXCEPT ![t][p] = @ + 1]
  /\ UNCHANGED <<registry, runner, drain, child, open, call, told>>

ClosePipe(t, p) ==
  /\ p \in open[t]
  /\ open' = [open EXCEPT ![t] = @ \ {p}]
  /\ UNCHANGED <<registry, runner, drain, child, written, call, told>>

ChildExits(t) ==
  /\ child[t] = "alive"
  /\ child' = [child EXCEPT ![t] = "exited"]
  /\ UNCHANGED <<registry, runner, drain, open, written, call, told>>

Command(t) ==
  ChildExits(t) \/ \E p \in Pipe : WriteLine(t, p) \/ ClosePipe(t, p)

RunShell(t) ==
  \/ SpawnChild(t) \/ RecordPid(t) \/ WaitForChild(t)
  \/ KillChild(t) \/ Report(t)
  \/ \E p \in Pipe : ReadLine(t, p) \/ EndOfPipe(t, p)

TaskNext ==
  \/ \E t \in Task : Start(t)
  \/ \E t \in Shell : RunShell(t) \/ TimeOut(t) \/ Command(t)
  \/ \E t \in Agent : QueryEnds(t) \/ Report(t)
  \/ \E t \in Watched : Notify(t)
  \/ \E c \in Call : (\E t \in Task : LookUp(c, t)) \/ Signal(c) \/ CancelTask(c)

TaskSpec == TaskInit /\ [][TaskNext]_taskVars

\* Runners, watchers and the timer are scheduled; a command need do nothing,
\* and the query of an agent ends only when it is cancelled (QueryLoop:
\* CancelEnds).
FairTaskSpec ==
  /\ TaskSpec
  /\ \A t \in Shell : WF_taskVars(RunShell(t)) /\ WF_taskVars(TimeOut(t))
  /\ \A t \in Agent : WF_taskVars(t \in token /\ QueryEnds(t)) /\ WF_taskVars(Report(t))
  /\ \A t \in Watched : WF_taskVars(Notify(t))

-----------------------------------------------------------------------------
\* A task that is reported as over is: the process of a command has been reaped,
\* unless the report says that it could not be killed, and the query of an agent
\* is done; an agent that is reported as cancelled has been told to stop, and no
\* other one has (background_shell::spawn, finish_if_running).
FinishedIsGone ==
  /\ \A t \in Shell :
       /\ status[t] \in {"completed", "failed", "timeout"} => child[t] = "reaped"
       /\ status[t] = "unspawned" => child[t] = "none"
  /\ \A t \in Agent :
       /\ status[t] \in {"completed", "failed"} => runner[t] = "over"
       /\ t \in token <=> status[t] = "cancelled"

Lines(t, p) == Cardinality({i \in DOMAIN told[t].output : told[t].output[i] = p})

\* What a watcher tells of a command stays true: its status is final, whoever
\* else tries to finish the task, and when it has exited by itself every line it
\* wrote is there, those of stdout first (drain_background, run_in_background).
NotifiedTruly ==
  \A t \in Watched : told[t] # Silent =>
    /\ told[t].status = status[t]
    /\ \A i \in 2..Len(told[t].output) :
         told[t].output[i] = "out" => told[t].output[i - 1] = "out"
    /\ told[t].status \in {"completed", "failed"} /\ t \notin cut =>
         \A p \in Pipe : Lines(t, p) = written[t][p]

\* Every command ends and is notified, whether it is cancelled, ignores the
\* signal, never closes its pipes or never exits, and a cancelled agent ends:
\* no runner is left behind.
TasksEnd ==
  \A t \in Task :
    (IF t \in Shell THEN runner[t] # "none" ELSE t \in token)
      ~> (runner[t] = "over" /\ (t \in Watched => told[t] # Silent))

=============================================================================
