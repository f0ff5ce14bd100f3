------------------------ MODULE BackgroundTasks_proofs ------------------------
(***************************************************************************)
(* Theorems about BackgroundTasks, for any commands, agents, monitor calls *)
(* and lines.                                                              *)
(***************************************************************************)
EXTENDS BackgroundTasks, TLAPS, FiniteSetTheorems

TaskStatus == {"none", "running", "completed", "failed", "timeout", "unspawned",
               "unkilled", "cancelled"}

Phases == {"none", "spawning", "recording", "draining", "killing", "querying",
           "completed", "failed", "timeout", "unkilled", "cancelled", "over"}

\* The types of the variables that the theorems speak of.
LifeTypeOK ==
  /\ status \in [Task -> TaskStatus]
  /\ token \subseteq Agent
  /\ runner \in [Task -> Phases]
  /\ child \in [Shell -> {"none", "alive", "exited", "reaped"}]
  /\ DOMAIN told = Watched
  /\ DOMAIN call = Call
  /\ \A c \in Call : call[c] = Idle \/ call[c].task \in Task

\* What the runner of a command knows of its child when it reports: it has no
\* child yet, or has reaped it.
RunnerKnows ==
  \A t \in Shell :
    /\ runner[t] \in {"none", "spawning"} => child[t] = "none"
    /\ runner[t] \in {"completed", "failed", "timeout"} => child[t] = "reaped"
    /\ runner[t] # "cancelled"

\* A task has a status of its own from its start, and one that only its runner
\* gives once the runner is over.
RunnerReports ==
  \A t \in Task :
    /\ runner[t] = "none" <=> status[t] = "none"
    /\ status[t] \notin {"none", "running", "cancelled"} => runner[t] = "over"
    /\ runner[t] = "over" => status[t] # "running"

\* A notification speaks of a status that is final.
ToldFinal ==
  \A t \in Watched :
    told[t] # Silent =>
      told[t].status = status[t] /\ status[t] \notin {"none", "running"}

TaskInv == LifeTypeOK /\ RunnerKnows /\ RunnerReports /\ FinishedIsGone /\ ToldFinal

-----------------------------------------------------------------------------
USE TaskAssumption

\* Every step keeps the invariant.
LEMMA TasksKept ==
  ASSUME TaskInv, [TaskNext]_taskVars
  PROVE  TaskInv'
<1> USE DEF TaskInv, LifeTypeOK, RunnerKnows, RunnerReports, FinishedIsGone, ToldFinal,
            Task, TaskStatus, Phases, Becomes, FinishIfRunning, UpdateStatus,
            registry, drain, process
<1>1. ASSUME NEW t \in Task, Start(t) PROVE TaskInv'
  BY <1>1 DEF Start
<1>2. ASSUME NEW t \in Shell, SpawnChild(t) PROVE TaskInv'
  BY <1>2 DEF SpawnChild
<1>3. ASSUME NEW t \in Shell, RecordPid(t) PROVE TaskInv'
  BY <1>3 DEF RecordPid
<1>4. ASSUME NEW t \in Shell, WaitForChild(t) PROVE TaskInv'
  BY <1>4 DEF WaitForChild
<1>5. ASSUME NEW t \in Shell, KillChild(t) PROVE TaskInv'
  BY <1>5 DEF KillChild
<1>6. ASSUME NEW t \in Task, Report(t) PROVE TaskInv'
  BY <1>6 DEF Report
<1>7. ASSUME NEW t \in Shell, NEW p \in Pipe, ReadLine(t, p) PROVE TaskInv'
  BY <1>7 DEF ReadLine
<1>8. ASSUME NEW t \in Shell, NEW p \in Pipe, EndOfPipe(t, p) PROVE TaskInv'
  BY <1>8 DEF EndOfPipe
<1>9. ASSUME NEW t \in Shell, TimeOut(t) PROVE TaskInv'
  BY <1>9 DEF TimeOut, Timed
<1>10. ASSUME NEW t \in Shell, Command(t) PROVE TaskInv'
  BY <1>10 DEF Command, ChildExits, WriteLine, ClosePipe
<1>11. ASSUME NEW t \in Agent, QueryEnds(t) PROVE TaskInv'
  BY <1>11 DEF QueryEnds
<1>12. ASSUME NEW t \in Watched, Notify(t) PROVE TaskInv'
  BY <1>12 DEF Notify, Silent
<1>13. ASSUME NEW c \in Call, NEW t \in Task, LookUp(c, t) PROVE TaskInv'
  BY <1>13 DEF LookUp
<1>14. ASSUME NEW c \in Call, Signal(c) PROVE TaskInv'
  <2>1. /\ child' \in [Shell -> {"none", "alive", "exited", "reaped"}]
        /\ \A t \in Shell : child[t] # "alive" => child'[t] = child[t]
        /\ \A t \in Shell : child[t] = "alive" => child'[t] \in {"alive", "exited"}
    <3> DEFINE u == call[c].task
    <3>1. PICK what \in {"exited", child[u]} :
            child' = IF child[u] = "alive" THEN [child EXCEPT ![u] = what] ELSE child
      BY <1>14 DEF Signal
    <3>2. CASE child[u] # "alive"
      BY <3>1, <3>2
    <3>3. CASE child[u] = "alive"
      <4>1. child' = [child EXCEPT ![u] = what] /\ what \in {"exited", "alive"}
        BY <3>1, <3>3
      <4> HIDE DEF u
      <4>2. \A t \in Shell : child'[t] = IF t = u THEN what ELSE child[t]
        BY <4>1
      <4>3. DOMAIN child' = Shell /\ child' = [t \in Shell |-> child'[t]]
        BY <4>1
      <4>4. QED
        BY <4>1, <4>2, <4>3, <3>3
    <3>4. QED
      BY <3>2, <3>3
  <2>2. \A d \in Call : call'[d] = call[d] \/ (call[d] # Idle /\ call'[d].task = call[d].task)
    BY <1>14 DEF Signal
  <2>3. UNCHANGED <<registry, runner, told>> /\ DOMAIN call' = Call
    BY <1>14 DEF Signal
  <2>4. QED
    BY <2>1, <2>2, <2>3
<1>15. ASSUME NEW c \in Call, CancelTask(c) PROVE TaskInv'
  BY <1>15 DEF CancelTask
<1>16. CASE UNCHANGED taskVars
  BY <1>16 DEF taskVars
<1>17. QED
  BY <1>1, <1>2, <1>3, <1>4, <1>5, <1>6, <1>7, <1>8, <1>9, <1>10, <1>11, <1>12, <1>13, <1>14, <1>15, <1>16 DEF TaskNext, RunShell

\* No command, agent or call exists before the first step.
LEMMA TasksStart == ASSUME TaskInit PROVE TaskInv
BY DEF TaskInit, TaskInv, LifeTypeOK, RunnerKnows, RunnerReports, FinishedIsGone,
       ToldFinal, Task, TaskStatus, Phases, Idle

\* The inductive invariant of the tasks.
THEOREM TaskInvariant == TaskSpec => []TaskInv
<1>1. TaskInit => TaskInv
  BY TasksStart
<1>2. TaskInv /\ [TaskNext]_taskVars => TaskInv'
  BY TasksKept
<1>3. QED
  BY <1>1, <1>2, PTL DEF TaskSpec

\* What is reported as over is over: the process of a command is reaped, the query
\* of an agent is done, and exactly the cancelled agents are told to stop, however
\* many calls cancel a task while it ends or times out (background_shell::spawn,
\* finish_if_running).
THEOREM FinishedAreGone == TaskSpec => []FinishedIsGone
<1>1. TaskInv => FinishedIsGone
  BY DEF TaskInv
<1>2. QED
  BY <1>1, TaskInvariant, PTL

\* The notification of a watcher speaks of the task's final status
\* (run_in_background).
THEOREM NotificationsStayTrue == TaskSpec => []ToldFinal
<1>1. TaskInv => ToldFinal
  BY DEF TaskInv
<1>2. QED
  BY <1>1, TaskInvariant, PTL

-----------------------------------------------------------------------------
\* What a watcher tells is complete: its lines are what was read, and at the end
\* of a command all that was written was read.

\* Lines of stdout up to n, then those of stderr.
OutsFirst(s, n) ==
  /\ s \in Seq(Pipe) /\ n \in Nat /\ n <= Len(s)
  /\ \A i \in 1..Len(s) : s[i] = "out" <=> i <= n

\* The runner of a command, before its deadline or after its own end.
Draining(t) ==
  \/ runner[t] \in {"none", "spawning", "recording", "draining", "completed", "failed"}
  \/ status[t] \in {"completed", "failed"}
Drained(t) ==
  runner[t] \in {"completed", "failed"} \/ status[t] \in {"completed", "failed"}

LineTypeOK ==
  /\ DOMAIN output = Task
  /\ read \in [Shell -> [Pipe -> Nat]] /\ written \in [Shell -> [Pipe -> Nat]]
  /\ held \in [Shell -> Nat]
  /\ ended \in [Shell -> SUBSET Pipe] /\ open \in [Shell -> SUBSET Pipe]

\* The output has the lines that were read, but for those of stderr that are kept
\* back until stdout ends.
Counted(t) ==
  /\ OutsFirst(output[t], read[t]["out"])
  /\ Draining(t) =>
       /\ Len(output[t]) + held[t] = read[t]["out"] + read[t]["err"]
       /\ held[t] = IF "out" \in ended[t] THEN 0 ELSE read[t]["err"]

\* A pipe that was read to its end has nothing more to come.
ReadAll(t) ==
  /\ runner[t] \in {"none", "spawning", "recording"} => ended[t] = {}
  /\ Drained(t) => ended[t] = Pipe
  /\ t \notin cut => \A p \in ended[t] : p \notin open[t] /\ read[t][p] = written[t][p]

\* A notification has the lines of its moment, which are the last ones when the
\* command has ended by itself.
ToldLines(t) ==
  told[t] # Silent =>
    /\ \E n \in 0..Len(told[t].output) : OutsFirst(told[t].output, n)
    /\ told[t].status \in {"completed", "failed"} => told[t].output = output[t]

LineInv ==
  /\ TaskInv /\ LineTypeOK
  /\ \A t \in Shell : Counted(t) /\ ReadAll(t)
  /\ \A t \in Watched : ToldLines(t)

\* Lines of stderr at the end.
LEMMA MoreErrors ==
  ASSUME NEW s, NEW n, OutsFirst(s, n), NEW e \in Seq(Pipe),
         \A i \in 1..Len(e) : e[i] = "err", NEW t, t = s \o e
  PROVE  OutsFirst(t, n) /\ Len(t) = Len(s) + Len(e)
<1>1. s \in Seq(Pipe) /\ n \in Nat /\ n <= Len(s) /\ Len(s) \in Nat /\ Len(e) \in Nat
  BY DEF OutsFirst
<1>2. t \in Seq(Pipe) /\ Len(t) = Len(s) + Len(e)
  BY <1>1
<1>3. \A i \in 1..Len(s) : t[i] = s[i]
  BY <1>1
<1>4. ASSUME NEW i \in (Len(s) + 1)..Len(t) PROVE t[i] = "err" /\ ~(i <= n)
  <2>1. PICK j : j = i - Len(s)
    OBVIOUS
  <2>2. j \in 1..Len(e) /\ t[i] = e[j]
    BY <1>1, <1>2, <2>1
  <2>3. QED
    BY <1>1, <1>2, <2>2
<1>5. \A i \in 1..Len(t) : i \in 1..Len(s) \/ i \in (Len(s) + 1)..Len(t)
  BY <1>1, <1>2
<1>6. \A i \in 1..Len(t) : t[i] = "out" <=> i <= n
  BY <1>3, <1>4, <1>5 DEF OutsFirst
<1>7. QED
  BY <1>1, <1>2, <1>6 DEF OutsFirst

\* A line of stdout while there are only such lines.
LEMMA MoreOutput ==
  ASSUME NEW s, NEW n, OutsFirst(s, n), n = Len(s), NEW t, t = s \o <<"out">>
  PROVE  OutsFirst(t, n + 1) /\ Len(t) = Len(s) + 1
<1>1. s \in Seq(Pipe) /\ n \in Nat
  BY DEF OutsFirst
<1>2. t \in Seq(Pipe) /\ Len(t) = Len(s) + 1 /\ t[Len(s) + 1] = "out"
      /\ \A i \in 1..Len(s) : t[i] = s[i]
  BY <1>1 DEF Pipe
<1>3. \A i \in 1..Len(t) : i \in 1..Len(s) \/ i = Len(s) + 1
  BY <1>1, <1>2
<1>4. \A i \in 1..Len(t) : t[i] = "out" /\ i <= n + 1
  BY <1>1, <1>2, <1>3 DEF OutsFirst
<1>5. QED
  BY <1>1, <1>2, <1>4 DEF OutsFirst

\* A step that reads nothing and tells nothing: the command closes a pipe or writes
\* to an open one, or a task or a call goes on.
LEMMA ReadsNothing ==
  ASSUME LineInv, TaskInv', UNCHANGED <<output, read, ended, held, cut, told>>,
         written' \in [Shell -> [Pipe -> Nat]], open' \in [Shell -> SUBSET Pipe],
         \A t \in Shell : \A p \in Pipe :
           p \notin open[t] => p \notin open'[t] /\ written'[t][p] = written[t][p],
         \A t \in Shell : (Draining(t)' => Draining(t)) /\ (Drained(t)' => Drained(t)),
         \A t \in Shell : runner'[t] \in {"none", "spawning", "recording"}
                          => runner[t] \in {"none", "spawning", "recording"}
  PROVE  LineInv'
<1>1. LineTypeOK'
  BY DEF LineInv, LineTypeOK
<1>2. ASSUME NEW t \in Shell PROVE Counted(t)'
  BY <1>2 DEF LineInv, Counted
<1>3. ASSUME NEW t \in Shell PROVE ReadAll(t)'
  BY <1>3 DEF LineInv, LineTypeOK, ReadAll
<1>4. ASSUME NEW t \in Watched PROVE ToldLines(t)'
  BY <1>4 DEF LineInv, ToldLines
<1>5. QED
  BY <1>1, <1>2, <1>3, <1>4 DEF LineInv

\* The runner of a command reads a line.
LEMMA ReadLineCounts ==
  ASSUME LineInv, TaskInv', NEW t \in Shell, NEW p \in Pipe, ReadLine(t, p)
  PROVE  LineInv'
<1>1. /\ runner[t] = "draining" /\ p \notin ended[t]
      /\ read' = [read EXCEPT ![t][p] = @ + 1]
      /\ UNCHANGED <<status, runner, ended, cut, open, written, told>>
  BY DEF ReadLine, process
<1>2. /\ t \in Task /\ DOMAIN output = Task
      /\ read \in [Shell -> [Pipe -> Nat]] /\ held \in [Shell -> Nat]
  BY DEF LineInv, LineTypeOK, Task
<1>3. /\ \A u \in Shell : u # t => read'[u] = read[u]
      /\ \A q \in Pipe : q # p => read'[t][q] = read[t][q]
      /\ read'[t][p] = read[t][p] + 1
      /\ read' \in [Shell -> [Pipe -> Nat]]
  BY <1>1, <1>2
<1>4. /\ \A u \in Shell : u # t => output'[u] = output[u] /\ held'[u] = held[u]
      /\ DOMAIN output' = Task /\ held' \in [Shell -> Nat]
      /\ \/ /\ p = "out" \/ "out" \in ended[t]
            /\ output'[t] = output[t] \o <<p>> /\ held' = held
         \/ /\ p = "err" /\ "out" \notin ended[t]
            /\ held'[t] = held[t] + 1 /\ output' = output
  <2>1. CASE p = "out" \/ "out" \in ended[t]
    <3>1. output' = [output EXCEPT ![t] = output[t] \o <<p>>] /\ held' = held
      BY <2>1 DEF ReadLine, AppendLines
    <3>2. QED
      BY <1>2, <2>1, <3>1
  <2>2. CASE ~(p = "out" \/ "out" \in ended[t])
    <3>1. output' = output /\ held' = [held EXCEPT ![t] = held[t] + 1]
      BY <2>2 DEF ReadLine
    <3>2. QED
      BY <1>2, <2>2, <3>1 DEF Pipe
  <2>3. QED
    BY <2>1, <2>2
<1>5. LineTypeOK'
  BY <1>1, <1>3, <1>4 DEF LineInv, LineTypeOK
<1>6. status[t] \notin {"completed", "failed"}
  BY <1>1, <1>2 DEF LineInv, TaskInv, RunnerReports
<1>7. Counted(t)'
  <2>1. Counted(t) /\ Draining(t)
    BY <1>1 DEF LineInv, Draining
  <2>2. PICK s : s = output[t]
    OBVIOUS
  <2>3. PICK r : r = output'[t]
    OBVIOUS
  <2>4. PICK n : n = read[t]["out"]
    OBVIOUS
  <2>5. PICK k : k = read[t]["err"]
    OBVIOUS
  <2>6. /\ OutsFirst(s, n) /\ Len(s) + held[t] = n + k
        /\ held[t] = IF "out" \in ended[t] THEN 0 ELSE k
        /\ n \in Nat /\ k \in Nat /\ s \in Seq(Pipe)
    BY <1>2, <2>1, <2>2, <2>4, <2>5 DEF Counted, OutsFirst, Pipe
  <2>7. CASE p = "out"
    <3>1. r = s \o <<"out">> /\ held'[t] = held[t]
      BY <1>4, <2>2, <2>3, <2>7
    <3>2. held[t] = k /\ n = Len(s)
      BY <1>1, <2>6, <2>7
    <3>3. OutsFirst(r, n + 1) /\ Len(r) = Len(s) + 1
      BY <2>6, <3>1, <3>2, MoreOutput
    <3>4. read'[t]["out"] = n + 1 /\ read'[t]["err"] = k
      BY <1>3, <2>4, <2>5, <2>7 DEF Pipe
    <3>5. ended'[t] = ended[t] /\ "out" \notin ended[t]
      BY <1>1, <2>7
    <3>6. QED
      BY <2>3, <2>6, <3>1, <3>2, <3>3, <3>4, <3>5 DEF Counted
  <2>8. CASE p = "err" /\ "out" \in ended[t]
    <3>1. r = s \o <<"err">> /\ held'[t] = held[t]
      BY <1>4, <2>2, <2>3, <2>8
    <3>2. PICK e : e = <<"err">>
      OBVIOUS
    <3>3. e \in Seq(Pipe) /\ Len(e) = 1 /\ \A i \in 1..Len(e) : e[i] = "err"
      BY <3>2 DEF Pipe
    <3>4. OutsFirst(r, n) /\ Len(r) = Len(s) + 1
      BY <2>6, <3>1, <3>2, <3>3, MoreErrors
    <3>5. read'[t]["out"] = n /\ read'[t]["err"] = k + 1
      BY <1>3, <2>4, <2>5, <2>8 DEF Pipe
    <3>6. ended'[t] = ended[t] /\ held[t] = 0
      BY <1>1, <2>6, <2>8
    <3>7. QED
      BY <2>3, <2>6, <2>8, <3>1, <3>4, <3>5, <3>6 DEF Counted
  <2>9. CASE p = "err" /\ "out" \notin ended[t]
    <3>1. r = s /\ held'[t] = held[t] + 1
      BY <1>4, <2>2, <2>3, <2>9
    <3>2. read'[t]["out"] = n /\ read'[t]["err"] = k + 1
      BY <1>3, <2>4, <2>5, <2>9 DEF Pipe
    <3>3. ended'[t] = ended[t] /\ held[t] = k
      BY <1>1, <2>6, <2>9
    <3>4. QED
      BY <2>3, <2>6, <2>9, <3>1, <3>2, <3>3 DEF Counted
  <2>10. QED
    BY <2>7, <2>8, <2>9 DEF Pipe
<1>8. ASSUME NEW u \in Shell, u # t PROVE Counted(u)'
  <2>1. /\ output'[u] = output[u] /\ held'[u] = held[u] /\ read'[u] = read[u]
        /\ UNCHANGED <<status, runner, ended>>
    BY <1>1, <1>3, <1>4, <1>8
  <2>2. Counted(u)
    BY <1>8 DEF LineInv
  <2>3. QED
    BY ONLY <2>1, <2>2 DEF Counted, Draining
<1>9. ASSUME NEW u \in Shell PROVE ReadAll(u)'
  <2>1. \A q \in ended[u] : q \in Pipe /\ read'[u][q] = read[u][q]
    BY <1>1, <1>2, <1>3 DEF LineInv, LineTypeOK
  <2>2. QED
    BY <1>1, <2>1 DEF LineInv, ReadAll, Drained
<1>10. ASSUME NEW u \in Watched PROVE ToldLines(u)'
  <2>1. CASE u # t
    BY <1>1, <1>4, <2>1, TaskAssumption DEF LineInv, ToldLines
  <2>2. CASE u = t
    BY <1>1, <1>6, <2>2 DEF LineInv, TaskInv, ToldFinal, ToldLines
  <2>3. QED
    BY <2>1, <2>2
<1>11. QED
  BY <1>5, <1>7, <1>8, <1>9, <1>10 DEF LineInv

\* The runner of a command comes to the end of a pipe: with that of stdout comes
\* what was kept back of stderr.
LEMMA EndOfPipeCounts ==
  ASSUME LineInv, TaskInv', NEW t \in Shell, NEW p \in Pipe, EndOfPipe(t, p)
  PROVE  LineInv'
<1>1. /\ runner[t] = "draining" /\ p \notin ended[t]
      /\ ended' = [ended EXCEPT ![t] = @ \cup {p}]
      /\ UNCHANGED <<status, runner, read, open, written, told>>
      /\ cut' = cut \cup {t} \/ (cut' = cut /\ p \notin open[t] /\ read[t][p] = written[t][p])
  BY DEF EndOfPipe, process
<1>2. /\ t \in Task /\ DOMAIN output = Task
      /\ read \in [Shell -> [Pipe -> Nat]] /\ held \in [Shell -> Nat]
      /\ ended \in [Shell -> SUBSET Pipe]
  BY DEF LineInv, LineTypeOK, Task
<1>3. /\ \A u \in Shell : u # t => ended'[u] = ended[u]
      /\ ended'[t] = ended[t] \cup {p} /\ ended' \in [Shell -> SUBSET Pipe]
  BY <1>1, <1>2
<1>4. /\ \A u \in Shell : u # t => output'[u] = output[u] /\ held'[u] = held[u]
      /\ DOMAIN output' = Task /\ held' \in [Shell -> Nat]
      /\ \/ /\ p = "out" /\ output'[t] = output[t] \o Errors(held[t]) /\ held'[t] = 0
         \/ p = "err" /\ held' = held /\ output' = output
  <2>1. CASE p = "out"
    <3>1. /\ output' = [output EXCEPT ![t] = output[t] \o Errors(held[t])]
          /\ held' = [held EXCEPT ![t] = 0]
      BY <2>1 DEF EndOfPipe, AppendLines
    <3>2. QED
      BY <1>2, <2>1, <3>1
  <2>2. CASE p # "out"
    <3>1. output' = output /\ held' = held
      BY <2>2 DEF EndOfPipe
    <3>2. QED
      BY <1>2, <2>2, <3>1 DEF Pipe
  <2>3. QED
    BY <2>1, <2>2
<1>5. LineTypeOK'
  BY <1>1, <1>3, <1>4 DEF LineInv, LineTypeOK
<1>6. status[t] \notin {"completed", "failed"}
  BY <1>1, <1>2 DEF LineInv, TaskInv, RunnerReports
<1>7. Counted(t)'
  <2>1. Counted(t) /\ Draining(t)
    BY <1>1 DEF LineInv, Draining
  <2>2. PICK s : s = output[t]
    OBVIOUS
  <2>3. PICK r : r = output'[t]
    OBVIOUS
  <2>4. PICK n : n = read[t]["out"]
    OBVIOUS
  <2>5. PICK k : k = read[t]["err"]
    OBVIOUS
  <2>6. /\ OutsFirst(s, n) /\ Len(s) + held[t] = n + k
        /\ held[t] = IF "out" \in ended[t] THEN 0 ELSE k
        /\ n \in Nat /\ k \in Nat /\ s \in Seq(Pipe) /\ held[t] \in Nat
    BY <1>2, <2>1, <2>2, <2>4, <2>5 DEF Counted, OutsFirst, Pipe
  <2>7. CASE p = "out"
    <3>1. PICK h \in Nat : h = held[t]
      BY <2>6
    <3>2. PICK e : e = Errors(h)
      OBVIOUS
    <3>3. e \in Seq(Pipe) /\ Len(e) = h /\ \A i \in 1..Len(e) : e[i] = "err"
      BY <3>1, <3>2 DEF Errors, Pipe
    <3>4. r = s \o e
      BY <1>4, <2>2, <2>3, <2>7, <3>1, <3>2
    <3>5. OutsFirst(r, n) /\ Len(r) = Len(s) + h
      BY <2>6, <3>3, <3>4, MoreErrors
    <3>6. held'[t] = 0 /\ "out" \in ended'[t] /\ read'[t]["out"] = n /\ read'[t]["err"] = k
      BY <1>1, <1>3, <1>4, <2>4, <2>5, <2>7
    <3>7. Len(s) + h = n + k /\ Len(s) \in Nat
      BY <2>6, <3>1
    <3>8. Len(r) + 0 = n + k
      BY <2>6, <3>1, <3>5, <3>7
    <3>9. QED
      BY <2>3, <3>5, <3>6, <3>8 DEF Counted
  <2>8. CASE p = "err"
    <3>1. /\ output'[t] = output[t] /\ held'[t] = held[t] /\ read' = read
          /\ ("out" \in ended'[t] <=> "out" \in ended[t])
      BY <1>1, <1>3, <1>4, <2>8
    <3>2. QED
      BY <2>1, <3>1 DEF Counted
  <2>9. QED
    BY <2>7, <2>8 DEF Pipe
<1>8. ASSUME NEW u \in Shell, u # t PROVE Counted(u)'
  BY <1>1, <1>3, <1>4, <1>8 DEF LineInv, Counted, Draining
<1>9. ASSUME NEW u \in Shell PROVE ReadAll(u)'
  <2>1. CASE u = t
    <3>1. ~Drained(t)'
      BY <1>1, <1>6 DEF Drained
    <3>2. QED
      BY <1>1, <1>3, <2>1, <3>1 DEF LineInv, ReadAll
  <2>2. CASE u # t
    BY <1>1, <1>3, <2>2 DEF LineInv, ReadAll, Drained
  <2>3. QED
    BY <2>1, <2>2
<1>10. ASSUME NEW u \in Watched PROVE ToldLines(u)'
  <2>1. CASE u # t
    BY <1>1, <1>4, <2>1, TaskAssumption DEF LineInv, ToldLines
  <2>2. CASE u = t
    BY <1>1, <1>6, <2>2 DEF LineInv, TaskInv, ToldFinal, ToldLines
  <2>3. QED
    BY <2>1, <2>2
<1>11. QED
  BY <1>5, <1>7, <1>8, <1>9, <1>10 DEF LineInv

\* The deadline passes: the lines that were kept back are lost, and the task cannot
\* be reported as completed any more.
LEMMA TimeOutCounts ==
  ASSUME LineInv, TaskInv', NEW t \in Shell, TimeOut(t)
  PROVE  LineInv'
<1>1. /\ runner[t] = "draining" /\ runner' = [runner EXCEPT ![t] = "killing"]
      /\ held' = [held EXCEPT ![t] = 0]
      /\ UNCHANGED <<status, output, read, ended, cut, open, written, told>>
  BY DEF TimeOut, Timed, Becomes, registry, process
<1>2. t \in Task /\ runner \in [Task -> Phases] /\ held \in [Shell -> Nat]
  BY DEF LineInv, LineTypeOK, TaskInv, LifeTypeOK, Task
<1>3. status[t] \notin {"completed", "failed"}
  BY <1>1, <1>2 DEF LineInv, TaskInv, RunnerReports
<1>4. runner'[t] = "killing" /\ \A u \in Shell : u # t => runner'[u] = runner[u] /\ held'[u] = held[u]
  BY <1>1, <1>2 DEF Task
<1>5. LineTypeOK'
  BY <1>1, <1>2 DEF LineInv, LineTypeOK
<1>6. ~Draining(t)' /\ ~Drained(t)'
  BY <1>1, <1>3, <1>4 DEF Draining, Drained
<1>7. ASSUME NEW u \in Shell PROVE Counted(u)' /\ ReadAll(u)'
  <2>1. CASE u = t
    BY <1>1, <1>4, <1>6, <2>1 DEF LineInv, Counted, ReadAll
  <2>2. CASE u # t
    BY <1>1, <1>4, <2>2 DEF LineInv, Counted, ReadAll, Draining, Drained
  <2>3. QED
    BY <2>1, <2>2
<1>8. ASSUME NEW u \in Watched PROVE ToldLines(u)'
  BY <1>1 DEF LineInv, ToldLines
<1>9. QED
  BY <1>5, <1>7, <1>8 DEF LineInv

\* A child is spawned, whose pipes nothing was read of yet, or none.
LEMMA SpawnChildCounts ==
  ASSUME LineInv, TaskInv', NEW t \in Shell, SpawnChild(t)
  PROVE  LineInv'
<1>1. /\ runner[t] = "spawning" /\ UNCHANGED <<output, read, ended, held, cut, written, told>>
      /\ \/ /\ runner' = [runner EXCEPT ![t] = "recording"]
            /\ open' = [open EXCEPT ![t] = Pipe] /\ status' = status
         \/ /\ runner' = [runner EXCEPT ![t] = "over"]
            /\ open' = open /\ FinishIfRunning(t, "unspawned")
  BY DEF SpawnChild, Becomes, drain
<1>2. /\ t \in Task /\ runner \in [Task -> Phases] /\ status \in [Task -> TaskStatus]
      /\ open \in [Shell -> SUBSET Pipe]
  BY DEF LineInv, LineTypeOK, TaskInv, LifeTypeOK, Task
<1>3. /\ \A u \in Shell : u # t => runner'[u] = runner[u] /\ open'[u] = open[u] /\ status'[u] = status[u]
      /\ runner'[t] \in {"recording", "over"}
      /\ status'[t] \in {status[t], "unspawned"}
      /\ open' \in [Shell -> SUBSET Pipe]
  BY <1>1, <1>2 DEF FinishIfRunning, UpdateStatus, Task
<1>4. status[t] \notin {"completed", "failed"} /\ ended[t] = {}
  BY <1>1, <1>2 DEF LineInv, TaskInv, RunnerReports, ReadAll
<1>5. LineTypeOK'
  BY <1>1, <1>3 DEF LineInv, LineTypeOK
<1>6. Draining(t) /\ ~Drained(t)'
  BY <1>1, <1>3, <1>4 DEF Draining, Drained
<1>7. ASSUME NEW u \in Shell PROVE Counted(u)' /\ ReadAll(u)'
  <2>1. CASE u = t
    BY <1>1, <1>4, <1>6, <2>1 DEF LineInv, Counted, ReadAll
  <2>2. CASE u # t
    BY <1>1, <1>3, <2>2 DEF LineInv, Counted, ReadAll, Draining, Drained
  <2>3. QED
    BY <2>1, <2>2
<1>8. ASSUME NEW u \in Watched PROVE ToldLines(u)'
  BY <1>1 DEF LineInv, ToldLines
<1>9. QED
  BY <1>5, <1>7, <1>8 DEF LineInv

\* The watcher notifies: of the lines of the moment.
LEMMA NotifyCounts ==
  ASSUME LineInv, TaskInv', NEW t \in Watched, Notify(t)
  PROVE  LineInv'
<1>1. /\ told' = [told EXCEPT ![t] = [status |-> status[t], output |-> output[t]]]
      /\ UNCHANGED <<status, runner, output, read, ended, held, cut, open, written>>
  BY DEF Notify, registry, drain, process
<1>2. DOMAIN told = Watched /\ t \in Shell
  BY TaskAssumption DEF LineInv, TaskInv, LifeTypeOK
<1>3. told'[t].output = output[t] /\ \A u \in Watched : u # t => told'[u] = told[u]
  BY <1>1, <1>2
<1>4. LineTypeOK' /\ \A u \in Shell : Counted(u)' /\ ReadAll(u)'
  BY <1>1 DEF LineInv, LineTypeOK, Counted, ReadAll, Draining, Drained
<1>5. ASSUME NEW u \in Watched PROVE ToldLines(u)'
  <2>1. CASE u = t
    <3>1. OutsFirst(output[t], read[t]["out"])
      BY <1>2 DEF LineInv, Counted
    <3>2. read[t]["out"] \in 0..Len(output[t])
      BY <3>1 DEF OutsFirst
    <3>3. QED
      BY <1>1, <1>3, <2>1, <3>1, <3>2 DEF ToldLines
  <2>2. CASE u # t
    BY <1>1, <1>3, <2>2 DEF LineInv, ToldLines
  <2>3. QED
    BY <2>1, <2>2
<1>6. QED
  BY <1>4, <1>5 DEF LineInv

\* The text of an agent is no line of a command.
LEMMA QueryEndsCounts ==
  ASSUME LineInv, TaskInv', NEW t \in Agent, QueryEnds(t)
  PROVE  LineInv'
<1>1. /\ UNCHANGED <<status, read, ended, held, cut, open, written, told>>
      /\ \E how : runner' = [runner EXCEPT ![t] = how] /\ output' = [output EXCEPT ![t] = @ \o <<how>>]
  BY DEF QueryEnds, Becomes, AppendLines, drain, process
<1>2. DOMAIN output = Task /\ DOMAIN runner = Task /\ t \in Task /\ t \notin Shell
  BY TaskAssumption DEF LineInv, LineTypeOK, TaskInv, LifeTypeOK, Task
<1>3. /\ \A u \in Shell : output'[u] = output[u] /\ runner'[u] = runner[u]
      /\ DOMAIN output' = Task
  BY <1>1, <1>2 DEF Task
<1>4. LineTypeOK'
  BY <1>1, <1>3 DEF LineInv, LineTypeOK
<1>5. \A u \in Shell : Counted(u)' /\ ReadAll(u)'
  BY <1>1, <1>3 DEF LineInv, Counted, ReadAll, Draining, Drained
<1>6. \A u \in Watched : ToldLines(u)'
  BY <1>1, <1>3, TaskAssumption DEF LineInv, ToldLines
<1>7. QED
  BY <1>4, <1>5, <1>6 DEF LineInv

\* What the steps that read nothing have in common: no pipe is touched, the phase
\* of a runner and the status of a task go on as they may.
LEMMA GoesOn ==
  ASSUME LineInv, TaskInv', UNCHANGED <<output, drain, told, open, written>>,
         \A t \in Shell :
           /\ runner'[t] # runner[t] =>
                \/ runner'[t] \in {"spawning"} /\ runner[t] = "none" /\ status[t] = "none"
                \/ runner'[t] = "draining" /\ runner[t] = "recording"
                \/ runner'[t] \in {"completed", "failed"} /\ runner[t] = "draining" /\ ended[t] = Pipe
                \/ runner'[t] \in {"timeout", "unkilled"}
                \/ runner'[t] = "over"
           /\ status'[t] # status[t] =>
                status'[t] \in {"running", "cancelled", "timeout", "unkilled", runner[t]}
  PROVE  LineInv'
<1>1. \A t \in Shell : t \in Task /\ status[t] \in TaskStatus /\ runner[t] \in Phases
  BY DEF LineInv, TaskInv, LifeTypeOK, Task
<1>2. \A t \in Shell : Draining(t)' => Draining(t)
  BY DEF Draining
<1>3. LineTypeOK'
  BY DEF LineInv, LineTypeOK, drain
<1>4. ASSUME NEW t \in Shell PROVE Counted(t)'
  BY <1>2, <1>4 DEF LineInv, Counted, drain
<1>5. ASSUME NEW t \in Shell PROVE ReadAll(t)'
  BY <1>5 DEF LineInv, ReadAll, Drained, drain
<1>6. ASSUME NEW t \in Watched PROVE ToldLines(t)'
  BY <1>6 DEF LineInv, ToldLines
<1>7. QED
  BY <1>3, <1>4, <1>5, <1>6 DEF LineInv

\* The command itself.
LEMMA CommandCounts ==
  ASSUME LineInv, TaskInv', NEW t \in Shell, Command(t)
  PROVE  LineInv'
<1>1. UNCHANGED <<status, runner, output, read, ended, held, cut, told>>
  BY DEF Command, ChildExits, WriteLine, ClosePipe, registry, drain
<1>2. open \in [Shell -> SUBSET Pipe] /\ written \in [Shell -> [Pipe -> Nat]]
  BY DEF LineInv, LineTypeOK
<1>3. /\ written' \in [Shell -> [Pipe -> Nat]] /\ open' \in [Shell -> SUBSET Pipe]
      /\ \A u \in Shell : \A p \in Pipe :
           p \notin open[u] => p \notin open'[u] /\ written'[u][p] = written[u][p]
  <2>1. CASE ChildExits(t)
    BY <1>2, <2>1 DEF ChildExits
  <2>2. ASSUME NEW q \in Pipe, WriteLine(t, q)
        PROVE  /\ written' \in [Shell -> [Pipe -> Nat]] /\ open' = open
               /\ \A u \in Shell : \A p \in Pipe : p \notin open[u] => written'[u][p] = written[u][p]
    BY <1>2, <2>2 DEF WriteLine
  <2>3. ASSUME NEW q \in Pipe, ClosePipe(t, q)
        PROVE  /\ written' = written /\ open' \in [Shell -> SUBSET Pipe]
               /\ \A u \in Shell : \A p \in Pipe : p \notin open[u] => p \notin open'[u]
    BY <1>2, <2>3 DEF ClosePipe
  <2>4. QED
    BY <1>2, <2>1, <2>2, <2>3 DEF Command
<1>4. \A u \in Shell : (Draining(u)' => Draining(u)) /\ (Drained(u)' => Drained(u))
  BY <1>1 DEF Draining, Drained
<1>5. QED
  BY <1>1, <1>3, <1>4, ReadsNothing

\* Every step keeps the invariant of the lines.
LEMMA LinesKept ==
  ASSUME LineInv, [TaskNext]_taskVars
  PROVE  LineInv'
<1>1. TaskInv'
  BY TasksKept DEF LineInv
<1>2. /\ DOMAIN runner = Task /\ DOMAIN status = Task
      /\ \A c \in Call : call[c] = Idle \/ call[c].task \in Task
      /\ \A t \in Shell : t \in Task
  BY DEF LineInv, TaskInv, LifeTypeOK, Task
<1>3. ASSUME NEW t \in Task, Start(t) PROVE LineInv'
  BY <1>1, <1>2, <1>3, GoesOn DEF Start, Becomes, process, LineInv, TaskInv, RunnerReports
<1>4. ASSUME NEW t \in Shell, RecordPid(t) PROVE LineInv'
  BY <1>1, <1>2, <1>4, GoesOn DEF RecordPid, Becomes, process
<1>5. ASSUME NEW t \in Shell, WaitForChild(t) PROVE LineInv'
  BY <1>1, <1>2, <1>5, GoesOn DEF WaitForChild, Becomes, registry
<1>6. ASSUME NEW t \in Shell, KillChild(t) PROVE LineInv'
  BY <1>1, <1>2, <1>6, GoesOn DEF KillChild, Becomes, registry
<1>7. ASSUME NEW t \in Task, Report(t) PROVE LineInv'
  BY <1>1, <1>2, <1>7, GoesOn DEF Report, Becomes, FinishIfRunning, UpdateStatus, process
<1>8. ASSUME NEW c \in Call, CancelTask(c) PROVE LineInv'
  BY <1>1, <1>2, <1>8, GoesOn DEF CancelTask, FinishIfRunning, UpdateStatus, process
<1>9. ASSUME NEW c \in Call, Signal(c) \/ \E t \in Task : LookUp(c, t) PROVE LineInv'
  <2>1. UNCHANGED <<status, runner, output, drain, told, open, written>>
    BY <1>9 DEF Signal, LookUp, registry, process
  <2>2. QED
    BY <1>1, <2>1, GoesOn
<1>10. CASE UNCHANGED taskVars
  <2>1. UNCHANGED <<status, runner, output, drain, told, open, written>>
    BY <1>10 DEF taskVars, registry, process
  <2>2. QED
    BY <1>1, <2>1, GoesOn
<1>11. QED
  BY <1>1, <1>3, <1>4, <1>5, <1>6, <1>7, <1>8, <1>9, <1>10, ReadLineCounts, EndOfPipeCounts,
     TimeOutCounts, SpawnChildCounts, NotifyCounts, QueryEndsCounts, CommandCounts
     DEF TaskNext, RunShell, Task

\* Before the first step no command has written a line.
LEMMA LinesStart == ASSUME TaskInit PROVE LineInv
<1>1. TaskInv
  BY TasksStart
<1>2. LineTypeOK
  BY DEF TaskInit, LineTypeOK, Pipe
<1>3. OutsFirst(<< >>, 0)
  BY DEF OutsFirst
<1>4. ASSUME NEW t \in Shell PROVE Counted(t) /\ ReadAll(t)
  <2>1. /\ output[t] = << >> /\ read[t]["out"] = 0 /\ read[t]["err"] = 0 /\ held[t] = 0
        /\ ended[t] = {} /\ runner[t] = "none" /\ status[t] = "none"
    BY DEF TaskInit, Task, Pipe
  <2>2. QED
    BY <1>3, <2>1 DEF Counted, ReadAll, Drained
<1>5. ASSUME NEW t \in Watched PROVE ToldLines(t)
  BY DEF TaskInit, ToldLines
<1>6. QED
  BY <1>1, <1>2, <1>4, <1>5 DEF LineInv

\* How many lines of each pipe there are.
LEMMA LinesOf ==
  ASSUME NEW s, NEW n, OutsFirst(s, n)
  PROVE  /\ Cardinality({i \in DOMAIN s : s[i] = "out"}) = n
         /\ Cardinality({i \in DOMAIN s : s[i] = "err"}) = Len(s) - n
<1>1. s \in Seq(Pipe) /\ n \in Nat /\ n <= Len(s) /\ Len(s) \in Nat /\ DOMAIN s = 1..Len(s)
      /\ \A i \in 1..Len(s) : s[i] \in Pipe /\ (s[i] = "out" <=> i <= n)
  BY DEF OutsFirst
<1>2. {i \in DOMAIN s : s[i] = "out"} = 1..n
  BY <1>1
<1>3. {i \in DOMAIN s : s[i] = "err"} = (n + 1)..Len(s)
  BY <1>1 DEF Pipe
<1>4. Cardinality(1..n) = n
  <2>1. 1 \in Int /\ n \in Int
    BY <1>1
  <2>2. Cardinality(1..n) = IF 1 > n THEN 0 ELSE n - 1 + 1
    BY <2>1, FS_Interval, Zenon
  <2>3. QED
    BY <1>1, <2>2
<1>5. Cardinality((n + 1)..Len(s)) = Len(s) - n
  <2>1. n + 1 \in Int /\ Len(s) \in Int
    BY <1>1
  <2>2. Cardinality((n + 1)..Len(s)) = IF n + 1 > Len(s) THEN 0 ELSE Len(s) - (n + 1) + 1
    BY <2>1, FS_Interval, Zenon
  <2>3. QED
    BY <1>1, <2>2
<1>6. QED
  BY <1>2, <1>3, <1>4, <1>5

\* The inductive invariant of the lines of the commands.
THEOREM LineInvariant == TaskSpec => []LineInv
<1>1. TaskInit => LineInv
  BY LinesStart
<1>2. LineInv /\ [TaskNext]_taskVars => LineInv'
  BY LinesKept
<1>3. QED
  BY <1>1, <1>2, PTL DEF TaskSpec

\* A notification stays true: its status is final, its lines are those of stdout
\* and then those of stderr, and of a command that has ended by itself they are all
\* that it wrote, if both pipes could be read (drain_background, run_in_background).
THEOREM NotificationsAreComplete == TaskSpec => []NotifiedTruly
<1>1. ASSUME LineInv, NEW t \in Watched, told[t] # Silent
      PROVE  /\ told[t].status = status[t]
             /\ \A i \in 2..Len(told[t].output) :
                  told[t].output[i] = "out" => told[t].output[i - 1] = "out"
             /\ told[t].status \in {"completed", "failed"} /\ t \notin cut =>
                  \A p \in Pipe : Lines(t, p) = written[t][p]
  <2>1. t \in Shell /\ t \in Task
    BY TaskAssumption DEF Task
  <2>2. told[t].status = status[t]
    BY <1>1 DEF LineInv, TaskInv, ToldFinal
  <2>3. PICK s : s = told[t].output
    OBVIOUS
  <2>4. \A i \in 2..Len(s) : s[i] = "out" => s[i - 1] = "out"
    <3>1. PICK n : OutsFirst(s, n)
      BY <1>1, <2>3 DEF LineInv, ToldLines
    <3>2. Len(s) \in Nat /\ n \in Nat
      BY <3>1 DEF OutsFirst
    <3>3. \A i \in 2..Len(s) : i \in 1..Len(s) /\ i - 1 \in 1..Len(s) /\ (i <= n => i - 1 <= n)
      BY <3>2
    <3>4. QED
      BY <3>1, <3>3 DEF OutsFirst
  <2>5. ASSUME told[t].status \in {"completed", "failed"}, t \notin cut
        PROVE  \A p \in Pipe : Lines(t, p) = written[t][p]
    <3>1. s = output[t]
      BY <1>1, <2>3, <2>5 DEF LineInv, ToldLines
    <3>2. Draining(t) /\ Drained(t)
      BY <2>2, <2>5 DEF Draining, Drained
    <3>3. ended[t] = Pipe /\ \A p \in Pipe : read[t][p] = written[t][p]
      BY <1>1, <2>1, <2>5, <3>2 DEF LineInv, ReadAll
    <3>4. held[t] = 0 /\ OutsFirst(s, read[t]["out"])
          /\ Len(s) + held[t] = read[t]["out"] + read[t]["err"]
      BY <1>1, <2>1, <3>1, <3>2, <3>3 DEF LineInv, Counted, Pipe
    <3>5. read[t]["out"] \in Nat /\ read[t]["err"] \in Nat /\ Len(s) \in Nat
      BY <1>1, <2>1, <3>4 DEF LineInv, LineTypeOK, Pipe, OutsFirst
    <3>6. Len(s) - read[t]["out"] = read[t]["err"]
      BY <3>4, <3>5
    <3>7. Lines(t, "out") = read[t]["out"] /\ Lines(t, "err") = read[t]["err"]
      BY <2>3, <3>4, <3>6, LinesOf DEF Lines
    <3>8. QED
      BY <3>3, <3>7 DEF Pipe
  <2>6. QED
    BY <2>2, <2>3, <2>4, <2>5
<1>2. LineInv => NotifiedTruly
  BY <1>1 DEF NotifiedTruly
<1>3. QED
  BY <1>2, LineInvariant, PTL

=============================================================================
