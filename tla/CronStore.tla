------------------------------ MODULE CronStore ------------------------------
(***************************************************************************)
(* The scheduled tasks of CronCreate, CronDelete and the scheduler: one    *)
(* store in the memory of every process, loaded once from the file they    *)
(* all share, and written back whole under the write lock of the process   *)
(* (crates/tools/src/cron.rs, crates/query/src/cron_scheduler.rs).         *)
(*                                                                         *)
(* A task is its id; whether it is durable and whether it recurs is fixed  *)
(* by the id.  Cron expressions are abstract: the minute that ticks may    *)
(* match any of the tasks in memory.  The rename that publishes the file   *)
(* is atomic; a process may end at any point.                              *)
(***************************************************************************)
EXTENDS Integers, FiniteSets

CONSTANTS Proc,      \* the processes that come to use the file
          Task,      \* ids of tasks
          Durable,   \* the tasks created with durable = true
          OneShot,   \* the tasks created with recurring = false
          MaxTasks,  \* tasks a store may hold (50 in the code)
          MaxRuns    \* bound: runs of one task that are followed

ASSUME CronAssumption ==
  /\ Durable \subseteq Task
  /\ OneShot \subseteq Task
  /\ IsFiniteSet(Task)
  /\ MaxTasks \in Nat
  /\ MaxRuns \in Nat

VARIABLES file,      \* scheduled_tasks.json
          mem,       \* CRON_STORE of a process
          loaded,    \* STORE_INITIALISED of a process
          lock,      \* the write in progress under the write lock, or Free
          due,       \* tasks pop_due_tasks returned, still to be spawned
          old,       \* tasks created more than seven days ago
          known,     \* ids handed out
          runs,      \* how often a task was spawned
          promised,  \* durable tasks whose creation was reported
          deleted,   \* tasks whose deletion was reported
          refused,   \* tasks whose creation was reported as failed
          taken,     \* one-shots that some tick removed from a store
          overlap    \* two processes have had the store loaded at once

stores == <<mem, loaded, lock, due>>
reports == <<promised, deleted, refused>>
cronVars == <<file, stores, old, known, runs, reports, taken, overlap>>

Free == [op |-> "none", tasks |-> {}]

\* Durable one-shots are the tasks whose removal must precede their run.
Once == Durable \cap OneShot

CronInit ==
  /\ file = {}
  /\ mem = [p \in Proc |-> {}]
  /\ loaded = [p \in Proc |-> FALSE]
  /\ lock = [p \in Proc |-> Free]
  /\ due = [p \in Proc |-> {}]
  /\ old = {} /\ known = {} /\ taken = {}
  /\ runs = [t \in Task |-> 0]
  /\ promised = {} /\ deleted = {} /\ refused = {}
  /\ overlap = FALSE

-----------------------------------------------------------------------------
\* Mutant of Load: a file that cannot be read counts as an empty one.
LoadNothing(p) ==
  /\ ~loaded[p]
  /\ loaded' = [loaded EXCEPT ![p] = TRUE]
  /\ mem' = [mem EXCEPT ![p] = {}]
  /\ overlap' = (overlap \/ \E q \in Proc : loaded[q])
  /\ UNCHANGED <<file, lock, due, old, known, runs, reports, taken>>

\* Every use of the store loads it first; a task that is too old stays in
\* the file until the next write.  A file that cannot be read changes nothing.
Load(p) ==
  /\ ~loaded[p]
  /\ loaded' = [loaded EXCEPT ![p] = TRUE]
  /\ mem' = [mem EXCEPT ![p] = file \ old]
  /\ overlap' = (overlap \/ \E q \in Proc : loaded[q])
  /\ UNCHANGED <<file, lock, due, old, known, runs, reports, taken>>

Ready(p) == loaded[p] /\ lock[p] = Free

\* The write lock is held until the file is published or the write has failed.
Write(p, op, tasks) == lock' = [lock EXCEPT ![p] = [op |-> op, tasks |-> tasks]]

Create(p, t) ==
  /\ Ready(p)
  /\ Cardinality(mem[p]) < MaxTasks
  /\ t \notin known
  /\ known' = known \cup {t}
  /\ mem' = [mem EXCEPT ![p] = @ \cup {t}]
  /\ IF t \in Durable THEN Write(p, "create", {t}) ELSE UNCHANGED lock
  /\ UNCHANGED <<file, loaded, due, old, runs, reports, taken, overlap>>

Delete(p, t) ==
  /\ Ready(p)
  /\ t \in mem[p]
  /\ mem' = [mem EXCEPT ![p] = @ \ {t}]
  /\ IF t \in Durable
     THEN Write(p, "delete", {t}) /\ UNCHANGED deleted
     ELSE deleted' = deleted \cup {t} /\ UNCHANGED lock
  /\ UNCHANGED <<file, loaded, due, old, known, runs, promised, refused, taken, overlap>>

-----------------------------------------------------------------------------
\* The end of pop_due_tasks: the one-shots leave the store, the scheduler has
\* the tasks.
Take(p, tasks) ==
  /\ mem' = [mem EXCEPT ![p] = @ \ (tasks \cap OneShot)]
  /\ due' = [due EXCEPT ![p] = tasks]
  /\ taken' = taken \cup (tasks \cap OneShot)

\* Mutant of Tick: the tasks are handed out, and the file is left to the next
\* write.
TickUnwritten(p, tasks) ==
  /\ Ready(p)
  /\ due[p] = {}
  /\ tasks \subseteq mem[p] /\ tasks # {}
  /\ \A t \in tasks : runs[t] < MaxRuns
  /\ Take(p, tasks)
  /\ UNCHANGED <<file, loaded, lock, old, known, runs, reports, overlap>>

\* One minute: `tasks` are those whose expression matches.
Tick(p, tasks) ==
  /\ Ready(p)
  /\ due[p] = {}
  /\ tasks \subseteq mem[p] /\ tasks # {}
  /\ \A t \in tasks : runs[t] < MaxRuns
  /\ IF tasks \cap Once # {}
     THEN Write(p, "pop", tasks) /\ UNCHANGED <<mem, due, taken>>
     ELSE Take(p, tasks) /\ UNCHANGED lock
  /\ UNCHANGED <<file, loaded, old, known, runs, reports, overlap>>

\* What the write publishes: the durable tasks of this process's store, for a
\* tick without the one-shots that are due.
Snapshot(p) ==
  Durable \cap (IF lock[p].op = "pop" THEN mem[p] \ (lock[p].tasks \cap Once) ELSE mem[p])

Persist(p) ==
  LET op == lock[p].op
      tasks == lock[p].tasks
  IN /\ op # "none"
     /\ file' = Snapshot(p)
     /\ lock' = [lock EXCEPT ![p] = Free]
     /\ IF op = "pop" THEN Take(p, tasks) ELSE UNCHANGED <<mem, due, taken>>
     /\ promised' = IF op = "create" THEN promised \cup tasks ELSE promised
     /\ deleted' = IF op = "delete" THEN deleted \cup tasks ELSE deleted
     /\ UNCHANGED <<loaded, old, known, runs, refused, overlap>>

\* The write fails before the rename: a creation and a deletion are undone, a
\* tick keeps its durable one-shots for later.
PersistFails(p) ==
  LET op == lock[p].op
      tasks == lock[p].tasks
  IN /\ op # "none"
     /\ lock' = [lock EXCEPT ![p] = Free]
     /\ \/ /\ op = "create"
           /\ mem' = [mem EXCEPT ![p] = @ \ tasks]
           /\ refused' = refused \cup tasks
           /\ UNCHANGED <<due, taken>>
        \/ /\ op = "delete"
           /\ mem' = [mem EXCEPT ![p] = @ \cup tasks]
           /\ UNCHANGED <<due, taken, refused>>
        \/ op = "pop" /\ Take(p, tasks \ Once) /\ UNCHANGED refused
     /\ UNCHANGED <<file, loaded, old, known, runs, promised, deleted, overlap>>

\* The scheduler spawns the query of a due task, without the store's lock.
Spawn(p, t) ==
  /\ t \in due[p]
  /\ due' = [due EXCEPT ![p] = @ \ {t}]
  /\ runs' = [runs EXCEPT ![t] = @ + 1]
  /\ UNCHANGED <<file, mem, loaded, lock, old, known, reports, taken, overlap>>

-----------------------------------------------------------------------------
\* The process ends, by its own will or not: what it had in memory is lost.
Exit(p) ==
  /\ loaded[p]
  /\ loaded' = [loaded EXCEPT ![p] = FALSE]
  /\ mem' = [mem EXCEPT ![p] = {}]
  /\ lock' = [lock EXCEPT ![p] = Free]
  /\ due' = [due EXCEPT ![p] = {}]
  /\ UNCHANGED <<file, old, known, runs, reports, taken, overlap>>

\* Seven days pass.
Ages(t) ==
  /\ t \in known \ old
  /\ old' = old \cup {t}
  /\ UNCHANGED <<file, stores, known, runs, reports, taken, overlap>>

CronStep(p) ==
  \/ Load(p)
  \/ \E t \in Task : Create(p, t) \/ Delete(p, t) \/ Spawn(p, t)
  \/ \E tasks \in SUBSET Task : Tick(p, tasks)
  \/ Persist(p)
  \/ PersistFails(p)
  \/ Exit(p)

CronNext == (\E p \in Proc : CronStep(p)) \/ (\E t \in Task : Ages(t))

CronSpec == CronInit /\ [][CronNext]_cronVars

-----------------------------------------------------------------------------
CronTypeOK ==
  /\ file \subseteq Durable
  /\ mem \in [Proc -> SUBSET Task]
  /\ loaded \in [Proc -> BOOLEAN]
  /\ lock \in [Proc -> [op : {"none", "create", "delete", "pop"}, tasks : SUBSET Task]]
  /\ due \in [Proc -> SUBSET Task]
  /\ known \subseteq Task /\ old \subseteq known
  /\ runs \in [Task -> Nat]
  /\ promised \subseteq known /\ deleted \subseteq known
  /\ refused \subseteq known /\ taken \subseteq known \cap OneShot
  /\ overlap \in BOOLEAN

\* No store outgrows its limit, though a file is taken in whole and a deletion
\* that could not be written puts its task back.
Capped ==
  /\ Cardinality(file) <= MaxTasks
  /\ \A p \in Proc : Cardinality(mem[p] \cup lock[p].tasks) <= MaxTasks

\* A creation that was reported as failed is undone for good: the task is in
\* no store and no process runs it, whichever process writes the file in
\* between (the rollback at cron.rs:378).
RefusedNeverRuns ==
  \A t \in refused : runs[t] = 0 /\ \A p \in Proc : t \notin mem[p] \cup due[p]

\* A one-shot is spawned at most once, through every crash and failed write,
\* if no two processes have used the file at the same time.  The removal is on
\* file before the task is handed out (pop_due_tasks).
FiresOnce == ~overlap => \A t \in OneShot : runs[t] <= 1

\* If no two processes have overlapped, what CronDelete reported as deleted
\* comes back neither in a store nor, with the next process, from the file; and
\* what CronCreate reported as persisted is on file until it is deleted,
\* expires or is taken by a tick.
ReportsHold ==
  ~overlap =>
    /\ \A t \in deleted : t \notin file /\ \A p \in Proc : t \notin mem[p]
    /\ promised \ (deleted \cup old \cup taken) \subseteq file

-----------------------------------------------------------------------------
\* The parts of the inductive invariant.

\* Nothing anywhere holds the task, nothing ever ran it.
Away(t) ==
  /\ t \notin file /\ runs[t] = 0
  /\ \A p \in Proc : t \notin mem[p] /\ t \notin due[p] /\ t \notin lock[p].tasks

UnknownAreAway == \A t \in Task : t \notin known \/ t \in refused => Away(t)

\* A task being created is with its creator only.
NewIsPrivate ==
  \A p \in Proc : lock[p].op = "create" =>
    \A t \in lock[p].tasks :
      /\ t \notin file /\ runs[t] = 0 /\ t \in known
      /\ \A q \in Proc : t \notin due[q] /\ (q # p => t \notin mem[q] /\ t \notin lock[q].tasks)

WritesFit ==
  \A p \in Proc :
    /\ lock[p].op = "none" => lock[p] = Free
    /\ lock[p].op = "create" => lock[p].tasks \subseteq mem[p] \cap Durable
    /\ lock[p].op = "delete" => lock[p].tasks \subseteq Durable /\ lock[p].tasks \cap mem[p] = {}
    /\ lock[p].op = "pop" => lock[p].tasks \subseteq mem[p] /\ due[p] = {}
    /\ ~loaded[p] => mem[p] = {} /\ lock[p] = Free /\ due[p] = {}

\* The four below hold as long as one process at a time has used the file.
OneAtATime == \A p, q \in Proc : loaded[p] /\ loaded[q] => p = q

TakenIsGone ==
  /\ \A t \in taken : t \notin file /\ \A p \in Proc : t \notin mem[p] /\ t \notin lock[p].tasks
  /\ \A t \in OneShot : runs[t] <= 1 /\ (runs[t] = 1 => t \in taken)
  /\ \A p \in Proc : \A t \in OneShot \cap due[p] : t \in taken /\ runs[t] = 0

DeletedIsGone ==
  \A t \in deleted : t \notin file /\ \A p \in Proc : t \notin mem[p] /\ t \notin lock[p].tasks

FileIsInStore ==
  /\ promised \ (deleted \cup old \cup taken) \subseteq file
  /\ \A p \in Proc : loaded[p] =>
       file \ old \subseteq mem[p] \cup (IF lock[p].op = "delete" THEN lock[p].tasks ELSE {})

\* The inductive invariant: what no task in or out of the stores can be, for
\* any processes, and the fate of one-shots and reports for one at a time.
CronIInv ==
  /\ CronTypeOK
  /\ Capped
  /\ UnknownAreAway
  /\ NewIsPrivate
  /\ WritesFit
  /\ ~overlap => OneAtATime /\ TakenIsGone /\ DeletedIsGone /\ FileIsInStore

=============================================================================
