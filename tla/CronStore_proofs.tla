--------------------------- MODULE CronStore_proofs ---------------------------
(***************************************************************************)
(* Proofs about the scheduled tasks of CronStore: its inductive invariant, *)
(* and from it the safety of one-shots and of what the tools reported.     *)
(***************************************************************************)
EXTENDS CronStore, FiniteSetTheorems, TLAPS

\* What a lock that is free and what the stores of known tasks look like.
LEMMA Shapes ==
  ASSUME CronTypeOK, UnknownAreAway, WritesFit
  PROVE  /\ Free.op = "none" /\ Free.tasks = {}
         /\ Free \in [op : {"none", "create", "delete", "pop"}, tasks : SUBSET Task]
         /\ \A p \in Proc : mem[p] \subseteq known /\ lock[p].tasks \subseteq known
                            /\ due[p] \subseteq known
BY DEF CronTypeOK, UnknownAreAway, WritesFit, Away, Free

\* What a tick does to the stores is of their types.
LEMMA TakeTypes ==
  ASSUME CronTypeOK, CronAssumption, NEW p \in Proc, NEW tasks \in SUBSET Task, tasks \subseteq known,
         Take(p, tasks)
  PROVE  /\ mem' \in [Proc -> SUBSET Task]
         /\ due' \in [Proc -> SUBSET Task]
         /\ taken' \subseteq known \cap OneShot
<1>1. mem' \in [Proc -> SUBSET Task] BY DEF CronTypeOK, Take
<1>2. due' \in [Proc -> SUBSET Task] BY DEF CronTypeOK, Take
<1>3. taken' \subseteq known \cap OneShot BY DEF CronTypeOK, Take
<1> QED BY <1>1, <1>2, <1>3

\* The type invariant is preserved by every step.
LEMMA TypeStep ==
  ASSUME CronTypeOK, UnknownAreAway, WritesFit, CronAssumption, [CronNext]_cronVars
  PROVE  CronTypeOK'
<1> USE CronAssumption, Shapes DEF CronTypeOK, stores, reports
<1>1. ASSUME NEW p \in Proc, Load(p) PROVE CronTypeOK'
  BY <1>1 DEF Load
<1>2. ASSUME NEW p \in Proc, NEW t \in Task, Create(p, t) PROVE CronTypeOK'
  BY <1>2 DEF Create, Ready, Write
<1>3. ASSUME NEW p \in Proc, NEW t \in Task, Delete(p, t) PROVE CronTypeOK'
  BY <1>3 DEF Delete, Ready, Write
<1>4. ASSUME NEW p \in Proc, NEW t \in Task, Spawn(p, t) PROVE CronTypeOK'
  BY <1>4 DEF Spawn
<1>5. ASSUME NEW p \in Proc, NEW tasks \in SUBSET Task, Tick(p, tasks) PROVE CronTypeOK'
  <2>1. CASE tasks \cap Once # {}
    <3>1. lock' \in [Proc -> [op : {"none", "create", "delete", "pop"}, tasks : SUBSET Task]]
      BY <1>5, <2>1 DEF Tick, Write
    <3> QED BY <1>5, <2>1, <3>1 DEF Tick
  <2>2. CASE tasks \cap Once = {}
    <3>1. tasks \subseteq known /\ Take(p, tasks) BY <1>5, <2>2 DEF Tick
    <3> QED BY <1>5, <2>2, <3>1, TakeTypes DEF Tick
  <2> QED BY <2>1, <2>2
<1>6. ASSUME NEW p \in Proc, Persist(p) PROVE CronTypeOK'
  <2> DEFINE tasks == lock[p].tasks
  <2>1. tasks \subseteq known BY Shapes
  <2>2. lock' \in [Proc -> [op : {"none", "create", "delete", "pop"}, tasks : SUBSET Task]]
    BY <1>6 DEF Persist
  <2>3. file' \subseteq Durable BY <1>6 DEF Persist, Snapshot
  <2>4. CASE lock[p].op = "pop"
    <3>1. Take(p, tasks) BY <1>6, <2>4 DEF Persist
    <3> QED BY <1>6, <2>1, <2>2, <2>3, <2>4, <3>1, TakeTypes DEF Persist
  <2>5. CASE lock[p].op # "pop"
    BY <1>6, <2>1, <2>2, <2>3, <2>5 DEF Persist
  <2> QED BY <2>4, <2>5
<1>7. ASSUME NEW p \in Proc, PersistFails(p) PROVE CronTypeOK'
  <2> DEFINE tasks == lock[p].tasks
  <2>1. tasks \subseteq known BY Shapes
  <2>2. lock' \in [Proc -> [op : {"none", "create", "delete", "pop"}, tasks : SUBSET Task]]
    BY <1>7 DEF PersistFails
  <2>3. CASE lock[p].op = "pop"
    <3>1. Take(p, tasks \ Once) BY <1>7, <2>3 DEF PersistFails
    <3>2. tasks \ Once \in SUBSET Task /\ tasks \ Once \subseteq known BY <2>1
    <3>3. mem' \in [Proc -> SUBSET Task] /\ due' \in [Proc -> SUBSET Task] /\ taken' \subseteq known \cap OneShot
      BY <3>1, <3>2, TakeTypes
    <3> QED BY <1>7, <2>2, <2>3, <3>3 DEF PersistFails
  <2>4. CASE lock[p].op = "create"
    BY <1>7, <2>1, <2>2, <2>4 DEF PersistFails
  <2>5. CASE lock[p].op = "delete"
    BY <1>7, <2>1, <2>2, <2>5 DEF PersistFails
  <2> QED BY <1>7, <2>3, <2>4, <2>5 DEF PersistFails
<1>8. ASSUME NEW p \in Proc, Exit(p) PROVE CronTypeOK'
  BY <1>8 DEF Exit
<1>9. ASSUME NEW t \in Task, Ages(t) PROVE CronTypeOK'
  BY <1>9 DEF Ages
<1>10. ASSUME UNCHANGED cronVars PROVE CronTypeOK'
  BY <1>10 DEF cronVars
<1> QED BY <1>1, <1>2, <1>3, <1>4, <1>5, <1>6, <1>7, <1>8, <1>9, <1>10 DEF CronNext, CronStep

\* Tasks nobody was told of, and tasks that were refused, stay out of every
\* store, and a task being created stays with its creator.
LEMMA AwayStep ==
  ASSUME CronTypeOK, UnknownAreAway, NewIsPrivate, WritesFit, CronAssumption, [CronNext]_cronVars
  PROVE  UnknownAreAway' /\ NewIsPrivate'
<1> USE CronAssumption, Shapes DEF CronTypeOK, UnknownAreAway, NewIsPrivate, WritesFit, Away, stores, reports
<1>1. ASSUME NEW p \in Proc, Load(p) PROVE UnknownAreAway' /\ NewIsPrivate'
  BY <1>1 DEF Load
<1>2. ASSUME NEW p \in Proc, NEW t \in Task, Create(p, t) PROVE UnknownAreAway' /\ NewIsPrivate'
  BY <1>2 DEF Create, Ready, Write
<1>3. ASSUME NEW p \in Proc, NEW t \in Task, Delete(p, t) PROVE UnknownAreAway' /\ NewIsPrivate'
  BY <1>3 DEF Delete, Ready, Write
<1>4. ASSUME NEW p \in Proc, NEW t \in Task, Spawn(p, t) PROVE UnknownAreAway' /\ NewIsPrivate'
  BY <1>4 DEF Spawn
<1>5. ASSUME NEW p \in Proc, NEW tasks \in SUBSET Task, Tick(p, tasks)
      PROVE UnknownAreAway' /\ NewIsPrivate'
  BY <1>5 DEF Tick, Ready, Write, Take
<1>6. ASSUME NEW p \in Proc, Persist(p) PROVE UnknownAreAway' /\ NewIsPrivate'
  BY <1>6 DEF Persist, Snapshot, Take
<1>7. ASSUME NEW p \in Proc, PersistFails(p) PROVE UnknownAreAway' /\ NewIsPrivate'
  BY <1>7 DEF PersistFails, Take
<1>8. ASSUME NEW p \in Proc, Exit(p) PROVE UnknownAreAway' /\ NewIsPrivate'
  BY <1>8 DEF Exit
<1>9. ASSUME NEW t \in Task, Ages(t) PROVE UnknownAreAway' /\ NewIsPrivate'
  BY <1>9 DEF Ages
<1>10. ASSUME UNCHANGED cronVars PROVE UnknownAreAway' /\ NewIsPrivate'
  BY <1>10 DEF cronVars
<1> QED BY <1>1, <1>2, <1>3, <1>4, <1>5, <1>6, <1>7, <1>8, <1>9, <1>10 DEF CronNext, CronStep

\* A write is of the kind its tasks say, and a process that has not loaded the
\* store holds nothing.
LEMMA WritesStep ==
  ASSUME CronTypeOK, UnknownAreAway, NewIsPrivate, WritesFit, CronAssumption, [CronNext]_cronVars
  PROVE  WritesFit'
<1> USE CronAssumption, Shapes DEF CronTypeOK, WritesFit, stores, reports
<1>1. ASSUME NEW p \in Proc, Load(p) PROVE WritesFit'
  BY <1>1 DEF Load
<1>2. ASSUME NEW p \in Proc, NEW t \in Task, Create(p, t) PROVE WritesFit'
  BY <1>2 DEF Create, Ready, Write
<1>3. ASSUME NEW p \in Proc, NEW t \in Task, Delete(p, t) PROVE WritesFit'
  BY <1>3 DEF Delete, Ready, Write
<1>4. ASSUME NEW p \in Proc, NEW t \in Task, Spawn(p, t) PROVE WritesFit'
  BY <1>4 DEF Spawn
<1>5. ASSUME NEW p \in Proc, NEW tasks \in SUBSET Task, Tick(p, tasks) PROVE WritesFit'
  BY <1>5 DEF Tick, Ready, Write, Take
<1>6. ASSUME NEW p \in Proc, Persist(p) PROVE WritesFit'
  BY <1>6 DEF Persist, Take
<1>7. ASSUME NEW p \in Proc, PersistFails(p) PROVE WritesFit'
  BY <1>7 DEF PersistFails, Take
<1>8. ASSUME NEW p \in Proc, Exit(p) PROVE WritesFit'
  BY <1>8 DEF Exit
<1>9. ASSUME NEW t \in Task, Ages(t) PROVE WritesFit'
  BY <1>9 DEF Ages
<1>10. ASSUME UNCHANGED cronVars PROVE WritesFit'
  BY <1>10 DEF cronVars
<1> QED BY <1>1, <1>2, <1>3, <1>4, <1>5, <1>6, <1>7, <1>8, <1>9, <1>10 DEF CronNext, CronStep

\* What holds while one process at a time has used the file.
Alone == OneAtATime /\ TakenIsGone /\ DeletedIsGone /\ FileIsInStore

\* It survives every step after which no two processes have overlapped.
LEMMA AloneStep ==
  ASSUME CronTypeOK, UnknownAreAway, NewIsPrivate, WritesFit, ~overlap => Alone, ~overlap',
         CronAssumption, [CronNext]_cronVars
  PROVE  Alone'
<1>0. ~overlap
  BY DEF CronNext, CronStep, Load, Create, Delete, Spawn, Tick, Persist, PersistFails, Exit, Ages, cronVars
<1> USE CronAssumption, Shapes, <1>0
    DEF CronTypeOK, WritesFit, UnknownAreAway, NewIsPrivate, Away, stores, reports,
        Alone, OneAtATime, TakenIsGone, DeletedIsGone, FileIsInStore
<1>a. \A q \in Proc : \A t \in OneShot \cap mem[q] : runs[t] = 0
  <2> SUFFICES ASSUME NEW q \in Proc, NEW t \in OneShot, t \in mem[q] PROVE runs[t] = 0
    OBVIOUS
  <2>1. runs[t] \in Nat /\ runs[t] <= 1 /\ runs[t] # 1
    OBVIOUS
  <2> QED BY <2>1
<1>1. ASSUME NEW p \in Proc, Load(p) PROVE Alone'
  BY <1>1 DEF Load
<1>2. ASSUME NEW p \in Proc, NEW t \in Task, Create(p, t) PROVE Alone'
  BY <1>2 DEF Create, Ready, Write
<1>3. ASSUME NEW p \in Proc, NEW t \in Task, Delete(p, t) PROVE Alone'
  BY <1>3 DEF Delete, Ready, Write
<1>4. ASSUME NEW p \in Proc, NEW t \in Task, Spawn(p, t) PROVE Alone'
  BY <1>4 DEF Spawn
<1>5. ASSUME NEW p \in Proc, NEW tasks \in SUBSET Task, Tick(p, tasks) PROVE Alone'
  <2>1. loaded[p] /\ lock[p] = Free /\ due[p] = {} /\ tasks \subseteq mem[p]
    BY <1>5 DEF Tick, Ready
  <2>2. CASE tasks \cap Once # {}
    <3>1. /\ lock' = [lock EXCEPT ![p] = [op |-> "pop", tasks |-> tasks]]
          /\ UNCHANGED <<file, mem, due, taken, loaded, runs, old, promised, deleted>>
      BY <1>5, <2>2 DEF Tick, Write
    <3>2. OneAtATime' BY <3>1
    <3>3. TakenIsGone' BY <2>1, <3>1
    <3>4. DeletedIsGone' BY <2>1, <3>1
    <3>5. FileIsInStore' BY <2>1, <3>1
    <3> QED BY <3>2, <3>3, <3>4, <3>5
  <2>3. CASE tasks \cap Once = {}
    <3>1. Take(p, tasks) /\ UNCHANGED <<file, lock, loaded, runs, old, promised, deleted>>
      BY <1>5, <2>3 DEF Tick
    <3>2. OneAtATime' BY <3>1
    <3>3. TakenIsGone'
      <4>1. \A t \in taken' : t \notin file' /\ \A q \in Proc : t \notin mem'[q] /\ t \notin lock'[q].tasks
        BY <2>1, <2>3, <3>1 DEF Take, Once
      <4>2. \A t \in OneShot : runs'[t] <= 1 /\ (runs'[t] = 1 => t \in taken')
        BY <3>1 DEF Take
      <4>3. \A q \in Proc : \A t \in OneShot \cap due'[q] : t \in taken' /\ runs'[t] = 0
        <5>1. due' = [due EXCEPT ![p] = tasks] /\ runs' = runs BY <3>1 DEF Take
        <5>2. tasks \cap OneShot \subseteq taken' /\ taken \subseteq taken' BY <3>1 DEF Take
        <5>3. tasks \subseteq mem[p] BY <2>1
        <5> QED BY <1>a, <5>1, <5>2, <5>3
      <4> QED BY <4>1, <4>2, <4>3
    <3>4. DeletedIsGone' BY <3>1 DEF Take
    <3>5. FileIsInStore'
      BY <2>1, <2>3, <3>1 DEF Take, Once
    <3> QED BY <3>2, <3>3, <3>4, <3>5
  <2> QED BY <2>2, <2>3
<1>6. ASSUME NEW p \in Proc, Persist(p) PROVE Alone'
  <2> DEFINE tasks == lock[p].tasks
  <2>1. /\ loaded[p] /\ lock[p].op # "none" /\ file' = Snapshot(p)
        /\ lock' = [lock EXCEPT ![p] = Free]
        /\ UNCHANGED <<loaded, old, runs>>
    BY <1>6 DEF Persist
  <2>2. \A q \in Proc : q # p => mem[q] = {} /\ lock[q] = Free /\ due[q] = {}
    BY <2>1
  <2>3. CASE lock[p].op = "pop"
    <3>1. Take(p, tasks) /\ UNCHANGED <<promised, deleted>> BY <1>6, <2>3 DEF Persist
    <3>2. file' = Durable \cap (mem[p] \ (tasks \cap Once)) BY <2>1, <2>3 DEF Snapshot
    <3>3. OneAtATime' BY <2>1
    <3>4. TakenIsGone'
      <4>1. \A t \in taken' : t \notin file' /\ \A q \in Proc : t \notin mem'[q] /\ t \notin lock'[q].tasks
        BY <2>1, <2>2, <2>3, <3>1, <3>2 DEF Take, Once
      <4>2. \A t \in OneShot : runs'[t] <= 1 /\ (runs'[t] = 1 => t \in taken')
        BY <2>1, <3>1 DEF Take
      <4>3. \A q \in Proc : \A t \in OneShot \cap due'[q] : t \in taken' /\ runs'[t] = 0
        <5>1. due' = [due EXCEPT ![p] = tasks] /\ runs' = runs BY <2>1, <3>1 DEF Take
        <5>2. tasks \cap OneShot \subseteq taken' /\ taken \subseteq taken' BY <3>1 DEF Take
        <5>3. tasks \subseteq mem[p] BY <2>3
        <5> QED BY <1>a, <5>1, <5>2, <5>3
      <4> QED BY <4>1, <4>2, <4>3
    <3>5. DeletedIsGone' BY <2>1, <2>2, <2>3, <3>1, <3>2 DEF Take
    <3>6. FileIsInStore' BY <2>1, <2>2, <2>3, <3>1, <3>2 DEF Take, Once
    <3> QED BY <3>3, <3>4, <3>5, <3>6
  <2>4. CASE lock[p].op = "create"
    BY <1>6, <2>1, <2>2, <2>4 DEF Persist, Snapshot
  <2>5. CASE lock[p].op = "delete"
    BY <1>6, <2>1, <2>2, <2>5 DEF Persist, Snapshot
  <2> QED BY <2>1, <2>3, <2>4, <2>5
<1>7. ASSUME NEW p \in Proc, PersistFails(p) PROVE Alone'
  <2> DEFINE tasks == lock[p].tasks
  <2>1. /\ loaded[p] /\ lock[p].op # "none"
        /\ lock' = [lock EXCEPT ![p] = Free]
        /\ UNCHANGED <<file, loaded, old, runs, promised, deleted>>
    BY <1>7 DEF PersistFails
  <2>2. \A q \in Proc : q # p => mem[q] = {} /\ lock[q] = Free /\ due[q] = {}
    BY <2>1
  <2>3. CASE lock[p].op = "pop"
    <3>1. Take(p, tasks \ Once) BY <1>7, <2>3 DEF PersistFails
    <3>3. OneAtATime' BY <2>1
    <3>4. TakenIsGone'
      <4>1. \A t \in taken' : t \notin file' /\ \A q \in Proc : t \notin mem'[q] /\ t \notin lock'[q].tasks
        BY <2>1, <2>2, <2>3, <3>1 DEF Take, Once
      <4>2. \A t \in OneShot : runs'[t] <= 1 /\ (runs'[t] = 1 => t \in taken')
        BY <2>1, <3>1 DEF Take
      <4>3. \A q \in Proc : \A t \in OneShot \cap due'[q] : t \in taken' /\ runs'[t] = 0
        <5>1. due' = [due EXCEPT ![p] = tasks \ Once] /\ runs' = runs BY <2>1, <3>1 DEF Take
        <5>2. (tasks \ Once) \cap OneShot \subseteq taken' /\ taken \subseteq taken' BY <3>1 DEF Take
        <5>3. tasks \ Once \subseteq mem[p] BY <2>3
        <5> QED BY <1>a, <5>1, <5>2, <5>3
      <4> QED BY <4>1, <4>2, <4>3
    <3>5. DeletedIsGone' BY <2>1, <2>2, <2>3, <3>1 DEF Take
    <3>6. FileIsInStore' BY <2>1, <2>2, <2>3, <3>1 DEF Take, Once
    <3> QED BY <3>3, <3>4, <3>5, <3>6
  <2>4. CASE lock[p].op = "create"
    BY <1>7, <2>1, <2>2, <2>4 DEF PersistFails
  <2>5. CASE lock[p].op = "delete"
    BY <1>7, <2>1, <2>2, <2>5 DEF PersistFails
  <2> QED BY <2>1, <2>3, <2>4, <2>5
<1>8. ASSUME NEW p \in Proc, Exit(p) PROVE Alone'
  BY <1>8 DEF Exit
<1>9. ASSUME NEW t \in Task, Ages(t) PROVE Alone'
  BY <1>9 DEF Ages
<1>10. ASSUME UNCHANGED cronVars PROVE Alone'
  BY <1>10 DEF cronVars
<1> QED BY <1>1, <1>2, <1>3, <1>4, <1>5, <1>6, <1>7, <1>8, <1>9, <1>10 DEF CronNext, CronStep

\* The limit of the store, through loads, rollbacks and other processes' writes.
LEMMA CapStep ==
  ASSUME CronTypeOK, WritesFit, Capped, CronAssumption, [CronNext]_cronVars
  PROVE  Capped'
<1> DEFINE Room(S) == Cardinality(S) <= MaxTasks
<1>1. ASSUME NEW S \in SUBSET Task, Room(S), NEW R \in SUBSET S PROVE Room(R)
  <2>1. IsFiniteSet(S) BY FS_Subset DEF CronAssumption
  <2>2. IsFiniteSet(R) /\ Cardinality(R) <= Cardinality(S) BY <2>1, FS_Subset
  <2>3. Cardinality(R) \in Nat /\ Cardinality(S) \in Nat BY <2>1, <2>2, FS_CardinalityType
  <2> QED BY <1>1, <2>2, <2>3 DEF CronAssumption
<1>2. ASSUME NEW S \in SUBSET Task, Cardinality(S) < MaxTasks, NEW t \in Task PROVE Room(S \cup {t})
  <2>1. IsFiniteSet(S) BY FS_Subset DEF CronAssumption
  <2>2. Cardinality(S \cup {t}) = IF t \in S THEN Cardinality(S) ELSE Cardinality(S) + 1
    BY <2>1, FS_AddElement
  <2>3. Cardinality(S) \in Nat BY <2>1, FS_CardinalityType
  <2> QED BY <1>2, <2>2, <2>3 DEF CronAssumption
<1>3. SUFFICES ASSUME \A S \in SUBSET Task : Room(S) => \A R \in SUBSET S : Room(R),
                      \A S \in SUBSET Task, t \in Task : Cardinality(S) < MaxTasks => Room(S \cup {t})
               PROVE Capped'
  BY <1>1, <1>2
<1>4. /\ file \in SUBSET Task /\ Room(file)
      /\ \A p \in Proc : Room(mem[p] \cup lock[p].tasks) /\ mem[p] \cup lock[p].tasks \in SUBSET Task
      /\ Free.tasks = {}
  BY CronAssumption DEF Capped, CronTypeOK, Free
<1>5. \A p \in Proc : Room(mem[p]) /\ mem[p] \in SUBSET Task
  BY <1>3, <1>4
<1> SUFFICES Room(file') /\ \A p \in Proc : Room(mem'[p] \cup lock'[p].tasks)
  BY DEF Capped
<1> HIDE DEF Room
<1> USE DEF stores, reports
<1>6. ASSUME NEW p \in Proc, Load(p) PROVE Room(file') /\ \A q \in Proc : Room(mem'[q] \cup lock'[q].tasks)
  <2>1. file' = file /\ lock[p].tasks = {} /\ \A q \in Proc : lock'[q] = lock[q] /\ (q # p => mem'[q] = mem[q])
    BY <1>4, <1>6 DEF Load, WritesFit, CronTypeOK
  <2>2. mem'[p] \cup lock'[p].tasks = file \ old BY <1>6, <2>1 DEF Load, CronTypeOK
  <2> QED BY <1>3, <1>4, <2>1, <2>2
<1>7. ASSUME NEW p \in Proc, NEW t \in Task, Create(p, t)
      PROVE Room(file') /\ \A q \in Proc : Room(mem'[q] \cup lock'[q].tasks)
  <2>1. file' = file /\ \A q \in Proc : q # p => lock'[q] = lock[q] /\ mem'[q] = mem[q]
    BY <1>7 DEF Create, Write, CronTypeOK
  <2>2. mem'[p] \cup lock'[p].tasks = mem[p] \cup {t} BY <1>4, <1>7 DEF Create, Ready, Write, CronTypeOK
  <2>3. Cardinality(mem[p]) < MaxTasks BY <1>7 DEF Create
  <2>4. Room(mem[p] \cup {t}) BY <1>3, <1>5, <2>3
  <2> QED BY <1>4, <2>1, <2>2, <2>4
<1>8. ASSUME NEW p \in Proc, NEW t \in Task, Delete(p, t)
      PROVE Room(file') /\ \A q \in Proc : Room(mem'[q] \cup lock'[q].tasks)
  <2>1. file' = file /\ \A q \in Proc : q # p => lock'[q] = lock[q] /\ mem'[q] = mem[q]
    BY <1>8 DEF Delete, Write, CronTypeOK
  <2>2. mem'[p] \cup lock'[p].tasks \in SUBSET mem[p]
    BY <1>4, <1>8 DEF Delete, Ready, Write, CronTypeOK
  <2> QED BY <1>3, <1>4, <1>5, <2>1, <2>2
<1>9. ASSUME NEW p \in Proc, NEW tasks \in SUBSET Task, Tick(p, tasks)
      PROVE Room(file') /\ \A q \in Proc : Room(mem'[q] \cup lock'[q].tasks)
  <2>1. file' = file /\ \A q \in Proc : q # p => lock'[q] = lock[q] /\ mem'[q] = mem[q]
    BY <1>9 DEF Tick, Write, Take, CronTypeOK
  <2>2. mem'[p] \cup lock'[p].tasks \in SUBSET mem[p]
    <3>1. CASE tasks \cap Once # {} BY <1>9, <3>1 DEF Tick, Ready, Write, CronTypeOK
    <3>2. CASE tasks \cap Once = {} BY <1>4, <1>9, <3>2 DEF Tick, Ready, Take, CronTypeOK
    <3> QED BY <3>1, <3>2
  <2> QED BY <1>3, <1>4, <1>5, <2>1, <2>2
<1>10. ASSUME NEW p \in Proc, Persist(p) PROVE Room(file') /\ \A q \in Proc : Room(mem'[q] \cup lock'[q].tasks)
  <2>1. \A q \in Proc : q # p => lock'[q] = lock[q] /\ mem'[q] = mem[q]
    BY <1>10 DEF Persist, Take, CronTypeOK
  <2>2. mem'[p] \cup lock'[p].tasks \in SUBSET mem[p] BY <1>4, <1>10 DEF Persist, Take, CronTypeOK
  <2>3. file' \in SUBSET mem[p] BY <1>10 DEF Persist, Snapshot
  <2> QED BY <1>3, <1>4, <1>5, <2>1, <2>2, <2>3
<1>11. ASSUME NEW p \in Proc, PersistFails(p)
       PROVE Room(file') /\ \A q \in Proc : Room(mem'[q] \cup lock'[q].tasks)
  <2>1. file' = file /\ \A q \in Proc : q # p => lock'[q] = lock[q] /\ mem'[q] = mem[q]
    BY <1>11 DEF PersistFails, Take, CronTypeOK
  <2>2. mem'[p] \cup lock'[p].tasks \in SUBSET (mem[p] \cup lock[p].tasks)
    BY <1>4, <1>11 DEF PersistFails, Take, CronTypeOK
  <2> QED BY <1>3, <1>4, <1>5, <2>1, <2>2
<1>12. ASSUME NEW p \in Proc, Exit(p) PROVE Room(file') /\ \A q \in Proc : Room(mem'[q] \cup lock'[q].tasks)
  <2>1. file' = file /\ \A q \in Proc : q # p => lock'[q] = lock[q] /\ mem'[q] = mem[q]
    BY <1>12 DEF Exit, CronTypeOK
  <2>2. mem'[p] \cup lock'[p].tasks \in SUBSET mem[p] BY <1>4, <1>12 DEF Exit, CronTypeOK
  <2> QED BY <1>3, <1>4, <1>5, <2>1, <2>2
<1>13. ASSUME UNCHANGED <<file, mem, lock>> PROVE Room(file') /\ \A q \in Proc : Room(mem'[q] \cup lock'[q].tasks)
  BY <1>4, <1>13
<1>14. ASSUME NEW p \in Proc, NEW t \in Task, Spawn(p, t) PROVE UNCHANGED <<file, mem, lock>>
  BY <1>14 DEF Spawn
<1>15. ASSUME NEW t \in Task, Ages(t) PROVE UNCHANGED <<file, mem, lock>>
  BY <1>15 DEF Ages
<1>16. ASSUME UNCHANGED cronVars PROVE UNCHANGED <<file, mem, lock>>
  BY <1>16 DEF cronVars
<1> QED
  BY <1>6, <1>7, <1>8, <1>9, <1>10, <1>11, <1>12, <1>13, <1>14, <1>15, <1>16 DEF CronNext, CronStep

-----------------------------------------------------------------------------
\* Nothing is stored, running or reported at first.
LEMMA CronStarts == ASSUME CronAssumption, CronInit PROVE CronIInv
<1>1. CronTypeOK BY DEF CronInit, CronAssumption, CronTypeOK, Free
<1>2. Capped
  <2>1. Cardinality({}) = 0 /\ 0 <= MaxTasks BY FS_EmptySet DEF CronAssumption
  <2> QED BY <2>1 DEF CronInit, Capped, Free
<1>3. UnknownAreAway /\ NewIsPrivate /\ WritesFit
  BY DEF CronInit, UnknownAreAway, NewIsPrivate, WritesFit, Away, Free
<1>4. Alone
  BY CronAssumption DEF CronInit, Alone, OneAtATime, TakenIsGone, DeletedIsGone, FileIsInStore, Free
<1> QED BY <1>1, <1>2, <1>3, <1>4 DEF CronIInv, Alone

\* The inductive invariant holds in every state of every instance: any
\* processes, any tasks, any limit.
THEOREM CronInvariant == CronAssumption => (CronSpec => []CronIInv)
<1> SUFFICES ASSUME CronAssumption PROVE CronSpec => []CronIInv
  OBVIOUS
<1>1. CronInit => CronIInv BY CronStarts
<1>2. CronIInv /\ [CronNext]_cronVars => CronIInv'
  <2> SUFFICES ASSUME CronIInv, [CronNext]_cronVars PROVE CronIInv'
    OBVIOUS
  <2> USE DEF CronIInv
  <2>1. CronTypeOK' BY TypeStep
  <2>2. Capped' BY CapStep
  <2>3. UnknownAreAway' /\ NewIsPrivate' BY AwayStep
  <2>4. WritesFit' BY WritesStep
  <2>5. ~overlap' => Alone' BY AloneStep DEF Alone
  <2> QED BY <2>1, <2>2, <2>3, <2>4, <2>5 DEF Alone
<1> QED BY <1>1, <1>2, PTL DEF CronSpec

\* A creation that was reported as failed never runs, however many processes
\* write the file.
THEOREM RefusedSafe == CronAssumption => (CronSpec => []RefusedNeverRuns)
<1>1. CronIInv => RefusedNeverRuns
  BY DEF CronIInv, CronTypeOK, UnknownAreAway, Away, RefusedNeverRuns, CronAssumption
<1> QED BY <1>1, CronInvariant, PTL

\* A one-shot runs at most once through crashes, restarts and failed writes,
\* as long as one process at a time uses the file.
THEOREM OneShotsFireOnce == CronAssumption => (CronSpec => []FiresOnce)
<1>1. CronIInv => FiresOnce
  BY DEF CronIInv, TakenIsGone, FiresOnce
<1> QED BY <1>1, CronInvariant, PTL

\* What the tools reported stays true as long as one process at a time uses
\* the file.
THEOREM ReportsStayTrue == CronAssumption => (CronSpec => []ReportsHold)
<1>1. CronIInv => ReportsHold
  BY DEF CronIInv, DeletedIsGone, FileIsInStore, ReportsHold
<1> QED BY <1>1, CronInvariant, PTL

=============================================================================
