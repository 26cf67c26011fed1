----------------------------- MODULE SyncProof -----------------------------
(***************************************************************************)
(* Proofs about the synchronization primitives and the applications that   *)
(* use them.                                                               *)
(***************************************************************************)
EXTENDS SyncApps, QueueOpsProof, FiniteSetTheorems

-----------------------------------------------------------------------------
(* The programs. *)

SemOps == {"hf_semwait", "hf_sempost"}
CondOps == {"hf_condwait", "hf_condsignal", "hf_condbroadcast"}
MtxOps == {"hf_mtxlock", "hf_mtxunlock", "filter_mtxlock", "filter_mtxunlock"}
TaskOps == SemOps \cup CondOps \cup MtxOps \cup {"_di", "_ei"} \cup (Statements \ {"idle"})

(* What an instruction of a task is, and of app_main(). *)
TaskInstr(i) ==
    /\ i.op \in TaskOps
    /\ i.op \in SemOps => i.obj \in Sems
    /\ i.op \in CondOps => i.obj \in Conds
    /\ i.op \in MtxOps => i.obj \in Mtxs

MainOps == {"hf_seminit", "hf_semdestroy", "hf_condinit", "hf_conddestroy", "hf_mtxinit",
            "filter_mtxinit", "start", "idle"}

MainInstr(i) ==
    /\ i.op \in MainOps
    /\ i.op \in {"hf_seminit", "hf_semdestroy"} => i.obj \in Sems
    /\ i.op = "hf_seminit" => i.value \in Int
    /\ i.op \in {"hf_condinit", "hf_conddestroy"} => i.obj \in Conds
    /\ i.op \in {"hf_mtxinit", "filter_mtxinit"} => i.obj \in Mtxs
    /\ i.when = "always"

TaskProgram(p) ==
    /\ Len(p) \in 2..13
    /\ \A k \in 1..Len(p) : TaskInstr(p[k]) /\ (k = Len(p) => p[k].when = "always")

MainProgram(p) ==
    /\ Len(p) \in 3..7
    /\ \A k \in 1..Len(p) : /\ MainInstr(p[k])
                            /\ p[k].op = "start" <=> k = Len(p) - 1
                            /\ p[k].op = "idle" <=> k = Len(p)

LEMMA TaskPrograms ==
    /\ TaskProgram(SemProducer) /\ TaskProgram(SemConsumer)
    /\ TaskProgram(CondProducer) /\ TaskProgram(CondConsumer)
    /\ TaskProgram(Reader) /\ TaskProgram(Writer)
    /\ TaskProgram(SpinTask) /\ TaskProgram(FilterTask)
    /\ TaskProgram(Waiter) /\ TaskProgram(Signaller)
    /\ TaskProgram(Mallocer) /\ TaskProgram(Spawner)
<1> USE AppsAssumption
<1> USE DEF TaskProgram, TaskInstr, Wait, Post, Do, Instr, Cond, SemOps, CondOps, MtxOps, TaskOps, Statements
<1>1. TaskProgram(SemProducer) BY DEF SemProducer
<1>2. TaskProgram(SemConsumer) BY DEF SemConsumer
<1>3. TaskProgram(CondProducer) BY DEF CondProducer
<1>4. TaskProgram(CondConsumer) BY DEF CondConsumer
<1>5. TaskProgram(Reader) BY DEF Reader
<1>6. TaskProgram(Writer) BY DEF Writer
<1>7. TaskProgram(SpinTask) /\ TaskProgram(FilterTask) BY DEF SpinTask, FilterTask
<1>8. TaskProgram(Waiter) /\ TaskProgram(Signaller) BY DEF Waiter, Signaller
<1>9. TaskProgram(Mallocer) /\ TaskProgram(Spawner) BY DEF Mallocer, Spawner
<1> QED
  BY <1>1, <1>2, <1>3, <1>4, <1>5, <1>6, <1>7, <1>8, <1>9

LEMMA MainPrograms ==
    /\ MainProgram(SemMain) /\ MainProgram(CondMain) /\ MainProgram(ReadersWritersMain)
    /\ MainProgram(MutexMain) /\ MainProgram(FilterMain) /\ MainProgram(Cond2Main)
<1> USE AppsAssumption, BufferAssumption
<1> USE DEF MainProgram, MainInstr, MainOps, Do, Instr, Init1, Launch
<1>1. MainProgram(SemMain) BY DEF SemMain
<1>2. MainProgram(CondMain) BY DEF CondMain
<1>3. MainProgram(ReadersWritersMain) BY DEF ReadersWritersMain
<1>4. MainProgram(MutexMain) BY DEF MutexMain
<1>5. MainProgram(FilterMain) BY DEF FilterMain
<1>6. MainProgram(Cond2Main) BY DEF Cond2Main
<1> QED
  BY <1>1, <1>2, <1>3, <1>4, <1>5, <1>6

AppNames == {"sem_test1", "cond_test1", "readers_writers", "mutex_test1", "mutex_filter",
             "cond_test2", "spawn_malloc", "spawn_only"}

LEMMA AppsNamed == Apps \subseteq AppNames
BY AppsAssumption DEF Programs, AppNames

AppOK == app \in [name : Apps, first : 1..(MAX_TASKS - 2)]

LEMMA ProgramOf ==
    ASSUME AppOK, NEW t \in Tasks
    PROVE  /\ t # 0 => TaskProgram(Program(t))
           /\ t = 0 => MainProgram(Program(t))
<1>1. app.name \in AppNames
  BY AppsNamed DEF AppOK
<1>2. CASE t # 0
  BY <1>1, <1>2, TaskPrograms DEF AppNames, Program, Programs
<1>3. CASE t = 0
  BY <1>1, <1>3, MainPrograms DEF AppNames, Program, Mains
<1> QED
  BY <1>2, <1>3

-----------------------------------------------------------------------------
(* The steps of the tasks and of app_main(), without their programs.       *)

TaskCall(t) ==
    \/ \E s \in Sems : hf_semwait(t, s) \/ hf_sempost(t, s)
    \/ \E c \in Conds : hf_condwait(t, c, "m") \/ hf_condsignal(t, c) \/ hf_condbroadcast(t, c)
    \/ \E m \in Mtxs : \/ hf_mtxlock(t, m) \/ hf_mtxunlock(t, m)
                       \/ filter_mtxlock(t, m) \/ filter_mtxunlock(t, m)
    \/ _di(t) \/ _ei(t)
    \/ UNCHANGED syncvars

MainCall(t) ==
    \/ \E s \in Sems, mem \in BOOLEAN : \E v \in Int : hf_seminit(t, s, v, mem)
    \/ \E s \in Sems : hf_semdestroy(t, s)
    \/ \E c \in Conds, mem \in BOOLEAN : hf_condinit(t, c, mem)
    \/ \E c \in Conds : hf_conddestroy(t, c)
    \/ \E m \in Mtxs : hf_mtxinit(t, m) \/ filter_mtxinit(t, m)

PcOK == \A t \in Tasks : pc[t] \in 1..Len(Program(t))

(* The place of app_main() in its program. *)
End == Len(Program(0))

LEMMA ZeroTask == 0 \in Tasks /\ Tasks \subseteq Nat /\ Nobody \notin Tasks
BY SyncTasksAssumption DEF Tasks, Nobody

LEMMA TaskStep ==
    ASSUME AppOK, PcOK, pc \in [Tasks -> 1..14], NEW t \in Tasks, t # 0, Step(t)
    PROVE  /\ TaskCall(t)
           /\ \E n \in 1..Len(Program(t)) : pc' = [pc EXCEPT ![t] = n]
           /\ \/ data' = data
              \/ \E op \in Statements : data' = Statement(op)
           /\ UNCHANGED <<app, resumes>>
<1> DEFINE i == Next_(t)
<1>1. /\ TaskInstr(i)
      /\ pc[t] = Len(Program(t)) => i.when = "always"
      /\ Len(Program(t)) \in 2..13 /\ pc[t] \in 1..Len(Program(t))
  BY ProgramOf DEF TaskProgram, PcOK, Next_
<1>2. UNCHANGED <<app, resumes>>
  BY DEF Step
<1>3. CASE ~Holds(i.when) /\ pc' = [pc EXCEPT ![t] = @ + 1] /\ UNCHANGED <<syncvars, data>>
  <2>1. i.when # "always"
    BY <1>3 DEF Holds
  <2>2. pc[t] + 1 \in 1..Len(Program(t)) /\ pc' = [pc EXCEPT ![t] = pc[t] + 1]
    BY <1>1, <2>1, <1>3
  <2> QED
    BY <1>2, <1>3, <2>2 DEF TaskCall
<1>4. CASE Holds(i.when) /\ Execute(t, i) /\ data' = Statement(i.op) /\ pc' = [pc EXCEPT ![t] = Following(t, i)]
  <2>1. Following(t, i) \in 1..Len(Program(t))
    BY <1>1, ZeroTask DEF Following
  <2>2. TaskCall(t)
    BY <1>1, <1>4 DEF Execute, TaskCall, TaskInstr, TaskOps, SemOps, CondOps, MtxOps, Statements
  <2>3. data' = data \/ \E op \in Statements : data' = Statement(op)
    <3>1. CASE i.op \in Statements
      BY <1>4, <3>1
    <3>2. CASE i.op \notin Statements
      BY <1>4, <3>2 DEF Statement, Statements
    <3> QED
      BY <3>1, <3>2
  <2> QED
    BY <1>2, <1>4, <2>1, <2>2, <2>3
<1> QED
  BY <1>3, <1>4 DEF Step

LEMMA MainStep ==
    ASSUME AppOK, PcOK, pc \in [Tasks -> 1..14], Step(0)
    PROVE  /\ pc[0] \in 1..End /\ End \in 3..7
           /\ \/ pc[0] < End - 1 /\ MainCall(0) /\ pc' = [pc EXCEPT ![0] = pc[0] + 1]
              \/ pc[0] = End - 1 /\ Start /\ pc' = [pc EXCEPT ![0] = End]
              \/ pc[0] = End /\ UNCHANGED <<syncvars, pc>>
           /\ UNCHANGED <<data, app, resumes>>
<1> DEFINE i == Next_(0)
<1>1. /\ MainInstr(i)
      /\ i.op = "start" <=> pc[0] = End - 1
      /\ i.op = "idle" <=> pc[0] = End
      /\ End \in 3..7 /\ pc[0] \in 1..End
  BY ZeroTask, ProgramOf DEF MainProgram, PcOK, Next_, End
<1>2. UNCHANGED <<app, resumes>>
  BY DEF Step
<1>3. Holds(i.when)
  BY <1>1 DEF Holds, MainInstr
<1>4. Execute(0, i) /\ data' = Statement(i.op) /\ pc' = [pc EXCEPT ![0] = Following(0, i)]
  BY <1>3 DEF Step
<1>5. data' = data
  BY <1>1, <1>4 DEF MainInstr, MainOps, Statement
<1>6. CASE i.op = "start"
  <2>1. Start
    BY <1>4, <1>6 DEF Execute, Statements
  <2>2. Following(0, i) = End
    BY <1>1, <1>6 DEF Following
  <2> QED
    BY <1>1, <1>2, <1>4, <1>5, <1>6, <2>1, <2>2
<1>7. CASE i.op = "idle"
  <2>1. UNCHANGED syncvars
    BY <1>4, <1>7 DEF Execute, Statements
  <2>2. Following(0, i) = pc[0]
    BY <1>1, <1>7 DEF Following
  <2>3. pc' = pc
    BY <1>4, <2>2, ZeroTask
  <2> QED
    BY <1>1, <1>2, <1>5, <1>7, <2>1, <2>3
<1>8. CASE i.op \notin {"start", "idle"}
  <2>1. MainCall(0)
    BY <1>1, <1>4, <1>8 DEF Execute, MainCall, MainInstr, MainOps, Statements
  <2>2. Following(0, i) = pc[0] + 1
    BY <1>1, <1>8 DEF Following, MainInstr, MainOps
  <2>3. pc[0] < End - 1
    BY <1>1, <1>8
  <2> QED
    BY <1>1, <1>2, <1>4, <1>5, <2>1, <2>2, <2>3
<1> QED
  BY <1>6, <1>7, <1>8

-----------------------------------------------------------------------------
(* Types. *)

Semaphore == [count : Int, sem_queue : NoQueue \cup Seq(Tasks)]

LEMMA QueueSplit ==
    ASSUME NEW q \in NoQueue \cup Seq(Tasks)
    PROVE  /\ q \in NoQueue <=> q \notin Seq(Tasks)
           /\ q = << >> => q \notin NoQueue
           /\ q \notin NoQueue => q \in Seq(Tasks)
<1>1. << >> \in Seq(Tasks)
  OBVIOUS
<1>2. q \in NoQueue <=> q \notin Seq(Tasks)
  BY NoQueueAssumption DEF NoQueue
<1> QED
  BY <1>1, <1>2

LEMMA EnqueueTypes ==
    ASSUME NEW q \in NoQueue \cup Seq(Tasks), NEW t \in Tasks, SyncTypeOK
    PROVE  /\ Enqueue(q, t) \in NoQueue \cup Seq(Tasks)
           /\ Blocked(q, t) \in [Tasks -> {"IDLE", "READY", "BLOCKED"}]
           /\ EnqueueHalts(q) \in {Running, "PANIC_NUTS_SEM", "NULL_QUEUE"}
<1>1. Enqueue(q, t) \in NoQueue \cup Seq(Tasks)
  BY QueueSplit DEF Enqueue
<1>2. Blocked(q, t) \in [Tasks -> {"IDLE", "READY", "BLOCKED"}]
  BY DEF Blocked, SyncTypeOK
<1>3. EnqueueHalts(q) \in {Running, "PANIC_NUTS_SEM", "NULL_QUEUE"}
  BY DEF EnqueueHalts, SyncTypeOK
<1> QED
  BY <1>1, <1>2, <1>3

(* Each case of a call leaves the queues what they are. *)
LEMMA DequeueTypes ==
    ASSUME NEW q \in NoQueue \cup Seq(Tasks), q \notin NoQueue, q # << >>
    PROVE  Tail(q) \in Seq(Tasks) /\ Head(q) \in Tasks /\ Len(q) \in Nat \ {0}
BY QueueSplit

(* g is f with another count and queue for s. *)
SemChanged(f, g, s, n, q) ==
    /\ g \in [Sems -> Semaphore]
    /\ g[s].count = n /\ g[s].sem_queue = q
    /\ \A r \in Sems : r # s => g[r] = f[r]

LEMMA SemSet ==
    ASSUME NEW f \in [Sems -> Semaphore], NEW s \in Sems,
           NEW n \in Int, NEW q \in NoQueue \cup Seq(Tasks), NEW g,
           g = [f EXCEPT ![s] = [count |-> n, sem_queue |-> q]]
    PROVE  SemChanged(f, g, s, n, q)
BY DEF SemChanged, Semaphore

FilterLock == [level : [Tasks -> 0..(MAX_TASKS - 1)], waiting : [WaitingSlots -> Tasks]]
Local == [m : Mtxs, l : Levels, k : Tasks]

(* What an assignment to a field of a lock, or of a task's variables, does. *)
LEMMA LevelSet ==
    ASSUME NEW f \in [Mtxs -> FilterLock], NEW m \in Mtxs, NEW t \in Tasks, NEW n \in 0..(MAX_TASKS - 1)
    PROVE  LET g == [f EXCEPT ![m].level[t] = n]
           IN  /\ g \in [Mtxs -> FilterLock]
               /\ g[m].level = [f[m].level EXCEPT ![t] = n]
               /\ g[m].waiting = f[m].waiting
               /\ \A r \in Mtxs : r # m => g[r] = f[r]
<1> DEFINE h == [f[m] EXCEPT !.level = [f[m].level EXCEPT ![t] = n]]
           g == [f EXCEPT ![m] = h]
<1>1. [f EXCEPT ![m].level[t] = n] = g
  BY Zenon
<1>2. f[m] \in FilterLock
  OBVIOUS
<1>3. h \in FilterLock /\ h.level = [f[m].level EXCEPT ![t] = n] /\ h.waiting = f[m].waiting
  BY <1>2 DEF FilterLock
<1> HIDE DEF h
<1>4. g \in [Mtxs -> FilterLock] /\ g[m] = h /\ \A r \in Mtxs : r # m => g[r] = f[r]
  BY <1>3
<1> HIDE DEF g
<1> QED
  BY <1>1, <1>3, <1>4, Zenon

LEMMA WaitingSet ==
    ASSUME NEW f \in [Mtxs -> FilterLock], NEW m \in Mtxs, NEW l \in WaitingSlots, NEW t \in Tasks
    PROVE  LET g == [f EXCEPT ![m].waiting[l] = t]
           IN  /\ g \in [Mtxs -> FilterLock]
               /\ g[m].waiting = [f[m].waiting EXCEPT ![l] = t]
               /\ g[m].level = f[m].level
               /\ \A r \in Mtxs : r # m => g[r] = f[r]
<1> DEFINE h == [f[m] EXCEPT !.waiting = [f[m].waiting EXCEPT ![l] = t]]
           g == [f EXCEPT ![m] = h]
<1>1. [f EXCEPT ![m].waiting[l] = t] = g
  BY Zenon
<1>2. f[m] \in FilterLock
  OBVIOUS
<1>3. h \in FilterLock /\ h.waiting = [f[m].waiting EXCEPT ![l] = t] /\ h.level = f[m].level
  BY <1>2 DEF FilterLock
<1> HIDE DEF h
<1>4. g \in [Mtxs -> FilterLock] /\ g[m] = h /\ \A r \in Mtxs : r # m => g[r] = f[r]
  BY <1>3
<1> HIDE DEF g
<1> QED
  BY <1>1, <1>3, <1>4, Zenon

LEMMA LocalField ==
    ASSUME NEW r \in Local, NEW l, NEW k
    PROVE  /\ [r EXCEPT !.k = k] = [m |-> r.m, l |-> r.l, k |-> k]
           /\ [r EXCEPT !.l = l] = [m |-> r.m, l |-> l, k |-> r.k]
           /\ [r EXCEPT !.l = l, !.k = k] = [m |-> r.m, l |-> l, k |-> k]
<1>1. /\ [r EXCEPT !.k = k] = [m |-> r.m, l |-> r.l, k |-> k]
      /\ [r EXCEPT !.l = l] = [m |-> r.m, l |-> l, k |-> r.k]
  BY DEF Local
<1>2. [[m |-> r.m, l |-> l, k |-> r.k] EXCEPT !.k = k] = [m |-> r.m, l |-> l, k |-> k]
  OBVIOUS
<1> QED
  BY <1>1, <1>2, Zenon

(* The three ends of a turn of the filter's loop. *)
LEMMA NextTestCases ==
    ASSUME local \in [Tasks -> Local], NEW t \in Tasks, NextTest(t)
    PROVE  LET v == local[t]
           IN \/ /\ v.k < MAX_TASKS - 1
                 /\ local' = [local EXCEPT ![t] = [m |-> v.m, l |-> v.l, k |-> v.k + 1]]
                 /\ Go(t, "test_level")
              \/ /\ v.k = MAX_TASKS - 1 /\ v.l < MAX_TASKS - 1
                 /\ local' = [local EXCEPT ![t] = [m |-> v.m, l |-> v.l + 1, k |-> v.k]]
                 /\ Go(t, "level")
              \/ /\ v.k = MAX_TASKS - 1 /\ v.l = MAX_TASKS - 1
                 /\ local' = [local EXCEPT ![t] = [m |-> v.m, l |-> 1, k |-> 0]]
                 /\ Go(t, "run")
<1> DEFINE v == local[t]
<1>1. v \in Local
  OBVIOUS
<1>2. v.k \in Tasks /\ v.l \in Levels /\ 0 \in Tasks /\ 1 \in Levels
  BY <1>1, SyncTasksAssumption DEF Local, Tasks, Levels
<1>3. CASE v.k < MAX_TASKS - 1
  <2>1. local' = [local EXCEPT ![t].k = v.k + 1] /\ Go(t, "test_level")
    <3>1. ~(v.k = MAX_TASKS - 1)
      BY <1>2, <1>3, SyncTasksAssumption DEF Tasks
    <3> QED
      BY <1>3, <3>1, Zenon DEF NextTest
  <2>2. v.k + 1 \in Tasks
    BY <1>2, <1>3, SyncTasksAssumption DEF Tasks
  <2>3. [local EXCEPT ![t].k = v.k + 1] = [local EXCEPT ![t] = [m |-> v.m, l |-> v.l, k |-> v.k + 1]]
    <3>1. [v EXCEPT !.k = v.k + 1] = [m |-> v.m, l |-> v.l, k |-> v.k + 1]
      BY <1>1, LocalField, Zenon
    <3> QED
      BY <3>1, Zenon
  <2> QED
    BY <1>3, <2>1, <2>3
<1>4. CASE v.k = MAX_TASKS - 1 /\ v.l < MAX_TASKS - 1
  <2>1. local' = [local EXCEPT ![t].l = v.l + 1] /\ Go(t, "level")
    BY <1>4 DEF NextTest
  <2>2. v.l + 1 \in Levels
    BY <1>2, <1>4, SyncTasksAssumption DEF Levels
  <2>3. [local EXCEPT ![t].l = v.l + 1] = [local EXCEPT ![t] = [m |-> v.m, l |-> v.l + 1, k |-> v.k]]
    <3>1. [v EXCEPT !.l = v.l + 1] = [m |-> v.m, l |-> v.l + 1, k |-> v.k]
      BY <1>1, LocalField, Zenon
    <3> QED
      BY <3>1, Zenon
  <2> QED
    BY <1>4, <2>1, <2>3
<1>5. CASE v.k = MAX_TASKS - 1 /\ v.l = MAX_TASKS - 1
  <2>1. local' = [local EXCEPT ![t].l = 1, ![t].k = 0] /\ Go(t, "run")
    BY <1>5, SyncTasksAssumption DEF NextTest
  <2>3. [local EXCEPT ![t].l = 1, ![t].k = 0] = [local EXCEPT ![t] = [m |-> v.m, l |-> 1, k |-> 0]]
    <3>1. [v EXCEPT !.l = 1, !.k = 0] = [m |-> v.m, l |-> 1, k |-> 0]
      BY <1>1, LocalField, ZenonT(40)
    <3> QED
      BY <3>1, Zenon
  <2> QED
    BY <1>5, <2>1, <2>3
<1> QED
  BY <1>2, <1>3, <1>4, <1>5, SyncTasksAssumption DEF Tasks, Levels

LEMMA TaskCallTypes ==
    ASSUME SyncTypeOK, NEW t \in Tasks, TaskCall(t)
    PROVE  SyncTypeOK'
<1>1. sems \in [Sems -> Semaphore]
  BY DEF SyncTypeOK, Semaphore
<1>2. ASSUME NEW s \in Sems, hf_semwait(t, s)
      PROVE  SyncTypeOK'
  <2> DEFINE blocks == sems[s].count - 1 < 0
             q == sems[s].sem_queue
             r == IF blocks THEN Enqueue(q, t) ELSE q
  <2>1. q \in NoQueue \cup Seq(Tasks) /\ sems[s].count - 1 \in Int
    BY <1>1 DEF Semaphore
  <2>2. r \in NoQueue \cup Seq(Tasks)
    BY <2>1, EnqueueTypes
  <2>3. sems' = [sems EXCEPT ![s] = [count |-> sems[s].count - 1, sem_queue |-> r]]
    BY <1>2, Zenon DEF hf_semwait
  <2>4. sems' \in [Sems -> Semaphore]
    <3> HIDE DEF r, q
    <3> QED
      BY <1>1, <2>1, <2>2, <2>3, SemSet DEF SemChanged
  <2>5. state' \in [Tasks -> {"IDLE", "READY", "BLOCKED"}] /\ halted' \in {Running, "PANIC_NUTS_SEM", "NULL_QUEUE"}
    BY <1>2, <2>1, EnqueueTypes DEF hf_semwait, SyncTypeOK
  <2> QED
    BY <1>2, <2>4, <2>5 DEF hf_semwait, SyncTypeOK, Semaphore, Go
<1>3. ASSUME NEW s \in Sems, hf_sempost(t, s)
      PROVE  SyncTypeOK'
  <2> DEFINE wakes == sems[s].count + 1 <= 0
             q == sems[s].sem_queue
             r == IF wakes /\ q \notin NoQueue /\ q # << >> THEN Tail(q) ELSE q
  <2>1. q \in NoQueue \cup Seq(Tasks) /\ sems[s].count + 1 \in Int
    BY <1>1 DEF Semaphore
  <2>2. r \in NoQueue \cup Seq(Tasks)
    BY <2>1, DequeueTypes
  <2>3. sems' = [sems EXCEPT ![s] = [count |-> sems[s].count + 1, sem_queue |-> r]]
    BY <1>3, Zenon DEF hf_sempost
  <2>4. sems' \in [Sems -> Semaphore]
    <3> HIDE DEF r, q
    <3> QED
      BY <1>1, <2>1, <2>2, <2>3, SemSet, SMTT(30) DEF SemChanged
  <2>5. state' \in [Tasks -> {"IDLE", "READY", "BLOCKED"}]
    BY <1>3, <2>1, DequeueTypes DEF hf_sempost, SyncTypeOK
  <2>6. halted' \in {Running, "PANIC_NUTS_SEM", "NULL_QUEUE"}
    BY <1>3, <2>1 DEF hf_sempost, SyncTypeOK
  <2> QED
    BY <1>3, <2>4, <2>5, <2>6 DEF hf_sempost, SyncTypeOK, Semaphore
<1>4. ASSUME NEW c \in Conds, hf_condwait(t, c, "m")
      PROVE  SyncTypeOK'
  <2>1. conds[c] \in NoQueue \cup Seq(Tasks)
    BY DEF SyncTypeOK
  <2>2. conds' \in [Conds -> NoQueue \cup Seq(Tasks)]
    BY <1>4, <2>1, EnqueueTypes DEF hf_condwait, SyncTypeOK
  <2>3. state' \in [Tasks -> {"IDLE", "READY", "BLOCKED"}] /\ halted' \in {Running, "PANIC_NUTS_SEM", "NULL_QUEUE"}
    BY <1>4, <2>1, EnqueueTypes DEF hf_condwait, SyncTypeOK
  <2>4. local' \in [Tasks -> [m : Mtxs, l : Levels, k : Tasks]] /\ lock' \in [Mtxs -> {0, 1}]
    BY <1>4, AppsAssumption, ZenonT(40) DEF hf_condwait, SyncTypeOK
  <2> QED
    BY <1>4, <2>2, <2>3, <2>4 DEF hf_condwait, SyncTypeOK, Go
<1>5. ASSUME NEW c \in Conds, hf_condsignal(t, c)
      PROVE  SyncTypeOK'
  <2>1. conds[c] \in NoQueue \cup Seq(Tasks)
    BY DEF SyncTypeOK
  <2>2. conds' \in [Conds -> NoQueue \cup Seq(Tasks)] /\ state' \in [Tasks -> {"IDLE", "READY", "BLOCKED"}]
    BY <1>5, <2>1, DequeueTypes DEF hf_condsignal, SyncTypeOK
  <2>3. halted' \in {Running, "PANIC_NUTS_SEM", "NULL_QUEUE"}
    BY <1>5 DEF hf_condsignal, SyncTypeOK
  <2> QED
    BY <1>5, <2>2, <2>3 DEF hf_condsignal, SyncTypeOK
<1>6. ASSUME NEW c \in Conds, hf_condbroadcast(t, c)
      PROVE  SyncTypeOK'
  <2>1. conds' \in [Conds -> NoQueue \cup Seq(Tasks)] /\ state' \in [Tasks -> {"IDLE", "READY", "BLOCKED"}]
    BY <1>6 DEF hf_condbroadcast, SyncTypeOK
  <2>2. halted' \in {Running, "PANIC_NUTS_SEM", "NULL_QUEUE"}
    BY <1>6 DEF hf_condbroadcast, SyncTypeOK
  <2> QED
    BY <1>6, <2>1, <2>2 DEF hf_condbroadcast, SyncTypeOK
<1>7. ASSUME NEW m \in Mtxs, hf_mtxlock(t, m) \/ hf_mtxunlock(t, m)
      PROVE  SyncTypeOK'
  BY <1>7 DEF hf_mtxlock, hf_mtxunlock, SyncTypeOK
<1>8. ASSUME NEW m \in Mtxs, filter_mtxlock(t, m)
      PROVE  SyncTypeOK'
  <2>1. [m |-> m, l |-> 1, k |-> 0] \in [m : Mtxs, l : Levels, k : Tasks]
    BY ZeroTask, SyncTasksAssumption DEF Levels
  <2> QED
    BY <1>8, <2>1 DEF filter_mtxlock, SyncTypeOK, Go
<1>9. ASSUME NEW m \in Mtxs, filter_mtxunlock(t, m)
      PROVE  SyncTypeOK'
  <2>1. filter \in [Mtxs -> FilterLock] /\ 0 \in 0..(MAX_TASKS - 1)
    BY SyncTasksAssumption DEF SyncTypeOK, FilterLock
  <2>2. filter' \in [Mtxs -> FilterLock]
    BY <1>9, <2>1, LevelSet, Zenon DEF filter_mtxunlock
  <2> QED
    BY <1>9, <2>2 DEF filter_mtxunlock, SyncTypeOK, FilterLock
<1>10. ASSUME _di(t) \/ _ei(t) \/ UNCHANGED syncvars
      PROVE  SyncTypeOK'
  BY <1>10 DEF _di, _ei, syncvars, SyncTypeOK
<1> QED
  BY <1>2, <1>3, <1>4, <1>5, <1>6, <1>7, <1>8, <1>9, <1>10 DEF TaskCall

LEMMA MainCallTypes ==
    ASSUME SyncTypeOK, NEW t \in Tasks, MainCall(t)
    PROVE  SyncTypeOK'
<1>1. sems \in [Sems -> Semaphore]
  BY DEF SyncTypeOK, Semaphore
<1>2. ASSUME NEW s \in Sems, NEW mem \in BOOLEAN, NEW v \in Int, hf_seminit(t, s, v, mem)
      PROVE  SyncTypeOK'
  <2> DEFINE q == IF mem THEN << >> ELSE NULL
             n == IF mem /\ v >= 0 THEN v ELSE sems[s].count
  <2>1. q \in NoQueue \cup Seq(Tasks) /\ n \in Int
    BY <1>1 DEF Semaphore, NoQueue
  <2>2. sems' = [sems EXCEPT ![s] = [count |-> n, sem_queue |-> q]]
    BY <1>2, Zenon DEF hf_seminit
  <2>3. sems' \in [Sems -> Semaphore]
    BY <1>1, <2>1, <2>2, SemSet, ZenonT(40) DEF SemChanged
  <2> QED
    BY <1>2, <2>3 DEF hf_seminit, SyncTypeOK, Semaphore
<1>3. ASSUME NEW s \in Sems, hf_semdestroy(t, s)
      PROVE  SyncTypeOK'
  <2> DEFINE q == IF sems[s].sem_queue = << >> THEN FREED ELSE sems[s].sem_queue
  <2>1. q \in NoQueue \cup Seq(Tasks) /\ sems[s].count \in Int
    BY <1>1 DEF Semaphore, NoQueue
  <2>2. sems' = [sems EXCEPT ![s] = [count |-> sems[s].count, sem_queue |-> q]]
    BY <1>3, Zenon DEF hf_semdestroy
  <2>3. sems' \in [Sems -> Semaphore]
    BY <1>1, <2>1, <2>2, SemSet DEF SemChanged
  <2> QED
    BY <1>3, <2>3 DEF hf_semdestroy, SyncTypeOK, Semaphore
<1>4. ASSUME NEW c \in Conds, NEW mem \in BOOLEAN, hf_condinit(t, c, mem)
      PROVE  SyncTypeOK'
  BY <1>4 DEF hf_condinit, SyncTypeOK, NoQueue
<1>5. ASSUME NEW c \in Conds, hf_conddestroy(t, c)
      PROVE  SyncTypeOK'
  BY <1>5 DEF hf_conddestroy, SyncTypeOK, NoQueue
<1>6. ASSUME NEW m \in Mtxs, hf_mtxinit(t, m)
      PROVE  SyncTypeOK'
  BY <1>6 DEF hf_mtxinit, SyncTypeOK
<1>7. ASSUME NEW m \in Mtxs, filter_mtxinit(t, m)
      PROVE  SyncTypeOK'
  <2>1. /\ [i \in Tasks |-> 0] \in [Tasks -> 0..(MAX_TASKS - 1)]
        /\ [l \in WaitingSlots |-> 0] \in [WaitingSlots -> Tasks]
    BY ZeroTask, SyncTasksAssumption DEF SyncTypeOK
  <2> QED
    BY <1>7, <2>1 DEF filter_mtxinit, SyncTypeOK
<1> QED
  BY <1>2, <1>3, <1>4, <1>5, <1>6, <1>7 DEF MainCall

LEMMA InsideTypes ==
    ASSUME SyncTypeOK, NEW t \in Tasks, InsideCall(t)
    PROVE  SyncTypeOK'
<1>1. /\ local \in [Tasks -> Local] /\ filter \in [Mtxs -> FilterLock]
      /\ local[t].m \in Mtxs /\ local[t].l \in Levels /\ local[t].k \in Tasks
  BY DEF SyncTypeOK, Local, FilterLock
<1>2. CASE ReturnFromSemwait(t) \/ CondYield(t)
  BY <1>2 DEF ReturnFromSemwait, CondYield, SyncTypeOK, Go
<1>3. CASE Relock(t)
  BY <1>1, <1>3 DEF Relock, SyncTypeOK, Go
<1>4. CASE SetLevel(t)
  <2>1. local[t].l \in 0..(MAX_TASKS - 1)
    BY <1>1, SyncTasksAssumption DEF Levels
  <2>2. filter' \in [Mtxs -> FilterLock]
    BY <1>1, <1>4, <2>1, LevelSet, Zenon DEF SetLevel
  <2> QED
    BY <1>4, <2>2 DEF SetLevel, SyncTypeOK, Go, FilterLock
<1>5. CASE SetWaiting(t)
  <2>1. filter' \in [Mtxs -> FilterLock]
    BY <1>1, <1>5, WaitingSet, Zenon DEF SetWaiting
  <2>2. local' \in [Tasks -> Local]
    BY <1>1, <1>5, ZeroTask DEF SetWaiting, Local
  <2> QED
    BY <1>5, <2>1, <2>2 DEF SetWaiting, SyncTypeOK, Go, FilterLock, Local
<1>6. NextTest(t) => /\ local' \in [Tasks -> Local]
                     /\ stage' \in [Tasks -> {"run", "yield", "cond_yield", "relock", "level",
                                              "waiting", "test_level", "test_waiting"}]
  <2> HAVE NextTest(t)
  <2>1. stage \in [Tasks -> {"run", "yield", "cond_yield", "relock", "level",
                            "waiting", "test_level", "test_waiting"}]
    BY DEF SyncTypeOK
  <2> QED
    <3>1. CASE /\ local[t].k < MAX_TASKS - 1
               /\ local' = [local EXCEPT ![t] = [m |-> local[t].m, l |-> local[t].l, k |-> local[t].k + 1]]
               /\ Go(t, "test_level")
      <4>1. local[t].k + 1 \in Tasks
        BY <1>1, <3>1, SyncTasksAssumption DEF Levels, Tasks
      <4>2. local' \in [Tasks -> Local]
        BY <1>1, <3>1, <4>1 DEF Local
      <4> QED
        BY <2>1, <3>1, <4>2 DEF Go
    <3>2. CASE /\ local[t].k = MAX_TASKS - 1 /\ local[t].l < MAX_TASKS - 1
               /\ local' = [local EXCEPT ![t] = [m |-> local[t].m, l |-> local[t].l + 1, k |-> local[t].k]]
               /\ Go(t, "level")
      <4>1. local[t].l + 1 \in Levels
        BY <1>1, <3>2, SyncTasksAssumption DEF Levels, Tasks
      <4>2. local' \in [Tasks -> Local]
        BY <1>1, <3>2, <4>1 DEF Local
      <4> QED
        BY <2>1, <3>2, <4>2 DEF Go
    <3>3. CASE /\ local' = [local EXCEPT ![t] = [m |-> local[t].m, l |-> 1, k |-> 0]]
               /\ Go(t, "run")
      <4>1. 1 \in Levels /\ 0 \in Tasks
        BY <1>1, <3>3, SyncTasksAssumption DEF Levels, Tasks
      <4>2. local' \in [Tasks -> Local]
        BY <1>1, <3>3, <4>1 DEF Local
      <4> QED
        BY <2>1, <3>3, <4>2 DEF Go
    <3> QED
      BY <1>1, <3>1, <3>2, <3>3, NextTestCases, Zenon
<1>7. CASE TestLevel(t) \/ TestWaiting(t)
  BY <1>6, <1>7 DEF TestLevel, TestWaiting, SyncTypeOK, Go, Local
<1> QED
  BY <1>2, <1>3, <1>4, <1>5, <1>7 DEF InsideCall

-----------------------------------------------------------------------------
(* The waiting lines of the semaphores and condition variables.  After one *)
(* hf_resume() at most one place of them all is stale: its task was        *)
(* resumed, or woken by a place that was stale.                            *)

AllLines == [Objects -> Seq(Tasks)]
AllStates == [Tasks -> {"IDLE", "READY", "BLOCKED"}]

(* Place i of line o is not the stale place, place n of line h (n = 0: no  *)
(* place is stale).                                                        *)
Live(h, n, o, i) == ~(o = h /\ i = n)

LiveBlocked(W, st, h, n) ==
    \A o \in Objects : \A i \in 1..Len(W[o]) : Live(h, n, o, i) => st[W[o][i]] = "BLOCKED"

LiveDistinct(W, h, n) ==
    \A o, p \in Objects : \A i \in 1..Len(W[o]), j \in 1..Len(W[p]) :
        Live(h, n, o, i) /\ Live(h, n, p, j) /\ W[o][i] = W[p][j] => o = p /\ i = j

BlockedLive(W, st, h, n) ==
    \A t \in Tasks : st[t] = "BLOCKED" =>
        \E o \in Objects : \E i \in 1..Len(W[o]) : Live(h, n, o, i) /\ W[o][i] = t

Sound(W, st, h, n) ==
    /\ h \in Objects /\ n \in 0..Len(W[h])
    /\ LiveBlocked(W, st, h, n)
    /\ LiveDistinct(W, h, n)
    /\ BlockedLive(W, st, h, n)

LinedBy(W, st, r) == \E h, n : Sound(W, st, h, n) /\ (r = 0 => n = 0)

LEMMA LinePlaces ==
    ASSUME NEW W \in AllLines, NEW o \in Objects
    PROVE  /\ W[o] \in Seq(Tasks) /\ Len(W[o]) \in Nat
           /\ \A i \in 1..Len(W[o]) : W[o][i] \in Tasks
BY DEF AllLines

(* What a call may do to the lines: nothing, or one of three changes. *)
Joins(W, st, V, su, o, t) ==
    V = [W EXCEPT ![o] = Append(W[o], t)] /\ su = [st EXCEPT ![t] = "BLOCKED"]
Leaves(W, st, V, su, o) ==
    W[o] # << >> /\ V = [W EXCEPT ![o] = Tail(W[o])] /\ su = [st EXCEPT ![Head(W[o])] = "READY"]
Empties(W, st, V, su, o) ==
    /\ V = [W EXCEPT ![o] = << >>]
    /\ su = [i \in Tasks |-> IF \E k \in 1..Len(W[o]) : W[o][k] = i THEN "READY" ELSE st[i]]

(* A task that calls hf_semwait() or hf_condwait() joins a line. *)
LEMMA SoundAppend ==
    ASSUME NEW W \in AllLines, NEW st \in AllStates, NEW h, NEW n, Sound(W, st, h, n),
           NEW o \in Objects, NEW t \in Tasks, st[t] # "BLOCKED",
           NEW V, NEW su, Joins(W, st, V, su, o, t)
    PROVE  Sound(V, su, h, n)
<1>0. V = [W EXCEPT ![o] = Append(W[o], t)] /\ su = [st EXCEPT ![t] = "BLOCKED"]
  BY DEF Joins
<1>1. /\ V \in AllLines
      /\ \A p \in Objects : p # o => V[p] = W[p]
      /\ Len(V[o]) = Len(W[o]) + 1 /\ Len(W[o]) \in Nat
      /\ \A i \in 1..Len(W[o]) : V[o][i] = W[o][i]
      /\ V[o][Len(W[o]) + 1] = t
  <2>1. W[o] \in Seq(Tasks)
    BY DEF AllLines
  <2>2. V[o] = Append(W[o], t) /\ V \in AllLines /\ \A p \in Objects : p # o => V[p] = W[p]
    BY <1>0, <2>1 DEF AllLines
  <2> QED
    BY <2>1, <2>2
<1>2. su[t] = "BLOCKED" /\ \A i \in Tasks : i # t => su[i] = st[i]
  BY <1>0 DEF AllStates
<1>3. h \in Objects /\ n \in 0..Len(W[h]) /\ Len(W[h]) \in Nat
  BY LinePlaces DEF Sound
<1>4. h \in Objects /\ n \in 0..Len(V[h])
  BY <1>1, <1>3
<1>5. ASSUME NEW p \in Objects, NEW i \in 1..Len(V[p]), Live(h, n, p, i)
      PROVE  \/ i \in 1..Len(W[p]) /\ V[p][i] = W[p][i] /\ V[p][i] # t /\ st[W[p][i]] = "BLOCKED"
             \/ p = o /\ i = Len(W[o]) + 1 /\ V[p][i] = t
  <2>1. CASE i \in 1..Len(W[p])
    BY <1>1, <1>5, <2>1 DEF Sound, LiveBlocked
  <2>2. CASE i \notin 1..Len(W[p])
    BY <1>1, <1>5, <2>2
  <2> QED
    BY <2>1, <2>2
<1>6. LiveBlocked(V, su, h, n)
  <2> SUFFICES ASSUME NEW p \in Objects, NEW i \in 1..Len(V[p]), Live(h, n, p, i)
               PROVE  su[V[p][i]] = "BLOCKED"
    BY DEF LiveBlocked
  <2>1. V[p][i] \in Tasks
    BY <1>1, LinePlaces
  <2> QED
    BY <1>2, <1>5, <2>1
<1>7. LiveDistinct(V, h, n)
  <2> SUFFICES ASSUME NEW p \in Objects, NEW r \in Objects, NEW i \in 1..Len(V[p]), NEW j \in 1..Len(V[r]),
                      Live(h, n, p, i), Live(h, n, r, j), V[p][i] = V[r][j]
               PROVE  p = r /\ i = j
    BY DEF LiveDistinct
  <2> QED
    BY <1>5 DEF Sound, LiveDistinct
<1>8. BlockedLive(V, su, h, n)
  <2> SUFFICES ASSUME NEW u \in Tasks, su[u] = "BLOCKED"
               PROVE  \E p \in Objects : \E i \in 1..Len(V[p]) : Live(h, n, p, i) /\ V[p][i] = u
    BY DEF BlockedLive
  <2>1. CASE u = t
    <3>1. Live(h, n, o, Len(W[o]) + 1)
      BY <1>1, <1>3 DEF Live
    <3> QED
      BY <1>1, <2>1, <3>1
  <2>2. CASE u # t
    <3>1. PICK p \in Objects : \E i \in 1..Len(W[p]) : Live(h, n, p, i) /\ W[p][i] = u
      BY <1>2, <2>2 DEF Sound, BlockedLive
    <3>2. PICK i \in 1..Len(W[p]) : Live(h, n, p, i) /\ W[p][i] = u
      BY <3>1
    <3>3. i \in 1..Len(V[p]) /\ V[p][i] = u
      BY <1>1, <3>2
    <3> QED
      BY <3>2, <3>3
  <2> QED
    BY <2>1, <2>2
<1> QED
  BY <1>4, <1>6, <1>7, <1>8 DEF Sound

(* A post or a signal takes the first of a line.  When that place is stale *)
(* and its task waits in another place, that one becomes the stale place.  *)
LEMMA SoundTail ==
    ASSUME NEW W \in AllLines, NEW st \in AllStates, NEW h, NEW n, Sound(W, st, h, n),
           NEW o \in Objects, NEW V, NEW su, Leaves(W, st, V, su, o)
    PROVE  LinedBy(V, su, n)
<1> DEFINE x == Head(W[o])
<1>0. W[o] # << >> /\ V = [W EXCEPT ![o] = Tail(W[o])] /\ su = [st EXCEPT ![x] = "READY"]
  BY DEF Leaves
<1>1. /\ V \in AllLines
      /\ \A p \in Objects : p # o => V[p] = W[p]
      /\ Len(W[o]) >= 1 /\ Len(V[o]) = Len(W[o]) - 1 /\ Len(W[o]) \in Nat
      /\ \A i \in 1..Len(V[o]) : V[o][i] = W[o][i + 1]
      /\ x = W[o][1] /\ x \in Tasks
  <2>1. W[o] \in Seq(Tasks)
    BY DEF AllLines
  <2>2. V[o] = Tail(W[o]) /\ V \in AllLines /\ \A p \in Objects : p # o => V[p] = W[p]
    BY <1>0, <2>1 DEF AllLines
  <2> DEFINE q == W[o]
  <2>3. q \in Seq(Tasks) /\ q # << >>
    BY <1>0, <2>1
  <2> HIDE DEF q
  <2>4. Len(q) \in Nat /\ Len(q) >= 1 /\ Head(q) = q[1] /\ q[1] \in Tasks
    BY <2>3
  <2>5. Len(Tail(q)) = Len(q) - 1 /\ \A i \in 1..Len(Tail(q)) : Tail(q)[i] = q[i + 1]
    BY <2>3
  <2> QED
    BY <2>2, <2>4, <2>5 DEF q
<1>2. su[x] = "READY" /\ \A i \in Tasks : i # x => su[i] = st[i]
  BY <1>0, <1>1 DEF AllStates
<1>3. h \in Objects /\ n \in 0..Len(W[h]) /\ \A p \in Objects : Len(W[p]) \in Nat
  BY LinePlaces DEF Sound
<1> HIDE DEF x
<1>8. \A t \in Tasks : st[t] = "BLOCKED" =>
          \E p \in Objects : \E i \in 1..Len(W[p]) : Live(h, n, p, i) /\ W[p][i] = t
  BY DEF Sound, BlockedLive
<1>9. \A p, r \in Objects : \A i \in 1..Len(W[p]), j \in 1..Len(W[r]) :
          Live(h, n, p, i) /\ Live(h, n, r, j) /\ W[p][i] = W[r][j] => p = r /\ i = j
  BY DEF Sound, LiveDistinct
<1>10. \A p \in Objects : \A i \in 1..Len(W[p]) : Live(h, n, p, i) => st[W[p][i]] = "BLOCKED"
  BY DEF Sound, LiveBlocked
(* The place in W of a place in V. *)
<1> DEFINE Old(p, i) == IF p = o THEN i + 1 ELSE i
<1>4. ASSUME NEW p \in Objects, NEW i \in 1..Len(V[p])
      PROVE  /\ Old(p, i) \in 1..Len(W[p]) /\ V[p][i] = W[p][Old(p, i)]
             /\ ~(p = o /\ Old(p, i) = 1) /\ V[p][i] \in Tasks
  BY <1>1, <1>3, LinePlaces, SMTT(30)
<1>5. ASSUME NEW p \in Objects, NEW i \in 1..Len(W[p]), ~(p = o /\ i = 1)
      PROVE  \E j \in 1..Len(V[p]) : Old(p, j) = i
  <2>1. CASE p = o
    <3>1. i - 1 \in 1..Len(V[p]) /\ Old(p, i - 1) = i
      BY <1>1, <1>3, <1>5, <2>1
    <3> QED
      BY <3>1
  <2>2. CASE p # o
    BY <1>1, <2>2
  <2> QED
    BY <2>1, <2>2
<1>6. \A p \in Objects : \A i, j \in Nat : Old(p, i) = Old(p, j) => i = j
  OBVIOUS
<1> DEFINE New(g, m) == Sound(V, su, g, m) /\ (n = 0 => m = 0)
(* It is enough to find the stale place in terms of the old places. *)
<1>7. ASSUME NEW g \in Objects, NEW k \in 0..Len(W[g]), k = 0 \/ ~(g = o /\ k = 1), n = 0 => k = 0,
             \A p \in Objects : \A i \in 1..Len(W[p]) :
                 Live(g, k, p, i) /\ ~(p = o /\ i = 1) => Live(h, n, p, i) /\ W[p][i] # x,
             \A t \in Tasks \ {x} : st[t] = "BLOCKED" =>
                 \E p \in Objects : \E i \in 1..Len(W[p]) :
                     Live(g, k, p, i) /\ ~(p = o /\ i = 1) /\ W[p][i] = t
      PROVE  \E m : New(g, m)
  <2> DEFINE m == IF g = o /\ k # 0 THEN k - 1 ELSE k
  <2>1. m \in 0..Len(V[g]) /\ (n = 0 => m = 0)
    BY <1>1, <1>3, <1>7
  <2>2. ASSUME NEW p \in Objects, NEW i \in 1..Len(V[p])
        PROVE  Live(g, m, p, i) <=> Live(g, k, p, Old(p, i))
    BY <1>1, <1>3, <1>7 DEF Live
  <2> HIDE DEF m, Old
  <2>3. LiveBlocked(V, su, g, m)
    <3> SUFFICES ASSUME NEW p \in Objects, NEW i \in 1..Len(V[p]), Live(g, m, p, i)
                 PROVE  su[V[p][i]] = "BLOCKED"
      BY DEF LiveBlocked
    <3>1. Live(h, n, p, Old(p, i)) /\ V[p][i] # x
      BY <1>4, <1>7, <2>2
    <3>2. st[W[p][Old(p, i)]] = "BLOCKED"
      BY <1>4, <3>1 DEF Sound, LiveBlocked
    <3> QED
      BY <1>2, <1>4, <3>1, <3>2
  <2>4. LiveDistinct(V, g, m)
    <3> SUFFICES ASSUME NEW p \in Objects, NEW r \in Objects, NEW i \in 1..Len(V[p]), NEW j \in 1..Len(V[r]),
                        Live(g, m, p, i), Live(g, m, r, j), V[p][i] = V[r][j]
                 PROVE  p = r /\ i = j
      BY DEF LiveDistinct
    <3>1. Live(h, n, p, Old(p, i)) /\ Live(h, n, r, Old(r, j))
      BY <1>4, <1>7, <2>2
    <3>2. W[p][Old(p, i)] = W[r][Old(r, j)] /\ Old(p, i) \in 1..Len(W[p]) /\ Old(r, j) \in 1..Len(W[r])
      BY <1>4
    <3>3. p = r /\ Old(p, i) = Old(r, j)
      BY <1>9, <3>1, <3>2
    <3> QED
      BY <1>6, <3>3
  <2>5. BlockedLive(V, su, g, m)
    <3> SUFFICES ASSUME NEW u \in Tasks, su[u] = "BLOCKED"
                 PROVE  \E p \in Objects : \E i \in 1..Len(V[p]) : Live(g, m, p, i) /\ V[p][i] = u
      BY DEF BlockedLive
    <3>1. u # x /\ st[u] = "BLOCKED"
      BY <1>2
    <3>2. PICK p \in Objects : \E i \in 1..Len(W[p]) : Live(g, k, p, i) /\ ~(p = o /\ i = 1) /\ W[p][i] = u
      BY <1>7, <3>1
    <3>3. PICK i \in 1..Len(W[p]) : Live(g, k, p, i) /\ ~(p = o /\ i = 1) /\ W[p][i] = u
      BY <3>2
    <3>4. PICK j \in 1..Len(V[p]) : Old(p, j) = i
      BY <1>5, <3>3
    <3>5. Live(g, m, p, j) /\ V[p][j] = u
      BY <1>4, <2>2, <3>3, <3>4
    <3> QED
      BY <3>5
  <2>6. Sound(V, su, g, m)
    BY <2>1, <2>3, <2>4, <2>5 DEF Sound
  <2> QED
    BY <2>1, <2>6
<1> HIDE DEF Old
<1>11. 1 \in 1..Len(W[o])
  BY <1>1
<1>12. CASE Live(h, n, o, 1)
  <2>1. n = 0 \/ ~(h = o /\ n = 1)
    BY <1>12 DEF Live
  <2>2. \A p \in Objects : \A i \in 1..Len(W[p]) :
            Live(h, n, p, i) /\ ~(p = o /\ i = 1) => Live(h, n, p, i) /\ W[p][i] # x
    BY <1>1, <1>9, <1>11, <1>12
  <2>3. \A t \in Tasks \ {x} : st[t] = "BLOCKED" =>
            \E p \in Objects : \E i \in 1..Len(W[p]) : Live(h, n, p, i) /\ ~(p = o /\ i = 1) /\ W[p][i] = t
    BY <1>1, <1>8
  <2>4. \E m : New(h, m)
    BY <1>3, <1>7, <2>1, <2>2, <2>3
  <2> QED
    BY <2>4, Zenon DEF LinedBy
<1>13. CASE ~Live(h, n, o, 1) /\ st[x] = "BLOCKED"
  <2>1. h = o /\ n = 1
    BY <1>13 DEF Live
  <2>2. PICK g \in Objects : \E i \in 1..Len(W[g]) : Live(h, n, g, i) /\ W[g][i] = x
    BY <1>1, <1>8, <1>13
  <2>3. PICK k \in 1..Len(W[g]) : Live(h, n, g, k) /\ W[g][k] = x
    BY <2>2
  <2>4. k \in 0..Len(W[g]) /\ ~(g = o /\ k = 1)
    BY <1>3, <2>1, <2>3 DEF Live
  <2>5. \A p \in Objects : \A i \in 1..Len(W[p]) :
            Live(g, k, p, i) /\ ~(p = o /\ i = 1) => Live(h, n, p, i) /\ W[p][i] # x
    BY <1>9, <2>1, <2>3 DEF Live
  <2>6. \A t \in Tasks \ {x} : st[t] = "BLOCKED" =>
            \E p \in Objects : \E i \in 1..Len(W[p]) : Live(g, k, p, i) /\ ~(p = o /\ i = 1) /\ W[p][i] = t
    BY <1>1, <1>8, <2>1, <2>3 DEF Live
  <2>7. \E m : New(g, m)
    BY <1>3, <1>7, <2>1, <2>4, <2>5, <2>6
  <2> QED
    BY <2>7, Zenon DEF LinedBy
<1>14. CASE ~Live(h, n, o, 1) /\ st[x] # "BLOCKED"
  <2>1. h = o /\ n = 1
    BY <1>14 DEF Live
  <2>2. \A p \in Objects : \A i \in 1..Len(W[p]) :
            Live(o, 0, p, i) /\ ~(p = o /\ i = 1) => Live(h, n, p, i) /\ W[p][i] # x
    BY <1>10, <1>14, <2>1 DEF Live
  <2>3. \A t \in Tasks \ {x} : st[t] = "BLOCKED" =>
            \E p \in Objects : \E i \in 1..Len(W[p]) : Live(o, 0, p, i) /\ ~(p = o /\ i = 1) /\ W[p][i] = t
    <3> TAKE t \in Tasks \ {x}
    <3> HAVE st[t] = "BLOCKED"
    <3>1. PICK p \in Objects : \E i \in 1..Len(W[p]) : Live(h, n, p, i) /\ W[p][i] = t
      BY <1>8
    <3>2. PICK i \in 1..Len(W[p]) : Live(h, n, p, i) /\ W[p][i] = t
      BY <3>1
    <3>3. Live(o, 0, p, i) /\ ~(p = o /\ i = 1)
      BY <2>1, <3>2 DEF Live
    <3> QED
      BY <3>2, <3>3
  <2>4. 0 \in 0..Len(W[o])
    BY <1>1
  <2>5. \E m : New(o, m)
    BY <1>7, <2>1, <2>2, <2>3, <2>4
  <2> QED
    BY <2>5, Zenon DEF LinedBy
<1> QED
  BY <1>12, <1>13, <1>14

(* A broadcast empties a line. *)
LEMMA SoundEmptied ==
    ASSUME NEW W \in AllLines, NEW st \in AllStates, NEW h, NEW n, Sound(W, st, h, n),
           NEW o \in Objects, NEW V, NEW su, Empties(W, st, V, su, o)
    PROVE  LinedBy(V, su, n)
<1>1. Len(V[o]) = 0 /\ \A p \in Objects : p # o => V[p] = W[p]
  BY DEF AllLines, Empties
<1>2. /\ \A u \in Tasks : (\E k \in 1..Len(W[o]) : W[o][k] = u) => su[u] = "READY"
      /\ \A u \in Tasks : ~(\E k \in 1..Len(W[o]) : W[o][k] = u) => su[u] = st[u]
  BY DEF Empties
<1>3. h \in Objects /\ n \in 0..Len(W[h]) /\ \A p \in Objects : Len(W[p]) \in Nat
  BY LinePlaces DEF Sound
<1>4. \A p \in Objects : \A i \in 1..Len(V[p]) :
          p # o /\ i \in 1..Len(W[p]) /\ V[p][i] = W[p][i] /\ V[p][i] \in Tasks
  BY <1>1, LinePlaces
<1>5. \A t \in Tasks : st[t] = "BLOCKED" =>
          \E p \in Objects : \E i \in 1..Len(W[p]) : Live(h, n, p, i) /\ W[p][i] = t
  BY DEF Sound, BlockedLive
<1>6. \A p, r \in Objects : \A i \in 1..Len(W[p]), j \in 1..Len(W[r]) :
          Live(h, n, p, i) /\ Live(h, n, r, j) /\ W[p][i] = W[r][j] => p = r /\ i = j
  BY DEF Sound, LiveDistinct
<1>7. \A p \in Objects : \A i \in 1..Len(W[p]) : Live(h, n, p, i) => st[W[p][i]] = "BLOCKED"
  BY DEF Sound, LiveBlocked
(* x is the task of the stale place of this line, if there is one. *)
<1>8. ASSUME NEW g \in Objects, NEW m \in 0..Len(V[g]), n = 0 => m = 0,
             \A p \in Objects \ {o} : \A i \in 1..Len(W[p]) :
                 Live(g, m, p, i) => Live(h, n, p, i) /\ \A k \in 1..Len(W[o]) : W[o][k] # W[p][i],
             \A p \in Objects \ {o} : \A i \in 1..Len(W[p]) :
                 Live(h, n, p, i) /\ ~Live(g, m, p, i) => \E k \in 1..Len(W[o]) : W[o][k] = W[p][i]
      PROVE  Sound(V, su, g, m)
  <2>1. LiveBlocked(V, su, g, m)
    <3> SUFFICES ASSUME NEW p \in Objects, NEW i \in 1..Len(V[p]), Live(g, m, p, i)
                 PROVE  su[V[p][i]] = "BLOCKED"
      BY DEF LiveBlocked
    <3>1. Live(h, n, p, i) /\ st[W[p][i]] = "BLOCKED"
      BY <1>4, <1>7, <1>8
    <3> QED
      BY <1>2, <1>4, <1>8, <3>1
  <2>2. LiveDistinct(V, g, m)
    BY <1>4, <1>6, <1>8 DEF LiveDistinct
  <2>3. BlockedLive(V, su, g, m)
    <3> SUFFICES ASSUME NEW u \in Tasks, su[u] = "BLOCKED"
                 PROVE  \E p \in Objects : \E i \in 1..Len(V[p]) : Live(g, m, p, i) /\ V[p][i] = u
      BY DEF BlockedLive
    <3>1. st[u] = "BLOCKED" /\ ~(\E k \in 1..Len(W[o]) : W[o][k] = u)
      BY <1>2
    <3>2. PICK p \in Objects : \E i \in 1..Len(W[p]) : Live(h, n, p, i) /\ W[p][i] = u
      BY <1>5, <3>1
    <3>3. PICK i \in 1..Len(W[p]) : Live(h, n, p, i) /\ W[p][i] = u
      BY <3>2
    <3>4. p # o
      BY <3>1, <3>3
    <3>5. Live(g, m, p, i) /\ i \in 1..Len(V[p]) /\ V[p][i] = u
      BY <1>1, <1>8, <3>1, <3>3, <3>4
    <3> QED
      BY <3>5
  <2> QED
    BY <1>8, <2>1, <2>2, <2>3 DEF Sound
<1>9. CASE h # o \/ n = 0
  <2>1. \A k \in 1..Len(W[o]) : Live(h, n, o, k)
    BY <1>9 DEF Live
  <2>2. n \in 0..Len(V[h])
    BY <1>1, <1>3, <1>9
  <2>3. \A p \in Objects \ {o} : \A i \in 1..Len(W[p]) :
            Live(h, n, p, i) => \A k \in 1..Len(W[o]) : W[o][k] # W[p][i]
    BY <1>6, <2>1
  <2> QED
    <3>1. Sound(V, su, h, n)
      BY <1>3, <1>8, <2>2, <2>3
    <3> QED
      BY <3>1, Zenon DEF LinedBy
<1>10. CASE h = o /\ n # 0
  <2> DEFINE x == W[o][n]
  <2>1. n \in 1..Len(W[o]) /\ x \in Tasks /\ \A p \in Objects \ {o} : \A i \in 1..Len(W[p]) : Live(h, n, p, i)
    BY <1>3, <1>10, LinePlaces DEF Live
  <2>2. \A p \in Objects \ {o} : \A i \in 1..Len(W[p]) : \A k \in 1..Len(W[o]) :
            k # n => W[o][k] # W[p][i]
    BY <1>6, <1>10, <2>1 DEF Live
  <2>3. CASE \E g \in Objects \ {o} : \E m \in 1..Len(W[g]) : W[g][m] = x
    <3>1. PICK g \in Objects \ {o} : \E m \in 1..Len(W[g]) : W[g][m] = x
      BY <2>3
    <3>2. PICK m \in 1..Len(W[g]) : W[g][m] = x
      BY <3>1
    <3>3. m \in 0..Len(V[g])
      BY <1>1, <1>3, <3>2
    <3>4. \A p \in Objects \ {o} : \A i \in 1..Len(W[p]) : Live(g, m, p, i) => W[p][i] # x
      BY <1>6, <2>1, <3>2 DEF Live
    <3>5. \A p \in Objects \ {o} : \A i \in 1..Len(W[p]) :
              Live(g, m, p, i) => Live(h, n, p, i) /\ \A k \in 1..Len(W[o]) : W[o][k] # W[p][i]
      BY <2>1, <2>2, <3>4
    <3>6. \A p \in Objects \ {o} : \A i \in 1..Len(W[p]) :
              ~Live(g, m, p, i) => \E k \in 1..Len(W[o]) : W[o][k] = W[p][i]
      BY <2>1, <3>2 DEF Live
    <3>7. Sound(V, su, g, m)
      BY <1>8, <1>10, <3>3, <3>5, <3>6
    <3> QED
      BY <1>10, <3>7, Zenon DEF LinedBy
  <2>4. CASE ~ \E g \in Objects \ {o} : \E m \in 1..Len(W[g]) : W[g][m] = x
    <3>1. \A p \in Objects \ {o} : \A i \in 1..Len(W[p]) :
              Live(h, n, p, i) /\ \A k \in 1..Len(W[o]) : W[o][k] # W[p][i]
      BY <2>1, <2>2, <2>4
    <3>2. 0 \in 0..Len(V[h]) /\ \A p \in Objects : \A i \in 1..Len(W[p]) : Live(h, 0, p, i)
      BY <1>1, <1>10 DEF Live
    <3>3. Sound(V, su, h, 0)
      BY <1>3, <1>8, <3>1, <3>2
    <3> QED
      BY <3>3, Zenon DEF LinedBy
  <2> QED
    BY <2>3, <2>4
<1> QED
  BY <1>9, <1>10

(* hf_resume() of a waiter makes its place stale. *)
LEMMA SoundResumed ==
    ASSUME NEW W \in AllLines, NEW st \in AllStates, NEW h, Sound(W, st, h, 0),
           NEW w \in Tasks, st[w] = "BLOCKED"
    PROVE  LinedBy(W, [st EXCEPT ![w] = "READY"], 1)
<1> DEFINE su == [st EXCEPT ![w] = "READY"]
<1>1. su[w] = "READY" /\ \A u \in Tasks : u # w => su[u] = st[u]
  BY DEF AllStates
<1> HIDE DEF su
<1>2. \A o \in Objects : \A i \in 1..Len(W[o]) : Live(h, 0, o, i) /\ W[o][i] \in Tasks
  BY LinePlaces DEF Live
<1>3. PICK g \in Objects : \E m \in 1..Len(W[g]) : W[g][m] = w
  BY DEF Sound, BlockedLive
<1>4. PICK m \in 1..Len(W[g]) : W[g][m] = w
  BY <1>3
<1>5. \A o \in Objects : \A i \in 1..Len(W[o]) : Live(g, m, o, i) <=> W[o][i] # w
  BY <1>2, <1>4 DEF Sound, LiveDistinct, Live
<1>6. LiveBlocked(W, su, g, m)
  BY <1>1, <1>2, <1>5 DEF Sound, LiveBlocked
<1>7. LiveDistinct(W, g, m)
  BY <1>2 DEF Sound, LiveDistinct
<1>8. BlockedLive(W, su, g, m)
  <2> SUFFICES ASSUME NEW u \in Tasks, su[u] = "BLOCKED"
               PROVE  \E p \in Objects : \E i \in 1..Len(W[p]) : Live(g, m, p, i) /\ W[p][i] = u
    BY DEF BlockedLive
  <2>1. u # w /\ st[u] = "BLOCKED"
    BY <1>1
  <2> QED
    BY <1>5, <2>1 DEF Sound, BlockedLive
<1>9. m \in 0..Len(W[g])
  BY <1>4, LinePlaces
<1>10. Sound(W, su, g, m)
  BY <1>6, <1>7, <1>8, <1>9 DEF Sound
<1>11. LinedBy(W, su, 1)
  BY <1>10 DEF LinedBy
<1> QED
  BY <1>11 DEF su

(* A line with a free place for every task that is not in it. *)
LEMMA LineBound ==
    ASSUME NEW W \in AllLines, NEW st \in AllStates, NEW h, NEW n, Sound(W, st, h, n),
           NEW o \in Objects, NEW t \in Tasks \ {0}, st[t] # "BLOCKED", st[0] # "BLOCKED"
    PROVE  Len(W[o]) < MAX_TASKS
<1> DEFINE S == 1..Len(W[o])
           T == Tasks \ {t}
           f == [i \in S |-> IF Live(h, n, o, i) THEN W[o][i] ELSE 0]
<1>1. Len(W[o]) \in Nat /\ \A i \in S : W[o][i] \in Tasks
  BY LinePlaces
<1>2. \A i \in S : Live(h, n, o, i) => W[o][i] \in T /\ W[o][i] # 0
  BY <1>1 DEF Sound, LiveBlocked
<1>3. f \in [S -> T]
  BY <1>2, ZeroTask
<1>4. ~ \E i, j \in S : i # j /\ f[i] = f[j]
  <2> SUFFICES ASSUME NEW i \in S, NEW j \in S, f[i] = f[j]
               PROVE  i = j
    OBVIOUS
  <2>1. \A k, l \in S : Live(h, n, o, k) /\ Live(h, n, o, l) /\ W[o][k] = W[o][l] => k = l
    BY DEF Sound, LiveDistinct
  <2>2. CASE Live(h, n, o, i) /\ Live(h, n, o, j)
    BY <2>1, <2>2
  <2>3. CASE ~Live(h, n, o, i) /\ ~Live(h, n, o, j)
    BY <2>3 DEF Live
  <2>4. CASE ~(Live(h, n, o, i) <=> Live(h, n, o, j))
    BY <1>2, <2>4
  <2> QED
    BY <2>2, <2>3, <2>4
<1>5. IsFiniteSet(S) /\ Cardinality(S) = Len(W[o])
  BY <1>1, FS_Interval, SMTT(30)
<1>6. IsFiniteSet(Tasks) /\ Cardinality(Tasks) = MAX_TASKS
  BY FS_Interval, SyncTasksAssumption DEF Tasks
<1>7. IsFiniteSet(T) /\ Cardinality(T) = MAX_TASKS - 1
  BY <1>6, FS_RemoveElement
<1> HIDE DEF S, T, f
<1>8. ~(Cardinality(T) < Cardinality(S))
  BY <1>3, <1>4, <1>5, <1>7, FS_PigeonHole
<1> QED
  BY <1>1, <1>5, <1>7, <1>8, SyncTasksAssumption

-----------------------------------------------------------------------------
(* The inductive invariant. *)

Line(q) == IF q \in NoQueue THEN << >> ELSE q
LinesOf(S, C) == [o \in Objects |-> Line(IF o[1] = "sem" THEN S[o[2]].sem_queue ELSE C[o[2]])]
Lines == LinesOf(sems, conds)

AllSems == [Sems -> Semaphore]
AllConds == [Conds -> NoQueue \cup Seq(Tasks)]

(* Until app_main() has spawned the tasks nobody waits; the idle task      *)
(* never does.                                                             *)
Settled ==
    /\ state[0] = "READY"
    /\ pc[0] < End => /\ \A t \in Tasks \ {0} : state[t] = "IDLE"
                      /\ \A o \in Objects : Lines[o] = << >>
                      /\ \A s \in Sems : sems[s].count >= 0

Counted ==
    halted = Running =>
        \A s \in Sems : sems[s].sem_queue \notin NoQueue =>
            Len(sems[s].sem_queue) = IF sems[s].count < 0 THEN -sems[s].count ELSE 0

Lined == resumes <= 1 => halted # "PANIC_NUTS_SEM" /\ LinedBy(Lines, state, resumes)

IInv == TypeOK /\ PcOK /\ Settled /\ Counted /\ Lined

LEMMA LinesTyped ==
    ASSUME NEW S \in AllSems, NEW C \in AllConds
    PROVE  /\ LinesOf(S, C) \in AllLines
           /\ \A s \in Sems : <<"sem", s>> \in Objects /\ LinesOf(S, C)[<<"sem", s>>] = Line(S[s].sem_queue)
           /\ \A c \in Conds : <<"cond", c>> \in Objects /\ LinesOf(S, C)[<<"cond", c>>] = Line(C[c])
<1>1. \A q \in NoQueue \cup Seq(Tasks) : Line(q) \in Seq(Tasks)
  BY QueueSplit DEF Line
<1>2. \A o \in Objects : \/ o[1] = "sem" /\ o[2] \in Sems
                         \/ o[1] = "cond" /\ o[2] \in Conds
  BY DEF Objects
<1>3. \A o \in Objects : (IF o[1] = "sem" THEN S[o[2]].sem_queue ELSE C[o[2]]) \in NoQueue \cup Seq(Tasks)
  BY <1>2 DEF AllSems, AllConds, Semaphore
<1>4. LinesOf(S, C) \in AllLines
  BY <1>1, <1>3 DEF LinesOf, AllLines
<1>5. \A s \in Sems : <<"sem", s>> \in Objects /\ LinesOf(S, C)[<<"sem", s>>] = Line(S[s].sem_queue)
  BY DEF LinesOf, Objects
<1>6. \A c \in Conds : <<"cond", c>> \in Objects /\ LinesOf(S, C)[<<"cond", c>>] = Line(C[c])
  BY DEF LinesOf, Objects
<1> QED
  BY <1>4, <1>5, <1>6

LEMMA ObjectCases ==
    \A o \in Objects : (\E s \in Sems : o = <<"sem", s>>) \/ (\E c \in Conds : o = <<"cond", c>>)
BY DEF Objects

LineSet(W, V, o, q) == V = [W EXCEPT ![o] = q]

(* A change of one semaphore, or of one condition variable, changes one    *)
(* line.                                                                   *)
LEMMA SemLineChange ==
    ASSUME NEW S \in AllSems, NEW R \in AllSems, NEW C \in AllConds, NEW s \in Sems,
           \A r \in Sems : r # s => R[r] = S[r]
    PROVE  LineSet(LinesOf(S, C), LinesOf(R, C), <<"sem", s>>, Line(R[s].sem_queue))
<1> DEFINE W == LinesOf(S, C)
           X == LinesOf(R, C)
           V == [W EXCEPT ![<<"sem", s>>] = Line(R[s].sem_queue)]
<1>1. W \in [Objects -> Seq(Tasks)] /\ X \in [Objects -> Seq(Tasks)]
  BY LinesTyped DEF AllLines
<1>2. /\ \A r \in Sems : W[<<"sem", r>>] = Line(S[r].sem_queue) /\ X[<<"sem", r>>] = Line(R[r].sem_queue)
      /\ \A c \in Conds : W[<<"cond", c>>] = Line(C[c]) /\ X[<<"cond", c>>] = Line(C[c])
  BY LinesTyped
<1> HIDE DEF W, X
<1>3. ASSUME NEW o \in Objects
      PROVE  X[o] = V[o]
  <2>1. CASE \E r \in Sems : o = <<"sem", r>>
    <3>1. PICK r \in Sems : o = <<"sem", r>>
      BY <2>1
    <3>2. r # s => o # <<"sem", s>>
      BY <3>1
    <3> QED
      BY <1>1, <1>2, <3>1, <3>2, SMTT(30)
  <2>2. CASE \E c \in Conds : o = <<"cond", c>>
    <3>1. o # <<"sem", s>>
      BY <2>2
    <3> QED
      BY <1>1, <1>2, <2>2, <3>1
  <2> QED
    BY <2>1, <2>2, ObjectCases
<1> QED
  BY <1>1, <1>3 DEF W, X, LineSet

LEMMA CondLineChange ==
    ASSUME NEW S \in AllSems, NEW C \in AllConds, NEW D \in AllConds, NEW c \in Conds,
           \A d \in Conds : d # c => D[d] = C[d]
    PROVE  LineSet(LinesOf(S, C), LinesOf(S, D), <<"cond", c>>, Line(D[c]))
<1> DEFINE W == LinesOf(S, C)
           X == LinesOf(S, D)
           V == [W EXCEPT ![<<"cond", c>>] = Line(D[c])]
<1>1. W \in [Objects -> Seq(Tasks)] /\ X \in [Objects -> Seq(Tasks)]
  BY LinesTyped DEF AllLines
<1>2. /\ \A r \in Sems : W[<<"sem", r>>] = Line(S[r].sem_queue) /\ X[<<"sem", r>>] = Line(S[r].sem_queue)
      /\ \A d \in Conds : W[<<"cond", d>>] = Line(C[d]) /\ X[<<"cond", d>>] = Line(D[d])
  BY LinesTyped
<1> HIDE DEF W, X
<1>3. ASSUME NEW o \in Objects
      PROVE  X[o] = V[o]
  <2>1. CASE \E r \in Sems : o = <<"sem", r>>
    <3>1. o # <<"cond", c>>
      BY <2>1
    <3> QED
      BY <1>1, <1>2, <2>1, <3>1
  <2>2. CASE \E d \in Conds : o = <<"cond", d>>
    <3>1. PICK d \in Conds : o = <<"cond", d>>
      BY <2>2
    <3>2. d # c => o # <<"cond", c>>
      BY <3>1
    <3> QED
      BY <1>1, <1>2, <3>1, <3>2
  <2> QED
    BY <2>1, <2>2, ObjectCases
<1> QED
  BY <1>1, <1>3 DEF W, X, LineSet

LEMMA LineOfQueue ==
    ASSUME NEW q \in NoQueue \cup Seq(Tasks)
    PROVE  /\ Line(q) \in Seq(Tasks)
           /\ q \in NoQueue => Line(q) = << >>
           /\ q \notin NoQueue => Line(q) = q /\ q \in Seq(Tasks)
BY QueueSplit DEF Line

LEMMA SyncTypes ==
    ASSUME SyncTypeOK
    PROVE  /\ sems \in AllSems /\ conds \in AllConds /\ state \in AllStates
           /\ Lines \in AllLines
           /\ \A s \in Sems : /\ <<"sem", s>> \in Objects /\ Lines[<<"sem", s>>] = Line(sems[s].sem_queue)
                              /\ sems[s].count \in Int /\ sems[s].sem_queue \in NoQueue \cup Seq(Tasks)
           /\ \A c \in Conds : /\ <<"cond", c>> \in Objects /\ Lines[<<"cond", c>>] = Line(conds[c])
                               /\ conds[c] \in NoQueue \cup Seq(Tasks)
<1>1. sems \in AllSems /\ conds \in AllConds /\ state \in AllStates
  BY DEF SyncTypeOK, AllSems, AllConds, AllStates, Semaphore
<1>2. /\ \A s \in Sems : sems[s].count \in Int /\ sems[s].sem_queue \in NoQueue \cup Seq(Tasks)
      /\ \A c \in Conds : conds[c] \in NoQueue \cup Seq(Tasks)
  BY <1>1 DEF AllSems, AllConds, Semaphore
<1> QED
  BY <1>1, <1>2, LinesTyped DEF Lines

-----------------------------------------------------------------------------
(* The calls keep the lines sound. *)

LEMMA SemQueueSet ==
    ASSUME SyncTypeOK, NEW s \in Sems, NEW n \in Int, NEW q \in NoQueue \cup Seq(Tasks),
           sems' = [sems EXCEPT ![s] = [count |-> n, sem_queue |-> q]], UNCHANGED conds
    PROVE  /\ sems'[s].count = n /\ sems'[s].sem_queue = q
           /\ \A r \in Sems : r # s => sems'[r] = sems[r]
           /\ Lines' = [Lines EXCEPT ![<<"sem", s>>] = Line(q)]
<1>1. sems \in AllSems /\ conds \in AllConds
  BY SyncTypes
<1>2. SemChanged(sems, sems', s, n, q)
  BY <1>1, SemSet DEF AllSems
<1>3. sems' \in AllSems /\ sems'[s].count = n /\ sems'[s].sem_queue = q /\ \A r \in Sems : r # s => sems'[r] = sems[r]
  BY <1>2 DEF SemChanged, AllSems
<1>4. LineSet(LinesOf(sems, conds), LinesOf(sems', conds), <<"sem", s>>, Line(sems'[s].sem_queue))
  BY <1>1, <1>3, SemLineChange
<1>5. Lines' = LinesOf(sems', conds)
  BY DEF Lines
<1> QED
  BY <1>3, <1>4, <1>5 DEF Lines, LineSet

LEMMA CondQueueSet ==
    ASSUME SyncTypeOK, NEW c \in Conds, NEW q \in NoQueue \cup Seq(Tasks),
           conds' = [conds EXCEPT ![c] = q], UNCHANGED sems
    PROVE  Lines' = [Lines EXCEPT ![<<"cond", c>>] = Line(q)]
<1>1. sems \in AllSems /\ conds \in AllConds
  BY SyncTypes
<1>2. conds' \in AllConds /\ conds'[c] = q /\ \A d \in Conds : d # c => conds'[d] = conds[d]
  BY <1>1 DEF AllConds
<1>3. LineSet(LinesOf(sems, conds), LinesOf(sems, conds'), <<"cond", c>>, Line(conds'[c]))
  BY <1>1, <1>2, CondLineChange
<1>4. Lines' = LinesOf(sems, conds')
  BY DEF Lines
<1> QED
  BY <1>2, <1>3, <1>4 DEF Lines, LineSet

LEMMA SameLine ==
    ASSUME NEW W \in AllLines, NEW o \in Objects
    PROVE  [W EXCEPT ![o] = W[o]] = W
BY DEF AllLines

LEMMA LinedChange ==
    ASSUME NEW W \in AllLines, NEW st \in AllStates, NEW r, LinedBy(W, st, r), NEW o \in Objects,
           NEW t \in Tasks, st[t] # "BLOCKED", NEW V, NEW su,
           Joins(W, st, V, su, o, t) \/ Leaves(W, st, V, su, o) \/ Empties(W, st, V, su, o)
    PROVE  LinedBy(V, su, r)
<1>1. PICK h, n : Sound(W, st, h, n) /\ (r = 0 => n = 0)
  BY Zenon DEF LinedBy
<1>2. CASE Joins(W, st, V, su, o, t)
  BY <1>1, <1>2, SoundAppend, Zenon DEF LinedBy
<1>3. CASE Leaves(W, st, V, su, o)
  <2>1. LinedBy(V, su, n)
    BY <1>1, <1>3, SoundTail
  <2> QED
    BY <1>1, <2>1, Zenon DEF LinedBy
<1>4. CASE Empties(W, st, V, su, o)
  <2>1. LinedBy(V, su, n)
    BY <1>1, <1>4, SoundEmptied
  <2> QED
    BY <1>1, <2>1, Zenon DEF LinedBy
<1> QED
  BY <1>2, <1>3, <1>4

(* Enough room for the calling task. *)
LEMMA LinedBound ==
    ASSUME SyncTypeOK, Settled, LinedBy(Lines, state, resumes), NEW o \in Objects,
           NEW t \in Tasks \ {0}, state[t] = "READY"
    PROVE  Len(Lines[o]) < MAX_TASKS
<1>1. PICK h, n : Sound(Lines, state, h, n) /\ (resumes = 0 => n = 0)
  BY Zenon DEF LinedBy
<1>2. state[t] # "BLOCKED" /\ state[0] # "BLOCKED"
  BY DEF Settled
<1> QED
  BY <1>1, <1>2, SyncTypes, LineBound

Waits == Counted /\ Lined

LEMMA SemwaitKeeps ==
    ASSUME SyncTypeOK, Settled, Waits, NEW t \in Tasks \ {0}, NEW s \in Sems, hf_semwait(t, s),
           UNCHANGED resumes
    PROVE  Waits'
<1> DEFINE blocks == sems[s].count - 1 < 0
           q == sems[s].sem_queue
           o == <<"sem", s>>
           r == IF blocks THEN Enqueue(q, t) ELSE q
<1>1. /\ q \in NoQueue \cup Seq(Tasks) /\ sems[s].count \in Int /\ Lines[o] = Line(q) /\ o \in Objects
      /\ Lines \in AllLines /\ state \in AllStates
  BY SyncTypes
<1>2. halted = Running /\ state[t] = "READY"
  BY DEF hf_semwait, At, CanRun
<1>3. /\ sems' = [sems EXCEPT ![s] = [count |-> sems[s].count - 1, sem_queue |-> r]]
      /\ halted' = (IF blocks THEN EnqueueHalts(q) ELSE halted)
      /\ state' = (IF blocks THEN Blocked(q, t) ELSE state)
      /\ conds' = conds
  BY Zenon DEF hf_semwait
<1>4. r \in NoQueue \cup Seq(Tasks)
  BY <1>1, EnqueueTypes
<1>5. /\ sems'[s].count = sems[s].count - 1 /\ sems'[s].sem_queue = r
      /\ \A p \in Sems : p # s => sems'[p] = sems[p]
      /\ Lines' = [Lines EXCEPT ![o] = Line(r)]
  <2> HIDE DEF r
  <2> QED
    <3>1. sems[s].count - 1 \in Int
      BY <1>1
    <3> QED
      BY <1>1, <1>3, <1>4, <3>1, SemQueueSet, ZenonT(40)
<1>6. \A p \in Sems : sems[p].sem_queue \notin NoQueue =>
          Len(sems[p].sem_queue) = IF sems[p].count < 0 THEN -sems[p].count ELSE 0
  BY <1>2 DEF Waits, Counted
<1>7. CASE ~blocks
  <2>1. Lines' = Lines /\ state' = state /\ halted' = halted /\ r = q
    BY <1>1, <1>3, <1>5, <1>7, SameLine
  <2>2. Counted'
    <3> SUFFICES ASSUME NEW p \in Sems, sems'[p].sem_queue \notin NoQueue
                 PROVE  Len(sems'[p].sem_queue) = IF sems'[p].count < 0 THEN -sems'[p].count ELSE 0
      BY DEF Counted
    <3>1. CASE p = s
      BY <1>1, <1>5, <1>6, <1>7, <2>1, <3>1
    <3>2. CASE p # s
      BY <1>5, <1>6, <3>2
    <3> QED
      BY <3>1, <3>2
  <2>3. Lined'
    BY <2>1 DEF Waits, Lined
  <2> QED
    BY <2>2, <2>3 DEF Waits
<1>8. CASE blocks /\ q \in NoQueue
  <2>1. r = q /\ state' = state /\ halted' = "NULL_QUEUE"
    BY <1>3, <1>8 DEF Enqueue, Blocked, EnqueueHalts
  <2>2. Lines' = Lines
    BY <1>1, <1>5, <2>1, SameLine
  <2>3. Counted'
    BY <2>1 DEF Counted, Running
  <2>4. Lined'
    BY <2>1, <2>2 DEF Waits, Lined
  <2> QED
    BY <2>3, <2>4 DEF Waits
<1>9. CASE blocks /\ q \notin NoQueue /\ Len(q) = MAX_TASKS
  <2>1. halted' = "PANIC_NUTS_SEM"
    BY <1>3, <1>9 DEF EnqueueHalts
  <2>2. Lines[o] = q
    BY <1>1, <1>9 DEF Line
  <2>3. ~(resumes <= 1)
    <3> SUFFICES ASSUME resumes <= 1
                 PROVE  FALSE
      OBVIOUS
    <3>1. LinedBy(Lines, state, resumes)
      BY DEF Waits, Lined
    <3>2. Len(Lines[o]) < MAX_TASKS
      BY <1>1, <1>2, <3>1, LinedBound
    <3> QED
      BY <1>9, <2>2, <3>2, SyncTasksAssumption
  <2> QED
    BY <2>1, <2>3 DEF Waits, Counted, Lined, Running
<1>10. CASE blocks /\ q \notin NoQueue /\ Len(q) # MAX_TASKS
  <2>1. r = Append(q, t) /\ state' = [state EXCEPT ![t] = "BLOCKED"] /\ halted' = halted
    BY <1>3, <1>10 DEF Enqueue, Blocked, EnqueueHalts
  <2>2. q \in Seq(Tasks) /\ Lines[o] = q
    BY <1>1, <1>10, LineOfQueue
  <2>3. r \in Seq(Tasks) /\ Len(r) = Len(q) + 1
    BY <2>1, <2>2, SMTT(30)
  <2>4. Line(r) = r
    BY <2>3, QueueSplit DEF Line
  <2>5. Joins(Lines, state, Lines', state', o, t)
    BY <1>5, <2>1, <2>2, <2>4, Zenon DEF Joins
  <2>6. Lined'
    <3> SUFFICES ASSUME resumes <= 1
                 PROVE  halted' # "PANIC_NUTS_SEM" /\ LinedBy(Lines', state', resumes')
      BY DEF Lined
    <3>1. LinedBy(Lines, state, resumes) /\ state[t] # "BLOCKED"
      BY <1>2 DEF Waits, Lined
    <3>2. LinedBy(Lines', state', resumes)
      BY <1>1, <2>5, <3>1, LinedChange
    <3> QED
      BY <1>2, <2>1, <3>2 DEF Running
  <2>7. Counted'
    <3> SUFFICES ASSUME NEW p \in Sems, sems'[p].sem_queue \notin NoQueue
                 PROVE  Len(sems'[p].sem_queue) = IF sems'[p].count < 0 THEN -sems'[p].count ELSE 0
      BY DEF Counted
    <3> HIDE DEF r
    <3>1. CASE p = s
      <4>1. Len(q) = IF sems[s].count < 0 THEN -sems[s].count ELSE 0
        BY <1>6, <1>10
      <4> QED
        <5> DEFINE k == sems[s].count
        <5>1. k \in Int /\ k - 1 < 0 /\ Len(r) = (IF k < 0 THEN -k ELSE 0) + 1
          BY <1>1, <1>10, <2>3, <4>1
        <5>2. sems'[p].count = k - 1 /\ sems'[p].sem_queue = r
          BY <1>5, <3>1
        <5> HIDE DEF k
        <5>3. Len(r) = IF k - 1 < 0 THEN -(k - 1) ELSE 0
          BY <5>1
        <5> QED
          BY <5>2, <5>3
    <3>2. CASE p # s
      BY <1>5, <1>6, <3>2
    <3> QED
      BY <3>1, <3>2
  <2> QED
    BY <2>6, <2>7 DEF Waits
<1> QED
  BY <1>7, <1>8, <1>9, <1>10

LEMMA SempostKeeps ==
    ASSUME SyncTypeOK, Waits, NEW t \in Tasks, NEW s \in Sems, hf_sempost(t, s),
           UNCHANGED resumes
    PROVE  Waits'
<1> DEFINE wakes == sems[s].count + 1 <= 0
           q == sems[s].sem_queue
           o == <<"sem", s>>
           r == IF wakes /\ q \notin NoQueue /\ q # << >> THEN Tail(q) ELSE q
<1>1. /\ q \in NoQueue \cup Seq(Tasks) /\ sems[s].count \in Int /\ Lines[o] = Line(q) /\ o \in Objects
      /\ Lines \in AllLines /\ state \in AllStates
  BY SyncTypes
<1>2. halted = Running /\ state[t] = "READY"
  BY DEF hf_sempost, At, CanRun
<1>3. /\ sems' = [sems EXCEPT ![s] = [count |-> sems[s].count + 1, sem_queue |-> r]]
      /\ state' = (IF wakes /\ q \notin NoQueue /\ q # << >> THEN [state EXCEPT ![Head(q)] = "READY"] ELSE state)
      /\ conds' = conds
  BY Zenon DEF hf_sempost
<1>4. halted' = (CASE wakes /\ q \in NoQueue -> "NULL_QUEUE"
                   [] wakes /\ q = << >> -> "PANIC_NUTS_SEM"
                   [] OTHER -> halted)
  BY Zenon DEF hf_sempost
<1>5. r \in NoQueue \cup Seq(Tasks)
  BY <1>1, DequeueTypes
<1>6. /\ sems'[s].count = sems[s].count + 1 /\ sems'[s].sem_queue = r
      /\ \A p \in Sems : p # s => sems'[p] = sems[p]
      /\ Lines' = [Lines EXCEPT ![o] = Line(r)]
  <2> HIDE DEF r
  <2>1. sems[s].count + 1 \in Int
    BY <1>1
  <2> QED
    BY <1>1, <1>3, <1>5, <2>1, SemQueueSet, ZenonT(40)
<1>7. \A p \in Sems : sems[p].sem_queue \notin NoQueue =>
          Len(sems[p].sem_queue) = IF sems[p].count < 0 THEN -sems[p].count ELSE 0
  BY <1>2 DEF Waits, Counted
<1>8. ASSUME Lines' = Lines, state' = state, halted' = halted \/ halted' = "NULL_QUEUE",
             halted' = Running /\ r \notin NoQueue =>
                 Len(r) = IF sems[s].count + 1 < 0 THEN -(sems[s].count + 1) ELSE 0
      PROVE  Waits'
  <2>1. Counted'
    <3> SUFFICES ASSUME halted' = Running, NEW p \in Sems, sems'[p].sem_queue \notin NoQueue
                 PROVE  Len(sems'[p].sem_queue) = IF sems'[p].count < 0 THEN -sems'[p].count ELSE 0
      BY DEF Counted
    <3> HIDE DEF r
    <3>1. CASE p = s
      BY <1>6, <1>8, <3>1
    <3>2. CASE p # s
      BY <1>6, <1>7, <3>2
    <3> QED
      BY <3>1, <3>2
  <2>2. Lined'
    BY <1>8 DEF Waits, Lined
  <2> QED
    BY <2>1, <2>2 DEF Waits
<1>9. CASE ~wakes
  <2>1. r = q /\ state' = state /\ halted' = halted
    BY <1>3, <1>4, <1>9
  <2>2. Lines' = Lines
    BY <1>1, <1>6, <2>1, SameLine
  <2>3. r \notin NoQueue => Len(r) = IF sems[s].count + 1 < 0 THEN -(sems[s].count + 1) ELSE 0
    <3>1. q \notin NoQueue => Len(q) = IF sems[s].count < 0 THEN -sems[s].count ELSE 0
      BY <1>7
    <3> QED
      BY <1>1, <1>9, <2>1, <3>1
  <2> QED
    BY <1>8, <2>1, <2>2, <2>3
<1>10. CASE wakes /\ q \in NoQueue
  <2>1. r = q /\ state' = state
    BY <1>3, <1>10
  <2>2. q # << >>
    BY <1>1, <1>10, QueueSplit
  <2>3. halted' = "NULL_QUEUE"
    BY <1>4, <1>10, <2>2
  <2>4. Lines' = Lines
    BY <1>1, <1>6, <2>1, SameLine
  <2> QED
    BY <1>8, <1>10, <2>1, <2>3, <2>4
<1>11. CASE wakes /\ q \notin NoQueue
  <2>1. q \in Seq(Tasks) /\ Lines[o] = q /\ Len(q) = -sems[s].count /\ sems[s].count < 0
    <3>1. Len(q) = IF sems[s].count < 0 THEN -sems[s].count ELSE 0
      BY <1>7, <1>11
    <3> QED
      BY <1>1, <1>11, <3>1, LineOfQueue
  <2>2. q # << >>
    BY <1>1, <2>1
  <2>3. r = Tail(q) /\ state' = [state EXCEPT ![Head(q)] = "READY"] /\ halted' = halted
    BY <1>3, <1>4, <1>11, <2>2
  <2>4. r \in Seq(Tasks) /\ Len(r) = Len(q) - 1
    <3>1. q \in Seq(Tasks) /\ q # << >>
      BY <2>1, <2>2
    <3> HIDE DEF q, r
    <3> QED
      BY <2>3, <3>1
  <2>5. Line(r) = r
    BY <2>4, QueueSplit DEF Line
  <2>6. Leaves(Lines, state, Lines', state', o)
    BY <1>6, <2>1, <2>2, <2>3, <2>5, Zenon DEF Leaves
  <2>7. Lined'
    <3> SUFFICES ASSUME resumes <= 1
                 PROVE  halted' # "PANIC_NUTS_SEM" /\ LinedBy(Lines', state', resumes')
      BY DEF Lined
    <3>1. LinedBy(Lines, state, resumes) /\ state[t] # "BLOCKED"
      BY <1>2 DEF Waits, Lined
    <3>2. LinedBy(Lines', state', resumes)
      BY <1>1, <2>6, <3>1, LinedChange
    <3> QED
      BY <1>2, <2>3, <3>2 DEF Running
  <2>8. Counted'
    <3> SUFFICES ASSUME NEW p \in Sems, sems'[p].sem_queue \notin NoQueue
                 PROVE  Len(sems'[p].sem_queue) = IF sems'[p].count < 0 THEN -sems'[p].count ELSE 0
      BY DEF Counted
    <3> HIDE DEF r
    <3>1. CASE p = s
      <4> DEFINE k == sems[s].count
      <4>1. k \in Int /\ k < 0 /\ Len(r) = -k - 1
        BY <1>1, <2>1, <2>4
      <4>2. sems'[p].count = k + 1 /\ sems'[p].sem_queue = r
        BY <1>6, <3>1
      <4> HIDE DEF k
      <4>3. Len(r) = IF k + 1 < 0 THEN -(k + 1) ELSE 0
        BY <4>1
      <4> QED
        BY <4>2, <4>3
    <3>2. CASE p # s
      BY <1>6, <1>7, <3>2
    <3> QED
      BY <3>1, <3>2
  <2> QED
    BY <2>7, <2>8 DEF Waits
<1> QED
  BY <1>9, <1>10, <1>11

LEMMA CondwaitKeeps ==
    ASSUME SyncTypeOK, Settled, Waits, NEW t \in Tasks \ {0}, NEW c \in Conds, hf_condwait(t, c, "m"),
           UNCHANGED resumes
    PROVE  Waits'
<1> DEFINE q == conds[c]
           o == <<"cond", c>>
           r == Enqueue(q, t)
<1>1. /\ q \in NoQueue \cup Seq(Tasks) /\ Lines[o] = Line(q) /\ o \in Objects
      /\ Lines \in AllLines /\ state \in AllStates
  BY SyncTypes
<1>2. halted = Running /\ state[t] = "READY"
  BY DEF hf_condwait, At, CanRun
<1>3. conds' = [conds EXCEPT ![c] = r] /\ halted' = EnqueueHalts(q) /\ state' = Blocked(q, t) /\ sems' = sems
  BY Zenon DEF hf_condwait
<1>4. r \in NoQueue \cup Seq(Tasks)
  BY <1>1, EnqueueTypes
<1>5. Lines' = [Lines EXCEPT ![o] = Line(r)]
  <2> HIDE DEF r
  <2> QED
    BY <1>3, <1>4, CondQueueSet, Zenon
<1>6. halted' = Running => Counted'
  BY <1>2, <1>3 DEF Waits, Counted
<1>7. halted' # Running => Counted'
  BY DEF Counted
<1>8. CASE q \in NoQueue
  <2>1. r = q /\ state' = state /\ halted' = "NULL_QUEUE"
    BY <1>3, <1>8 DEF Enqueue, Blocked, EnqueueHalts
  <2>2. Lines' = Lines
    BY <1>1, <1>5, <2>1, SameLine
  <2>3. Lined'
    BY <2>1, <2>2 DEF Waits, Lined
  <2> QED
    BY <1>6, <1>7, <2>3 DEF Waits
<1>9. CASE q \notin NoQueue /\ Len(q) = MAX_TASKS
  <2>1. ~(resumes <= 1)
    <3> SUFFICES ASSUME resumes <= 1
                 PROVE  FALSE
      OBVIOUS
    <3>1. LinedBy(Lines, state, resumes)
      BY DEF Waits, Lined
    <3>2. Len(Lines[o]) < MAX_TASKS
      BY <1>1, <1>2, <3>1, LinedBound
    <3>3. Lines[o] = q
      BY <1>1, <1>9 DEF Line
    <3> QED
      BY <1>9, <3>2, <3>3, SyncTasksAssumption
  <2>2. Lined'
    BY <2>1 DEF Lined
  <2> QED
    BY <1>6, <1>7, <2>2 DEF Waits
<1>10. CASE q \notin NoQueue /\ Len(q) # MAX_TASKS
  <2>1. r = Append(q, t) /\ state' = [state EXCEPT ![t] = "BLOCKED"] /\ halted' = halted
    BY <1>3, <1>10 DEF Enqueue, Blocked, EnqueueHalts
  <2>2. q \in Seq(Tasks) /\ Lines[o] = q
    BY <1>1, <1>10, LineOfQueue
  <2>3. r \in Seq(Tasks)
    BY <2>1, <2>2
  <2>4. Line(r) = r
    BY <2>3, QueueSplit DEF Line
  <2>5. Joins(Lines, state, Lines', state', o, t)
    BY <1>5, <2>1, <2>2, <2>4, Zenon DEF Joins
  <2>6. Lined'
    <3> SUFFICES ASSUME resumes <= 1
                 PROVE  halted' # "PANIC_NUTS_SEM" /\ LinedBy(Lines', state', resumes')
      BY DEF Lined
    <3>1. LinedBy(Lines, state, resumes) /\ state[t] # "BLOCKED"
      BY <1>2 DEF Waits, Lined
    <3>2. LinedBy(Lines', state', resumes)
      BY <1>1, <2>5, <3>1, LinedChange
    <3> QED
      BY <1>2, <2>1, <3>2 DEF Running
  <2> QED
    BY <1>6, <1>7, <2>6 DEF Waits
<1> QED
  BY <1>8, <1>9, <1>10

LEMMA CondsignalKeeps ==
    ASSUME SyncTypeOK, Waits, NEW t \in Tasks, NEW c \in Conds, UNCHANGED resumes,
           hf_condsignal(t, c)
    PROVE  Waits'
<1> DEFINE q == conds[c]
           o == <<"cond", c>>
           wakes == q \notin NoQueue /\ q # << >>
           r == IF wakes THEN Tail(q) ELSE q
<1>1. /\ q \in NoQueue \cup Seq(Tasks) /\ Lines[o] = Line(q) /\ o \in Objects
      /\ Lines \in AllLines /\ state \in AllStates
  BY SyncTypes
<1>2. halted = Running /\ state[t] = "READY"
  BY DEF hf_condsignal, At, CanRun
<1>3. /\ conds' = [conds EXCEPT ![c] = r] /\ sems' = sems
      /\ state' = (IF wakes THEN [state EXCEPT ![Head(q)] = "READY"] ELSE state)
      /\ halted' = (IF q \in NoQueue THEN "NULL_QUEUE" ELSE halted)
  BY Zenon DEF hf_condsignal
<1>4. r \in NoQueue \cup Seq(Tasks)
  BY <1>1, DequeueTypes
<1>5. Lines' = [Lines EXCEPT ![o] = Line(r)]
  <2> HIDE DEF r
  <2> QED
    BY <1>3, <1>4, CondQueueSet, Zenon
<1>6. Counted'
  BY <1>2, <1>3 DEF Waits, Counted
<1>7. CASE ~wakes
  <2>1. r = q /\ state' = state /\ halted' # "PANIC_NUTS_SEM"
    BY <1>2, <1>3, <1>7 DEF Running
  <2>2. Lines' = Lines
    BY <1>1, <1>5, <2>1, SameLine
  <2>3. Lined'
    BY <2>1, <2>2 DEF Waits, Lined
  <2> QED
    BY <1>6, <2>3 DEF Waits
<1>8. CASE wakes
  <2>1. q \in Seq(Tasks) /\ Lines[o] = q /\ q # << >>
    BY <1>1, <1>8, LineOfQueue
  <2>2. r = Tail(q) /\ state' = [state EXCEPT ![Head(q)] = "READY"] /\ halted' = halted
    BY <1>3, <1>8
  <2>3. r \in Seq(Tasks)
    BY <2>1, <2>2
  <2>4. Line(r) = r
    BY <2>3, QueueSplit DEF Line
  <2>5. Leaves(Lines, state, Lines', state', o)
    BY <1>5, <2>1, <2>2, <2>4, Zenon DEF Leaves
  <2>6. Lined'
    <3> SUFFICES ASSUME resumes <= 1
                 PROVE  halted' # "PANIC_NUTS_SEM" /\ LinedBy(Lines', state', resumes')
      BY DEF Lined
    <3>1. LinedBy(Lines, state, resumes) /\ state[t] # "BLOCKED"
      BY <1>2 DEF Waits, Lined
    <3>2. LinedBy(Lines', state', resumes)
      BY <1>1, <2>5, <3>1, LinedChange
    <3> QED
      BY <1>2, <2>2, <3>2 DEF Running
  <2> QED
    BY <1>6, <2>6 DEF Waits
<1> QED
  BY <1>7, <1>8

LEMMA CondbroadcastKeeps ==
    ASSUME SyncTypeOK, Waits, NEW t \in Tasks, NEW c \in Conds, UNCHANGED resumes,
           hf_condbroadcast(t, c)
    PROVE  Waits'
<1> DEFINE q == conds[c]
           o == <<"cond", c>>
           waiters == IF q \in NoQueue THEN {} ELSE ToSet(q)
           r == IF q \in NoQueue THEN q ELSE << >>
<1>1. /\ q \in NoQueue \cup Seq(Tasks) /\ Lines[o] = Line(q) /\ o \in Objects
      /\ Lines \in AllLines /\ state \in AllStates
  BY SyncTypes
<1>2. halted = Running /\ state[t] = "READY"
  BY DEF hf_condbroadcast, At, CanRun
<1>3. /\ conds' = [conds EXCEPT ![c] = r] /\ sems' = sems
      /\ state' = [i \in Tasks |-> IF i \in waiters THEN "READY" ELSE state[i]]
      /\ halted' = (IF q \in NoQueue THEN "NULL_QUEUE" ELSE halted)
  BY Zenon DEF hf_condbroadcast
<1>4. r \in NoQueue \cup Seq(Tasks)
  BY <1>1
<1>5. Lines' = [Lines EXCEPT ![o] = Line(r)]
  <2> HIDE DEF r
  <2> QED
    BY <1>3, <1>4, CondQueueSet, Zenon
<1>6. Counted'
  BY <1>2, <1>3 DEF Waits, Counted
<1>7. CASE q \in NoQueue
  <2>1. r = q /\ state' = state /\ halted' = "NULL_QUEUE"
    BY <1>1, <1>3, <1>7 DEF AllStates
  <2>2. Lines' = Lines
    BY <1>1, <1>5, <2>1, SameLine
  <2>3. Lined'
    BY <2>1, <2>2 DEF Waits, Lined
  <2> QED
    BY <1>6, <2>3 DEF Waits
<1>8. CASE q \notin NoQueue
  <2>1. q \in Seq(Tasks) /\ Lines[o] = q
    BY <1>1, <1>8, LineOfQueue
  <2>2. r = << >> /\ halted' = halted /\ waiters = ToSet(q)
    BY <1>3, <1>8
  <2>3. Line(r) = << >>
    BY <2>2 DEF Line
  <2>4. \A i : i \in waiters <=> \E k \in 1..Len(q) : q[k] = i
    BY <2>1, <2>2 DEF ToSet
  <2>5. state' = [i \in Tasks |-> IF \E k \in 1..Len(q) : q[k] = i THEN "READY" ELSE state[i]]
    <3> HIDE DEF waiters, q
    <3> QED
      BY <1>3, <2>4
  <2>6. Empties(Lines, state, Lines', state', o)
    <3> HIDE DEF q
    <3> QED
      BY <1>5, <2>1, <2>3, <2>5, Zenon DEF Empties
  <2>7. Lined'
    <3> SUFFICES ASSUME resumes <= 1
                 PROVE  halted' # "PANIC_NUTS_SEM" /\ LinedBy(Lines', state', resumes')
      BY DEF Lined
    <3>1. LinedBy(Lines, state, resumes) /\ state[t] # "BLOCKED"
      BY <1>2 DEF Waits, Lined
    <3>2. LinedBy(Lines', state', resumes)
      BY <1>1, <2>6, <3>1, LinedChange
    <3> QED
      BY <1>2, <2>2, <3>2 DEF Running
  <2> QED
    BY <1>6, <2>7 DEF Waits
<1> QED
  BY <1>7, <1>8

-----------------------------------------------------------------------------
(* The invariant. *)

Data == [buffer : [Cells -> {"free", "item"}], in : Cells, out : Cells, items : Int, rc : Int, wc : Int]

LEMMA CellNext ==
    ASSUME NEW i \in Cells
    PROVE  (i + 1) % N \in Cells
BY BufferAssumption DEF Cells

LEMMA StatementTypes ==
    ASSUME data \in Data, NEW op \in Statements
    PROVE  Statement(op) \in Data
<1>1. data.in \in Cells /\ data.out \in Cells /\ data.buffer \in [Cells -> {"free", "item"}]
  BY DEF Data
<1>2. (data.in + 1) % N \in Cells /\ (data.out + 1) % N \in Cells
  BY <1>1, CellNext
<1>3. CASE op \in {"in=(in+1)%N", "out=(out+1)%N"}
  BY <1>2, <1>3 DEF Statement, Data
<1>4. CASE op \in {"buffer[in]=item", "item=buffer[out]"}
  <2>1. /\ [data.buffer EXCEPT ![data.in] = "item"] \in [Cells -> {"free", "item"}]
        /\ [data.buffer EXCEPT ![data.out] = "free"] \in [Cells -> {"free", "item"}]
    BY <1>1
  <2> QED
    BY <1>4, <2>1 DEF Statement, Data
<1>5. CASE op \in {"items++", "items--", "rc++", "rc--", "wc++", "wc--"}
  BY <1>5, SMTT(30) DEF Statement, Data
<1>6. CASE op \in {"read", "write", "shared", "received", "idle"}
  BY <1>6 DEF Statement
<1> QED
  BY <1>3, <1>4, <1>5, <1>6 DEF Statements

LEMMA TypesUsed ==
    ASSUME IInv
    PROVE  SyncTypeOK /\ AppOK /\ PcOK /\ pc \in [Tasks -> 1..14] /\ data \in Data /\ resumes \in 0..MaxResumes
BY DEF IInv, TypeOK, AppOK, Data

LEMMA InitIInv ==
    ASSUME Init
    PROVE  IInv
<1>1. SyncTypeOK
  <2>1. /\ state \in [Tasks -> {"IDLE", "READY", "BLOCKED"}]
        /\ stage \in [Tasks -> {"run", "yield", "cond_yield", "relock", "level",
                                "waiting", "test_level", "test_waiting"}]
        /\ lock \in [Mtxs -> {0, 1}]
        /\ masked \in Tasks \cup {Nobody}
        /\ halted \in {Running, "PANIC_NUTS_SEM", "NULL_QUEUE"}
    BY DEF Init, SyncInit
  <2>2. /\ sems \in [Sems -> [count : Int, sem_queue : NoQueue \cup Seq(Tasks)]]
        /\ conds \in [Conds -> NoQueue \cup Seq(Tasks)]
    BY DEF Init, SyncInit, NoQueue
  <2>3. /\ [t \in Tasks |-> 0] \in [Tasks -> 0..(MAX_TASKS - 1)]
        /\ [l \in WaitingSlots |-> 0] \in [WaitingSlots -> Tasks]
    BY ZeroTask, SyncTasksAssumption
  <2>4. filter \in [Mtxs -> [level : [Tasks -> 0..(MAX_TASKS - 1)], waiting : [WaitingSlots -> Tasks]]]
    BY <2>3 DEF Init, SyncInit
  <2>5. (CHOOSE m \in Mtxs : TRUE) \in Mtxs
    BY AppsAssumption
  <2>6. local \in [Tasks -> [m : Mtxs, l : Levels, k : Tasks]]
    BY <2>5, ZeroTask, SyncTasksAssumption DEF Init, SyncInit, Levels
  <2> QED
    BY <2>1, <2>2, <2>4, <2>6 DEF SyncTypeOK
<1>2. AppOK
  BY DEF Init, AppOK
<1>3. \A t \in Tasks : Len(Program(t)) \in 2..13
  BY <1>2, ProgramOf DEF TaskProgram, MainProgram
<1>4. PcOK
  <2> SUFFICES ASSUME NEW t \in Tasks
               PROVE  pc[t] \in 1..Len(Program(t))
    BY DEF PcOK
  <2>1. pc[t] = 1
    BY DEF Init
  <2> DEFINE len == Len(Program(t))
  <2>2. len \in 2..13
    BY <1>3
  <2> HIDE DEF len
  <2>3. 1 \in 1..len
    BY <2>2
  <2> QED
    BY <2>1, <2>3 DEF len
<1>5. data \in Data
  <2>1. 0 \in Cells
    BY BufferAssumption DEF Cells
  <2> QED
    BY <2>1 DEF Init, Data
<1>6. TypeOK
  BY <1>1, <1>2, <1>5, AppsAssumption DEF Init, TypeOK, AppOK, Data
<1>7. \A o \in Objects : Lines[o] = << >>
  <2>1. /\ \A s \in Sems : Lines[<<"sem", s>>] = Line(NULL)
        /\ \A c \in Conds : Lines[<<"cond", c>>] = Line(NULL)
    BY <1>1, SyncTypes DEF Init, SyncInit
  <2>2. Line(NULL) = << >>
    BY DEF Line, NoQueue
  <2> QED
    BY <2>1, <2>2, ObjectCases
<1>8. state[0] = "READY" /\ \A t \in Tasks : state[t] # "BLOCKED"
  BY ZeroTask DEF Init, SyncInit
<1>9. Settled
  BY <1>7, <1>8 DEF Settled, Init, SyncInit
<1>10. Counted
  BY DEF Counted, Init, SyncInit, NoQueue
<1>11. LinedBy(Lines, state, 0)
  <2>1. <<"sem", "m">> \in Objects
    BY AppsAssumption DEF Objects
  <2>2. Sound(Lines, state, <<"sem", "m">>, 0)
    BY <1>7, <1>8, <2>1 DEF Sound, LiveBlocked, LiveDistinct, BlockedLive
  <2> QED
    BY <2>2, Zenon DEF LinedBy
<1>12. Lined
  BY <1>11 DEF Lined, Init, SyncInit, Running
<1> QED
  BY <1>4, <1>6, <1>9, <1>10, <1>12 DEF IInv

(* The programs of a step, for the next state. *)
LEMMA ProgramKept ==
    ASSUME UNCHANGED app
    PROVE  End' = End /\ \A t \in Tasks : Program(t)' = Program(t)
BY DEF End, Program

LEMMA PcKept ==
    ASSUME IInv, UNCHANGED app, NEW t \in Tasks, NEW n \in 1..Len(Program(t)),
           pc' = [pc EXCEPT ![t] = n]
    PROVE  /\ PcOK' /\ pc' \in [Tasks -> 1..14]
           /\ pc'[t] = n /\ \A u \in Tasks : u # t => pc'[u] = pc[u]
<1>1. pc \in [Tasks -> 1..14] /\ PcOK /\ AppOK
  BY TypesUsed
<1>3. n \in 1..14
  <2> DEFINE len == Len(Program(t))
  <2>1. len \in 2..13 /\ n \in 1..len
    BY <1>1, ProgramOf DEF TaskProgram, MainProgram
  <2> HIDE DEF len
  <2> QED
    BY <2>1
<1>4. pc'[t] = n /\ \A u \in Tasks : u # t => pc'[u] = pc[u]
  BY <1>1
<1>5. pc' \in [Tasks -> 1..14]
  BY <1>1, <1>3
<1>6. \A u \in Tasks : pc'[u] \in 1..Len(Program(u))
  BY <1>1, <1>4 DEF PcOK
<1>7. PcOK'
  BY <1>6, ProgramKept DEF PcOK
<1> QED
  BY <1>4, <1>5, <1>7

LEMMA TypesKept ==
    ASSUME IInv, SyncTypeOK', pc' \in [Tasks -> 1..14], data' \in Data, resumes' \in 0..MaxResumes,
           UNCHANGED app
    PROVE  TypeOK'
<1>1. app' \in [name : Apps, first : 1..(MAX_TASKS - 2)]
  BY TypesUsed DEF AppOK
<1> QED
  BY <1>1 DEF TypeOK, Data

(* What leaves the semaphores, the conditions and the states alone. *)
LEMMA QuietKeeps ==
    ASSUME IInv, UNCHANGED <<sems, conds, state, halted, resumes, app>>, pc'[0] = pc[0]
    PROVE  Settled' /\ Counted' /\ Lined'
<1>1. Lines' = Lines /\ End' = End
  BY ProgramKept DEF Lines
<1>2. Settled'
  BY <1>1 DEF IInv, Settled
<1>3. Counted'
  BY DEF IInv, Counted
<1>4. Lined'
  BY <1>1 DEF IInv, Lined
<1> QED
  BY <1>2, <1>3, <1>4

LEMMA TaskStepKeeps ==
    ASSUME IInv, NEW t \in Tasks \ {0}, Step(t)
    PROVE  IInv'
<1>1. /\ SyncTypeOK /\ AppOK /\ PcOK /\ pc \in [Tasks -> 1..14] /\ data \in Data /\ resumes \in 0..MaxResumes
      /\ Settled /\ Waits
  BY TypesUsed DEF IInv, Waits
<1>2. /\ TaskCall(t) /\ UNCHANGED <<app, resumes>>
      /\ \E n \in 1..Len(Program(t)) : pc' = [pc EXCEPT ![t] = n]
      /\ data' = data \/ \E op \in Statements : data' = Statement(op)
  BY <1>1, TaskStep
<1>3. SyncTypeOK'
  BY <1>1, <1>2, TaskCallTypes
<1>4. PcOK' /\ pc' \in [Tasks -> 1..14] /\ pc'[0] = pc[0]
  BY <1>2, PcKept, ZeroTask
<1>5. data' \in Data
  BY <1>1, <1>2, StatementTypes
<1>6. TypeOK'
  BY <1>1, <1>2, <1>3, <1>4, <1>5, TypesKept
<1>7. state[t] = "READY" /\ halted = Running
  BY DEF Step, At, CanRun
<1>8. pc[0] = End
  <2>1. pc[0] \in 1..End /\ End \in Nat
    BY <1>1, ZeroTask, ProgramOf DEF PcOK, End, MainProgram
  <2>2. ~(pc[0] < End)
    BY <1>1, <1>7 DEF Settled
  <2> QED
    BY <2>1, <2>2
<1>9. ~(pc[0] < End)
  BY <1>1, <1>8, ZeroTask, ProgramOf DEF End, MainProgram
<1>10. state'[0] = "READY" => Settled'
  BY <1>2, <1>4, <1>9, ProgramKept DEF Settled
<1>11. CASE UNCHANGED <<sems, conds, state, halted>>
  <2>1. Settled' /\ Counted' /\ Lined'
    BY <1>2, <1>4, <1>11, QuietKeeps
  <2> QED
    BY <1>4, <1>6, <2>1 DEF IInv
<1>12. state \in AllStates /\ state[0] = "READY" /\ 0 \in Tasks
  BY <1>1, SyncTypes, ZeroTask DEF Settled
<1>13. ASSUME NEW s \in Sems, hf_semwait(t, s)
       PROVE  IInv'
  <2>1. state'[0] = "READY"
    BY <1>12, <1>13 DEF hf_semwait, Blocked, AllStates
  <2>2. Waits'
    BY <1>1, <1>2, <1>13, SemwaitKeeps
  <2> QED
    BY <1>4, <1>6, <1>10, <2>1, <2>2 DEF IInv, Waits
<1>14. ASSUME NEW s \in Sems, hf_sempost(t, s)
       PROVE  IInv'
  <2>1. state'[0] = "READY"
    BY <1>12, <1>14 DEF hf_sempost, AllStates
  <2>2. Waits'
    BY <1>1, <1>2, <1>14, SempostKeeps
  <2> QED
    BY <1>4, <1>6, <1>10, <2>1, <2>2 DEF IInv, Waits
<1>15. ASSUME NEW c \in Conds, hf_condwait(t, c, "m")
       PROVE  IInv'
  <2>1. state'[0] = "READY"
    BY <1>12, <1>15 DEF hf_condwait, Blocked, AllStates
  <2>2. Waits'
    BY <1>1, <1>2, <1>15, CondwaitKeeps
  <2> QED
    BY <1>4, <1>6, <1>10, <2>1, <2>2 DEF IInv, Waits
<1>16. ASSUME NEW c \in Conds, hf_condsignal(t, c)
       PROVE  IInv'
  <2>1. state'[0] = "READY"
    BY <1>12, <1>16 DEF hf_condsignal, AllStates
  <2>2. Waits'
    BY <1>1, <1>2, <1>16, CondsignalKeeps
  <2> QED
    BY <1>4, <1>6, <1>10, <2>1, <2>2 DEF IInv, Waits
<1>17. ASSUME NEW c \in Conds, hf_condbroadcast(t, c)
       PROVE  IInv'
  <2>1. state'[0] = "READY"
    BY <1>12, <1>17 DEF hf_condbroadcast, AllStates
  <2>2. Waits'
    BY <1>1, <1>2, <1>17, CondbroadcastKeeps
  <2> QED
    BY <1>4, <1>6, <1>10, <2>1, <2>2 DEF IInv, Waits
<1>18. ASSUME NEW m \in Mtxs, \/ hf_mtxlock(t, m) \/ hf_mtxunlock(t, m)
                              \/ filter_mtxlock(t, m) \/ filter_mtxunlock(t, m)
       PROVE  IInv'
  BY <1>11, <1>18 DEF hf_mtxlock, hf_mtxunlock, filter_mtxlock, filter_mtxunlock
<1>19. CASE _di(t) \/ _ei(t) \/ UNCHANGED syncvars
  BY <1>11, <1>19 DEF _di, _ei, syncvars
<1> QED
  BY <1>2, <1>13, <1>14, <1>15, <1>16, <1>17, <1>18, <1>19 DEF TaskCall

LEMMA MainStepKeeps ==
    ASSUME IInv, Step(0)
    PROVE  IInv'
<1>1. /\ SyncTypeOK /\ AppOK /\ PcOK /\ pc \in [Tasks -> 1..14] /\ data \in Data /\ resumes \in 0..MaxResumes
      /\ Settled /\ Counted /\ Lined
  BY TypesUsed DEF IInv
<1>2. /\ pc[0] \in 1..End /\ End \in 3..7
      /\ \/ pc[0] < End - 1 /\ MainCall(0) /\ pc' = [pc EXCEPT ![0] = pc[0] + 1]
         \/ pc[0] = End - 1 /\ Start /\ pc' = [pc EXCEPT ![0] = End]
         \/ pc[0] = End /\ UNCHANGED <<syncvars, pc>>
      /\ UNCHANGED <<data, app, resumes>>
  BY <1>1, MainStep
<1>3. halted = Running
  BY DEF Step, At, CanRun
<1>4. CASE pc[0] = End /\ UNCHANGED <<syncvars, pc>>
  <2>1. Settled' /\ Counted' /\ Lined'
    BY <1>2, <1>4, QuietKeeps DEF syncvars
  <2>2. SyncTypeOK'
    BY <1>1, <1>4 DEF SyncTypeOK, syncvars
  <2>3. TypeOK'
    BY <1>1, <1>2, <1>4, <2>2, TypesKept
  <2>4. PcOK'
    BY <1>1, <1>2, <1>4, ProgramKept DEF PcOK
  <2> QED
    BY <2>1, <2>3, <2>4 DEF IInv
<1>5. CASE pc[0] < End
  <2>1. /\ \A t \in Tasks \ {0} : state[t] = "IDLE"
        /\ \A o \in Objects : Lines[o] = << >>
        /\ \A s \in Sems : sems[s].count >= 0
        /\ state[0] = "READY"
    BY <1>1, <1>5 DEF Settled
  (* Everything that is left to prove follows from the new lines. *)
  <2>2. ASSUME SyncTypeOK', PcOK', pc' \in [Tasks -> 1..14], halted' # "PANIC_NUTS_SEM",
               \A t \in Tasks : state'[t] # "BLOCKED",
               \A o \in Objects : Lines'[o] = << >>,
               \A s \in Sems : sems'[s].count >= 0,
               Settled'
        PROVE  IInv'
    <3>1. TypeOK'
      BY <1>1, <1>2, <2>2, TypesKept
    <3>2. Counted'
      <4> SUFFICES ASSUME NEW s \in Sems, sems'[s].sem_queue \notin NoQueue
                   PROVE  Len(sems'[s].sem_queue) = IF sems'[s].count < 0 THEN -sems'[s].count ELSE 0
        BY DEF Counted
      <4>1. sems' \in AllSems /\ conds' \in AllConds /\ sems'[s].count \in Int
        BY <2>2 DEF SyncTypeOK, AllSems, AllConds, Semaphore
      <4>2. Lines'[<<"sem", s>>] = Line(sems'[s].sem_queue) /\ <<"sem", s>> \in Objects
        BY <4>1, LinesTyped DEF Lines
      <4>3. sems'[s].sem_queue = << >>
        BY <2>2, <4>2 DEF Line
      <4> QED
        BY <2>2, <4>1, <4>3
    <3>3. <<"sem", "m">> \in Objects
      BY AppsAssumption DEF Objects
    <3>4. Sound(Lines', state', <<"sem", "m">>, 0)
      BY <2>2, <3>3 DEF Sound, LiveBlocked, LiveDistinct, BlockedLive
    <3>5. LinedBy(Lines', state', resumes')
      BY <3>4, Zenon DEF LinedBy
    <3>6. Lined'
      BY <2>2, <3>5 DEF Lined
    <3> QED
      BY <2>2, <3>1, <3>2, <3>6 DEF IInv
  <2>3. CASE pc[0] = End - 1 /\ Start /\ pc' = [pc EXCEPT ![0] = End]
    <3>1. End \in 1..Len(Program(0))
      BY <1>2 DEF End
    <3>2. PcOK' /\ pc' \in [Tasks -> 1..14] /\ pc'[0] = End /\ End' = End
      BY <1>2, <2>3, <3>1, PcKept, ProgramKept, ZeroTask
    <3>3. SyncTypeOK'
      BY <1>1, <2>3 DEF Start, SyncTypeOK
    <3>4. Lines' = Lines /\ halted' = halted /\ sems' = sems /\ \A t \in Tasks : state'[t] = "READY"
      BY <2>3 DEF Start, Lines
    <3>5. Settled'
      BY <1>2, <3>2, <3>4, ZeroTask DEF Settled
    <3> QED
      BY <1>3, <2>1, <2>2, <3>2, <3>3, <3>4, <3>5 DEF Running
  <2>4. CASE pc[0] < End - 1 /\ MainCall(0) /\ pc' = [pc EXCEPT ![0] = pc[0] + 1]
    <3>1. pc[0] + 1 \in 1..Len(Program(0)) /\ pc[0] + 1 < End
      BY <1>2, <2>4 DEF End
    <3>2. PcOK' /\ pc' \in [Tasks -> 1..14] /\ pc'[0] < End /\ End' = End
      BY <1>2, <2>4, <3>1, PcKept, ProgramKept, ZeroTask
    <3>3. SyncTypeOK'
      BY <1>1, <2>4, MainCallTypes, ZeroTask
    <3>4. /\ state' = state /\ halted' # "PANIC_NUTS_SEM"
          /\ \A o \in Objects : Lines'[o] = << >>
          /\ \A s \in Sems : sems'[s].count >= 0
      <4>1. sems \in AllSems /\ conds \in AllConds
        BY <1>1, SyncTypes
      <4>2. ASSUME UNCHANGED <<sems, conds>>
            PROVE  Lines' = Lines
        BY <4>2 DEF Lines
      <4>3. CASE \E m \in Mtxs : hf_mtxinit(0, m) \/ filter_mtxinit(0, m)
        BY <1>3, <2>1, <4>2, <4>3 DEF hf_mtxinit, filter_mtxinit, Running
      <4>4. ASSUME NEW s \in Sems, NEW n \in Int, n >= 0, NEW q \in NoQueue \cup Seq(Tasks), Line(q) = << >>,
                   sems' = [sems EXCEPT ![s] = [count |-> n, sem_queue |-> q]], UNCHANGED conds
            PROVE  (\A o \in Objects : Lines'[o] = << >>) /\ (\A p \in Sems : sems'[p].count >= 0)
        <5>1. /\ sems'[s].count = n /\ \A p \in Sems : p # s => sems'[p] = sems[p]
              /\ Lines' = [Lines EXCEPT ![<<"sem", s>>] = Line(q)]
          BY <1>1, <4>4, SemQueueSet
        <5>2. Lines \in AllLines
          BY <1>1, SyncTypes
        <5> QED
          BY <2>1, <4>4, <5>1, <5>2 DEF AllLines
      <4>5. ASSUME NEW c \in Conds, NEW q \in NoQueue \cup Seq(Tasks), Line(q) = << >>,
                   conds' = [conds EXCEPT ![c] = q], UNCHANGED sems
            PROVE  (\A o \in Objects : Lines'[o] = << >>) /\ (\A p \in Sems : sems'[p].count >= 0)
        <5>1. Lines' = [Lines EXCEPT ![<<"cond", c>>] = Line(q)]
          BY <1>1, <4>5, CondQueueSet
        <5>2. Lines \in AllLines
          BY <1>1, SyncTypes
        <5> QED
          BY <2>1, <4>5, <5>1, <5>2 DEF AllLines
      <4>6. /\ Line(<< >>) = << >> /\ Line(NULL) = << >> /\ Line(FREED) = << >>
            /\ << >> \in NoQueue \cup Seq(Tasks) /\ NULL \in NoQueue \cup Seq(Tasks) /\ FREED \in NoQueue \cup Seq(Tasks)
        BY DEF Line, NoQueue
      <4>7. ASSUME NEW s \in Sems, NEW mem \in BOOLEAN, NEW v \in Int, hf_seminit(0, s, v, mem)
            PROVE  /\ state' = state /\ halted' # "PANIC_NUTS_SEM"
                   /\ \A o \in Objects : Lines'[o] = << >>
                   /\ \A p \in Sems : sems'[p].count >= 0
        <5> DEFINE q == IF mem THEN << >> ELSE NULL
                   n == IF mem /\ v >= 0 THEN v ELSE sems[s].count
        <5>1. sems' = [sems EXCEPT ![s] = [count |-> n, sem_queue |-> q]] /\ conds' = conds
          BY <4>7, Zenon DEF hf_seminit
        <5>2. q \in NoQueue \cup Seq(Tasks) /\ Line(q) = << >>
          BY <4>6
        <5>3. n \in Int /\ n >= 0
          BY <1>1, <2>1, SyncTypes
        <5>4. state' = state /\ halted' # "PANIC_NUTS_SEM"
          BY <1>3, <4>7 DEF hf_seminit, Running
        <5> HIDE DEF q, n
        <5> QED
          BY <4>4, <5>1, <5>2, <5>3, <5>4
      <4>8. ASSUME NEW s \in Sems, hf_semdestroy(0, s)
            PROVE  /\ state' = state /\ halted' # "PANIC_NUTS_SEM"
                   /\ \A o \in Objects : Lines'[o] = << >>
                   /\ \A p \in Sems : sems'[p].count >= 0
        <5> DEFINE q == IF sems[s].sem_queue = << >> THEN FREED ELSE sems[s].sem_queue
                   n == sems[s].count
        <5>1. sems' = [sems EXCEPT ![s] = [count |-> n, sem_queue |-> q]] /\ conds' = conds
          BY <4>8, Zenon DEF hf_semdestroy
        <5>2. Line(sems[s].sem_queue) = << >> /\ sems[s].sem_queue \in NoQueue \cup Seq(Tasks) /\ n \in Int /\ n >= 0
          BY <1>1, <2>1, SyncTypes
        <5>3. q \in NoQueue \cup Seq(Tasks) /\ Line(q) = << >>
          BY <4>6, <5>2
        <5>4. state' = state /\ halted' # "PANIC_NUTS_SEM"
          BY <1>3, <4>8 DEF hf_semdestroy, Running
        <5> HIDE DEF q, n
        <5> QED
          BY <4>4, <5>1, <5>2, <5>3, <5>4
      <4>9. ASSUME NEW c \in Conds, NEW mem \in BOOLEAN, hf_condinit(0, c, mem)
            PROVE  /\ state' = state /\ halted' # "PANIC_NUTS_SEM"
                   /\ \A o \in Objects : Lines'[o] = << >>
                   /\ \A p \in Sems : sems'[p].count >= 0
        <5> DEFINE q == IF mem THEN << >> ELSE NULL
        <5>1. conds' = [conds EXCEPT ![c] = q] /\ sems' = sems
          BY <4>9, Zenon DEF hf_condinit
        <5>2. q \in NoQueue \cup Seq(Tasks) /\ Line(q) = << >>
          BY <4>6
        <5>3. state' = state /\ halted' # "PANIC_NUTS_SEM"
          BY <1>3, <4>9 DEF hf_condinit, Running
        <5> HIDE DEF q
        <5> QED
          BY <4>5, <5>1, <5>2, <5>3
      <4>10. ASSUME NEW c \in Conds, hf_conddestroy(0, c)
            PROVE  /\ state' = state /\ halted' # "PANIC_NUTS_SEM"
                   /\ \A o \in Objects : Lines'[o] = << >>
                   /\ \A p \in Sems : sems'[p].count >= 0
        <5> DEFINE q == IF conds[c] = << >> THEN FREED ELSE conds[c]
        <5>1. conds' = [conds EXCEPT ![c] = q] /\ sems' = sems
          BY <4>10, Zenon DEF hf_conddestroy
        <5>2. Line(conds[c]) = << >> /\ conds[c] \in NoQueue \cup Seq(Tasks)
          BY <1>1, <2>1, SyncTypes
        <5>3. q \in NoQueue \cup Seq(Tasks) /\ Line(q) = << >>
          BY <4>6, <5>2
        <5>4. state' = state /\ halted' # "PANIC_NUTS_SEM"
          BY <1>3, <4>10 DEF hf_conddestroy, Running
        <5> HIDE DEF q
        <5> QED
          BY <4>5, <5>1, <5>3, <5>4
      <4> QED
        BY <2>4, <4>3, <4>7, <4>8, <4>9, <4>10 DEF MainCall
    <3>5. Settled'
      BY <2>1, <3>2, <3>4 DEF Settled
    <3>6. \A t \in Tasks : state'[t] # "BLOCKED"
      BY <2>1, <3>4
    <3> QED
      BY <2>2, <3>2, <3>3, <3>4, <3>5, <3>6
  <2> QED
    BY <1>2, <1>5, <2>3, <2>4
<1> QED
  BY <1>2, <1>4, <1>5

LEMMA InsideKeeps ==
    ASSUME IInv, NEW t \in Tasks, Inside(t)
    PROVE  IInv'
<1>1. /\ SyncTypeOK /\ AppOK /\ PcOK /\ pc \in [Tasks -> 1..14] /\ data \in Data /\ resumes \in 0..MaxResumes
  BY TypesUsed
<1>2. UNCHANGED <<app, pc, data, resumes>> /\ InsideCall(t)
  BY DEF Inside
<1>3. UNCHANGED <<sems, conds, state, halted>>
  BY <1>2 DEF InsideCall, ReturnFromSemwait, CondYield, Relock, SetLevel, SetWaiting, TestLevel, TestWaiting
<1>4. SyncTypeOK'
  BY <1>1, <1>2, InsideTypes
<1>5. TypeOK'
  BY <1>1, <1>2, <1>4, TypesKept
<1>6. PcOK'
  BY <1>1, <1>2, ProgramKept DEF PcOK
<1>7. Settled' /\ Counted' /\ Lined'
  BY <1>2, <1>3, QuietKeeps
<1> QED
  BY <1>5, <1>6, <1>7 DEF IInv

LEMMA ResumeKeeps ==
    ASSUME IInv, NEW w \in Tasks, Resume(w)
    PROVE  IInv'
<1>1. /\ SyncTypeOK /\ AppOK /\ PcOK /\ pc \in [Tasks -> 1..14] /\ data \in Data /\ resumes \in 0..MaxResumes
      /\ Settled /\ Counted /\ Lined
  BY TypesUsed DEF IInv
<1>2. /\ UNCHANGED <<app, pc, data, sems, conds, halted, stage, lock, filter, local, masked>>
      /\ resumes' = resumes + 1 /\ resumes < MaxResumes
      /\ state[w] = "BLOCKED" /\ state' = [state EXCEPT ![w] = "READY"]
  BY DEF Resume, hf_resume
<1>3. SyncTypeOK'
  BY <1>1, <1>2 DEF SyncTypeOK
<1>4. resumes' \in 0..MaxResumes
  BY <1>1, <1>2, AppsAssumption
<1>5. TypeOK'
  BY <1>1, <1>2, <1>3, <1>4, TypesKept
<1>6. PcOK'
  BY <1>1, <1>2, ProgramKept DEF PcOK
<1>7. Lines' = Lines /\ End' = End
  BY <1>2, ProgramKept DEF Lines
<1>8. state \in AllStates /\ Lines \in AllLines
  BY <1>1, SyncTypes
<1>9. w # 0 /\ ~(pc[0] < End) /\ state'[0] = "READY"
  BY <1>1, <1>2, <1>8, ZeroTask DEF Settled, AllStates
<1>10. Settled'
  BY <1>2, <1>7, <1>9 DEF Settled
<1>11. Counted'
  BY <1>1, <1>2 DEF Counted
<1>12. Lined'
  <2> SUFFICES ASSUME resumes' <= 1
               PROVE  halted' # "PANIC_NUTS_SEM" /\ LinedBy(Lines', state', resumes')
    BY DEF Lined
  <2>1. resumes = 0 /\ resumes' = 1
    BY <1>1, <1>2, AppsAssumption
  <2>2. halted # "PANIC_NUTS_SEM" /\ LinedBy(Lines, state, 0)
    BY <1>1, <2>1 DEF Lined
  <2>3. PICK h, n : Sound(Lines, state, h, n) /\ (0 = 0 => n = 0)
    BY <2>2, Zenon DEF LinedBy
  <2>4. Sound(Lines, state, h, 0)
    BY <2>3
  <2>5. LinedBy(Lines, [state EXCEPT ![w] = "READY"], 1)
    BY <1>2, <1>8, <2>4, SoundResumed, Zenon
  <2> QED
    BY <1>2, <1>7, <2>1, <2>2, <2>5
<1> QED
  BY <1>5, <1>6, <1>10, <1>11, <1>12 DEF IInv

LEMMA StutterKeeps ==
    ASSUME IInv, UNCHANGED vars
    PROVE  IInv'
<1>1. /\ SyncTypeOK /\ AppOK /\ PcOK /\ pc \in [Tasks -> 1..14] /\ data \in Data /\ resumes \in 0..MaxResumes
  BY TypesUsed
<1>2. UNCHANGED <<sems, conds, state, halted, resumes, app, pc, data, stage, lock, filter, local, masked>>
  BY DEF vars, syncvars
<1>3. SyncTypeOK'
  BY <1>1, <1>2 DEF SyncTypeOK
<1>4. TypeOK'
  BY <1>1, <1>2, <1>3, TypesKept
<1>5. PcOK'
  BY <1>1, <1>2, ProgramKept DEF PcOK
<1>6. Settled' /\ Counted' /\ Lined'
  BY <1>2, QuietKeeps
<1> QED
  BY <1>4, <1>5, <1>6 DEF IInv

(* The invariant holds in every state of every application, whatever their *)
(* number of tasks and of resumed waiters.                                 *)
THEOREM SyncInvariant == Spec => []IInv
<1>1. Init => IInv
  BY InitIInv
<1>2. IInv /\ [Next]_vars => IInv'
  <2> SUFFICES ASSUME IInv, [Next]_vars
               PROVE  IInv'
    OBVIOUS
  <2>1. ASSUME NEW t \in Tasks, Step(t)
        PROVE  IInv'
    BY <2>1, TaskStepKeeps, MainStepKeeps
  <2>2. ASSUME NEW t \in Tasks, Inside(t)
        PROVE  IInv'
    BY <2>2, InsideKeeps
  <2>3. ASSUME NEW t \in Tasks, Resume(t)
        PROVE  IInv'
    BY <2>3, ResumeKeeps
  <2>4. CASE Stopped \/ UNCHANGED vars
    BY <2>4, StutterKeeps DEF Stopped
  <2> QED
    BY <2>1, <2>2, <2>3, <2>4 DEF Next
<1> QED
  BY <1>1, <1>2, PTL DEF Spec

-----------------------------------------------------------------------------
(* A line is the queue of its object. *)
LEMMA LinesAreQueues ==
    ASSUME SyncTypeOK, NEW o \in Objects
    PROVE  /\ QueueOf(o) = Lines[o] /\ Lines[o] \in Seq(Tasks)
           /\ DOMAIN QueueOf(o) = 1..Len(Lines[o])
           /\ \A t : t \in ToSet(QueueOf(o)) <=> \E i \in 1..Len(Lines[o]) : Lines[o][i] = t
<1>1. Lines[o] \in Seq(Tasks)
  BY SyncTypes DEF AllLines
<1>2. QueueOf(o) = Lines[o]
  BY DEF QueueOf, Lines, LinesOf, Line
<1> QED
  BY <1>1, <1>2 DEF ToSet

(* No wake-up is lost and, as long as at most one waiter was resumed by    *)
(* hf_resume(), the panics of the semaphores are not reached, for every    *)
(* number of tasks, applications and cells (hf_semwait, hf_sempost,        *)
(* hf_condwait, hf_condsignal, hf_condbroadcast).                          *)
THEOREM SyncWaitersAreQueued == Spec => []WaitersAreQueued
<1>1. IInv => WaitersAreQueued
  <2> SUFFICES ASSUME IInv
               PROVE  WaitersAreQueued
    OBVIOUS
  <2>1. SyncTypeOK
    BY TypesUsed
  <2>2. resumes <= 1 => halted # "PANIC_NUTS_SEM" /\ LinedBy(Lines, state, resumes)
    BY DEF IInv, Lined
  <2>3. \A s \in Sems : sems[s].sem_queue \notin NoQueue /\ halted = Running =>
            Len(sems[s].sem_queue) = IF sems[s].count < 0 THEN -sems[s].count ELSE 0
    BY DEF IInv, Counted
  <2>4. ASSUME NEW t \in Tasks, resumes <= 1, state[t] = "BLOCKED"
        PROVE  \E o \in Objects : t \in ToSet(QueueOf(o))
    <3>1. LinedBy(Lines, state, resumes)
      BY <2>2, <2>4
    <3>2. PICK h, n : Sound(Lines, state, h, n) /\ (resumes = 0 => n = 0)
      BY <3>1, Zenon DEF LinedBy
    <3>3. PICK o \in Objects : \E i \in 1..Len(Lines[o]) : Lines[o][i] = t
      BY <2>4, <3>2 DEF Sound, BlockedLive
    <3> QED
      BY <2>1, <3>3, LinesAreQueues
  <2> QED
    BY <2>2, <2>3, <2>4 DEF WaitersAreQueued, IInv
<1> QED
  BY <1>1, SyncInvariant, PTL

(* A task is in the queues as often as it is blocked, once and in the      *)
(* queue of one object, or not at all, until a waiter is resumed or a      *)
(* queue that could not be created is used (hf_semwait, hf_sempost,        *)
(* hf_condwait, hf_condsignal, hf_condbroadcast).                          *)
THEOREM SyncQueuedOnce == Spec => []QueuedOnce
<1>1. IInv => QueuedOnce
  <2> SUFFICES ASSUME IInv, resumes = 0
               PROVE  /\ \A t \in Tasks : state[t] = "BLOCKED" <=> \E o \in Objects : t \in ToSet(QueueOf(o))
                      /\ \A o \in Objects : IsInjective(QueueOf(o))
                      /\ \A o, p \in Objects : o # p => ToSet(QueueOf(o)) \cap ToSet(QueueOf(p)) = {}
    BY DEF QueuedOnce, Regular
  <2>1. SyncTypeOK
    BY TypesUsed
  <2>2. LinedBy(Lines, state, 0)
    BY DEF IInv, Lined
  <2>3. PICK h, n : Sound(Lines, state, h, n) /\ (0 = 0 => n = 0)
    BY <2>2, Zenon DEF LinedBy
  <2>4. \A o \in Objects : \A i \in 1..Len(Lines[o]) : Live(h, n, o, i)
    BY <2>3 DEF Live
  <2>5. /\ \A o \in Objects : \A i \in 1..Len(Lines[o]) : state[Lines[o][i]] = "BLOCKED"
        /\ \A o, p \in Objects : \A i \in 1..Len(Lines[o]), j \in 1..Len(Lines[p]) :
               Lines[o][i] = Lines[p][j] => o = p /\ i = j
        /\ \A t \in Tasks : state[t] = "BLOCKED" =>
               \E o \in Objects : \E i \in 1..Len(Lines[o]) : Lines[o][i] = t
    BY <2>3, <2>4 DEF Sound, LiveBlocked, LiveDistinct, BlockedLive
  <2>6. \A t \in Tasks : state[t] = "BLOCKED" <=> \E o \in Objects : t \in ToSet(QueueOf(o))
    BY <2>1, <2>5, LinesAreQueues
  <2>7. ASSUME NEW o \in Objects
        PROVE  IsInjective(QueueOf(o))
    BY <2>1, <2>5, LinesAreQueues DEF IsInjective
  <2>8. ASSUME NEW o \in Objects, NEW p \in Objects, o # p
        PROVE  ToSet(QueueOf(o)) \cap ToSet(QueueOf(p)) = {}
    BY <2>1, <2>5, <2>8, LinesAreQueues
  <2> QED
    BY <2>6, <2>7, <2>8
<1> QED
  BY <1>1, SyncInvariant, PTL

-----------------------------------------------------------------------------
(* Mutual exclusion.                                                       *)

(* The tasks in the queue of a semaphore. *)
SemQueue(s) == ToSet(Line(sems[s].sem_queue))

Role(t) == IF t <= app.first THEN 1 ELSE 2
Succ(k, len) == IF k = len THEN 1 ELSE k + 1

IsOp(i, op, s) == i.op = op /\ i.obj = s

(* A task in the queue of a semaphore is in the call of hf_semwait() that  *)
(* precedes its next instruction.                                          *)
Parked ==
    \A s \in Sems : \A t \in SemQueue(s) :
        /\ t # 0 /\ stage[t] = "yield" /\ pc[t] # 1
        /\ IsOp(Program(t)[pc[t] - 1], "hf_semwait", s)

(* A task does not move before it is spawned. *)
Booted ==
    /\ stage[0] = "run"
    /\ pc[0] < End => \A t \in Tasks \ {0} : pc[t] = 1 /\ stage[t] = "run"

LEMMA ToSetMembers ==
    ASSUME NEW D, NEW q \in Seq(D)
    PROVE  /\ \A x : x \in ToSet(q) <=> \E i \in 1..Len(q) : q[i] = x
           /\ ToSet(q) \subseteq D
           /\ ToSet(q) = {} <=> q = << >>
<1>1. \A x : x \in ToSet(q) <=> \E i \in 1..Len(q) : q[i] = x
  BY DEF ToSet
<1>2. q # << >> => q[1] \in ToSet(q)
  BY <1>1
<1>3. q = << >> => ToSet(q) = {}
  BY <1>1
<1> QED
  BY <1>1, <1>2, <1>3

LEMMA ToSetAppended ==
    ASSUME NEW D, NEW q \in Seq(D), NEW t \in D
    PROVE  ToSet(Append(q, t)) = ToSet(q) \cup {t}
<1> DEFINE r == Append(q, t)
<1>1. r \in Seq(D) /\ Len(r) = Len(q) + 1 /\ r[Len(q) + 1] = t /\ \A i \in 1..Len(q) : r[i] = q[i]
  OBVIOUS
<1>2. Len(q) \in Nat
  OBVIOUS
<1> HIDE DEF r
<1>3. \A x : x \in ToSet(r) <=> \E i \in 1..Len(r) : r[i] = x
  BY <1>1, ToSetMembers
<1>4. \A x : x \in ToSet(q) <=> \E i \in 1..Len(q) : q[i] = x
  BY ToSetMembers
<1>5. ASSUME NEW x \in ToSet(r)
      PROVE  x \in ToSet(q) \cup {t}
  <2>1. PICK i \in 1..Len(r) : r[i] = x
    BY <1>3, <1>5
  <2>2. i \in 1..Len(q) \/ i = Len(q) + 1
    BY <1>1, <1>2, <2>1
  <2> QED
    BY <1>1, <1>4, <2>1, <2>2
<1>6. ToSet(q) \cup {t} \subseteq ToSet(r)
  <2>1. t \in ToSet(r)
    BY <1>1, <1>2, <1>3
  <2>2. ASSUME NEW x \in ToSet(q) PROVE x \in ToSet(r)
    <3>1. PICK i \in 1..Len(q) : q[i] = x
      BY <1>4, <2>2
    <3>2. i \in 1..Len(r)
      BY <1>1, <1>2, <3>1
    <3> QED
      BY <1>1, <1>3, <3>1, <3>2
  <2> QED
    BY <2>1, <2>2
<1> QED
  BY <1>5, <1>6 DEF r

LEMMA ToSetTail ==
    ASSUME NEW D, NEW q \in Seq(D), q # << >>,
           \A i, j \in 1..Len(q) : q[i] = q[j] => i = j
    PROVE  ToSet(Tail(q)) = ToSet(q) \ {Head(q)} /\ Head(q) \in ToSet(q)
<1> DEFINE r == Tail(q)
<1>1. /\ r \in Seq(D) /\ Len(r) = Len(q) - 1 /\ \A i \in 1..Len(r) : r[i] = q[i + 1]
      /\ Head(q) = q[1] /\ Len(q) \in Nat \ {0}
  OBVIOUS
<1> HIDE DEF r
<1>2. \A x : x \in ToSet(r) <=> \E i \in 1..Len(r) : r[i] = x
  BY <1>1, ToSetMembers
<1>3. \A x : x \in ToSet(q) <=> \E i \in 1..Len(q) : q[i] = x
  BY ToSetMembers
<1>4. ASSUME NEW x \in ToSet(r)
      PROVE  x \in ToSet(q) \ {Head(q)}
  <2>1. PICK i \in 1..Len(r) : r[i] = x
    BY <1>2, <1>4
  <2>2. i + 1 \in 1..Len(q) /\ i + 1 # 1 /\ 1 \in 1..Len(q)
    BY <1>1, <2>1
  <2>3. q[i + 1] = x
    BY <1>1, <2>1
  <2>4. q[i + 1] # q[1]
    BY <2>2
  <2> QED
    BY <1>1, <1>3, <2>2, <2>3, <2>4
<1>5. ASSUME NEW x \in ToSet(q) \ {Head(q)}
      PROVE  x \in ToSet(r)
  <2>1. PICK i \in 1..Len(q) : q[i] = x
    BY <1>3, <1>5
  <2>2. i # 1
    BY <1>1, <1>5, <2>1
  <2>3. i - 1 \in 1..Len(r) /\ (i - 1) + 1 = i
    BY <1>1, <2>1, <2>2
  <2>4. r[i - 1] = x
    BY <1>1, <2>1, <2>3
  <2> QED
    BY <1>2, <2>3, <2>4
<1>6. Head(q) \in ToSet(q)
  BY <1>1, <1>3
<1> QED
  BY <1>4, <1>5, <1>6 DEF r

LEMMA QueueFacts ==
    ASSUME IInv, Regular
    PROVE  /\ SyncTypeOK
           /\ \A s \in Sems :
               /\ sems[s].count \in Int
               /\ SemQueue(s) \subseteq Tasks
               /\ \A t \in SemQueue(s) : state[t] = "BLOCKED"
               /\ sems[s].sem_queue \in NoQueue => SemQueue(s) = {}
               /\ sems[s].sem_queue \notin NoQueue =>
                      /\ sems[s].sem_queue \in Seq(Tasks)
                      /\ sems[s].sem_queue = << >> <=> sems[s].count >= 0
                      /\ SemQueue(s) = ToSet(sems[s].sem_queue)
                      /\ \A i, j \in 1..Len(sems[s].sem_queue) :
                             sems[s].sem_queue[i] = sems[s].sem_queue[j] => i = j
<1>1. SyncTypeOK
  BY TypesUsed
<1>2. LinedBy(Lines, state, 0)
  BY DEF IInv, Lined, Regular
<1>3. PICK h, n : Sound(Lines, state, h, n) /\ (0 = 0 => n = 0)
  BY <1>2, Zenon DEF LinedBy
<1>4. \A o \in Objects : \A i \in 1..Len(Lines[o]) : Live(h, n, o, i)
  BY <1>3 DEF Live
<1>5. /\ \A o \in Objects : \A i \in 1..Len(Lines[o]) : state[Lines[o][i]] = "BLOCKED"
      /\ \A o, p \in Objects : \A i \in 1..Len(Lines[o]), j \in 1..Len(Lines[p]) :
             Lines[o][i] = Lines[p][j] => o = p /\ i = j
  BY <1>3, <1>4 DEF Sound, LiveBlocked, LiveDistinct
<1>6. ASSUME NEW s \in Sems
      PROVE  /\ sems[s].count \in Int
             /\ SemQueue(s) \subseteq Tasks
             /\ \A t \in SemQueue(s) : state[t] = "BLOCKED"
             /\ sems[s].sem_queue \in NoQueue => SemQueue(s) = {}
             /\ sems[s].sem_queue \notin NoQueue =>
                    /\ sems[s].sem_queue \in Seq(Tasks)
                    /\ sems[s].sem_queue = << >> <=> sems[s].count >= 0
                    /\ SemQueue(s) = ToSet(sems[s].sem_queue)
                    /\ \A i, j \in 1..Len(sems[s].sem_queue) :
                           sems[s].sem_queue[i] = sems[s].sem_queue[j] => i = j
  <2> DEFINE q == sems[s].sem_queue
             o == <<"sem", s>>
  <2>1. o \in Objects /\ Lines[o] = Line(q) /\ sems[s].count \in Int /\ q \in NoQueue \cup Seq(Tasks)
    BY <1>1, SyncTypes
  <2>2. Line(q) \in Seq(Tasks) /\ (q \in NoQueue => Line(q) = << >>) /\ (q \notin NoQueue => Line(q) = q /\ q \in Seq(Tasks))
    BY <2>1, LineOfQueue
  <2>3. /\ \A x : x \in SemQueue(s) <=> \E i \in 1..Len(Line(q)) : Line(q)[i] = x
        /\ SemQueue(s) \subseteq Tasks
        /\ SemQueue(s) = {} <=> Line(q) = << >>
    BY <2>2, ToSetMembers DEF SemQueue
  <2>4. q \notin NoQueue => Len(q) = IF sems[s].count < 0 THEN -sems[s].count ELSE 0
    BY DEF IInv, Counted, Regular
  <2>5. q \notin NoQueue => (q = << >> <=> Len(q) = 0)
    BY <2>2
  <2>6. q \notin NoQueue => (q = << >> <=> sems[s].count >= 0)
    BY <2>1, <2>4, <2>5
  <2>7. \A t \in SemQueue(s) : state[t] = "BLOCKED"
    BY <1>5, <2>1, <2>3
  <2>8. q \notin NoQueue => \A i, j \in 1..Len(q) : q[i] = q[j] => i = j
    BY <1>5, <2>1, <2>2
  <2> QED
    BY <2>1, <2>2, <2>3, <2>6, <2>7, <2>8 DEF SemQueue
<1> QED
  BY <1>1, <1>6

(* The semaphores other than s. *)
OthersKept(s) == \A r \in Sems : r # s => sems'[r] = sems[r] /\ SemQueue(r)' = SemQueue(r)

(* What hf_semwait() and hf_sempost() do when the system goes on. *)
Waited(t, s) ==
    /\ sems'[s].count = sems[s].count - 1
    /\ sems'[s].sem_queue \in NoQueue <=> sems[s].sem_queue \in NoQueue
    /\ \/ sems[s].count >= 1 /\ SemQueue(s)' = SemQueue(s) /\ stage' = stage
       \/ /\ sems[s].count <= 0 /\ sems[s].sem_queue \notin NoQueue
          /\ SemQueue(s)' = SemQueue(s) \cup {t} /\ stage' = [stage EXCEPT ![t] = "yield"]

Posted(s) ==
    /\ sems'[s].count = sems[s].count + 1
    /\ sems'[s].sem_queue \in NoQueue <=> sems[s].sem_queue \in NoQueue
    /\ stage' = stage
    /\ \/ sems[s].count >= 0 /\ SemQueue(s)' = SemQueue(s)
       \/ /\ sems[s].count < 0 /\ sems[s].sem_queue \notin NoQueue
          /\ \E h \in SemQueue(s) : SemQueue(s)' = SemQueue(s) \ {h}

LEMMA OthersSame ==
    ASSUME NEW s \in Sems, \A r \in Sems : r # s => sems'[r] = sems[r]
    PROVE  OthersKept(s)
BY DEF OthersKept, SemQueue

LEMMA SemwaitEffect ==
    ASSUME IInv, Regular, Regular', NEW t \in Tasks \ {0}, NEW s \in Sems, hf_semwait(t, s)
    PROVE  OthersKept(s) /\ Waited(t, s)
<1> DEFINE q == sems[s].sem_queue
           n == sems[s].count
<1>1. /\ SyncTypeOK /\ n \in Int
      /\ q \notin NoQueue => q \in Seq(Tasks)
  BY QueueFacts
<1>2. q \in NoQueue \cup Seq(Tasks)
  BY <1>1, SyncTypes
<1>3. stage \in [Tasks -> {"run", "yield", "cond_yield", "relock", "level",
                            "waiting", "test_level", "test_waiting"}] /\ stage[t] = "run"
  BY <1>1 DEF SyncTypeOK, hf_semwait, At
<1>4. sems \in [Sems -> Semaphore]
  BY <1>1, SyncTypes DEF AllSems
<1>5. CASE n - 1 < 0
  <2>1. /\ sems' = [sems EXCEPT ![s] = [count |-> n - 1, sem_queue |-> Enqueue(q, t)]]
        /\ halted' = EnqueueHalts(q) /\ Go(t, "yield") /\ conds' = conds
    BY <1>5, Zenon DEF hf_semwait
  <2>2. halted' = Running
    BY DEF Regular
  <2>3. q \notin NoQueue /\ Len(q) # MAX_TASKS
    BY <2>1, <2>2 DEF EnqueueHalts, Running
  <2>4. Enqueue(q, t) = Append(q, t) /\ q \in Seq(Tasks)
    BY <1>1, <2>3 DEF Enqueue
  <2>5. Enqueue(q, t) \in Seq(Tasks) /\ Enqueue(q, t) \in NoQueue \cup Seq(Tasks) /\ n - 1 \in Int
    BY <1>1, <2>4
  <2>6. /\ sems'[s].count = n - 1 /\ sems'[s].sem_queue = Enqueue(q, t)
        /\ \A r \in Sems : r # s => sems'[r] = sems[r]
    <3> DEFINE p == Enqueue(q, t)
               c == n - 1
    <3>1. p \in NoQueue \cup Seq(Tasks) /\ c \in Int
      BY <2>5
    <3>2. sems' = [sems EXCEPT ![s] = [count |-> c, sem_queue |-> p]]
      BY <2>1
    <3> HIDE DEF p, c
    <3>3. SemChanged(sems, sems', s, c, p)
      BY <1>4, <3>1, <3>2, SemSet
    <3> QED
      BY <3>3 DEF p, c, SemChanged
  <2>7. Enqueue(q, t) \notin NoQueue
    BY <2>5, QueueSplit
  <2>8. Line(q) = q /\ Line(Enqueue(q, t)) = Enqueue(q, t)
    BY <2>3, <2>7 DEF Line
  <2>9. SemQueue(s)' = SemQueue(s) \cup {t}
    BY <2>4, <2>6, <2>8, ToSetAppended DEF SemQueue
  <2>10. n <= 0
    BY <1>1, <1>5
  <2> QED
    BY <2>1, <2>3, <2>6, <2>7, <2>9, <2>10, OthersSame DEF Waited, Go
<1>6. CASE ~(n - 1 < 0)
  <2>1. /\ sems' = [sems EXCEPT ![s] = [count |-> n - 1, sem_queue |-> q]]
        /\ Go(t, "run") /\ conds' = conds
    BY <1>6, Zenon DEF hf_semwait
  <2>2. n - 1 \in Int /\ n >= 1
    BY <1>1, <1>6
  <2>3. /\ sems'[s].count = n - 1 /\ sems'[s].sem_queue = q
        /\ \A r \in Sems : r # s => sems'[r] = sems[r]
    BY <1>1, <1>2, <2>1, <2>2, SemQueueSet
  <2>4. SemQueue(s)' = SemQueue(s)
    BY <2>3 DEF SemQueue
  <2>5. stage' = stage
    BY <1>3, <2>1 DEF Go
  <2> QED
    BY <2>2, <2>3, <2>4, <2>5, OthersSame DEF Waited
<1> QED
  BY <1>5, <1>6

LEMMA SempostEffect ==
    ASSUME IInv, Regular, Regular', NEW t \in Tasks \ {0}, NEW s \in Sems, hf_sempost(t, s)
    PROVE  OthersKept(s) /\ Posted(s)
<1> DEFINE q == sems[s].sem_queue
           n == sems[s].count
<1>1. /\ SyncTypeOK /\ n \in Int
      /\ q \notin NoQueue => /\ q \in Seq(Tasks)
                             /\ q = << >> <=> n >= 0
                             /\ \A i, j \in 1..Len(q) : q[i] = q[j] => i = j
  BY QueueFacts
<1>2. q \in NoQueue \cup Seq(Tasks)
  BY <1>1, SyncTypes
<1>3. stage' = stage /\ conds' = conds /\ halted' = Running
  BY DEF hf_sempost, Regular
<1>4. sems \in [Sems -> Semaphore]
  BY <1>1, SyncTypes DEF AllSems
<1>5. CASE n + 1 <= 0
  <2>1. /\ sems' = [sems EXCEPT ![s] = [count |-> n + 1, sem_queue |-> IF q \notin NoQueue /\ q # << >>
                                                                       THEN Tail(q) ELSE q]]
        /\ halted' = CASE q \in NoQueue -> "NULL_QUEUE"
                       [] q = << >> -> "PANIC_NUTS_SEM"
                       [] OTHER -> halted
    BY <1>5, Zenon DEF hf_sempost
  <2>2. q \notin NoQueue /\ q # << >>
    <3>1. q \in NoQueue => ~(q = << >>)
      BY <1>2, QueueSplit
    <3>2. q \notin NoQueue
      BY <1>3, <2>1, <3>1 DEF Running
    <3> QED
      BY <1>1, <1>5, <3>2
  <2>3. sems' = [sems EXCEPT ![s] = [count |-> n + 1, sem_queue |-> Tail(q)]]
    BY <2>1, <2>2
  <2>4. Tail(q) \in Seq(Tasks) /\ Tail(q) \in NoQueue \cup Seq(Tasks) /\ n + 1 \in Int /\ n < 0
    BY <1>1, <1>5, <2>2
  <2>5. /\ sems'[s].count = n + 1 /\ sems'[s].sem_queue = Tail(q)
        /\ \A r \in Sems : r # s => sems'[r] = sems[r]
    <3> DEFINE p == Tail(q)
               c == n + 1
    <3>1. p \in NoQueue \cup Seq(Tasks) /\ c \in Int
      BY <2>4
    <3>2. sems' = [sems EXCEPT ![s] = [count |-> c, sem_queue |-> p]]
      BY <2>3
    <3> HIDE DEF p, c
    <3>3. SemChanged(sems, sems', s, c, p)
      BY <1>4, <3>1, <3>2, SemSet
    <3> QED
      BY <3>3 DEF p, c, SemChanged
  <2>6. Tail(q) \notin NoQueue
    BY <2>4, QueueSplit
  <2>7. Line(q) = q /\ Line(Tail(q)) = Tail(q)
    BY <2>2, <2>6 DEF Line
  <2>8. ToSet(Tail(q)) = ToSet(q) \ {Head(q)} /\ Head(q) \in ToSet(q)
    BY <1>1, <2>2, ToSetTail
  <2>9. Head(q) \in SemQueue(s) /\ SemQueue(s)' = SemQueue(s) \ {Head(q)}
    BY <2>5, <2>7, <2>8 DEF SemQueue
  <2> QED
    BY <1>3, <2>2, <2>4, <2>5, <2>6, <2>9, OthersSame DEF Posted
<1>6. CASE ~(n + 1 <= 0)
  <2>1. sems' = [sems EXCEPT ![s] = [count |-> n + 1, sem_queue |-> q]]
    BY <1>6, Zenon DEF hf_sempost
  <2>2. n + 1 \in Int /\ n >= 0
    BY <1>1, <1>6
  <2>3. /\ sems'[s].count = n + 1 /\ sems'[s].sem_queue = q
        /\ \A r \in Sems : r # s => sems'[r] = sems[r]
    BY <1>1, <1>2, <1>3, <2>1, <2>2, SemQueueSet
  <2>4. SemQueue(s)' = SemQueue(s)
    BY <2>3 DEF SemQueue
  <2> QED
    BY <1>3, <2>2, <2>3, <2>4, OthersSame DEF Posted
<1> QED
  BY <1>5, <1>6

-----------------------------------------------------------------------------
(* A task's step: its instruction is a call or a statement, or is skipped. *)
Skips(t) ==
    /\ pc'[t] = Succ(pc[t], Len(Program(t)))
    /\ ~Holds(Next_(t).when) /\ UNCHANGED <<syncvars, data>>

While(i) == i.op = "hf_condwait" /\ i.when # "always"

Executes(t) ==
    /\ pc'[t] = IF While(Next_(t)) THEN pc[t] ELSE Succ(pc[t], Len(Program(t)))
    /\ Holds(Next_(t).when) /\ Execute(t, Next_(t)) /\ data' = Statement(Next_(t).op)

LEMMA TaskMoves ==
    ASSUME IInv, NEW t \in Tasks \ {0}, Step(t)
    PROVE  /\ halted = Running /\ state[t] = "READY" /\ stage[t] = "run"
           /\ UNCHANGED <<app, resumes>>
           /\ \A u \in Tasks : u # t => pc'[u] = pc[u]
           /\ TaskInstr(Next_(t)) /\ TaskProgram(Program(t)) /\ pc[t] \in 1..Len(Program(t))
           /\ Skips(t) \/ Executes(t)
<1>1. SyncTypeOK /\ AppOK /\ PcOK /\ pc \in [Tasks -> 1..14]
  BY TypesUsed
<1> DEFINE i == Next_(t)
           len == Len(Program(t))
<1>2. /\ TaskInstr(i) /\ TaskProgram(Program(t))
      /\ pc[t] = len => i.when = "always"
      /\ len \in 2..13 /\ pc[t] \in 1..len
  BY <1>1, ProgramOf DEF TaskProgram, PcOK, Next_
<1>3. UNCHANGED <<app, resumes>> /\ halted = Running /\ state[t] = "READY" /\ stage[t] = "run"
  BY DEF Step, At, CanRun
<1>4. CASE ~Holds(i.when) /\ pc' = [pc EXCEPT ![t] = @ + 1] /\ UNCHANGED <<syncvars, data>>
  <2>1. i.when # "always"
    BY <1>4 DEF Holds
  <2>2. pc'[t] = pc[t] + 1 /\ \A u \in Tasks : u # t => pc'[u] = pc[u]
    BY <1>1, <1>4
  <2>3. Skips(t)
    BY <1>2, <1>4, <2>1, <2>2 DEF Skips, Succ
  <2> QED
    BY <1>2, <1>3, <2>2, <2>3
<1>5. CASE Holds(i.when) /\ Execute(t, i) /\ data' = Statement(i.op) /\ pc' = [pc EXCEPT ![t] = Following(t, i)]
  <2>1. pc'[t] = Following(t, i) /\ \A u \in Tasks : u # t => pc'[u] = pc[u]
    BY <1>1, <1>5
  <2>2. i.op # "idle" /\ t > 0
    BY <1>2, ZeroTask DEF TaskInstr, TaskOps, SemOps, CondOps, MtxOps, Statements
  <2>3. Following(t, i) = IF While(i) THEN pc[t] ELSE Succ(pc[t], len)
    BY <1>2, <2>2 DEF Following, While, Succ
  <2>4. Executes(t)
    BY <1>5, <2>1, <2>3 DEF Executes
  <2> QED
    BY <1>2, <1>3, <2>1, <2>4
<1> QED
  BY <1>3, <1>4, <1>5 DEF Step

(* The call that an instruction of a task makes. *)
LEMMA CallOf ==
    ASSUME NEW t \in Tasks, NEW i, TaskInstr(i), Execute(t, i)
    PROVE  /\ i.op = "hf_semwait" => hf_semwait(t, i.obj)
           /\ i.op = "hf_sempost" => hf_sempost(t, i.obj)
           /\ i.op = "hf_condwait" => hf_condwait(t, i.obj, "m")
           /\ i.op = "hf_condsignal" => hf_condsignal(t, i.obj)
           /\ i.op = "hf_condbroadcast" => hf_condbroadcast(t, i.obj)
           /\ i.op = "hf_mtxlock" => hf_mtxlock(t, i.obj)
           /\ i.op = "hf_mtxunlock" => hf_mtxunlock(t, i.obj)
           /\ i.op = "filter_mtxlock" => filter_mtxlock(t, i.obj)
           /\ i.op = "filter_mtxunlock" => filter_mtxunlock(t, i.obj)
           /\ i.op = "_di" => _di(t)
           /\ i.op = "_ei" => _ei(t)
           /\ i.op \in Statements => UNCHANGED syncvars
BY SMTT(30) DEF Execute, TaskInstr, TaskOps, SemOps, CondOps, MtxOps, Statements

(* The step of a task as the semaphores and the other tasks see it. *)
SemCall(t, s) ==
    \/ IsOp(Next_(t), "hf_semwait", s) /\ Executes(t) /\ Waited(t, s)
    \/ IsOp(Next_(t), "hf_sempost", s) /\ Executes(t) /\ Posted(s)
    \/ /\ sems'[s] = sems[s] /\ SemQueue(s)' = SemQueue(s)
       /\ Executes(t) => ~(Next_(t).op \in SemOps /\ Next_(t).obj = s)

LEMMA CallStages ==
    ASSUME SyncTypeOK, NEW t \in Tasks, TaskCall(t) \/ InsideCall(t) \/ MainCall(t) \/ Start
    PROVE  \A u \in Tasks : u # t => stage'[u] = stage[u]
<1>1. stage \in [Tasks -> {"run", "yield", "cond_yield", "relock", "level",
                           "waiting", "test_level", "test_waiting"}]
  BY SMTT(30) DEF SyncTypeOK
<1>2. CASE TaskCall(t)
  BY <1>1, <1>2, SMTT(30) DEF TaskCall, hf_semwait, hf_sempost, hf_condwait, hf_condsignal, hf_condbroadcast,
       hf_mtxlock, hf_mtxunlock, filter_mtxlock, filter_mtxunlock, _di, _ei, syncvars, Go
<1>3. CASE InsideCall(t)
  BY <1>1, <1>3 DEF InsideCall, ReturnFromSemwait, CondYield, Relock, SetLevel, SetWaiting, TestLevel,
       TestWaiting, NextTest, Go
<1>4. CASE MainCall(t) \/ Start
  BY <1>1, <1>4 DEF MainCall, Start, hf_seminit, hf_semdestroy, hf_condinit, hf_conddestroy, hf_mtxinit,
       filter_mtxinit
<1> QED
  BY <1>2, <1>3, <1>4

LEMMA NotQueued ==
    ASSUME IInv, Regular, NEW t \in Tasks, state[t] = "READY", NEW s \in Sems
    PROVE  t \notin SemQueue(s)
BY QueueFacts

LEMMA TaskEffect ==
    ASSUME IInv, Regular, Regular', NEW t \in Tasks \ {0}, Step(t)
    PROVE  /\ \A u \in Tasks : u # t => stage'[u] = stage[u] /\ pc'[u] = pc[u]
           /\ \A s \in Sems : t \notin SemQueue(s) /\ SemCall(t, s)
<1>1. /\ state[t] = "READY" /\ TaskInstr(Next_(t)) /\ (Skips(t) \/ Executes(t))
      /\ \A u \in Tasks : u # t => pc'[u] = pc[u]
  BY TaskMoves
<1>2. SyncTypeOK /\ AppOK /\ PcOK /\ pc \in [Tasks -> 1..14]
  BY TypesUsed
<1>3. TaskCall(t)
  BY <1>2, TaskStep
<1>4. \A u \in Tasks : u # t => stage'[u] = stage[u]
  BY <1>2, <1>3, CallStages
<1>5. ASSUME NEW s \in Sems
      PROVE  t \notin SemQueue(s) /\ SemCall(t, s)
  <2>1. t \notin SemQueue(s)
    BY <1>1, NotQueued
  <2>2. ASSUME sems' = sems
        PROVE  sems'[s] = sems[s] /\ SemQueue(s)' = SemQueue(s)
    BY <2>2 DEF SemQueue
  <2>3. CASE Skips(t) /\ ~Executes(t)
    BY <2>1, <2>2, <2>3 DEF SemCall, Skips, syncvars
  <2>4. CASE Executes(t) /\ Next_(t).op = "hf_semwait"
    <3>1. hf_semwait(t, Next_(t).obj) /\ Next_(t).obj \in Sems
      BY <1>1, <2>4, CallOf DEF Executes, TaskInstr, SemOps
    <3>2. OthersKept(Next_(t).obj) /\ Waited(t, Next_(t).obj)
      BY <3>1, SemwaitEffect
    <3>3. CASE s = Next_(t).obj
      BY <2>1, <2>4, <3>2, <3>3 DEF SemCall, IsOp
    <3>4. CASE s # Next_(t).obj
      BY <2>1, <3>2, <3>4 DEF SemCall, OthersKept
    <3> QED
      BY <3>3, <3>4
  <2>5. CASE Executes(t) /\ Next_(t).op = "hf_sempost"
    <3>1. hf_sempost(t, Next_(t).obj) /\ Next_(t).obj \in Sems
      BY <1>1, <2>5, CallOf DEF Executes, TaskInstr, SemOps
    <3>2. OthersKept(Next_(t).obj) /\ Posted(Next_(t).obj)
      BY <3>1, SempostEffect
    <3>3. CASE s = Next_(t).obj
      BY <2>1, <2>5, <3>2, <3>3 DEF SemCall, IsOp
    <3>4. CASE s # Next_(t).obj
      BY <2>1, <3>2, <3>4 DEF SemCall, OthersKept
    <3> QED
      BY <3>3, <3>4
  <2>6. CASE Executes(t) /\ Next_(t).op \notin SemOps
    <3>1. Execute(t, Next_(t))
      BY <2>6 DEF Executes
    <3>2. sems' = sems
      BY <1>1, <2>6, <3>1, CallOf DEF TaskInstr, TaskOps, SemOps, CondOps, MtxOps, syncvars, hf_condwait,
           hf_condsignal, hf_condbroadcast, hf_mtxlock, hf_mtxunlock, filter_mtxlock, filter_mtxunlock, _di, _ei
    <3> QED
      BY <2>1, <2>2, <2>6, <3>2 DEF SemCall
  <2> QED
    BY <1>1, <2>3, <2>4, <2>5, <2>6 DEF SemOps
<1> QED
  BY <1>1, <1>4, <1>5

(* hf_semwait() is never the last instruction of a task. *)
WaitsInside(p) == \A k \in 1..Len(p) : p[k].op = "hf_semwait" => k # Len(p)

LEMMA ProgramsWaitInside ==
    ASSUME AppOK, NEW t \in Tasks \ {0}
    PROVE  WaitsInside(Program(t))
<1> USE DEF WaitsInside, Wait, Post, Do, Instr, Cond
<1>1. WaitsInside(SemProducer) /\ WaitsInside(SemConsumer) BY DEF SemProducer, SemConsumer
<1>2. WaitsInside(CondProducer) /\ WaitsInside(CondConsumer) BY DEF CondProducer, CondConsumer
<1>3. WaitsInside(Reader) /\ WaitsInside(Writer) BY DEF Reader, Writer
<1>4. WaitsInside(SpinTask) /\ WaitsInside(FilterTask) BY DEF SpinTask, FilterTask
<1>5. WaitsInside(Waiter) /\ WaitsInside(Signaller) BY DEF Waiter, Signaller
<1>6. WaitsInside(Mallocer) /\ WaitsInside(Spawner) BY DEF Mallocer, Spawner
<1>7. app.name \in AppNames
  BY AppsNamed DEF AppOK
<1> HIDE DEF WaitsInside
<1> QED
  BY <1>1, <1>2, <1>3, <1>4, <1>5, <1>6, <1>7 DEF AppNames, Program, Programs

LEMMA RegularBefore ==
    ASSUME Regular', [Next]_vars, IInv
    PROVE  Regular
<1>1. resumes \in Nat
  BY TypesUsed, AppsAssumption
<1>2. ASSUME NEW t \in Tasks, Step(t)
      PROVE  resumes' = resumes /\ halted = Running
  BY <1>2 DEF Step, At, CanRun
<1>3. ASSUME NEW t \in Tasks, Inside(t)
      PROVE  resumes' = resumes /\ halted = Running
  BY <1>3 DEF Inside, InsideCall, ReturnFromSemwait, CondYield, Relock, SetLevel, SetWaiting, TestLevel,
              TestWaiting, At, CanRun
<1>4. ASSUME NEW t \in Tasks, Resume(t)
      PROVE  FALSE
  BY <1>1, <1>4 DEF Resume, Regular
<1>5. CASE Stopped \/ UNCHANGED vars
  BY <1>5 DEF Stopped, Regular, vars, syncvars
<1> QED
  BY <1>2, <1>3, <1>4, <1>5 DEF Next, Regular

LEMMA ParkedTaskStep ==
    ASSUME IInv, Regular, Regular', Parked, NEW t \in Tasks \ {0}, Step(t)
    PROVE  Parked'
<1>1. /\ \A u \in Tasks : u # t => stage'[u] = stage[u] /\ pc'[u] = pc[u]
      /\ \A s \in Sems : t \notin SemQueue(s) /\ SemCall(t, s)
  BY TaskEffect
<1>2. UNCHANGED app /\ pc[t] \in 1..Len(Program(t)) /\ Len(Program(t)) \in Nat
  BY TaskMoves DEF TaskProgram
<1>3. \A u \in Tasks : Program(u)' = Program(u)
  BY <1>2, ProgramKept
<1> SUFFICES ASSUME NEW s \in Sems, NEW u \in SemQueue(s)'
             PROVE  /\ u # 0 /\ stage'[u] = "yield" /\ pc'[u] # 1
                    /\ IsOp((Program(u)')[pc'[u] - 1], "hf_semwait", s)
  BY DEF Parked
<1>4. CASE u \in SemQueue(s)
  <2>1. u \in Tasks /\ u # t
    BY <1>1, <1>4, QueueFacts
  <2>2. stage'[u] = stage[u] /\ pc'[u] = pc[u] /\ Program(u)' = Program(u)
    BY <1>1, <1>3, <2>1
  <2>3. u # 0 /\ stage[u] = "yield" /\ pc[u] # 1 /\ IsOp(Program(u)[pc[u] - 1], "hf_semwait", s)
    BY <1>4 DEF Parked
  <2> QED
    BY <2>2, <2>3
<1>5. CASE u \notin SemQueue(s)
  <2>1. IsOp(Next_(t), "hf_semwait", s) /\ Executes(t) /\ u = t /\ stage' = [stage EXCEPT ![t] = "yield"]
    <3>1. SemCall(t, s)
      BY <1>1
    <3> QED
      BY <1>5, <3>1 DEF SemCall, Waited, Posted
  <2>2. stage'[t] = "yield"
    BY <2>1, TypesUsed DEF SyncTypeOK
  <2>3. pc[t] # Len(Program(t))
    BY <1>2, <2>1, ProgramsWaitInside, TypesUsed DEF IsOp, Next_, WaitsInside
  <2>4. pc'[t] = pc[t] + 1
    BY <2>1, <2>3 DEF Executes, While, IsOp, Succ
  <2>5. pc'[t] - 1 = pc[t] /\ pc'[t] # 1
    BY <1>2, <2>4
  <2>6. IsOp(Program(t)[pc[t]], "hf_semwait", s)
    BY <2>1 DEF Next_
  <2> QED
    BY <1>3, <2>1, <2>2, <2>5, <2>6
<1> QED
  BY <1>4, <1>5

LEMMA ParkedQuiet ==
    ASSUME IInv, Regular, Parked, UNCHANGED app, \A s \in Sems : SemQueue(s)' = SemQueue(s),
           NEW t \in Tasks, state[t] = "READY",
           \A u \in Tasks : u # t => stage'[u] = stage[u] /\ pc'[u] = pc[u]
    PROVE  Parked'
<1> SUFFICES ASSUME NEW s \in Sems, NEW u \in SemQueue(s)
             PROVE  /\ u # 0 /\ stage'[u] = "yield" /\ pc'[u] # 1
                    /\ IsOp((Program(u)')[pc'[u] - 1], "hf_semwait", s)
  BY DEF Parked
<1>1. u \in Tasks /\ u # t
  BY QueueFacts
<1>2. stage'[u] = stage[u] /\ pc'[u] = pc[u] /\ Program(u)' = Program(u)
  BY <1>1, ProgramKept
<1> QED
  BY <1>2 DEF Parked

-----------------------------------------------------------------------------
(* A semaphore that is created with 1, and its holders H: one at most.     *)
Bin(c, none, H) ==
    /\ \A x, y \in H : x = y
    /\ c <= 1
    /\ c = 1 => H = {}
    /\ ~none /\ H = {} => c = 1

Binary(s, H) == Bin(sems[s].count, sems[s].sem_queue \in NoQueue, H)

LEMMA BinWait ==
    ASSUME NEW c \in Int, NEW none, NEW H, NEW I, NEW t, Bin(c, none, H),
           (c >= 1 /\ I = H \cup {t}) \/ (c <= 0 /\ ~none /\ I = H)
    PROVE  Bin(c - 1, none, I)
BY DEF Bin

LEMMA BinPost ==
    ASSUME NEW c \in Int, NEW none, NEW H, NEW I, NEW t \in H, Bin(c, none, H),
           (c >= 0 /\ I = H \ {t}) \/ (c < 0 /\ ~none /\ \E h : I = (H \ {t}) \cup {h})
    PROVE  Bin(c + 1, none, I)
<1>1. H = {t} /\ c <= 0
  BY DEF Bin
<1>2. CASE c >= 0 /\ I = H \ {t}
  BY <1>1, <1>2 DEF Bin
<1>3. CASE c < 0 /\ ~none /\ \E h : I = (H \ {t}) \cup {h}
  <2>1. PICK h : I = {h}
    BY <1>1, <1>3
  <2> QED
    BY <1>3, <2>1 DEF Bin
<1> QED
  BY <1>2, <1>3

(* The tasks of each role whose next instruction is in its region and that *)
(* are not in the queue of s.                                              *)
Within(R) == {t \in Tasks \ {0} : pc[t] \in R[Role(t)]}
Holders(s, R) == Within(R) \ SemQueue(s)

(* Region P of program p is entered by hf_semwait(s) and left by           *)
(* hf_sempost(s), and by nothing else.                                     *)
Bracketed(p, P, s) ==
    /\ 1 \notin P
    /\ \A k \in 1..Len(p) :
        /\ IsOp(p[k], "hf_semwait", s) => p[k].when = "always" /\ k \notin P /\ Succ(k, Len(p)) \in P
        /\ IsOp(p[k], "hf_sempost", s) => p[k].when = "always" /\ k \in P /\ Succ(k, Len(p)) \notin P
        /\ ~(p[k].op \in SemOps /\ p[k].obj = s) => (k \in P <=> Succ(k, Len(p)) \in P)

LEMMA RoleKept ==
    ASSUME UNCHANGED app
    PROVE  \A t \in Tasks : Role(t)' = Role(t)
BY DEF Role

LEMMA ProgramRole ==
    ASSUME NEW t \in Tasks \ {0}
    PROVE  Program(t) = Programs[app.name][Role(t)] /\ Role(t) \in 1..2
BY DEF Program, Role

(* The next instruction of a task in the queue of s is in the region. *)
LEMMA ParkedWithin ==
    ASSUME IInv, Regular, Parked, NEW s \in Sems, NEW u \in SemQueue(s), NEW P, Bracketed(Program(u), P, s)
    PROVE  u \in Tasks \ {0} /\ pc[u] \in P
<1>1. u \in Tasks /\ u # 0 /\ pc[u] # 1 /\ IsOp(Program(u)[pc[u] - 1], "hf_semwait", s)
  BY QueueFacts DEF Parked
<1> DEFINE len == Len(Program(u))
<1>2. pc[u] \in 1..len /\ len \in Nat
  BY <1>1, TypesUsed, ProgramOf DEF PcOK, TaskProgram
<1> HIDE DEF len
<1>3. pc[u] - 1 \in 1..len /\ Succ(pc[u] - 1, len) = pc[u]
  BY <1>1, <1>2 DEF Succ
<1> QED
  BY <1>1, <1>3 DEF Bracketed, len

LEMMA RegionKeeps ==
    ASSUME IInv, Regular, Regular', Parked, NEW t \in Tasks \ {0}, Step(t), NEW s \in Sems, NEW R,
           \A u \in Tasks \ {0} : Bracketed(Program(u), R[Role(u)], s),
           Binary(s, Holders(s, R))
    PROVE  Binary(s, Holders(s, R))'
<1>1. /\ \A u \in Tasks : u # t => pc'[u] = pc[u]
      /\ t \notin SemQueue(s) /\ SemCall(t, s)
  BY TaskEffect
<1>2. UNCHANGED app /\ pc[t] \in 1..Len(Program(t)) /\ (Skips(t) \/ Executes(t))
  BY TaskMoves
<1>3. \A u \in Tasks : Role(u)' = Role(u)
  BY <1>2, RoleKept
<1>4. sems[s].count \in Int /\ SemQueue(s) \subseteq Tasks
  BY QueueFacts
<1> DEFINE P == R[Role(t)]
           H == Holders(s, R)
           I == Holders(s, R)'
           none == sems[s].sem_queue \in NoQueue
           i == Next_(t)
           next == Succ(pc[t], Len(Program(t)))
<1>5. \A u \in Tasks \ {0} : u # t => (u \in I <=> pc[u] \in R[Role(u)] /\ u \notin SemQueue(s)')
  BY <1>1, <1>3 DEF Holders, Within
<1>6. /\ t \in I <=> pc'[t] \in P /\ t \notin SemQueue(s)'
      /\ t \in H <=> pc[t] \in P
      /\ I \subseteq Tasks \ {0} /\ H \subseteq Tasks \ {0}
  BY <1>1, <1>3 DEF Holders, Within
<1>7. \A u \in Tasks \ {0} : u \in H <=> pc[u] \in R[Role(u)] /\ u \notin SemQueue(s)
  BY DEF Holders, Within
<1>8. Bin(sems[s].count, none, H)
  BY DEF Binary
<1>9. Binary(s, Holders(s, R))' <=> Bin(sems'[s].count, sems'[s].sem_queue \in NoQueue, I)
  BY DEF Binary
<1>10. /\ IsOp(i, "hf_semwait", s) => i.when = "always" /\ pc[t] \notin P /\ next \in P
       /\ IsOp(i, "hf_sempost", s) => i.when = "always" /\ pc[t] \in P /\ next \notin P
       /\ ~(i.op \in SemOps /\ i.obj = s) => (pc[t] \in P <=> next \in P)
  BY <1>2 DEF Bracketed, Next_
<1> HIDE DEF P, H, I, none, i, next
<1>11. CASE IsOp(i, "hf_semwait", s) /\ Executes(t) /\ Waited(t, s)
  <2>1. pc'[t] = next
    BY <1>11 DEF Executes, While, IsOp, i, next
  <2>2. (sems[s].count >= 1 /\ I = H \cup {t}) \/ (sems[s].count <= 0 /\ ~none /\ I = H)
    BY <1>1, <1>5, <1>6, <1>7, <1>10, <1>11, <2>1 DEF Waited, none
  <2>3. Bin(sems[s].count - 1, none, I)
    BY <1>4, <1>8, <2>2, BinWait
  <2> QED
    BY <1>9, <1>11, <2>3 DEF Waited, none, Bin
<1>12. CASE IsOp(i, "hf_sempost", s) /\ Executes(t) /\ Posted(s)
  <2>1. pc'[t] = next
    BY <1>12 DEF Executes, While, IsOp, i, next
  <2>2. t \in H /\ t \notin I
    BY <1>1, <1>6, <1>10, <1>12, <2>1
  <2>3. CASE sems[s].count >= 0 /\ SemQueue(s)' = SemQueue(s)
    <3>1. I = H \ {t}
      BY <1>5, <1>6, <1>7, <2>2, <2>3
    <3> QED
      BY <1>4, <1>8, <1>9, <1>12, <2>2, <2>3, <3>1, BinPost DEF Posted, none, Bin
  <2>4. ASSUME sems[s].count < 0, ~none, NEW h \in SemQueue(s), SemQueue(s)' = SemQueue(s) \ {h}
        PROVE  Bin(sems'[s].count, sems'[s].sem_queue \in NoQueue, I)
    <3>1. h \in Tasks \ {0} /\ pc[h] \in R[Role(h)]
      <4>1. h \in Tasks /\ h # 0
        BY <1>4, <2>4 DEF Parked
      <4> QED
        BY <4>1, ParkedWithin
    <3>2. I = (H \ {t}) \cup {h}
      BY <1>1, <1>5, <1>6, <1>7, <2>2, <2>4, <3>1
    <3>3. Bin(sems[s].count + 1, none, I)
      BY <1>4, <1>8, <2>2, <2>4, <3>2, BinPost
    <3> QED
      BY <1>12, <3>3 DEF Posted, none, Bin
  <2> QED
    BY <1>9, <1>12, <2>3, <2>4 DEF Posted, none
<1>13. CASE /\ sems'[s] = sems[s] /\ SemQueue(s)' = SemQueue(s)
            /\ Executes(t) => ~(i.op \in SemOps /\ i.obj = s)
  <2>1. pc'[t] = next \/ pc'[t] = pc[t]
    BY <1>2 DEF Executes, Skips, next
  <2>2. ~(i.op \in SemOps /\ i.obj = s)
    <3>1. CASE Executes(t)
      BY <1>13, <3>1
    <3>2. CASE Skips(t)
      <4>1. i.when # "always"
        BY <3>2 DEF Skips, Holds, i
      <4> QED
        BY <1>10, <4>1 DEF IsOp, SemOps
    <3> QED
      BY <1>2, <3>1, <3>2
  <2>3. pc'[t] \in P <=> pc[t] \in P
    BY <1>10, <2>1, <2>2
  <2>4. I = H
    BY <1>1, <1>5, <1>6, <1>7, <1>13, <2>3
  <2> QED
    BY <1>8, <1>9, <1>13, <2>4 DEF none
<1> QED
  BY <1>1, <1>11, <1>12, <1>13 DEF SemCall, i

-----------------------------------------------------------------------------
(* The steps of app_main(), and of a task inside a call. *)

LEMMA MainCallOf ==
    ASSUME IInv, Step(0)
    PROVE  LET i == Next_(0)
           IN  /\ pc[0] \in 1..End /\ End \in 3..7 /\ MainInstr(i) /\ stage[0] = "run" /\ state[0] = "READY"
               /\ UNCHANGED <<app, data, resumes>>
               /\ i.op = "hf_seminit" => \E mem \in BOOLEAN : hf_seminit(0, i.obj, i.value, mem)
               /\ i.op = "hf_semdestroy" => hf_semdestroy(0, i.obj)
               /\ i.op \notin {"hf_seminit", "hf_semdestroy"} => sems' = sems
               /\ i.op = "hf_mtxinit" => hf_mtxinit(0, i.obj)
               /\ i.op # "hf_mtxinit" => lock' = lock
               /\ i.op = "filter_mtxinit" => filter_mtxinit(0, i.obj)
               /\ i.op # "filter_mtxinit" => filter' = filter
               /\ UNCHANGED <<stage, local>>
               /\ pc[0] < End \/ UNCHANGED <<syncvars, pc>>
               /\ \A u \in Tasks : u # 0 => pc'[u] = pc[u]
<1> DEFINE i == Next_(0)
<1>1. SyncTypeOK /\ AppOK /\ PcOK /\ pc \in [Tasks -> 1..14]
  BY TypesUsed
<1>2. MainInstr(i)
  BY <1>1, ZeroTask, ProgramOf DEF MainProgram, PcOK, Next_, End
<1>3. /\ pc[0] \in 1..End /\ End \in 3..7
      /\ \/ pc[0] < End - 1 /\ MainCall(0) /\ pc' = [pc EXCEPT ![0] = pc[0] + 1]
         \/ pc[0] = End - 1 /\ Start /\ pc' = [pc EXCEPT ![0] = End]
         \/ pc[0] = End /\ UNCHANGED <<syncvars, pc>>
      /\ UNCHANGED <<data, app, resumes>>
  BY <1>1, MainStep
<1>4. Execute(0, i) /\ stage[0] = "run" /\ state[0] = "READY"
  BY <1>2 DEF Step, MainInstr, Holds, At, CanRun
<1>5. /\ i.op = "hf_seminit" => \E mem \in BOOLEAN : hf_seminit(0, i.obj, i.value, mem)
      /\ i.op = "hf_semdestroy" => hf_semdestroy(0, i.obj)
      /\ i.op = "hf_condinit" => \E mem \in BOOLEAN : hf_condinit(0, i.obj, mem)
      /\ i.op = "hf_conddestroy" => hf_conddestroy(0, i.obj)
      /\ i.op = "hf_mtxinit" => hf_mtxinit(0, i.obj)
      /\ i.op = "filter_mtxinit" => filter_mtxinit(0, i.obj)
      /\ i.op = "start" => Start
      /\ i.op = "idle" => UNCHANGED syncvars
  BY <1>2, <1>4, SMTT(30) DEF Execute, MainInstr, MainOps, Statements
<1> HIDE DEF i
<1>6. /\ i.op \notin {"hf_seminit", "hf_semdestroy"} => sems' = sems
      /\ i.op # "hf_mtxinit" => lock' = lock
      /\ i.op # "filter_mtxinit" => filter' = filter
      /\ UNCHANGED <<stage, local>>
  BY <1>2, <1>5 DEF MainInstr, MainOps, hf_seminit, hf_semdestroy, hf_condinit, hf_conddestroy,
       hf_mtxinit, filter_mtxinit, Start, syncvars
<1>7. \A u \in Tasks : u # 0 => pc'[u] = pc[u]
  BY <1>1, <1>3
<1>8. pc[0] < End \/ UNCHANGED <<syncvars, pc>>
  BY <1>3
<1> QED
  BY <1>2, <1>3, <1>4, <1>5, <1>6, <1>7, <1>8 DEF i

LEMMA MainQueues ==
    ASSUME IInv, IInv', Step(0), NEW s \in Sems
    PROVE  SemQueue(s)' = SemQueue(s)
<1>1. SyncTypeOK /\ AppOK /\ PcOK /\ pc \in [Tasks -> 1..14]
  BY TypesUsed
<1>2. /\ pc[0] \in 1..End /\ End \in 3..7
      /\ \/ pc[0] < End - 1 /\ MainCall(0) /\ pc' = [pc EXCEPT ![0] = pc[0] + 1]
         \/ pc[0] = End - 1 /\ Start /\ pc' = [pc EXCEPT ![0] = End]
         \/ pc[0] = End /\ UNCHANGED <<syncvars, pc>>
      /\ UNCHANGED <<data, app, resumes>>
  BY <1>1, MainStep
<1>3. CASE sems' = sems
  BY <1>3 DEF SemQueue
<1>4. CASE pc[0] < End - 1 /\ pc' = [pc EXCEPT ![0] = pc[0] + 1]
  <2>1. pc[0] < End /\ pc'[0] < End' /\ End' = End
    BY <1>1, <1>2, <1>4, ZeroTask, ProgramKept
  <2>2. \A o \in Objects : Lines[o] = << >> /\ Lines'[o] = << >>
    BY <2>1 DEF IInv, Settled
  <2>3. /\ sems \in AllSems /\ conds \in AllConds /\ sems' \in AllSems /\ conds' \in AllConds
    BY DEF IInv, TypeOK, SyncTypeOK, AllSems, AllConds, Semaphore
  <2>4. Lines[<<"sem", s>>] = Line(sems[s].sem_queue) /\ <<"sem", s>> \in Objects
    BY <2>3, LinesTyped DEF Lines
  <2>5. Lines'[<<"sem", s>>] = Line(sems'[s].sem_queue)
    BY <2>3, LinesTyped DEF Lines
  <2> QED
    BY <2>2, <2>4, <2>5 DEF SemQueue
<1> QED
  BY <1>2, <1>3, <1>4 DEF Start, syncvars

(* app_main() creates s with v, and does not destroy it. *)
Creates(p, s, v) ==
    \A k \in 1..Len(p) : /\ IsOp(p[k], "hf_seminit", s) => p[k].value = v
                         /\ ~IsOp(p[k], "hf_semdestroy", s)

LEMMA MainSem ==
    ASSUME IInv, Step(0), NEW s \in Sems, NEW v \in Nat, Creates(Program(0), s, v)
    PROVE  \/ sems'[s] = sems[s]
           \/ /\ pc[0] < End
              /\ \/ sems'[s].count = v /\ sems'[s].sem_queue = << >>
                 \/ sems'[s].count = sems[s].count /\ sems'[s].sem_queue = NULL
<1> DEFINE i == Next_(0)
<1>1. /\ pc[0] \in 1..End /\ MainInstr(i)
      /\ i.op = "hf_seminit" => \E mem \in BOOLEAN : hf_seminit(0, i.obj, i.value, mem)
      /\ i.op = "hf_semdestroy" => hf_semdestroy(0, i.obj)
      /\ i.op \notin {"hf_seminit", "hf_semdestroy"} => sems' = sems
      /\ pc[0] < End \/ UNCHANGED <<syncvars, pc>>
  BY MainCallOf
<1>2. (IsOp(i, "hf_seminit", s) => i.value = v) /\ ~IsOp(i, "hf_semdestroy", s)
  BY <1>1 DEF Creates, Next_, End
<1>3. sems \in [Sems -> Semaphore] /\ (i.op \in {"hf_seminit", "hf_semdestroy"} => i.obj \in Sems)
  BY <1>1, TypesUsed, SyncTypes DEF AllSems, MainInstr
<1> HIDE DEF i
<1>4. CASE i.op = "hf_semdestroy"
  <2>1. i.obj # s /\ hf_semdestroy(0, i.obj)
    BY <1>1, <1>2, <1>4 DEF IsOp
  <2>2. sems'[s] = sems[s]
    BY <1>3, <1>4, <2>1 DEF hf_semdestroy
  <2> QED
    BY <2>2
<1>5. CASE i.op = "hf_seminit"
  <2>1. PICK mem \in BOOLEAN : hf_seminit(0, i.obj, i.value, mem)
    BY <1>1, <1>5
  <2>2. sems' = [sems EXCEPT ![i.obj] = [count |-> IF mem /\ i.value >= 0 THEN i.value ELSE sems[i.obj].count,
                                          sem_queue |-> IF mem THEN << >> ELSE NULL]]
    BY <2>1, Zenon DEF hf_seminit
  <2>3. CASE i.obj # s
    <3>1. sems'[s] = sems[s]
      BY <1>3, <2>2, <2>3
    <3> QED
      BY <3>1
  <2>4. CASE i.obj = s
    <3>1. i.value = v
      BY <1>2, <1>5, <2>4 DEF IsOp
    <3>2. sems'[s] = [count |-> IF mem THEN v ELSE sems[s].count, sem_queue |-> IF mem THEN << >> ELSE NULL]
      BY <1>3, <2>2, <2>4, <3>1
    <3>3. CASE UNCHANGED <<syncvars, pc>>
      BY <3>3 DEF syncvars
    <3> QED
      BY <1>1, <3>2, <3>3
  <2> QED
    BY <2>3, <2>4
<1> QED
  BY <1>1, <1>4, <1>5

LEMMA BinaryMain ==
    ASSUME IInv, Step(0), NEW s \in Sems, Creates(Program(0), s, 1), NEW H, Binary(s, H), pc[0] < End => H = {}
    PROVE  Bin(sems'[s].count, sems'[s].sem_queue \in NoQueue, H)
<1>1. CASE sems'[s] = sems[s]
  BY <1>1 DEF Binary
<1>2. CASE /\ pc[0] < End
           /\ \/ sems'[s].count = 1 /\ sems'[s].sem_queue = << >>
              \/ sems'[s].count = sems[s].count /\ sems'[s].sem_queue = NULL
  <2>1. NULL \in NoQueue /\ H = {}
    BY <1>2 DEF NoQueue
  <2> QED
    BY <1>2, <2>1 DEF Bin, Binary
<1>3. 1 \in Nat
  OBVIOUS
<1> QED
  BY <1>1, <1>2, <1>3, MainSem

-----------------------------------------------------------------------------
(* The semaphore m of app/sem_test1 and mtx_rc of app/readers_writers. *)
BufferRegion == <<3..5, 3..5>>
CountRegion == <<{4, 5, 6, 11, 12, 13}, {}>>

BufferHeld == Binary("m", Holders("m", BufferRegion))
CountHeld == Binary("mtx_rc", Holders("mtx_rc", CountRegion))

LEMMA BufferBracketed ==
    ASSUME AppOK, app.name = "sem_test1"
    PROVE  /\ \A u \in Tasks \ {0} : Bracketed(Program(u), BufferRegion[Role(u)], "m")
           /\ Creates(Program(0), "m", 1) /\ Creates(Program(0), "empty", N) /\ Creates(Program(0), "full", 0)
<1>1. Bracketed(SemProducer, 3..5, "m")
  BY DEF Bracketed, SemProducer, Wait, Post, Do, Instr, IsOp, SemOps, Succ
<1>2. Bracketed(SemConsumer, 3..5, "m")
  BY DEF Bracketed, SemConsumer, Wait, Post, Do, Instr, IsOp, SemOps, Succ
<1>3. Creates(SemMain, "m", 1) /\ Creates(SemMain, "empty", N) /\ Creates(SemMain, "full", 0)
  BY DEF Creates, SemMain, Launch, Init1, Do, Instr, IsOp
<1>4. Program(0) = SemMain
  BY DEF Program, Mains
<1>5. \A u \in Tasks \ {0} : Program(u) \in {SemProducer, SemConsumer} /\ BufferRegion[Role(u)] = 3..5
  BY DEF Program, Programs, Role, BufferRegion
<1> QED
  BY <1>1, <1>2, <1>3, <1>4, <1>5

LEMMA CountBracketed ==
    ASSUME AppOK, app.name = "readers_writers"
    PROVE  /\ \A u \in Tasks \ {0} : Bracketed(Program(u), CountRegion[Role(u)], "mtx_rc")
           /\ Creates(Program(0), "mtx_rc", 1) /\ Creates(Program(0), "w_db", 1)
<1>1. Bracketed(Reader, {4, 5, 6, 11, 12, 13}, "mtx_rc")
  BY SMTT(30) DEF Bracketed, Reader, Wait, Post, Do, Instr, Cond, IsOp, SemOps, Succ
<1>2. Bracketed(Writer, {}, "mtx_rc")
  BY SMTT(30) DEF Bracketed, Writer, Wait, Post, Do, Instr, Cond, IsOp, SemOps, Succ
<1>3. Creates(ReadersWritersMain, "mtx_rc", 1) /\ Creates(ReadersWritersMain, "w_db", 1)
  BY DEF Creates, ReadersWritersMain, Launch, Init1, Do, Instr, IsOp
<1>4. Program(0) = ReadersWritersMain
  BY DEF Program, Mains
<1>5. \A u \in Tasks \ {0} : \/ Program(u) = Reader /\ CountRegion[Role(u)] = {4, 5, 6, 11, 12, 13}
                             \/ Program(u) = Writer /\ CountRegion[Role(u)] = {}
  BY DEF Program, Programs, Role, CountRegion
<1> QED
  BY <1>1, <1>2, <1>3, <1>4, <1>5

(* A region of which a task is out at its first instruction. *)
LEMMA RegionMain ==
    ASSUME IInv, IInv', Step(0), Booted, NEW s \in Sems, Creates(Program(0), s, 1), NEW R,
           \A u \in Tasks \ {0} : Bracketed(Program(u), R[Role(u)], s),
           Binary(s, Holders(s, R))
    PROVE  Binary(s, Holders(s, R))'
<1>1. UNCHANGED app /\ \A u \in Tasks : u # 0 => pc'[u] = pc[u]
  BY MainCallOf
<1>2. SemQueue(s)' = SemQueue(s)
  BY MainQueues
<1>3. Holders(s, R)' = Holders(s, R)
  BY <1>1, <1>2, RoleKept DEF Holders, Within
<1>4. pc[0] < End => Holders(s, R) = {}
  BY DEF Booted, Holders, Within, Bracketed
<1>5. Bin(sems'[s].count, sems'[s].sem_queue \in NoQueue, Holders(s, R))
  BY <1>4, BinaryMain
<1> QED
  BY <1>3, <1>5 DEF Binary

LEMMA BinaryQuiet ==
    ASSUME NEW s \in Sems, NEW R, Binary(s, Holders(s, R)), UNCHANGED <<app, pc, sems>>
    PROVE  Binary(s, Holders(s, R))'
<1>1. Holders(s, R)' = Holders(s, R)
  BY RoleKept DEF Holders, Within, SemQueue
<1> QED
  BY <1>1 DEF Binary

-----------------------------------------------------------------------------
(* The database of app/readers_writers.  The readers hold w_db together,   *)
(* from the first that waits for it to the last that posts it; 0 stands    *)
(* for them.                                                               *)
Readers == {t \in Tasks \ {0} : Role(t) = 1}
Writers == {t \in Tasks \ {0} : Role(t) = 2}
Reading == {t \in Readers : pc[t] \in 6..12}
DbWriters == {t \in Writers : pc[t] \in 6..7 /\ t \notin SemQueue("w_db")}
DbRead == Reading # {} /\ Readers \cap SemQueue("w_db") = {}
DbHolders == DbWriters \cup {x \in {0} : DbRead}

(* The readers that rc counts. *)
RcTasks == {t \in Readers : pc[t] \in 5..11}

(* A reader that waits for the database is the only one. *)
LoneReader ==
    \A t \in Readers \cap SemQueue("w_db"), u \in Readers : u # t => pc[u] \notin 5..12

DatabaseHeld ==
    /\ CountHeld
    /\ Binary("w_db", DbHolders)
    /\ LoneReader
    /\ data.rc = Cardinality(RcTasks)

DbKept == sems'["w_db"] = sems["w_db"] /\ SemQueue("w_db")' = SemQueue("w_db")

LEMMA DbSems == "w_db" \in Sems /\ "mtx_rc" \in Sems /\ "m" \in Sems
BY AppsAssumption

LEMMA ReaderStep ==
    ASSUME IInv, Regular, Regular', app.name = "readers_writers", NEW t \in Readers, Step(t)
    PROVE  /\ pc[t] \in 1..13 /\ pc'[t] = Succ(pc[t], 13)
           /\ data'.rc = IF pc[t] = 4 THEN data.rc + 1 ELSE IF pc[t] = 11 THEN data.rc - 1 ELSE data.rc
           /\ \/ pc[t] = 5 /\ data.rc = 1 /\ Waited(t, "w_db")
              \/ pc[t] = 12 /\ data.rc = 0 /\ Posted("w_db")
              \/ DbKept /\ ~(pc[t] = 5 /\ data.rc = 1) /\ ~(pc[t] = 12 /\ data.rc = 0)
<1> DEFINE i == Next_(t)
<1>1. t \in Tasks \ {0} /\ Program(t) = Reader
  BY DEF Readers, Program, Programs, Role
<1>2. Len(Reader) = 13
  BY DEF Reader
<1>3. pc[t] \in 1..13 /\ (Skips(t) \/ Executes(t)) /\ i = Reader[pc[t]]
  BY <1>1, <1>2, TaskMoves DEF Next_
<1>4. /\ \A k \in 1..13 : Reader[k].op # "hf_condwait"
      /\ \A k \in 1..13 : Reader[k].when # "always" => k \in {5, 12}
      /\ Reader[4].op = "rc++" /\ Reader[11].op = "rc--"
      /\ \A k \in 1..13 : Reader[k].op \in {"hf_semwait", "hf_sempost", "rc++", "rc--", "read"}
      /\ \A k \in 1..13 : (Reader[k].op = "rc++" => k = 4) /\ (Reader[k].op = "rc--" => k = 11)
      /\ Reader[5].when = "rc==1" /\ Reader[12].when = "rc==0"
      /\ \A k \in 1..13 : Reader[k].obj = "w_db" => k \in {5, 12}
      /\ IsOp(Reader[5], "hf_semwait", "w_db") /\ IsOp(Reader[12], "hf_sempost", "w_db")
  BY SMTT(30) DEF Reader, Wait, Post, Do, Instr, Cond, IsOp
<1> HIDE DEF i
<1>5. pc'[t] = Succ(pc[t], 13)
  BY <1>1, <1>2, <1>3, <1>4 DEF Skips, Executes, While, i
<1>6. Skips(t) => pc[t] \in {5, 12} /\ data' = data
  BY <1>3, <1>4 DEF Skips, Holds, i
<1>7. data'.rc = IF pc[t] = 4 THEN data.rc + 1 ELSE IF pc[t] = 11 THEN data.rc - 1 ELSE data.rc
  <2>1. CASE Skips(t)
    BY <1>6, <2>1
  <2>2. CASE Executes(t)
    <3>1. data' = Statement(i.op) /\ data \in Data
      BY <2>2, TypesUsed DEF Executes, i
    <3>2. CASE pc[t] = 4
      BY <1>3, <1>4, <3>1, <3>2 DEF Statement, Data
    <3>3. CASE pc[t] = 11
      BY <1>3, <1>4, <3>1, <3>3 DEF Statement, Data
    <3>4. CASE pc[t] \notin {4, 11}
      <4>1. i.op \in {"hf_semwait", "hf_sempost", "read"}
        BY <1>3, <1>4, <3>4
      <4>2. data' = data
        BY <3>1, <4>1 DEF Statement
      <4> QED
        BY <3>4, <4>2
    <3> QED
      BY <3>2, <3>3, <3>4
  <2> QED
    BY <1>3, <2>1, <2>2
<1>8. SemCall(t, "w_db")
  BY <1>1, TaskEffect, DbSems
<1>9. CASE pc[t] = 5
  <2>1. (Executes(t) => data.rc = 1) /\ (Skips(t) => data.rc # 1)
    <3>1. i.when = "rc==1"
      BY <1>3, <1>4, <1>9
    <3>2. Holds(i.when) <=> data.rc = 1
      BY <3>1 DEF Holds
    <3> QED
      BY <3>2 DEF Executes, Skips, i
  <2>2. IsOp(Next_(t), "hf_semwait", "w_db") /\ Next_(t).op \in SemOps /\ Next_(t).obj = "w_db"
    BY <1>3, <1>4, <1>9 DEF IsOp, SemOps, i
  <2>3. \/ Executes(t) /\ Waited(t, "w_db")
        \/ ~Executes(t) /\ DbKept
    BY <1>8, <2>2 DEF SemCall, IsOp, DbKept
  <2> QED
    BY <1>3, <1>5, <1>7, <1>9, <2>1, <2>3
<1>10. CASE pc[t] = 12
  <2>1. (Executes(t) => data.rc = 0) /\ (Skips(t) => data.rc # 0)
    <3>1. i.when = "rc==0"
      BY <1>3, <1>4, <1>10
    <3>2. Holds(i.when) <=> data.rc = 0
      BY <3>1 DEF Holds
    <3> QED
      BY <3>2 DEF Executes, Skips, i
  <2>2. IsOp(Next_(t), "hf_sempost", "w_db") /\ Next_(t).op \in SemOps /\ Next_(t).obj = "w_db"
    BY <1>3, <1>4, <1>10 DEF IsOp, SemOps, i
  <2>3. \/ Executes(t) /\ Posted("w_db")
        \/ ~Executes(t) /\ DbKept
    BY <1>8, <2>2 DEF SemCall, IsOp, DbKept
  <2> QED
    BY <1>3, <1>5, <1>7, <1>10, <2>1, <2>3
<1>11. CASE pc[t] \notin {5, 12}
  <2>1. DbKept
    BY <1>3, <1>4, <1>8, <1>11 DEF SemCall, IsOp, DbKept, i
  <2> QED
    BY <1>3, <1>5, <1>7, <1>11, <2>1
<1> QED
  BY <1>9, <1>10, <1>11

LEMMA WriterStep ==
    ASSUME IInv, Regular, Regular', app.name = "readers_writers", NEW t \in Writers, Step(t)
    PROVE  /\ pc[t] \in 1..11 /\ pc'[t] = Succ(pc[t], 11)
           /\ data'.rc = data.rc
           /\ \/ pc[t] = 5 /\ Waited(t, "w_db")
              \/ pc[t] = 7 /\ Posted("w_db")
              \/ pc[t] \notin {5, 7} /\ DbKept
<1> DEFINE i == Next_(t)
<1>1. t \in Tasks \ {0} /\ Program(t) = Writer
  BY DEF Writers, Program, Programs, Role
<1>2. Len(Writer) = 11
  BY DEF Writer
<1>3. pc[t] \in 1..11 /\ (Skips(t) \/ Executes(t)) /\ i = Writer[pc[t]]
  BY <1>1, <1>2, TaskMoves DEF Next_
<1>4. /\ \A k \in 1..11 : Writer[k].op \in {"hf_semwait", "hf_sempost", "wc++", "wc--", "write"}
      /\ \A k \in 1..11 : Writer[k].when # "always" => k \in {3, 10}
      /\ \A k \in 1..11 : Writer[k].obj = "w_db" => k \in {5, 7}
      /\ IsOp(Writer[5], "hf_semwait", "w_db") /\ IsOp(Writer[7], "hf_sempost", "w_db")
  BY SMTT(30) DEF Writer, Wait, Post, Do, Instr, Cond, IsOp
<1> HIDE DEF i
<1>5. pc'[t] = Succ(pc[t], 11)
  BY <1>1, <1>2, <1>3, <1>4 DEF Skips, Executes, While, i
<1>6. Skips(t) => pc[t] \in {3, 10} /\ data' = data
  BY <1>3, <1>4 DEF Skips, Holds, i
<1>7. data'.rc = data.rc
  <2>1. CASE Skips(t)
    BY <1>6, <2>1
  <2>2. CASE Executes(t)
    <3>1. data' = Statement(i.op) /\ data \in Data /\ i.op \in {"hf_semwait", "hf_sempost", "wc++", "wc--", "write"}
      BY <1>3, <1>4, <2>2, TypesUsed DEF Executes, i
    <3> QED
      BY <3>1 DEF Statement, Data
  <2> QED
    BY <1>3, <2>1, <2>2
<1>8. SemCall(t, "w_db")
  BY <1>1, TaskEffect, DbSems
<1>9. CASE pc[t] \in {5, 7}
  <2>1. Executes(t)
    BY <1>3, <1>6, <1>9
  <2>2. /\ Next_(t).op \in SemOps /\ Next_(t).obj = "w_db"
        /\ Next_(t).op = "hf_semwait" <=> pc[t] = 5
    BY <1>3, <1>4, <1>9 DEF IsOp, SemOps, i
  <2>3. \/ pc[t] = 5 /\ Waited(t, "w_db")
        \/ pc[t] = 7 /\ Posted("w_db")
    BY <1>8, <1>9, <2>1, <2>2 DEF SemCall, IsOp
  <2> QED
    BY <1>3, <1>5, <1>7, <2>3
<1>10. CASE pc[t] \notin {5, 7}
  <2>1. DbKept
    BY <1>3, <1>4, <1>8, <1>10 DEF SemCall, IsOp, DbKept, i
  <2> QED
    BY <1>3, <1>5, <1>7, <1>10, <2>1
<1> QED
  BY <1>9, <1>10

(* Where the tasks in the queues of the two semaphores are. *)
LEMMA ParkedReaders ==
    ASSUME IInv, Regular, Parked, app.name = "readers_writers"
    PROVE  /\ \A u \in Readers : u \in SemQueue("mtx_rc") => pc[u] \in {4, 11}
           /\ \A u \in Readers : u \in SemQueue("w_db") => pc[u] = 6
           /\ \A u \in Writers : u \in SemQueue("w_db") => pc[u] = 6
<1>1. /\ \A k \in 1..13 : IsOp(Reader[k], "hf_semwait", "mtx_rc") => k \in {3, 10}
      /\ \A k \in 1..13 : IsOp(Reader[k], "hf_semwait", "w_db") => k = 5
      /\ Len(Reader) = 13
  BY SMTT(30) DEF Reader, Wait, Post, Do, Instr, Cond, IsOp
<1>2. /\ \A k \in 1..11 : IsOp(Writer[k], "hf_semwait", "w_db") => k = 5
      /\ Len(Writer) = 11
  BY SMTT(30) DEF Writer, Wait, Post, Do, Instr, Cond, IsOp
<1>3. ASSUME NEW u \in Tasks \ {0}, NEW s \in Sems, u \in SemQueue(s)
      PROVE  /\ pc[u] \in 1..Len(Program(u)) /\ pc[u] # 1
             /\ IsOp(Program(u)[pc[u] - 1], "hf_semwait", s)
  BY <1>3, TypesUsed DEF Parked, PcOK
<1>4. ASSUME NEW u \in Readers
      PROVE  u \in Tasks \ {0} /\ Program(u) = Reader
  BY DEF Readers, Program, Programs, Role
<1>5. ASSUME NEW u \in Writers
      PROVE  u \in Tasks \ {0} /\ Program(u) = Writer
  BY DEF Writers, Program, Programs, Role
<1>6. ASSUME NEW u \in Readers, NEW s \in Sems, u \in SemQueue(s)
      PROVE  pc[u] - 1 \in 1..13 /\ IsOp(Reader[pc[u] - 1], "hf_semwait", s)
  <2>1. pc[u] \in 1..13 /\ pc[u] # 1 /\ IsOp(Reader[pc[u] - 1], "hf_semwait", s)
    BY <1>1, <1>3, <1>4, <1>6
  <2> QED
    BY <2>1
<1>7. ASSUME NEW u \in Writers, NEW s \in Sems, u \in SemQueue(s)
      PROVE  pc[u] - 1 \in 1..11 /\ IsOp(Writer[pc[u] - 1], "hf_semwait", s)
  <2>1. pc[u] \in 1..11 /\ pc[u] # 1 /\ IsOp(Writer[pc[u] - 1], "hf_semwait", s)
    BY <1>2, <1>3, <1>5, <1>7
  <2> QED
    BY <2>1
<1>8. \A u \in Tasks : pc[u] \in 1..14
  BY TypesUsed
<1>9. ASSUME NEW u \in Readers, u \in SemQueue("mtx_rc")
      PROVE  pc[u] \in {4, 11}
  <2>1. pc[u] - 1 \in {3, 10}
    BY <1>1, <1>6, <1>9, DbSems
  <2> QED
    BY <1>4, <1>8, <2>1
<1>10. ASSUME NEW u \in Readers, u \in SemQueue("w_db")
       PROVE  pc[u] = 6
  <2>1. pc[u] - 1 = 5
    BY <1>1, <1>6, <1>10, DbSems
  <2> QED
    BY <1>4, <1>8, <2>1
<1>11. ASSUME NEW u \in Writers, u \in SemQueue("w_db")
       PROVE  pc[u] = 6
  <2>1. pc[u] - 1 = 5
    BY <1>2, <1>7, <1>11, DbSems
  <2> QED
    BY <1>5, <1>8, <2>1
<1> QED
  BY <1>9, <1>10, <1>11

LEMMA RcFinite ==
    ASSUME NEW T, T \subseteq Tasks
    PROVE  IsFiniteSet(T)
<1>1. IsFiniteSet(Tasks)
  BY SyncTasksAssumption, FS_Interval DEF Tasks
<1> QED
  BY <1>1, FS_Subset

LEMMA CountOne ==
    ASSUME NEW T, T \subseteq Tasks
    PROVE  /\ Cardinality(T) = 0 <=> T = {}
           /\ \A t \in T : Cardinality(T) = 1 <=> T = {t}
           /\ \A t \in Tasks \ T : Cardinality(T \cup {t}) = Cardinality(T) + 1
           /\ \A t \in T : Cardinality(T \ {t}) = Cardinality(T) - 1
<1>1. IsFiniteSet(T)
  BY RcFinite
<1>2. Cardinality(T) = 0 <=> T = {}
  BY <1>1, FS_EmptySet
<1>3. ASSUME NEW t \in T, Cardinality(T) = 1
      PROVE  T = {t}
  <2>1. PICK x : T = {x}
    BY <1>1, <1>3, FS_Singleton
  <2> QED
    BY <2>1
<1>4. ASSUME NEW t \in T, T = {t}
      PROVE  Cardinality(T) = 1
  BY <1>4, FS_Singleton
<1>5. \A t \in Tasks \ T : Cardinality(T \cup {t}) = Cardinality(T) + 1
  BY <1>1, FS_AddElement
<1>6. \A t \in T : Cardinality(T \ {t}) = Cardinality(T) - 1
  BY <1>1, FS_RemoveElement
<1> QED
  BY <1>2, <1>3, <1>4, <1>5, <1>6

(* One reader at a time between hf_semwait(&mtx_rc) and hf_sempost(&mtx_rc). *)
LEMMA OneCounts ==
    ASSUME IInv, Regular, Parked, app.name = "readers_writers", CountHeld,
           NEW t \in Readers, NEW u \in Readers, t # u, pc[u] \in {5, 6, 12, 13},
           t \notin SemQueue("mtx_rc"), pc[t] \in {4, 5, 6, 11, 12, 13}
    PROVE  FALSE
<1>1. u \notin SemQueue("mtx_rc")
  BY ParkedReaders
<1>2. CountRegion[1] = {4, 5, 6, 11, 12, 13}
  BY DEF CountRegion
<1>3. t \in Holders("mtx_rc", CountRegion) /\ u \in Holders("mtx_rc", CountRegion)
  BY <1>1, <1>2 DEF Holders, Within, Readers
<1> QED
  BY <1>3 DEF CountHeld, Binary, Bin

LEMMA ReaderKeeps ==
    ASSUME IInv, Regular, Regular', Parked, app.name = "readers_writers", NEW t \in Readers, Step(t),
           DatabaseHeld
    PROVE  DatabaseHeld'
<1>1. /\ pc[t] \in 1..13 /\ pc'[t] = Succ(pc[t], 13)
      /\ data'.rc = IF pc[t] = 4 THEN data.rc + 1 ELSE IF pc[t] = 11 THEN data.rc - 1 ELSE data.rc
      /\ \/ pc[t] = 5 /\ data.rc = 1 /\ Waited(t, "w_db")
         \/ pc[t] = 12 /\ data.rc = 0 /\ Posted("w_db")
         \/ DbKept /\ ~(pc[t] = 5 /\ data.rc = 1) /\ ~(pc[t] = 12 /\ data.rc = 0)
  BY ReaderStep
<1>2. t \in Tasks \ {0} /\ Readers \subseteq Tasks \ {0} /\ Writers \subseteq Tasks \ {0} /\ Readers \cap Writers = {}
  BY DEF Readers, Writers
<1>3. /\ \A u \in Tasks : u # t => pc'[u] = pc[u]
      /\ t \notin SemQueue("mtx_rc") /\ t \notin SemQueue("w_db")
  BY <1>2, TaskEffect, DbSems
<1>4. UNCHANGED app
  BY <1>2, TaskMoves
<1>5. Readers' = Readers /\ Writers' = Writers
  BY <1>4, RoleKept DEF Readers, Writers
<1>6. CountHeld'
  BY <1>2, CountBracketed, TypesUsed, RegionKeeps, DbSems DEF DatabaseHeld, CountHeld
<1>7. /\ CountHeld /\ LoneReader /\ data.rc = Cardinality(RcTasks)
      /\ Bin(sems["w_db"].count, sems["w_db"].sem_queue \in NoQueue, DbHolders)
  BY DEF DatabaseHeld, Binary
<1> DEFINE Q == SemQueue("w_db")
           I == DbHolders'
<1>8. Binary("w_db", DbHolders)' <=> Bin(sems'["w_db"].count, sems'["w_db"].sem_queue \in NoQueue, I)
  BY DEF Binary
<1>9. RcTasks \subseteq Tasks
  BY <1>2 DEF RcTasks
<1>10. data'.rc = Cardinality(RcTasks')
  <2>1. CASE pc[t] = 4
    <3>1. RcTasks' = RcTasks \cup {t} /\ t \notin RcTasks
      BY <1>1, <1>2, <1>3, <1>5, <2>1 DEF RcTasks, Succ
    <3> QED
      BY <1>1, <1>2, <1>7, <1>9, <2>1, <3>1, CountOne
  <2>2. CASE pc[t] = 11
    <3>1. RcTasks' = RcTasks \ {t} /\ t \in RcTasks
      BY <1>1, <1>2, <1>3, <1>5, <2>2 DEF RcTasks, Succ
    <3> QED
      BY <1>1, <1>7, <1>9, <2>2, <3>1, CountOne
  <2>3. CASE pc[t] \notin {4, 11}
    <3>1. RcTasks' = RcTasks
      BY <1>1, <1>2, <1>3, <1>5, <2>3 DEF RcTasks, Succ
    <3> QED
      BY <1>1, <1>7, <2>3, <3>1
  <2> QED
    BY <2>1, <2>2, <2>3
(* No reader waits for the database while t is between its first wait and  *)
(* its last post.                                                          *)
<1>11. pc[t] \in 5..12 => Readers \cap Q = {}
  BY <1>3, <1>7 DEF LoneReader
<1>12. sems["w_db"].count \in Int
  BY QueueFacts, DbSems
<1>13. CASE pc[t] = 5 /\ data.rc = 1 /\ Waited(t, "w_db")
  <2>1. RcTasks = {t}
    BY <1>7, <1>9, <1>13, CountOne DEF RcTasks
  <2>2. \A u \in Readers : u # t => pc[u] \notin 5..12
    <3>1. \A u \in Readers : u # t => pc[u] \notin 5..11
      BY <2>1 DEF RcTasks
    <3>2. \A u \in Readers : u # t => pc[u] # 12
      BY <1>3, <1>7, <1>13, OneCounts
    <3> QED
      BY <3>1, <3>2
  <2>3. pc'[t] = 6
    BY <1>1, <1>13 DEF Succ
  <2>4. Reading = {} /\ Reading' = {t}
    <3>1. Reading = {}
      BY <1>13, <2>2 DEF Reading
    <3>2. Reading' = {t}
      BY <1>2, <1>3, <1>5, <2>2, <2>3 DEF Reading
    <3> QED
      BY <3>1, <3>2
  <2>5. DbHolders = DbWriters
    BY <2>4 DEF DbHolders, DbRead
  <2>6. CASE sems["w_db"].count >= 1 /\ Q' = Q
    <3>1. DbWriters' = DbWriters
      BY <1>2, <1>3, <1>5, <2>6 DEF DbWriters
    <3>2. DbRead'
      BY <1>5, <1>11, <1>13, <2>4, <2>6 DEF DbRead
    <3>3. I = DbHolders \cup {0}
      BY <2>5, <3>1, <3>2 DEF DbHolders
    <3>4. Bin(sems["w_db"].count - 1, sems["w_db"].sem_queue \in NoQueue, I)
      BY <1>7, <1>12, <2>6, <3>3, BinWait
    <3>5. LoneReader'
      BY <1>5, <1>11, <1>13, <2>6 DEF LoneReader
    <3> QED
      BY <1>6, <1>8, <1>10, <1>13, <3>4, <3>5 DEF DatabaseHeld, Waited, Bin
  <2>7. CASE sems["w_db"].count <= 0 /\ sems["w_db"].sem_queue \notin NoQueue /\ Q' = Q \cup {t}
    <3>1. DbWriters' = DbWriters
      BY <1>2, <1>3, <1>5, <2>7 DEF DbWriters
    <3>2. ~DbRead'
      BY <1>5, <2>7 DEF DbRead
    <3>3. I = DbHolders
      BY <2>5, <3>1, <3>2 DEF DbHolders
    <3>4. Bin(sems["w_db"].count - 1, sems["w_db"].sem_queue \in NoQueue, I)
      BY <1>7, <1>12, <2>7, <3>3, BinWait
    <3>5. LoneReader'
      BY <1>2, <1>3, <1>5, <1>11, <1>13, <2>2, <2>7 DEF LoneReader
    <3> QED
      BY <1>6, <1>8, <1>10, <1>13, <3>4, <3>5 DEF DatabaseHeld, Waited, Bin
  <2> QED
    BY <1>13, <2>6, <2>7 DEF Waited
<1>14. CASE pc[t] = 12 /\ data.rc = 0 /\ Posted("w_db")
  <2>1. RcTasks = {}
    BY <1>7, <1>9, <1>14, CountOne
  <2>2. \A u \in Readers : u # t => pc[u] \notin 5..12
    <3>1. \A u \in Readers : u # t => pc[u] \notin 5..11
      BY <2>1 DEF RcTasks
    <3>2. \A u \in Readers : u # t => pc[u] # 12
      BY <1>3, <1>7, <1>14, OneCounts
    <3> QED
      BY <3>1, <3>2
  <2>3. pc'[t] = 13
    BY <1>1, <1>14 DEF Succ
  <2>4. t \in Reading /\ Reading' = {}
    BY <1>2, <1>3, <1>5, <1>14, <2>2, <2>3 DEF Reading
  <2>5. DbHolders = DbWriters \cup {0} /\ 0 \notin DbWriters
    BY <1>2, <1>11, <1>14, <2>4 DEF DbHolders, DbRead, DbWriters
  <2>6. I = DbWriters'
    BY <2>4 DEF DbHolders, DbRead
  <2>7. CASE sems["w_db"].count >= 0 /\ Q' = Q
    <3>1. I = DbHolders \ {0}
      BY <1>2, <1>3, <1>5, <2>5, <2>6, <2>7 DEF DbWriters
    <3>2. Bin(sems["w_db"].count + 1, sems["w_db"].sem_queue \in NoQueue, I)
      BY <1>7, <1>12, <2>5, <2>7, <3>1, BinPost
    <3>3. LoneReader'
      BY <1>5, <1>11, <1>14, <2>7 DEF LoneReader
    <3> QED
      BY <1>6, <1>8, <1>10, <1>14, <3>2, <3>3 DEF DatabaseHeld, Posted, Bin
  <2>8. ASSUME sems["w_db"].count < 0, sems["w_db"].sem_queue \notin NoQueue, NEW h \in Q, Q' = Q \ {h}
        PROVE  DatabaseHeld'
    <3>1. h \in Tasks \ {0} /\ h \notin Readers
      BY <1>11, <1>14, <2>8, QueueFacts, DbSems DEF Parked
    <3>2. h \in Writers /\ pc[h] = 6 /\ h # t
      <4>1. h \in Writers
        BY <3>1 DEF Readers, Writers, Role
      <4> QED
        BY <1>3, <2>8, <4>1, ParkedReaders
    <3>3. I = (DbHolders \ {0}) \cup {h}
      BY <1>2, <1>3, <1>5, <2>5, <2>6, <2>8, <3>2 DEF DbWriters
    <3>4. Bin(sems["w_db"].count + 1, sems["w_db"].sem_queue \in NoQueue, I)
      BY <1>7, <1>12, <2>5, <2>8, <3>3, BinPost
    <3>5. LoneReader'
      BY <1>5, <1>11, <1>14, <2>8 DEF LoneReader
    <3> QED
      BY <1>6, <1>8, <1>10, <1>14, <3>4, <3>5 DEF DatabaseHeld, Posted, Bin
  <2> QED
    BY <1>14, <2>7, <2>8 DEF Posted
<1>15. CASE DbKept /\ ~(pc[t] = 5 /\ data.rc = 1) /\ ~(pc[t] = 12 /\ data.rc = 0)
  <2>1. sems'["w_db"] = sems["w_db"] /\ Q' = Q
    BY <1>15 DEF DbKept
  <2>2. DbWriters' = DbWriters
    BY <1>2, <1>3, <1>5, <2>1 DEF DbWriters
  <2>3. DbRead' <=> DbRead
    <3>1. CASE pc[t] = 5
      <4>1. Cardinality(RcTasks) # 1 /\ t \in RcTasks
        BY <1>7, <1>15, <3>1 DEF RcTasks
      <4>2. PICK u \in RcTasks : u # t
        BY <1>9, <4>1, CountOne
      <4>3. pc[u] # 5
        BY <1>3, <1>7, <3>1, <4>2, OneCounts DEF RcTasks
      <4>4. u \in Reading
        BY <4>2, <4>3 DEF RcTasks, Reading
      <4>5. u \in Reading'
        BY <1>2, <1>3, <1>5, <4>2, <4>4 DEF Reading
      <4> QED
        BY <1>5, <2>1, <4>4, <4>5 DEF DbRead
    <3>2. CASE pc[t] = 12
      <4>1. RcTasks # {}
        BY <1>7, <1>9, <1>15, <3>2, CountOne
      <4>2. PICK u \in RcTasks : TRUE
        BY <4>1
      <4>3. u # t /\ pc[u] # 5
        BY <1>3, <1>7, <3>2, <4>2, OneCounts DEF RcTasks
      <4>4. u \in Reading
        BY <4>2, <4>3 DEF RcTasks, Reading
      <4>5. u \in Reading'
        BY <1>2, <1>3, <1>5, <4>2, <4>3, <4>4 DEF Reading
      <4> QED
        BY <1>5, <2>1, <4>4, <4>5 DEF DbRead
    <3>3. CASE pc[t] \notin {5, 12}
      <4>1. pc'[t] \in 6..12 <=> pc[t] \in 6..12
        BY <1>1, <3>3 DEF Succ
      <4>2. Reading' = Reading
        BY <1>2, <1>3, <1>5, <4>1 DEF Reading
      <4> QED
        BY <1>5, <2>1, <4>2 DEF DbRead
    <3> QED
      BY <3>1, <3>2, <3>3
  <2>4. I = DbHolders
    BY <2>2, <2>3 DEF DbHolders
  <2>5. LoneReader'
    <3> SUFFICES ASSUME NEW v \in Readers \cap Q, NEW u \in Readers, u # v
                 PROVE  pc'[u] \notin 5..12
      BY <1>5, <2>1 DEF LoneReader
    <3>1. CASE u # t
      BY <1>2, <1>3, <1>7, <3>1 DEF LoneReader
    <3>2. CASE u = t
      <4>1. pc[t] \notin 5..12
        BY <1>11
      <4>2. pc[v] = 6 /\ v # t
        BY <1>3, ParkedReaders
      <4>3. pc[t] # 4
        BY <1>3, <1>7, <4>2, OneCounts
      <4> QED
        BY <1>1, <3>2, <4>1, <4>3 DEF Succ
    <3> QED
      BY <3>1, <3>2
  <2> QED
    BY <1>6, <1>7, <1>8, <1>10, <2>1, <2>4, <2>5 DEF DatabaseHeld
<1> QED
  BY <1>1, <1>13, <1>14, <1>15

LEMMA WriterKeeps ==
    ASSUME IInv, Regular, Regular', Parked, app.name = "readers_writers", NEW t \in Writers, Step(t),
           DatabaseHeld
    PROVE  DatabaseHeld'
<1>1. /\ pc[t] \in 1..11 /\ pc'[t] = Succ(pc[t], 11)
      /\ data'.rc = data.rc
      /\ \/ pc[t] = 5 /\ Waited(t, "w_db")
         \/ pc[t] = 7 /\ Posted("w_db")
         \/ pc[t] \notin {5, 7} /\ DbKept
  BY WriterStep
<1>2. t \in Tasks \ {0} /\ Readers \subseteq Tasks \ {0} /\ Writers \subseteq Tasks \ {0} /\ Readers \cap Writers = {}
  BY DEF Readers, Writers
<1>3. /\ \A u \in Tasks : u # t => pc'[u] = pc[u]
      /\ t \notin SemQueue("w_db")
  BY <1>2, TaskEffect, DbSems
<1>4. UNCHANGED app
  BY <1>2, TaskMoves
<1>5. Readers' = Readers /\ Writers' = Writers
  BY <1>4, RoleKept DEF Readers, Writers
<1>6. CountHeld'
  BY <1>2, CountBracketed, TypesUsed, RegionKeeps, DbSems DEF DatabaseHeld, CountHeld
<1>7. /\ LoneReader /\ data.rc = Cardinality(RcTasks)
      /\ Bin(sems["w_db"].count, sems["w_db"].sem_queue \in NoQueue, DbHolders)
  BY DEF DatabaseHeld, Binary
<1> DEFINE Q == SemQueue("w_db")
           I == DbHolders'
<1>8. Binary("w_db", DbHolders)' <=> Bin(sems'["w_db"].count, sems'["w_db"].sem_queue \in NoQueue, I)
  BY DEF Binary
<1>9. \A u \in Readers : pc'[u] = pc[u]
  BY <1>2, <1>3
<1>10. Reading' = Reading /\ RcTasks' = RcTasks
  BY <1>5, <1>9 DEF Reading, RcTasks
<1>11. ASSUME Q' \cap Readers \subseteq Q \cap Readers, Binary("w_db", DbHolders)'
       PROVE  DatabaseHeld'
  <2>1. LoneReader'
    BY <1>5, <1>7, <1>9, <1>11 DEF LoneReader
  <2> QED
    BY <1>1, <1>6, <1>7, <1>10, <1>11, <2>1 DEF DatabaseHeld
<1>12. sems["w_db"].count \in Int
  BY QueueFacts, DbSems
<1>13. CASE pc[t] = 5 /\ Waited(t, "w_db")
  <2>1. pc'[t] = 6
    BY <1>1, <1>13 DEF Succ
  <2>2. Q' \cap Readers = Q \cap Readers
    BY <1>2, <1>13 DEF Waited
  <2>3. DbRead' <=> DbRead
    BY <1>5, <1>10, <2>2 DEF DbRead
  <2>4. \/ sems["w_db"].count >= 1 /\ I = DbHolders \cup {t}
        \/ sems["w_db"].count <= 0 /\ sems["w_db"].sem_queue \notin NoQueue /\ I = DbHolders
    <3>1. CASE sems["w_db"].count >= 1 /\ Q' = Q
      <4>1. DbWriters' = DbWriters \cup {t}
        BY <1>2, <1>3, <1>5, <2>1, <3>1 DEF DbWriters
      <4> QED
        BY <2>3, <3>1, <4>1 DEF DbHolders
    <3>2. CASE sems["w_db"].count <= 0 /\ sems["w_db"].sem_queue \notin NoQueue /\ Q' = Q \cup {t}
      <4>1. DbWriters' = DbWriters
        BY <1>2, <1>3, <1>5, <1>13, <3>2 DEF DbWriters
      <4> QED
        BY <2>3, <3>2, <4>1 DEF DbHolders
    <3> QED
      BY <1>13, <3>1, <3>2 DEF Waited
  <2>5. Bin(sems["w_db"].count - 1, sems["w_db"].sem_queue \in NoQueue, I)
    BY <1>7, <1>12, <2>4, BinWait
  <2> QED
    BY <1>8, <1>11, <1>13, <2>2, <2>5 DEF Waited, Bin
<1>14. CASE pc[t] = 7 /\ Posted("w_db")
  <2>1. pc'[t] = 8
    BY <1>1, <1>14 DEF Succ
  <2>2. t \in DbHolders
    BY <1>3, <1>14 DEF DbHolders, DbWriters
  <2>3. CASE sems["w_db"].count >= 0 /\ Q' = Q
    <3>1. DbWriters' = DbWriters \ {t}
      BY <1>2, <1>3, <1>5, <2>1, <2>3 DEF DbWriters
    <3>2. DbRead' <=> DbRead
      BY <1>5, <1>10, <2>3 DEF DbRead
    <3>3. I = DbHolders \ {t}
      BY <1>2, <3>1, <3>2 DEF DbHolders
    <3>4. Bin(sems["w_db"].count + 1, sems["w_db"].sem_queue \in NoQueue, I)
      BY <1>7, <1>12, <2>2, <2>3, <3>3, BinPost
    <3> QED
      BY <1>8, <1>11, <1>14, <2>3, <3>4 DEF Posted, Bin
  <2>4. ASSUME sems["w_db"].count < 0, sems["w_db"].sem_queue \notin NoQueue, NEW h \in Q, Q' = Q \ {h}
        PROVE  DatabaseHeld'
    <3>1. h \in Tasks \ {0} /\ h # t
      BY <1>3, <2>4, QueueFacts, DbSems DEF Parked
    <3>2. \E x : I = (DbHolders \ {t}) \cup {x}
      <4>1. CASE h \in Readers
        <5>1. Q \cap Readers = {h} /\ h \in Reading
          <6>1. pc[h] = 6
            BY <2>4, <4>1, ParkedReaders
          <6>2. \A u \in Readers \cap Q : pc[u] = 6
            BY ParkedReaders
          <6>3. \A u \in Readers \cap Q : u = h
            BY <1>7, <2>4, <4>1, <6>1, <6>2 DEF LoneReader
          <6> QED
            BY <2>4, <4>1, <6>1, <6>3 DEF Reading
        <5>2. DbRead'
          BY <1>5, <1>10, <2>4, <5>1 DEF DbRead
        <5>3. ~DbRead
          BY <2>4, <4>1 DEF DbRead
        <5>4. DbWriters' = DbWriters \ {t}
          BY <1>2, <1>3, <1>5, <2>1, <2>4, <4>1 DEF DbWriters
        <5>5. I = (DbHolders \ {t}) \cup {0}
          BY <5>2, <5>3, <5>4 DEF DbHolders
        <5> QED
          BY <5>5
      <4>2. CASE h \notin Readers
        <5>1. h \in Writers /\ pc[h] = 6
          <6>1. h \in Writers
            BY <3>1, <4>2 DEF Readers, Writers, Role
          <6> QED
            BY <2>4, <6>1, ParkedReaders
        <5>2. DbRead' <=> DbRead
          BY <1>5, <1>10, <2>4, <4>2 DEF DbRead
        <5>3. DbWriters' = (DbWriters \ {t}) \cup {h}
          BY <1>2, <1>3, <1>5, <2>1, <2>4, <3>1, <5>1 DEF DbWriters
        <5>4. I = (DbHolders \ {t}) \cup {h}
          BY <1>2, <5>2, <5>3 DEF DbHolders
        <5> QED
          BY <5>4
      <4> QED
        BY <4>1, <4>2
    <3>3. Bin(sems["w_db"].count + 1, sems["w_db"].sem_queue \in NoQueue, I)
      BY <1>7, <1>12, <2>2, <2>4, <3>2, BinPost
    <3> QED
      BY <1>8, <1>11, <1>14, <2>4, <3>3 DEF Posted, Bin
  <2> QED
    BY <1>14, <2>3, <2>4 DEF Posted
<1>15. CASE pc[t] \notin {5, 7} /\ DbKept
  <2>1. sems'["w_db"] = sems["w_db"] /\ Q' = Q
    BY <1>15 DEF DbKept
  <2>2. pc'[t] \in 6..7 <=> pc[t] \in 6..7
    BY <1>1, <1>15 DEF Succ
  <2>3. DbWriters' = DbWriters
    BY <1>2, <1>3, <1>5, <2>1, <2>2 DEF DbWriters
  <2>4. I = DbHolders
    BY <1>5, <1>10, <2>1, <2>3 DEF DbHolders, DbRead
  <2> QED
    BY <1>7, <1>8, <1>11, <2>1, <2>4
<1> QED
  BY <1>1, <1>13, <1>14, <1>15

LEMMA DatabaseMain ==
    ASSUME IInv, IInv', Step(0), Booted, app.name = "readers_writers", DatabaseHeld
    PROVE  DatabaseHeld'
<1>1. UNCHANGED <<app, data>> /\ \A u \in Tasks : u # 0 => pc'[u] = pc[u]
  BY MainCallOf
<1>2. SemQueue("w_db")' = SemQueue("w_db")
  BY MainQueues, DbSems
<1>3. Readers' = Readers /\ Writers' = Writers /\ Readers \subseteq Tasks \ {0} /\ Writers \subseteq Tasks \ {0}
  BY <1>1, RoleKept DEF Readers, Writers
<1>4. \A u \in Readers \cup Writers : pc'[u] = pc[u]
  BY <1>1, <1>3
<1>5. CountHeld'
  BY RegionMain, CountBracketed, TypesUsed, DbSems DEF DatabaseHeld, CountHeld
<1>6. Reading' = Reading /\ RcTasks' = RcTasks
  BY <1>3, <1>4 DEF Reading, RcTasks
<1>7. DbWriters' = DbWriters
  BY <1>2, <1>3, <1>4 DEF DbWriters
<1>8. DbHolders' = DbHolders
  BY <1>2, <1>3, <1>6, <1>7 DEF DbHolders, DbRead
<1>9. LoneReader'
  BY <1>2, <1>3, <1>4 DEF LoneReader, DatabaseHeld
<1>10. pc[0] < End => DbHolders = {}
  <2>1. pc[0] < End => Reading = {} /\ DbWriters = {}
    BY <1>3 DEF Booted, Reading, DbWriters
  <2> QED
    BY <2>1 DEF DbHolders, DbRead
<1>11. Bin(sems'["w_db"].count, sems'["w_db"].sem_queue \in NoQueue, DbHolders)
  BY <1>10, BinaryMain, CountBracketed, TypesUsed, DbSems DEF DatabaseHeld
<1>12. Binary("w_db", DbHolders)'
  BY <1>8, <1>11 DEF Binary
<1> QED
  BY <1>1, <1>5, <1>6, <1>9, <1>12 DEF DatabaseHeld

LEMMA DatabaseQuiet ==
    ASSUME DatabaseHeld, UNCHANGED <<app, pc, sems, data>>
    PROVE  DatabaseHeld'
<1>1. Readers' = Readers /\ Writers' = Writers
  BY RoleKept DEF Readers, Writers
<1>2. SemQueue("w_db")' = SemQueue("w_db")
  BY DEF SemQueue
<1>3. Reading' = Reading /\ RcTasks' = RcTasks
  BY <1>1 DEF Reading, RcTasks
<1>4. DbHolders' = DbHolders
  BY <1>1, <1>2, <1>3 DEF DbHolders, DbRead, DbWriters
<1>5. LoneReader'
  BY <1>1, <1>2 DEF LoneReader, DatabaseHeld
<1>6. CountHeld'
  BY BinaryQuiet, DbSems DEF CountHeld, DatabaseHeld
<1> QED
  BY <1>3, <1>4, <1>5, <1>6 DEF DatabaseHeld, Binary

-----------------------------------------------------------------------------
(* The spin lock: the region of each role between hf_mtxlock() and         *)
(* hf_mtxunlock().  A task inside hf_condwait() does not hold the lock.    *)
SpinRegion == [cond_test1 |-> <<2..7, 2..7>>, mutex_test1 |-> <<2..3, 2..3>>,
               spawn_malloc |-> <<3..4, 2..3>>, spawn_only |-> <<3..4, 3..4>>]
SpinApps == {"cond_test1", "mutex_test1", "spawn_malloc", "spawn_only"}
SpinTasks == Within(SpinRegion[app.name])
SpinHolders == {t \in SpinTasks : stage[t] = "run"}

SpinHeld ==
    /\ \A t, u \in SpinHolders : t = u
    /\ lock["m"] = 0 => SpinHolders = {}
    /\ \A t \in Tasks : stage[t] \in {"run", "cond_yield", "relock"}
    /\ \A t \in Tasks : stage[t] # "run" => local[t].m = "m" /\ t \in SpinTasks

SpinBracketed(p, P) ==
    /\ 1 \notin P
    /\ \A k \in 1..Len(p) :
        /\ p[k].op \notin SemOps \cup {"filter_mtxlock", "filter_mtxunlock"}
        /\ p[k].op \in MtxOps => p[k].obj = "m" /\ p[k].when = "always"
        /\ p[k].op = "hf_mtxlock" => k \notin P /\ Succ(k, Len(p)) \in P
        /\ p[k].op = "hf_mtxunlock" => k \in P /\ Succ(k, Len(p)) \notin P
        /\ p[k].op = "hf_condwait" => p[k].when # "always" /\ k \in P
        /\ p[k].op \notin MtxOps => (k \in P <=> Succ(k, Len(p)) \in P)

LEMMA SpinProgramsBracketed ==
    ASSUME AppOK, app.name \in SpinApps, NEW t \in Tasks \ {0}
    PROVE  SpinBracketed(Program(t), SpinRegion[app.name][Role(t)])
<1> USE DEF SpinBracketed, SemOps, MtxOps, Succ, Do, Instr, Cond
<1>1. SpinBracketed(CondProducer, 2..7) BY SMTT(30) DEF CondProducer
<1>2. SpinBracketed(CondConsumer, 2..7) BY SMTT(30) DEF CondConsumer
<1>3. SpinBracketed(SpinTask, 2..3) BY SMTT(30) DEF SpinTask
<1>4. SpinBracketed(Mallocer, 2..3) BY SMTT(30) DEF Mallocer
<1>5. SpinBracketed(Spawner, 3..4) BY SMTT(30) DEF Spawner
<1> HIDE DEF SpinBracketed
<1>6. CASE app.name = "cond_test1"
  BY <1>1, <1>2, <1>6 DEF Program, Programs, Role, SpinRegion
<1>7. CASE app.name = "mutex_test1"
  BY <1>3, <1>7 DEF Program, Programs, Role, SpinRegion
<1>8. CASE app.name = "spawn_malloc"
  BY <1>4, <1>5, <1>8 DEF Program, Programs, Role, SpinRegion
<1>9. CASE app.name = "spawn_only"
  BY <1>5, <1>9 DEF Program, Programs, Role, SpinRegion
<1> QED
  BY <1>6, <1>7, <1>8, <1>9 DEF SpinApps

LEMMA LocalM ==
    ASSUME NEW f \in [Tasks -> Local], NEW t \in Tasks, NEW m
    PROVE  /\ [f EXCEPT ![t].m = m][t].m = m
           /\ \A u \in Tasks : u # t => [f EXCEPT ![t].m = m][u] = f[u]
<1> DEFINE r == [f[t] EXCEPT !.m = m]
<1>1. [f EXCEPT ![t].m = m] = [f EXCEPT ![t] = r]
  BY Zenon
<1>2. r.m = m
  BY DEF Local
<1> HIDE DEF r
<1>3. [f EXCEPT ![t] = r][t] = r /\ \A u \in Tasks : u # t => [f EXCEPT ![t] = r][u] = f[u]
  OBVIOUS
<1> QED
  BY <1>1, <1>2, <1>3, Zenon

LEMMA SpinTaskStep ==
    ASSUME IInv, NEW t \in Tasks \ {0}, Step(t), app.name \in SpinApps, SpinHeld
    PROVE  SpinHeld'
<1> DEFINE R == SpinRegion[app.name]
           P == R[Role(t)]
           i == Next_(t)
           next == Succ(pc[t], Len(Program(t)))
<1>1. /\ UNCHANGED app /\ stage[t] = "run" /\ (Skips(t) \/ Executes(t)) /\ TaskInstr(i)
      /\ pc[t] \in 1..Len(Program(t))
      /\ \A u \in Tasks : u # t => pc'[u] = pc[u]
  BY TaskMoves
<1>2. SyncTypeOK /\ AppOK /\ PcOK /\ pc \in [Tasks -> 1..14]
  BY TypesUsed
<1>3. \A u \in Tasks : u # t => stage'[u] = stage[u]
  BY <1>2, TaskStep, CallStages
<1>4. /\ stage \in [Tasks -> {"run", "yield", "cond_yield", "relock", "level",
                              "waiting", "test_level", "test_waiting"}]
      /\ lock \in [Mtxs -> {0, 1}] /\ local \in [Tasks -> Local] /\ "m" \in Mtxs
  BY <1>2, AppsAssumption DEF SyncTypeOK, Local
<1>5. SpinTasks' = {u \in Tasks \ {0} : pc'[u] \in R[Role(u)]} /\ SpinTasks = {u \in Tasks \ {0} : pc[u] \in R[Role(u)]}
  BY <1>1, RoleKept DEF SpinTasks, Within
<1>6. /\ i.op \notin SemOps \cup {"filter_mtxlock", "filter_mtxunlock"}
      /\ i.op \in MtxOps => i.obj = "m" /\ i.when = "always"
      /\ i.op = "hf_mtxlock" => pc[t] \notin P /\ next \in P
      /\ i.op = "hf_mtxunlock" => pc[t] \in P /\ next \notin P
      /\ i.op = "hf_condwait" => i.when # "always" /\ pc[t] \in P
      /\ i.op \notin MtxOps => (pc[t] \in P <=> next \in P)
  BY <1>1, <1>2, SpinProgramsBracketed DEF SpinBracketed, Next_
<1> HIDE DEF R, P, i, next
<1>7. \A u \in Tasks : u # t => (u \in SpinTasks' <=> u \in SpinTasks) /\ (u \in SpinHolders' <=> u \in SpinHolders)
  BY <1>1, <1>3, <1>5 DEF SpinHolders
<1>8. /\ t \in SpinTasks' <=> pc'[t] \in P
      /\ t \in SpinTasks <=> pc[t] \in P
      /\ t \in SpinHolders <=> pc[t] \in P
      /\ t \in SpinHolders' <=> pc'[t] \in P /\ stage'[t] = "run"
      /\ SpinHolders \subseteq Tasks /\ SpinHolders' \subseteq Tasks
  BY <1>1, <1>5 DEF SpinHolders, P
<1>9. /\ \A u, v \in SpinHolders : u = v
      /\ lock["m"] = 0 => SpinHolders = {}
      /\ \A u \in Tasks : stage[u] \in {"run", "cond_yield", "relock"}
      /\ \A u \in Tasks : stage[u] # "run" => local[u].m = "m" /\ u \in SpinTasks
  BY DEF SpinHeld
(* What the other tasks contribute to the invariant stays. *)
<1>10. ASSUME \A u \in Tasks : u # t => local'[u] = local[u],
              stage'[t] = "run" \/ (stage'[t] = "cond_yield" /\ local'[t].m = "m" /\ t \in SpinTasks')
       PROVE  /\ \A u \in Tasks : stage'[u] \in {"run", "cond_yield", "relock"}
              /\ \A u \in Tasks : stage'[u] # "run" => local'[u].m = "m" /\ u \in SpinTasks'
  BY <1>3, <1>7, <1>9, <1>10
<1>11. CASE Executes(t) /\ i.op = "hf_mtxlock"
  <2>1. hf_mtxlock(t, "m") /\ pc'[t] = next
    BY <1>1, <1>6, <1>11, CallOf DEF Executes, While, MtxOps, i, next
  <2>2. lock["m"] = 0 /\ lock'["m"] = 1 /\ stage' = stage /\ local' = local
    BY <1>4, <2>1 DEF hf_mtxlock
  <2>3. SpinHolders' = {t}
    BY <1>1, <1>6, <1>7, <1>8, <1>9, <1>11, <2>1, <2>2
  <2> QED
    BY <1>1, <1>10, <2>2, <2>3 DEF SpinHeld
<1>12. CASE Executes(t) /\ i.op = "hf_mtxunlock"
  <2>1. hf_mtxunlock(t, "m") /\ pc'[t] = next
    BY <1>1, <1>6, <1>12, CallOf DEF Executes, While, MtxOps, i, next
  <2>2. stage' = stage /\ local' = local
    BY <2>1 DEF hf_mtxunlock
  <2>3. SpinHolders' = {}
    BY <1>1, <1>6, <1>7, <1>8, <1>9, <1>12, <2>1, <2>2
  <2> QED
    BY <1>1, <1>10, <2>2, <2>3 DEF SpinHeld
<1>13. CASE Executes(t) /\ i.op = "hf_condwait"
  <2>1. hf_condwait(t, i.obj, "m") /\ pc'[t] = pc[t]
    BY <1>1, <1>6, <1>13, CallOf DEF Executes, While, i
  <2>2. stage'[t] = "cond_yield"
    BY <1>4, <2>1 DEF hf_condwait, Go
  <2>3. local'[t].m = "m" /\ \A u \in Tasks : u # t => local'[u] = local[u]
    <3>1. local' = [local EXCEPT ![t].m = "m"]
      BY <2>1, Zenon DEF hf_condwait
    <3> QED
      BY <1>4, <3>1, LocalM, Zenon
  <2>4. SpinHolders' = {} /\ t \in SpinTasks'
    BY <1>6, <1>7, <1>8, <1>9, <1>13, <2>1, <2>2
  <2> QED
    BY <1>10, <2>2, <2>3, <2>4 DEF SpinHeld
<1>14. CASE Skips(t) \/ (Executes(t) /\ i.op \notin MtxOps \cup {"hf_condwait"})
  <2>1. UNCHANGED <<stage, lock, local>> /\ pc'[t] = next
    <3>1. CASE Skips(t)
      BY <3>1 DEF Skips, syncvars, next
    <3>2. CASE Executes(t) /\ i.op \notin MtxOps \cup {"hf_condwait"}
      <4>1. Execute(t, i) /\ pc'[t] = next
        BY <3>2 DEF Executes, While, i, next
      <4> QED
        BY <1>1, <1>6, <3>2, <4>1, CallOf DEF TaskInstr, TaskOps, SemOps, CondOps, MtxOps, hf_condsignal, hf_condbroadcast,
             _di, _ei, syncvars
    <3> QED
      BY <1>14, <3>1, <3>2
  <2>2. i.op \notin MtxOps
    <3>1. CASE Skips(t)
      <4>1. i.when # "always"
        BY <3>1 DEF Skips, Holds, i
      <4> QED
        BY <1>6, <4>1
    <3> QED
      BY <1>14, <3>1
  <2>3. SpinHolders' = SpinHolders
    <3>1. t \in SpinHolders' <=> t \in SpinHolders
      BY <1>1, <1>6, <1>8, <2>1, <2>2
    <3> QED
      BY <1>7, <1>8, <3>1
  <2> QED
    BY <1>1, <1>9, <1>10, <2>1, <2>3 DEF SpinHeld
<1> QED
  BY <1>1, <1>6, <1>11, <1>12, <1>13, <1>14 DEF MtxOps

LEMMA SpinInside ==
    ASSUME IInv, NEW t \in Tasks, Inside(t), SpinHeld
    PROVE  SpinHeld'
<1>1. UNCHANGED <<app, pc>> /\ InsideCall(t)
  BY DEF Inside
<1>2. SyncTypeOK
  BY TypesUsed
<1>3. \A u \in Tasks : u # t => stage'[u] = stage[u]
  BY <1>1, <1>2, CallStages
<1>4. /\ stage \in [Tasks -> {"run", "yield", "cond_yield", "relock", "level",
                              "waiting", "test_level", "test_waiting"}]
      /\ lock \in [Mtxs -> {0, 1}] /\ "m" \in Mtxs
  BY <1>2, AppsAssumption DEF SyncTypeOK
<1>5. SpinTasks' = SpinTasks /\ SpinTasks \subseteq Tasks
  BY <1>1, RoleKept DEF SpinTasks, Within
<1>6. stage[t] \in {"run", "cond_yield", "relock"} /\ (stage[t] # "run" => local[t].m = "m" /\ t \in SpinTasks)
  BY DEF SpinHeld
<1>7. CondYield(t) \/ Relock(t)
  BY <1>1, <1>6 DEF InsideCall, ReturnFromSemwait, SetLevel, SetWaiting, TestLevel, TestWaiting, At
<1>8. CASE CondYield(t)
  <2>1. stage[t] = "cond_yield" /\ stage'[t] = "relock" /\ lock' = lock /\ local' = local
    BY <1>4, <1>8 DEF CondYield, Go, At
  <2>2. SpinHolders' = SpinHolders
    BY <1>3, <1>5, <2>1 DEF SpinHolders
  <2> QED
    BY <1>3, <1>5, <1>6, <2>1, <2>2 DEF SpinHeld
<1>9. CASE Relock(t)
  <2>1. stage[t] = "relock" /\ stage'[t] = "run" /\ local' = local
    BY <1>4, <1>9 DEF Relock, Go, At
  <2>2. lock["m"] = 0 /\ lock'["m"] = 1
    BY <1>4, <1>6, <1>9, <2>1 DEF Relock
  <2>3. SpinHolders = {} /\ SpinHolders' = {t}
    BY <1>3, <1>5, <1>6, <2>1, <2>2 DEF SpinHolders, SpinHeld
  <2> QED
    BY <1>3, <1>5, <1>6, <2>1, <2>2, <2>3 DEF SpinHeld
<1> QED
  BY <1>7, <1>8, <1>9

LEMMA SpinMain ==
    ASSUME IInv, Step(0), Booted, app.name \in SpinApps, SpinHeld
    PROVE  SpinHeld'
<1>1. /\ UNCHANGED <<app, stage, local>>
      /\ \A u \in Tasks : u # 0 => pc'[u] = pc[u]
      /\ pc[0] < End \/ UNCHANGED <<syncvars, pc>>
  BY MainCallOf
<1>2. SpinTasks' = SpinTasks
  BY <1>1, RoleKept DEF SpinTasks, Within
<1>3. SpinHolders' = SpinHolders
  BY <1>1, <1>2 DEF SpinHolders
<1>4. pc[0] < End => SpinHolders = {}
  BY SpinProgramsBracketed, TypesUsed DEF Booted, SpinHolders, SpinTasks, Within, SpinBracketed
<1> QED
  BY <1>1, <1>2, <1>3, <1>4 DEF SpinHeld, syncvars

-----------------------------------------------------------------------------
(* The filter lock.  A task arrives at a level when it has set waiting[]   *)
(* there, passes it when its tests for it have ended, and holds the lock   *)
(* when it has passed the last one.                                        *)
Testing == {"test_level", "test_waiting"}
FilterStages == {"run", "level", "waiting"} \cup Testing

HoldsFilter(t) == stage[t] = "run" /\ pc[t] \in 2..3
Passed(t, l) == HoldsFilter(t) \/ (stage[t] # "run" /\ local[t].l > l)
Arrived(t, l) == Passed(t, l) \/ (stage[t] \in Testing /\ local[t].l = l)

TaskIds == Tasks \ {0}
Level(t) == filter["m"].level[t]
Victim(l) == filter["m"].waiting[l]

(* Inside hf_mtxlock() a task has not got beyond it. *)
FilterPlaces ==
    \A t \in TaskIds : /\ stage[t] \in FilterStages /\ pc[t] \in 1..3
                       /\ stage[t] # "run" => pc[t] = 2 /\ local[t].m = "m"

(* level[] tells how far a task has got. *)
LevelsTell ==
    \A t \in TaskIds, l \in Levels :
        Arrived(t, l) \/ (stage[t] = "waiting" /\ local[t].l = l) => Level(t) >= l

(* No task that the last one to arrive has tested is at its level: it      *)
(* would have become the last.                                             *)
TestsTell ==
    \A t \in TaskIds, l \in WaitingSlots :
        Victim(l) = t /\ stage[t] \in Testing /\ local[t].l = l =>
            \A j \in TaskIds : j # t /\ j < local[t].k => ~Arrived(j, l)

(* The last to arrive is still there, or has passed alone. *)
VictimStays ==
    \A l \in WaitingSlots, u \in TaskIds, v \in Tasks : Arrived(u, l) /\ Victim(l) = v =>
        v # 0 /\ Arrived(v, l) /\ (Passed(v, l) => u = v)

FilterHeld == FilterPlaces /\ LevelsTell /\ TestsTell /\ VictimStays

(* Every entry of waiting[] belongs to a level; the last level has none,   *)
(* and needs none: one task at most gets there.                            *)
LEMMA SlotsAreLevels ==
    /\ \A l \in WaitingSlots : l \in Levels
    /\ \A l \in Levels : l + 1 \in Levels => l \in WaitingSlots
BY SyncTasksAssumption DEF WaitingSlots, Levels

LEMMA FilterTypes ==
    ASSUME IInv
    PROVE  /\ stage \in [Tasks -> {"run", "yield", "cond_yield", "relock", "level",
                                   "waiting", "test_level", "test_waiting"}]
           /\ local \in [Tasks -> Local] /\ "m" \in Mtxs
           /\ filter \in [Mtxs -> FilterLock]
           /\ \A t \in Tasks : local[t].l \in Levels /\ local[t].k \in Tasks
           /\ \A t \in Tasks : Level(t) \in 0..(MAX_TASKS - 1)
           /\ \A l \in WaitingSlots : Victim(l) \in Tasks
<1>1. /\ stage \in [Tasks -> {"run", "yield", "cond_yield", "relock", "level",
                              "waiting", "test_level", "test_waiting"}]
      /\ local \in [Tasks -> Local] /\ "m" \in Mtxs
      /\ filter \in [Mtxs -> FilterLock]
  BY TypesUsed, AppsAssumption DEF SyncTypeOK, Local, FilterLock
<1>2. \A t \in Tasks : local[t].l \in Levels /\ local[t].k \in Tasks
  BY <1>1 DEF Local
<1>3. filter["m"] \in FilterLock
  BY <1>1
<1>4. /\ \A t \in Tasks : Level(t) \in 0..(MAX_TASKS - 1)
      /\ \A l \in WaitingSlots : Victim(l) \in Tasks
  BY <1>3 DEF FilterLock, Level, Victim
<1> QED
  BY <1>1, <1>2, <1>4

(* The step of one task. *)
OthersStill(t) ==
    \A u \in Tasks : u # t => stage'[u] = stage[u] /\ pc'[u] = pc[u] /\ local'[u] = local[u]

LEMMA OthersArrived ==
    ASSUME NEW t \in Tasks, OthersStill(t)
    PROVE  \A u \in Tasks, l \in Levels :
               u # t => (Arrived(u, l)' <=> Arrived(u, l)) /\ (Passed(u, l)' <=> Passed(u, l))
BY DEF OthersStill, Arrived, Passed, HoldsFilter

(* A step that moves nobody to or from a level. *)
LEMMA StillKeeps ==
    ASSUME FilterHeld, NEW t \in TaskIds, OthersStill(t),
           \A l \in Levels : (Arrived(t, l)' <=> Arrived(t, l)) /\ (Passed(t, l)' <=> Passed(t, l)),
           \A l \in WaitingSlots : Victim(l)' = Victim(l),
           \A l \in WaitingSlots : Victim(l) = t /\ stage'[t] \in Testing /\ local'[t].l = l =>
               \A j \in TaskIds : j # t /\ j < local'[t].k => ~Arrived(j, l)
    PROVE  TestsTell' /\ VictimStays'
<1>1. TaskIds \subseteq Tasks
  BY DEF TaskIds
<1>2. \A u \in TaskIds, l \in Levels : (Arrived(u, l)' <=> Arrived(u, l)) /\ (Passed(u, l)' <=> Passed(u, l))
  BY <1>1, OthersArrived
<1> USE SlotsAreLevels
<1>3. VictimStays'
  <2> SUFFICES ASSUME NEW l \in WaitingSlots, NEW u \in TaskIds, NEW v \in Tasks, Arrived(u, l)', Victim(l)' = v
               PROVE  v # 0 /\ Arrived(v, l)' /\ (Passed(v, l)' => u = v)
    BY DEF VictimStays
  <2>1. v # 0 /\ Arrived(v, l) /\ (Passed(v, l) => u = v)
    BY <1>2 DEF FilterHeld, VictimStays
  <2>2. v \in TaskIds
    BY <2>1 DEF TaskIds
  <2> QED
    BY <1>2, <2>1, <2>2
<1>4. TestsTell'
  <2> SUFFICES ASSUME NEW u \in TaskIds, NEW l \in WaitingSlots,
                      Victim(l)' = u, stage'[u] \in Testing, local'[u].l = l,
                      NEW j \in TaskIds, j # u, j < local'[u].k
               PROVE  ~Arrived(j, l)'
    BY DEF TestsTell
  <2>1. CASE u = t
    BY <1>2, <2>1
  <2>2. CASE u # t
    BY <1>1, <1>2, <2>2 DEF FilterHeld, TestsTell, OthersStill
  <2> QED
    BY <2>1, <2>2
<1> QED
  BY <1>3, <1>4

LEMMA LevelsKeep ==
    ASSUME FilterHeld, NEW t \in TaskIds, OthersStill(t),
           \A u \in TaskIds : u # t => Level(u)' = Level(u),
           \A l \in Levels : Arrived(t, l)' \/ (stage'[t] = "waiting" /\ local'[t].l = l) => Level(t)' >= l,
           stage'[t] \in FilterStages, pc'[t] \in 1..3,
           stage'[t] # "run" => pc'[t] = 2 /\ local'[t].m = "m"
    PROVE  FilterPlaces' /\ LevelsTell'
<1>1. TaskIds \subseteq Tasks
  BY DEF TaskIds
<1>2. \A u \in TaskIds, l \in Levels : u # t => (Arrived(u, l)' <=> Arrived(u, l))
  BY <1>1, OthersArrived
<1>3. FilterPlaces'
  BY <1>1 DEF FilterPlaces, FilterHeld, OthersStill
<1>4. LevelsTell'
  <2> SUFFICES ASSUME NEW u \in TaskIds, NEW l \in Levels,
                      Arrived(u, l)' \/ (stage'[u] = "waiting" /\ local'[u].l = l)
               PROVE  Level(u)' >= l
    BY DEF LevelsTell
  <2>1. CASE u = t
    BY <2>1
  <2>2. CASE u # t
    BY <1>1, <1>2, <2>2 DEF FilterHeld, LevelsTell, OthersStill
  <2> QED
    BY <2>1, <2>2
<1> QED
  BY <1>3, <1>4

(* What the assignments to level[] and waiting[] do to the lock. *)
LevelPut(f, g, m, t, n) == g = [f EXCEPT ![m].level[t] = n]
WaitingPut(f, g, m, l, t) == g = [f EXCEPT ![m].waiting[l] = t]

LEMMA LevelAssigned ==
    ASSUME NEW f \in [Mtxs -> FilterLock], NEW m \in Mtxs, NEW t \in Tasks, NEW n \in 0..(MAX_TASKS - 1),
           NEW g, LevelPut(f, g, m, t, n)
    PROVE  g[m].level = [f[m].level EXCEPT ![t] = n] /\ g[m].waiting = f[m].waiting
<1> DEFINE h == [f[m] EXCEPT !.level = [f[m].level EXCEPT ![t] = n]]
<1>1. g = [f EXCEPT ![m] = h]
  BY Zenon DEF LevelPut
<1>2. h.level = [f[m].level EXCEPT ![t] = n] /\ h.waiting = f[m].waiting
  BY DEF FilterLock
<1> HIDE DEF h
<1>3. g[m] = h
  BY <1>1
<1> QED
  BY <1>2, <1>3

LEMMA WaitingAssigned ==
    ASSUME NEW f \in [Mtxs -> FilterLock], NEW m \in Mtxs, NEW l \in WaitingSlots, NEW t \in Tasks,
           NEW g, WaitingPut(f, g, m, l, t)
    PROVE  g[m].waiting = [f[m].waiting EXCEPT ![l] = t] /\ g[m].level = f[m].level
<1> DEFINE h == [f[m] EXCEPT !.waiting = [f[m].waiting EXCEPT ![l] = t]]
<1>1. g = [f EXCEPT ![m] = h]
  BY Zenon DEF WaitingPut
<1>2. h.waiting = [f[m].waiting EXCEPT ![l] = t] /\ h.level = f[m].level
  BY DEF FilterLock
<1> HIDE DEF h
<1>3. g[m] = h
  BY <1>1
<1> QED
  BY <1>2, <1>3

LEMMA FilterLockStep ==
    ASSUME IInv, FilterHeld, NEW t \in TaskIds, pc[t] = 1, filter_mtxlock(t, "m"), pc'[t] = 2,
           \A u \in Tasks : u # t => pc'[u] = pc[u]
    PROVE  FilterHeld'
<1>1. t \in Tasks /\ \A l \in Levels : l >= 1 /\ l \in Nat
  BY SyncTasksAssumption DEF TaskIds, Levels
<1>2. /\ stage[t] = "run" /\ stage'[t] = "level" /\ local'[t] = [m |-> "m", l |-> 1, k |-> 0]
      /\ OthersStill(t) /\ filter' = filter
  BY <1>1, FilterTypes DEF filter_mtxlock, At, Go, OthersStill
<1>3. \A l \in Levels : ~Arrived(t, l)' /\ ~Arrived(t, l) /\ ~Passed(t, l)' /\ ~Passed(t, l)
  BY <1>1, <1>2 DEF Arrived, Passed, HoldsFilter, Testing
<1>4. TestsTell' /\ VictimStays'
  BY <1>2, <1>3, StillKeeps DEF Victim, Testing
<1>5. FilterPlaces' /\ LevelsTell'
  BY <1>2, <1>3, LevelsKeep DEF Level, FilterStages
<1> QED
  BY <1>4, <1>5 DEF FilterHeld

LEMMA FilterShared ==
    ASSUME IInv, FilterHeld, NEW t \in TaskIds, pc[t] = 2, stage[t] = "run", UNCHANGED syncvars, pc'[t] = 3,
           \A u \in Tasks : u # t => pc'[u] = pc[u]
    PROVE  FilterHeld'
<1>1. OthersStill(t) /\ stage'[t] = "run" /\ filter' = filter
  BY DEF OthersStill, syncvars
<1>2. \A l \in Levels : Arrived(t, l)' /\ Arrived(t, l) /\ Passed(t, l)' /\ Passed(t, l)
  BY <1>1 DEF Arrived, Passed, HoldsFilter
<1>3. TestsTell' /\ VictimStays'
  BY <1>1, <1>2, StillKeeps DEF Victim, Testing
<1>4. \A l \in Levels : Level(t)' >= l
  BY <1>1, <1>2 DEF FilterHeld, LevelsTell, Level
<1>5. FilterPlaces' /\ LevelsTell'
  BY <1>1, <1>4, LevelsKeep DEF Level, FilterStages
<1> QED
  BY <1>3, <1>5 DEF FilterHeld

LEMMA FilterUnlockStep ==
    ASSUME IInv, FilterHeld, NEW t \in TaskIds, pc[t] = 3, filter_mtxunlock(t, "m"), pc'[t] = 1,
           \A u \in Tasks : u # t => pc'[u] = pc[u]
    PROVE  FilterHeld'
<1>1. t \in Tasks /\ TaskIds \subseteq Tasks /\ 0 \in 0..(MAX_TASKS - 1)
  BY SyncTasksAssumption DEF TaskIds
<1>2. stage[t] = "run" /\ UNCHANGED <<stage, local>> /\ OthersStill(t)
  BY DEF filter_mtxunlock, At, OthersStill
<1>3. LevelPut(filter, filter', "m", t, 0)
  BY Zenon DEF filter_mtxunlock, LevelPut
<1>4. filter'["m"].level = [filter["m"].level EXCEPT ![t] = 0] /\ filter'["m"].waiting = filter["m"].waiting
  <2>1. filter \in [Mtxs -> FilterLock] /\ "m" \in Mtxs
    BY FilterTypes
  <2> QED
    BY <1>1, <1>3, <2>1, LevelAssigned
<1>5. (\A u \in TaskIds : u # t => Level(u)' = Level(u)) /\ (\A l \in WaitingSlots : Victim(l)' = Victim(l))
  <2>1. filter["m"].level \in [Tasks -> 0..(MAX_TASKS - 1)]
    BY FilterTypes DEF FilterLock
  <2> QED
    BY <1>1, <1>4, <2>1 DEF Level, Victim
<1>6. \A l \in Levels : ~Arrived(t, l)' /\ Arrived(t, l) /\ Passed(t, l)
  BY <1>2 DEF Arrived, Passed, HoldsFilter, Testing
<1>7. \A u \in TaskIds, l \in Levels :
          u # t => (Arrived(u, l)' <=> Arrived(u, l)) /\ (Passed(u, l)' <=> Passed(u, l))
  BY <1>1, <1>2, OthersArrived
<1>8. FilterPlaces' /\ LevelsTell'
  BY <1>2, <1>5, <1>6, LevelsKeep DEF FilterStages
<1> USE SlotsAreLevels
<1>9. VictimStays'
  <2> SUFFICES ASSUME NEW l \in WaitingSlots, NEW u \in TaskIds, NEW v \in Tasks, Arrived(u, l)', Victim(l)' = v
               PROVE  v # 0 /\ Arrived(v, l)' /\ (Passed(v, l)' => u = v)
    BY DEF VictimStays
  <2>1. u # t /\ Arrived(u, l)
    BY <1>6, <1>7
  <2>2. v # 0 /\ Arrived(v, l) /\ (Passed(v, l) => u = v)
    BY <1>5, <2>1 DEF FilterHeld, VictimStays
  <2>3. v # t /\ v \in TaskIds
    BY <1>6, <2>1, <2>2 DEF TaskIds
  <2> QED
    BY <1>7, <2>2, <2>3
<1>10. TestsTell'
  BY <1>1, <1>2, <1>5, <1>6, <1>7 DEF FilterHeld, TestsTell, OthersStill, Testing
<1> QED
  BY <1>8, <1>9, <1>10 DEF FilterHeld

LEMMA SetLevelStep ==
    ASSUME IInv, FilterHeld, NEW t \in TaskIds, SetLevel(t), UNCHANGED pc
    PROVE  FilterHeld'
<1>1. t \in Tasks /\ TaskIds \subseteq Tasks
  BY DEF TaskIds
<1>2. /\ stage[t] = "level" /\ stage'[t] = "waiting" /\ UNCHANGED local /\ OthersStill(t)
      /\ filter' = [filter EXCEPT ![local[t].m].level[t] = local[t].l]
  BY <1>1, FilterTypes DEF SetLevel, At, OthersStill, Go
<1>3. local[t].m = "m" /\ pc[t] = 2 /\ local[t].l \in Levels /\ local[t].l \in 0..(MAX_TASKS - 1)
  BY <1>1, <1>2, FilterTypes, SyncTasksAssumption DEF FilterHeld, FilterPlaces, Levels
<1>4. /\ filter'["m"].level = [filter["m"].level EXCEPT ![t] = local[t].l]
      /\ filter'["m"].waiting = filter["m"].waiting
  <2>1. LevelPut(filter, filter', "m", t, local[t].l)
    BY <1>2, <1>3, Zenon DEF LevelPut
  <2>2. filter \in [Mtxs -> FilterLock] /\ "m" \in Mtxs
    BY FilterTypes
  <2> QED
    BY <1>1, <1>3, <2>1, <2>2, LevelAssigned
<1>5. /\ Level(t)' = local[t].l
      /\ \A u \in TaskIds : u # t => Level(u)' = Level(u)
      /\ \A l \in WaitingSlots : Victim(l)' = Victim(l)
  <2>1. filter["m"].level \in [Tasks -> 0..(MAX_TASKS - 1)]
    BY FilterTypes DEF FilterLock
  <2> QED
    BY <1>1, <1>4, <2>1 DEF Level, Victim
<1>6. \A l \in Levels : (Arrived(t, l)' <=> Arrived(t, l)) /\ (Passed(t, l)' <=> Passed(t, l))
                        /\ (Arrived(t, l) => local[t].l > l)
  BY <1>2 DEF Arrived, Passed, HoldsFilter, Testing
<1>7. TestsTell' /\ VictimStays'
  BY <1>2, <1>5, <1>6, StillKeeps DEF Testing
<1>8. \A l \in Levels : Arrived(t, l)' \/ (stage'[t] = "waiting" /\ local'[t].l = l) => Level(t)' >= l
  BY <1>2, <1>3, <1>5, <1>6, SyncTasksAssumption DEF Levels
<1>9. FilterPlaces' /\ LevelsTell'
  BY <1>2, <1>3, <1>5, <1>8, LevelsKeep DEF FilterStages
<1> QED
  BY <1>7, <1>9 DEF FilterHeld

LEMMA SetWaitingStep ==
    ASSUME IInv, FilterHeld, NEW t \in TaskIds, SetWaiting(t), UNCHANGED pc
    PROVE  FilterHeld'
<1>1. t \in Tasks /\ TaskIds \subseteq Tasks /\ 0 \in Tasks
  BY ZeroTask DEF TaskIds
<1>2. /\ stage[t] = "waiting" /\ stage'[t] = "test_level"
      /\ \A u \in Tasks : u # t => stage'[u] = stage[u]
      /\ filter' = IF local[t].l \in WaitingSlots
                   THEN [filter EXCEPT ![local[t].m].waiting[local[t].l] = t] ELSE filter
  BY <1>1, FilterTypes DEF SetWaiting, At, Go
<1>3. PICK lv \in Levels : local[t].l = lv /\ local[t].m = "m" /\ pc[t] = 2 /\ local[t] \in Local
  BY <1>1, <1>2, FilterTypes DEF FilterHeld, FilterPlaces
<1>4. ASSUME lv \in WaitingSlots
      PROVE  /\ filter'["m"].waiting = [filter["m"].waiting EXCEPT ![lv] = t]
             /\ filter'["m"].level = filter["m"].level
  <2>1. WaitingPut(filter, filter', "m", lv, t)
    BY <1>2, <1>3, <1>4, Zenon DEF WaitingPut
  <2>2. filter \in [Mtxs -> FilterLock] /\ "m" \in Mtxs
    BY FilterTypes
  <2> QED
    BY <1>1, <1>3, <1>4, <2>1, <2>2, WaitingAssigned
<1>5. local' = [local EXCEPT ![t] = [m |-> "m", l |-> lv, k |-> 0]]
  <2>1. local' = [local EXCEPT ![t] = [local[t] EXCEPT !.k = 0]]
    BY Zenon DEF SetWaiting
  <2> QED
    BY <1>3, <2>1, LocalField, ZenonT(40)
<1>6. local'[t].l = lv /\ local'[t].k = 0 /\ local'[t].m = "m" /\ OthersStill(t)
  BY <1>1, <1>2, <1>5, FilterTypes DEF OthersStill
<1>7. /\ \A u \in TaskIds : Level(u)' = Level(u)
      /\ lv \in WaitingSlots => Victim(lv)' = t
      /\ \A l \in WaitingSlots : l # lv => Victim(l)' = Victim(l)
  <2>1. filter["m"].waiting \in [WaitingSlots -> Tasks]
    BY FilterTypes DEF FilterLock
  <2>2. CASE lv \in WaitingSlots
    BY <1>3, <1>4, <2>1, <2>2 DEF Level, Victim
  <2>3. CASE lv \notin WaitingSlots
    BY <1>2, <1>3, <2>3 DEF Level, Victim
  <2> QED
    BY <2>2, <2>3
<1>8. /\ \A l \in Levels : l # lv => (Arrived(t, l)' <=> Arrived(t, l))
      /\ \A l \in Levels : Passed(t, l)' <=> Passed(t, l)
      /\ Arrived(t, lv)' /\ ~Passed(t, lv)
  <2>1. \A l \in Levels : Passed(t, l)' <=> Passed(t, l)
    BY <1>2, <1>3, <1>6 DEF Passed, HoldsFilter
  <2>2. ~Passed(t, lv)
    BY <1>2, <1>3, SyncTasksAssumption DEF Passed, HoldsFilter, Levels
  <2> QED
    BY <1>2, <1>3, <1>6, <2>1, <2>2 DEF Arrived, Testing
<1>9. \A u \in TaskIds, l \in Levels :
          u # t => (Arrived(u, l)' <=> Arrived(u, l)) /\ (Passed(u, l)' <=> Passed(u, l))
  BY <1>1, <1>6, OthersArrived
<1>10. \A l \in Levels : Arrived(t, l)' \/ (stage'[t] = "waiting" /\ local'[t].l = l) => Level(t)' >= l
  <2>1. Level(t) >= lv
    BY <1>2, <1>3 DEF FilterHeld, LevelsTell
  <2>2. \A l \in Levels : Arrived(t, l) => Level(t) >= l
    BY DEF FilterHeld, LevelsTell
  <2> QED
    BY <1>2, <1>7, <1>8, <2>1, <2>2
<1>11. FilterPlaces' /\ LevelsTell'
  BY <1>2, <1>3, <1>6, <1>7, <1>10, LevelsKeep DEF FilterStages, Testing
<1> USE SlotsAreLevels
<1>12. VictimStays'
  <2> SUFFICES ASSUME NEW l \in WaitingSlots, NEW u \in TaskIds, NEW v \in Tasks, Arrived(u, l)', Victim(l)' = v
               PROVE  v # 0 /\ Arrived(v, l)' /\ (Passed(v, l)' => u = v)
    BY DEF VictimStays
  <2>1. CASE l = lv
    BY <1>7, <1>8, <2>1 DEF TaskIds
  <2>2. CASE l # lv
    <3>1. Arrived(u, l) /\ Victim(l) = v
      BY <1>7, <1>8, <1>9, <2>2
    <3>2. v # 0 /\ Arrived(v, l) /\ (Passed(v, l) => u = v)
      BY <3>1 DEF FilterHeld, VictimStays
    <3>3. v \in TaskIds
      BY <3>2 DEF TaskIds
    <3> QED
      BY <1>8, <1>9, <2>2, <3>2, <3>3
  <2> QED
    BY <2>1, <2>2
<1>13. TestsTell'
  <2> SUFFICES ASSUME NEW u \in TaskIds, NEW l \in WaitingSlots,
                      Victim(l)' = u, stage'[u] \in Testing, local'[u].l = l,
                      NEW j \in TaskIds, j # u, j < local'[u].k
               PROVE  ~Arrived(j, l)'
    BY DEF TestsTell
  <2>1. u # t
    BY <1>6, SyncTasksAssumption DEF TaskIds, Tasks
  <2>2. l # lv /\ stage'[u] = stage[u] /\ local'[u] = local[u] /\ Victim(l) = u
    BY <1>1, <1>6, <1>7, <2>1 DEF OthersStill
  <2>3. ~Arrived(j, l)
    BY <2>2 DEF FilterHeld, TestsTell
  <2> QED
    BY <1>8, <1>9, <2>2, <2>3
<1> QED
  BY <1>11, <1>12, <1>13 DEF FilterHeld

(* A task whose tests for a level have ended has passed it. *)
LEMMA PassesLevel ==
    ASSUME FilterHeld, NEW t \in TaskIds, OthersStill(t), NEW lv \in Levels,
           stage[t] \in Testing, local[t].l = lv, stage'[t] \notin Testing,
           lv \in WaitingSlots /\ Victim(lv) = t => \A j \in TaskIds : j # t => ~Arrived(j, lv),
           \A l \in WaitingSlots : Victim(l)' = Victim(l),
           \A l \in Levels : (Arrived(t, l)' <=> Arrived(t, l)) /\ (Passed(t, l)' <=> Arrived(t, l))
    PROVE  TestsTell' /\ VictimStays'
<1>1. TaskIds \subseteq Tasks
  BY DEF TaskIds
<1>2. \A u \in TaskIds, l \in Levels :
          u # t => (Arrived(u, l)' <=> Arrived(u, l)) /\ (Passed(u, l)' <=> Passed(u, l))
  BY <1>1, OthersArrived
<1>3. \A l \in Levels : Arrived(t, l) => Passed(t, l) \/ l = lv
  BY DEF Arrived
<1> USE SlotsAreLevels
<1>4. VictimStays'
  <2> SUFFICES ASSUME NEW l \in WaitingSlots, NEW u \in TaskIds, NEW v \in Tasks, Arrived(u, l)', Victim(l)' = v
               PROVE  v # 0 /\ Arrived(v, l)' /\ (Passed(v, l)' => u = v)
    BY DEF VictimStays
  <2>1. Arrived(u, l) /\ Victim(l) = v
    BY <1>2
  <2>2. v # 0 /\ Arrived(v, l) /\ (Passed(v, l) => u = v)
    BY <2>1 DEF FilterHeld, VictimStays
  <2>3. v \in TaskIds
    BY <2>2 DEF TaskIds
  <2>4. CASE v # t
    BY <1>2, <2>2, <2>3, <2>4
  <2>5. CASE v = t
    BY <1>3, <2>1, <2>2, <2>3, <2>5
  <2> QED
    BY <2>4, <2>5
<1>5. TestsTell'
  <2> SUFFICES ASSUME NEW u \in TaskIds, NEW l \in WaitingSlots,
                      Victim(l)' = u, stage'[u] \in Testing, local'[u].l = l,
                      NEW j \in TaskIds, j # u, j < local'[u].k
               PROVE  ~Arrived(j, l)'
    BY DEF TestsTell
  <2>1. u # t
    OBVIOUS
  <2>2. stage'[u] = stage[u] /\ local'[u] = local[u] /\ Victim(l) = u
    BY <1>1, <2>1 DEF OthersStill
  <2>3. ~Arrived(j, l)
    BY <2>2 DEF FilterHeld, TestsTell
  <2> QED
    BY <1>2, <2>3
<1> QED
  BY <1>4, <1>5

(* The end of a test: the task tested is below the level, or the tester    *)
(* is no longer the last to arrive.                                        *)
LEMMA TestEnds ==
    ASSUME IInv, FilterHeld, NEW t \in TaskIds, stage[t] \in Testing, NextTest(t), UNCHANGED <<filter, pc>>,
           \A l \in WaitingSlots : local[t].l = l /\ Victim(l) = t => local[t].k = t \/ Level(local[t].k) < l
    PROVE  FilterHeld'
<1>1. t \in Tasks /\ TaskIds \subseteq Tasks
  BY DEF TaskIds
<1>2. PICK lv \in Levels, kv \in Tasks : local[t].l = lv /\ local[t].k = kv
  BY <1>1, FilterTypes
<1>3. local[t].m = "m" /\ pc'[t] = 2 /\ stage[t] # "run"
  BY DEF FilterHeld, FilterPlaces, Testing
<1>4. /\ \A u \in TaskIds : Level(u)' = Level(u)
      /\ \A l \in WaitingSlots : Victim(l)' = Victim(l)
  BY DEF Level, Victim
<1>5. kv \in Int /\ lv \in Int /\ MAX_TASKS \in Int /\ kv <= MAX_TASKS - 1 /\ lv <= MAX_TASKS - 1 /\ lv >= 1
      /\ \A j \in TaskIds : j \in Int /\ j <= MAX_TASKS - 1
  BY <1>1, <1>2, SyncTasksAssumption DEF Tasks, Levels
<1>6. \A l \in Levels : l \in Int /\ l <= MAX_TASKS - 1
  BY SyncTasksAssumption DEF Levels
<1>7. ASSUME lv \in WaitingSlots, Victim(lv) = t, NEW j \in TaskIds, j # t, j <= kv
      PROVE  ~Arrived(j, lv)
  <2>1. CASE j < kv
    BY <1>2, <1>7, <2>1 DEF FilterHeld, TestsTell
  <2>2. CASE j = kv
    <3>1. Level(j) < lv /\ Level(j) \in Int
      BY <1>1, <1>2, <1>7, <2>2, FilterTypes
    <3>2. Arrived(j, lv) => Level(j) >= lv
      BY DEF FilterHeld, LevelsTell
    <3> QED
      BY <1>5, <3>1, <3>2
  <2> QED
    BY <1>5, <1>7, <2>1, <2>2
<1>8. \A l \in Levels : /\ Arrived(t, l) <=> l <= lv
                        /\ Passed(t, l) <=> l < lv
  BY <1>2, <1>3, <1>5, <1>6 DEF Arrived, Passed, HoldsFilter
<1>9. \A l \in Levels : Arrived(t, l) => Level(t)' >= l
  BY <1>4 DEF FilterHeld, LevelsTell
<1>10. /\ stage \in [Tasks -> {"run", "yield", "cond_yield", "relock", "level",
                               "waiting", "test_level", "test_waiting"}]
       /\ local \in [Tasks -> Local]
  BY FilterTypes
<1>11. CASE kv < MAX_TASKS - 1 /\ local' = [local EXCEPT ![t] = [m |-> "m", l |-> lv, k |-> kv + 1]] /\ Go(t, "test_level")
  <2>1. OthersStill(t) /\ stage'[t] = "test_level" /\ local'[t] = [m |-> "m", l |-> lv, k |-> kv + 1]
    BY <1>1, <1>10, <1>11 DEF OthersStill, Go
  <2>2. \A l \in Levels : (Arrived(t, l)' <=> Arrived(t, l)) /\ (Passed(t, l)' <=> Passed(t, l))
    BY <1>5, <1>6, <1>8, <2>1 DEF Arrived, Passed, HoldsFilter, Testing
  <2>3. \A l \in WaitingSlots : Victim(l) = t /\ stage'[t] \in Testing /\ local'[t].l = l =>
            \A j \in TaskIds : j # t /\ j < local'[t].k => ~Arrived(j, l)
    BY <1>5, <1>7, <2>1
  <2>4. TestsTell' /\ VictimStays'
    BY <1>4, <2>1, <2>2, <2>3, StillKeeps
  <2>5. FilterPlaces' /\ LevelsTell'
    BY <1>3, <1>4, <1>9, <2>1, <2>2, LevelsKeep DEF FilterStages, Testing
  <2> QED
    BY <2>4, <2>5 DEF FilterHeld
<1>12. CASE kv = MAX_TASKS - 1 /\ local' = [local EXCEPT ![t] = [m |-> "m", l |-> lv + 1, k |-> kv]] /\ Go(t, "level")
  <2>1. OthersStill(t) /\ stage'[t] = "level" /\ local'[t] = [m |-> "m", l |-> lv + 1, k |-> kv]
    BY <1>1, <1>10, <1>12 DEF OthersStill, Go
  <2>2. \A l \in Levels : (Arrived(t, l)' <=> Arrived(t, l)) /\ (Passed(t, l)' <=> Arrived(t, l))
    BY <1>5, <1>6, <1>8, <2>1 DEF Arrived, Passed, HoldsFilter, Testing
  <2>3. lv \in WaitingSlots /\ Victim(lv) = t => \A j \in TaskIds : j # t => ~Arrived(j, lv)
    BY <1>5, <1>7, <1>12
  <2>4. TestsTell' /\ VictimStays'
    BY <1>2, <1>4, <2>1, <2>2, <2>3, PassesLevel DEF Testing
  <2>5. FilterPlaces' /\ LevelsTell'
    BY <1>3, <1>4, <1>9, <2>1, <2>2, LevelsKeep DEF FilterStages
  <2> QED
    BY <2>4, <2>5 DEF FilterHeld
<1>13. CASE /\ kv = MAX_TASKS - 1 /\ lv = MAX_TASKS - 1
            /\ local' = [local EXCEPT ![t] = [m |-> "m", l |-> 1, k |-> 0]] /\ Go(t, "run")
  <2>1. OthersStill(t) /\ stage'[t] = "run"
    BY <1>1, <1>10, <1>13 DEF OthersStill, Go
  <2>2. \A l \in Levels : (Arrived(t, l)' <=> Arrived(t, l)) /\ (Passed(t, l)' <=> Arrived(t, l))
    BY <1>3, <1>6, <1>8, <1>13, <2>1 DEF Arrived, Passed, HoldsFilter
  <2>3. lv \in WaitingSlots /\ Victim(lv) = t => \A j \in TaskIds : j # t => ~Arrived(j, lv)
    BY <1>5, <1>7, <1>13
  <2>4. TestsTell' /\ VictimStays'
    BY <1>2, <1>4, <2>1, <2>2, <2>3, PassesLevel DEF Testing
  <2>5. FilterPlaces' /\ LevelsTell'
    BY <1>3, <1>4, <1>9, <2>1, <2>2, LevelsKeep DEF FilterStages
  <2> QED
    BY <2>4, <2>5 DEF FilterHeld
<1> QED
  BY <1>1, <1>2, <1>3, <1>10, <1>11, <1>12, <1>13, NextTestCases

(* The step from one test of the loop's condition to the other. *)
LEMMA TestGoesOn ==
    ASSUME IInv, FilterHeld, NEW t \in TaskIds, stage[t] \in Testing, NEW p \in Testing, Go(t, p),
           UNCHANGED <<local, filter, pc>>
    PROVE  FilterHeld'
<1>1. t \in Tasks /\ stage'[t] = p /\ OthersStill(t)
  BY FilterTypes DEF TaskIds, OthersStill, Go
<1>2. \A l \in Levels : (Arrived(t, l)' <=> Arrived(t, l)) /\ (Passed(t, l)' <=> Passed(t, l))
  BY <1>1 DEF Arrived, Passed, HoldsFilter, Testing
<1>3. (\A u \in TaskIds : Level(u)' = Level(u)) /\ (\A l \in WaitingSlots : Victim(l)' = Victim(l))
  BY DEF Level, Victim
<1>4. TestsTell' /\ VictimStays'
  BY <1>1, <1>2, <1>3, StillKeeps DEF FilterHeld, TestsTell
<1>5. local[t].m = "m" /\ pc[t] = 2
  BY DEF FilterHeld, FilterPlaces, Testing
<1>6. FilterPlaces' /\ LevelsTell'
  BY <1>1, <1>2, <1>3, <1>5, LevelsKeep DEF FilterHeld, LevelsTell, FilterStages, Testing
<1> QED
  BY <1>4, <1>6 DEF FilterHeld

LEMMA TestLevelStep ==
    ASSUME IInv, FilterHeld, NEW t \in TaskIds, TestLevel(t), UNCHANGED pc
    PROVE  FilterHeld'
<1>1. stage[t] = "test_level" /\ UNCHANGED filter
  BY DEF TestLevel, At
<1>2. /\ t \in Tasks /\ local[t].m = "m" /\ local[t].l \in Levels /\ local[t].k \in Tasks
      /\ Level(local[t].k) \in Int /\ \A l \in Levels : l \in Int
  BY <1>1, FilterTypes, SyncTasksAssumption DEF TaskIds, FilterHeld, FilterPlaces, Levels
<1>3. CASE local[t].k # t /\ Level(local[t].k) >= local[t].l
  <2>1. Go(t, "test_waiting") /\ UNCHANGED local
    BY <1>2, <1>3 DEF TestLevel, Level
  <2> QED
    BY <1>1, <2>1, TestGoesOn DEF Testing
<1>4. CASE ~(local[t].k # t /\ Level(local[t].k) >= local[t].l)
  <2>1. NextTest(t)
    BY <1>2, <1>4, Zenon DEF TestLevel, Level
  <2>2. \A l \in WaitingSlots : local[t].l = l => local[t].k = t \/ Level(local[t].k) < l
    BY <1>2, <1>4, SlotsAreLevels
  <2> QED
    BY <1>1, <2>1, <2>2, TestEnds DEF Testing
<1> QED
  BY <1>3, <1>4

LEMMA TestWaitingStep ==
    ASSUME IInv, FilterHeld, NEW t \in TaskIds, TestWaiting(t), UNCHANGED pc
    PROVE  FilterHeld'
<1>1. stage[t] = "test_waiting" /\ UNCHANGED filter
  BY DEF TestWaiting, At
<1>2. local[t].m = "m"
  BY <1>1 DEF FilterHeld, FilterPlaces
<1>3. CASE Go(t, "test_level") /\ UNCHANGED local
  BY <1>1, <1>3, TestGoesOn DEF Testing
<1>4. CASE (local[t].l \in WaitingSlots => Victim(local[t].l) # t) /\ NextTest(t)
  <2>1. \A l \in WaitingSlots : ~(local[t].l = l /\ Victim(l) = t)
    BY <1>4
  <2> QED
    BY <1>1, <1>4, <2>1, TestEnds DEF Testing
<1> QED
  BY <1>2, <1>3, <1>4, Zenon DEF TestWaiting, Victim

LEMMA FilterTaskStep ==
    ASSUME IInv, NEW t \in Tasks \ {0}, Step(t), app.name = "mutex_filter", FilterHeld
    PROVE  FilterHeld'
<1>1. /\ stage[t] = "run" /\ (Skips(t) \/ Executes(t)) /\ TaskInstr(Next_(t))
      /\ pc[t] \in 1..Len(Program(t))
      /\ \A u \in Tasks : u # t => pc'[u] = pc[u]
  BY TaskMoves
<1>2. Program(t) = FilterTask
  BY DEF Program, Programs
<1>3. /\ Len(FilterTask) = 3 /\ \A k \in 1..3 : FilterTask[k].when = "always" /\ FilterTask[k].op # "hf_condwait"
      /\ IsOp(FilterTask[1], "filter_mtxlock", "m") /\ FilterTask[2].op \in Statements
      /\ IsOp(FilterTask[3], "filter_mtxunlock", "m")
  BY DEF FilterTask, Instr, Do, IsOp, Statements
<1>4. Executes(t) /\ pc[t] \in 1..3 /\ Next_(t) = FilterTask[pc[t]]
  BY <1>1, <1>2, <1>3 DEF Skips, Holds, Next_
<1>5. pc'[t] = Succ(pc[t], 3) /\ Execute(t, FilterTask[pc[t]]) /\ TaskInstr(FilterTask[pc[t]])
  BY <1>1, <1>2, <1>3, <1>4 DEF Executes, While
<1>6. t \in TaskIds /\ t \in Tasks
  BY DEF TaskIds
<1>7. CASE pc[t] = 1
  <2>1. filter_mtxlock(t, "m") /\ pc'[t] = 2
    BY <1>3, <1>5, <1>7, CallOf DEF IsOp, Succ
  <2> QED
    BY <1>1, <1>6, <1>7, <2>1, FilterLockStep
<1>8. CASE pc[t] = 2
  <2>1. UNCHANGED syncvars /\ pc'[t] = 3
    BY <1>3, <1>5, <1>8, CallOf DEF Succ
  <2> QED
    BY <1>1, <1>6, <1>8, <2>1, FilterShared
<1>9. CASE pc[t] = 3
  <2>1. filter_mtxunlock(t, "m") /\ pc'[t] = 1
    BY <1>3, <1>5, <1>9, CallOf DEF IsOp, Succ
  <2> QED
    BY <1>1, <1>6, <1>9, <2>1, FilterUnlockStep
<1> QED
  BY <1>4, <1>7, <1>8, <1>9

LEMMA FilterInside ==
    ASSUME IInv, NEW t \in Tasks, Inside(t), Booted, FilterHeld
    PROVE  FilterHeld'
<1>1. InsideCall(t) /\ UNCHANGED pc
  BY DEF Inside
<1>2. stage[t] # "run"
  BY <1>1 DEF InsideCall, ReturnFromSemwait, CondYield, Relock, SetLevel, SetWaiting, TestLevel, TestWaiting, At
<1>3. t \in TaskIds
  BY <1>2 DEF Booted, TaskIds
<1>4. stage[t] \in FilterStages
  BY <1>3 DEF FilterHeld, FilterPlaces
<1>5. SetLevel(t) \/ SetWaiting(t) \/ TestLevel(t) \/ TestWaiting(t)
  BY <1>1, <1>4 DEF InsideCall, ReturnFromSemwait, CondYield, Relock, At, FilterStages, Testing
<1> QED
  BY <1>1, <1>3, <1>5, SetLevelStep, SetWaitingStep, TestLevelStep, TestWaitingStep

(* hf_mtxinit() is called while no task has moved. *)
LEMMA FilterBoot ==
    ASSUME IInv, Step(0), Booted, FilterHeld
    PROVE  FilterHeld'
<1>1. /\ UNCHANGED <<stage, local>>
      /\ \A u \in Tasks : u # 0 => pc'[u] = pc[u]
      /\ pc[0] < End \/ UNCHANGED <<syncvars, pc>>
  BY MainCallOf
<1>2. TaskIds \subseteq Tasks /\ 0 \notin TaskIds
  BY DEF TaskIds
<1>3. CASE pc[0] < End
  <2>1. \A t \in TaskIds : stage'[t] = "run" /\ pc'[t] = 1
    BY <1>1, <1>2, <1>3 DEF Booted, TaskIds
  <2>2. \A t \in TaskIds, l \in Levels : ~Arrived(t, l)'
    BY <2>1 DEF Arrived, Passed, HoldsFilter, Testing
  <2>3. FilterPlaces'
    BY <2>1 DEF FilterPlaces, FilterStages
  <2>4. LevelsTell'
    BY <2>1, <2>2 DEF LevelsTell
  <2>5. TestsTell' /\ VictimStays'
    BY <2>2, SlotsAreLevels DEF TestsTell, VictimStays
  <2> QED
    BY <2>3, <2>4, <2>5 DEF FilterHeld
<1>4. CASE UNCHANGED <<syncvars, pc>>
  <2>1. UNCHANGED <<stage, local, filter, pc>>
    BY <1>4 DEF syncvars
  <2> QED
    BY <2>1 DEF FilterHeld, FilterPlaces, LevelsTell, TestsTell, VictimStays, Arrived, Passed, HoldsFilter,
         Level, Victim
<1> QED
  BY <1>1, <1>3, <1>4

(* Each level stops one task, so the last lets one through. *)
AtLevel(l) == {t \in TaskIds : Arrived(t, l)}

LEMMA LevelStops ==
    ASSUME IInv, FilterHeld, NEW l \in Levels, l + 1 \in Levels, NEW t \in AtLevel(l + 1)
    PROVE  \E v \in AtLevel(l) : AtLevel(l) = {v} \/ AtLevel(l + 1) \subseteq AtLevel(l) \ {v}
<1>1. l \in Int /\ \A u \in Tasks : local[u].l \in Int
  BY FilterTypes, SyncTasksAssumption DEF Levels
<1>2. ASSUME NEW u \in AtLevel(l + 1)
      PROVE  u \in TaskIds /\ Passed(u, l) /\ u \in AtLevel(l)
  <2>1. u \in TaskIds /\ u \in Tasks /\ Arrived(u, l + 1)
    BY <1>2 DEF AtLevel, TaskIds
  <2>2. local[u].l \in Int
    BY <1>1, <2>1
  <2>3. Passed(u, l)
    BY <1>1, <2>1, <2>2 DEF Arrived, Passed, Testing
  <2> QED
    BY <2>1, <2>3 DEF AtLevel, Arrived
<1>3. PICK v \in Tasks : Victim(l) = v
  BY FilterTypes, SlotsAreLevels
<1>4. \A u \in AtLevel(l) : v # 0 /\ Arrived(v, l) /\ (Passed(v, l) => u = v)
  BY <1>3, SlotsAreLevels DEF FilterHeld, VictimStays, AtLevel
<1>5. v \in AtLevel(l)
  BY <1>2, <1>4 DEF AtLevel, TaskIds
<1>6. CASE Passed(v, l)
  BY <1>4, <1>5, <1>6
<1>7. CASE ~Passed(v, l)
  BY <1>2, <1>5, <1>7
<1> QED
  BY <1>6, <1>7

LEMMA LevelFinite ==
    ASSUME NEW l
    PROVE  IsFiniteSet(AtLevel(l)) /\ Cardinality(AtLevel(l)) \in Nat /\ Cardinality(AtLevel(l)) <= MAX_TASKS - 1
<1>1. IsFiniteSet(1..(MAX_TASKS - 1)) /\ Cardinality(1..(MAX_TASKS - 1)) = MAX_TASKS - 1
  BY FS_Interval, SyncTasksAssumption
<1>2. AtLevel(l) \in SUBSET (1..(MAX_TASKS - 1))
  BY SyncTasksAssumption DEF AtLevel, TaskIds, Tasks
<1> QED
  BY <1>1, <1>2, FS_Subset, FS_CardinalityType

LEMMA LevelsThin ==
    ASSUME IInv, FilterHeld
    PROVE  \A l \in Levels : Cardinality(AtLevel(l)) <= MAX_TASKS - l
<1> DEFINE P == {n \in Nat : n + 1 \in Levels => Cardinality(AtLevel(n + 1)) <= MAX_TASKS - (n + 1)}
<1>1. 0 \in P
  BY LevelFinite
<1>2. ASSUME NEW n \in Nat, n \in P
      PROVE  n + 1 \in P
  <2> SUFFICES ASSUME (n + 1) + 1 \in Levels
               PROVE  Cardinality(AtLevel((n + 1) + 1)) <= MAX_TASKS - ((n + 1) + 1)
    OBVIOUS
  <2>1. n + 1 \in Levels /\ (n + 1) + 1 <= MAX_TASKS - 1 /\ MAX_TASKS \in Int
    BY SyncTasksAssumption DEF Levels
  <2>2. PICK l \in Levels : l = n + 1
    BY <2>1
  <2>3. Cardinality(AtLevel(l)) <= MAX_TASKS - l
    BY <1>2, <2>1, <2>2
  <2>4. /\ IsFiniteSet(AtLevel(l)) /\ Cardinality(AtLevel(l)) \in Nat
        /\ IsFiniteSet(AtLevel(l + 1)) /\ Cardinality(AtLevel(l + 1)) \in Nat
    BY LevelFinite
  <2>5. CASE AtLevel(l + 1) = {}
    BY <2>1, <2>2, <2>5, FS_EmptySet
  <2>6. CASE AtLevel(l + 1) # {}
    <3>1. PICK v \in AtLevel(l) : AtLevel(l) = {v} \/ AtLevel(l + 1) \subseteq AtLevel(l) \ {v}
      BY <2>2, <2>6, LevelStops
    <3>2. CASE AtLevel(l + 1) \subseteq AtLevel(l) \ {v}
      <4>1. IsFiniteSet(AtLevel(l) \ {v}) /\ Cardinality(AtLevel(l) \ {v}) = Cardinality(AtLevel(l)) - 1
        BY <2>4, <3>1, FS_RemoveElement
      <4>2. Cardinality(AtLevel(l + 1)) <= Cardinality(AtLevel(l) \ {v})
        BY <3>2, <4>1, FS_Subset
      <4> QED
        BY <2>1, <2>2, <2>3, <2>4, <4>1, <4>2
    <3>3. CASE AtLevel(l) = {v}
      <4>1. AtLevel(l + 1) \in SUBSET {v}
        <5>1. \A u \in AtLevel(l + 1) : u \in AtLevel(l)
          <6>1. \A u \in Tasks : local[u].l \in Int
            BY FilterTypes, SyncTasksAssumption DEF Levels
          <6>2. l \in Int
            BY <2>1, <2>2
          <6> QED
            BY <6>1, <6>2 DEF AtLevel, Arrived, Passed, Testing, TaskIds
        <5> QED
          BY <3>3, <5>1
      <4>2. Cardinality(AtLevel(l + 1)) <= 1
        <5>1. IsFiniteSet({v}) /\ Cardinality({v}) = 1
          BY FS_Singleton
        <5> QED
          BY <4>1, <5>1, FS_Subset
      <4> QED
        BY <2>1, <2>2, <2>4, <4>2
    <3> QED
      BY <3>1, <3>2, <3>3
  <2> QED
    BY <2>2, <2>5, <2>6
<1>3. \A n \in Nat : n \in P
  <2> HIDE DEF P
  <2> QED
    BY <1>1, <1>2, NatSetInduction
<1> SUFFICES ASSUME NEW l \in Levels PROVE Cardinality(AtLevel(l)) <= MAX_TASKS - l
  OBVIOUS
<1>4. l - 1 \in Nat /\ (l - 1) + 1 = l
  BY SyncTasksAssumption DEF Levels
<1> QED
  BY <1>3, <1>4

LEMMA FilterExcludes ==
    ASSUME IInv, FilterHeld, NEW t \in TaskIds, NEW u \in TaskIds, HoldsFilter(t), HoldsFilter(u)
    PROVE  t = u
<1> DEFINE A == AtLevel(MAX_TASKS - 1)
<1>1. MAX_TASKS - 1 \in Levels /\ MAX_TASKS \in Int
  BY SyncTasksAssumption DEF Levels
<1>2. t \in A /\ u \in A
  BY DEF AtLevel, Arrived, Passed
<1>3. Cardinality(A) <= 1 /\ Cardinality(A) \in Nat /\ IsFiniteSet(A)
  BY <1>1, LevelsThin, LevelFinite
<1> HIDE DEF A
<1>4. A = {} \/ \E x : A = {x}
  BY <1>3, FS_EmptySet, FS_Singleton
<1> QED
  BY <1>2, <1>4

-----------------------------------------------------------------------------
(* The invariant of mutual exclusion, which the actions keep together with *)
(* IInv until a waiter is resumed or the system stops.                     *)
AppHeld ==
    /\ app.name = "sem_test1" => BufferHeld
    /\ app.name = "readers_writers" => DatabaseHeld
    /\ app.name \in SpinApps => SpinHeld
    /\ app.name = "mutex_filter" => FilterHeld

EInv == Regular => Parked /\ Booted /\ AppHeld

LEMMA BootedKept ==
    ASSUME IInv, Booted, NEW t \in Tasks, Step(t) \/ Inside(t)
    PROVE  Booted'
<1>1. SyncTypeOK /\ AppOK /\ PcOK /\ pc \in [Tasks -> 1..14] /\ 0 \in Tasks
  BY TypesUsed, ZeroTask
<1>2. pc[0] < End => \A u \in Tasks \ {0} : state[u] = "IDLE"
  BY DEF IInv, Settled
<1>3. CASE t # 0 /\ Step(t)
  <2>1. t \in Tasks \ {0} /\ state[t] = "READY" /\ UNCHANGED app /\ \A u \in Tasks : u # t => pc'[u] = pc[u]
    BY <1>3, TaskMoves
  <2>2. \A u \in Tasks : u # t => stage'[u] = stage[u]
    BY <1>1, <1>3, TaskStep, CallStages
  <2>3. stage'[0] = "run" /\ ~(pc[0] < End) /\ pc'[0] = pc[0] /\ End' = End
    BY <1>1, <1>2, <1>3, <2>1, <2>2, ProgramKept DEF Booted
  <2> QED
    BY <2>3 DEF Booted
<1>4. CASE t = 0 /\ Step(t)
  <2>1. /\ UNCHANGED <<app, stage>>
        /\ pc[0] < End \/ UNCHANGED <<syncvars, pc>>
        /\ \A u \in Tasks : u # 0 => pc'[u] = pc[u]
    BY <1>4, MainCallOf
  <2>2. End' = End
    BY <2>1, ProgramKept
  <2> QED
    BY <2>1, <2>2 DEF Booted
<1>5. CASE Inside(t)
  <2>1. UNCHANGED <<app, pc>> /\ InsideCall(t)
    BY <1>5 DEF Inside
  <2>2. stage[t] # "run" /\ state[t] = "READY"
    BY <2>1 DEF InsideCall, ReturnFromSemwait, CondYield, Relock, SetLevel, SetWaiting, TestLevel, TestWaiting,
         At, CanRun
  <2>3. t # 0 /\ ~(pc[0] < End)
    BY <1>2, <2>2 DEF Booted
  <2>4. stage'[0] = "run" /\ End' = End
    BY <1>1, <2>1, <2>3, CallStages, ProgramKept DEF Booted
  <2> QED
    BY <2>1, <2>3, <2>4 DEF Booted
<1> QED
  BY <1>3, <1>4, <1>5

LEMMA ExclusionTaskStep ==
    ASSUME IInv, Regular, Regular', Parked, Booted, AppHeld, NEW t \in Tasks \ {0}, Step(t)
    PROVE  Parked' /\ Booted' /\ AppHeld'
<1>1. Parked' /\ Booted'
  BY ParkedTaskStep, BootedKept
<1>2. AppOK /\ UNCHANGED app
  BY TypesUsed, TaskMoves
<1>3. app.name = "sem_test1" => BufferHeld'
  <2> HAVE app.name = "sem_test1"
  <2>1. /\ \A u \in Tasks \ {0} : Bracketed(Program(u), BufferRegion[Role(u)], "m")
        /\ Binary("m", Holders("m", BufferRegion)) /\ "m" \in Sems
    BY <1>2, BufferBracketed, DbSems DEF AppHeld, BufferHeld
  <2>2. Binary("m", Holders("m", BufferRegion))'
    BY <2>1, RegionKeeps
  <2> QED
    BY <2>2 DEF BufferHeld
<1>4. app.name = "readers_writers" => DatabaseHeld'
  <2>1. t \in Readers \/ t \in Writers
    BY DEF Readers, Writers, Role
  <2> QED
    BY <2>1, ReaderKeeps, WriterKeeps DEF AppHeld
<1>5. app.name \in SpinApps => SpinHeld'
  BY SpinTaskStep DEF AppHeld
<1>6. app.name = "mutex_filter" => FilterHeld'
  BY FilterTaskStep DEF AppHeld
<1> QED
  BY <1>1, <1>2, <1>3, <1>4, <1>5, <1>6 DEF AppHeld

LEMMA ExclusionMainStep ==
    ASSUME IInv, IInv', Regular, Parked, Booted, AppHeld, Step(0)
    PROVE  Parked' /\ Booted' /\ AppHeld'
<1>1. 0 \in Tasks /\ AppOK
  BY TypesUsed, ZeroTask
<1>2. /\ UNCHANGED <<app, stage>> /\ state[0] = "READY"
      /\ \A u \in Tasks : u # 0 => pc'[u] = pc[u]
  BY MainCallOf
<1>3. Parked' /\ Booted'
  BY <1>1, <1>2, ParkedQuiet, MainQueues, BootedKept
<1>4. app.name = "sem_test1" => BufferHeld'
  <2> HAVE app.name = "sem_test1"
  <2>1. /\ \A u \in Tasks \ {0} : Bracketed(Program(u), BufferRegion[Role(u)], "m")
        /\ Creates(Program(0), "m", 1)
        /\ Binary("m", Holders("m", BufferRegion)) /\ "m" \in Sems
    BY <1>1, BufferBracketed, DbSems DEF AppHeld, BufferHeld
  <2>2. Binary("m", Holders("m", BufferRegion))'
    BY <2>1, RegionMain
  <2> QED
    BY <2>2 DEF BufferHeld
<1>5. app.name = "readers_writers" => DatabaseHeld'
  BY DatabaseMain DEF AppHeld
<1>6. app.name \in SpinApps => SpinHeld'
  BY SpinMain DEF AppHeld
<1>7. app.name = "mutex_filter" => FilterHeld'
  BY FilterBoot DEF AppHeld
<1> QED
  BY <1>2, <1>3, <1>4, <1>5, <1>6, <1>7 DEF AppHeld

LEMMA ExclusionInside ==
    ASSUME IInv, Regular, Parked, Booted, AppHeld, NEW t \in Tasks, Inside(t)
    PROVE  Parked' /\ Booted' /\ AppHeld'
<1>1. UNCHANGED <<app, pc, data>> /\ InsideCall(t) /\ SyncTypeOK
  BY TypesUsed DEF Inside
<1>2. UNCHANGED sems /\ state[t] = "READY"
  BY <1>1 DEF InsideCall, ReturnFromSemwait, CondYield, Relock, SetLevel, SetWaiting, TestLevel, TestWaiting,
       At, CanRun
<1>3. \A u \in Tasks : u # t => stage'[u] = stage[u] /\ pc'[u] = pc[u]
  BY <1>1, CallStages
<1>4. \A s \in Sems : SemQueue(s)' = SemQueue(s)
  BY <1>2 DEF SemQueue
<1>5. Parked'
  BY <1>1, <1>2, <1>3, <1>4, ParkedQuiet
<1>6. Booted'
  BY BootedKept
<1>7. app.name = "sem_test1" => BufferHeld'
  BY <1>1, <1>2, BinaryQuiet, DbSems DEF AppHeld, BufferHeld
<1>8. app.name = "readers_writers" => DatabaseHeld'
  BY <1>1, <1>2, DatabaseQuiet DEF AppHeld
<1>9. app.name \in SpinApps => SpinHeld'
  BY SpinInside DEF AppHeld
<1>10. app.name = "mutex_filter" => FilterHeld'
  BY FilterInside DEF AppHeld
<1> QED
  BY <1>1, <1>5, <1>6, <1>7, <1>8, <1>9, <1>10 DEF AppHeld

LEMMA ExclusionStutter ==
    ASSUME Parked, Booted, AppHeld, UNCHANGED vars
    PROVE  Parked' /\ Booted' /\ AppHeld'
<1>1. UNCHANGED <<app, pc, data, sems, stage, lock, local, filter>>
  BY DEF vars, syncvars
<1>2. Parked'
  BY <1>1 DEF Parked, SemQueue, Program
<1>3. Booted'
  BY <1>1 DEF Booted, End, Program
<1>4. app.name = "sem_test1" => BufferHeld'
  BY <1>1, BinaryQuiet, DbSems DEF AppHeld, BufferHeld
<1>5. app.name = "readers_writers" => DatabaseHeld'
  BY <1>1, DatabaseQuiet DEF AppHeld
<1>6. SpinHeld => SpinHeld'
  <2>1. SpinTasks' = SpinTasks
    BY <1>1, RoleKept DEF SpinTasks, Within
  <2>2. SpinHolders' = SpinHolders
    BY <1>1, <2>1 DEF SpinHolders
  <2> QED
    BY <1>1, <2>1, <2>2 DEF SpinHeld
<1>7. FilterHeld => FilterHeld'
  BY <1>1 DEF FilterHeld, FilterPlaces, LevelsTell, TestsTell, VictimStays, Arrived, Passed, HoldsFilter,
       Level, Victim
<1> QED
  BY <1>1, <1>2, <1>3, <1>4, <1>5, <1>6, <1>7 DEF AppHeld

LEMMA ExclusionInit ==
    ASSUME Init
    PROVE  EInv
<1>1. IInv
  BY InitIInv
<1>2. AppOK /\ \A t \in Tasks : stage[t] = "run" /\ pc[t] = 1
  BY <1>1, TypesUsed DEF Init, SyncInit
<1>3. \A s \in Sems : sems[s].count = 0 /\ sems[s].sem_queue \in NoQueue /\ SemQueue(s) = {}
  <2>1. \A s \in Sems : sems[s].count = 0 /\ sems[s].sem_queue = NULL
    BY DEF Init, SyncInit
  <2>2. NULL \in NoQueue
    BY DEF NoQueue
  <2>3. Line(NULL) = << >> /\ << >> \in Seq(Tasks)
    BY <2>2 DEF Line
  <2>4. ToSet(Line(NULL)) = {}
    BY <2>3, ToSetMembers
  <2> QED
    BY <2>1, <2>2, <2>4 DEF SemQueue
<1>4. Parked
  BY <1>3 DEF Parked
<1>5. Booted
  BY <1>2, ZeroTask DEF Booted
<1>6. \A s \in Sems : Binary(s, {})
  BY <1>3 DEF Binary, Bin
<1>7. BufferHeld
  <2>1. Holders("m", BufferRegion) = {}
    BY <1>2 DEF Holders, Within, BufferRegion, Role
  <2> QED
    BY <1>6, <2>1, DbSems DEF BufferHeld
<1>8. DatabaseHeld
  <2>1. Holders("mtx_rc", CountRegion) = {}
    BY <1>2 DEF Holders, Within, CountRegion, Role
  <2>2. Reading = {} /\ DbWriters = {} /\ RcTasks = {}
    BY <1>2 DEF Reading, DbWriters, RcTasks, Readers, Writers
  <2>3. DbHolders = {}
    BY <2>2 DEF DbHolders, DbRead
  <2>4. LoneReader
    BY <1>3, DbSems DEF LoneReader
  <2>5. data.rc = Cardinality(RcTasks)
    BY <2>2, FS_EmptySet DEF Init
  <2> QED
    BY <1>6, <2>1, <2>3, <2>4, <2>5, DbSems DEF DatabaseHeld, CountHeld
<1>9. app.name \in SpinApps => SpinHeld
  <2> HAVE app.name \in SpinApps
  <2>1. SpinHolders = {}
    BY <1>2, SpinProgramsBracketed DEF SpinHolders, SpinTasks, Within, SpinBracketed
  <2> QED
    BY <1>2, <2>1 DEF SpinHeld
<1>10. FilterHeld
  <2>1. \A t \in TaskIds : stage[t] = "run" /\ pc[t] = 1
    BY <1>2 DEF TaskIds
  <2>2. \A t \in TaskIds, l \in Levels : ~Arrived(t, l)
    BY <2>1 DEF Arrived, Passed, HoldsFilter, Testing
  <2>3. FilterPlaces /\ LevelsTell
    BY <2>1, <2>2 DEF FilterPlaces, FilterStages, LevelsTell
  <2>4. TestsTell /\ VictimStays
    BY <2>2, SlotsAreLevels DEF TestsTell, VictimStays
  <2> QED
    BY <2>3, <2>4 DEF FilterHeld
<1> QED
  BY <1>4, <1>5, <1>7, <1>8, <1>9, <1>10 DEF EInv, AppHeld

LEMMA ExclusionKept ==
    ASSUME IInv, IInv', EInv, [Next]_vars
    PROVE  EInv'
<1> SUFFICES ASSUME Regular'
             PROVE  Parked' /\ Booted' /\ AppHeld'
  BY DEF EInv
<1>1. Regular /\ Parked /\ Booted /\ AppHeld
  BY RegularBefore DEF EInv
<1>2. ASSUME NEW t \in Tasks, Step(t)
      PROVE  Parked' /\ Booted' /\ AppHeld'
  <2>1. CASE t = 0
    BY <1>1, <1>2, <2>1, ExclusionMainStep
  <2>2. CASE t # 0
    BY <1>1, <1>2, <2>2, ExclusionTaskStep
  <2> QED
    BY <2>1, <2>2
<1>3. ASSUME NEW t \in Tasks, Inside(t)
      PROVE  Parked' /\ Booted' /\ AppHeld'
  BY <1>1, <1>3, ExclusionInside
<1>4. ASSUME NEW t \in Tasks, Resume(t)
      PROVE  FALSE
  BY <1>1, <1>4 DEF Resume, Regular
<1>5. CASE Stopped \/ UNCHANGED vars
  BY <1>1, <1>5, ExclusionStutter DEF Stopped
<1> QED
  BY <1>2, <1>3, <1>4, <1>5 DEF Next

(* Where the statements that need exclusion are in a program. *)
Guarded(p, P) ==
    \A k \in 1..Len(p) : /\ p[k].op \in BufferOps => k \in P
                         /\ p[k].op \notin {"read", "write"}

LEMMA NotMain ==
    ASSUME IInv, NEW t \in Tasks, AtOp(t, BufferOps \cup {"read"})
    PROVE  /\ t \in Tasks \ {0} /\ stage[t] = "run" /\ pc[t] \in 1..Len(Program(t))
           /\ Program(t)[pc[t]].op \in BufferOps \cup {"read"}
<1>1. AppOK /\ PcOK
  BY TypesUsed
<1>2. t = 0 => MainInstr(Next_(t))
  BY <1>1, ProgramOf DEF MainProgram, PcOK, Next_
<1>3. t # 0
  BY <1>2 DEF MainInstr, MainOps, AtOp, BufferOps
<1> QED
  BY <1>1, <1>3 DEF PcOK, AtOp, Next_

LEMMA BufferExcludes ==
    ASSUME IInv, Regular, Parked, app.name = "sem_test1", BufferHeld,
           NEW t \in Tasks, AtOp(t, BufferOps \cup {"read"})
    PROVE  t \in Holders("m", BufferRegion) /\ ~AtOp(t, {"read", "write"})
<1>1. Guarded(SemProducer, 3..5)
  BY SMTT(30) DEF Guarded, SemProducer, Wait, Post, Do, Instr, BufferOps
<1>2. Guarded(SemConsumer, 3..5)
  BY SMTT(30) DEF Guarded, SemConsumer, Wait, Post, Do, Instr, BufferOps
<1>3. /\ t \in Tasks \ {0} /\ stage[t] = "run" /\ pc[t] \in 1..Len(Program(t))
      /\ Program(t)[pc[t]].op \in BufferOps \cup {"read"}
  BY NotMain
<1>4. Guarded(Program(t), 3..5) /\ BufferRegion[Role(t)] = 3..5
  BY <1>1, <1>2, <1>3 DEF Program, Programs, BufferRegion, Role
<1>5. pc[t] \in 3..5 /\ ~AtOp(t, {"read", "write"})
  BY <1>3, <1>4 DEF Guarded, AtOp, Next_
<1>6. t \notin SemQueue("m")
  BY <1>3, DbSems DEF Parked
<1> QED
  BY <1>3, <1>4, <1>5, <1>6 DEF Holders, Within

LEMMA SpinExcludes ==
    ASSUME IInv, app.name \in SpinApps, NEW t \in Tasks, AtOp(t, BufferOps \cup {"read"})
    PROVE  t \in SpinHolders /\ ~AtOp(t, {"read", "write"})
<1> USE DEF Guarded, BufferOps, Do, Instr, Cond
<1>1. Guarded(CondProducer, 2..7) BY SMTT(30) DEF CondProducer
<1>2. Guarded(CondConsumer, 2..7) BY SMTT(30) DEF CondConsumer
<1>3. Guarded(SpinTask, 2..3) BY SMTT(30) DEF SpinTask
<1>4. Guarded(Mallocer, 2..3) BY SMTT(30) DEF Mallocer
<1>5. Guarded(Spawner, 3..4) BY SMTT(30) DEF Spawner
<1> HIDE DEF Guarded, BufferOps, Do, Instr, Cond
<1>6. /\ t \in Tasks \ {0} /\ stage[t] = "run" /\ pc[t] \in 1..Len(Program(t))
      /\ Program(t)[pc[t]].op \in BufferOps \cup {"read"}
  BY NotMain
<1>7. t # 0
  BY <1>6
<1>8. Guarded(Program(t), SpinRegion[app.name][Role(t)])
  <2>1. CASE app.name = "cond_test1"
    BY <1>1, <1>2, <1>7, <2>1 DEF Program, Programs, Role, SpinRegion
  <2>2. CASE app.name = "mutex_test1"
    BY <1>3, <1>7, <2>2 DEF Program, Programs, Role, SpinRegion
  <2>3. CASE app.name = "spawn_malloc"
    BY <1>4, <1>5, <1>7, <2>3 DEF Program, Programs, Role, SpinRegion
  <2>4. CASE app.name = "spawn_only"
    BY <1>5, <1>7, <2>4 DEF Program, Programs, Role, SpinRegion
  <2> QED
    BY <2>1, <2>2, <2>3, <2>4 DEF SpinApps
<1>9. pc[t] \in SpinRegion[app.name][Role(t)] /\ ~AtOp(t, {"read", "write"})
  BY <1>6, <1>8 DEF Guarded, AtOp, Next_
<1> QED
  BY <1>6, <1>9 DEF SpinHolders, SpinTasks, Within

LEMMA FilterHolds ==
    ASSUME IInv, app.name = "mutex_filter", NEW t \in Tasks, AtOp(t, BufferOps \cup {"read"})
    PROVE  t \in TaskIds /\ HoldsFilter(t) /\ ~AtOp(t, {"read", "write"})
<1>1. Guarded(FilterTask, 2..3)
  BY SMTT(30) DEF Guarded, FilterTask, Do, Instr, BufferOps
<1>2. /\ t \in Tasks \ {0} /\ stage[t] = "run" /\ pc[t] \in 1..Len(Program(t))
      /\ Program(t)[pc[t]].op \in BufferOps \cup {"read"}
  BY NotMain
<1>3. Program(t) = FilterTask
  BY <1>2 DEF Program, Programs
<1> QED
  BY <1>1, <1>2, <1>3 DEF Guarded, AtOp, Next_, TaskIds, HoldsFilter

LEMMA DatabaseExcludes ==
    ASSUME IInv, Regular, Parked, app.name = "readers_writers", DatabaseHeld,
           NEW t \in Tasks, AtOp(t, BufferOps \cup {"read"})
    PROVE  \/ t # 0 /\ t \in DbHolders /\ ~AtOp(t, {"read"})
           \/ 0 \in DbHolders /\ ~AtOp(t, BufferOps)
<1>1. /\ \A k \in 1..13 : Reader[k].op \notin BufferOps /\ (Reader[k].op = "read" => k = 9)
      /\ Len(Reader) = 13
  BY SMTT(30) DEF Reader, Wait, Post, Do, Instr, Cond, BufferOps
<1>2. /\ \A k \in 1..11 : Writer[k].op # "read" /\ (Writer[k].op \in BufferOps => k = 6)
      /\ Len(Writer) = 11
  BY SMTT(30) DEF Writer, Wait, Post, Do, Instr, Cond, BufferOps
<1>3. /\ t \in Tasks \ {0} /\ stage[t] = "run" /\ pc[t] \in 1..Len(Program(t))
      /\ Program(t)[pc[t]].op \in BufferOps \cup {"read"}
  BY NotMain
<1>4. \A s \in Sems : t \notin SemQueue(s)
  BY <1>3 DEF Parked
<1>5. CASE t \in Writers
  <2>1. Program(t) = Writer
    BY <1>5 DEF Writers, Program, Programs, Role
  <2>2. pc[t] = 6 /\ ~AtOp(t, {"read"})
    BY <1>2, <1>3, <2>1 DEF AtOp, Next_
  <2>3. t \in DbHolders
    BY <1>4, <1>5, <2>2, DbSems DEF DbHolders, DbWriters
  <2> QED
    BY <1>3, <2>2, <2>3
<1>6. CASE t \in Readers
  <2>1. Program(t) = Reader
    BY <1>6 DEF Readers, Program, Programs, Role
  <2>2. pc[t] = 9 /\ ~AtOp(t, BufferOps)
    BY <1>1, <1>3, <2>1 DEF AtOp, Next_
  <2>3. t \in Reading /\ Readers \cap SemQueue("w_db") = {}
    BY <1>4, <1>6, <2>2, DbSems DEF Reading, LoneReader, DatabaseHeld
  <2>4. 0 \in DbHolders
    BY <2>3 DEF DbHolders, DbRead
  <2> QED
    BY <2>2, <2>4
<1> QED
  BY <1>3, <1>5, <1>6 DEF Readers, Writers, Role

LEMMA ExclusionHolds ==
    ASSUME IInv, EInv
    PROVE  Exclusion
<1> SUFFICES ASSUME Regular
             PROVE  /\ Cardinality({t \in Tasks : AtOp(t, BufferOps)}) <= 1
                    /\ ~ \E r, w \in Tasks : AtOp(r, {"read"}) /\ AtOp(w, {"write"})
  BY DEF Exclusion
<1>1. Parked /\ AppHeld /\ app.name \in AppNames
  BY TypesUsed, AppsNamed DEF EInv, AppOK
<1>2. \A t \in Tasks : /\ AtOp(t, BufferOps) => AtOp(t, BufferOps \cup {"read"})
                       /\ AtOp(t, {"read"}) => AtOp(t, BufferOps \cup {"read"})
                       /\ AtOp(t, {"write"}) => AtOp(t, BufferOps) /\ AtOp(t, {"read", "write"})
                       /\ AtOp(t, {"read"}) => AtOp(t, {"read", "write"})
  BY DEF AtOp, BufferOps
<1>3. /\ \A t, u \in Tasks : AtOp(t, BufferOps) /\ AtOp(u, BufferOps) => t = u
      /\ \A r, w \in Tasks : ~(AtOp(r, {"read"}) /\ AtOp(w, {"write"}))
  <2>1. CASE app.name = "sem_test1"
    BY <1>1, <1>2, <2>1, BufferExcludes DEF AppHeld, BufferHeld, Binary, Bin
  <2>2. CASE app.name = "readers_writers"
    <3>1. DatabaseHeld /\ \A x, y \in DbHolders : x = y
      BY <1>1, <2>2 DEF AppHeld, DatabaseHeld, Binary, Bin
    <3>2. \A t \in Tasks : AtOp(t, BufferOps \cup {"read"}) =>
              \/ t # 0 /\ t \in DbHolders /\ ~AtOp(t, {"read"})
              \/ 0 \in DbHolders /\ ~AtOp(t, BufferOps)
      BY <1>1, <2>2, <3>1, DatabaseExcludes
    <3> QED
      BY <1>2, <3>1, <3>2
  <2>3. CASE app.name \in SpinApps
    BY <1>1, <1>2, <2>3, SpinExcludes DEF AppHeld, SpinHeld
  <2>4. CASE app.name = "mutex_filter"
    BY <1>1, <1>2, <2>4, FilterHolds, FilterExcludes DEF AppHeld
  <2>5. CASE app.name = "cond_test2"
    <3>1. \A k \in 1..Len(Waiter) : Waiter[k].op \notin BufferOps \cup {"read"}
      BY DEF Waiter, Instr, Do, BufferOps
    <3>2. \A k \in 1..Len(Signaller) : Signaller[k].op \notin BufferOps \cup {"read"}
      BY DEF Signaller, Instr, Do, BufferOps
    <3>3. \A t \in Tasks \ {0} : Program(t) \in {Waiter, Signaller}
      BY <2>5 DEF Program, Programs
    <3>4. ASSUME NEW t \in Tasks, AtOp(t, BufferOps \cup {"read"})
          PROVE  FALSE
      <4>1. /\ t \in Tasks \ {0} /\ pc[t] \in 1..Len(Program(t))
            /\ Program(t)[pc[t]].op \in BufferOps \cup {"read"}
        BY <3>4, NotMain
      <4>2. Program(t) \in {Waiter, Signaller}
        BY <3>3, <4>1
      <4> QED
        BY <3>1, <3>2, <4>1, <4>2
    <3> QED
      BY <1>2, <3>4
  <2> QED
    BY <1>1, <2>1, <2>2, <2>3, <2>4, <2>5 DEF AppNames, SpinApps
<1> DEFINE A == {t \in Tasks : AtOp(t, BufferOps)}
<1>4. A = {} \/ \E x : A = {x}
  BY <1>3
<1>5. Cardinality(A) <= 1
  <2> HIDE DEF A
  <2> QED
    BY <1>4, FS_EmptySet, FS_Singleton
<1> QED
  BY <1>3, <1>5

(* Mutual exclusion for every number of tasks and every split into roles:  *)
(* at most one task is at a statement that its application protects with a *)
(* binary semaphore, with the spin lock (also after hf_condwait() took it  *)
(* again) or with the filter lock, and no reader reads while a writer      *)
(* writes (hf_semwait, hf_sempost, hf_mtxlock, hf_mtxunlock, hf_condwait). *)
THEOREM SyncExclusion == Spec => []Exclusion
<1>1. Init => EInv
  BY ExclusionInit
<1>2. IInv /\ IInv' /\ EInv /\ [Next]_vars => EInv'
  BY ExclusionKept
<1>3. IInv /\ EInv => Exclusion
  BY ExclusionHolds
<1> QED
  BY <1>1, <1>2, <1>3, SyncInvariant, PTL DEF Spec
-----------------------------------------------------------------------------
(* The bounded buffer. *)

Producers == {t \in TaskIds : Role(t) = 1}
Consumers == {t \in TaskIds : Role(t) = 2}

(* How far cell i is behind cell o in the ring. *)
Off(o, i) == IF i >= o THEN i - o ELSE i - o + N

(* Cells B with indices p (in) and o (out) hold n items; a is 1 when the   *)
(* oldest was taken and out has not moved yet, b is 1 when one was put and *)
(* in has not moved yet.                                                   *)
Ring(B, p, o, n, a, b) ==
    /\ n \in Nat /\ a + n <= N /\ b <= n
    /\ \A i \in Cells : B[i] = "item" <=> (a <= Off(o, i) /\ Off(o, i) < a + n)
    /\ Off(o, p) = a + n - b \/ (a + n - b = N /\ p = o)

RingHolds(n, a, b) == Ring(data.buffer, data.in, data.out, n, a, b)

Bit(b) == IF b THEN 1 ELSE 0

(* app/sem_test1: the tasks that have waited for a cell or for an item,    *)
(* and those that have still to post what they have put or taken.          *)
PutDue == {t \in Producers : pc[t] \in 2..3}
FullDue == {t \in Producers : pc[t] \in 4..6}
TakeDue == {t \in Consumers : pc[t] \in 2..3}
EmptyDue == {t \in Consumers : pc[t] \in 4..6}

Items == sems["full"].count + Cardinality(FullDue) + Cardinality(TakeDue)

SlotsCounted ==
    /\ sems["empty"].count + Items + Cardinality(PutDue) + Cardinality(EmptyDue) <= N
    /\ \A s \in {"empty", "full"} : sems[s].sem_queue \in NoQueue => sems[s].count >= 0
    /\ pc[0] < End => sems["full"].count = 0
    /\ RingHolds(Items, Bit(\E t \in Consumers : pc[t] = 4), Bit(\E t \in Producers : pc[t] = 4))

(* app/cond_test1 *)
ItemsHeld ==
    /\ RingHolds(data.items + Bit(\E t \in Producers : pc[t] = 4) - Bit(\E t \in Consumers : pc[t] = 4),
              Bit(\E t \in Consumers : pc[t] \in 4..5), Bit(\E t \in Producers : pc[t] \in 4..5))
    /\ \A t \in TaskIds : stage[t] # "run" => pc[t] = 2
    /\ \A t \in SpinHolders : pc[t] = 3 => IF Role(t) = 1 THEN data.items < N ELSE data.items > 0

BInv == Regular => /\ app.name = "sem_test1" => SlotsCounted
                   /\ app.name = "cond_test1" => ItemsHeld

LEMMA OffType ==
    ASSUME NEW o \in Cells, NEW i \in Cells
    PROVE  /\ o \in Int /\ i \in Int /\ N \in Int /\ N >= 1 /\ 0 <= o /\ o < N /\ 0 <= i /\ i < N
           /\ Off(o, i) \in Int /\ 0 <= Off(o, i) /\ Off(o, i) < N
           /\ Off(o, i) = 0 <=> i = o
BY BufferAssumption DEF Off, Cells

LEMMA OffDistinct ==
    ASSUME NEW o \in Cells, NEW i \in Cells, NEW j \in Cells, Off(o, i) = Off(o, j)
    PROVE  i = j
BY BufferAssumption DEF Off, Cells

(* The next cell. *)
LEMMA NextCell ==
    ASSUME NEW i \in Cells
    PROVE  /\ (i + 1) % N \in Cells
           /\ (i + 1) % N = IF i = N - 1 THEN 0 ELSE i + 1
<1>1. i \in Int /\ 0 <= i /\ i < N /\ N \in Int /\ N > 0
  BY BufferAssumption DEF Cells
<1>2. CASE i = N - 1
  <2>1. i + 1 = N
    BY <1>1, <1>2
  <2>2. N % N = 0
    BY <1>1
  <2> QED
    BY <1>1, <1>2, <2>1, <2>2 DEF Cells
<1>3. CASE i # N - 1
  <2>1. i + 1 \in 0..(N - 1)
    BY <1>1, <1>3
  <2>2. (i + 1) % N = i + 1
    BY <1>1, <2>1
  <2> QED
    BY <1>3, <2>1, <2>2 DEF Cells
<1> QED
  BY <1>2, <1>3

LEMMA OffNext ==
    ASSUME NEW o \in Cells, NEW i \in Cells
    PROVE  /\ Off(o, (i + 1) % N) = IF Off(o, i) = N - 1 THEN 0 ELSE Off(o, i) + 1
           /\ Off((o + 1) % N, i) = IF i = o THEN N - 1 ELSE Off(o, i) - 1
<1> DEFINE j == (i + 1) % N
           k == (o + 1) % N
<1>1. /\ j = IF i = N - 1 THEN 0 ELSE i + 1
      /\ k = IF o = N - 1 THEN 0 ELSE o + 1
  BY NextCell
<1>2. o \in Int /\ i \in Int /\ N \in Int /\ N >= 1 /\ 0 <= o /\ o < N /\ 0 <= i /\ i < N
  BY OffType
<1> HIDE DEF j, k
<1>3. Off(o, j) = IF Off(o, i) = N - 1 THEN 0 ELSE Off(o, i) + 1
  BY <1>1, <1>2 DEF Off
<1>4. Off(k, i) = IF i = o THEN N - 1 ELSE Off(o, i) - 1
  BY <1>1, <1>2 DEF Off
<1> QED
  BY <1>3, <1>4 DEF j, k

Buffers == [Cells -> {"free", "item"}]

LEMMA RingPut ==
    ASSUME NEW B \in Buffers, NEW p \in Cells, NEW o \in Cells, NEW n, Ring(B, p, o, n, 0, 0), n < N
    PROVE  /\ B[p] = "free"
           /\ Ring([B EXCEPT ![p] = "item"], p, o, n + 1, 0, 1)
<1> DEFINE C == [B EXCEPT ![p] = "item"]
<1>1. n \in Nat /\ N \in Int /\ Off(o, p) = n
  BY OffType DEF Ring
<1>2. \A i \in Cells : B[i] = "item" <=> Off(o, i) < n
  BY OffType DEF Ring
<1>3. B[p] = "free"
  BY <1>1, <1>2 DEF Buffers
<1>4. C[p] = "item" /\ \A i \in Cells : i # p => C[i] = B[i]
  BY DEF Buffers
<1> HIDE DEF C
<1>5. ASSUME NEW i \in Cells
      PROVE  C[i] = "item" <=> (0 <= Off(o, i) /\ Off(o, i) < 0 + (n + 1))
  <2>1. Off(o, i) \in Int /\ 0 <= Off(o, i)
    BY OffType
  <2>2. CASE i = p
    BY <1>1, <1>4, <2>1, <2>2
  <2>3. CASE i # p
    <3>1. Off(o, i) # n
      BY <1>1, <2>3, OffDistinct
    <3> QED
      BY <1>1, <1>2, <1>4, <2>1, <2>3, <3>1
  <2> QED
    BY <2>2, <2>3
<1>6. Ring(C, p, o, n + 1, 0, 1)
  BY <1>1, <1>5 DEF Ring
<1> QED
  BY <1>3, <1>6 DEF C

LEMMA RingIn ==
    ASSUME NEW B, NEW p \in Cells, NEW o \in Cells, NEW n, Ring(B, p, o, n, 0, 1)
    PROVE  Ring(B, (p + 1) % N, o, n, 0, 0)
<1> DEFINE r == (p + 1) % N
<1>1. n \in Nat /\ N \in Int /\ n >= 1 /\ n <= N /\ (Off(o, p) = n - 1 \/ (n - 1 = N /\ p = o))
  BY OffType DEF Ring
<1>2. r \in Cells /\ Off(o, r) = IF Off(o, p) = N - 1 THEN 0 ELSE Off(o, p) + 1
  BY NextCell, OffNext
<1> HIDE DEF r
<1>3. Off(o, r) = n \/ (n = N /\ r = o)
  BY <1>1, <1>2, OffType
<1>4. Ring(B, r, o, n, 0, 0)
  BY <1>1, <1>3 DEF Ring
<1> QED
  BY <1>4 DEF r

LEMMA RingTake ==
    ASSUME NEW B \in Buffers, NEW p \in Cells, NEW o \in Cells, NEW n, Ring(B, p, o, n, 0, 0), n > 0
    PROVE  /\ B[o] = "item"
           /\ Ring([B EXCEPT ![o] = "free"], p, o, n - 1, 1, 0)
<1> DEFINE C == [B EXCEPT ![o] = "free"]
<1>1. n \in Nat /\ N \in Int /\ n <= N /\ Off(o, o) = 0 /\ (Off(o, p) = n \/ (n = N /\ p = o))
  BY OffType DEF Ring
<1>2. \A i \in Cells : B[i] = "item" <=> Off(o, i) < n
  BY OffType DEF Ring
<1>3. B[o] = "item"
  BY <1>1, <1>2
<1>4. C[o] = "free" /\ \A i \in Cells : i # o => C[i] = B[i]
  BY DEF Buffers
<1> HIDE DEF C
<1>5. ASSUME NEW i \in Cells
      PROVE  C[i] = "item" <=> (1 <= Off(o, i) /\ Off(o, i) < 1 + (n - 1))
  <2>1. Off(o, i) \in Int /\ 0 <= Off(o, i) /\ (Off(o, i) = 0 <=> i = o)
    BY OffType
  <2>2. CASE i = o
    BY <1>1, <1>4, <2>1, <2>2
  <2>3. CASE i # o
    BY <1>1, <1>2, <1>4, <2>1, <2>3
  <2> QED
    BY <2>2, <2>3
<1>6. Ring(C, p, o, n - 1, 1, 0)
  BY <1>1, <1>5 DEF Ring
<1> QED
  BY <1>3, <1>6 DEF C

LEMMA RingOut ==
    ASSUME NEW B, NEW p \in Cells, NEW o \in Cells, NEW n, Ring(B, p, o, n, 1, 0)
    PROVE  Ring(B, p, (o + 1) % N, n, 0, 0)
<1> DEFINE r == (o + 1) % N
<1>1. n \in Nat /\ N \in Int /\ 1 + n <= N /\ (Off(o, p) = 1 + n \/ (1 + n = N /\ p = o))
  BY OffType DEF Ring
<1>2. r \in Cells /\ \A i \in Cells : Off(r, i) = IF i = o THEN N - 1 ELSE Off(o, i) - 1
  BY NextCell, OffNext
<1> HIDE DEF r
<1>3. \A i \in Cells : B[i] = "item" <=> (1 <= Off(o, i) /\ Off(o, i) < 1 + n)
  BY <1>1 DEF Ring
<1>4. ASSUME NEW i \in Cells
      PROVE  B[i] = "item" <=> (0 <= Off(r, i) /\ Off(r, i) < 0 + n)
  <2>1. Off(o, i) \in Int /\ 0 <= Off(o, i) /\ (Off(o, i) = 0 <=> i = o)
    BY OffType
  <2> QED
    BY <1>1, <1>2, <1>3, <2>1
<1>5. Off(r, p) = n
  <2>1. Off(o, p) \in Int /\ (Off(o, p) = 0 <=> p = o)
    BY OffType
  <2> QED
    BY <1>1, <1>2, <2>1
<1>6. Ring(B, p, r, n, 0, 0)
  BY <1>1, <1>4, <1>5 DEF Ring
<1> QED
  BY <1>6 DEF r

(* What a statement does to the buffer. *)
LEMMA StatementCells ==
    ASSUME data \in Data, NEW op
    PROVE  LET d == Statement(op)
           IN  /\ d.buffer = IF op = "buffer[in]=item" THEN [data.buffer EXCEPT ![data.in] = "item"]
                             ELSE IF op = "item=buffer[out]" THEN [data.buffer EXCEPT ![data.out] = "free"]
                             ELSE data.buffer
               /\ d.in = IF op = "in=(in+1)%N" THEN (data.in + 1) % N ELSE data.in
               /\ d.out = IF op = "out=(out+1)%N" THEN (data.out + 1) % N ELSE data.out
               /\ d.items = IF op = "items++" THEN data.items + 1
                            ELSE IF op = "items--" THEN data.items - 1 ELSE data.items
<1>1. CASE op = "buffer[in]=item"
  BY <1>1 DEF Statement, Data
<1>2. CASE op = "item=buffer[out]"
  BY <1>2 DEF Statement, Data
<1>3. CASE op \in {"in=(in+1)%N", "out=(out+1)%N"}
  BY <1>3 DEF Statement, Data
<1>4. CASE op \in {"items++", "items--", "rc++", "rc--", "wc++", "wc--"}
  BY <1>4, SMTT(30) DEF Statement, Data
<1>5. CASE op \notin {"buffer[in]=item", "item=buffer[out]", "in=(in+1)%N", "out=(out+1)%N",
                      "items++", "items--", "rc++", "rc--", "wc++", "wc--"}
  <2>1. Statement(op) = data
    BY <1>5 DEF Statement
  <2> QED
    BY <1>5, <2>1
<1> QED
  BY <1>1, <1>2, <1>3, <1>4, <1>5

(* The next cells of a step. *)
Putting == data'.buffer = [data.buffer EXCEPT ![data.in] = "item"] /\ data'.in = data.in /\ data'.out = data.out
Advancing == data'.buffer = data.buffer /\ data'.in = (data.in + 1) % N /\ data'.out = data.out
Taking == data'.buffer = [data.buffer EXCEPT ![data.out] = "free"] /\ data'.in = data.in /\ data'.out = data.out
Leaving == data'.buffer = data.buffer /\ data'.in = data.in /\ data'.out = (data.out + 1) % N
Resting == data'.buffer = data.buffer /\ data'.in = data.in /\ data'.out = data.out

(* A set that at most t enters or leaves. *)
LEMMA DueStep ==
    ASSUME NEW T, T \subseteq Tasks, NEW U, U \subseteq Tasks, NEW t \in Tasks,
           \A u \in Tasks : u # t => (u \in U <=> u \in T)
    PROVE  /\ Cardinality(T) \in Nat /\ Cardinality(U) \in Nat
           /\ Cardinality(U) = Cardinality(T) + Bit(t \in U) - Bit(t \in T)
<1>1. Cardinality(T) \in Nat /\ Cardinality(U) \in Nat
  BY RcFinite, FS_CardinalityType
<1>2. CASE (t \in U) = (t \in T)
  <2>1. U = T
    BY <1>2
  <2> QED
    BY <1>1, <2>1 DEF Bit
<1>3. CASE t \in U /\ t \notin T
  <2>1. U = T \cup {t}
    BY <1>3
  <2>2. Cardinality(U) = Cardinality(T) + 1
    BY <1>3, <2>1, CountOne
  <2> QED
    BY <1>1, <1>3, <2>2 DEF Bit
<1>4. CASE t \notin U /\ t \in T
  <2>1. U = T \ {t}
    BY <1>4
  <2>2. Cardinality(U) = Cardinality(T) - 1
    BY <1>4, <2>1, CountOne
  <2> QED
    BY <1>1, <1>4, <2>2 DEF Bit
<1> QED
  BY <1>2, <1>3, <1>4

(* The semaphores of app/sem_test1 that a task waits for and posts. *)
First(t) == IF Role(t) = 1 THEN "empty" ELSE "full"
Second(t) == IF Role(t) = 1 THEN "full" ELSE "empty"

LEMMA SemTaskProgram ==
    ASSUME app.name = "sem_test1", NEW t \in Tasks \ {0}
    PROVE  LET p == Program(t)
           IN  /\ Len(p) = 6 /\ Role(t) \in 1..2 /\ First(t) \in Sems /\ Second(t) \in Sems /\ First(t) # Second(t)
               /\ \A k \in 1..6 : p[k].op # "hf_condwait" /\ p[k].when = "always"
               /\ IsOp(p[1], "hf_semwait", First(t)) /\ IsOp(p[2], "hf_semwait", "m")
               /\ p[3].op = IF Role(t) = 1 THEN "buffer[in]=item" ELSE "item=buffer[out]"
               /\ p[4].op = IF Role(t) = 1 THEN "in=(in+1)%N" ELSE "out=(out+1)%N"
               /\ IsOp(p[5], "hf_sempost", "m") /\ IsOp(p[6], "hf_sempost", Second(t))
<1>1. {"empty", "full", "m"} \subseteq Sems
  BY AppsAssumption
<1>2. CASE Role(t) = 1
  <2>1. Program(t) = SemProducer
    BY <1>2 DEF Program, Programs, Role
  <2> QED
    BY <1>1, <1>2, <2>1 DEF SemProducer, Wait, Post, Do, Instr, IsOp, First, Second
<1>3. CASE Role(t) = 2
  <2>1. Program(t) = SemConsumer
    BY <1>3 DEF Program, Programs, Role
  <2> QED
    BY <1>1, <1>3, <2>1 DEF SemConsumer, Wait, Post, Do, Instr, IsOp, First, Second
<1> QED
  BY <1>2, <1>3 DEF Role

LEMMA SemTaskStep ==
    ASSUME IInv, Regular, Regular', app.name = "sem_test1", NEW t \in Tasks \ {0}, Step(t)
    PROVE  /\ pc[t] \in 1..6 /\ pc'[t] = Succ(pc[t], 6)
           /\ sems'[First(t)].count = sems[First(t)].count - Bit(pc[t] = 1)
           /\ sems'[Second(t)].count = sems[Second(t)].count + Bit(pc[t] = 6)
           /\ \A s \in {"empty", "full"} :
                  (sems[s].sem_queue \in NoQueue => sems[s].count >= 0) =>
                      (sems'[s].sem_queue \in NoQueue => sems'[s].count >= 0)
           /\ pc[t] = 3 => IF Role(t) = 1 THEN Putting ELSE Taking
           /\ pc[t] = 4 => IF Role(t) = 1 THEN Advancing ELSE Leaving
           /\ pc[t] \notin {3, 4} => Resting
<1> DEFINE i == Next_(t)
           p == Program(t)
           f == First(t)
           g == Second(t)
<1>1. /\ Len(p) = 6 /\ Role(t) \in 1..2 /\ f \in Sems /\ g \in Sems /\ f # g
      /\ \A k \in 1..6 : p[k].op # "hf_condwait" /\ p[k].when = "always"
      /\ IsOp(p[1], "hf_semwait", f) /\ IsOp(p[2], "hf_semwait", "m")
      /\ p[3].op = IF Role(t) = 1 THEN "buffer[in]=item" ELSE "item=buffer[out]"
      /\ p[4].op = IF Role(t) = 1 THEN "in=(in+1)%N" ELSE "out=(out+1)%N"
      /\ IsOp(p[5], "hf_sempost", "m") /\ IsOp(p[6], "hf_sempost", g)
  BY SemTaskProgram
<1>2. {f, g} = {"empty", "full"} /\ f # "m" /\ g # "m"
  BY DEF First, Second
<1>3. pc[t] \in 1..6 /\ i = p[pc[t]] /\ (Skips(t) \/ Executes(t))
  BY <1>1, TaskMoves DEF Next_
<1>4. SemCall(t, f) /\ SemCall(t, g)
  BY <1>1, TaskEffect
<1>5. sems[f].count \in Int /\ sems[g].count \in Int
  BY <1>1, QueueFacts
<1> HIDE DEF f, g, p, i
<1>6. i.when = "always" /\ i.op # "hf_condwait"
  BY <1>1, <1>3
<1>7. Executes(t)
  BY <1>3, <1>6 DEF Skips, Holds, i
<1>8. pc'[t] = Succ(pc[t], 6) /\ data' = Statement(i.op)
  BY <1>1, <1>6, <1>7 DEF Executes, While, i, p
<1>9. /\ pc[t] = 1 => IsOp(i, "hf_semwait", f)
      /\ pc[t] = 6 => IsOp(i, "hf_sempost", g)
      /\ pc[t] \notin {1, 6} => ~(i.op \in SemOps /\ i.obj \in {f, g})
  BY <1>1, <1>2, <1>3 DEF IsOp, SemOps
<1>10. /\ pc[t] = 1 => Waited(t, f)
       /\ pc[t] # 1 => sems'[f] = sems[f]
       /\ pc[t] = 6 => Posted(g)
       /\ pc[t] # 6 => sems'[g] = sems[g]
  BY <1>1, <1>4, <1>7, <1>9 DEF SemCall, IsOp, SemOps, i
<1>11. /\ sems'[f].count = sems[f].count - Bit(pc[t] = 1)
       /\ sems'[g].count = sems[g].count + Bit(pc[t] = 6)
  BY <1>5, <1>10 DEF Waited, Posted, Bit
<1>12. ASSUME NEW s \in {f, g}, sems[s].sem_queue \in NoQueue => sems[s].count >= 0, sems'[s].sem_queue \in NoQueue
       PROVE  sems'[s].count >= 0
  BY <1>5, <1>10, <1>12 DEF Waited, Posted
<1>13. data \in Data
  BY TypesUsed
<1>14. pc[t] \notin {3, 4} => i.op \in SemOps
  BY <1>1, <1>3 DEF IsOp, SemOps
<1>15. pc[t] \notin {3, 4} => Resting
  BY <1>8, <1>13, <1>14, StatementCells DEF SemOps, Resting
<1>16. pc[t] = 3 => IF Role(t) = 1 THEN Putting ELSE Taking
  <2>1. pc[t] = 3 => i.op = IF Role(t) = 1 THEN "buffer[in]=item" ELSE "item=buffer[out]"
    BY <1>1, <1>3
  <2> QED
    BY <1>8, <1>13, <2>1, StatementCells DEF Putting, Taking
<1>17. pc[t] = 4 => IF Role(t) = 1 THEN Advancing ELSE Leaving
  <2>1. pc[t] = 4 => i.op = IF Role(t) = 1 THEN "in=(in+1)%N" ELSE "out=(out+1)%N"
    BY <1>1, <1>3
  <2> QED
    BY <1>8, <1>13, <2>1, StatementCells DEF Advancing, Leaving
<1> QED
  BY <1>2, <1>3, <1>8, <1>11, <1>12, <1>15, <1>16, <1>17 DEF f, g

(* Between hf_semwait(&m) and hf_sempost(&m) a task is alone. *)
LEMMA AloneAtBuffer ==
    ASSUME IInv, Regular, Parked, app.name = "sem_test1", BufferHeld, NEW t \in Tasks \ {0}, pc[t] \in 3..5,
           t \notin SemQueue("m"), NEW u \in Tasks \ {0}, u # t
    PROVE  pc[u] \notin 4..5
<1>1. BufferRegion[Role(t)] = 3..5 /\ BufferRegion[Role(u)] = 3..5
  BY DEF BufferRegion, Role
<1>2. t \in Holders("m", BufferRegion)
  BY <1>1 DEF Holders, Within
<1>3. u \notin Holders("m", BufferRegion)
  BY <1>2 DEF BufferHeld, Binary, Bin
<1>4. u \in SemQueue("m") => IsOp(Program(u)[pc[u] - 1], "hf_semwait", "m") /\ pc[u] # 1
  BY DbSems DEF Parked
<1>5. pc[u] \in 4..5 => ~IsOp(Program(u)[pc[u] - 1], "hf_semwait", "m")
  <2>1. pc[u] \in 4..5 => pc[u] - 1 \in 3..4
    OBVIOUS
  <2>2. Program(u)[3].op # "hf_semwait" /\ Program(u)[4].op # "hf_semwait"
    BY SemTaskProgram
  <2> QED
    BY <2>1, <2>2 DEF IsOp
<1> QED
  BY <1>1, <1>3, <1>4, <1>5 DEF Holders, Within

(* The waiters of a semaphore are among the tasks T that have passed their *)
(* wait for it; when one of T is not a waiter, its unit is left.           *)
LEMMA OneLeft ==
    ASSUME IInv, Regular, NEW s \in Sems, sems[s].sem_queue \in NoQueue => sems[s].count >= 0,
           NEW T, T \subseteq Tasks, NEW t \in T, t \notin SemQueue(s), SemQueue(s) \subseteq T
    PROVE  sems[s].count + Cardinality(T) >= 1
<1> DEFINE q == sems[s].sem_queue
           Q == SemQueue(s)
<1>1. sems[s].count \in Int /\ IsFiniteSet(T) /\ Cardinality(T) \in Nat /\ Cardinality(T) # 0
  BY QueueFacts, RcFinite, FS_CardinalityType, FS_EmptySet
<1>2. CASE sems[s].count >= 0
  BY <1>1, <1>2
<1>3. CASE sems[s].count < 0
  <2>1. q \notin NoQueue
    BY <1>1, <1>3
  <2>2. /\ q \in Seq(Tasks) /\ Q = ToSet(q)
        /\ \A i, j \in 1..Len(q) : q[i] = q[j] => i = j
    BY <2>1, QueueFacts
  <2>3. Len(q) = -sems[s].count /\ Len(q) \in Nat
    BY <1>3, <2>1, <2>2 DEF IInv, Counted, Regular
  <2> HIDE DEF q, Q
  <2>4. Cardinality(Q) = Len(q)
    <3>1. \A x : x \in Q <=> \E i \in 1..Len(q) : q[i] = x
      BY <2>2, ToSetMembers
    <3> DEFINE b == [i \in 1..Len(q) |-> q[i]]
    <3>2. b \in Bijection(1..Len(q), Q)
      BY <2>2, <3>1 DEF Bijection, Injection, Surjection, IsInjective
    <3>3. IsFiniteSet(1..Len(q)) /\ Cardinality(1..Len(q)) = Len(q)
      <4>1. 1 \in Int /\ Len(q) \in Int /\ (1 > Len(q) => Len(q) = 0) /\ (1 <= Len(q) => (Len(q) - 1) + 1 = Len(q))
        BY <2>3
      <4> QED
        BY <4>1, FS_Interval
    <3>4. ExistsBijection(1..Len(q), Q)
      BY <3>2 DEF ExistsBijection
    <3> QED
      BY <3>3, <3>4, FS_Bijection
  <2>5. Q \subseteq T \ {t} /\ Cardinality(T \ {t}) = Cardinality(T) - 1 /\ IsFiniteSet(T \ {t})
    BY <1>1, CountOne, FS_RemoveElement DEF Q
  <2>6. Cardinality(Q) <= Cardinality(T \ {t})
    BY <2>5, FS_Subset
  <2> QED
    BY <1>1, <2>3, <2>4, <2>5, <2>6
<1> QED
  BY <1>1, <1>2, <1>3

(* A waiter of empty is a producer at its second instruction, a waiter of  *)
(* full a consumer.                                                        *)
LEMMA BufferWaiters ==
    ASSUME IInv, Regular, Parked, app.name = "sem_test1"
    PROVE  /\ SemQueue("empty") \subseteq PutDue /\ SemQueue("full") \subseteq TakeDue
           /\ PutDue \subseteq Tasks /\ FullDue \subseteq Tasks /\ TakeDue \subseteq Tasks /\ EmptyDue \subseteq Tasks
           /\ \A u \in TaskIds : stage[u] = "run" =>
                  u \notin SemQueue("empty") /\ u \notin SemQueue("full") /\ u \notin SemQueue("m")
<1>1. {"empty", "full", "m"} \subseteq Sems
  BY AppsAssumption
<1>2. ASSUME NEW s \in {"empty", "full"}, NEW u \in SemQueue(s)
      PROVE  u \in TaskIds /\ pc[u] = 2 /\ First(u) = s
  <2>1. u \in Tasks /\ u # 0 /\ pc[u] # 1 /\ IsOp(Program(u)[pc[u] - 1], "hf_semwait", s)
    BY <1>1, QueueFacts DEF Parked
  <2> DEFINE p == Program(u)
  <2>2. /\ Len(p) = 6
        /\ IsOp(p[1], "hf_semwait", First(u)) /\ IsOp(p[2], "hf_semwait", "m")
        /\ p[3].op = IF Role(u) = 1 THEN "buffer[in]=item" ELSE "item=buffer[out]"
        /\ p[4].op = IF Role(u) = 1 THEN "in=(in+1)%N" ELSE "out=(out+1)%N"
        /\ IsOp(p[5], "hf_sempost", "m")
    BY <2>1, SemTaskProgram
  <2>3. pc[u] \in 1..Len(p)
    BY <2>1, TypesUsed DEF PcOK
  <2> HIDE DEF p
  <2>4. pc[u] - 1 \in 1..5
    BY <2>1, <2>2, <2>3
  <2>5. IsOp(p[pc[u] - 1], "hf_semwait", s)
    BY <2>1 DEF p
  <2>6. pc[u] - 1 = 1 /\ First(u) = s
    BY <2>2, <2>4, <2>5 DEF IsOp
  <2>7. pc[u] = 2
    BY <2>2, <2>3, <2>6
  <2> QED
    BY <2>1, <2>6, <2>7 DEF TaskIds
<1>3. SemQueue("empty") \subseteq PutDue /\ SemQueue("full") \subseteq TakeDue
  BY <1>2 DEF First, PutDue, TakeDue, Producers, Consumers, Role
<1>4. PutDue \subseteq Tasks /\ FullDue \subseteq Tasks /\ TakeDue \subseteq Tasks /\ EmptyDue \subseteq Tasks
  BY DEF PutDue, FullDue, TakeDue, EmptyDue, Producers, Consumers, TaskIds
<1>5. \A u \in TaskIds : stage[u] = "run" =>
          u \notin SemQueue("empty") /\ u \notin SemQueue("full") /\ u \notin SemQueue("m")
  BY <1>1 DEF Parked
<1> QED
  BY <1>3, <1>4, <1>5

(* A producer at its put finds a free cell, a consumer at its take an item. *)
LEMMA BufferRoom ==
    ASSUME IInv, Regular, Parked, app.name = "sem_test1", SlotsCounted,
           NEW t \in TaskIds, pc[t] = 3, stage[t] = "run"
    PROVE  /\ Items \in Nat
           /\ IF Role(t) = 1 THEN Items < N ELSE Items > 0
<1>1. {"empty", "full"} \subseteq Sems /\ sems["empty"].count \in Int /\ sems["full"].count \in Int /\ N \in Int
  BY AppsAssumption, QueueFacts, BufferAssumption
<1>2. /\ SemQueue("empty") \subseteq PutDue /\ SemQueue("full") \subseteq TakeDue
      /\ PutDue \subseteq Tasks /\ FullDue \subseteq Tasks /\ TakeDue \subseteq Tasks /\ EmptyDue \subseteq Tasks
      /\ t \notin SemQueue("empty") /\ t \notin SemQueue("full")
  BY BufferWaiters
<1>3. /\ Cardinality(PutDue) \in Nat /\ Cardinality(FullDue) \in Nat
      /\ Cardinality(TakeDue) \in Nat /\ Cardinality(EmptyDue) \in Nat
  BY <1>2, RcFinite, FS_CardinalityType
<1>4. /\ sems["empty"].count + Items + Cardinality(PutDue) + Cardinality(EmptyDue) <= N
      /\ \A s \in {"empty", "full"} : sems[s].sem_queue \in NoQueue => sems[s].count >= 0
      /\ Items \in Nat
  BY DEF SlotsCounted, RingHolds, Ring
<1>5. CASE Role(t) = 1
  <2>1. t \in PutDue
    BY <1>5 DEF PutDue, Producers
  <2>2. sems["empty"].count + Cardinality(PutDue) >= 1
    BY <1>1, <1>2, <1>4, <2>1, OneLeft
  <2> QED
    BY <1>1, <1>3, <1>4, <1>5, <2>2
<1>6. CASE Role(t) # 1
  <2>1. t \in TakeDue
    BY <1>6 DEF TakeDue, Consumers, Role
  <2>2. sems["full"].count + Cardinality(TakeDue) >= 1
    BY <1>1, <1>2, <1>4, <2>1, OneLeft
  <2>3. Items > 0
    BY <1>1, <1>3, <2>2 DEF Items
  <2> QED
    BY <1>4, <1>6, <2>3
<1> QED
  BY <1>5, <1>6

(* How a step of t changes the counts of app/sem_test1. *)
LEMMA CountsStep ==
    ASSUME IInv, Regular, Regular', Parked, app.name = "sem_test1", SlotsCounted,
           NEW t \in TaskIds, Step(t)
    PROVE  /\ Items' = Items + (IF pc[t] # 3 THEN 0 ELSE IF Role(t) = 1 THEN 1 ELSE -1)
           /\ (sems["empty"].count + Items + Cardinality(PutDue) + Cardinality(EmptyDue))'
               = sems["empty"].count + Items + Cardinality(PutDue) + Cardinality(EmptyDue)
<1>0. t \in Tasks \ {0}
  BY DEF TaskIds
<1>1. {"empty", "full"} \subseteq Sems /\ sems["empty"].count \in Int /\ sems["full"].count \in Int
  BY AppsAssumption, QueueFacts
<1>2. /\ PutDue \subseteq Tasks /\ FullDue \subseteq Tasks /\ TakeDue \subseteq Tasks /\ EmptyDue \subseteq Tasks
  BY BufferWaiters
<1>3. /\ UNCHANGED app /\ \A u \in Tasks : u # t => pc'[u] = pc[u]
  BY <1>0, TaskMoves
<1>4. Producers' = Producers /\ Consumers' = Consumers /\ Producers \subseteq Tasks /\ Consumers \subseteq Tasks
  BY <1>3, RoleKept DEF Producers, Consumers, TaskIds
<1>5. /\ pc[t] \in 1..6 /\ pc'[t] = Succ(pc[t], 6)
      /\ sems'[First(t)].count = sems[First(t)].count - Bit(pc[t] = 1)
      /\ sems'[Second(t)].count = sems[Second(t)].count + Bit(pc[t] = 6)
  BY <1>0, SemTaskStep
<1>6. /\ PutDue' \subseteq Tasks /\ FullDue' \subseteq Tasks /\ TakeDue' \subseteq Tasks /\ EmptyDue' \subseteq Tasks
  BY <1>4 DEF PutDue, FullDue, TakeDue, EmptyDue
<1>7. \A u \in Tasks : u # t => /\ u \in PutDue' <=> u \in PutDue
                                /\ u \in FullDue' <=> u \in FullDue
                                /\ u \in TakeDue' <=> u \in TakeDue
                                /\ u \in EmptyDue' <=> u \in EmptyDue
  BY <1>3, <1>4 DEF PutDue, FullDue, TakeDue, EmptyDue
<1> DEFINE p == Cardinality(PutDue)  f == Cardinality(FullDue)  k == Cardinality(TakeDue)  e == Cardinality(EmptyDue)
           pp == Cardinality(PutDue')  ff == Cardinality(FullDue')  kk == Cardinality(TakeDue')
           ee == Cardinality(EmptyDue')
<1>8. /\ p \in Nat /\ pp \in Nat /\ pp = p + Bit(t \in PutDue') - Bit(t \in PutDue)
      /\ f \in Nat /\ ff \in Nat /\ ff = f + Bit(t \in FullDue') - Bit(t \in FullDue)
  BY <1>0, <1>2, <1>6, <1>7, DueStep
<1>9. /\ k \in Nat /\ kk \in Nat /\ kk = k + Bit(t \in TakeDue') - Bit(t \in TakeDue)
      /\ e \in Nat /\ ee \in Nat /\ ee = e + Bit(t \in EmptyDue') - Bit(t \in EmptyDue)
  BY <1>0, <1>2, <1>6, <1>7, DueStep
<1>10. /\ Items = sems["full"].count + f + k
       /\ Items' = sems'["full"].count + ff + kk
  BY DEF Items
<1>11. (sems["empty"].count + Items + Cardinality(PutDue) + Cardinality(EmptyDue))'
        = sems'["empty"].count + Items' + pp + ee
  OBVIOUS
<1> HIDE DEF p, f, k, e, pp, ff, kk, ee
<1>12. p \in Int /\ f \in Int /\ k \in Int /\ e \in Int /\ pc[t] \in 1..6
  BY <1>5, <1>8, <1>9
<1>13. CASE Role(t) = 1
  <2>1. First(t) = "empty" /\ Second(t) = "full"
    BY <1>13 DEF First, Second
  <2>2. /\ t \in PutDue' <=> pc[t] \in 1..2
        /\ t \in PutDue <=> pc[t] \in 2..3
        /\ t \in FullDue' <=> pc[t] \in 3..5
        /\ t \in FullDue <=> pc[t] \in 4..6
        /\ t \notin TakeDue /\ t \notin TakeDue' /\ t \notin EmptyDue /\ t \notin EmptyDue'
    BY <1>0, <1>4, <1>5, <1>13 DEF PutDue, FullDue, TakeDue, EmptyDue, Producers, Consumers, TaskIds, Succ
  <2>3. /\ sems'["empty"].count = sems["empty"].count - Bit(pc[t] = 1)
        /\ sems'["full"].count = sems["full"].count + Bit(pc[t] = 6)
    BY <1>5, <2>1
  <2>4. pp = p + Bit(pc[t] \in 1..2) - Bit(pc[t] \in 2..3) /\ ff = f + Bit(pc[t] \in 3..5) - Bit(pc[t] \in 4..6)
        /\ kk = k /\ ee = e
    BY <1>8, <1>9, <2>2 DEF Bit
  <2>5. Items' = Items + (IF pc[t] # 3 THEN 0 ELSE IF Role(t) = 1 THEN 1 ELSE -1) /\ Items \in Int
    BY <1>1, <1>12, <1>10, <1>13, <2>3, <2>4, SMTT(30) DEF Bit
  <2>6. sems'["empty"].count + Items' + pp + ee = sems["empty"].count + Items + p + e
    BY <1>1, <1>12, <1>13, <2>3, <2>4, <2>5, SMTT(30) DEF Bit
  <2> QED
    BY <1>11, <2>5, <2>6 DEF p, e
<1>14. CASE Role(t) # 1
  <2>1. First(t) = "full" /\ Second(t) = "empty" /\ Role(t) = 2
    BY <1>14 DEF First, Second, Role
  <2>2. /\ t \in TakeDue' <=> pc[t] \in 1..2
        /\ t \in TakeDue <=> pc[t] \in 2..3
        /\ t \in EmptyDue' <=> pc[t] \in 3..5
        /\ t \in EmptyDue <=> pc[t] \in 4..6
        /\ t \notin PutDue /\ t \notin PutDue' /\ t \notin FullDue /\ t \notin FullDue'
    BY <1>0, <1>4, <1>5, <2>1 DEF PutDue, FullDue, TakeDue, EmptyDue, Producers, Consumers, TaskIds, Succ
  <2>3. /\ sems'["full"].count = sems["full"].count - Bit(pc[t] = 1)
        /\ sems'["empty"].count = sems["empty"].count + Bit(pc[t] = 6)
    BY <1>5, <2>1
  <2>4. kk = k + Bit(pc[t] \in 1..2) - Bit(pc[t] \in 2..3) /\ ee = e + Bit(pc[t] \in 3..5) - Bit(pc[t] \in 4..6)
        /\ pp = p /\ ff = f
    BY <1>8, <1>9, <2>2 DEF Bit
  <2>5. Items' = Items + (IF pc[t] # 3 THEN 0 ELSE IF Role(t) = 1 THEN 1 ELSE -1) /\ Items \in Int
    BY <1>1, <1>12, <1>10, <1>14, <2>3, <2>4, SMTT(30) DEF Bit
  <2>6. sems'["empty"].count + Items' + pp + ee = sems["empty"].count + Items + p + e
    BY <1>1, <1>12, <1>14, <2>3, <2>4, <2>5, SMTT(30) DEF Bit
  <2> QED
    BY <1>11, <2>5, <2>6 DEF p, e
<1> QED
  BY <1>13, <1>14

LEMMA SlotsTaskStep ==
    ASSUME IInv, Regular, Regular', Parked, app.name = "sem_test1", BufferHeld, SlotsCounted,
           NEW t \in TaskIds, Step(t)
    PROVE  SlotsCounted'
<1>1. t \in Tasks \ {0} /\ TaskIds \subseteq Tasks
  BY DEF TaskIds
<1>2. /\ UNCHANGED app /\ stage[t] = "run" /\ state[t] = "READY"
      /\ \A u \in Tasks : u # t => pc'[u] = pc[u]
  BY <1>1, TaskMoves
<1>3. /\ pc[t] \in 1..6 /\ pc'[t] = Succ(pc[t], 6)
      /\ \A s \in {"empty", "full"} :
             (sems[s].sem_queue \in NoQueue => sems[s].count >= 0) =>
                 (sems'[s].sem_queue \in NoQueue => sems'[s].count >= 0)
      /\ pc[t] = 3 => IF Role(t) = 1 THEN Putting ELSE Taking
      /\ pc[t] = 4 => IF Role(t) = 1 THEN Advancing ELSE Leaving
      /\ pc[t] \notin {3, 4} => Resting
  BY <1>1, SemTaskStep
<1>4. /\ Items' = Items + (IF pc[t] # 3 THEN 0 ELSE IF Role(t) = 1 THEN 1 ELSE -1)
      /\ (sems["empty"].count + Items + Cardinality(PutDue) + Cardinality(EmptyDue))'
          = sems["empty"].count + Items + Cardinality(PutDue) + Cardinality(EmptyDue)
  BY CountsStep
<1>5. Producers' = Producers /\ Consumers' = Consumers /\ Producers \subseteq TaskIds /\ Consumers \subseteq TaskIds
  BY <1>1, <1>2, RoleKept DEF Producers, Consumers
<1>6. t \notin SemQueue("m")
  BY BufferWaiters, <1>2
<1>7. pc[t] \in 3..4 => \A u \in TaskIds : u # t => pc[u] # 4 /\ pc'[u] # 4
  BY <1>1, <1>2, <1>6, AloneAtBuffer DEF TaskIds
<1>8. data \in Data /\ data.buffer \in Buffers /\ data.in \in Cells /\ data.out \in Cells
  BY TypesUsed DEF Data, Buffers
<1>9. ~(pc[0] < End) /\ pc'[0] = pc[0] /\ End' = End
  BY <1>1, <1>2, ZeroTask, ProgramKept DEF IInv, Settled
<1> DEFINE a == \E u \in Consumers : pc[u] = 4
           b == \E u \in Producers : pc[u] = 4
           aa == \E u \in Consumers : pc'[u] = 4
           bb == \E u \in Producers : pc'[u] = 4
<1>10. /\ sems["empty"].count + Items + Cardinality(PutDue) + Cardinality(EmptyDue) <= N
       /\ \A s \in {"empty", "full"} : sems[s].sem_queue \in NoQueue => sems[s].count >= 0
       /\ Ring(data.buffer, data.in, data.out, Items, Bit(a), Bit(b))
       /\ Items \in Nat
  BY DEF SlotsCounted, RingHolds, Ring
<1>11. Role(t) = 1 => t \in Producers /\ t \notin Consumers
  BY DEF Producers, Consumers
<1>12. Role(t) # 1 => t \notin Producers /\ t \in Consumers
  BY DEF Producers, Consumers, Role
<1>13. Ring(data'.buffer, data'.in, data'.out, Items', Bit(aa), Bit(bb))
  <2>1. CASE pc[t] \notin {3, 4}
    <3>1. (a <=> aa) /\ (b <=> bb)
      <4>1. pc[t] # 4 /\ pc'[t] # 4
        BY <1>3, <2>1 DEF Succ
      <4> QED
        BY <1>1, <1>2, <1>5, <4>1
    <3>2. Bit(aa) = Bit(a) /\ Bit(bb) = Bit(b)
      BY <3>1 DEF Bit
    <3>3. Items' = Items
      BY <1>4, <1>10, <2>1
    <3> QED
      BY <1>3, <1>10, <2>1, <3>2, <3>3 DEF Resting
  <2>2. CASE pc[t] = 3
    <3>1. ~a /\ ~b /\ (aa <=> t \in Consumers) /\ (bb <=> t \in Producers)
      <4>1. pc'[t] = 4
        BY <1>3, <2>2 DEF Succ
      <4> QED
        BY <1>5, <1>7, <2>2, <4>1
    <3>2. Bit(a) = 0 /\ Bit(b) = 0
      BY <3>1 DEF Bit
    <3>3. Ring(data.buffer, data.in, data.out, Items, 0, 0)
      BY <1>10, <3>2
    <3>4. IF Role(t) = 1 THEN Items < N ELSE Items > 0
      BY <1>2, <2>2, BufferRoom
    <3>5. CASE Role(t) = 1
      <4>1. Bit(aa) = 0 /\ Bit(bb) = 1 /\ Items' = Items + 1
        BY <1>4, <1>11, <2>2, <3>1, <3>5 DEF Bit
      <4>2. Ring([data.buffer EXCEPT ![data.in] = "item"], data.in, data.out, Items + 1, 0, 1)
        BY <1>8, <3>3, <3>4, <3>5, RingPut
      <4>3. Putting
        BY <1>3, <2>2, <3>5
      <4> QED
        BY <4>1, <4>2, <4>3 DEF Putting
    <3>6. CASE Role(t) # 1
      <4>1. Bit(aa) = 1 /\ Bit(bb) = 0 /\ Items' = Items - 1
        BY <1>4, <1>10, <1>12, <2>2, <3>1, <3>6 DEF Bit
      <4>2. Ring([data.buffer EXCEPT ![data.out] = "free"], data.in, data.out, Items - 1, 1, 0)
        BY <1>8, <3>3, <3>4, <3>6, RingTake
      <4>3. Taking
        BY <1>3, <2>2, <3>6
      <4> QED
        BY <4>1, <4>2, <4>3 DEF Taking
    <3> QED
      BY <3>5, <3>6
  <2>3. CASE pc[t] = 4
    <3>1. ~aa /\ ~bb /\ (a <=> t \in Consumers) /\ (b <=> t \in Producers)
      <4>1. pc'[t] # 4
        BY <1>3, <2>3 DEF Succ
      <4> QED
        BY <1>5, <1>7, <2>3, <4>1
    <3>2. Bit(aa) = 0 /\ Bit(bb) = 0 /\ Items' = Items
      BY <1>4, <1>10, <2>3, <3>1 DEF Bit
    <3>3. CASE Role(t) = 1
      <4>1. Bit(a) = 0 /\ Bit(b) = 1
        BY <1>11, <3>1, <3>3 DEF Bit
      <4>2. Ring(data.buffer, (data.in + 1) % N, data.out, Items, 0, 0)
        BY <1>8, <1>10, <4>1, RingIn
      <4>3. Advancing
        BY <1>3, <2>3, <3>3
      <4> QED
        BY <3>2, <4>2, <4>3 DEF Advancing
    <3>4. CASE Role(t) # 1
      <4>1. Bit(a) = 1 /\ Bit(b) = 0
        BY <1>12, <3>1, <3>4 DEF Bit
      <4>2. Ring(data.buffer, data.in, (data.out + 1) % N, Items, 0, 0)
        BY <1>8, <1>10, <4>1, RingOut
      <4>3. Leaving
        BY <1>3, <2>3, <3>4
      <4> QED
        BY <3>2, <4>2, <4>3 DEF Leaving
    <3> QED
      BY <3>3, <3>4
  <2> QED
    BY <2>1, <2>2, <2>3
<1>14. RingHolds(Items, Bit(\E u \in Consumers : pc[u] = 4), Bit(\E u \in Producers : pc[u] = 4))'
  BY <1>5, <1>13 DEF RingHolds
<1>15. (sems["empty"].count + Items + Cardinality(PutDue) + Cardinality(EmptyDue) <= N)'
  BY <1>4, <1>10
<1> QED
  BY <1>3, <1>9, <1>10, <1>14, <1>15 DEF SlotsCounted

(* Before the tasks are spawned no count of theirs differs from zero. *)
LEMMA SlotsMain ==
    ASSUME IInv, Step(0), Booted, app.name = "sem_test1", SlotsCounted
    PROVE  SlotsCounted'
<1>1. /\ UNCHANGED <<app, data>> /\ \A u \in Tasks : u # 0 => pc'[u] = pc[u]
      /\ pc[0] < End \/ UNCHANGED <<syncvars, pc>>
  BY MainCallOf
<1>2. Producers' = Producers /\ Consumers' = Consumers /\ Producers \subseteq TaskIds /\ Consumers \subseteq TaskIds
  BY <1>1, RoleKept DEF Producers, Consumers, TaskIds
<1>3. \A u \in TaskIds : pc'[u] = pc[u]
  BY <1>1 DEF TaskIds
<1>4. PutDue' = PutDue /\ FullDue' = FullDue /\ TakeDue' = TakeDue /\ EmptyDue' = EmptyDue
  BY <1>2, <1>3 DEF PutDue, FullDue, TakeDue, EmptyDue
<1>5. End' = End
  BY <1>1, ProgramKept
<1>6. /\ sems["empty"].count + Items + Cardinality(PutDue) + Cardinality(EmptyDue) <= N
      /\ \A s \in {"empty", "full"} : sems[s].sem_queue \in NoQueue => sems[s].count >= 0
      /\ pc[0] < End => sems["full"].count = 0
      /\ RingHolds(Items, Bit(\E u \in Consumers : pc[u] = 4), Bit(\E u \in Producers : pc[u] = 4))
  BY DEF SlotsCounted
<1>7. ASSUME Items' = Items
      PROVE  RingHolds(Items, Bit(\E u \in Consumers : pc[u] = 4), Bit(\E u \in Producers : pc[u] = 4))'
  <2>1. ((\E u \in Consumers : pc[u] = 4)' <=> \E u \in Consumers : pc[u] = 4)
        /\ ((\E u \in Producers : pc[u] = 4)' <=> \E u \in Producers : pc[u] = 4)
    BY <1>2, <1>3
  <2>2. Bit(\E u \in Consumers : pc[u] = 4)' = Bit(\E u \in Consumers : pc[u] = 4)
        /\ Bit(\E u \in Producers : pc[u] = 4)' = Bit(\E u \in Producers : pc[u] = 4)
    BY <2>1 DEF Bit
  <2> QED
    BY <1>1, <1>6, <1>7, <2>2 DEF RingHolds
<1>8. CASE UNCHANGED <<syncvars, pc>>
  <2>1. UNCHANGED <<sems, pc>>
    BY <1>8 DEF syncvars
  <2>2. Items' = Items
    BY <1>4, <2>1 DEF Items
  <2> QED
    BY <1>4, <1>5, <1>6, <1>7, <2>1, <2>2 DEF SlotsCounted
<1>9. CASE pc[0] < End
  <2>1. PutDue = {} /\ FullDue = {} /\ TakeDue = {} /\ EmptyDue = {}
    BY <1>2, <1>9 DEF Booted, PutDue, FullDue, TakeDue, EmptyDue, TaskIds
  <2>2. /\ Cardinality(PutDue) = 0 /\ Cardinality(FullDue) = 0 /\ Cardinality(TakeDue) = 0
        /\ Cardinality(EmptyDue) = 0
    BY <2>1, FS_EmptySet
  <2>3. Creates(Program(0), "empty", N) /\ Creates(Program(0), "full", 0) /\ {"empty", "full"} \subseteq Sems
    BY BufferBracketed, TypesUsed, AppsAssumption
  <2>4. \/ sems'["empty"] = sems["empty"]
        \/ sems'["empty"].count = N /\ sems'["empty"].sem_queue = << >>
        \/ sems'["empty"].count = sems["empty"].count /\ sems'["empty"].sem_queue = NULL
    BY <2>3, MainSem, BufferAssumption
  <2>5. \/ sems'["full"] = sems["full"]
        \/ sems'["full"].count = 0 /\ sems'["full"].sem_queue = << >>
        \/ sems'["full"].count = sems["full"].count /\ sems'["full"].sem_queue = NULL
    <3>1. 0 \in Nat
      OBVIOUS
    <3> QED
      BY <2>3, <3>1, MainSem
  <2>6. sems["full"].count = 0 /\ sems'["full"].count = 0
    BY <1>6, <1>9, <2>5
  <2>7. Items = 0 /\ Items' = 0
    BY <1>4, <2>2, <2>6 DEF Items
  <2>8. sems["empty"].count \in Int /\ N \in Nat /\ sems["empty"].count >= 0
    BY <1>9, <2>3, TypesUsed, SyncTypes, BufferAssumption DEF IInv, Settled
  <2>9. sems'["empty"].count \in Int /\ sems'["empty"].count >= 0 /\ sems'["empty"].count <= N
    BY <1>6, <2>2, <2>4, <2>7, <2>8
  <2>10. (sems["empty"].count + Items + Cardinality(PutDue) + Cardinality(EmptyDue))' = sems'["empty"].count
    BY <1>4, <2>2, <2>7, <2>9
  <2>11. (sems["empty"].count + Items + Cardinality(PutDue) + Cardinality(EmptyDue) <= N)'
    BY <2>9, <2>10
  <2>12. \A s \in {"empty", "full"} : sems'[s].sem_queue \in NoQueue => sems'[s].count >= 0
    BY <2>6, <2>9
  <2>13. RingHolds(Items, Bit(\E u \in Consumers : pc[u] = 4), Bit(\E u \in Producers : pc[u] = 4))'
    BY <1>7, <2>7
  <2> QED
    BY <2>6, <2>11, <2>12, <2>13 DEF SlotsCounted
<1> QED
  BY <1>1, <1>8, <1>9

LEMMA SlotsQuiet ==
    ASSUME SlotsCounted, UNCHANGED <<app, pc, sems, data>>
    PROVE  SlotsCounted'
<1>1. Producers' = Producers /\ Consumers' = Consumers
  BY RoleKept DEF Producers, Consumers, TaskIds
<1>2. PutDue' = PutDue /\ FullDue' = FullDue /\ TakeDue' = TakeDue /\ EmptyDue' = EmptyDue
  BY <1>1 DEF PutDue, FullDue, TakeDue, EmptyDue
<1>3. Items' = Items /\ End' = End
  BY <1>2, ProgramKept DEF Items
<1>4. RingHolds(Items, Bit(\E u \in Consumers : pc[u] = 4), Bit(\E u \in Producers : pc[u] = 4))'
  BY <1>1, <1>3 DEF RingHolds, SlotsCounted
<1> QED
  BY <1>2, <1>3, <1>4 DEF SlotsCounted

(* app/cond_test1 *)
LEMMA CondTaskProgram ==
    ASSUME app.name = "cond_test1", NEW t \in Tasks \ {0}
    PROVE  LET p == Program(t)
           IN  /\ Len(p) = 7 /\ Role(t) \in 1..2
               /\ \A k \in 1..7 : (k = 2 <=> p[k].op = "hf_condwait") /\ (k # 2 => p[k].when = "always")
               /\ p[2].when = IF Role(t) = 1 THEN "items==N" ELSE "items==0"
               /\ p[1].op = "hf_mtxlock" /\ p[6].op = "hf_condsignal" /\ p[7].op = "hf_mtxunlock"
               /\ p[3].op = IF Role(t) = 1 THEN "buffer[in]=item" ELSE "item=buffer[out]"
               /\ p[4].op = IF Role(t) = 1 THEN "items++" ELSE "items--"
               /\ p[5].op = IF Role(t) = 1 THEN "in=(in+1)%N" ELSE "out=(out+1)%N"
<1>1. CASE Role(t) = 1
  <2>1. Program(t) = CondProducer
    BY <1>1 DEF Program, Programs, Role
  <2> QED
    BY <1>1, <2>1, SMTT(30) DEF CondProducer, Do, Instr, Cond
<1>2. CASE Role(t) = 2
  <2>1. Program(t) = CondConsumer
    BY <1>2 DEF Program, Programs, Role
  <2> QED
    BY <1>2, <2>1, SMTT(30) DEF CondConsumer, Do, Instr, Cond
<1> QED
  BY <1>1, <1>2 DEF Role

LEMMA CondTaskStep ==
    ASSUME IInv, app.name = "cond_test1", NEW t \in Tasks \ {0}, Step(t)
    PROVE  /\ pc[t] \in 1..7
           /\ pc[t] # 2 => pc'[t] = Succ(pc[t], 7) /\ stage' = stage
           /\ pc[t] = 2 => \/ pc'[t] = 2
                           \/ /\ pc'[t] = 3 /\ stage' = stage
                              /\ IF Role(t) = 1 THEN data.items # N ELSE data.items # 0
           /\ pc[t] = 3 => IF Role(t) = 1 THEN Putting ELSE Taking
           /\ pc[t] = 5 => IF Role(t) = 1 THEN Advancing ELSE Leaving
           /\ pc[t] \notin {3, 5} => Resting
           /\ data'.items = IF pc[t] # 4 THEN data.items
                            ELSE IF Role(t) = 1 THEN data.items + 1 ELSE data.items - 1
<1> DEFINE i == Next_(t)
           p == Program(t)
<1>1. /\ Len(p) = 7 /\ Role(t) \in 1..2
      /\ \A k \in 1..7 : (k = 2 <=> p[k].op = "hf_condwait") /\ (k # 2 => p[k].when = "always")
      /\ p[2].when = IF Role(t) = 1 THEN "items==N" ELSE "items==0"
      /\ p[1].op = "hf_mtxlock" /\ p[6].op = "hf_condsignal" /\ p[7].op = "hf_mtxunlock"
      /\ p[3].op = IF Role(t) = 1 THEN "buffer[in]=item" ELSE "item=buffer[out]"
      /\ p[4].op = IF Role(t) = 1 THEN "items++" ELSE "items--"
      /\ p[5].op = IF Role(t) = 1 THEN "in=(in+1)%N" ELSE "out=(out+1)%N"
  BY CondTaskProgram
<1>2. pc[t] \in 1..7 /\ i = p[pc[t]] /\ (Skips(t) \/ Executes(t)) /\ TaskInstr(i)
  BY <1>1, TaskMoves DEF Next_
<1>3. data \in Data
  BY TypesUsed
<1> HIDE DEF i, p
<1>4. CASE pc[t] = 2 /\ Skips(t)
  <2>1. UNCHANGED <<syncvars, data>> /\ pc'[t] = 3 /\ ~Holds(i.when)
    BY <1>1, <1>4 DEF Skips, Succ, i, p
  <2>2. i.when = IF Role(t) = 1 THEN "items==N" ELSE "items==0"
    BY <1>1, <1>2, <1>4
  <2>3. IF Role(t) = 1 THEN data.items # N ELSE data.items # 0
    BY <2>1, <2>2 DEF Holds
  <2> QED
    BY <1>2, <1>4, <2>1, <2>3 DEF syncvars, Resting
<1>5. CASE pc[t] = 2 /\ Executes(t)
  <2>1. i.op = "hf_condwait" /\ i.when # "always" /\ data' = Statement(i.op)
    BY <1>1, <1>2, <1>5 DEF Executes, i
  <2>2. pc'[t] = 2 /\ data' = data
    BY <1>5, <2>1 DEF Executes, While, Statement, i
  <2> QED
    BY <1>2, <1>5, <2>2 DEF Resting
<1>6. CASE pc[t] # 2
  <2>1. i.when = "always" /\ i.op # "hf_condwait"
    BY <1>1, <1>2, <1>6
  <2>2. Executes(t)
    BY <1>2, <2>1 DEF Skips, Holds, i
  <2>3. pc'[t] = Succ(pc[t], 7) /\ data' = Statement(i.op) /\ Execute(t, i)
    BY <1>1, <2>1, <2>2 DEF Executes, While, i, p
  <2>4. i.op \in {"hf_mtxlock", "hf_condsignal", "hf_mtxunlock"} \cup
                 {"buffer[in]=item", "item=buffer[out]", "items++", "items--", "in=(in+1)%N", "out=(out+1)%N"}
    BY <1>1, <1>2, <1>6
  <2>5. stage' = stage
    <3>1. CASE i.op \in {"hf_mtxlock", "hf_condsignal", "hf_mtxunlock"}
      BY <1>2, <2>3, <3>1, CallOf DEF hf_mtxlock, hf_mtxunlock, hf_condsignal
    <3>2. CASE i.op \in Statements
      BY <1>2, <2>3, <3>2, CallOf DEF syncvars
    <3> QED
      BY <2>4, <3>1, <3>2 DEF Statements
  <2>6. /\ data'.buffer = IF i.op = "buffer[in]=item" THEN [data.buffer EXCEPT ![data.in] = "item"]
                          ELSE IF i.op = "item=buffer[out]" THEN [data.buffer EXCEPT ![data.out] = "free"]
                          ELSE data.buffer
        /\ data'.in = IF i.op = "in=(in+1)%N" THEN (data.in + 1) % N ELSE data.in
        /\ data'.out = IF i.op = "out=(out+1)%N" THEN (data.out + 1) % N ELSE data.out
        /\ data'.items = IF i.op = "items++" THEN data.items + 1
                         ELSE IF i.op = "items--" THEN data.items - 1 ELSE data.items
    BY <1>3, <2>3, StatementCells
  <2>7. /\ pc[t] = 3 => i.op = IF Role(t) = 1 THEN "buffer[in]=item" ELSE "item=buffer[out]"
        /\ pc[t] = 4 => i.op = IF Role(t) = 1 THEN "items++" ELSE "items--"
        /\ pc[t] = 5 => i.op = IF Role(t) = 1 THEN "in=(in+1)%N" ELSE "out=(out+1)%N"
        /\ pc[t] \notin 3..5 => i.op \in {"hf_mtxlock", "hf_condsignal", "hf_mtxunlock"}
    BY <1>1, <1>2, <1>6
  <2>8. data'.items = IF pc[t] # 4 THEN data.items
                      ELSE IF Role(t) = 1 THEN data.items + 1 ELSE data.items - 1
    BY <1>2, <2>6, <2>7
  <2>9. /\ pc[t] = 3 => IF Role(t) = 1 THEN Putting ELSE Taking
        /\ pc[t] = 5 => IF Role(t) = 1 THEN Advancing ELSE Leaving
    BY <2>6, <2>7 DEF Putting, Taking, Advancing, Leaving
  <2>10. pc[t] \notin {3, 5} => Resting
    BY <1>2, <2>6, <2>7 DEF Resting
  <2> QED
    BY <1>2, <1>6, <2>3, <2>5, <2>8, <2>9, <2>10
<1> QED
  BY <1>2, <1>4, <1>5, <1>6

(* Between hf_mtxlock() and hf_mtxunlock() a task is alone, but for those  *)
(* inside hf_condwait().                                                   *)
LEMMA AloneWithLock ==
    ASSUME IInv, app.name = "cond_test1", SpinHeld, ItemsHeld, NEW t \in TaskIds, stage[t] = "run", pc[t] \in 2..7,
           NEW u \in TaskIds, u # t
    PROVE  pc[u] \notin 3..7 /\ u \notin SpinHolders
<1>1. \A v \in TaskIds : v \in SpinTasks <=> pc[v] \in 2..7
  BY DEF SpinTasks, Within, SpinRegion, Role, TaskIds
<1>2. t \in SpinHolders /\ u \notin SpinHolders
  BY <1>1 DEF SpinHolders, SpinHeld
<1>3. stage[u] # "run" => pc[u] = 2
  BY DEF ItemsHeld
<1> QED
  BY <1>1, <1>2, <1>3 DEF SpinHolders

LEMMA ItemsTaskStep ==
    ASSUME IInv, app.name = "cond_test1", SpinHeld, ItemsHeld, NEW t \in TaskIds, Step(t)
    PROVE  ItemsHeld'
<1>1. t \in Tasks \ {0} /\ TaskIds \subseteq Tasks
  BY DEF TaskIds
<1>2. /\ UNCHANGED app /\ stage[t] = "run"
      /\ \A u \in Tasks : u # t => pc'[u] = pc[u]
  BY <1>1, TaskMoves
<1>3. \A u \in Tasks : u # t => stage'[u] = stage[u]
  BY <1>1, TypesUsed, TaskStep, CallStages
<1>4. /\ pc[t] \in 1..7
      /\ pc[t] # 2 => pc'[t] = Succ(pc[t], 7) /\ stage' = stage
      /\ pc[t] = 2 => \/ pc'[t] = 2
                      \/ /\ pc'[t] = 3 /\ stage' = stage
                         /\ IF Role(t) = 1 THEN data.items # N ELSE data.items # 0
      /\ pc[t] = 3 => IF Role(t) = 1 THEN Putting ELSE Taking
      /\ pc[t] = 5 => IF Role(t) = 1 THEN Advancing ELSE Leaving
      /\ pc[t] \notin {3, 5} => Resting
      /\ data'.items = IF pc[t] # 4 THEN data.items
                       ELSE IF Role(t) = 1 THEN data.items + 1 ELSE data.items - 1
  BY <1>1, CondTaskStep
<1>5. Producers' = Producers /\ Consumers' = Consumers /\ Producers \subseteq TaskIds /\ Consumers \subseteq TaskIds
  BY <1>1, <1>2, RoleKept DEF Producers, Consumers
<1>6. pc[t] \in 2..7 => \A u \in TaskIds : u # t => pc[u] \notin 3..7 /\ pc'[u] \notin 3..7 /\ u \notin SpinHolders
  BY <1>1, <1>2, AloneWithLock
<1>7. data.buffer \in Buffers /\ data.in \in Cells /\ data.out \in Cells /\ data.items \in Int /\ N \in Int
  BY TypesUsed, BufferAssumption DEF Data, Buffers
<1>8. (Role(t) = 1 => t \in Producers /\ t \notin Consumers) /\ (Role(t) # 1 => t \notin Producers /\ t \in Consumers)
  BY DEF Producers, Consumers, Role
<1> DEFINE a4 == \E u \in Consumers : pc[u] = 4
           b4 == \E u \in Producers : pc[u] = 4
           a5 == \E u \in Consumers : pc[u] \in 4..5
           b5 == \E u \in Producers : pc[u] \in 4..5
           aa4 == \E u \in Consumers : pc'[u] = 4
           bb4 == \E u \in Producers : pc'[u] = 4
           aa5 == \E u \in Consumers : pc'[u] \in 4..5
           bb5 == \E u \in Producers : pc'[u] \in 4..5
           n == data.items + Bit(b4) - Bit(a4)
           m == data'.items + Bit(bb4) - Bit(aa4)
<1>9. Ring(data.buffer, data.in, data.out, n, Bit(a5), Bit(b5)) /\ n \in Nat
  BY DEF ItemsHeld, RingHolds, Ring
(* While t holds the lock the others are out of the statements. *)
<1>10. pc[t] \in 2..7 => /\ a4 <=> pc[t] = 4 /\ t \in Consumers
                         /\ b4 <=> pc[t] = 4 /\ t \in Producers
                         /\ a5 <=> pc[t] \in 4..5 /\ t \in Consumers
                         /\ b5 <=> pc[t] \in 4..5 /\ t \in Producers
                         /\ aa4 <=> pc'[t] = 4 /\ t \in Consumers
                         /\ bb4 <=> pc'[t] = 4 /\ t \in Producers
                         /\ aa5 <=> pc'[t] \in 4..5 /\ t \in Consumers
                         /\ bb5 <=> pc'[t] \in 4..5 /\ t \in Producers
  <2> HAVE pc[t] \in 2..7
  <2>1. \A u \in TaskIds : u # t => pc[u] \notin 3..7 /\ pc'[u] \notin 3..7
    BY <1>6
  <2> QED
    BY <1>5, <2>1
<1>11. pc[t] \in {1, 2, 6, 7} => /\ a4 <=> aa4
                                 /\ b4 <=> bb4
                                 /\ a5 <=> aa5
                                 /\ b5 <=> bb5
  <2> HAVE pc[t] \in {1, 2, 6, 7}
  <2>1. pc[t] \notin 4..5 /\ pc'[t] \notin 4..5
    BY <1>4 DEF Succ
  <2> QED
    BY <1>1, <1>2, <1>5, <2>1
<1> HIDE DEF a4, b4, a5, b5, aa4, bb4, aa5, bb5
<1>12. Ring(data'.buffer, data'.in, data'.out, m, Bit(aa5), Bit(bb5))
  <2>1. CASE pc[t] \in {1, 2, 6, 7}
    <3>1. Resting /\ data'.items = data.items
      BY <1>4, <2>1
    <3>2. Bit(aa4) = Bit(a4) /\ Bit(bb4) = Bit(b4) /\ Bit(aa5) = Bit(a5) /\ Bit(bb5) = Bit(b5)
      BY <1>11, <2>1 DEF Bit
    <3>3. m = n
      BY <3>1, <3>2
    <3> QED
      BY <1>9, <3>1, <3>2, <3>3 DEF Resting
  <2>2. CASE pc[t] = 3
    <3>1. ~a4 /\ ~b4 /\ ~a5 /\ ~b5 /\ pc'[t] = 4
      BY <1>4, <1>10, <2>2 DEF Succ
    <3>2. Bit(a4) = 0 /\ Bit(b4) = 0 /\ Bit(a5) = 0 /\ Bit(b5) = 0
      BY <3>1 DEF Bit
    <3>3. n = data.items /\ data'.items = data.items
      BY <1>4, <1>7, <2>2, <3>2
    <3>4. IF Role(t) = 1 THEN data.items < N ELSE data.items > 0
      <4>1. t \in SpinHolders
        BY <1>1, <1>2, <2>2 DEF SpinHolders, SpinTasks, Within, SpinRegion, Role
      <4> QED
        BY <2>2, <4>1 DEF ItemsHeld
    <3>5. CASE Role(t) = 1
      <4>1. Bit(aa4) = 0 /\ Bit(bb4) = 1 /\ Bit(aa5) = 0 /\ Bit(bb5) = 1
        BY <1>8, <1>10, <2>2, <3>1, <3>5 DEF Bit
      <4>2. m = n + 1
        BY <1>7, <3>3, <4>1
      <4>3. Ring([data.buffer EXCEPT ![data.in] = "item"], data.in, data.out, n + 1, 0, 1)
        <5>1. n < N /\ Ring(data.buffer, data.in, data.out, n, 0, 0)
          BY <1>9, <3>2, <3>3, <3>4, <3>5
        <5> HIDE DEF n
        <5> QED
          BY <1>7, <5>1, RingPut
      <4>4. Putting
        BY <1>4, <2>2, <3>5
      <4> QED
        BY <4>1, <4>2, <4>3, <4>4 DEF Putting
    <3>6. CASE Role(t) # 1
      <4>1. Bit(aa4) = 1 /\ Bit(bb4) = 0 /\ Bit(aa5) = 1 /\ Bit(bb5) = 0
        BY <1>8, <1>10, <2>2, <3>1, <3>6 DEF Bit
      <4>2. m = n - 1
        BY <1>7, <3>3, <4>1
      <4>3. Ring([data.buffer EXCEPT ![data.out] = "free"], data.in, data.out, n - 1, 1, 0)
        <5>1. n > 0 /\ Ring(data.buffer, data.in, data.out, n, 0, 0)
          BY <1>9, <3>2, <3>3, <3>4, <3>6
        <5> HIDE DEF n
        <5> QED
          BY <1>7, <5>1, RingTake
      <4>4. Taking
        BY <1>4, <2>2, <3>6
      <4> QED
        BY <4>1, <4>2, <4>3, <4>4 DEF Taking
    <3> QED
      BY <3>5, <3>6
  <2>3. CASE pc[t] = 4
    <3>1. pc'[t] = 5 /\ Resting
      BY <1>4, <2>3 DEF Succ
    <3>2. (aa5 <=> a5) /\ (bb5 <=> b5) /\ ~aa4 /\ ~bb4 /\ (a4 <=> t \in Consumers) /\ (b4 <=> t \in Producers)
      BY <1>10, <2>3, <3>1
    <3>3. Bit(aa5) = Bit(a5) /\ Bit(bb5) = Bit(b5) /\ Bit(aa4) = 0 /\ Bit(bb4) = 0
      BY <3>2 DEF Bit
    <3>4. m = n
      BY <1>4, <1>7, <1>8, <2>3, <3>2, <3>3 DEF Bit
    <3> QED
      BY <1>9, <3>1, <3>3, <3>4 DEF Resting
  <2>4. CASE pc[t] = 5
    <3>1. pc'[t] = 6 /\ data'.items = data.items
      BY <1>4, <2>4 DEF Succ
    <3>2. ~aa5 /\ ~bb5 /\ ~aa4 /\ ~bb4 /\ ~a4 /\ ~b4 /\ (a5 <=> t \in Consumers) /\ (b5 <=> t \in Producers)
      BY <1>10, <2>4, <3>1
    <3>3. /\ Bit(aa5) = 0 /\ Bit(bb5) = 0 /\ Bit(aa4) = 0 /\ Bit(bb4) = 0 /\ Bit(a4) = 0 /\ Bit(b4) = 0
      BY <3>2 DEF Bit
    <3>4. m = n
      BY <3>1, <3>3
    <3>5. CASE Role(t) = 1
      <4>1. Bit(a5) = 0 /\ Bit(b5) = 1 /\ Advancing
        BY <1>4, <1>8, <2>4, <3>2, <3>5 DEF Bit
      <4>2. Ring(data.buffer, (data.in + 1) % N, data.out, n, 0, 0)
        BY <1>7, <1>9, <4>1, RingIn
      <4> QED
        BY <3>3, <3>4, <4>1, <4>2 DEF Advancing
    <3>6. CASE Role(t) # 1
      <4>1. Bit(a5) = 1 /\ Bit(b5) = 0 /\ Leaving
        BY <1>4, <1>8, <2>4, <3>2, <3>6 DEF Bit
      <4>2. Ring(data.buffer, data.in, (data.out + 1) % N, n, 0, 0)
        BY <1>7, <1>9, <4>1, RingOut
      <4> QED
        BY <3>3, <3>4, <4>1, <4>2 DEF Leaving
    <3> QED
      BY <3>5, <3>6
  <2> QED
    BY <1>4, <2>1, <2>2, <2>3, <2>4
<1>13. RingHolds(data.items + Bit(\E u \in Producers : pc[u] = 4) - Bit(\E u \in Consumers : pc[u] = 4),
                 Bit(\E u \in Consumers : pc[u] \in 4..5), Bit(\E u \in Producers : pc[u] \in 4..5))'
  BY <1>5, <1>12 DEF RingHolds, aa4, bb4, aa5, bb5
<1>14. \A u \in TaskIds : stage'[u] # "run" => pc'[u] = 2
  BY <1>1, <1>2, <1>3, <1>4 DEF ItemsHeld
(* The test of the while has just failed, or nobody else has the lock. *)
<1>15. ASSUME NEW u \in SpinHolders', pc'[u] = 3
       PROVE  IF Role(u)' = 1 THEN data'.items < N ELSE data'.items > 0
  <2>1. u \in TaskIds /\ stage'[u] = "run" /\ Role(u)' = Role(u)
    BY <1>2, RoleKept DEF SpinHolders, SpinTasks, Within, TaskIds
  <2>2. CASE u = t
    <3>1. pc[t] = 2 /\ IF Role(t) = 1 THEN data.items # N ELSE data.items # 0
      BY <1>4, <1>15, <2>2 DEF Succ
    <3>2. ~a4 /\ ~b4 /\ data'.items = data.items
      BY <1>4, <1>10, <3>1
    <3>3. n = data.items
      BY <1>7, <3>2 DEF Bit
    <3>4. n <= N
      BY <1>7, <1>9, <3>3 DEF Ring, Bit
    <3> QED
      BY <1>7, <1>9, <2>1, <2>2, <3>1, <3>2, <3>3, <3>4
  <2>3. CASE u # t
    <3>1. pc[u] = 3 /\ stage[u] = "run"
      BY <1>1, <1>2, <1>3, <1>15, <2>1, <2>3
    <3>2. u \in SpinHolders
      BY <2>1, <3>1 DEF SpinHolders, SpinTasks, Within, SpinRegion, Role, TaskIds
    <3>3. pc[t] = 1
      BY <1>4, <1>6, <2>1, <2>3, <3>2
    <3>4. data'.items = data.items
      BY <1>4, <3>3
    <3> QED
      BY <2>1, <3>1, <3>2, <3>4 DEF ItemsHeld
  <2> QED
    BY <2>2, <2>3
<1> QED
  BY <1>13, <1>14, <1>15 DEF ItemsHeld

LEMMA ItemsQuiet ==
    ASSUME ItemsHeld, UNCHANGED <<app, data>>,
           \A u \in TaskIds : pc'[u] = pc[u] /\ (stage[u] = "run" => stage'[u] = "run")
    PROVE  ItemsHeld'
<1>1. Producers' = Producers /\ Consumers' = Consumers /\ Producers \subseteq TaskIds /\ Consumers \subseteq TaskIds
  BY RoleKept DEF Producers, Consumers, TaskIds
<1> DEFINE a4 == \E u \in Consumers : pc[u] = 4
           b4 == \E u \in Producers : pc[u] = 4
           a5 == \E u \in Consumers : pc[u] \in 4..5
           b5 == \E u \in Producers : pc[u] \in 4..5
<1>2. (a4' <=> a4) /\ (b4' <=> b4) /\ (a5' <=> a5) /\ (b5' <=> b5)
  BY <1>1
<1>3. RingHolds(data.items + Bit(b4) - Bit(a4), Bit(a5), Bit(b5))
  BY DEF ItemsHeld
<1> HIDE DEF a4, b4, a5, b5
<1>4. RingHolds(data.items + Bit(b4) - Bit(a4), Bit(a5), Bit(b5))'
  <2>1. Bit(a4)' = Bit(a4) /\ Bit(b4)' = Bit(b4) /\ Bit(a5)' = Bit(a5) /\ Bit(b5)' = Bit(b5)
    BY <1>2 DEF Bit
  <2> QED
    BY <1>3, <2>1 DEF RingHolds
<1>5. \A u \in TaskIds : stage'[u] # "run" => pc'[u] = 2
  BY DEF ItemsHeld
<1>6. SpinTasks' = SpinTasks /\ SpinTasks \subseteq TaskIds
  BY RoleKept DEF SpinTasks, Within, TaskIds
<1>7. ASSUME NEW u \in SpinHolders', pc'[u] = 3
      PROVE  IF Role(u)' = 1 THEN data'.items < N ELSE data'.items > 0
  <2>1. u \in SpinTasks /\ u \in TaskIds
    BY <1>6 DEF SpinHolders
  <2>2. pc[u] = 3 /\ stage[u] = "run" /\ Role(u)' = Role(u)
    BY <1>7, <2>1, RoleKept DEF ItemsHeld, TaskIds
  <2>3. u \in SpinHolders
    BY <2>1, <2>2 DEF SpinHolders
  <2> QED
    BY <2>2, <2>3 DEF ItemsHeld
<1> QED
  BY <1>4, <1>5, <1>7 DEF ItemsHeld, a4, b4, a5, b5

LEMMA BufferInit ==
    ASSUME Init
    PROVE  BInv
<1>1. IInv
  BY InitIInv
<1>2. AppOK /\ \A t \in Tasks : stage[t] = "run" /\ pc[t] = 1
  BY <1>1, TypesUsed DEF Init, SyncInit
<1>3. {"empty", "full"} \subseteq Sems /\ \A s \in {"empty", "full"} : sems[s].count = 0
  BY AppsAssumption DEF Init, SyncInit
<1>4. Producers \subseteq Tasks /\ Consumers \subseteq Tasks
  BY DEF Producers, Consumers, TaskIds
<1>5. Ring(data.buffer, data.in, data.out, 0, 0, 0)
  <2>1. 0 \in Cells /\ N \in Nat
    BY BufferAssumption DEF Cells
  <2>2. data.in = 0 /\ data.out = 0 /\ \A i \in Cells : data.buffer[i] = "free"
    BY DEF Init
  <2>3. Off(0, 0) = 0 /\ \A i \in Cells : Off(0, i) \in Int /\ 0 <= Off(0, i)
    BY <2>1, OffType
  <2> QED
    BY <2>1, <2>2, <2>3 DEF Ring
<1>6. SlotsCounted
  <2>1. PutDue = {} /\ FullDue = {} /\ TakeDue = {} /\ EmptyDue = {}
    BY <1>2, <1>4 DEF PutDue, FullDue, TakeDue, EmptyDue
  <2>2. /\ Cardinality(PutDue) = 0 /\ Cardinality(FullDue) = 0 /\ Cardinality(TakeDue) = 0
        /\ Cardinality(EmptyDue) = 0
    BY <2>1, FS_EmptySet
  <2>3. Items = 0
    BY <1>3, <2>2 DEF Items
  <2>4. Bit(\E t \in Consumers : pc[t] = 4) = 0 /\ Bit(\E t \in Producers : pc[t] = 4) = 0
    BY <1>2, <1>4 DEF Bit
  <2>5. sems["empty"].count + Items + Cardinality(PutDue) + Cardinality(EmptyDue) <= N
    BY <1>3, <2>2, <2>3, BufferAssumption
  <2>6. RingHolds(Items, Bit(\E t \in Consumers : pc[t] = 4), Bit(\E t \in Producers : pc[t] = 4))
    BY <1>5, <2>3, <2>4, ZenonT(40) DEF RingHolds
  <2>7. /\ \A s \in {"empty", "full"} : sems[s].sem_queue \in NoQueue => sems[s].count >= 0
        /\ pc[0] < End => sems["full"].count = 0
    BY <1>3
  <2> QED
    BY <2>5, <2>6, <2>7 DEF SlotsCounted
<1>7. ItemsHeld
  <2>1. /\ Bit(\E t \in Consumers : pc[t] = 4) = 0 /\ Bit(\E t \in Producers : pc[t] = 4) = 0
        /\ Bit(\E t \in Consumers : pc[t] \in 4..5) = 0 /\ Bit(\E t \in Producers : pc[t] \in 4..5) = 0
    BY <1>2, <1>4 DEF Bit
  <2>2. data.items = 0
    BY DEF Init
  <2>3. \A t \in TaskIds : stage[t] = "run" /\ pc[t] = 1
    BY <1>2 DEF TaskIds
  <2>4. \A t \in SpinHolders : pc[t] = 1
    BY <1>2 DEF SpinHolders, SpinTasks, Within
  <2>5. 0 + 0 - 0 = 0
    OBVIOUS
  <2>6. RingHolds(data.items + Bit(\E t \in Producers : pc[t] = 4) - Bit(\E t \in Consumers : pc[t] = 4),
                  Bit(\E t \in Consumers : pc[t] \in 4..5), Bit(\E t \in Producers : pc[t] \in 4..5))
    BY <1>5, <2>1, <2>2, <2>5, ZenonT(40) DEF RingHolds
  <2>7. \A t \in SpinHolders : pc[t] # 3
    BY <2>4
  <2> QED
    BY <2>3, <2>6, <2>7 DEF ItemsHeld
<1> QED
  BY <1>6, <1>7 DEF BInv

LEMMA BufferKept ==
    ASSUME IInv, IInv', EInv, BInv, [Next]_vars
    PROVE  BInv'
<1> SUFFICES ASSUME Regular'
             PROVE  /\ app'.name = "sem_test1" => SlotsCounted'
                    /\ app'.name = "cond_test1" => ItemsHeld'
  BY DEF BInv
<1>1. /\ Regular /\ Parked /\ Booted
      /\ app.name = "sem_test1" => BufferHeld /\ SlotsCounted
      /\ app.name = "cond_test1" => SpinHeld /\ ItemsHeld
  BY RegularBefore DEF EInv, BInv, AppHeld, SpinApps
<1>2. ASSUME NEW t \in TaskIds, Step(t)
      PROVE  UNCHANGED app /\ (app.name = "sem_test1" => SlotsCounted') /\ (app.name = "cond_test1" => ItemsHeld')
  <2>1. UNCHANGED app
    BY <1>2 DEF Step
  <2>2. app.name = "sem_test1" => SlotsCounted'
    BY <1>1, <1>2, SlotsTaskStep
  <2>3. app.name = "cond_test1" => ItemsHeld'
    BY <1>1, <1>2, ItemsTaskStep
  <2> QED
    BY <2>1, <2>2, <2>3
<1>3. ASSUME Step(0)
      PROVE  UNCHANGED app /\ (app.name = "sem_test1" => SlotsCounted') /\ (app.name = "cond_test1" => ItemsHeld')
  <2>1. UNCHANGED <<app, data, stage>> /\ \A u \in Tasks : u # 0 => pc'[u] = pc[u]
    BY <1>3, MainCallOf
  <2>2. app.name = "sem_test1" => SlotsCounted'
    BY <1>1, <1>3, SlotsMain
  <2>3. app.name = "cond_test1" => ItemsHeld'
    BY <1>1, <2>1, ItemsQuiet DEF TaskIds
  <2> QED
    BY <2>1, <2>2, <2>3
<1>4. ASSUME NEW t \in Tasks, Inside(t)
      PROVE  UNCHANGED app /\ (app.name = "sem_test1" => SlotsCounted') /\ (app.name = "cond_test1" => ItemsHeld')
  <2>1. UNCHANGED <<app, pc, data>> /\ InsideCall(t) /\ SyncTypeOK
    BY <1>4, TypesUsed DEF Inside
  <2>2. UNCHANGED sems /\ stage[t] # "run"
    BY <2>1 DEF InsideCall, ReturnFromSemwait, CondYield, Relock, SetLevel, SetWaiting, TestLevel, TestWaiting, At
  <2>3. \A u \in Tasks : u # t => stage'[u] = stage[u]
    BY <2>1, CallStages
  <2>4. app.name = "sem_test1" => SlotsCounted'
    BY <1>1, <2>1, <2>2, SlotsQuiet
  <2>5. app.name = "cond_test1" => ItemsHeld'
    BY <1>1, <2>1, <2>2, <2>3, ItemsQuiet DEF TaskIds
  <2> QED
    BY <2>1, <2>4, <2>5
<1>5. ASSUME NEW t \in Tasks, Resume(t)
      PROVE  FALSE
  BY <1>1, <1>5 DEF Resume, Regular
<1>6. CASE Stopped \/ UNCHANGED vars
  <2>1. UNCHANGED <<app, pc, sems, data, stage>>
    BY <1>6 DEF Stopped, vars, syncvars
  <2> QED
    BY <1>1, <2>1, SlotsQuiet, ItemsQuiet
<1>7. \A t \in Tasks : t = 0 \/ t \in TaskIds
  BY DEF TaskIds
<1> QED
  BY <1>2, <1>3, <1>4, <1>5, <1>6, <1>7 DEF Next

(* Where a program puts and takes items. *)
Transfers == {"buffer[in]=item", "item=buffer[out]"}
Stores(p) == \E k \in 1..Len(p) : p[k].op \in Transfers

LEMMA OnlyBuffersStore ==
    ASSUME AppOK, app.name \notin {"sem_test1", "cond_test1"}, NEW t \in Tasks \ {0}
    PROVE  ~Stores(Program(t))
<1> USE DEF Stores, Transfers, Wait, Post, Do, Instr, Cond
<1>1. ~Stores(Reader) BY SMTT(30) DEF Reader
<1>2. ~Stores(Writer) BY SMTT(30) DEF Writer
<1>3. ~Stores(SpinTask) BY SMTT(30) DEF SpinTask
<1>4. ~Stores(FilterTask) BY SMTT(30) DEF FilterTask
<1>5. ~Stores(Waiter) BY SMTT(30) DEF Waiter
<1>6. ~Stores(Signaller) BY SMTT(30) DEF Signaller
<1>7. ~Stores(Mallocer) BY SMTT(30) DEF Mallocer
<1>8. ~Stores(Spawner) BY SMTT(30) DEF Spawner
<1> HIDE DEF Stores
<1>9. app.name \in AppNames
  BY AppsNamed DEF AppOK
<1>10. Program(t) \in {Reader, Writer, SpinTask, FilterTask, Waiter, Signaller, Mallocer, Spawner}
  BY <1>9 DEF AppNames, Program, Programs
<1> QED
  BY <1>1, <1>2, <1>3, <1>4, <1>5, <1>6, <1>7, <1>8, <1>10

(* A task that is about to put an item finds its cell free, and one that   *)
(* is about to take one finds it there.                                    *)
CellReady(t) ==
    /\ AtOp(t, {"buffer[in]=item"}) => data.buffer[data.in] = "free"
    /\ AtOp(t, {"item=buffer[out]"}) => data.buffer[data.out] = "item"

LEMMA CellsReady ==
    ASSUME IInv, EInv, BInv, Regular, NEW t \in Tasks
    PROVE  CellReady(t)
<1> SUFFICES ASSUME AtOp(t, Transfers)
             PROVE  CellReady(t)
  BY DEF CellReady, AtOp, Transfers
<1>1. /\ Parked
      /\ app.name = "sem_test1" => BufferHeld /\ SlotsCounted
      /\ app.name = "cond_test1" => SpinHeld /\ ItemsHeld
  BY DEF EInv, BInv, AppHeld, SpinApps
<1>2. /\ t \in Tasks \ {0} /\ stage[t] = "run" /\ pc[t] \in 1..Len(Program(t))
      /\ Program(t)[pc[t]].op \in Transfers
  <2>1. AtOp(t, BufferOps \cup {"read"})
    BY DEF AtOp, BufferOps, Transfers
  <2> QED
    BY <2>1, NotMain DEF AtOp, Next_
<1>3. t \in TaskIds /\ TaskIds \subseteq Tasks
  BY <1>2 DEF TaskIds
<1>4. data.buffer \in Buffers /\ data.in \in Cells /\ data.out \in Cells /\ data.items \in Int
  BY TypesUsed DEF Data, Buffers
<1>5. Producers \subseteq TaskIds /\ Consumers \subseteq TaskIds
  BY DEF Producers, Consumers
<1>6. ASSUME NEW n, Ring(data.buffer, data.in, data.out, n, 0, 0), IF Role(t) = 1 THEN n < N ELSE n > 0,
             Program(t)[pc[t]].op = IF Role(t) = 1 THEN "buffer[in]=item" ELSE "item=buffer[out]"
      PROVE  CellReady(t)
  <2>1. CASE Role(t) = 1
    <3>1. data.buffer[data.in] = "free"
      BY <1>4, <1>6, <2>1, RingPut
    <3> QED
      BY <1>6, <2>1, <3>1 DEF CellReady, AtOp, Next_
  <2>2. CASE Role(t) # 1
    <3>1. data.buffer[data.out] = "item"
      BY <1>4, <1>6, <2>2, RingTake
    <3> QED
      BY <1>6, <2>2, <3>1 DEF CellReady, AtOp, Next_
  <2> QED
    BY <2>1, <2>2
<1>7. CASE app.name = "sem_test1"
  <2>1. pc[t] = 3 /\ Program(t)[pc[t]].op = IF Role(t) = 1 THEN "buffer[in]=item" ELSE "item=buffer[out]"
    <3> DEFINE p == Program(t)
    <3>1. /\ Len(p) = 6
          /\ IsOp(p[1], "hf_semwait", First(t)) /\ IsOp(p[2], "hf_semwait", "m")
          /\ p[3].op = IF Role(t) = 1 THEN "buffer[in]=item" ELSE "item=buffer[out]"
          /\ p[4].op = IF Role(t) = 1 THEN "in=(in+1)%N" ELSE "out=(out+1)%N"
          /\ IsOp(p[5], "hf_sempost", "m") /\ IsOp(p[6], "hf_sempost", Second(t))
      BY <1>2, <1>7, SemTaskProgram
    <3>2. pc[t] \in 1..Len(p) /\ p[pc[t]].op \in Transfers
      BY <1>2
    <3> HIDE DEF p
    <3>3. pc[t] = 3
      BY <3>1, <3>2 DEF IsOp, Transfers
    <3> QED
      BY <3>1, <3>3 DEF p
  <2>2. t \notin SemQueue("m")
    BY <1>1, <1>2, <1>3, <1>7, BufferWaiters
  <2>3. \A u \in TaskIds : pc[u] # 4
    BY <1>1, <1>2, <1>3, <1>7, <2>1, <2>2, AloneAtBuffer DEF TaskIds
  <2>4. Bit(\E u \in Consumers : pc[u] = 4) = 0 /\ Bit(\E u \in Producers : pc[u] = 4) = 0
    BY <1>5, <2>3 DEF Bit
  <2>5. Ring(data.buffer, data.in, data.out, Items, 0, 0)
    BY <1>1, <1>7, <2>4 DEF SlotsCounted, RingHolds
  <2>6. IF Role(t) = 1 THEN Items < N ELSE Items > 0
    BY <1>1, <1>2, <1>3, <1>7, <2>1, BufferRoom
  <2> QED
    BY <1>6, <2>1, <2>5, <2>6
<1>8. CASE app.name = "cond_test1"
  <2>1. pc[t] = 3 /\ Program(t)[pc[t]].op = IF Role(t) = 1 THEN "buffer[in]=item" ELSE "item=buffer[out]"
    <3> DEFINE p == Program(t)
    <3>1. /\ Len(p) = 7
          /\ \A k \in 1..7 : (k = 2 <=> p[k].op = "hf_condwait")
          /\ p[1].op = "hf_mtxlock" /\ p[6].op = "hf_condsignal" /\ p[7].op = "hf_mtxunlock"
          /\ p[3].op = IF Role(t) = 1 THEN "buffer[in]=item" ELSE "item=buffer[out]"
          /\ p[4].op = IF Role(t) = 1 THEN "items++" ELSE "items--"
          /\ p[5].op = IF Role(t) = 1 THEN "in=(in+1)%N" ELSE "out=(out+1)%N"
      BY <1>2, <1>8, CondTaskProgram
    <3>2. pc[t] \in 1..Len(p) /\ p[pc[t]].op \in Transfers
      BY <1>2
    <3> HIDE DEF p
    <3>3. pc[t] = 3
      BY <3>1, <3>2 DEF Transfers
    <3> QED
      BY <3>1, <3>3 DEF p
  <2>2. \A u \in TaskIds : pc[u] \notin 4..5
    BY <1>1, <1>2, <1>3, <1>8, <2>1, AloneWithLock
  <2>3. /\ Bit(\E u \in Consumers : pc[u] = 4) = 0 /\ Bit(\E u \in Producers : pc[u] = 4) = 0
        /\ Bit(\E u \in Consumers : pc[u] \in 4..5) = 0 /\ Bit(\E u \in Producers : pc[u] \in 4..5) = 0
    BY <1>5, <2>2 DEF Bit
  <2>4. data.items + 0 - 0 = data.items
    BY <1>4
  <2>5. Ring(data.buffer, data.in, data.out, data.items, 0, 0)
    BY <1>1, <1>8, <2>3, <2>4 DEF ItemsHeld, RingHolds
  <2>6. t \in SpinHolders
    BY <1>2, <1>8, <2>1 DEF SpinHolders, SpinTasks, Within, SpinRegion, Role
  <2>7. IF Role(t) = 1 THEN data.items < N ELSE data.items > 0
    BY <1>1, <1>8, <2>1, <2>6 DEF ItemsHeld
  <2> QED
    BY <1>6, <2>1, <2>5, <2>7
<1>9. CASE app.name \notin {"sem_test1", "cond_test1"}
  BY <1>2, <1>9, OnlyBuffersStore, TypesUsed DEF Stores
<1> QED
  BY <1>7, <1>8, <1>9

(* The bounded buffers of app/sem_test1 and app/cond_test1, for every size *)
(* of the buffer, every number of tasks and every split into producers and *)
(* consumers: an item is put only in a free cell and taken only from a     *)
(* cell that holds one, so none is overwritten and none is taken twice     *)
(* (hf_semwait, hf_sempost, hf_condwait, hf_condsignal).                   *)
THEOREM SyncBufferIntact == Spec => BufferIntact
<1>1. Init => EInv /\ BInv
  BY ExclusionInit, BufferInit
<1>2. IInv /\ IInv' /\ EInv /\ BInv /\ [Next]_vars => EInv' /\ BInv'
  BY ExclusionKept, BufferKept
<1> DEFINE A == Regular => \A i \in Cells :
                   /\ (\E t \in Tasks : AtOp(t, {"buffer[in]=item"}) /\ pc'[t] # pc[t]) /\ data.in = i
                          => data.buffer[i] = "free"
                   /\ (\E t \in Tasks : AtOp(t, {"item=buffer[out]"}) /\ pc'[t] # pc[t]) /\ data.out = i
                          => data.buffer[i] = "item"
<1>3. IInv /\ EInv /\ BInv => A
  BY CellsReady DEF CellReady
<1>4. IInv /\ EInv /\ BInv => [A]_vars
  BY <1>3
<1>5. BufferIntact <=> [][A]_vars
  BY DEF BufferIntact
<1> HIDE DEF A
<1> QED
  BY <1>1, <1>2, <1>4, <1>5, SyncInvariant, PTL DEF Spec
=============================================================================
