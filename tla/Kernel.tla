------------------------------- MODULE Kernel -------------------------------
(***************************************************************************)
(* The kernel core of HellfireOS: task management (sys/kernel/task.c), the *)
(* dispatcher and the two default schedulers (sys/kernel/scheduler.c), the *)
(* scheduler lock (sys/kernel/processor.c) and system start-up             *)
(* (sys/kernel/main.c).                                                    *)
(*                                                                         *)
(* One processor.  A kernel call runs with interrupts disabled, on behalf  *)
(* of the thread that is on the processor, so each call is one action, but *)
(* for hf_priorityset(), which can be interrupted between its checks and   *)
(* its two assignments.  The timer interrupt runs the whole dispatcher and *)
(* is the other source of steps.  A call that only returns an error code   *)
(* changes nothing and is not a step.  Names, stack sizes, job counters    *)
(* and logging are left out.                                               *)
(***************************************************************************)
EXTENDS QueueOps, FiniteSets, Functions

CONSTANTS
    MAX_TASKS,      \* number of task control blocks
    Calls,          \* the kernel calls and interrupts of the scenario
    NetTask,        \* the task that eth_isr() finds by its name
    RTParams,       \* <<period, capacity, deadline>> arguments of hf_spawn()
    SpawnPriority,  \* the priority hf_spawn() gives, 100
    Priorities,     \* arguments of hf_priorityset()
    Delays,         \* arguments of hf_delay()
    MaxMisses,      \* deadline misses are counted up to this bound
    Liberties       \* what a client may do beyond the careful client, below

(* The careful client never kills itself, never kills or delays a task     *)
(* that is in the delay queue, leaves the idle task's priority alone and   *)
(* does not yield while it holds the scheduler lock.  No client yields or  *)
(* touches the scheduler lock in app_main(), before there is a task.       *)
AllLiberties == {"kill_self", "touch_delayed", "idle_priority", "yield_locked"}

AllCalls == {"hf_spawn", "hf_kill", "hf_delay", "hf_block", "hf_resume",
             "hf_yield", "hf_priorityset", "hf_schedlock", "eth_isr"}

Slots == 0..(MAX_TASKS - 1)
UInt8 == 0..255
UInt16 == 0..65535

ASSUME MaxTasksAssumption == MAX_TASKS \in UInt16 \ {0}
ASSUME CallsAssumption == Calls \subseteq AllCalls
ASSUME NetTaskAssumption == NetTask \in Slots
ASSUME RTParamsAssumption == RTParams \subseteq UInt16 \X UInt16 \X UInt16
ASSUME PrioritiesAssumption == Priorities \subseteq UInt8 /\ SpawnPriority \in UInt8
ASSUME DelaysAssumption == Delays \subseteq Nat
ASSUME MaxMissesAssumption == MaxMisses \in Nat
ASSUME LibertiesAssumption == Liberties \subseteq AllLiberties

VARIABLES
    krnl_tcb,           \* the task control blocks
    krnl_tasks,         \* number of tasks in the system
    krnl_current_task,  \* the id of the task on the processor
    krnl_schedule,      \* FALSE while the scheduler is locked
    krnl_run_queue,     \* best effort tasks
    krnl_rt_queue,      \* real-time tasks
    krnl_delay_queue,   \* delayed tasks
    up,                 \* the idle task has started the scheduler
    halted,             \* why the system stopped, NotHalted if it runs
    cpu,                \* the thread on the processor: "own" if its task
                        \* lives, "dead" if its task was killed
    context,            \* whose registers a control block holds
    pending             \* what a task inside hf_priorityset() has yet to do

queues == <<krnl_run_queue, krnl_rt_queue, krnl_delay_queue>>
vars == <<krnl_tcb, krnl_tasks, krnl_current_task, krnl_schedule, queues, up,
          halted, cpu, context, pending>>

NoId == 65535                   \* (uint16_t)-1
NotHalted == "running"
Causes == {"PANIC_STACK_OVERFLOW", "PANIC_NO_TASKS_LEFT", "PANIC_NO_TASKS_RUN",
           "PANIC_NO_TASKS_RT", "PANIC_CANT_PLACE_RUN", "PANIC_CANT_PLACE_RT",
           "PANIC_CANT_PLACE_DELAY", "NULL_TASK"}
States == {"IDLE", "READY", "RUNNING", "BLOCKED", "DELAYED"}

uint8(n) == n % 256
uint16(n) == n % 65536

Tcb == [id : Slots \cup {NoId}, ptask : BOOLEAN, state : States,
        priority : UInt8, priority_rem : UInt8, critical : BOOLEAN,
        delay : Nat, period : UInt16, capacity : UInt16,
        deadline : UInt16, capacity_rem : UInt16,
        deadline_rem : UInt16, deadline_misses : 0..MaxMisses]

(* A call of hf_priorityset() that has passed its checks: the field that   *)
(* it assigns next.                                                        *)
Pending == [id : Slots, priority : UInt8, field : {"none", "priority", "priority_rem"}]
NoCall == [id |-> 0, priority |-> 0, field |-> "none"]

Live(i) == krnl_tcb[i].ptask

-----------------------------------------------------------------------------
(* Start-up. *)

(* clear_tcb() *)
ClearTcb ==
    [id |-> NoId, ptask |-> FALSE, state |-> "IDLE", priority |-> 0,
     priority_rem |-> 0, critical |-> FALSE, delay |-> 0, period |-> 0,
     capacity |-> 0, deadline |-> 0, capacity_rem |-> 0, deadline_rem |-> 0,
     deadline_misses |-> 0]

(* The control block that hf_spawn() fills in; "critical" is left as it was. *)
SpawnedTcb(tcb, i, period, capacity, deadline) ==
    [tcb EXCEPT !.id = i, !.ptask = TRUE, !.state = "IDLE",
                !.priority = SpawnPriority, !.priority_rem = SpawnPriority,
                !.delay = 0, !.period = period,
                !.capacity = capacity, !.deadline = deadline,
                !.capacity_rem = capacity, !.deadline_rem = deadline,
                !.deadline_misses = 0]

(* main(), up to the call of app_main(): the idle task has been spawned,   *)
(* the scheduler is locked and interrupts are disabled.                    *)
Init ==
    /\ krnl_tcb = [i \in Slots |-> IF i = 0 THEN SpawnedTcb(ClearTcb, 0, 0, 0, 0)
                                   ELSE ClearTcb]
    /\ krnl_tasks = 1
    /\ krnl_current_task = 0
    /\ krnl_schedule = FALSE
    /\ krnl_run_queue = <<0>>
    /\ krnl_rt_queue = << >>
    /\ krnl_delay_queue = << >>
    /\ up = FALSE
    /\ halted = NotHalted
    /\ cpu = "own"
    /\ context = [i \in Slots |-> IF i = 0 THEN "own" ELSE "clear"]
    /\ pending = [i \in Slots |-> NoCall]

(* app_main() has returned: main() restores the idle task, which unlocks   *)
(* the scheduler and makes no further call.                                *)
idletask ==
    /\ ~up
    /\ halted = NotHalted
    /\ pending[0] = NoCall
    /\ up' = TRUE
    /\ krnl_schedule' = TRUE
    /\ UNCHANGED <<krnl_tcb, krnl_tasks, krnl_current_task, queues, halted, cpu,
                   context, pending>>

(* The thread on the processor can call the kernel: app_main() during      *)
(* start-up, later any task but the idle one.                              *)
CanCall(call) ==
    /\ call \in Calls
    /\ halted = NotHalted
    /\ up => krnl_current_task # 0
    /\ pending[krnl_current_task] = NoCall

-----------------------------------------------------------------------------
(* sys/kernel/task.c *)

FreeSlots == {i \in Slots : ~Live(i)}
FirstFree == CHOOSE i \in FreeSlots : \A j \in FreeSlots : i <= j

(* panic(): the system is locked for ever; what the call had already       *)
(* written is never read again and is left out.                            *)
Halt(cause) ==
    /\ halted' = cause
    /\ UNCHANGED <<krnl_tcb, krnl_tasks, krnl_current_task, krnl_schedule, queues,
                   up, cpu, context, pending>>

(* Mutation: the failed allocation is not taken off the count. *)
TasksAfterFailedSpawn(mem) == krnl_tasks + 1

(* krnl_tasks is incremented at once, and decremented when there is no memory. *)
TasksAfterSpawn(mem) == IF mem THEN krnl_tasks + 1 ELSE krnl_tasks

(* hf_spawn(): "mem" tells whether the stack could be allocated.  Without  *)
(* memory the control block keeps what was written but for its entry.      *)
hf_spawn(period, capacity, deadline, mem) ==
    LET i == FirstFree
        t == SpawnedTcb(krnl_tcb[i], i, period, capacity, deadline)
        place == IF period # 0 THEN krnl_rt_queue ELSE krnl_run_queue
    IN  /\ CanCall("hf_spawn")
        /\ period >= capacity /\ deadline >= capacity
        /\ FreeSlots # {}
        /\ IF mem /\ Len(place) >= MAX_TASKS
           THEN Halt(IF period # 0 THEN "PANIC_CANT_PLACE_RT"
                                   ELSE "PANIC_CANT_PLACE_RUN")
           ELSE /\ krnl_tcb' = [krnl_tcb EXCEPT ![i] = [t EXCEPT !.ptask = mem]]
                /\ context' = [context EXCEPT ![i] = "own"]
                /\ pending' = [pending EXCEPT ![i] = NoCall]
                /\ krnl_tasks' = TasksAfterSpawn(mem)
                /\ krnl_rt_queue' = IF mem /\ period # 0
                                    THEN Append(krnl_rt_queue, i)
                                    ELSE krnl_rt_queue
                /\ krnl_run_queue' = IF mem /\ period = 0
                                     THEN Append(krnl_run_queue, i)
                                     ELSE krnl_run_queue
                /\ UNCHANGED <<krnl_current_task, krnl_schedule, krnl_delay_queue,
                               up, halted, cpu>>

(* Mutation: the idle task is not excepted. *)
TargetIdleToo(id) == Live(id)

(* What hf_kill(), hf_delay(), hf_block() and hf_resume() accept. *)
Target(id) == id # 0 /\ Live(id)

(* The discipline of the careful client towards delayed tasks. *)
MayMove(id) ==
    id \in Range(krnl_delay_queue) => "touch_delayed" \in Liberties

(* The queue in which hf_kill() and hf_delay() look for a task. *)
RunQueueOf(id) == IF krnl_tcb[id].period # 0 THEN krnl_rt_queue ELSE krnl_run_queue
NotFound(id) == IF krnl_tcb[id].period # 0 THEN "PANIC_NO_TASKS_RT"
                                           ELSE "PANIC_NO_TASKS_RUN"

(* The search-and-remove loop of hf_kill() and hf_delay(). *)
TakeFromRunQueue(id) ==
    /\ krnl_rt_queue' = IF krnl_tcb[id].period # 0
                        THEN Without(krnl_rt_queue, id) ELSE krnl_rt_queue
    /\ krnl_run_queue' = IF krnl_tcb[id].period = 0
                         THEN Without(krnl_run_queue, id) ELSE krnl_run_queue

(* hf_kill(): the id is overwritten before it is used to clear the saved   *)
(* context and before it is compared with the caller's, so the context     *)
(* stays and a task that kills itself is not made to yield: its thread     *)
(* runs on until the next tick.                                            *)
hf_kill(id) ==
    /\ CanCall("hf_kill")
    /\ Target(id)
    /\ MayMove(id)
    /\ id = krnl_current_task => "kill_self" \in Liberties
    /\ IF id \notin Range(RunQueueOf(id))
       THEN Halt(NotFound(id))
       ELSE /\ krnl_tcb' = [krnl_tcb EXCEPT ![id].id = NoId, ![id].ptask = FALSE,
                                            ![id].state = "IDLE"]
            /\ krnl_tasks' = krnl_tasks - 1
            /\ TakeFromRunQueue(id)
            /\ cpu' = IF id = krnl_current_task THEN "dead" ELSE cpu
            /\ pending' = [pending EXCEPT ![id] = NoCall]
            /\ UNCHANGED <<krnl_current_task, krnl_schedule, krnl_delay_queue, up,
                           halted, context>>

(* Mutation: a delay of zero is queued. *)
AnyDelay(delay) == TRUE

(* The check that hf_delay() makes before it disables interrupts. *)
ValidDelay(delay) == delay # 0

hf_delay(id, delay) ==
    /\ CanCall("hf_delay")
    /\ ValidDelay(delay)
    /\ Target(id)
    /\ MayMove(id)
    /\ IF id \notin Range(RunQueueOf(id))
       THEN Halt(NotFound(id))
       ELSE IF Len(krnl_delay_queue) >= MAX_TASKS
       THEN Halt("PANIC_CANT_PLACE_DELAY")
       ELSE /\ krnl_tcb' = [krnl_tcb EXCEPT ![id].state = "DELAYED",
                                            ![id].delay = delay]
            /\ TakeFromRunQueue(id)
            /\ krnl_delay_queue' = Append(krnl_delay_queue, id)
            /\ UNCHANGED <<krnl_tasks, krnl_current_task, krnl_schedule, up, halted,
                           cpu, context, pending>>

hf_block(id) ==
    /\ CanCall("hf_block")
    /\ Target(id)
    /\ krnl_tcb[id].state # "BLOCKED"
    /\ krnl_tcb' = [krnl_tcb EXCEPT ![id].state = "BLOCKED"]
    /\ UNCHANGED <<krnl_tasks, krnl_current_task, krnl_schedule, queues, up, halted,
                   cpu, context, pending>>

hf_resume(id) ==
    /\ CanCall("hf_resume")
    /\ Target(id)
    /\ krnl_tcb[id].state = "BLOCKED"
    /\ krnl_tcb' = [krnl_tcb EXCEPT ![id].state = "READY"]
    /\ UNCHANGED <<krnl_tasks, krnl_current_task, krnl_schedule, queues, up, halted,
                   cpu, context, pending>>

(* The checks of hf_priorityset(). *)
hf_priorityset(id, priority) ==
    /\ CanCall("hf_priorityset")
    /\ Live(id)
    /\ krnl_tcb[id].period = 0
    /\ id = 0 => "idle_priority" \in Liberties
    /\ pending' = [pending EXCEPT ![krnl_current_task] =
                      [id |-> id, priority |-> priority, field |-> "priority"]]
    /\ UNCHANGED <<krnl_tcb, krnl_tasks, krnl_current_task, krnl_schedule, queues, up,
                   halted, cpu, context>>

(* One of its two assignments, by the task that made the call and through  *)
(* the pointer it checked, whatever has become of the other task meanwhile.*)
AssignPriority ==
    LET call == pending[krnl_current_task]
    IN  /\ halted = NotHalted
        /\ \/ /\ call.field = "priority"
              /\ krnl_tcb' = [krnl_tcb EXCEPT ![call.id].priority = call.priority]
              /\ pending' = [pending EXCEPT ![krnl_current_task].field = "priority_rem"]
           \/ /\ call.field = "priority_rem"
              /\ krnl_tcb' = [krnl_tcb EXCEPT ![call.id].priority_rem = call.priority]
              /\ pending' = [pending EXCEPT ![krnl_current_task] = NoCall]
        /\ UNCHANGED <<krnl_tasks, krnl_current_task, krnl_schedule, queues, up, halted,
                       cpu, context>>

(* sys/kernel/processor.c *)
hf_schedlock(lock) ==
    /\ CanCall("hf_schedlock")
    /\ up
    /\ krnl_schedule' = ~lock
    /\ UNCHANGED <<krnl_tcb, krnl_tasks, krnl_current_task, queues, up, halted, cpu,
                   context, pending>>

(* eth_isr() of the network drivers marks the network task as critical. *)
eth_isr ==
    /\ "eth_isr" \in Calls
    /\ halted = NotHalted
    /\ up
    /\ Live(NetTask)
    /\ krnl_tcb' = [krnl_tcb EXCEPT ![NetTask].critical = TRUE]
    /\ UNCHANGED <<krnl_tasks, krnl_current_task, krnl_schedule, queues, up, halted,
                   cpu, context, pending>>

-----------------------------------------------------------------------------
(* sys/kernel/scheduler.c: the schedulers, as functions of the control     *)
(* blocks and of the queue they are given.                                 *)

(* Mutation: blocked tasks are scheduled. *)
RunnableAlways(tcb, t) == TRUE

Runnable(tcb, t) == tcb[t].state # "BLOCKED"

(* sched_priorityrr() first rotates the run queue by one, then scans it.   *)
Scan(q) == Rotate(q, 1)

CriticalPlaces(tcb, q) ==
    {j \in 1..Len(q) : tcb[Scan(q)[j]].critical /\ Runnable(tcb, Scan(q)[j])}

(* A remaining priority of 255 is never below the initial "highestp". *)
CandidatePlaces(tcb, q) ==
    {j \in 1..Len(q) : /\ Runnable(tcb, Scan(q)[j])
                       /\ tcb[Scan(q)[j]].priority_rem < 255}

(* Mutation: the first candidate is taken, whatever its remaining priority. *)
BePlaceFirst(tcb, q) ==
    CHOOSE j \in CandidatePlaces(tcb, q) : \A k \in CandidatePlaces(tcb, q) : j <= k

(* The first critical place, else the first of the lowest remaining priority. *)
BePlace(tcb, q) ==
    LET crit == CriticalPlaces(tcb, q)
        cand == CandidatePlaces(tcb, q)
        rem(j) == tcb[Scan(q)[j]].priority_rem
    IN  IF crit # {}
        THEN CHOOSE j \in crit : \A k \in crit : j <= k
        ELSE CHOOSE j \in cand : \A k \in cand :
                rem(j) < rem(k) \/ (rem(j) = rem(k) /\ j <= k)

BeTask(tcb, q) == Scan(q)[BePlace(tcb, q)]

(* A critical task ends the scan where it stands; otherwise the two scans  *)
(* are two full turns.                                                     *)
BeQueue(tcb, q) ==
    IF CriticalPlaces(tcb, q) # {} THEN Rotate(Scan(q), BePlace(tcb, q)) ELSE Scan(q)

(* The second scan charges the remaining priority of the chosen task to    *)
(* all others, blocked ones included, in eight bits.                       *)
BeTcb(tcb, q) ==
    LET chosen == BeTask(tcb, q)
    IN  IF CriticalPlaces(tcb, q) # {}
        THEN [tcb EXCEPT ![chosen].critical = FALSE]
        ELSE [t \in Slots |->
                IF t = chosen THEN [tcb[t] EXCEPT !.priority_rem = tcb[t].priority]
                ELSE IF t \in Range(q)
                THEN [tcb[t] EXCEPT !.priority_rem =
                                        uint8(@ - tcb[chosen].priority_rem)]
                ELSE tcb[t]]

(* An empty queue is a panic; with nothing to choose the scan ends with a  *)
(* NULL task, which the second scan dereferences.                          *)
BeFault(tcb, q) ==
    IF Len(q) = 0 THEN "PANIC_NO_TASKS_RUN"
    ELSE IF CriticalPlaces(tcb, q) = {} /\ CandidatePlaces(tcb, q) = {} THEN "NULL_TASK"
    ELSE NotHalted

(* Mutation: a task runs past its capacity. *)
RtReadyNoCapacity(tcb, t) == Runnable(tcb, t)

(* sched_rma(): the first task of the sorted queue that is not blocked and *)
(* has capacity left, 0 if there is none.                                  *)
RtReady(tcb, t) == Runnable(tcb, t) /\ tcb[t].capacity_rem > 0

(* Mutation: the scan does not stop at the first ready task. *)
RtTaskLast(tcb, q) ==
    LET ready == {i \in 1..Len(q) : RtReady(tcb, q[i])}
    IN  IF ready = {} THEN 0 ELSE q[CHOOSE i \in ready : \A j \in ready : i >= j]

RtTask(tcb, q) ==
    LET ready == {i \in 1..Len(q) : RtReady(tcb, q[i])}
    IN  IF ready = {} THEN 0 ELSE q[CHOOSE i \in ready : \A j \in ready : i <= j]

(* Mutation: the window is compared before it is decremented. *)
RtChargeCompareFirst(e, chosen) ==
    LET rem == IF chosen THEN e.capacity_rem - 1 ELSE e.capacity_rem
    IN  IF e.deadline_rem = 0
        THEN [e EXCEPT !.deadline_rem = e.period, !.capacity_rem = e.capacity]
        ELSE [e EXCEPT !.deadline_rem = @ - 1, !.capacity_rem = rem]

(* One turn of its loop for one task: the chosen one is charged a unit of  *)
(* capacity, and at the end of its window a task gets a new one.           *)
RtCharge(e, chosen) ==
    LET rem == IF chosen THEN e.capacity_rem - 1 ELSE e.capacity_rem
        left == uint16(e.deadline_rem - 1)
        missed == rem > 0 /\ e.deadline_misses < MaxMisses
    IN  IF left = 0
        THEN [e EXCEPT !.deadline_rem = e.period, !.capacity_rem = e.capacity,
                       !.deadline_misses = IF missed THEN @ + 1 ELSE @]
        ELSE [e EXCEPT !.deadline_rem = left, !.capacity_rem = rem]

RtTcb(tcb, q) ==
    LET chosen == RtTask(tcb, q)
    IN  [t \in Slots |-> IF t \in Range(q) THEN RtCharge(tcb[t], t = chosen)
                                           ELSE tcb[t]]

-----------------------------------------------------------------------------
(* The dispatcher. *)

(* Mutation: the state of the preempted task is left as it is. *)
PreemptedStays == krnl_tcb

(* The task on the processor goes back to READY if it was still RUNNING. *)
Preempted ==
    [krnl_tcb EXCEPT ![krnl_current_task].state =
                        IF @ = "RUNNING" THEN "READY" ELSE @]

(* process_delay_queue() *)
Expired == {t \in Range(krnl_delay_queue) : krnl_tcb[t].delay - 1 = 0}

(* Mutation: delays are not counted down. *)
NotCounted(tcb) == tcb

Counted(tcb) ==
    [t \in Slots |-> IF t \in Range(krnl_delay_queue)
                     THEN [tcb[t] EXCEPT !.delay = @ - 1] ELSE tcb[t]]

StillDelayed == Keep(krnl_delay_queue, Slots \ Expired)

(* Mutation: every expired task goes to the run queue. *)
AwakenBestEffort(q, realtime) ==
    IF realtime THEN q ELSE q \o Keep(krnl_delay_queue, Expired)

Awaken(q, realtime) ==
    q \o Keep(krnl_delay_queue, {t \in Expired : (krnl_tcb[t].period # 0) = realtime})

(* _context_save() of the thread on the processor, _context_restore() of   *)
(* what the control block of the chosen task holds.                        *)
SwitchTo(tcb, t) ==
    /\ krnl_current_task' = tcb[t].id
    /\ krnl_tcb' = [tcb EXCEPT ![t].state = "RUNNING"]
    /\ context' = [context EXCEPT ![krnl_current_task] = cpu]
    /\ cpu' = IF t = krnl_current_task THEN cpu ELSE context[t]
    /\ UNCHANGED <<krnl_tasks, krnl_schedule, up, halted, pending>>

(* The test of the stack's magic word reads freed memory when the task on  *)
(* the processor was killed: it may find anything.                         *)
StackOverflow == ~Live(krnl_current_task) /\ Halt("PANIC_STACK_OVERFLOW")

(* Best effort dispatch from control blocks tcb and run queue q. *)
DispatchBe(tcb, q) ==
    /\ krnl_run_queue' = BeQueue(tcb, q)
    /\ \E task \in {BeTask(tcb, q)}, charged \in {BeTcb(tcb, q)} : SwitchTo(charged, task)

hf_yield ==
    /\ CanCall("hf_yield")
    /\ up
    /\ krnl_schedule \/ "yield_locked" \in Liberties
    /\ \/ StackOverflow
       \/ IF krnl_tasks = 0
          THEN Halt("PANIC_NO_TASKS_LEFT")
          ELSE IF BeFault(Preempted, krnl_run_queue) # NotHalted
          THEN Halt(BeFault(Preempted, krnl_run_queue))
          ELSE /\ DispatchBe(Preempted, krnl_run_queue)
               /\ UNCHANGED <<krnl_rt_queue, krnl_delay_queue>>

(* The timer interrupt; with the scheduler locked it returns at once.  The *)
(* bound names are the control blocks and queues after each of its parts.  *)
dispatch_isr ==
    /\ halted = NotHalted
    /\ up
    /\ krnl_schedule
    /\ \/ StackOverflow
       \/ \E run \in {Awaken(krnl_run_queue, FALSE)},
             rt \in {ExchangeSort(Awaken(krnl_rt_queue, TRUE),
                                  [t \in Slots |-> krnl_tcb[t].period])},
             counted \in {Counted(Preempted)} :
          \E charged \in {RtTcb(counted, rt)} :
             IF krnl_tasks = 0
             THEN Halt("PANIC_NO_TASKS_LEFT")
             ELSE IF Len(run) > MAX_TASKS
             THEN Halt("PANIC_CANT_PLACE_RUN")
             ELSE IF Len(rt) > MAX_TASKS
             THEN Halt("PANIC_CANT_PLACE_RT")
             ELSE IF RtTask(counted, rt) = 0 /\ BeFault(charged, run) # NotHalted
             THEN Halt(BeFault(charged, run))
             ELSE /\ krnl_delay_queue' = StillDelayed
                  /\ krnl_rt_queue' = rt
                  /\ IF RtTask(counted, rt) # 0
                     THEN /\ krnl_run_queue' = run
                          /\ SwitchTo(charged, RtTask(counted, rt))
                     ELSE DispatchBe(charged, run)

Call ==
    \/ \E p \in RTParams, mem \in BOOLEAN : hf_spawn(p[1], p[2], p[3], mem)
    \/ \E id \in Slots : hf_kill(id)
    \/ \E id \in Slots, delay \in Delays : hf_delay(id, delay)
    \/ \E id \in Slots : hf_block(id)
    \/ \E id \in Slots : hf_resume(id)
    \/ \E id \in Slots, priority \in Priorities : hf_priorityset(id, priority)
    \/ AssignPriority
    \/ \E lock \in BOOLEAN : hf_schedlock(lock)
    \/ hf_yield

Next ==
    \/ idletask
    \/ Call
    \/ eth_isr
    \/ dispatch_isr

Spec == Init /\ [][Next]_vars

-----------------------------------------------------------------------------
TypeOK ==
    /\ krnl_tcb \in [Slots -> Tcb]
    /\ krnl_tasks \in 0..MAX_TASKS
    /\ krnl_current_task \in Slots
    /\ krnl_schedule \in BOOLEAN
    /\ krnl_run_queue \in Seq(Slots)
    /\ krnl_rt_queue \in Seq(Slots)
    /\ krnl_delay_queue \in Seq(Slots)
    /\ up \in BOOLEAN
    /\ halted \in Causes \cup {NotHalted}
    /\ cpu \in {"own", "dead"}
    /\ context \in [Slots -> {"clear", "own", "dead"}]
    /\ pending \in [Slots -> Pending]

(* Every live task is in exactly one queue, once: best effort tasks in the *)
(* run queue or delayed, real-time tasks in the RT queue or delayed; no    *)
(* queue holds a free control block.  The queues are rebuilt by rotations, *)
(* swaps and moves on every tick, so a task lost or doubled by one of them *)
(* would never run again, or be charged twice.                             *)
QueuePartition ==
    /\ \A q \in {krnl_run_queue, krnl_rt_queue, krnl_delay_queue} : IsInjective(q)
    /\ Range(krnl_run_queue) \cap Range(krnl_delay_queue) = {}
    /\ Range(krnl_rt_queue) \cap Range(krnl_delay_queue) = {}
    /\ \A t \in Range(krnl_run_queue) : krnl_tcb[t].period = 0
    /\ \A t \in Range(krnl_rt_queue) : krnl_tcb[t].period # 0
    /\ {t \in Slots : Live(t)} =
          Range(krnl_run_queue) \cup Range(krnl_rt_queue) \cup Range(krnl_delay_queue)

(* krnl_tasks, kept by hf_spawn() and hf_kill(), counts the live tasks. *)
TaskCount == krnl_tasks = Cardinality({t \in Slots : Live(t)})

(* "only one task/core can be in this state": a RUNNING task is the one on *)
(* the processor, whatever calls were made on it since it was dispatched.  *)
RunningIsCurrent ==
    \A t \in Slots : krnl_tcb[t].state = "RUNNING" => t = krnl_current_task

(* A queued delay is at least one tick: the dispatcher decrements before   *)
(* it compares, so a zero would be 2^32 ticks.                             *)
DelaysPending == \A t \in Range(krnl_delay_queue) : krnl_tcb[t].delay >= 1

(* The window of a real-time task never stands at zero: sched_rma()        *)
(* decrements before it compares, so a zero would be 65536 ticks without a *)
(* deadline.  A task never has more capacity left than it asked for.       *)
WindowOpen ==
    \A t \in Range(krnl_rt_queue) :
        krnl_tcb[t].deadline_rem >= 1 /\ krnl_tcb[t].capacity_rem <= krnl_tcb[t].capacity

(* Between them the careful clients never bring the system down: no panic, *)
(* no NULL task chosen by the scheduler.                                   *)
NeverHalts == halted = NotHalted

(* The registers saved in a live task's control block, or on the processor *)
(* while it is current, are those of the thread hf_spawn() created for it. *)
OwnContext ==
    \A t \in Slots :
        Live(t) => /\ context[t] = "own"
                   /\ t = krnl_current_task => cpu = "own"

-----------------------------------------------------------------------------
(* A step of the dispatcher that puts a task on the processor. *)
Dispatch == halted' = NotHalted /\ (dispatch_isr \/ hf_yield)

(* A task put on the processor is live, was not blocked and is not in the  *)
(* delay queue, although neither scheduler looks at the delay queue or at  *)
(* any state but BLOCKED.                                                  *)
DispatchesRunnable ==
    [][Dispatch => /\ krnl_tcb'[krnl_current_task'].ptask
                   /\ krnl_tcb[krnl_current_task'].state # "BLOCKED"
                   /\ krnl_current_task' \notin Range(krnl_delay_queue')]_vars

(* Best effort scheduling never takes a runnable task further from the     *)
(* processor: the eight-bit remaining priority of a task that was not      *)
(* chosen does not grow, so the subtraction did not wrap.                  *)
RemainingNeverGrows ==
    [][Dispatch => \A t \in Range(krnl_run_queue) :
            t # krnl_current_task' /\ krnl_tcb[t].state # "BLOCKED"
              => krnl_tcb'[t].priority_rem <= krnl_tcb[t].priority_rem]_vars

(* A tick with a ready real-time task puts on the processor one with the   *)
(* shortest period among the ready ones, tasks just awakened included.     *)
ShortestPeriodFirst ==
    [][dispatch_isr /\ halted' = NotHalted =>
            \A t \in Range(krnl_rt_queue') : RtReady(krnl_tcb, t)
              => /\ krnl_current_task' \in Range(krnl_rt_queue')
                 /\ krnl_tcb'[krnl_current_task'].period <= krnl_tcb'[t].period]_vars

-----------------------------------------------------------------------------
(* The timer keeps interrupting, and main() does start the idle task. *)
Fairness == WF_vars(idletask) /\ WF_vars(dispatch_isr)

FairSpec == Spec /\ Fairness

CanRun(t) == t \in Range(krnl_run_queue) /\ Runnable(krnl_tcb, t)

(* No starvation: a best effort task that stays runnable gets the          *)
(* processor, whatever the others of its priority, delays and a real-time  *)
(* task that leaves it time do.                                            *)
NoStarvation ==
    \A t \in Slots : CanRun(t) ~> (~CanRun(t) \/ krnl_current_task = t)

(* A delayed task eventually leaves the delay queue. *)
DelayEnds ==
    \A t \in Slots : t \in Range(krnl_delay_queue) ~> t \notin Range(krnl_delay_queue)

-----------------------------------------------------------------------------
(* What the documentation says and the code does not do. *)

(* hf_kill() and hf_delay() document ERR_OK "on success or ERR_INVALID_ID  *)
(* if the referenced task does not exist": a call on an existing task      *)
(* returns, it does not bring the system down.                             *)
CallsOnTasksReturn ==
    halted \notin {"PANIC_NO_TASKS_RUN", "PANIC_NO_TASKS_RT"}

(* hf_schedlock(): "a value of 1 disables task scheduling": while it is    *)
(* locked no other task is put on the processor.                           *)
LockDisablesScheduling ==
    [][up /\ ~krnl_schedule => krnl_current_task' = krnl_current_task]_vars

(* hf_spawn(): the deadline is the time "to complete the work in the       *)
(* period": no window of a real-time task is longer.                       *)
WindowsWithinDeadline ==
    \A t \in Range(krnl_rt_queue) : krnl_tcb[t].deadline_rem <= krnl_tcb[t].deadline
=============================================================================
