---------------------------- MODULE KernelProof ----------------------------
(***************************************************************************)
(* The invariants of module Kernel, for every number of tasks, every set   *)
(* of calls and every discipline of the clients.                           *)
(***************************************************************************)
EXTENDS Kernel, QueueOpsProof, FiniteSetTheorems

(* The ranges of the unsigned types, with a bound that is a variable: the  *)
(* numbers themselves are needed nowhere else.                             *)
LEMMA Width8 ==
    \E K \in Nat : UInt8 = 0..K /\ \A n \in Int : uint8(n) = n % (K + 1)
<1> DEFINE K == 255
<1>1. K \in Nat
  BY SMT
<1>2. UInt8 = 0..K
  BY SMT DEF UInt8
<1>3. 256 = K + 1
  BY SMT
<1> HIDE DEF K
<1>4. \A n \in Int : uint8(n) = n % (K + 1)
  BY <1>3 DEF uint8
<1> QED
  BY <1>1, <1>2, <1>4, SMT

LEMMA Width16 ==
    \E K \in Nat : UInt16 = 0..K /\ \A n \in Int : uint16(n) = n % (K + 1)
<1> DEFINE K == 65535
<1>1. K \in Nat
  BY SMT
<1>2. UInt16 = 0..K
  BY SMT DEF UInt16
<1>3. 65536 = K + 1
  BY SMT
<1> HIDE DEF K
<1>4. \A n \in Int : uint16(n) = n % (K + 1)
  BY <1>3 DEF uint16
<1> QED
  BY <1>1, <1>2, <1>4, SMT

LEMMA UnsignedNat ==
    /\ \A n \in UInt8 : n \in Nat
    /\ \A n \in UInt16 : n \in Nat
<1>1. PICK K \in Nat : UInt8 = 0..K
  BY Width8
<1>2. PICK L \in Nat : UInt16 = 0..L
  BY Width16
<1> QED
  BY <1>1, <1>2, SMT

LEMMA UnsignedZero == 0 \in UInt8 /\ 0 \in UInt16
<1>1. PICK K \in Nat : UInt8 = 0..K
  BY Width8
<1>2. PICK L \in Nat : UInt16 = 0..L
  BY Width16
<1> QED
  BY <1>1, <1>2, SMT

LEMMA MaxTasksNat == MAX_TASKS \in Nat /\ MAX_TASKS >= 1
<1>1. MAX_TASKS \in UInt16 /\ MAX_TASKS # 0
  BY MaxTasksAssumption
<1> QED
  BY <1>1, UnsignedNat, SMT

LEMMA ZeroSlot == 0 \in Slots
BY MaxTasksNat, SMT DEF Slots

(* A live control block knows its own place, and has been given a context. *)
KnowsItsPlace ==
    \A t \in Slots : Live(t) => krnl_tcb[t].id = t /\ context[t] # "clear"

(* The idle task is never killed and stays best effort. *)
IdleLives == Live(0) /\ krnl_tcb[0].period = 0

(* The inductive invariant. *)
IInv ==
    /\ TypeOK
    /\ QueuePartition
    /\ TaskCount
    /\ RunningIsCurrent
    /\ DelaysPending
    /\ KnowsItsPlace
    /\ IdleLives

(* What the queues mean, as a relation of the control blocks and the queues. *)
Placed(tcb, run, rt, dl) ==
    /\ IsQueue(run, Slots) /\ IsQueue(rt, Slots) /\ IsQueue(dl, Slots)
    /\ Range(run) \cap Range(dl) = {}
    /\ Range(rt) \cap Range(dl) = {}
    /\ \A t \in Range(run) : tcb[t].period = 0
    /\ \A t \in Range(rt) : tcb[t].period # 0
    /\ {t \in Slots : tcb[t].ptask} = Range(run) \cup Range(rt) \cup Range(dl)

(* What a dispatch promises of the task it put on the processor. *)
Chosen ==
    /\ krnl_tcb'[krnl_current_task'].ptask
    /\ krnl_tcb[krnl_current_task'].state # "BLOCKED"
    /\ krnl_current_task' \notin Range(krnl_delay_queue')

(* A control block that stands for the same task, with the same delay. *)
SameTask(new, old) ==
    /\ new.id = old.id
    /\ new.ptask = old.ptask
    /\ new.period = old.period
    /\ new.delay = old.delay

LEMMA PlacedHolds ==
    ASSUME IInv
    PROVE  Placed(krnl_tcb, krnl_run_queue, krnl_rt_queue, krnl_delay_queue)
BY DEF IInv, TypeOK, QueuePartition, Placed, IsQueue, Live

(* The queues are right after a step that leaves every task what it was. *)
LEMMA PlacedSame ==
    ASSUME NEW old, NEW new, NEW run, NEW rt, NEW dl, Placed(old, run, rt, dl),
           \A t \in Slots : new[t].ptask = old[t].ptask /\ new[t].period = old[t].period
    PROVE  Placed(new, run, rt, dl)
<1>1. Range(run) \subseteq Slots /\ Range(rt) \subseteq Slots
  BY QueuePlaces DEF Placed
<1>2. {t \in Slots : new[t].ptask} = {t \in Slots : old[t].ptask}
  OBVIOUS
<1>3. QED
  BY <1>1, <1>2 DEF Placed

(* A step that leaves the tasks, their places and contexts alone. *)
LEMMA TcbOnly ==
    ASSUME IInv, krnl_tcb' \in [Slots -> Tcb],
           \A t \in Slots : SameTask(krnl_tcb'[t], krnl_tcb[t]),
           \A t \in Slots : krnl_tcb'[t].state = "RUNNING" => krnl_tcb[t].state = "RUNNING",
           UNCHANGED <<krnl_tasks, krnl_current_task, queues, context, cpu>>,
           pending' \in [Slots -> Pending],
           krnl_schedule' \in BOOLEAN, up' \in BOOLEAN, halted' \in Causes \cup {NotHalted}
    PROVE  IInv'
<1>1. Placed(krnl_tcb', krnl_run_queue', krnl_rt_queue', krnl_delay_queue')
  <2>1. \A t \in Slots : /\ krnl_tcb'[t].ptask = krnl_tcb[t].ptask
                         /\ krnl_tcb'[t].period = krnl_tcb[t].period
    BY DEF SameTask
  <2>2. QED
    BY <2>1, PlacedHolds, PlacedSame DEF queues
<1>2. QueuePartition'
  BY <1>1 DEF Placed, QueuePartition, IsQueue, Live
<1>3. TypeOK'
  BY <1>1 DEF IInv, TypeOK, queues, Placed, IsQueue
<1>4. TaskCount'
  <2>1. {t \in Slots : krnl_tcb'[t].ptask} = {t \in Slots : krnl_tcb[t].ptask}
    BY DEF SameTask
  <2>2. QED
    BY <2>1 DEF IInv, TaskCount, Live
<1>5. RunningIsCurrent'
  BY DEF IInv, RunningIsCurrent
<1>6. DelaysPending'
  <2>1. Range(krnl_delay_queue) \subseteq Slots
    BY PlacedHolds, QueuePlaces DEF Placed
  <2>2. QED
    BY <2>1 DEF IInv, DelaysPending, SameTask, queues
<1>7. KnowsItsPlace' /\ IdleLives'
  BY ZeroSlot DEF IInv, KnowsItsPlace, IdleLives, SameTask, Live
<1>8. QED
  BY <1>2, <1>3, <1>4, <1>5, <1>6, <1>7 DEF IInv

LEMMA HaltKeeps ==
    ASSUME IInv, NEW cause \in Causes, Halt(cause)
    PROVE  IInv' /\ halted' # NotHalted
<1>1. /\ krnl_tcb' = krnl_tcb /\ krnl_schedule' = krnl_schedule /\ up' = up
      /\ UNCHANGED <<krnl_tasks, krnl_current_task, queues, context, cpu>> /\ pending' = pending
      /\ halted' \in Causes \cup {NotHalted}
  BY DEF Halt
<1>2. /\ pending \in [Slots -> Pending]
      /\ krnl_tcb \in [Slots -> Tcb] /\ krnl_schedule \in BOOLEAN /\ up \in BOOLEAN
  BY DEF IInv, TypeOK
<1>3. IInv'
  BY <1>1, <1>2, TcbOnly DEF SameTask
<1>4. halted' # NotHalted
  BY DEF Halt, Causes, NotHalted
<1>5. QED
  BY <1>3, <1>4

LEMMA idletaskKeeps ==
    ASSUME IInv, idletask
    PROVE  IInv'
<1>1. /\ krnl_tcb' = krnl_tcb /\ krnl_schedule' \in BOOLEAN /\ up' \in BOOLEAN
      /\ UNCHANGED <<krnl_tasks, krnl_current_task, queues, context, cpu>> /\ pending' = pending
      /\ halted' = halted
  BY DEF idletask
<1>2. /\ pending \in [Slots -> Pending]
      /\ krnl_tcb \in [Slots -> Tcb] /\ halted \in Causes \cup {NotHalted}
  BY DEF IInv, TypeOK
<1>3. QED
  BY <1>1, <1>2, TcbOnly DEF SameTask

LEMMA hf_schedlockKeeps ==
    ASSUME IInv, NEW lock \in BOOLEAN, hf_schedlock(lock)
    PROVE  IInv'
<1>1. /\ krnl_tcb' = krnl_tcb /\ krnl_schedule' \in BOOLEAN /\ up' = up
      /\ UNCHANGED <<krnl_tasks, krnl_current_task, queues, context, cpu>> /\ pending' = pending
      /\ halted' = halted
  BY DEF hf_schedlock
<1>2. /\ pending \in [Slots -> Pending]
      /\ krnl_tcb \in [Slots -> Tcb] /\ up \in BOOLEAN /\ halted \in Causes \cup {NotHalted}
  BY DEF IInv, TypeOK
<1>3. QED
  BY <1>1, <1>2, TcbOnly DEF SameTask

LEMMA hf_blockKeeps ==
    ASSUME IInv, NEW id \in Slots, hf_block(id) \/ hf_resume(id)
    PROVE  IInv'
<1>1. /\ \E st \in {"BLOCKED", "READY"} : krnl_tcb' = [krnl_tcb EXCEPT ![id].state = st]
      /\ UNCHANGED <<krnl_tasks, krnl_current_task, queues, context, cpu>> /\ pending' = pending
      /\ krnl_schedule' = krnl_schedule /\ up' = up /\ halted' = halted
  BY DEF hf_block, hf_resume
<1>2. /\ pending \in [Slots -> Pending]
      /\ krnl_tcb \in [Slots -> Tcb] /\ krnl_schedule \in BOOLEAN /\ up \in BOOLEAN
      /\ halted \in Causes \cup {NotHalted}
  BY DEF IInv, TypeOK
<1>3. /\ krnl_tcb' \in [Slots -> Tcb]
      /\ \A t \in Slots : SameTask(krnl_tcb'[t], krnl_tcb[t])
      /\ \A t \in Slots : krnl_tcb'[t].state = "RUNNING" => krnl_tcb[t].state = "RUNNING"
  BY <1>1, <1>2 DEF Tcb, States, SameTask
<1>4. QED
  BY <1>1, <1>2, <1>3, TcbOnly

(* No call is under way in a control block that starts anew. *)
LEMMA NoCallPending == NoCall \in Pending
<1>1. 0 \in UInt8
  BY UnsignedZero
<1>2. QED
  BY <1>1, ZeroSlot DEF NoCall, Pending

LEMMA hf_prioritysetKeeps ==
    ASSUME IInv, NEW id \in Slots, NEW priority \in Priorities, hf_priorityset(id, priority)
    PROVE  IInv'
<1> DEFINE c == [id |-> id, priority |-> priority, field |-> "priority"]
<1>1. /\ krnl_tcb' = krnl_tcb
      /\ pending' = [pending EXCEPT ![krnl_current_task] = c]
      /\ UNCHANGED <<krnl_tasks, krnl_current_task, queues, context, cpu>>
      /\ krnl_schedule' = krnl_schedule /\ up' = up /\ halted' = halted
  BY DEF hf_priorityset
<1>2. /\ pending \in [Slots -> Pending] /\ krnl_current_task \in Slots
      /\ krnl_tcb \in [Slots -> Tcb] /\ krnl_schedule \in BOOLEAN /\ up \in BOOLEAN
      /\ halted \in Causes \cup {NotHalted}
  BY DEF IInv, TypeOK
<1>3. pending' \in [Slots -> Pending]
  <2>1. priority \in UInt8
    BY PrioritiesAssumption
  <2>2. c \in Pending
    BY <2>1 DEF Pending
  <2> HIDE DEF c
  <2>3. QED
    BY <1>1, <1>2, <2>2
<1>4. QED
  BY <1>1, <1>2, <1>3, TcbOnly DEF SameTask

(* A control block with another priority stands for the same task. *)
LEMMA AssignPriorityKeeps ==
    ASSUME IInv, AssignPriority
    PROVE  IInv'
<1> DEFINE me == krnl_current_task
           call == pending[me]
           i == call.id
           next == [call EXCEPT !.field = "priority_rem"]
           first == [krnl_tcb[i] EXCEPT !.priority = call.priority]
           second == [krnl_tcb[i] EXCEPT !.priority_rem = call.priority]
<1>1. /\ \/ /\ krnl_tcb' = [krnl_tcb EXCEPT ![i] = first]
            /\ pending' = [pending EXCEPT ![me] = next]
         \/ /\ krnl_tcb' = [krnl_tcb EXCEPT ![i] = second]
            /\ pending' = [pending EXCEPT ![me] = NoCall]
      /\ UNCHANGED <<krnl_tasks, krnl_current_task, queues, context, cpu>>
      /\ krnl_schedule' = krnl_schedule /\ up' = up /\ halted' = halted
  BY DEF AssignPriority
<1>2. /\ pending \in [Slots -> Pending] /\ me \in Slots
      /\ krnl_tcb \in [Slots -> Tcb] /\ krnl_schedule \in BOOLEAN /\ up \in BOOLEAN
      /\ halted \in Causes \cup {NotHalted}
  BY DEF IInv, TypeOK
<1>3. i \in Slots /\ call.priority \in UInt8 /\ next \in Pending
  BY <1>2 DEF Pending
<1>4. /\ first \in Tcb /\ SameTask(first, krnl_tcb[i]) /\ first.state = krnl_tcb[i].state
      /\ second \in Tcb /\ SameTask(second, krnl_tcb[i]) /\ second.state = krnl_tcb[i].state
  BY <1>2, <1>3 DEF Tcb, SameTask
<1> HIDE DEF me, i, next, first, second
<1>5. pending' \in [Slots -> Pending]
  BY <1>1, <1>2, <1>3, NoCallPending
<1>6. /\ krnl_tcb' \in [Slots -> Tcb]
      /\ krnl_tcb'[i] \in {first, second}
      /\ \A t \in Slots : t # i => krnl_tcb'[t] = krnl_tcb[t]
  BY <1>1, <1>2, <1>3, <1>4
<1>7. /\ \A t \in Slots : SameTask(krnl_tcb'[t], krnl_tcb[t])
      /\ \A t \in Slots : krnl_tcb'[t].state = "RUNNING" => krnl_tcb[t].state = "RUNNING"
  BY <1>4, <1>6 DEF SameTask
<1>8. QED
  BY <1>1, <1>2, <1>5, <1>6, <1>7, TcbOnly

LEMMA eth_isrKeeps ==
    ASSUME IInv, eth_isr
    PROVE  IInv'
<1>1. /\ krnl_tcb' = [krnl_tcb EXCEPT ![NetTask].critical = TRUE]
      /\ UNCHANGED <<krnl_tasks, krnl_current_task, queues, context, cpu>> /\ pending' = pending
      /\ krnl_schedule' = krnl_schedule /\ up' = up /\ halted' = halted
  BY DEF eth_isr
<1>2. /\ pending \in [Slots -> Pending]
      /\ krnl_tcb \in [Slots -> Tcb] /\ krnl_schedule \in BOOLEAN /\ up \in BOOLEAN
      /\ halted \in Causes \cup {NotHalted}
  BY DEF IInv, TypeOK
<1>3. /\ krnl_tcb' \in [Slots -> Tcb]
      /\ \A t \in Slots : SameTask(krnl_tcb'[t], krnl_tcb[t])
      /\ \A t \in Slots : krnl_tcb'[t].state = "RUNNING" => krnl_tcb[t].state = "RUNNING"
  <2> DEFINE e == [krnl_tcb[NetTask] EXCEPT !.critical = TRUE]
  <2>1. NetTask \in Slots
    BY NetTaskAssumption
  <2>2. e \in Tcb /\ SameTask(e, krnl_tcb[NetTask]) /\ e.state = krnl_tcb[NetTask].state
    BY <1>2, <2>1 DEF Tcb, SameTask
  <2>3. krnl_tcb' = [krnl_tcb EXCEPT ![NetTask] = e]
    BY <1>1
  <2> HIDE DEF e
  <2>4. krnl_tcb'[NetTask] = e /\ \A t \in Slots : t # NetTask => krnl_tcb'[t] = krnl_tcb[t]
    BY <1>2, <2>1, <2>3
  <2>5. QED
    BY <1>2, <2>1, <2>2, <2>3, <2>4 DEF SameTask
<1>4. QED
  BY <1>1, <1>2, <1>3, TcbOnly

-----------------------------------------------------------------------------
(* Start-up. *)

LEMMA SlotsFinite ==
    /\ 0 \in Slots
    /\ IsFiniteSet(Slots) /\ Cardinality(Slots) = MAX_TASKS
    /\ \A S \in SUBSET Slots : IsFiniteSet(S) /\ Cardinality(S) \in 0..MAX_TASKS
<1>1. 0 \in Slots
  BY ZeroSlot
<1>2. IsFiniteSet(Slots) /\ Cardinality(Slots) = MAX_TASKS
  <2>1. 0 \in Int /\ MAX_TASKS - 1 \in Int /\ ~(0 > MAX_TASKS - 1) /\ (MAX_TASKS - 1) - 0 + 1 = MAX_TASKS
    BY MaxTasksNat
  <2>2. QED
    BY <2>1, FS_Interval DEF Slots
<1>3. ASSUME NEW S \in SUBSET Slots PROVE IsFiniteSet(S) /\ Cardinality(S) \in 0..MAX_TASKS
  <2>1. IsFiniteSet(S) /\ Cardinality(S) <= MAX_TASKS
    BY <1>2, FS_Subset
  <2>2. Cardinality(S) \in Nat
    BY <2>1, FS_CardinalityType
  <2>3. QED
    BY <2>1, <2>2, MaxTasksNat
<1>4. QED
  BY <1>1, <1>2, <1>3

(* What hf_spawn() leaves in a control block. *)
SpawnedAs(e, i, period, capacity, deadline, mem) ==
    [SpawnedTcb(e, i, period, capacity, deadline) EXCEPT !.ptask = mem]

(* hf_spawn() fills in a valid control block for its place. *)
LEMMA SpawnedTcbIs ==
    ASSUME NEW e \in Tcb, NEW i \in Slots, NEW period \in UInt16,
           NEW capacity \in UInt16, NEW deadline \in UInt16, NEW mem \in BOOLEAN
    PROVE  /\ SpawnedAs(e, i, period, capacity, deadline, mem) \in Tcb
           /\ SpawnedAs(e, i, period, capacity, deadline, mem).id = i
           /\ SpawnedAs(e, i, period, capacity, deadline, mem).ptask = mem
           /\ SpawnedAs(e, i, period, capacity, deadline, mem).period = period
           /\ SpawnedAs(e, i, period, capacity, deadline, mem).state = "IDLE"
<1>1. SpawnPriority \in UInt8 /\ 0 \in 0..MaxMisses /\ 0 \in Nat /\ "IDLE" \in States
  BY PrioritiesAssumption, MaxMissesAssumption DEF States
<1>2. QED
  BY <1>1 DEF SpawnedAs, SpawnedTcb, Tcb

LEMMA InitHolds == Init => IInv
<1> SUFFICES ASSUME Init PROVE IInv
  OBVIOUS
<1> DEFINE r == SpawnedTcb(ClearTcb, 0, 0, 0, 0)
<1>1. /\ 0 \in UInt16 /\ 0 \in UInt8 /\ SpawnPriority \in UInt8 /\ 0 \in 0..MaxMisses
      /\ 0 \in Nat /\ "IDLE" \in States
  BY UnsignedZero, PrioritiesAssumption, MaxMissesAssumption DEF States
<1>2. ClearTcb \in Tcb /\ ClearTcb.ptask = FALSE /\ ClearTcb.state = "IDLE"
  BY <1>1 DEF ClearTcb, Tcb
<1>3. /\ r \in Tcb /\ r.id = 0 /\ r.ptask = TRUE /\ r.period = 0 /\ r.state = "IDLE"
  BY <1>1, <1>2, SlotsFinite DEF SpawnedTcb, Tcb
<1>4. /\ krnl_tcb \in [Slots -> Tcb] /\ krnl_tcb[0] = r
      /\ \A t \in Slots : t # 0 => krnl_tcb[t] = ClearTcb
  BY <1>2, <1>3, SlotsFinite DEF Init
<1> HIDE DEF r
<1>5. /\ krnl_run_queue = <<0>> /\ krnl_rt_queue = << >> /\ krnl_delay_queue = << >>
      /\ krnl_tasks = 1 /\ krnl_current_task = 0
  BY DEF Init
<1>6. /\ IsQueue(<<0>>, Slots) /\ Range(<<0>>) = {0}
      /\ IsQueue(<< >>, Slots) /\ Range(<< >>) = {}
  BY SlotsFinite DEF IsQueue, IsInjective, Range
<1>7. {t \in Slots : Live(t)} = {0}
  BY <1>2, <1>3, <1>4, SlotsFinite DEF Live
<1>8. TypeOK
  <2>1. 1 \in 0..MAX_TASKS
    BY MaxTasksNat
  <2>2. QED
    BY <1>4, <1>5, <1>6, <2>1, SlotsFinite, NoCallPending DEF Init, TypeOK, IsQueue, NotHalted
<1>9. QueuePartition
  BY <1>3, <1>4, <1>5, <1>6, <1>7 DEF QueuePartition, IsQueue
<1>10. TaskCount
  BY <1>5, <1>7, FS_Singleton DEF TaskCount
<1>11. RunningIsCurrent /\ DelaysPending
  BY <1>2, <1>3, <1>4, <1>5, <1>6 DEF RunningIsCurrent, DelaysPending
<1>12. KnowsItsPlace /\ IdleLives
  BY <1>2, <1>3, <1>4, SlotsFinite DEF Init, KnowsItsPlace, IdleLives, Live
<1>13. QED
  BY <1>8, <1>9, <1>10, <1>11, <1>12 DEF IInv

-----------------------------------------------------------------------------
(* The calls that move tasks. *)

(* The invariant after a step, put together from its parts. *)
LEMMA Assembled ==
    ASSUME krnl_tcb' \in [Slots -> Tcb],
           Placed(krnl_tcb', krnl_run_queue', krnl_rt_queue', krnl_delay_queue'),
           krnl_tasks' = Cardinality({t \in Slots : krnl_tcb'[t].ptask}),
           krnl_current_task' \in Slots, krnl_schedule' \in BOOLEAN,
           up' \in BOOLEAN, halted' \in Causes \cup {NotHalted}, cpu' \in {"own", "dead"},
           context' \in [Slots -> {"clear", "own", "dead"}],
           pending' \in [Slots -> Pending],
           RunningIsCurrent', DelaysPending', KnowsItsPlace', IdleLives'
    PROVE  IInv'
<1>1. QueuePartition'
  BY DEF Placed, QueuePartition, IsQueue, Live
<1>2. TaskCount'
  BY DEF TaskCount, Live
<1>3. krnl_tasks' \in 0..MAX_TASKS
  <2>1. {t \in Slots : krnl_tcb'[t].ptask} \in SUBSET Slots
    OBVIOUS
  <2>2. QED
    BY <2>1, SlotsFinite
<1>4. TypeOK'
  BY <1>3 DEF TypeOK, Placed, IsQueue
<1>5. QED
  BY <1>1, <1>2, <1>4 DEF IInv

(* The first free control block is free, is not the idle task's and is in  *)
(* no queue.                                                               *)
LEMMA FirstFreeIsFree ==
    ASSUME IInv, FreeSlots # {}
    PROVE  /\ FirstFree \in Slots /\ ~Live(FirstFree) /\ FirstFree # 0
           /\ FirstFree \notin Range(krnl_run_queue)
           /\ FirstFree \notin Range(krnl_rt_queue)
           /\ FirstFree \notin Range(krnl_delay_queue)
<1>1. FreeSlots \in SUBSET Nat
  BY MaxTasksNat DEF FreeSlots, Slots
<1>2. FirstFree \in FreeSlots
  BY <1>1, NatMin DEF FirstFree
<1>3. FirstFree \in Slots /\ ~Live(FirstFree)
  BY <1>2 DEF FreeSlots
<1>4. FirstFree # 0
  BY <1>3 DEF IInv, IdleLives
<1>5. QED
  BY <1>3, <1>4 DEF IInv, QueuePartition

LEMMA hf_spawnKeeps ==
    ASSUME IInv, NEW p \in RTParams, NEW mem \in BOOLEAN, hf_spawn(p[1], p[2], p[3], mem)
    PROVE  IInv'
<1> DEFINE i == FirstFree
           period == p[1]
           r == SpawnedAs(krnl_tcb[i], i, p[1], p[2], p[3], mem)
           place == IF period # 0 THEN krnl_rt_queue ELSE krnl_run_queue
<1>1. CASE mem /\ Len(place) >= MAX_TASKS
  <2>1. Halt("PANIC_CANT_PLACE_RT") \/ Halt("PANIC_CANT_PLACE_RUN")
    BY <1>1 DEF hf_spawn
  <2>2. "PANIC_CANT_PLACE_RT" \in Causes /\ "PANIC_CANT_PLACE_RUN" \in Causes
    BY DEF Causes
  <2>3. QED
    BY <2>1, <2>2, HaltKeeps, Zenon
<1>2. CASE ~(mem /\ Len(place) >= MAX_TASKS)
  <2>1. /\ i \in Slots /\ ~Live(i) /\ i # 0
        /\ i \notin Range(krnl_run_queue) /\ i \notin Range(krnl_rt_queue)
        /\ i \notin Range(krnl_delay_queue)
    BY FirstFreeIsFree DEF hf_spawn
  <2>2. /\ krnl_tcb' = [krnl_tcb EXCEPT ![i] = r]
        /\ context' = [context EXCEPT ![i] = "own"]
        /\ pending' = [pending EXCEPT ![i] = NoCall]
        /\ krnl_tasks' = IF mem THEN krnl_tasks + 1 ELSE krnl_tasks
        /\ krnl_rt_queue' = IF mem /\ period # 0 THEN Append(krnl_rt_queue, i)
                            ELSE krnl_rt_queue
        /\ krnl_run_queue' = IF mem /\ period = 0 THEN Append(krnl_run_queue, i)
                             ELSE krnl_run_queue
        /\ UNCHANGED <<krnl_current_task, krnl_schedule, krnl_delay_queue, up, halted, cpu>>
    BY <1>2 DEF hf_spawn, TasksAfterSpawn, SpawnedAs
  <2>3. r \in Tcb /\ r.id = i /\ r.ptask = mem /\ r.period = period /\ r.state = "IDLE"
    <3>1. p[1] \in UInt16 /\ p[2] \in UInt16 /\ p[3] \in UInt16
      BY RTParamsAssumption
    <3>2. krnl_tcb[i] \in Tcb
      BY <2>1 DEF IInv, TypeOK
    <3>3. QED
      BY <2>1, <3>1, <3>2, SpawnedTcbIs
  <2> HIDE DEF i, r, period
  <2>4. /\ krnl_tcb \in [Slots -> Tcb] /\ krnl_tcb' \in [Slots -> Tcb] /\ krnl_tcb'[i] = r
        /\ \A t \in Slots : t # i => krnl_tcb'[t] = krnl_tcb[t]
    BY <2>1, <2>2, <2>3 DEF IInv, TypeOK
  <2> DEFINE old == {t \in Slots : krnl_tcb[t].ptask}
             new == {t \in Slots : krnl_tcb'[t].ptask}
  <2>5. new = IF mem THEN old \cup {i} ELSE old
    BY <2>1, <2>3, <2>4 DEF Live
  <2>6. krnl_tasks' = Cardinality(new)
    <3>1. old \in SUBSET Slots /\ i \notin old
      BY <2>1 DEF Live
    <3>2. krnl_tasks = Cardinality(old)
      BY DEF IInv, TaskCount, Live
    <3>3. Cardinality(old \cup {i}) = Cardinality(old) + 1
      BY <3>1, SlotsFinite, FS_AddElement
    <3> HIDE DEF old, new
    <3>4. QED
      BY <2>2, <2>5, <3>2, <3>3
  <2>7. Placed(krnl_tcb, krnl_run_queue, krnl_rt_queue, krnl_delay_queue)
    BY PlacedHolds
  <2>8. /\ IsQueue(krnl_run_queue', Slots)
        /\ Range(krnl_run_queue') = Range(krnl_run_queue)
                                      \cup (IF mem /\ period = 0 THEN {i} ELSE {})
    BY <2>1, <2>2, <2>7, AppendAdds DEF Placed
  <2>9. /\ IsQueue(krnl_rt_queue', Slots)
        /\ Range(krnl_rt_queue') = Range(krnl_rt_queue)
                                     \cup (IF mem /\ period # 0 THEN {i} ELSE {})
    BY <2>1, <2>2, <2>7, AppendAdds DEF Placed
  <2>10. Placed(krnl_tcb', krnl_run_queue', krnl_rt_queue', krnl_delay_queue')
    <3>1. /\ Range(krnl_run_queue) \subseteq Slots /\ Range(krnl_rt_queue) \subseteq Slots
          /\ krnl_delay_queue' = krnl_delay_queue
      BY <2>2, <2>7, QueuePlaces DEF Placed
    <3>2. \A t \in Range(krnl_run_queue') : krnl_tcb'[t].period = 0
      BY <2>1, <2>3, <2>4, <2>7, <2>8, <3>1 DEF Placed
    <3>3. \A t \in Range(krnl_rt_queue') : krnl_tcb'[t].period # 0
      BY <2>1, <2>3, <2>4, <2>7, <2>9, <3>1 DEF Placed
    <3>4. new = Range(krnl_run_queue') \cup Range(krnl_rt_queue') \cup Range(krnl_delay_queue')
      <4>1. old = Range(krnl_run_queue) \cup Range(krnl_rt_queue) \cup Range(krnl_delay_queue)
        BY <2>7 DEF Placed
      <4> HIDE DEF old, new
      <4>2. QED
        BY <2>5, <2>8, <2>9, <3>1, <4>1
    <3>5. QED
      BY <2>1, <2>7, <2>8, <2>9, <3>1, <3>2, <3>3, <3>4 DEF Placed
  <2>11. RunningIsCurrent'
    BY <2>2, <2>3, <2>4 DEF IInv, RunningIsCurrent
  <2>12. DelaysPending'
    <3>1. Range(krnl_delay_queue) \subseteq Slots
      BY <2>7, QueuePlaces DEF Placed
    <3>2. QED
      BY <2>1, <2>2, <2>4, <3>1 DEF IInv, DelaysPending
  <2>13. context' \in [Slots -> {"clear", "own", "dead"}] /\ KnowsItsPlace'
    BY <2>1, <2>2, <2>3, <2>4 DEF IInv, TypeOK, KnowsItsPlace, Live
  <2>14. IdleLives'
    BY <2>1, <2>4, SlotsFinite DEF IInv, IdleLives, Live
  <2>15. /\ krnl_current_task' \in Slots /\ krnl_schedule' \in BOOLEAN
         /\ up' \in BOOLEAN /\ halted' \in Causes \cup {NotHalted} /\ cpu' \in {"own", "dead"}
    BY <2>2 DEF IInv, TypeOK
  <2>16. pending' \in [Slots -> Pending]
    BY <2>1, <2>2, NoCallPending DEF IInv, TypeOK
  <2>17. QED
    BY <2>4, <2>6, <2>10, <2>11, <2>12, <2>13, <2>14, <2>15, <2>16, Assembled
<1>3. QED
  BY <1>1, <1>2

LEMMA NotFoundKeeps ==
    ASSUME IInv, NEW id \in Slots, Halt(NotFound(id))
    PROVE  IInv'
<1>1. NotFound(id) = "PANIC_NO_TASKS_RT" \/ NotFound(id) = "PANIC_NO_TASKS_RUN"
  BY DEF NotFound
<1>2. NotFound(id) \in Causes
  BY <1>1 DEF Causes
<1>3. QED
  BY <1>2, HaltKeeps

(* hf_kill() and hf_delay() take the task out of the one queue it is in. *)
LEMMA TakenOut ==
    ASSUME IInv, NEW id \in Slots, id \in Range(RunQueueOf(id)), TakeFromRunQueue(id)
    PROVE  /\ IsQueue(krnl_run_queue', Slots) /\ IsQueue(krnl_rt_queue', Slots)
           /\ Range(krnl_run_queue') = Range(krnl_run_queue) \ {id}
           /\ Range(krnl_rt_queue') = Range(krnl_rt_queue) \ {id}
           /\ id \notin Range(krnl_delay_queue)
<1>1. Placed(krnl_tcb, krnl_run_queue, krnl_rt_queue, krnl_delay_queue)
  BY PlacedHolds
<1>2. CASE krnl_tcb[id].period # 0
  <2>1. /\ id \in Range(krnl_rt_queue) /\ krnl_run_queue' = krnl_run_queue
        /\ krnl_rt_queue' = Without(krnl_rt_queue, id)
    BY <1>2 DEF RunQueueOf, TakeFromRunQueue
  <2>2. id \notin Range(krnl_run_queue)
    BY <1>1, <1>2 DEF Placed
  <2>3. QED
    BY <1>1, <2>1, <2>2, WithoutRemoves DEF Placed
<1>3. CASE krnl_tcb[id].period = 0
  <2>1. /\ id \in Range(krnl_run_queue) /\ krnl_rt_queue' = krnl_rt_queue
        /\ krnl_run_queue' = Without(krnl_run_queue, id)
    BY <1>3 DEF RunQueueOf, TakeFromRunQueue
  <2>2. id \notin Range(krnl_rt_queue)
    BY <1>1, <1>3 DEF Placed
  <2>3. QED
    BY <1>1, <2>1, <2>2, WithoutRemoves DEF Placed
<1>4. QED
  BY <1>2, <1>3

LEMMA hf_killKeeps ==
    ASSUME IInv, NEW id \in Slots, hf_kill(id)
    PROVE  IInv'
<1> DEFINE r == [krnl_tcb[id] EXCEPT !.id = NoId, !.ptask = FALSE, !.state = "IDLE"]
<1>1. CASE id \notin Range(RunQueueOf(id))
  BY <1>1, NotFoundKeeps DEF hf_kill
<1>2. CASE id \in Range(RunQueueOf(id))
  <2>1. /\ id # 0 /\ Live(id) /\ TakeFromRunQueue(id)
        /\ krnl_tcb' = [krnl_tcb EXCEPT ![id].id = NoId, ![id].ptask = FALSE,
                                         ![id].state = "IDLE"]
        /\ krnl_tasks' = krnl_tasks - 1
        /\ cpu' = IF id = krnl_current_task THEN "dead" ELSE cpu
        /\ pending' = [pending EXCEPT ![id] = NoCall]
        /\ UNCHANGED <<krnl_current_task, krnl_schedule, krnl_delay_queue, up, halted, context>>
    BY <1>2 DEF hf_kill, Target
  <2>2. krnl_tcb \in [Slots -> Tcb]
    BY DEF IInv, TypeOK
  <2>3. r \in Tcb /\ r.ptask = FALSE /\ r.state = "IDLE"
    <3>1. NoId \in Slots \cup {NoId} /\ "IDLE" \in States /\ krnl_tcb[id] \in Tcb
      BY <2>2 DEF States
    <3>2. QED
      BY <3>1 DEF Tcb
  <2>4. krnl_tcb' = [krnl_tcb EXCEPT ![id] = r]
    BY <2>1, <2>2 DEF Tcb
  <2> HIDE DEF r
  <2>5. /\ krnl_tcb' \in [Slots -> Tcb] /\ krnl_tcb'[id] = r
        /\ \A t \in Slots : t # id => krnl_tcb'[t] = krnl_tcb[t]
    BY <2>2, <2>3, <2>4
  <2> DEFINE old == {t \in Slots : krnl_tcb[t].ptask}
             new == {t \in Slots : krnl_tcb'[t].ptask}
  <2>6. new = old \ {id}
    BY <2>3, <2>5
  <2>7. krnl_tasks' = Cardinality(new)
    <3>1. old \in SUBSET Slots /\ id \in old
      BY <2>1 DEF Live
    <3>2. krnl_tasks = Cardinality(old)
      BY DEF IInv, TaskCount, Live
    <3>3. Cardinality(old \ {id}) = Cardinality(old) - 1
      BY <3>1, SlotsFinite, FS_RemoveElement
    <3> HIDE DEF old, new
    <3>4. QED
      BY <2>1, <2>6, <3>2, <3>3
  <2>8. Placed(krnl_tcb, krnl_run_queue, krnl_rt_queue, krnl_delay_queue)
    BY PlacedHolds
  <2>9. /\ IsQueue(krnl_run_queue', Slots) /\ IsQueue(krnl_rt_queue', Slots)
        /\ Range(krnl_run_queue') = Range(krnl_run_queue) \ {id}
        /\ Range(krnl_rt_queue') = Range(krnl_rt_queue) \ {id}
        /\ id \notin Range(krnl_delay_queue)
    BY <1>2, <2>1, TakenOut
  <2>10. Placed(krnl_tcb', krnl_run_queue', krnl_rt_queue', krnl_delay_queue')
    <3>1. /\ Range(krnl_run_queue) \subseteq Slots /\ Range(krnl_rt_queue) \subseteq Slots
          /\ krnl_delay_queue' = krnl_delay_queue
      BY <2>1, <2>8, QueuePlaces DEF Placed
    <3>2. \A t \in Range(krnl_run_queue') : krnl_tcb'[t].period = 0
      BY <2>5, <2>8, <2>9, <3>1 DEF Placed
    <3>3. \A t \in Range(krnl_rt_queue') : krnl_tcb'[t].period # 0
      BY <2>5, <2>8, <2>9, <3>1 DEF Placed
    <3>4. new = Range(krnl_run_queue') \cup Range(krnl_rt_queue') \cup Range(krnl_delay_queue')
      <4>1. old = Range(krnl_run_queue) \cup Range(krnl_rt_queue) \cup Range(krnl_delay_queue)
        BY <2>8 DEF Placed
      <4> HIDE DEF old, new
      <4>2. QED
        BY <2>6, <2>9, <3>1, <4>1
    <3>5. QED
      BY <2>8, <2>9, <3>1, <3>2, <3>3, <3>4 DEF Placed
  <2>11. RunningIsCurrent'
    BY <2>1, <2>3, <2>5 DEF IInv, RunningIsCurrent
  <2>12. DelaysPending'
    <3>1. Range(krnl_delay_queue) \subseteq Slots
      BY <2>8, QueuePlaces DEF Placed
    <3>2. QED
      BY <2>1, <2>5, <2>9, <3>1 DEF IInv, DelaysPending
  <2>13. context' \in [Slots -> {"clear", "own", "dead"}] /\ KnowsItsPlace'
    BY <2>1, <2>3, <2>5 DEF IInv, TypeOK, KnowsItsPlace, Live
  <2>14. IdleLives'
    BY <2>1, <2>5, ZeroSlot DEF IInv, IdleLives, Live
  <2>15. /\ krnl_current_task' \in Slots /\ krnl_schedule' \in BOOLEAN /\ up' \in BOOLEAN
         /\ halted' \in Causes \cup {NotHalted} /\ cpu' \in {"own", "dead"}
    BY <2>1 DEF IInv, TypeOK
  <2>16. pending' \in [Slots -> Pending]
    BY <2>1, NoCallPending DEF IInv, TypeOK
  <2>17. QED
    BY <2>5, <2>7, <2>10, <2>11, <2>12, <2>13, <2>14, <2>15, <2>16, Assembled
<1>3. QED
  BY <1>1, <1>2

LEMMA hf_delayKeeps ==
    ASSUME IInv, NEW id \in Slots, NEW delay \in Delays, hf_delay(id, delay)
    PROVE  IInv'
<1> DEFINE r == [krnl_tcb[id] EXCEPT !.state = "DELAYED", !.delay = delay]
<1>1. CASE id \notin Range(RunQueueOf(id))
  BY <1>1, NotFoundKeeps DEF hf_delay
<1>2. CASE id \in Range(RunQueueOf(id)) /\ Len(krnl_delay_queue) >= MAX_TASKS
  <2>1. "PANIC_CANT_PLACE_DELAY" \in Causes
    BY DEF Causes
  <2>2. Halt("PANIC_CANT_PLACE_DELAY")
    BY <1>2 DEF hf_delay
  <2>3. QED
    BY <2>1, <2>2, HaltKeeps
<1>3. CASE id \in Range(RunQueueOf(id)) /\ ~(Len(krnl_delay_queue) >= MAX_TASKS)
  <2>1. /\ delay # 0 /\ Live(id) /\ TakeFromRunQueue(id)
        /\ krnl_tcb' = [krnl_tcb EXCEPT ![id].state = "DELAYED", ![id].delay = delay]
        /\ krnl_delay_queue' = Append(krnl_delay_queue, id)
        /\ UNCHANGED <<krnl_tasks, krnl_current_task, krnl_schedule, up, halted, cpu, context,
                       pending>>
    BY <1>3 DEF hf_delay, Target, ValidDelay
  <2>2. krnl_tcb \in [Slots -> Tcb]
    BY DEF IInv, TypeOK
  <2>3. /\ r \in Tcb /\ r.ptask = krnl_tcb[id].ptask /\ r.period = krnl_tcb[id].period
        /\ r.id = krnl_tcb[id].id /\ r.state = "DELAYED" /\ r.delay >= 1
    <3>1. "DELAYED" \in States /\ krnl_tcb[id] \in Tcb
      BY <2>2 DEF States
    <3>2. delay \in Nat /\ delay >= 1
      BY <2>1, DelaysAssumption
    <3>3. QED
      BY <3>1, <3>2 DEF Tcb
  <2>4. krnl_tcb' = [krnl_tcb EXCEPT ![id] = r]
    BY <2>1, <2>2 DEF Tcb
  <2> HIDE DEF r
  <2>5. /\ krnl_tcb' \in [Slots -> Tcb] /\ krnl_tcb'[id] = r
        /\ \A t \in Slots : t # id => krnl_tcb'[t] = krnl_tcb[t]
    BY <2>2, <2>3, <2>4
  <2> DEFINE old == {t \in Slots : krnl_tcb[t].ptask}
             new == {t \in Slots : krnl_tcb'[t].ptask}
  <2>6. new = old
    BY <2>3, <2>5
  <2>7. krnl_tasks' = Cardinality(new)
    BY <2>1, <2>6 DEF IInv, TaskCount, Live
  <2>8. Placed(krnl_tcb, krnl_run_queue, krnl_rt_queue, krnl_delay_queue)
    BY PlacedHolds
  <2>9. /\ IsQueue(krnl_run_queue', Slots) /\ IsQueue(krnl_rt_queue', Slots)
        /\ Range(krnl_run_queue') = Range(krnl_run_queue) \ {id}
        /\ Range(krnl_rt_queue') = Range(krnl_rt_queue) \ {id}
        /\ id \notin Range(krnl_delay_queue)
    BY <1>3, <2>1, TakenOut
  <2>10. /\ IsQueue(krnl_delay_queue', Slots)
         /\ Range(krnl_delay_queue') = Range(krnl_delay_queue) \cup {id}
    BY <2>1, <2>8, <2>9, AppendAdds DEF Placed
  <2>11. Placed(krnl_tcb', krnl_run_queue', krnl_rt_queue', krnl_delay_queue')
    <3>1. Range(krnl_run_queue) \subseteq Slots /\ Range(krnl_rt_queue) \subseteq Slots
      BY <2>8, QueuePlaces DEF Placed
    <3>2. \A t \in Range(krnl_run_queue') : krnl_tcb'[t].period = 0
      BY <2>5, <2>8, <2>9, <3>1 DEF Placed
    <3>3. \A t \in Range(krnl_rt_queue') : krnl_tcb'[t].period # 0
      BY <2>5, <2>8, <2>9, <3>1 DEF Placed
    <3>4. new = Range(krnl_run_queue') \cup Range(krnl_rt_queue') \cup Range(krnl_delay_queue')
      <4>1. /\ old = Range(krnl_run_queue) \cup Range(krnl_rt_queue) \cup Range(krnl_delay_queue)
            /\ id \in old
        BY <2>1, <2>8 DEF Placed, Live
      <4> HIDE DEF old, new
      <4>2. QED
        BY <2>6, <2>9, <2>10, <4>1
    <3>5. QED
      BY <2>8, <2>9, <2>10, <3>2, <3>3, <3>4 DEF Placed
  <2>12. RunningIsCurrent'
    BY <2>1, <2>3, <2>5 DEF IInv, RunningIsCurrent
  <2>13. DelaysPending'
    <3>1. Range(krnl_delay_queue) \subseteq Slots
      BY <2>8, QueuePlaces DEF Placed
    <3>2. QED
      BY <2>3, <2>5, <2>10, <3>1 DEF IInv, DelaysPending
  <2>14. context' \in [Slots -> {"clear", "own", "dead"}] /\ KnowsItsPlace'
    BY <2>1, <2>3, <2>5 DEF IInv, TypeOK, KnowsItsPlace, Live
  <2>15. IdleLives'
    BY <2>3, <2>5, ZeroSlot DEF IInv, IdleLives, Live
  <2>16. /\ krnl_current_task' \in Slots /\ krnl_schedule' \in BOOLEAN /\ up' \in BOOLEAN
         /\ halted' \in Causes \cup {NotHalted} /\ cpu' \in {"own", "dead"}
         /\ pending' \in [Slots -> Pending]
    BY <2>1 DEF IInv, TypeOK
  <2>17. QED
    BY <2>5, <2>7, <2>11, <2>12, <2>13, <2>14, <2>15, <2>16, Assembled
<1>4. QED
  BY <1>1, <1>2, <1>3

-----------------------------------------------------------------------------
(* The dispatcher. *)

LEMMA Remainder == ASSUME NEW K \in Nat, NEW n \in Int PROVE n % (K + 1) \in 0..K
BY SMT

LEMMA Wraps ==
    /\ \A n \in Int : uint8(n) \in UInt8
    /\ \A n \in Int : uint16(n) \in UInt16
<1>1. PICK K \in Nat : UInt8 = 0..K /\ \A n \in Int : uint8(n) = n % (K + 1)
  BY Width8
<1>2. PICK L \in Nat : UInt16 = 0..L /\ \A n \in Int : uint16(n) = n % (L + 1)
  BY Width16
<1>3. \A n \in Int : n % (K + 1) \in 0..K /\ n % (L + 1) \in 0..L
  BY Remainder, Zenon
<1> QED
  BY <1>1, <1>2, <1>3, Zenon

(* Unsigned values as integers. *)
LEMMA Unsigned ==
    /\ \A m, n \in UInt8 : m - n \in Int
    /\ \A n \in UInt16 : n - 1 \in Int /\ (n > 0 => n - 1 \in UInt16)
<1>1. ASSUME NEW m \in UInt8, NEW n \in UInt8 PROVE m - n \in Int
  BY UnsignedNat, SMT
<1>2. ASSUME NEW n \in UInt16 PROVE n - 1 \in Int /\ (n > 0 => n - 1 \in UInt16)
  <2>1. PICK K \in Nat : UInt16 = 0..K
    BY Width16
  <2> QED
    BY <2>1, SMT
<1>3. QED
  BY <1>1, <1>2, Zenon

(* Control blocks charged for a tick: the same tasks in the same states. *)
Charged(new, old) ==
    /\ new \in [Slots -> Tcb]
    /\ \A t \in Slots : SameTask(new[t], old[t]) /\ new[t].state = old[t].state

(* sched_rma() chooses a task of its queue that has capacity left. *)
LEMMA RtTaskIs ==
    ASSUME NEW tcb, NEW q, IsQueue(q, Slots), RtTask(tcb, q) # 0
    PROVE  RtTask(tcb, q) \in Range(q) /\ RtReady(tcb, RtTask(tcb, q))
<1> DEFINE ready == {i \in 1..Len(q) : RtReady(tcb, q[i])}
           m == CHOOSE i \in ready : \A j \in ready : i <= j
<1>1. ready # {} /\ RtTask(tcb, q) = q[m]
  BY DEF RtTask
<1>2. ready \in SUBSET Nat
  OBVIOUS
<1>3. m \in ready
  BY <1>1, <1>2, NatMin
<1>4. m \in 1..Len(q) /\ RtReady(tcb, q[m])
  BY <1>3
<1> HIDE DEF m
<1>5. q[m] \in Range(q)
  BY <1>4, QueuePlaces
<1>6. QED
  BY <1>1, <1>4, <1>5

LEMMA RtChargeIs ==
    ASSUME NEW e \in Tcb, NEW chosen \in BOOLEAN, chosen => e.capacity_rem > 0
    PROVE  /\ RtCharge(e, chosen) \in Tcb
           /\ SameTask(RtCharge(e, chosen), e)
           /\ RtCharge(e, chosen).state = e.state
<1> DEFINE rem == IF chosen THEN e.capacity_rem - 1 ELSE e.capacity_rem
           left == uint16(e.deadline_rem - 1)
           missed == rem > 0 /\ e.deadline_misses < MaxMisses
           misses == IF missed THEN e.deadline_misses + 1 ELSE e.deadline_misses
<1>1. /\ e.capacity_rem \in UInt16 /\ e.deadline_rem \in UInt16 /\ e.period \in UInt16
      /\ e.capacity \in UInt16 /\ e.deadline_misses \in 0..MaxMisses
  BY DEF Tcb
<1>2. rem \in UInt16
  BY <1>1, Unsigned
<1>3. left \in UInt16
  <2>1. e.deadline_rem - 1 \in Int
    BY <1>1, Unsigned
  <2>2. QED
    BY <2>1, Wraps
<1>4. misses \in 0..MaxMisses
  BY <1>1, MaxMissesAssumption
<1>5. RtCharge(e, chosen) =
        IF left = 0
        THEN [e EXCEPT !.deadline_rem = e.period, !.capacity_rem = e.capacity,
                       !.deadline_misses = misses]
        ELSE [e EXCEPT !.deadline_rem = left, !.capacity_rem = rem]
  BY DEF RtCharge, Tcb
<1> HIDE DEF rem, left, misses
<1>6. QED
  BY <1>1, <1>2, <1>3, <1>4, <1>5 DEF Tcb, SameTask

(* sched_rma() charges capacity only to a task that has some left. *)
LEMMA RtTcbCharges ==
    ASSUME NEW tcb \in [Slots -> Tcb], NEW q, IsQueue(q, Slots), 0 \notin Range(q)
    PROVE  Charged(RtTcb(tcb, q), tcb)
<1> DEFINE chosen == RtTask(tcb, q)
           new == RtTcb(tcb, q)
<1>1. /\ new = [t \in Slots |-> IF t \in Range(q) THEN RtCharge(tcb[t], t = chosen)
                                ELSE tcb[t]]
  BY DEF RtTcb
<1> HIDE DEF new, chosen
<1>2. ASSUME NEW t \in Slots
      PROVE  new[t] \in Tcb /\ SameTask(new[t], tcb[t]) /\ new[t].state = tcb[t].state
  <2>1. CASE t \notin Range(q)
    BY <1>1, <2>1 DEF SameTask
  <2>2. CASE t \in Range(q)
    <3>1. new[t] = RtCharge(tcb[t], t = chosen)
      BY <1>1, <2>2
    <3>2. (t = chosen) => tcb[t].capacity_rem > 0
      BY <2>2, RtTaskIs DEF chosen, RtReady
    <3>3. tcb[t] \in Tcb /\ (t = chosen) \in BOOLEAN
      OBVIOUS
    <3>4. QED
      BY <3>1, <3>2, <3>3, RtChargeIs, Zenon
  <2>3. QED
    BY <2>1, <2>2
<1>3. new \in [Slots -> Tcb]
  BY <1>1, <1>2
<1>4. QED
  BY <1>2, <1>3 DEF Charged, new

(* sched_priorityrr() chooses a place of its queue. *)
LEMMA BePlaceIs ==
    ASSUME NEW tcb \in [Slots -> Tcb], NEW q, IsQueue(q, Slots), BeFault(tcb, q) = NotHalted
    PROVE  /\ BePlace(tcb, q) \in 1..Len(q)
           /\ BePlace(tcb, q) \in CriticalPlaces(tcb, q) \cup CandidatePlaces(tcb, q)
           /\ CriticalPlaces(tcb, q) = {} =>
                 /\ BePlace(tcb, q) \in CandidatePlaces(tcb, q)
                 /\ \A k \in CandidatePlaces(tcb, q) :
                       tcb[BeTask(tcb, q)].priority_rem <= tcb[Scan(q)[k]].priority_rem
<1> DEFINE crit == CriticalPlaces(tcb, q)
           cand == CandidatePlaces(tcb, q)
           rem(j) == tcb[Scan(q)[j]].priority_rem
<1>1. crit \in SUBSET (1..Len(q)) /\ cand \in SUBSET (1..Len(q))
  BY DEF CriticalPlaces, CandidatePlaces
<1>2. Len(q) \in Nat /\ Len(q) # 0 /\ (crit # {} \/ cand # {})
  BY QueuePlaces DEF BeFault, NotHalted
<1>3. CASE crit # {}
  <2>1. crit \in SUBSET Nat
    BY <1>1
  <2>2. \E j \in crit : \A k \in crit : j <= k
    BY <1>3, <2>1, NatMin
  <2>3. BePlace(tcb, q) \in crit
    BY <1>3, <2>2 DEF BePlace
  <2>4. QED
    BY <1>1, <1>3, <2>3
<1>4. CASE crit = {}
  <2>1. cand # {} /\ cand \in SUBSET Nat
    BY <1>1, <1>2, <1>4
  <2>2. \A j \in 1..Len(q) : rem(j) \in Nat
    <3>1. 1 \in 0..Len(q)
      BY <1>2
    <3>2. IsQueue(Scan(q), Slots) /\ Len(Scan(q)) = Len(q)
      BY <3>1, RotateKeeps DEF Scan
    <3>3. \A j \in 1..Len(q) : Scan(q)[j] \in Slots
      BY <3>2, QueuePlaces
    <3>4. \A t \in Slots : tcb[t].priority_rem \in UInt8
      BY DEF Tcb
    <3>5. QED
      BY <3>3, <3>4, UnsignedNat
  <2> HIDE DEF crit, cand, rem
  <2> DEFINE rems == {rem(j) : j \in cand}
  <2>3. PICK low \in rems : \A r \in rems : low <= r
    <3>1. rems \in SUBSET Nat /\ rems # {}
      BY <1>1, <2>1, <2>2
    <3> HIDE DEF rems
    <3>2. QED
      BY <3>1, NatMin
  <2> DEFINE lowest == {j \in cand : rem(j) = low}
  <2>4. PICK j \in lowest : \A k \in lowest : j <= k
    <3>1. lowest \in SUBSET Nat /\ lowest # {}
      BY <2>1, <2>3
    <3> HIDE DEF lowest
    <3>2. QED
      BY <3>1, NatMin
  <2>5. ASSUME NEW k \in cand
        PROVE  rem(j) < rem(k) \/ (rem(j) = rem(k) /\ j <= k)
    <3>1. rem(j) \in Nat /\ rem(k) \in Nat /\ rem(j) = low /\ low <= rem(k)
      BY <1>1, <2>2, <2>3, <2>4
    <3>2. CASE rem(k) = low
      BY <2>4, <3>1, <3>2
    <3>3. CASE rem(k) # low
      BY <3>1, <3>3
    <3>4. QED
      BY <3>2, <3>3
  <2>6. BePlace(tcb, q) = CHOOSE i \in cand : \A k \in cand :
                              rem(i) < rem(k) \/ (rem(i) = rem(k) /\ i <= k)
    BY <1>4 DEF BePlace, crit, cand, rem
  <2>7. \E i \in cand : \A k \in cand : rem(i) < rem(k) \/ (rem(i) = rem(k) /\ i <= k)
    BY <2>4, <2>5
  <2> DEFINE b == BePlace(tcb, q)
  <2>8. b \in cand /\ \A k \in cand : rem(b) < rem(k) \/ (rem(b) = rem(k) /\ b <= k)
    BY <2>6, <2>7
  <2> HIDE DEF b
  <2>9. \A k \in cand : rem(b) <= rem(k)
    <3> TAKE k \in cand
    <3>1. rem(b) \in Nat /\ rem(k) \in Nat
      BY <1>1, <2>2, <2>8
    <3>2. rem(b) < rem(k) \/ rem(b) = rem(k)
      BY <2>8
    <3> QED
      BY <3>1, <3>2
  <2>10. rem(b) = tcb[BeTask(tcb, q)].priority_rem
    BY DEF rem, b, BeTask
  <2>11. QED
    BY <1>1, <2>8, <2>9, <2>10 DEF cand, crit, rem, b
<1>5. QED
  BY <1>3, <1>4

(* Its scans keep the queue, and the task it chooses is of the queue. *)
LEMMA BeQueueKeeps ==
    ASSUME NEW tcb \in [Slots -> Tcb], NEW q, IsQueue(q, Slots), BeFault(tcb, q) = NotHalted
    PROVE  /\ BeTask(tcb, q) \in Range(q) /\ Runnable(tcb, BeTask(tcb, q))
           /\ IsQueue(BeQueue(tcb, q), Slots)
           /\ Range(BeQueue(tcb, q)) = Range(q)
<1>1. BePlace(tcb, q) \in 1..Len(q) /\ Len(q) \in Nat
  BY BePlaceIs, QueuePlaces
<1>2. 1 \in 0..Len(q) /\ BePlace(tcb, q) \in 0..Len(q)
  BY <1>1
<1>3. IsQueue(Scan(q), Slots) /\ Len(Scan(q)) = Len(q) /\ Range(Scan(q)) = Range(q)
  BY <1>2, RotateKeeps DEF Scan
<1>4. BeTask(tcb, q) \in Range(q)
  <2>1. Range(Scan(q)) = {Scan(q)[i] : i \in 1..Len(Scan(q))}
    BY <1>3, QueuePlaces
  <2>2. QED
    BY <1>1, <1>3, <2>1 DEF BeTask
<1>5. /\ IsQueue(Rotate(Scan(q), BePlace(tcb, q)), Slots)
      /\ Range(Rotate(Scan(q), BePlace(tcb, q))) = Range(Scan(q))
  BY <1>2, <1>3, RotateKeeps
<1>6. Runnable(tcb, BeTask(tcb, q))
  BY BePlaceIs DEF BeTask, CriticalPlaces, CandidatePlaces
<1>7. QED
  BY <1>3, <1>4, <1>5, <1>6 DEF BeQueue

LEMMA BeTcbCharges ==
    ASSUME NEW tcb \in [Slots -> Tcb], NEW q, IsQueue(q, Slots), BeFault(tcb, q) = NotHalted
    PROVE  Charged(BeTcb(tcb, q), tcb)
<1> DEFINE chosen == BeTask(tcb, q)
           new == BeTcb(tcb, q)
           charge(t) == uint8(tcb[t].priority_rem - tcb[chosen].priority_rem)
<1>1. chosen \in Slots
  BY BeQueueKeeps, QueuePlaces
<1>2. /\ \A t \in Slots : tcb[t] \in Tcb
      /\ \A t \in Slots : tcb[t].priority \in UInt8 /\ tcb[t].priority_rem \in UInt8
  BY DEF Tcb
<1>3. \A t \in Slots : charge(t) \in UInt8
  <2> TAKE t \in Slots
  <2>1. tcb[t].priority_rem - tcb[chosen].priority_rem \in Int
    BY <1>1, <1>2, Unsigned
  <2>2. QED
    BY <2>1, Wraps
<1>4. CASE CriticalPlaces(tcb, q) # {}
  <2> DEFINE e == [tcb[chosen] EXCEPT !.critical = FALSE]
  <2>1. e \in Tcb /\ SameTask(e, tcb[chosen]) /\ e.state = tcb[chosen].state
    BY <1>1, <1>2 DEF Tcb, SameTask
  <2>2. new = [tcb EXCEPT ![chosen] = e]
    BY <1>4 DEF BeTcb
  <2> HIDE DEF e, new, chosen
  <2>3. new[chosen] = e /\ \A t \in Slots : t # chosen => new[t] = tcb[t]
    BY <1>1, <2>2
  <2>4. QED
    BY <1>1, <1>2, <2>1, <2>2, <2>3 DEF Charged, SameTask, new
<1>5. CASE CriticalPlaces(tcb, q) = {}
  <2>1. new = [t \in Slots |->
                 IF t = chosen THEN [tcb[t] EXCEPT !.priority_rem = tcb[t].priority]
                 ELSE IF t \in Range(q) THEN [tcb[t] EXCEPT !.priority_rem = charge(t)]
                 ELSE tcb[t]]
    BY <1>5 DEF BeTcb
  <2>2. \A e \in Tcb, n \in UInt8 :
          /\ [e EXCEPT !.priority_rem = n] \in Tcb
          /\ SameTask([e EXCEPT !.priority_rem = n], e)
          /\ [e EXCEPT !.priority_rem = n].state = e.state
    BY DEF Tcb, SameTask
  <2> HIDE DEF new, chosen, charge
  <2>3. ASSUME NEW t \in Slots
        PROVE  new[t] \in Tcb /\ SameTask(new[t], tcb[t]) /\ new[t].state = tcb[t].state
    <3>1. CASE t = chosen
      <4>1. new[t] = [tcb[t] EXCEPT !.priority_rem = tcb[t].priority]
        BY <2>1, <3>1
      <4>2. QED
        BY <1>2, <2>2, <4>1
    <3>2. CASE t # chosen /\ t \in Range(q)
      <4>1. new[t] = [tcb[t] EXCEPT !.priority_rem = charge(t)]
        BY <2>1, <3>2
      <4>2. QED
        BY <1>2, <1>3, <2>2, <4>1
    <3>3. CASE t # chosen /\ t \notin Range(q)
      BY <1>2, <2>1, <3>3 DEF SameTask
    <3>4. QED
      BY <3>1, <3>2, <3>3
  <2>4. new \in [Slots -> Tcb]
    BY <2>1, <2>3
  <2>5. QED
    BY <2>3, <2>4 DEF Charged, new
<1>6. QED
  BY <1>4, <1>5

(* The control blocks while the dispatcher works: the same tasks, and no   *)
(* task on the processor.                                                  *)
Kept(tcb) ==
    /\ tcb \in [Slots -> Tcb]
    /\ \A t \in Slots : /\ tcb[t].id = krnl_tcb[t].id
                         /\ tcb[t].ptask = krnl_tcb[t].ptask
                         /\ tcb[t].period = krnl_tcb[t].period
                         /\ tcb[t].state # "RUNNING"

StaysBlocked(tcb) ==
    \A t \in Slots : ~Runnable(krnl_tcb, t) => ~Runnable(tcb, t)

LEMMA ChargedKept ==
    ASSUME NEW old, NEW new, Kept(old), Charged(new, old)
    PROVE  /\ Kept(new) /\ \A t \in Slots : new[t].delay = old[t].delay
           /\ StaysBlocked(old) => StaysBlocked(new)
<1>1. Kept(new) /\ \A t \in Slots : new[t].delay = old[t].delay
  BY DEF Kept, Charged, SameTask
<1>2. \A t \in Slots : Runnable(new, t) => Runnable(old, t)
  BY DEF Charged, Runnable
<1>3. QED
  BY <1>1, <1>2 DEF StaysBlocked

LEMMA PreemptedKept ==
    ASSUME IInv
    PROVE  /\ Kept(Preempted) /\ \A t \in Slots : Preempted[t].delay = krnl_tcb[t].delay
           /\ StaysBlocked(Preempted)
<1> DEFINE c == krnl_current_task
           st == IF krnl_tcb[c].state = "RUNNING" THEN "READY" ELSE krnl_tcb[c].state
           e == [krnl_tcb[c] EXCEPT !.state = st]
<1>1. krnl_tcb \in [Slots -> Tcb] /\ c \in Slots /\ krnl_tcb[c] \in Tcb
  BY DEF IInv, TypeOK
<1>2. /\ st \in States /\ st # "RUNNING"
      /\ krnl_tcb[c].state = "BLOCKED" => st = "BLOCKED"
  <2>1. krnl_tcb[c].state \in States
    BY <1>1 DEF Tcb
  <2>2. QED
    BY <2>1 DEF States
<1>3. Preempted = [krnl_tcb EXCEPT ![c] = e]
  BY <1>1 DEF Preempted, Tcb
<1> HIDE DEF st
<1>4. e \in Tcb /\ SameTask(e, krnl_tcb[c]) /\ e.state = st
  BY <1>1, <1>2 DEF Tcb, SameTask
<1> HIDE DEF e
<1>5. /\ Preempted \in [Slots -> Tcb] /\ Preempted[c] = e
      /\ \A t \in Slots : t # c => Preempted[t] = krnl_tcb[t]
  BY <1>1, <1>3, <1>4
<1>6. \A t \in Slots : t # c => krnl_tcb[t].state # "RUNNING"
  BY DEF IInv, RunningIsCurrent
<1>7. Kept(Preempted) /\ \A t \in Slots : Preempted[t].delay = krnl_tcb[t].delay
  BY <1>2, <1>4, <1>5, <1>6 DEF Kept, SameTask
<1>8. StaysBlocked(Preempted)
  BY <1>1, <1>2, <1>4, <1>5 DEF StaysBlocked, Runnable
<1>9. QED
  BY <1>7, <1>8

(* process_delay_queue() decrements no delay below zero. *)
LEMMA CountedKept ==
    ASSUME IInv
    PROVE  /\ Kept(Counted(Preempted)) /\ StaysBlocked(Counted(Preempted))
           /\ \A t \in Range(krnl_delay_queue) :
                 Counted(Preempted)[t].delay = krnl_tcb[t].delay - 1
<1> DEFINE old == Preempted
           new == Counted(Preempted)
           dl == Range(krnl_delay_queue)
<1>1. /\ Kept(old) /\ \A t \in Slots : old[t].delay = krnl_tcb[t].delay
      /\ StaysBlocked(old)
  BY PreemptedKept
<1>2. dl \subseteq Slots
  BY PlacedHolds, QueuePlaces DEF Placed
<1>3. \A t \in dl : old[t].delay - 1 \in Nat
  <2>1. \A t \in dl : krnl_tcb[t].delay >= 1
    BY DEF IInv, DelaysPending
  <2>2. \A t \in Slots : krnl_tcb[t].delay \in Nat
    BY DEF IInv, TypeOK, Tcb
  <2>3. QED
    BY <1>1, <1>2, <2>1, <2>2
<1>4. new = [t \in Slots |-> IF t \in dl THEN [old[t] EXCEPT !.delay = old[t].delay - 1]
                             ELSE old[t]]
  BY DEF Counted
<1> HIDE DEF old, new, dl
<1>5. \A e \in Tcb, n \in Nat :
        LET r == [e EXCEPT !.delay = n]
        IN  /\ r \in Tcb /\ r.delay = n /\ r.id = e.id /\ r.ptask = e.ptask
            /\ r.period = e.period /\ r.state = e.state
  BY DEF Tcb
<1>6. ASSUME NEW t \in Slots
      PROVE  /\ new[t] \in Tcb /\ new[t].id = old[t].id /\ new[t].ptask = old[t].ptask
             /\ new[t].period = old[t].period /\ new[t].state = old[t].state
             /\ t \in dl => new[t].delay = old[t].delay - 1
  <2>1. old[t] \in Tcb
    BY <1>1 DEF Kept
  <2>2. CASE t \in dl
    <3>1. new[t] = [old[t] EXCEPT !.delay = old[t].delay - 1]
      BY <1>4, <2>2
    <3>2. QED
      BY <1>3, <1>5, <2>1, <2>2, <3>1
  <2>3. CASE t \notin dl
    BY <1>4, <2>1, <2>3
  <2>4. QED
    BY <2>2, <2>3
<1>7. new \in [Slots -> Tcb]
  BY <1>4, <1>6
<1>8. Kept(new)
  BY <1>1, <1>6, <1>7 DEF Kept
<1>9. \A t \in dl : new[t].delay = krnl_tcb[t].delay - 1
  BY <1>1, <1>2, <1>6
<1>10. StaysBlocked(new)
  <2>1. \A t \in Slots : Runnable(new, t) => Runnable(old, t)
    BY <1>6 DEF Runnable
  <2>2. QED
    BY <1>1, <2>1 DEF StaysBlocked
<1>11. QED
  BY <1>8, <1>9, <1>10 DEF new, dl

(* The context switch, from control blocks and queues that are in order. *)
LEMMA SwitchKeeps ==
    ASSUME IInv, NEW tcb, Kept(tcb), StaysBlocked(tcb), NEW task \in Slots, Live(task),
           SwitchTo(tcb, task),
           Placed(tcb, krnl_run_queue', krnl_rt_queue', krnl_delay_queue'),
           \A t \in Range(krnl_delay_queue') : tcb[t].delay >= 1,
           Runnable(tcb, task), task \in Range(krnl_run_queue') \cup Range(krnl_rt_queue')
    PROVE  IInv' /\ Chosen
<1> DEFINE c == krnl_current_task
           e == [tcb[task] EXCEPT !.state = "RUNNING"]
<1>1. /\ krnl_current_task' = tcb[task].id
      /\ krnl_tcb' = [tcb EXCEPT ![task] = e]
      /\ context' = [context EXCEPT ![c] = cpu]
      /\ cpu' = IF task = c THEN cpu ELSE context[task]
      /\ UNCHANGED <<krnl_tasks, krnl_schedule, up, halted, pending>>
  BY DEF SwitchTo
<1>2. /\ c \in Slots /\ cpu \in {"own", "dead"} /\ krnl_schedule \in BOOLEAN /\ up \in BOOLEAN
      /\ halted \in Causes \cup {NotHalted}
      /\ context \in [Slots -> {"clear", "own", "dead"}]
      /\ pending \in [Slots -> Pending]
  BY DEF IInv, TypeOK
<1>3. tcb \in [Slots -> Tcb] /\ tcb[task] \in Tcb
  BY DEF Kept
<1>4. e \in Tcb /\ SameTask(e, tcb[task]) /\ e.state = "RUNNING"
  <2>1. "RUNNING" \in States
    BY DEF States
  <2>2. QED
    BY <1>3, <2>1 DEF Tcb, SameTask
<1> HIDE DEF e
<1>5. /\ krnl_tcb' \in [Slots -> Tcb] /\ krnl_tcb'[task] = e
      /\ \A t \in Slots : t # task => krnl_tcb'[t] = tcb[t]
  BY <1>1, <1>3, <1>4
<1>6. \A t \in Slots : SameTask(krnl_tcb'[t], tcb[t])
  BY <1>4, <1>5 DEF SameTask
<1>7. krnl_current_task' = task
  BY <1>1 DEF Kept, IInv, KnowsItsPlace
<1>8. Placed(krnl_tcb', krnl_run_queue', krnl_rt_queue', krnl_delay_queue')
  BY <1>6, PlacedSame DEF SameTask
<1>9. krnl_tasks' = Cardinality({t \in Slots : krnl_tcb'[t].ptask})
  <2>1. {t \in Slots : krnl_tcb'[t].ptask} = {t \in Slots : krnl_tcb[t].ptask}
    BY <1>6 DEF SameTask, Kept
  <2>2. QED
    BY <1>1, <2>1 DEF IInv, TaskCount, Live
<1>10. RunningIsCurrent'
  BY <1>5, <1>7 DEF RunningIsCurrent, Kept
<1>11. DelaysPending'
  <2>1. Range(krnl_delay_queue') \subseteq Slots
    BY QueuePlaces DEF Placed
  <2>2. QED
    BY <1>6, <2>1 DEF DelaysPending, SameTask
<1>12. /\ context' \in [Slots -> {"clear", "own", "dead"}]
       /\ \A t \in Slots : context'[t] = IF t = c THEN cpu ELSE context[t]
  BY <1>1, <1>2
<1>13. KnowsItsPlace'
  BY <1>2, <1>6, <1>12 DEF IInv, KnowsItsPlace, Live, SameTask, Kept
<1>14. IdleLives'
  BY <1>6, ZeroSlot DEF IInv, IdleLives, Live, SameTask, Kept
<1>15. cpu' \in {"own", "dead"}
  <2>1. context[task] # "clear" /\ context[task] \in {"clear", "own", "dead"}
    BY <1>2 DEF IInv, KnowsItsPlace
  <2>2. QED
    BY <1>1, <1>2, <2>1
<1>16. IInv'
  BY <1>1, <1>2, <1>5, <1>7, <1>8, <1>9, <1>10, <1>11, <1>12, <1>13, <1>14, <1>15, Assembled
<1>17. krnl_tcb'[task].ptask
  BY <1>6 DEF SameTask, Kept, Live
<1>18. krnl_tcb[task].state # "BLOCKED"
  BY DEF Runnable, StaysBlocked
<1>19. task \notin Range(krnl_delay_queue')
  BY DEF Placed
<1>20. QED
  BY <1>7, <1>16, <1>17, <1>18, <1>19 DEF Chosen

(* A live task is a member of one of the queues. *)
LEMMA QueuedLives ==
    ASSUME IInv, NEW tcb, Kept(tcb), NEW run, NEW rt, NEW dl, Placed(tcb, run, rt, dl)
    PROVE  \A t \in Range(run) \cup Range(rt) \cup Range(dl) : t \in Slots /\ Live(t)
BY DEF Placed, Kept, Live

LEMMA DispatchBeKeeps ==
    ASSUME IInv, NEW tcb, Kept(tcb), StaysBlocked(tcb), NEW q,
           BeFault(tcb, q) = NotHalted, DispatchBe(tcb, q),
           Placed(tcb, q, krnl_rt_queue', krnl_delay_queue'),
           \A t \in Range(krnl_delay_queue') : tcb[t].delay >= 1
    PROVE  IInv' /\ Chosen
<1> DEFINE task == BeTask(tcb, q)
           new == BeTcb(tcb, q)
<1>1. krnl_run_queue' = BeQueue(tcb, q) /\ SwitchTo(new, task)
  BY DEF DispatchBe
<1>2. tcb \in [Slots -> Tcb] /\ IsQueue(q, Slots)
  BY DEF Kept, Placed
<1>3. /\ task \in Range(q) /\ Runnable(tcb, task)
      /\ IsQueue(BeQueue(tcb, q), Slots) /\ Range(BeQueue(tcb, q)) = Range(q)
  BY <1>2, BeQueueKeeps
<1>4. Charged(new, tcb)
  BY <1>2, BeTcbCharges
<1> HIDE DEF task, new
<1>5. Kept(new) /\ StaysBlocked(new) /\ \A t \in Slots : new[t].delay = tcb[t].delay
  BY <1>4, ChargedKept
<1>6. Placed(tcb, krnl_run_queue', krnl_rt_queue', krnl_delay_queue')
  BY <1>1, <1>3 DEF Placed
<1>7. Placed(new, krnl_run_queue', krnl_rt_queue', krnl_delay_queue')
  <2>1. \A t \in Slots : new[t].ptask = tcb[t].ptask /\ new[t].period = tcb[t].period
    BY <1>4 DEF Charged, SameTask
  <2>2. QED
    BY <1>6, <2>1, PlacedSame
<1>8. task \in Slots /\ Live(task)
  BY <1>3, QueuedLives
<1>9. \A t \in Range(krnl_delay_queue') : new[t].delay >= 1
  <2>1. Range(krnl_delay_queue') \subseteq Slots
    BY QueuePlaces DEF Placed
  <2>2. QED
    BY <1>5, <2>1
<1>10. Runnable(new, task) /\ task \in Range(krnl_run_queue')
  BY <1>1, <1>3, <1>4, <1>8 DEF Runnable, Charged
<1>11. QED
  BY <1>1, <1>5, <1>7, <1>8, <1>9, <1>10, SwitchKeeps

(* The panics of the dispatcher. *)
LEMMA BeFaultIsCause ==
    ASSUME NEW tcb, NEW q, BeFault(tcb, q) # NotHalted
    PROVE  BeFault(tcb, q) \in Causes
<1>1. BeFault(tcb, q) = "PANIC_NO_TASKS_RUN" \/ BeFault(tcb, q) = "NULL_TASK"
  BY DEF BeFault
<1>2. QED
  BY <1>1 DEF Causes

LEMMA DispatcherPanics ==
    ASSUME IInv, \/ Halt("PANIC_STACK_OVERFLOW")
                 \/ Halt("PANIC_NO_TASKS_LEFT")
                 \/ Halt("PANIC_CANT_PLACE_RUN")
                 \/ Halt("PANIC_CANT_PLACE_RT")
    PROVE  IInv' /\ halted' # NotHalted
<1>1. {"PANIC_STACK_OVERFLOW", "PANIC_NO_TASKS_LEFT", "PANIC_CANT_PLACE_RUN",
       "PANIC_CANT_PLACE_RT"} \subseteq Causes
  BY DEF Causes
<1>2. QED
  BY <1>1, HaltKeeps

LEMMA hf_yieldKeeps ==
    ASSUME IInv, hf_yield
    PROVE  IInv' /\ (halted' = NotHalted => Chosen)
<1> DEFINE fault == BeFault(Preempted, krnl_run_queue)
<1>1. CASE StackOverflow
  BY <1>1, DispatcherPanics DEF StackOverflow
<1>2. CASE Halt("PANIC_NO_TASKS_LEFT")
  BY <1>2, DispatcherPanics
<1>3. CASE fault # NotHalted /\ Halt(fault)
  BY <1>3, BeFaultIsCause, HaltKeeps
<1>4. CASE /\ fault = NotHalted
           /\ DispatchBe(Preempted, krnl_run_queue)
           /\ UNCHANGED <<krnl_rt_queue, krnl_delay_queue>>
  <2>1. /\ Kept(Preempted) /\ StaysBlocked(Preempted)
        /\ \A t \in Slots : Preempted[t].delay = krnl_tcb[t].delay
    BY PreemptedKept
  <2>2. Placed(krnl_tcb, krnl_run_queue, krnl_rt_queue', krnl_delay_queue')
    BY <1>4, PlacedHolds
  <2>3. Placed(Preempted, krnl_run_queue, krnl_rt_queue', krnl_delay_queue')
    <3>1. \A t \in Slots : /\ Preempted[t].ptask = krnl_tcb[t].ptask
                           /\ Preempted[t].period = krnl_tcb[t].period
      BY <2>1 DEF Kept
    <3>2. QED
      BY <2>2, <3>1, PlacedSame
  <2>4. \A t \in Range(krnl_delay_queue') : Preempted[t].delay >= 1
    <3>1. Range(krnl_delay_queue) \subseteq Slots
      BY PlacedHolds, QueuePlaces DEF Placed
    <3>2. QED
      BY <1>4, <2>1, <3>1 DEF IInv, DelaysPending
  <2>5. QED
    BY <1>4, <2>1, <2>3, <2>4, DispatchBeKeeps
<1>5. QED
  BY <1>1, <1>2, <1>3, <1>4 DEF hf_yield

(* process_delay_queue() moves every expired task to the queue of its kind *)
(* and leaves the others.                                                  *)
LEMMA AwakenMoves ==
    ASSUME IInv, NEW run, run = Awaken(krnl_run_queue, FALSE),
           NEW rt, rt = Awaken(krnl_rt_queue, TRUE)
    PROVE  /\ Placed(krnl_tcb, run, rt, StillDelayed)
           /\ Range(StillDelayed) = Range(krnl_delay_queue) \ Expired
<1> DEFINE be == {t \in Expired : (krnl_tcb[t].period # 0) = FALSE}
           real == {t \in Expired : (krnl_tcb[t].period # 0) = TRUE}
           dl == krnl_delay_queue
<1>1. Placed(krnl_tcb, krnl_run_queue, krnl_rt_queue, dl)
  BY PlacedHolds
<1>2. Expired \subseteq Range(dl) /\ Range(dl) \subseteq Slots
  BY <1>1, QueuePlaces DEF Expired, Placed
<1>3. /\ be \subseteq Range(dl) /\ real \subseteq Range(dl)
      /\ be \cup real = Expired
      /\ \A t \in be : krnl_tcb[t].period = 0
      /\ \A t \in real : krnl_tcb[t].period # 0
  BY <1>2
<1>4. run = krnl_run_queue \o Keep(dl, be) /\ rt = krnl_rt_queue \o Keep(dl, real)
  BY DEF Awaken
<1> HIDE DEF be, real
<1>5. /\ IsQueue(Keep(dl, be), Slots) /\ Range(Keep(dl, be)) = be
      /\ IsQueue(Keep(dl, real), Slots) /\ Range(Keep(dl, real)) = real
  <2>1. IsQueue(dl, Slots)
    BY <1>1 DEF Placed
  <2>2. /\ IsQueue(Keep(dl, be), Slots) /\ Range(Keep(dl, be)) = Range(dl) \cap be
        /\ IsQueue(Keep(dl, real), Slots) /\ Range(Keep(dl, real)) = Range(dl) \cap real
    BY <2>1, KeepFilters, Zenon
  <2>3. QED
    BY <1>3, <2>2
<1>6. IsQueue(StillDelayed, Slots) /\ Range(StillDelayed) = Range(dl) \ Expired
  <2>1. IsQueue(StillDelayed, Slots) /\ Range(StillDelayed) = Range(dl) \cap (Slots \ Expired)
    BY <1>1, KeepFilters DEF Placed, StillDelayed
  <2>2. QED
    BY <1>2, <2>1
<1>7. IsQueue(run, Slots) /\ Range(run) = Range(krnl_run_queue) \cup be
  <2>1. Range(krnl_run_queue) \cap Range(Keep(dl, be)) = {}
    BY <1>1, <1>3, <1>5 DEF Placed
  <2>2. IsQueue(krnl_run_queue, Slots) /\ IsQueue(Keep(dl, be), Slots)
    BY <1>1, <1>5 DEF Placed
  <2> DEFINE p == krnl_run_queue
             k == Keep(dl, be)
  <2>3. IsQueue(p \o k, Slots) /\ Range(p \o k) = Range(p) \cup Range(k)
    <3> HIDE DEF p, k
    <3>1. IsQueue(p, Slots) /\ IsQueue(k, Slots) /\ Range(p) \cap Range(k) = {}
      BY <2>1, <2>2 DEF p, k
    <3>2. QED
      BY <3>1, ConcatJoins
  <2>4. QED
    BY <1>4, <1>5, <2>3
<1>8. IsQueue(rt, Slots) /\ Range(rt) = Range(krnl_rt_queue) \cup real
  <2>1. Range(krnl_rt_queue) \cap Range(Keep(dl, real)) = {}
    BY <1>1, <1>3, <1>5 DEF Placed
  <2>2. IsQueue(krnl_rt_queue, Slots) /\ IsQueue(Keep(dl, real), Slots)
    BY <1>1, <1>5 DEF Placed
  <2> DEFINE p == krnl_rt_queue
             k == Keep(dl, real)
  <2>3. IsQueue(p \o k, Slots) /\ Range(p \o k) = Range(p) \cup Range(k)
    <3> HIDE DEF p, k
    <3>1. IsQueue(p, Slots) /\ IsQueue(k, Slots) /\ Range(p) \cap Range(k) = {}
      BY <2>1, <2>2 DEF p, k
    <3>2. QED
      BY <3>1, ConcatJoins
  <2>4. QED
    BY <1>4, <1>5, <2>3
<1>9. Placed(krnl_tcb, run, rt, StillDelayed)
  <2>1. \A t \in Range(run) : krnl_tcb[t].period = 0
    BY <1>1, <1>3, <1>7 DEF Placed
  <2>2. \A t \in Range(rt) : krnl_tcb[t].period # 0
    BY <1>1, <1>3, <1>8 DEF Placed
  <2>3. {t \in Slots : krnl_tcb[t].ptask} = Range(run) \cup Range(rt) \cup Range(StillDelayed)
    <3>1. {t \in Slots : krnl_tcb[t].ptask}
            = Range(krnl_run_queue) \cup Range(krnl_rt_queue) \cup Range(dl)
      BY <1>1 DEF Placed
    <3>2. Range(dl) = be \cup real \cup (Range(dl) \ Expired)
      BY <1>2, <1>3
    <3>3. QED
      BY <1>6, <1>7, <1>8, <3>1, <3>2
  <2>4. Range(run) \cap Range(StillDelayed) = {} /\ Range(rt) \cap Range(StillDelayed) = {}
    BY <1>1, <1>3, <1>6, <1>7, <1>8 DEF Placed
  <2>5. QED
    BY <1>6, <1>7, <1>8, <2>1, <2>2, <2>3, <2>4 DEF Placed
<1>10. QED
  BY <1>6, <1>9

(* The control blocks and queues after each part of a tick, and the        *)
(* real-time task it chooses.                                              *)
TickRun == Awaken(krnl_run_queue, FALSE)
TickRt == ExchangeSort(Awaken(krnl_rt_queue, TRUE), [t \in Slots |-> krnl_tcb[t].period])
TickCharged == RtTcb(Counted(Preempted), TickRt)
TickTask == RtTask(Counted(Preempted), TickRt)

(* A tick that puts a task on the processor. *)
TickDispatch ==
    /\ TickTask = 0 => BeFault(TickCharged, TickRun) = NotHalted
    /\ krnl_delay_queue' = StillDelayed
    /\ krnl_rt_queue' = TickRt
    /\ IF TickTask # 0 THEN krnl_run_queue' = TickRun /\ SwitchTo(TickCharged, TickTask)
                       ELSE DispatchBe(TickCharged, TickRun)

LEMMA dispatch_isrCases ==
    ASSUME dispatch_isr
    PROVE  \/ StackOverflow
           \/ krnl_tasks = 0 /\ Halt("PANIC_NO_TASKS_LEFT")
           \/ Len(TickRun) > MAX_TASKS /\ Halt("PANIC_CANT_PLACE_RUN")
           \/ Len(TickRt) > MAX_TASKS /\ Halt("PANIC_CANT_PLACE_RT")
           \/ /\ BeFault(TickCharged, TickRun) # NotHalted
              /\ Halt(BeFault(TickCharged, TickRun))
           \/ TickDispatch
<1>1. \/ StackOverflow
      \/ \E a \in {TickRun}, b \in {TickRt}, c \in {Counted(Preempted)} :
           \E d \in {RtTcb(c, b)} :
              IF krnl_tasks = 0 THEN Halt("PANIC_NO_TASKS_LEFT")
              ELSE IF Len(a) > MAX_TASKS THEN Halt("PANIC_CANT_PLACE_RUN")
              ELSE IF Len(b) > MAX_TASKS THEN Halt("PANIC_CANT_PLACE_RT")
              ELSE IF RtTask(c, b) = 0 /\ BeFault(d, a) # NotHalted
              THEN Halt(BeFault(d, a))
              ELSE /\ krnl_delay_queue' = StillDelayed
                   /\ krnl_rt_queue' = b
                   /\ IF RtTask(c, b) # 0
                      THEN krnl_run_queue' = a /\ SwitchTo(d, RtTask(c, b))
                      ELSE DispatchBe(d, a)
  BY DEF dispatch_isr, TickRun, TickRt
<1>2. QED
  BY <1>1 DEF TickDispatch, TickCharged, TickTask

(* The parts of a tick leave every task what it was and in its place. *)
LEMMA TickParts ==
    ASSUME IInv
    PROVE  /\ Range(StillDelayed) = Range(krnl_delay_queue) \ Expired
           /\ Placed(krnl_tcb, TickRun, TickRt, StillDelayed)
           /\ 0 \notin Range(TickRt)
           /\ Range(TickRt) = Range(Awaken(krnl_rt_queue, TRUE))
           /\ Kept(Counted(Preempted)) /\ StaysBlocked(Counted(Preempted))
           /\ \A t \in Range(krnl_delay_queue) :
                 Counted(Preempted)[t].delay = krnl_tcb[t].delay - 1
           /\ Charged(TickCharged, Counted(Preempted))
           /\ Kept(TickCharged) /\ StaysBlocked(TickCharged)
           /\ \A t \in Slots : TickCharged[t].delay = Counted(Preempted)[t].delay
           /\ Placed(TickCharged, TickRun, TickRt, StillDelayed)
<1> DEFINE woken == Awaken(krnl_rt_queue, TRUE)
           counted == Counted(Preempted)
<1>1. /\ Placed(krnl_tcb, TickRun, woken, StillDelayed)
      /\ Range(StillDelayed) = Range(krnl_delay_queue) \ Expired
  BY AwakenMoves DEF TickRun
<1>2. IsQueue(TickRt, Slots) /\ Range(TickRt) = Range(woken)
  <2>1. IsQueue(woken, Slots)
    BY <1>1 DEF Placed
  <2>2. QED
    BY <2>1, SortKeeps DEF TickRt
<1>3. Placed(krnl_tcb, TickRun, TickRt, StillDelayed)
  <2> HIDE DEF woken
  <2>1. QED
    BY <1>1, <1>2 DEF Placed
<1>4. 0 \notin Range(TickRt)
  BY <1>3 DEF Placed, IInv, IdleLives
<1>5. /\ Kept(counted) /\ StaysBlocked(counted)
      /\ \A t \in Range(krnl_delay_queue) : counted[t].delay = krnl_tcb[t].delay - 1
  BY CountedKept
<1>6. TickCharged = RtTcb(counted, TickRt)
  BY DEF TickCharged
<1> HIDE DEF counted
<1>7. Charged(TickCharged, counted)
  <2>1. counted \in [Slots -> Tcb]
    BY <1>5 DEF Kept
  <2>2. QED
    BY <1>2, <1>4, <1>6, <2>1, RtTcbCharges
<1>8. /\ Kept(TickCharged) /\ StaysBlocked(TickCharged)
      /\ \A t \in Slots : TickCharged[t].delay = counted[t].delay
  BY <1>5, <1>7, ChargedKept
<1>9. Placed(TickCharged, TickRun, TickRt, StillDelayed)
  <2>1. \A t \in Slots : /\ TickCharged[t].ptask = krnl_tcb[t].ptask
                         /\ TickCharged[t].period = krnl_tcb[t].period
    BY <1>8 DEF Kept
  <2>2. QED
    BY <1>3, <2>1, PlacedSame
<1>10. QED
  BY <1>1, <1>2, <1>3, <1>4, <1>5, <1>7, <1>8, <1>9 DEF counted

(* The real-time task a tick chooses. *)
LEMMA TickTaskIs ==
    ASSUME IInv, TickTask # 0
    PROVE  /\ TickTask \in Range(TickRt) /\ RtReady(Counted(Preempted), TickTask)
           /\ TickTask \in Slots /\ Live(TickTask) /\ Runnable(TickCharged, TickTask)
<1>1. TickTask \in Range(TickRt) /\ RtReady(Counted(Preempted), TickTask)
  BY TickParts, RtTaskIs DEF Placed, TickTask
<1>2. TickTask \in Slots /\ Live(TickTask)
  BY <1>1, TickParts, QueuedLives
<1>3. Runnable(TickCharged, TickTask)
  BY <1>1, <1>2, TickParts DEF Runnable, RtReady, Charged
<1>4. QED
  BY <1>1, <1>2, <1>3

LEMMA TickDispatchKeeps ==
    ASSUME IInv, TickDispatch
    PROVE  IInv' /\ Chosen
<1>1. /\ Kept(TickCharged) /\ StaysBlocked(TickCharged)
      /\ Placed(TickCharged, TickRun, TickRt, StillDelayed)
      /\ krnl_delay_queue' = StillDelayed /\ krnl_rt_queue' = TickRt
  BY TickParts DEF TickDispatch
<1>2. \A t \in Range(krnl_delay_queue') : TickCharged[t].delay >= 1
  <2> TAKE t \in Range(krnl_delay_queue')
  <2>1. t \in Range(krnl_delay_queue) /\ t \notin Expired
    BY <1>1, TickParts
  <2>2. t \in Slots
    BY <2>1, PlacedHolds, QueuePlaces DEF Placed
  <2>3. krnl_tcb[t].delay \in Nat /\ krnl_tcb[t].delay >= 1
    BY <2>1, <2>2 DEF IInv, DelaysPending, TypeOK, Tcb
  <2>4. krnl_tcb[t].delay - 1 # 0
    BY <2>1 DEF Expired
  <2>5. TickCharged[t].delay = krnl_tcb[t].delay - 1
    BY <2>1, <2>2, TickParts
  <2>6. QED
    BY <2>3, <2>4, <2>5
<1>3. CASE TickTask # 0
  <2>1. krnl_run_queue' = TickRun /\ SwitchTo(TickCharged, TickTask)
    BY <1>3 DEF TickDispatch
  <2>2. /\ TickTask \in Range(TickRt) /\ TickTask \in Slots /\ Live(TickTask)
        /\ Runnable(TickCharged, TickTask)
    BY <1>3, TickTaskIs
  <2>3. QED
    BY <1>1, <1>2, <2>1, <2>2, SwitchKeeps
<1>4. CASE TickTask = 0
  <2>1. BeFault(TickCharged, TickRun) = NotHalted /\ DispatchBe(TickCharged, TickRun)
    BY <1>4 DEF TickDispatch
  <2>2. QED
    BY <1>1, <1>2, <2>1, DispatchBeKeeps
<1>5. QED
  BY <1>3, <1>4

LEMMA dispatch_isrKeeps ==
    ASSUME IInv, dispatch_isr
    PROVE  IInv' /\ (halted' = NotHalted => Chosen)
<1> DEFINE fault == BeFault(TickCharged, TickRun)
<1>1. CASE StackOverflow
  BY <1>1, DispatcherPanics DEF StackOverflow
<1>2. CASE \/ Halt("PANIC_NO_TASKS_LEFT")
           \/ Halt("PANIC_CANT_PLACE_RUN")
           \/ Halt("PANIC_CANT_PLACE_RT")
  BY <1>2, DispatcherPanics
<1>3. CASE fault # NotHalted /\ Halt(fault)
  BY <1>3, BeFaultIsCause, HaltKeeps
<1>4. CASE TickDispatch
  BY <1>4, TickDispatchKeeps
<1>5. QED
  BY <1>1, <1>2, <1>3, <1>4, dispatch_isrCases

-----------------------------------------------------------------------------
(* The theorems. *)

LEMMA NextKeeps ==
    ASSUME IInv, [Next]_vars
    PROVE  IInv'
<1>1. CASE idletask
  BY <1>1, idletaskKeeps
<1>2. CASE \E p \in RTParams, mem \in BOOLEAN : hf_spawn(p[1], p[2], p[3], mem)
  BY <1>2, hf_spawnKeeps
<1>3. CASE \E id \in Slots : hf_kill(id)
  BY <1>3, hf_killKeeps
<1>4. CASE \E id \in Slots, delay \in Delays : hf_delay(id, delay)
  BY <1>4, hf_delayKeeps
<1>5. CASE \E id \in Slots : hf_block(id)
  BY <1>5, hf_blockKeeps
<1>6. CASE \E id \in Slots : hf_resume(id)
  BY <1>6, hf_blockKeeps
<1>7. CASE \E id \in Slots, priority \in Priorities : hf_priorityset(id, priority)
  BY <1>7, hf_prioritysetKeeps
<1>8. CASE \E lock \in BOOLEAN : hf_schedlock(lock)
  BY <1>8, hf_schedlockKeeps
<1>9. CASE hf_yield
  BY <1>9, hf_yieldKeeps
<1>10. CASE eth_isr
  BY <1>10, eth_isrKeeps
<1>11. CASE dispatch_isr
  BY <1>11, dispatch_isrKeeps
<1>12. CASE UNCHANGED vars
  <2>1. /\ krnl_tcb' = krnl_tcb /\ krnl_schedule' = krnl_schedule /\ up' = up
        /\ UNCHANGED <<krnl_tasks, krnl_current_task, queues, context, cpu>> /\ pending' = pending
        /\ halted' = halted
    BY <1>12 DEF vars
  <2>2. /\ pending \in [Slots -> Pending]
        /\ krnl_tcb \in [Slots -> Tcb] /\ krnl_schedule \in BOOLEAN /\ up \in BOOLEAN
        /\ halted \in Causes \cup {NotHalted}
    BY DEF IInv, TypeOK
  <2>3. QED
    BY <2>1, <2>2, TcbOnly DEF SameTask
<1>13. CASE AssignPriority
  BY <1>13, AssignPriorityKeeps
<1>14. QED
  BY <1>1, <1>2, <1>3, <1>4, <1>5, <1>6, <1>7, <1>8, <1>9, <1>10, <1>11, <1>12, <1>13
  DEF Next, Call

(* Everything below follows from the inductive invariant. *)
THEOREM KernelInvariant == Spec => []IInv
<1>1. Init => IInv
  BY InitHolds
<1>2. IInv /\ [Next]_vars => IInv'
  BY NextKeeps
<1>3. QED
  BY <1>1, <1>2, PTL DEF Spec

(* The control blocks keep their types, eight- and sixteen-bit fields      *)
(* included, whatever is called on which task.                             *)
THEOREM KernelTypeOK == Spec => []TypeOK
<1>1. IInv => TypeOK
  BY DEF IInv
<1>2. QED
  BY <1>1, KernelInvariant, PTL

(* No call and no tick of the dispatcher loses a task or queues it twice. *)
THEOREM KernelQueuePartition == Spec => []QueuePartition
<1>1. IInv => QueuePartition
  BY DEF IInv
<1>2. QED
  BY <1>1, KernelInvariant, PTL

(* krnl_tasks counts the live tasks, spawns that fail included. *)
THEOREM KernelTaskCount == Spec => []TaskCount
<1>1. IInv => TaskCount
  BY DEF IInv
<1>2. QED
  BY <1>1, KernelInvariant, PTL

(* At most one task is RUNNING, the one on the processor. *)
THEOREM KernelRunningIsCurrent == Spec => []RunningIsCurrent
<1>1. IInv => RunningIsCurrent
  BY DEF IInv
<1>2. QED
  BY <1>1, KernelInvariant, PTL

(* No delay of zero is ever queued. *)
THEOREM KernelDelaysPending == Spec => []DelaysPending
<1>1. IInv => DelaysPending
  BY DEF IInv
<1>2. QED
  BY <1>1, KernelInvariant, PTL

(* Whatever was called on the tasks since the last tick, the dispatcher    *)
(* never puts a blocked, delayed or killed task on the processor.          *)
THEOREM KernelDispatchesRunnable == Spec => DispatchesRunnable
<1>1. IInv /\ [Next]_vars => [Dispatch => Chosen]_vars
  <2> SUFFICES ASSUME IInv, Dispatch PROVE Chosen
    OBVIOUS
  <2>1. CASE dispatch_isr
    BY <2>1, dispatch_isrKeeps DEF Dispatch
  <2>2. CASE hf_yield
    BY <2>2, hf_yieldKeeps DEF Dispatch
  <2>3. QED
    BY <2>1, <2>2 DEF Dispatch
<1>2. QED
  BY <1>1, KernelInvariant, PTL DEF Spec, DispatchesRunnable, Chosen
=============================================================================
