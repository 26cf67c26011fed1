-------------------------------- MODULE Sync --------------------------------
(***************************************************************************)
(* The synchronization primitives of HellfireOS: semaphores                *)
(* (sys/sync/semaphore.c), condition variables (sys/sync/condvar.c) and    *)
(* the two mutexes of sys/sync/mutex.c, a spin lock (MUTEX_TYPE 0) and a   *)
(* filter lock (MUTEX_TYPE 1).                                             *)
(*                                                                         *)
(* The scheduler is abstracted to what module Kernel shows of it: any task *)
(* that is not blocked may be the next to run, and a blocked one is never  *)
(* dispatched.  What a primitive does between _di() and _ei() is one       *)
(* action.  What follows _ei(), the yield and the lock that hf_condwait()  *)
(* takes again, are actions of their own, so that ticks and other tasks    *)
(* come in between.  A turn of a spin loop changes nothing: a spinning     *)
(* task takes its step when the lock is free.                              *)
(***************************************************************************)
EXTENDS Integers, Sequences, FiniteSets, SequencesExt

CONSTANTS
    MAX_TASKS,      \* task control blocks; task 0 is the idle task
    Sems,           \* the semaphores
    Conds,          \* the condition variables
    Mtxs,           \* the mutexes
    NULL,           \* a queue that could not be created
    FREED           \* the dangling pointer to a destroyed queue

Tasks == 0..(MAX_TASKS - 1)

NoQueue == {NULL, FREED}

ASSUME SyncTasksAssumption == MAX_TASKS \in Nat \ {0, 1}
ASSUME NoQueueAssumption ==
    /\ NULL # FREED
    /\ NULL \notin Seq(Tasks)
    /\ FREED \notin Seq(Tasks)

VARIABLES
    state,      \* TASK_BLOCKED or not, or not yet spawned
    stage,      \* where a task is inside a call
    sems,       \* count and queue of each semaphore
    conds,      \* queue of each condition variable
    lock,       \* MUTEX_TYPE 0: the word of each spin lock
    filter,     \* MUTEX_TYPE 1: level[] and waiting[] of each filter lock
    local,      \* the variables l and k of a task in the filter's loop
    masked,     \* the task that runs with interrupts disabled, Nobody if none
    halted      \* why the system stopped

syncvars == <<state, stage, sems, conds, lock, filter, local, masked, halted>>

Nobody == MAX_TASKS
Running == "running"

Levels == 1..(MAX_TASKS - 1)
WaitingSlots == 1..(MAX_TASKS - 2)      \* the levels waiting[] has an entry for

SyncTypeOK ==
    /\ state \in [Tasks -> {"IDLE", "READY", "BLOCKED"}]
    /\ stage \in [Tasks -> {"run", "yield", "cond_yield", "relock", "level",
                            "waiting", "test_level", "test_waiting"}]
    /\ sems \in [Sems -> [count : Int, sem_queue : NoQueue \cup Seq(Tasks)]]
    /\ conds \in [Conds -> NoQueue \cup Seq(Tasks)]
    /\ lock \in [Mtxs -> {0, 1}]
    /\ filter \in [Mtxs -> [level : [Tasks -> 0..(MAX_TASKS - 1)], waiting : [WaitingSlots -> Tasks]]]
    /\ local \in [Tasks -> [m : Mtxs, l : Levels, k : Tasks]]
    /\ masked \in Tasks \cup {Nobody}
    /\ halted \in {Running, "PANIC_NUTS_SEM", "NULL_QUEUE"}

(* Globals are zero before app_main(). *)
SyncInit ==
    /\ state = [t \in Tasks |-> IF t = 0 THEN "READY" ELSE "IDLE"]
    /\ stage = [t \in Tasks |-> "run"]
    /\ sems = [s \in Sems |-> [count |-> 0, sem_queue |-> NULL]]
    /\ conds = [c \in Conds |-> NULL]
    /\ lock = [m \in Mtxs |-> 0]
    /\ filter = [m \in Mtxs |-> [level |-> [t \in Tasks |-> 0], waiting |-> [l \in WaitingSlots |-> 0]]]
    /\ local \in [Tasks -> [m : {CHOOSE m \in Mtxs : TRUE}, l : {1}, k : {0}]]
    /\ masked = Nobody
    /\ halted = Running

(* The scheduler may give task t the processor; it is in its own code, or  *)
(* at the given place inside a call.                                       *)
CanRun(t) == halted = Running /\ state[t] = "READY" /\ masked \in {t, Nobody}
At(t, place) == CanRun(t) /\ stage[t] = place
Go(t, place) == stage' = [stage EXCEPT ![t] = place]

-----------------------------------------------------------------------------
(* Semaphores. *)

(* hf_seminit(): mem is whether hf_queue_create() finds memory.  A negative *)
(* value is refused after the queue was created; the count is not set.     *)
hf_seminit(t, s, value, mem) ==
    /\ At(t, "run")
    /\ sems' = [sems EXCEPT ![s] = [count |-> IF mem /\ value >= 0 THEN value ELSE @.count,
                                    sem_queue |-> IF mem THEN << >> ELSE NULL]]
    /\ UNCHANGED <<state, stage, conds, lock, filter, local, masked, halted>>

(* hf_semdestroy(): a queue with waiters is kept; the pointer to a freed   *)
(* one stays in the semaphore.                                             *)
hf_semdestroy(t, s) ==
    /\ At(t, "run")
    /\ sems' = [sems EXCEPT ![s] = [count |-> @.count,
                                    sem_queue |-> IF @.sem_queue = << >> THEN FREED ELSE @.sem_queue]]
    /\ halted' = IF sems[s].sem_queue = NULL THEN "NULL_QUEUE" ELSE halted
    /\ UNCHANGED <<state, stage, conds, lock, filter, local, masked>>

(* hf_queue_addtail() of the calling task, and what the caller does about  *)
(* a full queue.                                                           *)
Enqueue(q, t) == IF q \in NoQueue \/ Len(q) = MAX_TASKS THEN q ELSE Append(q, t)
Blocked(q, t) == IF q \in NoQueue \/ Len(q) = MAX_TASKS THEN state
                 ELSE [state EXCEPT ![t] = "BLOCKED"]
EnqueueHalts(q) == CASE q \in NoQueue -> "NULL_QUEUE"
                     [] q \notin NoQueue /\ Len(q) = MAX_TASKS -> "PANIC_NUTS_SEM"
                     [] OTHER -> halted

(* hf_semwait(), up to _ei(): the task returns, or is blocked and still    *)
(* has to yield.                                                           *)
hf_semwait(t, s) ==
    /\ At(t, "run")
    /\ LET blocks == sems[s].count - 1 < 0
           q == sems[s].sem_queue
       IN /\ sems' = [sems EXCEPT ![s] = [count |-> @.count - 1,
                                          sem_queue |-> IF blocks THEN Enqueue(q, t) ELSE q]]
          /\ halted' = IF blocks THEN EnqueueHalts(q) ELSE halted
          /\ state' = IF blocks THEN Blocked(q, t) ELSE state
          /\ Go(t, IF blocks THEN "yield" ELSE "run")
    /\ UNCHANGED <<conds, lock, filter, local, masked>>

(* Mutations: hf_sempost() wakes nobody when the count reaches zero; it    *)
(* wakes the waiter that came last.                                        *)
hf_sempost_strict(t, s) ==
    /\ At(t, "run")
    /\ LET q == sems[s].sem_queue
           wakes == sems[s].count + 1 < 0 /\ q \notin NoQueue /\ q # << >>
       IN /\ sems' = [sems EXCEPT ![s].count = @ + 1, ![s].sem_queue = IF wakes THEN Tail(q) ELSE @]
          /\ state' = IF wakes THEN [state EXCEPT ![Head(q)] = "READY"] ELSE state
    /\ UNCHANGED <<stage, conds, lock, filter, local, masked, halted>>

hf_sempost_lifo(t, s) ==
    /\ At(t, "run")
    /\ LET q == sems[s].sem_queue
           wakes == sems[s].count + 1 <= 0 /\ q \notin NoQueue /\ q # << >>
       IN /\ sems' = [sems EXCEPT ![s].count = @ + 1, ![s].sem_queue = IF wakes THEN Front(q) ELSE @]
          /\ state' = IF wakes THEN [state EXCEPT ![Last(q)] = "READY"] ELSE state
    /\ UNCHANGED <<stage, conds, lock, filter, local, masked, halted>>

(* hf_sempost(): the longest waiter becomes ready.                         *)
hf_sempost(t, s) ==
    /\ At(t, "run")
    /\ LET wakes == sems[s].count + 1 <= 0
           q == sems[s].sem_queue
       IN /\ sems' = [sems EXCEPT ![s] = [count |-> @.count + 1,
                                          sem_queue |-> IF wakes /\ q \notin NoQueue /\ q # << >>
                                                        THEN Tail(q) ELSE q]]
          /\ halted' = CASE wakes /\ q \in NoQueue -> "NULL_QUEUE"
                         [] wakes /\ q = << >> -> "PANIC_NUTS_SEM"
                         [] OTHER -> halted
          /\ state' = IF wakes /\ q \notin NoQueue /\ q # << >>
                      THEN [state EXCEPT ![Head(q)] = "READY"] ELSE state
    /\ UNCHANGED <<stage, conds, lock, filter, local, masked>>

(* The call of hf_yield() at the end of hf_semwait(), made once the task   *)
(* is ready again: a tick may have taken the processor before it.          *)
ReturnFromSemwait(t) ==
    /\ At(t, "yield")
    /\ Go(t, "run")
    /\ UNCHANGED <<state, sems, conds, lock, filter, local, masked, halted>>

-----------------------------------------------------------------------------
(* Mutexes, MUTEX_TYPE 0. *)

hf_mtxinit(t, m) ==
    /\ At(t, "run")
    /\ lock' = [lock EXCEPT ![m] = 0]
    /\ UNCHANGED <<state, stage, sems, conds, filter, local, masked, halted>>

(* hf_mtxlock(): the turn of the loop in which tsl() finds the lock free.  *)
hf_mtxlock(t, m) ==
    /\ At(t, "run")
    /\ lock[m] = 0
    /\ lock' = [lock EXCEPT ![m] = 1]
    /\ UNCHANGED <<state, stage, sems, conds, filter, local, masked, halted>>

hf_mtxunlock(t, m) ==
    /\ At(t, "run")
    /\ lock' = [lock EXCEPT ![m] = 0]
    /\ UNCHANGED <<state, stage, sems, conds, filter, local, masked, halted>>

-----------------------------------------------------------------------------
(* Condition variables, with MUTEX_TYPE 0. *)

hf_condinit(t, c, mem) ==
    /\ At(t, "run")
    /\ conds' = [conds EXCEPT ![c] = IF mem THEN << >> ELSE NULL]
    /\ UNCHANGED <<state, stage, sems, lock, filter, local, masked, halted>>

hf_conddestroy(t, c) ==
    /\ At(t, "run")
    /\ conds' = [conds EXCEPT ![c] = IF @ = << >> THEN FREED ELSE @]
    /\ halted' = IF conds[c] = NULL THEN "NULL_QUEUE" ELSE halted
    /\ UNCHANGED <<state, stage, sems, lock, filter, local, masked>>

(* hf_condwait(), up to _ei(): the mutex is unlocked in the same masked    *)
(* section that blocks the task.                                           *)
hf_condwait(t, c, m) ==
    /\ At(t, "run")
    /\ conds' = [conds EXCEPT ![c] = Enqueue(@, t)]
    /\ halted' = EnqueueHalts(conds[c])
    /\ state' = Blocked(conds[c], t)
    /\ lock' = [lock EXCEPT ![m] = 0]
    /\ local' = [local EXCEPT ![t].m = m]
    /\ Go(t, "cond_yield")
    /\ UNCHANGED <<sems, filter, masked>>

(* The hf_yield() of hf_condwait(). *)
CondYield(t) ==
    /\ At(t, "cond_yield")
    /\ Go(t, "relock")
    /\ UNCHANGED <<state, sems, conds, lock, filter, local, masked, halted>>

(* The hf_mtxlock() at the end of hf_condwait(). *)
Relock(t) ==
    /\ At(t, "relock")
    /\ lock[local[t].m] = 0
    /\ lock' = [lock EXCEPT ![local[t].m] = 1]
    /\ Go(t, "run")
    /\ UNCHANGED <<state, sems, conds, filter, local, masked, halted>>

(* Mutations: hf_condsignal() leaves the task it wakes in the queue; it     *)
(* leaves a single waiter alone.                                           *)
hf_condsignal_get(t, c) ==
    /\ At(t, "run")
    /\ state' = IF conds[c] \notin NoQueue /\ conds[c] # << >>
                THEN [state EXCEPT ![Head(conds[c])] = "READY"] ELSE state
    /\ UNCHANGED <<stage, sems, conds, lock, filter, local, masked, halted>>

hf_condsignal_two(t, c) ==
    /\ At(t, "run")
    /\ LET q == conds[c]
           wakes == q \notin NoQueue /\ Len(q) > 1
       IN /\ conds' = [conds EXCEPT ![c] = IF wakes THEN Tail(q) ELSE @]
          /\ state' = IF wakes THEN [state EXCEPT ![Head(q)] = "READY"] ELSE state
    /\ UNCHANGED <<stage, sems, lock, filter, local, masked, halted>>

hf_condsignal(t, c) ==
    /\ At(t, "run")
    /\ LET q == conds[c]
           wakes == q \notin NoQueue /\ q # << >>
       IN /\ conds' = [conds EXCEPT ![c] = IF wakes THEN Tail(q) ELSE @]
          /\ state' = IF wakes THEN [state EXCEPT ![Head(q)] = "READY"] ELSE state
          /\ halted' = IF q \in NoQueue THEN "NULL_QUEUE" ELSE halted
    /\ UNCHANGED <<stage, sems, lock, filter, local, masked>>

hf_condbroadcast(t, c) ==
    /\ At(t, "run")
    /\ LET waiters == IF conds[c] \in NoQueue THEN {} ELSE ToSet(conds[c])
       IN /\ conds' = [conds EXCEPT ![c] = IF @ \in NoQueue THEN @ ELSE << >>]
          /\ state' = [i \in Tasks |-> IF i \in waiters THEN "READY" ELSE state[i]]
          /\ halted' = IF conds[c] \in NoQueue THEN "NULL_QUEUE" ELSE halted
    /\ UNCHANGED <<stage, sems, lock, filter, local, masked>>

-----------------------------------------------------------------------------
(* Mutexes, MUTEX_TYPE 1.  Each access to level[] or waiting[] is a step.  *)
(* waiting[] has MAX_TASKS - 1 entries (entry 0 is not used) and is        *)
(* indexed up to MAX_TASKS - 1: at the last level the write goes to the    *)
(* byte behind the array and leaves the lock alone, and the read may find  *)
(* anything there.  What that byte belongs to is not modelled.             *)

filter_mtxinit(t, m) ==
    /\ At(t, "run")
    /\ filter' = [filter EXCEPT ![m] = [level |-> [i \in Tasks |-> 0],
                                        waiting |-> [l \in WaitingSlots |-> 0]]]
    /\ UNCHANGED <<state, stage, sems, conds, lock, local, masked, halted>>

(* hf_mtxlock(): l = 1. *)
filter_mtxlock(t, m) ==
    /\ At(t, "run")
    /\ local' = [local EXCEPT ![t] = [m |-> m, l |-> 1, k |-> 0]]
    /\ Go(t, "level")
    /\ UNCHANGED <<state, sems, conds, lock, filter, masked, halted>>

(* m->level[i] = l *)
SetLevel(t) ==
    /\ At(t, "level")
    /\ filter' = [filter EXCEPT ![local[t].m].level[t] = local[t].l]
    /\ Go(t, "waiting")
    /\ UNCHANGED <<state, sems, conds, lock, local, masked, halted>>

(* m->waiting[l] = i, and k = 0 *)
SetWaiting(t) ==
    /\ At(t, "waiting")
    /\ filter' = IF local[t].l \in WaitingSlots
                 THEN [filter EXCEPT ![local[t].m].waiting[local[t].l] = t] ELSE filter
    /\ local' = [local EXCEPT ![t].k = 0]
    /\ Go(t, "test_level")
    /\ UNCHANGED <<state, sems, conds, lock, masked, halted>>

(* The end of the loop for one k: the next k, the next level, or the lock. *)
NextTest(t) ==
    LET v == local[t]
    IN CASE v.k < MAX_TASKS - 1 ->
                local' = [local EXCEPT ![t].k = v.k + 1] /\ Go(t, "test_level")
         [] v.k = MAX_TASKS - 1 /\ v.l < MAX_TASKS - 1 ->
                local' = [local EXCEPT ![t].l = v.l + 1] /\ Go(t, "level")
         [] OTHER ->
                local' = [local EXCEPT ![t].l = 1, ![t].k = 0] /\ Go(t, "run")

(* Mutation: tasks at the same level do not wait for each other. *)
TestLevel_above(t) ==
    /\ At(t, "test_level")
    /\ LET v == local[t]
       IN IF v.k # t /\ filter[v.m].level[v.k] > v.l
          THEN Go(t, "test_waiting") /\ UNCHANGED local
          ELSE NextTest(t)
    /\ UNCHANGED <<state, sems, conds, lock, filter, masked, halted>>

(* k != i && m->level[k] >= l *)
TestLevel(t) ==
    /\ At(t, "test_level")
    /\ LET v == local[t]
       IN IF v.k # t /\ filter[v.m].level[v.k] >= v.l
          THEN Go(t, "test_waiting") /\ UNCHANGED local
          ELSE NextTest(t)
    /\ UNCHANGED <<state, sems, conds, lock, filter, masked, halted>>

(* ... && m->waiting[l] == i, else the loop for this k ends *)
TestWaiting(t) ==
    /\ At(t, "test_waiting")
    /\ LET v == local[t]
       IN \/ /\ v.l \in WaitingSlots => filter[v.m].waiting[v.l] = t
             /\ Go(t, "test_level") /\ UNCHANGED local
          \/ /\ v.l \in WaitingSlots => filter[v.m].waiting[v.l] # t
             /\ NextTest(t)
    /\ UNCHANGED <<state, sems, conds, lock, filter, masked, halted>>

filter_mtxunlock(t, m) ==
    /\ At(t, "run")
    /\ filter' = [filter EXCEPT ![m].level[t] = 0]
    /\ UNCHANGED <<state, stage, sems, conds, lock, local, masked, halted>>

-----------------------------------------------------------------------------
(* The kernel's side. *)

(* _di() and _ei() of a caller that uses a primitive between them. *)
_di(t) ==
    /\ At(t, "run")
    /\ masked' = t
    /\ UNCHANGED <<state, stage, sems, conds, lock, filter, local, halted>>

_ei(t) ==
    /\ At(t, "run")
    /\ masked' = Nobody
    /\ UNCHANGED <<state, stage, sems, conds, lock, filter, local, halted>>

(* hf_resume(w), of a task that waits for a semaphore or a condition: the  *)
(* queue it is in keeps it.                                                *)
hf_resume(w) ==
    /\ halted = Running
    /\ masked = Nobody
    /\ state[w] = "BLOCKED"
    /\ state' = [state EXCEPT ![w] = "READY"]
    /\ UNCHANGED <<stage, sems, conds, lock, filter, local, masked, halted>>

(* What a task inside a call does next, without its program. *)
InsideCall(t) ==
    \/ ReturnFromSemwait(t)
    \/ CondYield(t)
    \/ Relock(t)
    \/ SetLevel(t)
    \/ SetWaiting(t)
    \/ TestLevel(t)
    \/ TestWaiting(t)
=============================================================================
