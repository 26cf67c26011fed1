------------------------------ MODULE SyncApps ------------------------------
(***************************************************************************)
(* The example applications that use the primitives of Sync, run by up to  *)
(* MAX_TASKS - 1 tasks: the bounded buffers of app/sem_test1 and           *)
(* app/cond_test1, app/readers_writers, app/mutex_test1 with either mutex, *)
(* app/cond_test2, and callers of the heap's lock.  A program is a         *)
(* sequence of instructions that a task repeats (while(1)); an instruction *)
(* names a call or a statement on shared data, and the condition of the    *)
(* "if" or "while" around it.                                              *)
(***************************************************************************)
EXTENDS Sync

CONSTANTS
    Apps,           \* the applications of the scenario
    N,              \* cells of the bounded buffer
    MaxResumes      \* how often a waiter may be resumed by hf_resume()

ASSUME BufferAssumption == N \in Nat \ {0}

VARIABLES
    app,        \* the application and the number of tasks in its first role
    pc,         \* the next instruction of each task
    data,       \* the applications' shared variables
    resumes     \* calls of hf_resume() so far

vars == <<syncvars, app, pc, data, resumes>>

-----------------------------------------------------------------------------
(* Programs.  "when" is the condition of an instruction: an if, unless the *)
(* instruction is hf_condwait(), where it is a while.                      *)

Instr(op, obj) == [op |-> op, obj |-> obj, when |-> "always"]
Cond(op, obj, when) == [op |-> op, obj |-> obj, when |-> when]
Wait(s) == Instr("hf_semwait", s)
Post(s) == Instr("hf_sempost", s)
Do(op) == Instr(op, "-")

(* Mutation: the producer does not wait for a free cell. *)
SemProducer_unbounded == <<Wait("m"), Do("buffer[in]=item"), Do("in=(in+1)%N"), Post("m"), Post("full")>>

(* app/sem_test1 *)
SemProducer == <<Wait("empty"), Wait("m"), Do("buffer[in]=item"), Do("in=(in+1)%N"),
                 Post("m"), Post("full")>>
SemConsumer == <<Wait("full"), Wait("m"), Do("item=buffer[out]"), Do("out=(out+1)%N"),
                 Post("m"), Post("empty")>>

(* app/cond_test1 *)
CondProducer == <<Instr("hf_mtxlock", "m"), Cond("hf_condwait", "empty", "items==N"),
                  Do("buffer[in]=item"), Do("items++"), Do("in=(in+1)%N"),
                  Instr("hf_condsignal", "full"), Instr("hf_mtxunlock", "m")>>
CondConsumer == <<Instr("hf_mtxlock", "m"), Cond("hf_condwait", "full", "items==0"),
                  Do("item=buffer[out]"), Do("items--"), Do("out=(out+1)%N"),
                  Instr("hf_condsignal", "empty"), Instr("hf_mtxunlock", "m")>>

(* app/readers_writers *)
Reader == <<Wait("mtx"), Wait("r_db"), Wait("mtx_rc"), Do("rc++"),
            Cond("hf_semwait", "w_db", "rc==1"), Post("mtx_rc"), Post("r_db"), Post("mtx"),
            Do("read"), Wait("mtx_rc"), Do("rc--"),
            Cond("hf_sempost", "w_db", "rc==0"), Post("mtx_rc")>>
Writer == <<Wait("mtx_wc"), Do("wc++"), Cond("hf_semwait", "r_db", "wc==1"), Post("mtx_wc"),
            Wait("w_db"), Do("write"), Post("w_db"),
            Wait("mtx_wc"), Do("wc--"), Cond("hf_sempost", "r_db", "wc==0"), Post("mtx_wc")>>

(* app/mutex_test1, with MUTEX_TYPE 0 and 1 *)
SpinTask == <<Instr("hf_mtxlock", "m"), Do("shared"), Instr("hf_mtxunlock", "m")>>
FilterTask == <<Instr("filter_mtxlock", "m"), Do("shared"), Instr("filter_mtxunlock", "m")>>

(* app/cond_test2 *)
Waiter == <<Instr("hf_condwait", "full"), Do("received")>>
Signaller == <<Instr("hf_condsignal", "full"), Instr("hf_condbroadcast", "full")>>

(* hf_malloc() from a task, and from hf_spawn() or hf_seminit(), which have *)
(* disabled interrupts; m is the lock krnl_malloc.                         *)
Mallocer == <<Instr("hf_mtxlock", "m"), Do("shared"), Instr("hf_mtxunlock", "m")>>
Spawner == <<Do("_di"), Instr("hf_mtxlock", "m"), Do("shared"), Instr("hf_mtxunlock", "m"), Do("_ei")>>

Programs == [sem_test1 |-> <<SemProducer, SemConsumer>>,
             cond_test1 |-> <<CondProducer, CondConsumer>>,
             readers_writers |-> <<Reader, Writer>>,
             mutex_test1 |-> <<SpinTask, SpinTask>>,
             mutex_filter |-> <<FilterTask, FilterTask>>,
             cond_test2 |-> <<Waiter, Signaller>>,
             spawn_malloc |-> <<Spawner, Mallocer>>,
             spawn_only |-> <<Spawner, Spawner>>]

(* app_main(): one hf_seminit(), hf_condinit() or hf_mtxinit() for each    *)
(* object, then the tasks are spawned and the idle task loops.  The scratch *)
(* objects are created and destroyed.                                      *)
Init1(s, n) == [op |-> "hf_seminit", obj |-> s, when |-> "always", value |-> n]
Launch == <<Do("start"), Do("idle")>>
SemMain == <<Init1("scratch", -1), Instr("hf_semdestroy", "scratch"),
             Init1("empty", N), Init1("full", 0), Init1("m", 1)>> \o Launch
CondMain == <<Instr("hf_condinit", "scratch"), Instr("hf_conddestroy", "scratch"),
              Instr("hf_condinit", "empty"), Instr("hf_condinit", "full"),
              Instr("hf_mtxinit", "m")>> \o Launch
ReadersWritersMain == <<Init1("mtx_rc", 1), Init1("mtx_wc", 1), Init1("mtx", 1),
                        Init1("w_db", 1), Init1("r_db", 1)>> \o Launch
MutexMain == <<Instr("hf_mtxinit", "m")>> \o Launch
FilterMain == <<Instr("filter_mtxinit", "m")>> \o Launch
Cond2Main == <<Instr("hf_condinit", "full"), Instr("hf_mtxinit", "m")>> \o Launch

Mains == [sem_test1 |-> SemMain, cond_test1 |-> CondMain, readers_writers |-> ReadersWritersMain,
          mutex_test1 |-> MutexMain, mutex_filter |-> FilterMain, cond_test2 |-> Cond2Main,
          spawn_malloc |-> MutexMain, spawn_only |-> MutexMain]

(* The applications are among these, and their objects exist. *)
ASSUME AppsAssumption ==
    /\ Apps \subseteq DOMAIN Programs
    /\ MaxResumes \in Nat
    /\ {"empty", "full", "m", "mtx", "mtx_rc", "mtx_wc", "r_db", "w_db", "scratch"} \subseteq Sems
    /\ {"empty", "full", "scratch"} \subseteq Conds
    /\ "m" \in Mtxs

Program(t) == IF t = 0 THEN Mains[app.name]
              ELSE Programs[app.name][IF t <= app.first THEN 1 ELSE 2]
Next_(t) == Program(t)[pc[t]]
AtOp(t, ops) == stage[t] = "run" /\ Next_(t).op \in ops

Holds(when) == CASE when = "always" -> TRUE
                 [] when = "items==N" -> data.items = N
                 [] when = "items==0" -> data.items = 0
                 [] when = "rc==1" -> data.rc = 1
                 [] when = "rc==0" -> data.rc = 0
                 [] when = "wc==1" -> data.wc = 1
                 [] when = "wc==0" -> data.wc = 0

-----------------------------------------------------------------------------
Cells == 0..(N - 1)

TypeOK ==
    /\ SyncTypeOK
    /\ app \in [name : Apps, first : 1..(MAX_TASKS - 2)]
    /\ pc \in [Tasks -> 1..14]
    /\ data \in [buffer : [Cells -> {"free", "item"}], in : Cells, out : Cells, items : Int,
                 rc : Int, wc : Int]
    /\ resumes \in 0..MaxResumes

Init ==
    /\ SyncInit
    /\ app \in [name : Apps, first : 1..(MAX_TASKS - 2)]
    /\ pc = [t \in Tasks |-> 1]
    /\ data = [buffer |-> [i \in Cells |-> "free"], in |-> 0, out |-> 0, items |-> 0, rc |-> 0, wc |-> 0]
    /\ resumes = 0

(* The statements on shared data; taking an item frees its cell. *)
Statement(op) ==
    CASE op = "buffer[in]=item" -> [data EXCEPT !.buffer[data.in] = "item"]
      [] op = "in=(in+1)%N" -> [data EXCEPT !.in = (data.in + 1) % N]
      [] op = "item=buffer[out]" -> [data EXCEPT !.buffer[data.out] = "free"]
      [] op = "out=(out+1)%N" -> [data EXCEPT !.out = (data.out + 1) % N]
      [] op = "items++" -> [data EXCEPT !.items = data.items + 1]
      [] op = "items--" -> [data EXCEPT !.items = data.items - 1]
      [] op = "rc++" -> [data EXCEPT !.rc = data.rc + 1]
      [] op = "rc--" -> [data EXCEPT !.rc = data.rc - 1]
      [] op = "wc++" -> [data EXCEPT !.wc = data.wc + 1]
      [] op = "wc--" -> [data EXCEPT !.wc = data.wc - 1]
      [] OTHER -> data

Statements == {"buffer[in]=item", "in=(in+1)%N", "item=buffer[out]", "out=(out+1)%N", "items++",
               "items--", "rc++", "rc--", "wc++", "wc--", "read", "write", "shared", "received", "idle"}

(* app_main() spawns the tasks and returns to the idle task. *)
Start ==
    /\ state' = [t \in Tasks |-> "READY"]
    /\ UNCHANGED <<stage, sems, conds, lock, filter, local, masked, halted>>

(* The instruction of task t; mem is whether a queue can be created. *)
Execute(t, i) ==
    \/ i.op = "hf_seminit" /\ \E mem \in BOOLEAN : hf_seminit(t, i.obj, i.value, mem)
    \/ i.op = "hf_semdestroy" /\ hf_semdestroy(t, i.obj)
    \/ i.op = "hf_semwait" /\ hf_semwait(t, i.obj)
    \/ i.op = "hf_sempost" /\ hf_sempost(t, i.obj)
    \/ i.op = "hf_condinit" /\ \E mem \in BOOLEAN : hf_condinit(t, i.obj, mem)
    \/ i.op = "hf_conddestroy" /\ hf_conddestroy(t, i.obj)
    \/ i.op = "hf_condwait" /\ hf_condwait(t, i.obj, "m")
    \/ i.op = "hf_condsignal" /\ hf_condsignal(t, i.obj)
    \/ i.op = "hf_condbroadcast" /\ hf_condbroadcast(t, i.obj)
    \/ i.op = "hf_mtxinit" /\ hf_mtxinit(t, i.obj)
    \/ i.op = "hf_mtxlock" /\ hf_mtxlock(t, i.obj)
    \/ i.op = "hf_mtxunlock" /\ hf_mtxunlock(t, i.obj)
    \/ i.op = "filter_mtxinit" /\ filter_mtxinit(t, i.obj)
    \/ i.op = "filter_mtxlock" /\ filter_mtxlock(t, i.obj)
    \/ i.op = "filter_mtxunlock" /\ filter_mtxunlock(t, i.obj)
    \/ i.op = "_di" /\ _di(t)
    \/ i.op = "_ei" /\ _ei(t)
    \/ i.op = "start" /\ Start
    \/ i.op \in Statements /\ At(t, "run") /\ UNCHANGED syncvars

(* A while condition is evaluated again after the call; the last           *)
(* instruction of a task is followed by its first.                         *)
Following(t, i) ==
    CASE i.op = "hf_condwait" /\ i.when # "always" -> pc[t]
      [] i.op = "idle" -> pc[t]
      [] t > 0 /\ pc[t] = Len(Program(t)) -> 1
      [] OTHER -> pc[t] + 1

Step(t) ==
    /\ At(t, "run")
    /\ LET i == Next_(t)
       IN \/ /\ Holds(i.when)
             /\ Execute(t, i)
             /\ data' = Statement(i.op)
             /\ pc' = [pc EXCEPT ![t] = Following(t, i)]
          \/ /\ ~Holds(i.when)
             /\ pc' = [pc EXCEPT ![t] = @ + 1]
             /\ UNCHANGED <<syncvars, data>>
    /\ UNCHANGED <<app, resumes>>

Inside(t) == InsideCall(t) /\ UNCHANGED <<app, pc, data, resumes>>

(* Some task resumes a waiter of the buffer's semaphores. *)
Resume(w) ==
    /\ app.name = "sem_test1"
    /\ resumes < MaxResumes
    /\ hf_resume(w)
    /\ resumes' = resumes + 1
    /\ UNCHANGED <<app, pc, data>>

(* A queue that could not be created was used, and the system stopped. *)
Stopped == halted # Running /\ UNCHANGED vars

Next ==
    \/ \E t \in Tasks : Step(t) \/ Inside(t) \/ Resume(t)
    \/ Stopped

Spec == Init /\ [][Next]_vars

(* Every task that is not blocked is given the processor again and again   *)
(* (NoStarvation of Kernel).                                               *)
FairSpec == Spec /\ \A t \in Tasks : WF_vars(Step(t)) /\ WF_vars(Inside(t))

-----------------------------------------------------------------------------
(* Properties. *)

(* Nobody interfered with the waiters and every object was created. *)
Regular == resumes = 0 /\ halted = Running

(* The objects a task may wait for, and their queues; a queue that could   *)
(* not be created, or was destroyed, holds nobody.                         *)
Objects == ({"sem"} \X Sems) \cup ({"cond"} \X Conds)
QueueOf(o) == LET q == IF o[1] = "sem" THEN sems[o[2]].sem_queue ELSE conds[o[2]]
              IN IF q \in NoQueue THEN << >> ELSE q

(* No wake-up is lost: a semaphore has as many waiters in its queue as its *)
(* count is below zero, and a blocked task is in a queue from which a post *)
(* or a signal takes it (hf_semwait, hf_sempost, hf_condwait).  So, as     *)
(* long as at most one waiter was woken by hf_resume(), which leaves it in *)
(* its queue, PANIC_NUTS_SEM is not reached: neither for a full queue nor  *)
(* for an empty one that should have a waiter.                             *)
WaitersAreQueued ==
    /\ TypeOK
    /\ resumes <= 1 => halted # "PANIC_NUTS_SEM"
    /\ \A s \in Sems : sems[s].sem_queue \notin NoQueue /\ halted = Running =>
           Len(sems[s].sem_queue) = IF sems[s].count < 0 THEN -sems[s].count ELSE 0
    /\ \A t \in Tasks : resumes <= 1 /\ state[t] = "BLOCKED" =>
           \E o \in Objects : t \in ToSet(QueueOf(o))

(* Without hf_resume() a task is in the queues as often as it is blocked:  *)
(* once, in the queue of one object, or not at all.  So a post or a signal *)
(* never wakes a task that waits elsewhere or not at all (hf_semwait,      *)
(* hf_sempost, hf_condwait, hf_condsignal, hf_condbroadcast).              *)
QueuedOnce ==
    Regular =>
        /\ \A t \in Tasks : state[t] = "BLOCKED" <=> \E o \in Objects : t \in ToSet(QueueOf(o))
        /\ \A o \in Objects : IsInjective(QueueOf(o))
        /\ \A o, p \in Objects : o # p => ToSet(QueueOf(o)) \cap ToSet(QueueOf(p)) = {}

(* Statements that the applications mean to execute one task at a time. *)
BufferOps == {"buffer[in]=item", "in=(in+1)%N", "item=buffer[out]", "out=(out+1)%N", "items++",
              "items--", "shared", "write"}

(* Mutual exclusion, by a binary semaphore, by the spin lock also after    *)
(* hf_condwait() took it again, by the filter lock, and by the reader and  *)
(* writer counts: at most one task is at a statement that needs it, and no *)
(* reader reads while a writer writes.                                     *)
Exclusion ==
    Regular =>
        /\ Cardinality({t \in Tasks : AtOp(t, BufferOps)}) <= 1
        /\ ~ \E r, w \in Tasks : AtOp(r, {"read"}) /\ AtOp(w, {"write"})

(* The bounded buffers lose nothing: an item is put only in a free cell    *)
(* and taken only from a cell that holds one.                              *)
BufferIntact ==
    [][Regular => \A i \in Cells :
           /\ (\E t \in Tasks : AtOp(t, {"buffer[in]=item"}) /\ pc'[t] # pc[t]) /\ data.in = i
                  => data.buffer[i] = "free"
           /\ (\E t \in Tasks : AtOp(t, {"item=buffer[out]"}) /\ pc'[t] # pc[t]) /\ data.out = i
                  => data.buffer[i] = "item"]_vars

(* Waiting is fair with semaphores, whose queues are FIFO, and with the    *)
(* filter lock: every task of the bounded buffer and of the filter lock    *)
(* completes its loop again and again.                                     *)
EveryTaskProceeds ==
    \A t \in Tasks \ {0} :
        []<>(pc[t] = 1 \/ ~Regular \/ app.name \notin {"sem_test1", "mutex_filter"})

(* The spin lock and the condition variables let the system go on: items   *)
(* keep flowing through the buffer of cond_test1, the waiters of           *)
(* cond_test2 keep receiving signals, the database of readers_writers is   *)
(* read or written again and again, and so is what a spin lock guards.     *)
(* (Which task gets a spin lock is decided by no queue, so a single task   *)
(* may starve.)                                                            *)
SystemProceeds ==
    /\ []<>(data.in = 0 \/ ~Regular \/ app.name # "cond_test1")
    /\ []<>(data.in # 0 \/ ~Regular \/ app.name # "cond_test1")
    /\ []<>((\E t \in Tasks : AtOp(t, {"received", "read", "write", "shared"}))
            \/ ~Regular \/ app.name \in {"cond_test1", "sem_test1"})

(* A caller that has disabled interrupts enables them again: hf_spawn(),   *)
(* hf_seminit() and hf_condinit(), which call hf_malloc() in between,      *)
(* return.                                                                 *)
MaskedCallsReturn == []<>(masked = Nobody)
=============================================================================
