---------------------------- MODULE RateMonotonic ----------------------------
(***************************************************************************)
(* The task sets of app/aula_10, run by the kernel of module Kernel: the   *)
(* test program states which sets are schedulable, which tasks of the      *)
(* overloaded one lose deadlines, and what hf_freecpu() reports.           *)
(***************************************************************************)
EXTENDS Kernel, FiniteSetsExt

VARIABLE group      \* the set app_main() was compiled with

rmVars == <<vars, group>>

(* app_main(): period and capacity; the deadline is the period. *)
Groups ==
    << << <<5, 2>>, <<7, 3>> >>,
       << <<6, 1>>, <<10, 3>>, <<16, 4>> >>,
       << <<5, 2>>, <<8, 2>>, <<12, 2>> >>,
       << <<8, 4>>, <<12, 6>>, <<20, 5>> >>,
       << <<5, 2>>, <<9, 3>>, <<20, 1>>, <<30, 1>> >>,
       << <<7, 2>>, <<8, 1>>, <<9, 1>>, <<10, 2>>, <<13, 1>> >> >>

RmInit == Init /\ group \in 1..Len(Groups)

(* The calls of hf_spawn() in order; the idle task is task 0. *)
app_main ==
    /\ ~up
    /\ krnl_tasks <= Len(Groups[group])
    /\ LET p == Groups[group][krnl_tasks]
       IN  hf_spawn(p[1], p[2], p[1], TRUE)
    /\ UNCHANGED group

Started == krnl_tasks > Len(Groups[group])

RmNext ==
    \/ app_main
    \/ Started /\ idletask /\ UNCHANGED group
    \/ dispatch_isr /\ UNCHANGED group

RmSpec == RmInit /\ [][RmNext]_rmVars

-----------------------------------------------------------------------------
(* Mutation: the percentage is divided before it is multiplied. *)
FreeCpuPercentLost ==
    100 - MapThenSumSet(LAMBDA t : krnl_tcb[t].capacity * (100 \div krnl_tcb[t].period),
                        {t \in Slots : Live(t) /\ krnl_tcb[t].state # "BLOCKED"
                                               /\ krnl_tcb[t].period # 0})

(* hf_freecpu(): integer percentages, summed over the real-time tasks. *)
hf_freecpu ==
    100 - MapThenSumSet(LAMBDA t : (krnl_tcb[t].capacity * 100) \div krnl_tcb[t].period,
                        {t \in Slots : Live(t) /\ krnl_tcb[t].state # "BLOCKED"
                                               /\ krnl_tcb[t].period # 0})

Missed(t) == krnl_tcb[t].deadline_misses > 0

(* "Escalonavel": in groups 1, 2, 3, 5 and 6 no task ever loses a          *)
(* deadline, and in group 4 the first task does not.                       *)
SchedulableSetsMeetDeadlines ==
    \A t \in Slots : Missed(t) => group = 4 /\ t \in {2, 3}

(* "CPU livre": what the program says hf_freecpu() reports for each group. *)
FreeCpuAsStated ==
    Started => hf_freecpu = <<18, 29, 19, -25, 19, 22>>[group]
=============================================================================
