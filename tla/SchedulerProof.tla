--------------------------- MODULE SchedulerProof ---------------------------
(***************************************************************************)
(* What the two schedulers of module Kernel do with the budgets of the     *)
(* tasks: the remaining priorities of sched_priorityrr(), the windows of   *)
(* sched_rma(), and that between them they always find a task to run.      *)
(***************************************************************************)
EXTENDS KernelProof

(* The fields that the best effort scheduler works on, and those that the  *)
(* real-time scheduler works on.                                           *)
SamePriority(new, old) ==
    new.priority = old.priority /\ new.priority_rem = old.priority_rem

SameWindow(new, old) ==
    /\ new.capacity = old.capacity
    /\ new.capacity_rem = old.capacity_rem
    /\ new.deadline_rem = old.deadline_rem

(* A window that stands. *)
Window(e) == e.deadline_rem >= 1 /\ e.capacity_rem <= e.capacity

-----------------------------------------------------------------------------
(* Best effort scheduling. *)

(* No runnable task of the queue has less priority remaining than the one  *)
(* that sched_priorityrr() chooses.                                        *)
LEMMA BeTaskLowest ==
    ASSUME NEW tcb \in [Slots -> Tcb], NEW q, IsQueue(q, Slots), BeFault(tcb, q) = NotHalted,
           CriticalPlaces(tcb, q) = {}, NEW t \in Range(q), Runnable(tcb, t)
    PROVE  tcb[BeTask(tcb, q)].priority_rem <= tcb[t].priority_rem
<1> DEFINE b == BeTask(tcb, q)
<1>1. /\ BePlace(tcb, q) \in 1..Len(q) /\ BePlace(tcb, q) \in CandidatePlaces(tcb, q)
      /\ \A k \in CandidatePlaces(tcb, q) : tcb[b].priority_rem <= tcb[Scan(q)[k]].priority_rem
  BY BePlaceIs
<1>2. b \in Slots /\ t \in Slots
  BY BeQueueKeeps, QueuePlaces
<1>3. tcb[b].priority_rem < 255
  BY <1>1 DEF CandidatePlaces, BeTask
<1>4. tcb[b].priority_rem \in Nat /\ tcb[t].priority_rem \in Nat
  <2>1. tcb[b].priority_rem \in UInt8 /\ tcb[t].priority_rem \in UInt8
    BY <1>2 DEF Tcb
  <2> QED
    BY <2>1, UnsignedNat
<1>5. PICK k \in 1..Len(q) : t = Scan(q)[k]
  <2>1. Len(q) \in Nat /\ 1 \in 0..Len(q)
    BY <1>1, QueuePlaces
  <2>2. IsQueue(Scan(q), Slots) /\ Len(Scan(q)) = Len(q) /\ Range(Scan(q)) = Range(q)
    BY <2>1, RotateKeeps DEF Scan
  <2> QED
    BY <2>2, QueuePlaces
<1>6. CASE tcb[t].priority_rem < 255
  <2>1. k \in CandidatePlaces(tcb, q)
    BY <1>5, <1>6 DEF CandidatePlaces
  <2> QED
    BY <1>1, <1>5, <2>1
<1>7. CASE ~(tcb[t].priority_rem < 255)
  <2> HIDE DEF b
  <2>1. tcb[b].priority_rem <= tcb[t].priority_rem
    BY <1>3, <1>4, <1>7
  <2> QED
    BY <2>1 DEF b
<1> QED
  BY <1>6, <1>7

LEMMA SmallRemainder == ASSUME NEW K \in Nat, NEW k \in 0..K PROVE k % (K + 1) = k
BY SMT

(* What a subtraction of eight bits leaves when it does not wrap. *)
LEMMA NoWrap ==
    ASSUME NEW m \in UInt8, NEW n \in UInt8, n <= m
    PROVE  uint8(m - n) <= m
<1>1. PICK K \in Nat : UInt8 = 0..K /\ \A k \in Int : uint8(k) = k % (K + 1)
  BY Width8
<1>2. m - n \in 0..K /\ m - n <= m
  BY <1>1, SMT
<1>3. (m - n) % (K + 1) = m - n
  BY <1>2, SmallRemainder
<1>4. uint8(m - n) = (m - n) % (K + 1)
  BY <1>1, <1>2, SMT
<1> QED
  BY <1>2, <1>3, <1>4

(* The control blocks after a choice: a task that waits comes no further   *)
(* from the processor, the chosen one starts over.                         *)
Spares(new, tcb, q, chosen) ==
    \A t \in Slots :
        /\ new[t].priority = tcb[t].priority
        /\ SameWindow(new[t], tcb[t])
        /\ t \notin Range(q) => new[t].priority_rem = tcb[t].priority_rem
        /\ t = chosen => new[t].priority_rem \in {tcb[t].priority, tcb[t].priority_rem}
        /\ t \in Range(q) /\ t # chosen /\ Runnable(tcb, t)
             => new[t].priority_rem <= tcb[t].priority_rem

LEMMA BeTcbSpares ==
    ASSUME NEW tcb \in [Slots -> Tcb], NEW q, IsQueue(q, Slots), BeFault(tcb, q) = NotHalted
    PROVE  Spares(BeTcb(tcb, q), tcb, q, BeTask(tcb, q))
<1> DEFINE chosen == BeTask(tcb, q)
           new == BeTcb(tcb, q)
           charge(t) == uint8(tcb[t].priority_rem - tcb[chosen].priority_rem)
<1>1. chosen \in Slots /\ chosen \in Range(q)
  BY BeQueueKeeps, QueuePlaces
<1>2. /\ \A t \in Slots : tcb[t] \in Tcb
      /\ \A t \in Slots : tcb[t].priority \in UInt8 /\ tcb[t].priority_rem \in UInt8
  BY DEF Tcb
<1>3. \A n \in UInt8 : n <= n
  BY UnsignedNat, SMT
<1>4. CASE CriticalPlaces(tcb, q) # {}
  <2> DEFINE e == [tcb[chosen] EXCEPT !.critical = FALSE]
  <2>1. SamePriority(e, tcb[chosen]) /\ SameWindow(e, tcb[chosen])
    BY <1>1, <1>2 DEF Tcb, SamePriority, SameWindow
  <2>2. new = [tcb EXCEPT ![chosen] = e]
    BY <1>4 DEF BeTcb
  <2> HIDE DEF e, new, chosen
  <2>3. new[chosen] = e /\ \A t \in Slots : t # chosen => new[t] = tcb[t]
    BY <1>1, <2>2
  <2>4. \A t \in Slots : SamePriority(new[t], tcb[t]) /\ SameWindow(new[t], tcb[t])
    BY <2>1, <2>3 DEF SamePriority, SameWindow
  <2> QED
    BY <1>2, <1>3, <2>4 DEF Spares, SamePriority, new, chosen
<1>5. CASE CriticalPlaces(tcb, q) = {}
  <2>1. new = [t \in Slots |->
                 IF t = chosen THEN [tcb[t] EXCEPT !.priority_rem = tcb[t].priority]
                 ELSE IF t \in Range(q) THEN [tcb[t] EXCEPT !.priority_rem = charge(t)]
                 ELSE tcb[t]]
    BY <1>5 DEF BeTcb
  <2>2. \A e \in Tcb : \A n :
          LET r == [e EXCEPT !.priority_rem = n]
          IN  r.priority_rem = n /\ r.priority = e.priority /\ SameWindow(r, e)
    BY DEF Tcb, SameWindow
  <2>3. \A t \in Range(q) : Runnable(tcb, t) => charge(t) <= tcb[t].priority_rem
    <3> TAKE t \in Range(q)
    <3> HAVE Runnable(tcb, t)
    <3>1. tcb[chosen].priority_rem <= tcb[t].priority_rem
      BY <1>5, BeTaskLowest
    <3>2. t \in Slots
      BY QueuePlaces
    <3>3. tcb[chosen].priority_rem \in UInt8 /\ tcb[t].priority_rem \in UInt8
      BY <1>1, <1>2, <3>2
    <3> HIDE DEF chosen
    <3> QED
      BY <3>1, <3>3, NoWrap
  <2> HIDE DEF new, chosen, charge
  <2>4. ASSUME NEW t \in Slots
        PROVE  /\ new[t].priority = tcb[t].priority
               /\ SameWindow(new[t], tcb[t])
               /\ t \notin Range(q) => new[t].priority_rem = tcb[t].priority_rem
               /\ t = chosen => new[t].priority_rem \in {tcb[t].priority, tcb[t].priority_rem}
               /\ t \in Range(q) /\ t # chosen /\ Runnable(tcb, t)
                    => new[t].priority_rem <= tcb[t].priority_rem
    <3>1. CASE t = chosen
      <4>1. new[t] = [tcb[t] EXCEPT !.priority_rem = tcb[t].priority]
        BY <2>1, <3>1
      <4> QED
        BY <1>1, <1>2, <2>2, <3>1, <4>1
    <3>2. CASE t # chosen /\ t \in Range(q)
      <4>1. new[t] = [tcb[t] EXCEPT !.priority_rem = charge(t)]
        BY <2>1, <3>2
      <4>2. /\ new[t].priority_rem = charge(t) /\ new[t].priority = tcb[t].priority
            /\ SameWindow(new[t], tcb[t])
        BY <1>2, <2>2, <4>1
      <4> QED
        BY <2>3, <3>2, <4>2
    <3>3. CASE t # chosen /\ t \notin Range(q)
      BY <2>1, <3>3 DEF SameWindow
    <3> QED
      BY <3>1, <3>2, <3>3
  <2> QED
    BY <2>4 DEF Spares, new, chosen
<1> QED
  BY <1>4, <1>5

-----------------------------------------------------------------------------
(* The parts of the dispatcher. *)

(* Every task has the budget that it had, and is as runnable. *)
Untouched(tcb) ==
    \A t \in Slots : /\ SamePriority(tcb[t], krnl_tcb[t])
                     /\ SameWindow(tcb[t], krnl_tcb[t])
                     /\ Runnable(tcb, t) <=> Runnable(krnl_tcb, t)

LEMMA PreemptedUntouched ==
    ASSUME IInv
    PROVE  Untouched(Preempted)
<1> DEFINE c == krnl_current_task
           st == IF krnl_tcb[c].state = "RUNNING" THEN "READY" ELSE krnl_tcb[c].state
           e == [krnl_tcb[c] EXCEPT !.state = st]
<1>1. krnl_tcb \in [Slots -> Tcb] /\ c \in Slots /\ krnl_tcb[c] \in Tcb
  BY DEF IInv, TypeOK
<1>2. st = "BLOCKED" <=> krnl_tcb[c].state = "BLOCKED"
  OBVIOUS
<1>3. Preempted = [krnl_tcb EXCEPT ![c] = e]
  BY <1>1 DEF Preempted, Tcb
<1> HIDE DEF st
<1>4. SamePriority(e, krnl_tcb[c]) /\ SameWindow(e, krnl_tcb[c]) /\ e.state = st
  BY <1>1 DEF Tcb, SamePriority, SameWindow
<1> HIDE DEF e
<1>5. Preempted[c] = e /\ \A t \in Slots : t # c => Preempted[t] = krnl_tcb[t]
  BY <1>1, <1>3
<1> QED
  BY <1>2, <1>4, <1>5 DEF Untouched, SamePriority, SameWindow, Runnable

LEMMA CountedUntouched ==
    ASSUME IInv
    PROVE  Untouched(Counted(Preempted))
<1> DEFINE old == Preempted
           new == Counted(Preempted)
           dl == Range(krnl_delay_queue)
<1>1. Untouched(old) /\ \A t \in Slots : old[t] \in Tcb
  BY PreemptedUntouched, PreemptedKept DEF Kept
<1>2. new = [t \in Slots |-> IF t \in dl THEN [old[t] EXCEPT !.delay = old[t].delay - 1]
                             ELSE old[t]]
  BY DEF Counted
<1> HIDE DEF old, new, dl
<1>3. \A r \in Tcb : \A n :
        LET e == [r EXCEPT !.delay = n]
        IN  SamePriority(e, r) /\ SameWindow(e, r) /\ e.state = r.state
  BY DEF Tcb, SamePriority, SameWindow
<1>4. ASSUME NEW t \in Slots
      PROVE  SamePriority(new[t], old[t]) /\ SameWindow(new[t], old[t]) /\ new[t].state = old[t].state
  <2>1. CASE t \in dl
    <3>1. new[t] = [old[t] EXCEPT !.delay = old[t].delay - 1]
      BY <1>2, <2>1
    <3> QED
      BY <1>1, <1>3, <3>1
  <2>2. CASE t \notin dl
    BY <1>2, <2>2 DEF SamePriority, SameWindow
  <2> QED
    BY <2>1, <2>2
<1>5. Untouched(new)
  BY <1>1, <1>4 DEF Untouched, SamePriority, SameWindow, Runnable
<1> QED
  BY <1>5 DEF new

(* sched_rma() decrements a window before it compares it with zero, so     *)
(* what it leaves is at least one, and gives a new window its period.      *)
LEMMA RtChargeWindow ==
    ASSUME NEW e \in Tcb, NEW chosen \in BOOLEAN, chosen => e.capacity_rem > 0
    PROVE  /\ SamePriority(RtCharge(e, chosen), e)
           /\ e.period # 0 /\ e.capacity_rem <= e.capacity => Window(RtCharge(e, chosen))
<1> DEFINE rem == IF chosen THEN e.capacity_rem - 1 ELSE e.capacity_rem
           left == uint16(e.deadline_rem - 1)
           missed == rem > 0 /\ e.deadline_misses < MaxMisses
           misses == IF missed THEN e.deadline_misses + 1 ELSE e.deadline_misses
<1>1. /\ e.capacity_rem \in UInt16 /\ e.deadline_rem \in UInt16 /\ e.period \in UInt16
      /\ e.capacity \in UInt16
  BY DEF Tcb
<1>2. left \in UInt16
  <2>1. e.deadline_rem - 1 \in Int
    BY <1>1, Unsigned, SMTT(30)
  <2> QED
    BY <2>1, Wraps
<1>3. \A m, n \in UInt16 : /\ m # 0 => m >= 1
                           /\ m <= m
                           /\ m <= n => m - 1 <= n
  BY UnsignedNat, SMT
<1>4. RtCharge(e, chosen) =
        IF left = 0
        THEN [e EXCEPT !.deadline_rem = e.period, !.capacity_rem = e.capacity,
                       !.deadline_misses = misses]
        ELSE [e EXCEPT !.deadline_rem = left, !.capacity_rem = rem]
  BY DEF RtCharge, Tcb
<1>5. e.capacity_rem <= e.capacity => rem <= e.capacity
  BY <1>1, <1>3
<1> HIDE DEF rem, left, misses
<1>6. CASE left = 0
  <2> DEFINE r == [e EXCEPT !.deadline_rem = e.period, !.capacity_rem = e.capacity,
                            !.deadline_misses = misses]
  <2>1. /\ r.deadline_rem = e.period /\ r.capacity_rem = e.capacity /\ r.capacity = e.capacity
        /\ SamePriority(r, e)
    BY DEF Tcb, SamePriority
  <2>2. RtCharge(e, chosen) = r
    BY <1>4, <1>6
  <2> HIDE DEF r
  <2> QED
    BY <1>1, <1>3, <2>1, <2>2 DEF Window
<1>7. CASE left # 0
  <2> DEFINE r == [e EXCEPT !.deadline_rem = left, !.capacity_rem = rem]
  <2>1. /\ r.deadline_rem = left /\ r.capacity_rem = rem /\ r.capacity = e.capacity
        /\ SamePriority(r, e)
    BY DEF Tcb, SamePriority
  <2>2. RtCharge(e, chosen) = r
    BY <1>4, <1>7
  <2> HIDE DEF r
  <2> QED
    BY <1>2, <1>3, <1>5, <1>7, <2>1, <2>2 DEF Window
<1> QED
  BY <1>6, <1>7

(* The control blocks that a tick hands to the best effort scheduler. *)
LEMMA TickChargedIs ==
    ASSUME IInv, NEW t \in Slots
    PROVE  /\ SamePriority(TickCharged[t], krnl_tcb[t])
           /\ Runnable(TickCharged, t) <=> Runnable(krnl_tcb, t)
           /\ t \notin Range(TickRt) => SameWindow(TickCharged[t], krnl_tcb[t])
           /\ t \in Range(TickRt) =>
                 /\ krnl_tcb[t].period # 0
                 /\ krnl_tcb[t].capacity_rem <= krnl_tcb[t].capacity => Window(TickCharged[t])
<1> DEFINE old == Counted(Preempted)
           chosen == RtTask(old, TickRt)
<1>1. /\ SamePriority(old[t], krnl_tcb[t]) /\ SameWindow(old[t], krnl_tcb[t])
      /\ Runnable(old, t) <=> Runnable(krnl_tcb, t)
  BY CountedUntouched DEF Untouched
<1>2. /\ old[t] \in Tcb /\ old[t].period = krnl_tcb[t].period
      /\ TickCharged[t].state = old[t].state
      /\ IsQueue(TickRt, Slots) /\ 0 \notin Range(TickRt)
      /\ t \in Range(TickRt) => krnl_tcb[t].period # 0
  BY TickParts DEF Kept, Charged, Placed
<1>3. TickCharged[t] = IF t \in Range(TickRt) THEN RtCharge(old[t], t = chosen) ELSE old[t]
  BY DEF TickCharged, RtTcb
<1>4. Runnable(TickCharged, t) <=> Runnable(krnl_tcb, t)
  BY <1>1, <1>2 DEF Runnable
<1>5. CASE t \notin Range(TickRt)
  BY <1>1, <1>3, <1>4, <1>5 DEF SamePriority, SameWindow
<1>6. CASE t \in Range(TickRt)
  <2>1. t = chosen => old[t].capacity_rem > 0
    BY <1>2, <1>6, RtTaskIs DEF RtReady
  <2>2. (t = chosen) \in BOOLEAN
    OBVIOUS
  <2> HIDE DEF old, chosen
  <2>3. /\ SamePriority(RtCharge(old[t], t = chosen), old[t])
        /\ old[t].period # 0 /\ old[t].capacity_rem <= old[t].capacity
             => Window(RtCharge(old[t], t = chosen))
    BY <1>2, <2>1, <2>2, RtChargeWindow, Zenon
  <2>4. TickCharged[t] = RtCharge(old[t], t = chosen)
    BY <1>3, <1>6
  <2> QED
    BY <1>1, <1>2, <1>4, <1>6, <2>3, <2>4 DEF SamePriority, SameWindow
<1> QED
  BY <1>5, <1>6

(* The context switch changes the state of the chosen task alone. *)
LEMMA SwitchSpares ==
    ASSUME IInv, NEW tcb, Kept(tcb), NEW task \in Slots, Live(task), SwitchTo(tcb, task)
    PROVE  /\ krnl_current_task' = task
           /\ \A t \in Slots : /\ SamePriority(krnl_tcb'[t], tcb[t])
                               /\ SameWindow(krnl_tcb'[t], tcb[t])
                               /\ krnl_tcb'[t].ptask = tcb[t].ptask
                               /\ krnl_tcb'[t].period = tcb[t].period
                               /\ krnl_tcb'[t].state = "BLOCKED" => tcb[t].state = "BLOCKED"
<1> DEFINE e == [tcb[task] EXCEPT !.state = "RUNNING"]
<1>1. krnl_current_task' = tcb[task].id /\ krnl_tcb' = [tcb EXCEPT ![task] = e]
  BY DEF SwitchTo
<1>2. tcb \in [Slots -> Tcb] /\ tcb[task] \in Tcb
  BY DEF Kept
<1>3. /\ SamePriority(e, tcb[task]) /\ SameWindow(e, tcb[task]) /\ e.ptask = tcb[task].ptask
      /\ e.period = tcb[task].period /\ e.state # "BLOCKED"
  BY <1>2 DEF Tcb, SamePriority, SameWindow
<1> HIDE DEF e
<1>4. krnl_tcb'[task] = e /\ \A t \in Slots : t # task => krnl_tcb'[t] = tcb[t]
  BY <1>1, <1>2
<1>5. krnl_current_task' = task
  BY <1>1 DEF Kept, IInv, KnowsItsPlace
<1> QED
  BY <1>3, <1>4, <1>5 DEF SamePriority, SameWindow

-----------------------------------------------------------------------------
(* A whole dispatch. *)

(* A window is left alone, or charged for a tick. *)
WindowKept(new, old) ==
    \/ SameWindow(new, old)
    \/ /\ old.period # 0
       /\ old.capacity_rem <= old.capacity => Window(new)

(* What the best effort scheduler is handed. *)
Handed(tcb) ==
    \A t \in Slots : /\ SamePriority(tcb[t], krnl_tcb[t])
                     /\ WindowKept(tcb[t], krnl_tcb[t])
                     /\ Runnable(tcb, t) <=> Runnable(krnl_tcb, t)

(* What a dispatch does to the budgets of the tasks. *)
Budgets ==
    \A t \in Slots :
        /\ krnl_tcb'[t].ptask = krnl_tcb[t].ptask
        /\ krnl_tcb'[t].period = krnl_tcb[t].period
        /\ krnl_tcb'[t].state = "BLOCKED" => krnl_tcb[t].state = "BLOCKED"
        /\ krnl_tcb'[t].priority = krnl_tcb[t].priority
        /\ WindowKept(krnl_tcb'[t], krnl_tcb[t])
        /\ t = krnl_current_task'
             => krnl_tcb'[t].priority_rem \in {krnl_tcb[t].priority, krnl_tcb[t].priority_rem}
        /\ t \in Range(krnl_run_queue) /\ t # krnl_current_task' /\ krnl_tcb[t].state # "BLOCKED"
             => krnl_tcb'[t].priority_rem <= krnl_tcb[t].priority_rem

(* From the control blocks that are on the processor's side of the switch. *)
LEMMA SwitchBudgets ==
    ASSUME IInv, NEW tcb, Kept(tcb), StaysBlocked(tcb), NEW task \in Slots, Live(task),
           SwitchTo(tcb, task),
           \A t \in Slots :
              /\ tcb[t].priority = krnl_tcb[t].priority
              /\ WindowKept(tcb[t], krnl_tcb[t])
              /\ tcb[t].state = "BLOCKED" => krnl_tcb[t].state = "BLOCKED"
              /\ t = task => tcb[t].priority_rem \in {krnl_tcb[t].priority, krnl_tcb[t].priority_rem}
              /\ t \in Range(krnl_run_queue) /\ t # task /\ krnl_tcb[t].state # "BLOCKED"
                   => tcb[t].priority_rem <= krnl_tcb[t].priority_rem
    PROVE  Budgets
<1>1. krnl_current_task' = task
  BY SwitchSpares
<1>2. ASSUME NEW t \in Slots
      PROVE  /\ krnl_tcb'[t].ptask = krnl_tcb[t].ptask
             /\ krnl_tcb'[t].period = krnl_tcb[t].period
             /\ krnl_tcb'[t].state = "BLOCKED" => krnl_tcb[t].state = "BLOCKED"
             /\ krnl_tcb'[t].priority = krnl_tcb[t].priority
             /\ krnl_tcb'[t].priority_rem = tcb[t].priority_rem
             /\ SameWindow(krnl_tcb'[t], tcb[t])
  BY SwitchSpares DEF Kept, SamePriority
<1>3. ASSUME NEW t \in Slots PROVE WindowKept(krnl_tcb'[t], krnl_tcb[t])
  BY <1>2 DEF WindowKept, SameWindow, Window
<1> QED
  BY <1>1, <1>2, <1>3 DEF Budgets

LEMMA DispatchBeBudgets ==
    ASSUME IInv, NEW tcb, Kept(tcb), StaysBlocked(tcb), Handed(tcb), NEW q, IsQueue(q, Slots),
           Range(krnl_run_queue) \subseteq Range(q), \A t \in Range(q) : Live(t),
           BeFault(tcb, q) = NotHalted, DispatchBe(tcb, q)
    PROVE  Budgets
<1> DEFINE task == BeTask(tcb, q)
           new == BeTcb(tcb, q)
<1>1. SwitchTo(new, task)
  BY DEF DispatchBe
<1>2. tcb \in [Slots -> Tcb]
  BY DEF Kept
<1>3. Charged(new, tcb) /\ Spares(new, tcb, q, task)
  BY <1>2, BeTcbCharges, BeTcbSpares
<1>4. task \in Slots /\ Live(task)
  BY <1>2, BeQueueKeeps, QueuePlaces
<1> HIDE DEF task, new
<1>5. Kept(new) /\ StaysBlocked(new)
  BY <1>3, ChargedKept
<1>6. ASSUME NEW t \in Slots
      PROVE  /\ new[t].priority = krnl_tcb[t].priority
             /\ WindowKept(new[t], krnl_tcb[t])
             /\ new[t].state = "BLOCKED" => krnl_tcb[t].state = "BLOCKED"
             /\ t = task => new[t].priority_rem \in {krnl_tcb[t].priority, krnl_tcb[t].priority_rem}
             /\ t \in Range(krnl_run_queue) /\ t # task /\ krnl_tcb[t].state # "BLOCKED"
                  => new[t].priority_rem <= krnl_tcb[t].priority_rem
  <2>1. SamePriority(tcb[t], krnl_tcb[t]) /\ WindowKept(tcb[t], krnl_tcb[t])
    BY DEF Handed
  <2>2. tcb[t].state # "BLOCKED" <=> krnl_tcb[t].state # "BLOCKED"
    BY DEF Handed, Runnable
  <2>3. /\ new[t].priority = tcb[t].priority /\ SameWindow(new[t], tcb[t])
        /\ t = task => new[t].priority_rem \in {tcb[t].priority, tcb[t].priority_rem}
        /\ t \in Range(q) /\ t # task /\ Runnable(tcb, t)
             => new[t].priority_rem <= tcb[t].priority_rem
    BY <1>3 DEF Spares
  <2>4. new[t].state = tcb[t].state
    BY <1>3 DEF Charged
  <2>5. WindowKept(new[t], krnl_tcb[t])
    BY <2>1, <2>3 DEF WindowKept, SameWindow, Window
  <2> QED
    BY <2>1, <2>2, <2>3, <2>4, <2>5 DEF SamePriority, Runnable
<1> QED
  BY <1>1, <1>4, <1>5, <1>6, SwitchBudgets

LEMMA hf_yieldBudgets ==
    ASSUME IInv, hf_yield, halted' = NotHalted
    PROVE  Budgets
<1>1. /\ BeFault(Preempted, krnl_run_queue) = NotHalted
      /\ DispatchBe(Preempted, krnl_run_queue)
  BY HaltKeeps, BeFaultIsCause DEF hf_yield, StackOverflow, Halt, NotHalted
<1>2. Kept(Preempted) /\ StaysBlocked(Preempted)
  BY PreemptedKept
<1>3. Handed(Preempted)
  BY PreemptedUntouched DEF Untouched, Handed, WindowKept
<1>4. IsQueue(krnl_run_queue, Slots) /\ \A t \in Range(krnl_run_queue) : Live(t)
  BY PlacedHolds DEF Placed, Live
<1> QED
  BY <1>1, <1>2, <1>3, <1>4, DispatchBeBudgets

(* A best effort task that is not delayed is still in the run queue. *)
LEMMA TickRunGrows ==
    ASSUME IInv
    PROVE  Range(krnl_run_queue) \subseteq Range(TickRun)
<1>1. /\ Placed(krnl_tcb, krnl_run_queue, krnl_rt_queue, krnl_delay_queue)
      /\ Placed(krnl_tcb, TickRun, TickRt, StillDelayed)
      /\ Range(StillDelayed) \subseteq Range(krnl_delay_queue)
  BY PlacedHolds, TickParts
<1> QED
  BY <1>1 DEF Placed

LEMMA TickBudgets ==
    ASSUME IInv, TickDispatch
    PROVE  Budgets
<1>1. Kept(TickCharged) /\ StaysBlocked(TickCharged)
  BY TickParts
<1>2. Handed(TickCharged)
  BY TickChargedIs DEF Handed, WindowKept
<1>3. CASE TickTask # 0
  <2>1. SwitchTo(TickCharged, TickTask) /\ TickTask \in Slots /\ Live(TickTask)
    BY <1>3, TickTaskIs DEF TickDispatch
  <2>2. \A t \in Slots : krnl_tcb[t].priority_rem <= krnl_tcb[t].priority_rem
    <3>1. \A t \in Slots : krnl_tcb[t].priority_rem \in UInt8
      BY DEF IInv, TypeOK, Tcb
    <3>2. \A n \in UInt8 : n <= n
      BY UnsignedNat, SMT
    <3> QED
      BY <3>1, <3>2
  <2>3. ASSUME NEW t \in Slots
        PROVE  /\ TickCharged[t].priority = krnl_tcb[t].priority
               /\ TickCharged[t].priority_rem = krnl_tcb[t].priority_rem
               /\ WindowKept(TickCharged[t], krnl_tcb[t])
               /\ TickCharged[t].state = "BLOCKED" => krnl_tcb[t].state = "BLOCKED"
    BY <1>2 DEF Handed, SamePriority, Runnable
  <2> QED
    BY <1>1, <2>1, <2>2, <2>3, SwitchBudgets
<1>4. CASE TickTask = 0
  <2>1. BeFault(TickCharged, TickRun) = NotHalted /\ DispatchBe(TickCharged, TickRun)
    BY <1>4 DEF TickDispatch
  <2>2. IsQueue(TickRun, Slots) /\ \A t \in Range(TickRun) : Live(t)
    BY TickParts DEF Placed, Live
  <2> QED
    BY <1>1, <1>2, <2>1, <2>2, TickRunGrows, DispatchBeBudgets
<1> QED
  BY <1>3, <1>4

LEMMA DispatchBudgets ==
    ASSUME IInv, Dispatch
    PROVE  Budgets
<1>1. CASE hf_yield
  BY <1>1, hf_yieldBudgets DEF Dispatch
<1>2. CASE dispatch_isr
  <2>1. TickDispatch
    BY <1>2, dispatch_isrCases DEF Dispatch, StackOverflow, Halt, NotHalted
  <2> QED
    BY <2>1, TickBudgets
<1> QED
  BY <1>1, <1>2 DEF Dispatch

(* A runnable best effort task that the dispatcher did not choose is no    *)
(* further from the processor than before: the eight-bit subtraction of    *)
(* sched_priorityrr() never wraps for it, whatever priorities were set and *)
(* whatever was blocked or resumed since the last choice.                  *)
THEOREM KernelRemainingNeverGrows == Spec => RemainingNeverGrows
<1> DEFINE A == \A t \in Range(krnl_run_queue) :
                   t # krnl_current_task' /\ krnl_tcb[t].state # "BLOCKED"
                     => krnl_tcb'[t].priority_rem <= krnl_tcb[t].priority_rem
<1>1. IInv /\ [Next]_vars => [Dispatch => A]_vars
  <2> SUFFICES ASSUME IInv, Dispatch PROVE A
    OBVIOUS
  <2>1. Budgets
    BY DispatchBudgets
  <2>2. Range(krnl_run_queue) \subseteq Slots
    BY PlacedHolds, QueuePlaces DEF Placed
  <2> QED
    BY <2>1, <2>2 DEF Budgets
<1> QED
  BY <1>1, KernelInvariant, PTL DEF Spec, RemainingNeverGrows

-----------------------------------------------------------------------------
(* The calls. *)

(* A call changes one control block: it takes the task away, makes a new   *)
(* one there, or leaves its window alone.  The idle task's it changes only *)
(* to set its priority.                                                    *)
Touches(id) ==
    /\ \A t \in Slots : t # id => krnl_tcb'[t] = krnl_tcb[t]
    /\ \/ id # 0 /\ krnl_tcb'[id].ptask = FALSE
       \/ /\ id # 0
          /\ \E p \in RTParams : /\ krnl_tcb'[id].period = p[1] /\ krnl_tcb'[id].capacity = p[2]
                                 /\ krnl_tcb'[id].capacity_rem = p[2]
                                 /\ krnl_tcb'[id].deadline_rem = p[3]
       \/ /\ krnl_tcb'[id].ptask = krnl_tcb[id].ptask
          /\ krnl_tcb'[id].period = krnl_tcb[id].period
          /\ SameWindow(krnl_tcb'[id], krnl_tcb[id])
          /\ id = 0 => /\ krnl_tcb'[id].state = krnl_tcb[id].state
                       /\ \/ SamePriority(krnl_tcb'[id], krnl_tcb[id])
                          \/ /\ pending[krnl_current_task].field # "none"
                             /\ pending[krnl_current_task].id = id

LEMMA SameTouches ==
    ASSUME krnl_tcb' = krnl_tcb
    PROVE  Touches(0)
BY DEF Touches, SameWindow, SamePriority

LEMMA hf_spawnTouches ==
    ASSUME IInv, NEW p \in RTParams, NEW mem \in BOOLEAN, hf_spawn(p[1], p[2], p[3], mem)
    PROVE  \E id \in Slots : Touches(id)
<1> DEFINE i == FirstFree
           r == SpawnedAs(krnl_tcb[i], i, p[1], p[2], p[3], mem)
<1>1. krnl_tcb' = krnl_tcb \/ krnl_tcb' = [krnl_tcb EXCEPT ![i] = r]
  BY DEF hf_spawn, Halt, SpawnedAs
<1>2. CASE krnl_tcb' = krnl_tcb
  BY <1>2, SameTouches, ZeroSlot
<1>3. CASE krnl_tcb' = [krnl_tcb EXCEPT ![i] = r]
  <2>1. i \in Slots /\ i # 0
    BY FirstFreeIsFree DEF hf_spawn
  <2>2. krnl_tcb \in [Slots -> Tcb] /\ krnl_tcb[i] \in Tcb
    BY <2>1 DEF IInv, TypeOK
  <2>3. r.period = p[1] /\ r.capacity = p[2] /\ r.capacity_rem = p[2] /\ r.deadline_rem = p[3]
    BY <2>2 DEF SpawnedAs, SpawnedTcb, Tcb
  <2> HIDE DEF i, r
  <2>4. krnl_tcb'[i] = r /\ \A t \in Slots : t # i => krnl_tcb'[t] = krnl_tcb[t]
    BY <1>3, <2>1, <2>2
  <2> QED
    BY <2>1, <2>3, <2>4 DEF Touches
<1> QED
  BY <1>1, <1>2, <1>3

LEMMA hf_killTouches ==
    ASSUME IInv, NEW id \in Slots, hf_kill(id)
    PROVE  \E i \in Slots : Touches(i)
<1> DEFINE r == [krnl_tcb[id] EXCEPT !.id = NoId, !.ptask = FALSE, !.state = "IDLE"]
<1>1. krnl_tcb \in [Slots -> Tcb] /\ krnl_tcb[id] \in Tcb
  BY DEF IInv, TypeOK
<1>2. id # 0 /\ (krnl_tcb' = krnl_tcb \/ krnl_tcb' = [krnl_tcb EXCEPT ![id] = r])
  BY <1>1 DEF hf_kill, Target, Halt, Tcb
<1>3. r.ptask = FALSE
  BY <1>1 DEF Tcb
<1> HIDE DEF r
<1>4. CASE krnl_tcb' = krnl_tcb
  BY <1>4, SameTouches, ZeroSlot
<1>5. CASE krnl_tcb' = [krnl_tcb EXCEPT ![id] = r]
  <2>1. krnl_tcb'[id] = r /\ \A t \in Slots : t # id => krnl_tcb'[t] = krnl_tcb[t]
    BY <1>1, <1>5
  <2> QED
    BY <1>2, <1>3, <2>1 DEF Touches
<1> QED
  BY <1>2, <1>4, <1>5

(* hf_delay(), hf_block() and hf_resume(). *)
LEMMA StateTouches ==
    ASSUME IInv, NEW id \in Slots, id # 0, NEW r, krnl_tcb' = [krnl_tcb EXCEPT ![id] = r],
           r.ptask = krnl_tcb[id].ptask, r.period = krnl_tcb[id].period, SameWindow(r, krnl_tcb[id])
    PROVE  Touches(id)
<1>1. krnl_tcb \in [Slots -> Tcb]
  BY DEF IInv, TypeOK
<1>2. krnl_tcb'[id] = r /\ \A t \in Slots : t # id => krnl_tcb'[t] = krnl_tcb[t]
  BY <1>1
<1> QED
  BY <1>2 DEF Touches

LEMMA hf_delayTouches ==
    ASSUME IInv, NEW id \in Slots, NEW delay \in Delays, hf_delay(id, delay)
    PROVE  \E i \in Slots : Touches(i)
<1> DEFINE r == [krnl_tcb[id] EXCEPT !.state = "DELAYED", !.delay = delay]
<1>1. krnl_tcb \in [Slots -> Tcb] /\ krnl_tcb[id] \in Tcb
  BY DEF IInv, TypeOK
<1>2. id # 0 /\ (krnl_tcb' = krnl_tcb \/ krnl_tcb' = [krnl_tcb EXCEPT ![id] = r])
  BY <1>1 DEF hf_delay, Target, Halt, Tcb
<1>3. /\ r.ptask = krnl_tcb[id].ptask /\ r.period = krnl_tcb[id].period
      /\ SameWindow(r, krnl_tcb[id])
  BY <1>1 DEF Tcb, SameWindow
<1> HIDE DEF r
<1>4. CASE krnl_tcb' = krnl_tcb
  BY <1>4, SameTouches, ZeroSlot
<1>5. CASE krnl_tcb' = [krnl_tcb EXCEPT ![id] = r]
  BY <1>2, <1>3, <1>5, StateTouches
<1> QED
  BY <1>2, <1>4, <1>5

LEMMA hf_blockTouches ==
    ASSUME IInv, NEW id \in Slots, hf_block(id) \/ hf_resume(id)
    PROVE  \E i \in Slots : Touches(i)
<1>1. krnl_tcb \in [Slots -> Tcb] /\ krnl_tcb[id] \in Tcb
  BY DEF IInv, TypeOK
<1>2. PICK st \in {"BLOCKED", "READY"} : id # 0 /\ krnl_tcb' = [krnl_tcb EXCEPT ![id].state = st]
  BY DEF hf_block, hf_resume, Target
<1> DEFINE r == [krnl_tcb[id] EXCEPT !.state = st]
<1>3. krnl_tcb' = [krnl_tcb EXCEPT ![id] = r]
  BY <1>1, <1>2
<1>4. /\ r.ptask = krnl_tcb[id].ptask /\ r.period = krnl_tcb[id].period
      /\ SameWindow(r, krnl_tcb[id])
  BY <1>1 DEF Tcb, SameWindow
<1> HIDE DEF r
<1> QED
  BY <1>2, <1>3, <1>4, StateTouches

LEMMA AssignPriorityTouches ==
    ASSUME IInv, AssignPriority
    PROVE  \E i \in Slots : Touches(i)
<1> DEFINE call == pending[krnl_current_task]
           i == call.id
           first == [krnl_tcb[i] EXCEPT !.priority = call.priority]
           second == [krnl_tcb[i] EXCEPT !.priority_rem = call.priority]
<1>1. /\ krnl_tcb' = [krnl_tcb EXCEPT ![i] = first] \/ krnl_tcb' = [krnl_tcb EXCEPT ![i] = second]
      /\ call.field # "none"
  BY DEF AssignPriority
<1>2. krnl_tcb \in [Slots -> Tcb] /\ call \in Pending
  BY DEF IInv, TypeOK
<1>3. i \in Slots /\ krnl_tcb[i] \in Tcb
  BY <1>2 DEF Pending
<1>4. \A r \in {first, second} :
        /\ r.ptask = krnl_tcb[i].ptask /\ r.period = krnl_tcb[i].period
        /\ SameWindow(r, krnl_tcb[i]) /\ r.state = krnl_tcb[i].state
  BY <1>3 DEF Tcb, SameWindow
<1>5. call.field # "none" /\ call.id = i
  BY <1>1
<1> HIDE DEF i, first, second
<1>6. krnl_tcb'[i] \in {first, second} /\ \A t \in Slots : t # i => krnl_tcb'[t] = krnl_tcb[t]
  BY <1>1, <1>2, <1>3
<1> QED
  BY <1>3, <1>4, <1>5, <1>6 DEF Touches

LEMMA eth_isrTouches ==
    ASSUME IInv, eth_isr
    PROVE  \E i \in Slots : Touches(i)
<1> DEFINE e == [krnl_tcb[NetTask] EXCEPT !.critical = TRUE]
<1>1. NetTask \in Slots /\ krnl_tcb \in [Slots -> Tcb] /\ krnl_tcb[NetTask] \in Tcb
  BY NetTaskAssumption DEF IInv, TypeOK
<1>2. krnl_tcb' = [krnl_tcb EXCEPT ![NetTask] = e]
  BY DEF eth_isr
<1>3. /\ e.ptask = krnl_tcb[NetTask].ptask /\ e.period = krnl_tcb[NetTask].period
      /\ e.state = krnl_tcb[NetTask].state
      /\ SameWindow(e, krnl_tcb[NetTask]) /\ SamePriority(e, krnl_tcb[NetTask])
  BY <1>1 DEF Tcb, SameWindow, SamePriority
<1> HIDE DEF e
<1>4. krnl_tcb'[NetTask] = e /\ \A t \in Slots : t # NetTask => krnl_tcb'[t] = krnl_tcb[t]
  BY <1>1, <1>2
<1> QED
  BY <1>1, <1>3, <1>4 DEF Touches

(* A step is a dispatch, or changes one control block at most. *)
LEMMA StepTouches ==
    ASSUME IInv, [Next]_vars
    PROVE  Dispatch \/ \E id \in Slots : Touches(id)
<1>1. CASE krnl_tcb' = krnl_tcb
  BY <1>1, SameTouches, ZeroSlot
<1>2. CASE hf_yield \/ dispatch_isr
  <2>1. Dispatch \/ krnl_tcb' = krnl_tcb
    <3>1. CASE halted' = NotHalted
      BY <1>2, <3>1 DEF Dispatch
    <3>2. CASE halted' # NotHalted
      <4>1. \/ halted' = halted \/ krnl_tcb' = krnl_tcb
        BY <1>2, dispatch_isrCases
        DEF hf_yield, StackOverflow, Halt, DispatchBe, SwitchTo, TickDispatch
      <4>2. halted = NotHalted
        BY <1>2 DEF hf_yield, CanCall, dispatch_isr
      <4> QED
        BY <3>2, <4>1, <4>2
    <3> QED
      BY <3>1, <3>2
  <2> QED
    BY <1>1, <2>1
<1>3. CASE \/ \E p \in RTParams, mem \in BOOLEAN : hf_spawn(p[1], p[2], p[3], mem)
           \/ \E id \in Slots : hf_kill(id)
           \/ \E id \in Slots, delay \in Delays : hf_delay(id, delay)
  BY <1>3, hf_spawnTouches, hf_killTouches, hf_delayTouches
<1>4. CASE \/ \E id \in Slots : hf_block(id) \/ hf_resume(id)
           \/ AssignPriority \/ eth_isr
  BY <1>4, hf_blockTouches, AssignPriorityTouches, eth_isrTouches
<1>5. CASE \/ idletask
           \/ \E id \in Slots, priority \in Priorities : hf_priorityset(id, priority)
           \/ \E lock \in BOOLEAN : hf_schedlock(lock)
           \/ UNCHANGED vars
  <2>1. krnl_tcb' = krnl_tcb
    BY <1>5 DEF idletask, hf_priorityset, hf_schedlock, vars
  <2> QED
    BY <1>1, <2>1
<1> QED
  BY <1>2, <1>3, <1>4, <1>5 DEF Next, Call

-----------------------------------------------------------------------------
(* The windows of the real-time tasks. *)

(* Every real-time task is given a deadline when it is spawned. *)
DeadlinesGiven == \A p \in RTParams : p[1] # 0 => p[3] >= 1

(* The windows stand, those of delayed tasks included. *)
WindowsStand ==
    \A t \in Slots : Live(t) /\ krnl_tcb[t].period # 0 => Window(krnl_tcb[t])

LEMMA AtMostItself == \A n \in UInt16 : n <= n
BY UnsignedNat, SMT

LEMMA WindowsNext ==
    ASSUME DeadlinesGiven, IInv, WindowsStand, [Next]_vars
    PROVE  WindowsStand'
<1> SUFFICES ASSUME NEW t \in Slots, krnl_tcb'[t].ptask, krnl_tcb'[t].period # 0
             PROVE  Window(krnl_tcb'[t])
  BY DEF WindowsStand, Live
<1>1. CASE Dispatch
  <2>1. /\ krnl_tcb'[t].ptask = krnl_tcb[t].ptask /\ krnl_tcb'[t].period = krnl_tcb[t].period
        /\ WindowKept(krnl_tcb'[t], krnl_tcb[t])
    BY <1>1, DispatchBudgets DEF Budgets
  <2>2. Window(krnl_tcb[t])
    BY <2>1 DEF WindowsStand, Live
  <2> QED
    BY <2>1, <2>2 DEF WindowKept, SameWindow, Window
<1>2. ASSUME NEW id \in Slots, Touches(id) PROVE Window(krnl_tcb'[t])
  <2>1. CASE t # id
    BY <1>2, <2>1 DEF Touches, WindowsStand, Live
  <2>2. CASE t = id /\ \E p \in RTParams :
                           /\ krnl_tcb'[id].period = p[1] /\ krnl_tcb'[id].capacity = p[2]
                           /\ krnl_tcb'[id].capacity_rem = p[2] /\ krnl_tcb'[id].deadline_rem = p[3]
    <3>1. PICK p \in RTParams : /\ krnl_tcb'[t].period = p[1] /\ krnl_tcb'[t].capacity = p[2]
                                /\ krnl_tcb'[t].capacity_rem = p[2]
                                /\ krnl_tcb'[t].deadline_rem = p[3]
      BY <2>2
    <3>2. p[3] >= 1 /\ p[2] \in UInt16
      BY <3>1, RTParamsAssumption DEF DeadlinesGiven
    <3> QED
      BY <3>1, <3>2, AtMostItself DEF Window
  <2>3. CASE /\ t = id /\ krnl_tcb'[id].ptask = krnl_tcb[id].ptask
             /\ krnl_tcb'[id].period = krnl_tcb[id].period /\ SameWindow(krnl_tcb'[id], krnl_tcb[id])
    BY <2>3 DEF WindowsStand, Live, SameWindow, Window
  <2> QED
    BY <1>2, <2>1, <2>2, <2>3 DEF Touches
<1> QED
  BY <1>1, <1>2, StepTouches

(* With a deadline for every real-time task, no window ever stands at zero *)
(* before sched_rma() decrements it, and no task has more capacity left    *)
(* than it asked for.                                                      *)
THEOREM KernelWindowOpen == ASSUME DeadlinesGiven PROVE Spec => []WindowOpen
<1>1. Init => WindowsStand
  <2> SUFFICES ASSUME Init, NEW t \in Slots, krnl_tcb[t].ptask, krnl_tcb[t].period # 0 PROVE FALSE
    BY DEF WindowsStand, Live
  <2>1. CASE t = 0
    BY <2>1 DEF Init, SpawnedTcb, ClearTcb
  <2>2. CASE t # 0
    BY <2>2 DEF Init, ClearTcb
  <2> QED
    BY <2>1, <2>2
<1>2. IInv /\ WindowsStand /\ [Next]_vars => WindowsStand'
  BY WindowsNext
<1>3. IInv /\ WindowsStand => WindowOpen
  <2> SUFFICES ASSUME IInv, WindowsStand, NEW t \in Range(krnl_rt_queue) PROVE Window(krnl_tcb[t])
    BY DEF WindowOpen, Window
  <2>1. t \in Slots /\ Live(t) /\ krnl_tcb[t].period # 0
    BY PlacedHolds, QueuePlaces DEF Placed, Live
  <2> QED
    BY <2>1 DEF WindowsStand
<1> QED
  BY <1>1, <1>2, <1>3, KernelInvariant, PTL DEF Spec

-----------------------------------------------------------------------------
(* Careful clients. *)

(* The clients kill neither themselves nor a delayed task, delay no task   *)
(* twice and leave the idle task's priority as hf_spawn() set it.          *)
CarefulClients ==
    /\ Liberties \cap {"kill_self", "touch_delayed", "idle_priority"} = {}
    /\ SpawnPriority < 255

(* No hf_priorityset() on the idle task is under way. *)
IdleSpared == \A t \in Slots : pending[t].field # "none" => pending[t].id # 0

(* The idle task can always be chosen. *)
IdleReady ==
    /\ 0 \notin Range(krnl_delay_queue)
    /\ krnl_tcb[0].state # "BLOCKED"
    /\ krnl_tcb[0].priority < 255
    /\ krnl_tcb[0].priority_rem < 255

CarefulInv ==
    /\ NeverHalts
    /\ Live(krnl_current_task)
    /\ IdleReady
    /\ IdleSpared

(* A queue that holds each task at most once has room for all. *)
LEMMA QueueLength ==
    ASSUME NEW q, IsQueue(q, Slots)
    PROVE  /\ Len(q) \in Nat /\ Len(q) <= MAX_TASKS
           /\ \A t \in Slots : t \notin Range(q) => Len(q) < MAX_TASKS
<1>1. /\ Len(q) \in Nat /\ DOMAIN q = 1..Len(q) /\ Range(q) \subseteq Slots
      /\ \A i \in 1..Len(q) : q[i] \in Range(q)
      /\ \A i, j \in 1..Len(q) : q[i] = q[j] => i = j
      /\ Range(q) = {q[i] : i \in 1..Len(q)}
  BY QueuePlaces
<1>2. ExistsBijection(1..Len(q), Range(q))
  <2>1. q \in [1..Len(q) -> Range(q)]
    BY <1>1 DEF IsQueue
  <2>2. q \in Bijection(1..Len(q), Range(q))
    BY <1>1, <2>1 DEF Bijection, Injection, Surjection, IsInjective
  <2> QED
    BY <2>2 DEF ExistsBijection
<1>3. Cardinality(Range(q)) = Len(q)
  BY <1>1, <1>2, FS_CountingElements
<1>4. Len(q) <= MAX_TASKS
  <2>1. Cardinality(Range(q)) \in 0..MAX_TASKS
    BY <1>1, SlotsFinite
  <2> QED
    BY <1>1, <1>3, <2>1, MaxTasksNat, SMTT(30)
<1>5. ASSUME NEW t \in Slots, t \notin Range(q) PROVE Len(q) < MAX_TASKS
  <2>1. IsFiniteSet(Range(q)) /\ Cardinality(Range(q) \cup {t}) \in 0..MAX_TASKS
    BY <1>1, SlotsFinite
  <2>2. Cardinality(Range(q) \cup {t}) = Cardinality(Range(q)) + 1
    BY <1>5, <2>1, FS_AddElement
  <2>3. Len(q) + 1 \in 0..MAX_TASKS
    BY <1>3, <2>1, <2>2
  <2> QED
    BY <1>1, <2>3, MaxTasksNat
<1> QED
  BY <1>1, <1>4, <1>5

(* With the idle task in its queue the best effort scheduler finds a task. *)
LEMMA IdleChosen ==
    ASSUME NEW tcb, NEW q, IsQueue(q, Slots), 0 \in Range(q),
           Runnable(tcb, 0), tcb[0].priority_rem < 255
    PROVE  BeFault(tcb, q) = NotHalted
<1>1. PICK i \in 1..Len(q) : q[i] = 0
  BY QueuePlaces
<1>2. Len(q) \in Nat /\ Len(q) # 0 /\ 1 \in 0..Len(q)
  BY <1>1, QueuePlaces
<1>3. IsQueue(Scan(q), Slots) /\ Len(Scan(q)) = Len(q) /\ Range(Scan(q)) = Range(q)
  BY <1>2, RotateKeeps DEF Scan
<1>4. PICK k \in 1..Len(q) : Scan(q)[k] = 0
  BY <1>3, QueuePlaces
<1>5. k \in CandidatePlaces(tcb, q)
  BY <1>4 DEF CandidatePlaces
<1> QED
  BY <1>2, <1>5 DEF BeFault

(* The idle task is in the run queue, and still is after the awakenings of *)
(* a tick.                                                                 *)
LEMMA IdleQueued ==
    ASSUME IInv, CarefulInv
    PROVE  0 \in Range(krnl_run_queue) /\ 0 \in Range(TickRun) /\ krnl_tasks # 0
<1>1. 0 \in Range(krnl_run_queue)
  BY ZeroSlot, PlacedHolds DEF IInv, IdleLives, Live, Placed, CarefulInv, IdleReady
<1>2. 0 \in Range(TickRun)
  BY <1>1, TickRunGrows
<1>3. krnl_tasks # 0
  <2> DEFINE live == {t \in Slots : Live(t)}
  <2>1. live \in SUBSET Slots /\ 0 \in live
    BY ZeroSlot DEF IInv, IdleLives
  <2>2. IsFiniteSet(live) /\ krnl_tasks = Cardinality(live)
    BY <2>1, SlotsFinite DEF IInv, TaskCount
  <2> HIDE DEF live
  <2> QED
    BY <2>1, <2>2, FS_EmptySet
<1> QED
  BY <1>1, <1>2, <1>3

(* The idle task stays ready. *)
LEMMA IdleNext ==
    ASSUME IInv, CarefulInv, [Next]_vars
    PROVE  /\ krnl_tcb'[0].state # "BLOCKED"
           /\ krnl_tcb'[0].priority < 255
           /\ krnl_tcb'[0].priority_rem < 255
<1>1. CASE Dispatch
  <2>1. /\ krnl_tcb'[0].state # "BLOCKED" /\ krnl_tcb'[0].priority = krnl_tcb[0].priority
        /\ \/ krnl_tcb'[0].priority_rem \in {krnl_tcb[0].priority, krnl_tcb[0].priority_rem}
           \/ krnl_tcb'[0].priority_rem <= krnl_tcb[0].priority_rem
    BY <1>1, ZeroSlot, DispatchBudgets, IdleQueued DEF Budgets, CarefulInv, IdleReady
  <2>2. krnl_tcb'[0].priority_rem \in UInt8 /\ krnl_tcb[0].priority_rem \in UInt8
    BY ZeroSlot, NextKeeps DEF IInv, TypeOK, Tcb
  <2>3. \A m, n \in UInt8 : m <= n /\ n < 255 => m < 255
    BY UnsignedNat, SMT
  <2> QED
    BY <2>1, <2>2, <2>3 DEF CarefulInv, IdleReady
<1>2. ASSUME NEW id \in Slots, Touches(id)
      PROVE  /\ krnl_tcb'[0].state = krnl_tcb[0].state
             /\ SamePriority(krnl_tcb'[0], krnl_tcb[0])
  <2>1. krnl_current_task \in Slots
    BY DEF IInv, TypeOK
  <2>2. CASE id # 0
    BY <1>2, <2>2, ZeroSlot DEF Touches, SamePriority
  <2>3. CASE id = 0
    BY <1>2, <2>1, <2>3 DEF Touches, CarefulInv, IdleSpared
  <2> QED
    BY <2>2, <2>3
<1>3. CASE \E id \in Slots : Touches(id)
  BY <1>2, <1>3 DEF SamePriority, CarefulInv, IdleReady
<1> QED
  BY <1>1, <1>3, StepTouches

(* A task that is live and not delayed is where hf_kill() and hf_delay()   *)
(* look for it.                                                            *)
LEMMA Found ==
    ASSUME IInv, NEW id \in Slots, Live(id), id \notin Range(krnl_delay_queue)
    PROVE  id \in Range(RunQueueOf(id))
BY PlacedHolds DEF Placed, Live, RunQueueOf

(* What is left of the invariant once the idle task stays ready. *)
Goes ==
    /\ halted' = NotHalted
    /\ krnl_tcb'[krnl_current_task'].ptask
    /\ 0 \notin Range(krnl_delay_queue')
    /\ \A t \in Slots : pending'[t].field # "none" => pending'[t].id # 0

LEMMA hf_spawnGoes ==
    ASSUME IInv, CarefulInv, NEW p \in RTParams, NEW mem \in BOOLEAN,
           hf_spawn(p[1], p[2], p[3], mem)
    PROVE  Goes
<1> DEFINE i == FirstFree
           r == SpawnedAs(krnl_tcb[i], i, p[1], p[2], p[3], mem)
<1>1. /\ i \in Slots /\ ~Live(i)
      /\ i \notin Range(krnl_run_queue) /\ i \notin Range(krnl_rt_queue)
  BY FirstFreeIsFree DEF hf_spawn
<1>2. /\ Len(krnl_run_queue) \in Nat /\ Len(krnl_run_queue) < MAX_TASKS
      /\ Len(krnl_rt_queue) \in Nat /\ Len(krnl_rt_queue) < MAX_TASKS
  BY <1>1, PlacedHolds, QueueLength DEF Placed
<1>3. /\ ~(Len(krnl_run_queue) >= MAX_TASKS) /\ ~(Len(krnl_rt_queue) >= MAX_TASKS)
  BY <1>2, MaxTasksNat
<1>4. /\ krnl_tcb' = [krnl_tcb EXCEPT ![i] = r]
      /\ pending' = [pending EXCEPT ![i] = NoCall]
      /\ UNCHANGED <<krnl_current_task, krnl_delay_queue, halted>>
  BY <1>3 DEF hf_spawn, SpawnedAs
<1>5. krnl_tcb \in [Slots -> Tcb] /\ krnl_current_task \in Slots /\ pending \in [Slots -> Pending]
  BY DEF IInv, TypeOK
<1> HIDE DEF i, r
<1>6. krnl_tcb'[krnl_current_task'].ptask
  BY <1>1, <1>4, <1>5 DEF CarefulInv, Live
<1>7. \A t \in Slots : pending'[t].field # "none" => pending'[t].id # 0
  BY <1>1, <1>4, <1>5 DEF CarefulInv, IdleSpared, NoCall
<1> QED
  BY <1>4, <1>6, <1>7 DEF Goes, CarefulInv, NeverHalts, IdleReady

LEMMA hf_killGoes ==
    ASSUME CarefulClients, IInv, CarefulInv, NEW id \in Slots, hf_kill(id)
    PROVE  Goes
<1> DEFINE r == [krnl_tcb[id] EXCEPT !.id = NoId, !.ptask = FALSE, !.state = "IDLE"]
<1>1. Live(id) /\ id # krnl_current_task /\ id \notin Range(krnl_delay_queue)
  BY DEF hf_kill, Target, MayMove, CarefulClients
<1>2. krnl_tcb \in [Slots -> Tcb] /\ krnl_current_task \in Slots /\ pending \in [Slots -> Pending]
  BY DEF IInv, TypeOK
<1>3. id \in Range(RunQueueOf(id))
  BY <1>1, Found
<1>4. /\ krnl_tcb' = [krnl_tcb EXCEPT ![id] = r]
      /\ pending' = [pending EXCEPT ![id] = NoCall]
      /\ UNCHANGED <<krnl_current_task, krnl_delay_queue, halted>>
  BY <1>2, <1>3 DEF hf_kill, Tcb
<1> HIDE DEF r
<1>5. krnl_tcb'[krnl_current_task'].ptask
  BY <1>1, <1>2, <1>4 DEF CarefulInv, Live
<1>6. \A t \in Slots : pending'[t].field # "none" => pending'[t].id # 0
  BY <1>2, <1>4 DEF CarefulInv, IdleSpared, NoCall
<1> QED
  BY <1>4, <1>5, <1>6 DEF Goes, CarefulInv, NeverHalts, IdleReady

LEMMA hf_delayGoes ==
    ASSUME CarefulClients, IInv, CarefulInv, NEW id \in Slots, NEW delay \in Delays,
           hf_delay(id, delay)
    PROVE  Goes
<1> DEFINE r == [krnl_tcb[id] EXCEPT !.state = "DELAYED", !.delay = delay]
<1>1. id # 0 /\ Live(id) /\ id \notin Range(krnl_delay_queue)
  BY DEF hf_delay, Target, MayMove, CarefulClients
<1>2. krnl_tcb \in [Slots -> Tcb] /\ krnl_current_task \in Slots
  BY DEF IInv, TypeOK
<1>3. id \in Range(RunQueueOf(id))
  BY <1>1, Found
<1>4. IsQueue(krnl_delay_queue, Slots)
  BY PlacedHolds DEF Placed
<1>5. ~(Len(krnl_delay_queue) >= MAX_TASKS)
  <2>1. Len(krnl_delay_queue) \in Nat /\ Len(krnl_delay_queue) < MAX_TASKS
    BY <1>1, <1>4, QueueLength
  <2> QED
    BY <2>1, MaxTasksNat
<1>6. /\ krnl_tcb' = [krnl_tcb EXCEPT ![id] = r]
      /\ krnl_delay_queue' = Append(krnl_delay_queue, id)
      /\ UNCHANGED <<krnl_current_task, halted, pending>>
  BY <1>2, <1>3, <1>5 DEF hf_delay, Tcb
<1>7. r.ptask = krnl_tcb[id].ptask
  BY <1>2 DEF Tcb
<1> HIDE DEF r
<1>8. krnl_tcb'[krnl_current_task'].ptask
  BY <1>1, <1>2, <1>6, <1>7 DEF CarefulInv, Live
<1>9. 0 \notin Range(krnl_delay_queue')
  BY <1>1, <1>4, <1>6, AppendAdds DEF CarefulInv, IdleReady
<1> QED
  BY <1>6, <1>8, <1>9 DEF Goes, CarefulInv, NeverHalts, IdleSpared

(* The calls that leave the queues alone: they take no task away. *)
LEMMA OtherGoes ==
    ASSUME IInv, CarefulInv, UNCHANGED <<krnl_current_task, krnl_delay_queue, halted, pending>>,
           krnl_tcb'[krnl_current_task].ptask = krnl_tcb[krnl_current_task].ptask
    PROVE  Goes
BY DEF Goes, CarefulInv, NeverHalts, Live, IdleReady, IdleSpared

LEMMA hf_blockGoes ==
    ASSUME IInv, CarefulInv, NEW id \in Slots, hf_block(id) \/ hf_resume(id)
    PROVE  Goes
<1>1. /\ \E st \in {"BLOCKED", "READY"} : krnl_tcb' = [krnl_tcb EXCEPT ![id].state = st]
      /\ UNCHANGED <<krnl_current_task, krnl_delay_queue, halted, pending>>
  BY DEF hf_block, hf_resume, queues
<1>2. krnl_tcb \in [Slots -> Tcb] /\ krnl_current_task \in Slots
  BY DEF IInv, TypeOK
<1>3. krnl_tcb'[krnl_current_task].ptask = krnl_tcb[krnl_current_task].ptask
  BY <1>1, <1>2 DEF Tcb
<1> QED
  BY <1>1, <1>3, OtherGoes

LEMMA eth_isrGoes ==
    ASSUME IInv, CarefulInv, eth_isr
    PROVE  Goes
<1>1. /\ krnl_tcb' = [krnl_tcb EXCEPT ![NetTask].critical = TRUE]
      /\ UNCHANGED <<krnl_current_task, krnl_delay_queue, halted, pending>>
  BY DEF eth_isr, queues
<1>2. krnl_tcb \in [Slots -> Tcb] /\ krnl_current_task \in Slots /\ NetTask \in Slots
  BY NetTaskAssumption DEF IInv, TypeOK
<1>3. krnl_tcb'[krnl_current_task].ptask = krnl_tcb[krnl_current_task].ptask
  BY <1>1, <1>2 DEF Tcb
<1> QED
  BY <1>1, <1>3, OtherGoes

LEMMA hf_prioritysetGoes ==
    ASSUME CarefulClients, IInv, CarefulInv, NEW id \in Slots, NEW priority \in Priorities,
           hf_priorityset(id, priority)
    PROVE  Goes
<1> DEFINE c == [id |-> id, priority |-> priority, field |-> "priority"]
<1>1. id # 0
  BY DEF hf_priorityset, CarefulClients
<1>2. /\ krnl_tcb' = krnl_tcb /\ pending' = [pending EXCEPT ![krnl_current_task] = c]
      /\ UNCHANGED <<krnl_current_task, krnl_delay_queue, halted>>
  BY DEF hf_priorityset, queues
<1>3. c.id # 0
  BY <1>1
<1>4. pending \in [Slots -> Pending] /\ krnl_current_task \in Slots
  BY DEF IInv, TypeOK
<1> HIDE DEF c
<1>5. \A t \in Slots : pending'[t].field # "none" => pending'[t].id # 0
  BY <1>2, <1>3, <1>4 DEF CarefulInv, IdleSpared
<1> QED
  BY <1>2, <1>5 DEF Goes, CarefulInv, NeverHalts, Live, IdleReady

LEMMA AssignPriorityGoes ==
    ASSUME IInv, CarefulInv, AssignPriority
    PROVE  Goes
<1> DEFINE me == krnl_current_task
           call == pending[me]
           i == call.id
           next == [call EXCEPT !.field = "priority_rem"]
           first == [krnl_tcb[i] EXCEPT !.priority = call.priority]
           second == [krnl_tcb[i] EXCEPT !.priority_rem = call.priority]
<1>1. /\ \/ /\ krnl_tcb' = [krnl_tcb EXCEPT ![i] = first]
            /\ pending' = [pending EXCEPT ![me] = next]
         \/ /\ krnl_tcb' = [krnl_tcb EXCEPT ![i] = second]
            /\ pending' = [pending EXCEPT ![me] = NoCall]
      /\ call.field # "none"
      /\ UNCHANGED <<krnl_current_task, krnl_delay_queue, halted>>
  BY DEF AssignPriority, queues
<1>2. krnl_tcb \in [Slots -> Tcb] /\ me \in Slots /\ pending \in [Slots -> Pending]
  BY DEF IInv, TypeOK
<1>3. i \in Slots /\ i # 0 /\ next.id = i
  BY <1>1, <1>2 DEF Pending, CarefulInv, IdleSpared
<1>4. first.ptask = krnl_tcb[i].ptask /\ second.ptask = krnl_tcb[i].ptask
  BY <1>2, <1>3 DEF Tcb
<1> HIDE DEF me, i, next, first, second
<1>5. krnl_tcb'[me].ptask = krnl_tcb[me].ptask
  BY <1>1, <1>2, <1>3, <1>4
<1>6. \A t \in Slots : pending'[t].field # "none" => pending'[t].id # 0
  BY <1>1, <1>2, <1>3 DEF CarefulInv, IdleSpared, NoCall
<1> QED
  BY <1>1, <1>5, <1>6 DEF Goes, CarefulInv, NeverHalts, Live, IdleReady, me

LEMMA hf_yieldGoes ==
    ASSUME IInv, CarefulInv, hf_yield
    PROVE  Goes
<1>1. BeFault(Preempted, krnl_run_queue) = NotHalted
  <2>1. IsQueue(krnl_run_queue, Slots) /\ 0 \in Range(krnl_run_queue)
    BY PlacedHolds, IdleQueued DEF Placed
  <2>2. Runnable(Preempted, 0) /\ Preempted[0].priority_rem < 255
    BY ZeroSlot, PreemptedUntouched
    DEF Untouched, SamePriority, Runnable, CarefulInv, IdleReady
  <2> QED
    BY <2>1, <2>2, IdleChosen
<1>2. krnl_tasks # 0 /\ Live(krnl_current_task)
  BY IdleQueued DEF CarefulInv
<1>3. /\ DispatchBe(Preempted, krnl_run_queue)
      /\ UNCHANGED krnl_delay_queue
  BY <1>1, <1>2 DEF hf_yield, StackOverflow
<1>4. UNCHANGED <<halted, pending>>
  BY <1>3 DEF DispatchBe, SwitchTo
<1>5. krnl_tcb'[krnl_current_task'].ptask
  BY <1>4, hf_yieldKeeps DEF Chosen, CarefulInv, NeverHalts
<1> QED
  BY <1>3, <1>4, <1>5 DEF Goes, CarefulInv, NeverHalts, IdleReady, IdleSpared

LEMMA dispatch_isrGoes ==
    ASSUME IInv, CarefulInv, dispatch_isr
    PROVE  Goes
<1>1. BeFault(TickCharged, TickRun) = NotHalted
  <2>1. IsQueue(TickRun, Slots) /\ 0 \in Range(TickRun)
    BY TickParts, IdleQueued DEF Placed
  <2>2. Runnable(TickCharged, 0) /\ TickCharged[0].priority_rem < 255
    BY ZeroSlot, TickChargedIs DEF SamePriority, Runnable, CarefulInv, IdleReady
  <2> QED
    BY <2>1, <2>2, IdleChosen
<1>2. krnl_tasks # 0 /\ Live(krnl_current_task)
  BY IdleQueued DEF CarefulInv
<1>3. ~(Len(TickRun) > MAX_TASKS) /\ ~(Len(TickRt) > MAX_TASKS)
  <2>1. /\ Len(TickRun) \in Nat /\ Len(TickRun) <= MAX_TASKS
        /\ Len(TickRt) \in Nat /\ Len(TickRt) <= MAX_TASKS
    BY TickParts, QueueLength DEF Placed
  <2> QED
    BY <2>1, MaxTasksNat
<1>4. TickDispatch
  BY <1>1, <1>2, <1>3, dispatch_isrCases DEF StackOverflow
<1>5. UNCHANGED <<halted, pending>>
  BY <1>4 DEF TickDispatch, DispatchBe, SwitchTo
<1>6. krnl_tcb'[krnl_current_task'].ptask
  BY <1>4, TickDispatchKeeps DEF Chosen
<1>7. 0 \notin Range(krnl_delay_queue')
  BY <1>4, TickParts DEF TickDispatch, CarefulInv, IdleReady
<1> QED
  BY <1>5, <1>6, <1>7 DEF Goes, CarefulInv, NeverHalts, IdleSpared

LEMMA CarefulNext ==
    ASSUME CarefulClients, IInv, CarefulInv, [Next]_vars
    PROVE  CarefulInv'
<1> SUFFICES Goes
  BY IdleNext DEF Goes, CarefulInv, NeverHalts, Live, IdleReady, IdleSpared
<1>1. CASE \/ \E p \in RTParams, mem \in BOOLEAN : hf_spawn(p[1], p[2], p[3], mem)
           \/ \E id \in Slots : hf_kill(id)
           \/ \E id \in Slots, delay \in Delays : hf_delay(id, delay)
  BY <1>1, hf_spawnGoes, hf_killGoes, hf_delayGoes
<1>2. CASE \/ \E id \in Slots : hf_block(id) \/ hf_resume(id)
           \/ AssignPriority \/ eth_isr
           \/ \E id \in Slots, priority \in Priorities : hf_priorityset(id, priority)
  BY <1>2, hf_blockGoes, AssignPriorityGoes, eth_isrGoes, hf_prioritysetGoes
<1>3. CASE hf_yield \/ dispatch_isr
  BY <1>3, hf_yieldGoes, dispatch_isrGoes
<1>4. CASE idletask \/ (\E lock \in BOOLEAN : hf_schedlock(lock)) \/ UNCHANGED vars
  <2>1. /\ UNCHANGED <<krnl_current_task, krnl_delay_queue, halted, pending>>
        /\ krnl_tcb' = krnl_tcb
    BY <1>4 DEF idletask, hf_schedlock, vars, queues
  <2> QED
    BY <2>1, OtherGoes
<1> QED
  BY <1>1, <1>2, <1>3, <1>4 DEF Next, Call

(* Between them careful clients never bring the system down, however their *)
(* calls and the ticks interleave: no panic, no full queue, and the best   *)
(* effort scheduler always has the idle task to fall back on.              *)
THEOREM KernelNeverHalts == ASSUME CarefulClients PROVE Spec => []NeverHalts
<1>1. Init => CarefulInv
  <2> SUFFICES ASSUME Init PROVE CarefulInv
    OBVIOUS
  <2>1. krnl_tcb[0] = SpawnedTcb(ClearTcb, 0, 0, 0, 0) /\ krnl_current_task = 0
    BY ZeroSlot DEF Init
  <2>2. /\ krnl_tcb[0].ptask /\ krnl_tcb[0].state # "BLOCKED"
        /\ krnl_tcb[0].priority = SpawnPriority /\ krnl_tcb[0].priority_rem = SpawnPriority
    BY <2>1 DEF SpawnedTcb, ClearTcb
  <2>3. 0 \notin Range(krnl_delay_queue)
    BY DEF Init, Range
  <2>4. \A t \in Slots : pending[t].field = "none"
    BY DEF Init, NoCall
  <2> QED
    BY <2>1, <2>2, <2>3, <2>4
    DEF Init, CarefulInv, NeverHalts, Live, IdleReady, IdleSpared, CarefulClients
<1>2. IInv /\ CarefulInv /\ [Next]_vars => CarefulInv'
  BY CarefulNext
<1>3. CarefulInv => NeverHalts
  BY DEF CarefulInv
<1> QED
  BY <1>1, <1>2, <1>3, KernelInvariant, PTL DEF Spec

-----------------------------------------------------------------------------
(* Rate monotonic scheduling. *)

(* The queue that sched_rma() scans is in the order of the periods. *)
LEMMA TickRtSorted ==
    ASSUME IInv
    PROVE  \A a, b \in 1..Len(TickRt) :
              a < b => krnl_tcb[TickRt[a]].period <= krnl_tcb[TickRt[b]].period
<1> DEFINE woken == Awaken(krnl_rt_queue, TRUE)
           key == [t \in Slots |-> krnl_tcb[t].period]
<1>1. IsQueue(woken, Slots)
  BY AwakenMoves DEF Placed
<1>2. \A t \in Slots : key[t] \in Int
  <2>1. \A t \in Slots : krnl_tcb[t].period \in UInt16
    BY DEF IInv, TypeOK, Tcb
  <2>2. \A n \in UInt16 : n \in Int
    BY UnsignedNat, SMT
  <2> QED
    BY <2>1, <2>2
<1>3. TickRt = ExchangeSort(woken, key)
  BY DEF TickRt
<1>4. IsQueue(TickRt, Slots) /\ Len(TickRt) = Len(woken)
  <2> HIDE DEF woken, key
  <2> QED
    BY <1>1, <1>3, SortKeeps
<1>5. \A a, b \in 1..Len(TickRt) : a < b => key[TickRt[a]] <= key[TickRt[b]]
  <2> HIDE DEF woken, key
  <2> QED
    BY <1>1, <1>2, <1>3, <1>4, SortSorts
<1>6. \A a \in 1..Len(TickRt) : key[TickRt[a]] = krnl_tcb[TickRt[a]].period
  BY <1>4, QueuePlaces
<1> HIDE DEF key
<1> QED
  BY <1>5, <1>6

(* With a ready task in its queue, sched_rma() chooses one of the shortest *)
(* period.                                                                 *)
LEMMA TickTaskShortest ==
    ASSUME IInv, NEW t \in Range(TickRt), RtReady(krnl_tcb, t)
    PROVE  /\ TickTask # 0 /\ TickTask \in Range(TickRt)
           /\ krnl_tcb[TickTask].period <= krnl_tcb[t].period
<1> DEFINE tcb == Counted(Preempted)
           ready == {i \in 1..Len(TickRt) : RtReady(tcb, TickRt[i])}
           m == CHOOSE i \in ready : \A j \in ready : i <= j
<1>1. /\ IsQueue(TickRt, Slots) /\ 0 \notin Range(TickRt)
      /\ Range(TickRt) = {TickRt[i] : i \in 1..Len(TickRt)} /\ Range(TickRt) \subseteq Slots
      /\ Len(TickRt) \in Nat
  BY TickParts, QueuePlaces DEF Placed
<1>2. RtReady(tcb, t)
  BY <1>1, CountedUntouched DEF Untouched, SameWindow, RtReady, Runnable
<1>3. PICK k \in 1..Len(TickRt) : TickRt[k] = t
  BY <1>1
<1>4. k \in ready /\ ready \in SUBSET Nat
  BY <1>1, <1>2, <1>3
<1>5. m \in ready /\ \A j \in ready : m <= j
  <2>1. \E i \in ready : \A j \in ready : i <= j
    BY <1>4, NatMin
  <2> QED
    BY <2>1
<1>6. TickTask = TickRt[m]
  BY <1>4 DEF TickTask, RtTask
<1> HIDE DEF m
<1>7. m \in 1..Len(TickRt) /\ m <= k
  BY <1>4, <1>5
<1>8. TickTask \in Range(TickRt) /\ TickTask # 0
  BY <1>1, <1>6, <1>7
<1>9. krnl_tcb[TickRt[m]].period <= krnl_tcb[TickRt[k]].period
  <2>1. CASE m = k
    <3>1. krnl_tcb[t].period \in UInt16
      BY <1>1 DEF IInv, TypeOK, Tcb
    <3> QED
      BY <1>3, <2>1, <3>1, AtMostItself
  <2>2. CASE m # k
    <3>1. m < k
      BY <1>1, <1>7, <2>2
    <3> QED
      BY <1>7, <3>1, TickRtSorted
  <2> QED
    BY <2>1, <2>2
<1> QED
  BY <1>3, <1>6, <1>8, <1>9

(* A tick with a ready real-time task, one that it has just awakened       *)
(* included, puts one of the shortest period on the processor: the         *)
(* exchange sort sorts, and the scan stops at the first that is ready.     *)
THEOREM KernelShortestPeriodFirst == Spec => ShortestPeriodFirst
<1> DEFINE A == \A t \in Range(krnl_rt_queue') : RtReady(krnl_tcb, t)
                  => /\ krnl_current_task' \in Range(krnl_rt_queue')
                     /\ krnl_tcb'[krnl_current_task'].period <= krnl_tcb'[t].period
<1>1. IInv /\ [Next]_vars => [dispatch_isr /\ halted' = NotHalted => A]_vars
  <2> SUFFICES ASSUME IInv, dispatch_isr, halted' = NotHalted,
                      NEW t \in Range(krnl_rt_queue'), RtReady(krnl_tcb, t)
               PROVE  /\ krnl_current_task' \in Range(krnl_rt_queue')
                      /\ krnl_tcb'[krnl_current_task'].period <= krnl_tcb'[t].period
    OBVIOUS
  <2>1. TickDispatch
    BY dispatch_isrCases DEF StackOverflow, Halt, NotHalted
  <2>2. krnl_rt_queue' = TickRt
    BY <2>1 DEF TickDispatch
  <2>3. /\ TickTask # 0 /\ TickTask \in Range(TickRt)
        /\ krnl_tcb[TickTask].period <= krnl_tcb[t].period
    BY <2>2, TickTaskShortest
  <2>4. SwitchTo(TickCharged, TickTask) /\ TickTask \in Slots /\ Live(TickTask)
    BY <2>1, <2>3, TickTaskIs DEF TickDispatch
  <2>5. Kept(TickCharged) /\ Range(TickRt) \subseteq Slots
    BY TickParts, QueuePlaces DEF Placed
  <2>6. krnl_current_task' = TickTask
    BY <2>4, <2>5, SwitchSpares
  <2>7. \A u \in Slots : krnl_tcb'[u].period = krnl_tcb[u].period
    BY <2>4, <2>5, SwitchSpares DEF Kept
  <2> QED
    BY <2>2, <2>3, <2>4, <2>5, <2>6, <2>7
<1> QED
  BY <1>1, KernelInvariant, PTL DEF Spec, ShortestPeriodFirst

-----------------------------------------------------------------------------
(* Contexts. *)

(* Every dispatch ends in a switch to a live task. *)
LEMMA DispatchSwitches ==
    ASSUME IInv, Dispatch
    PROVE  \E tcb : \E task \in Slots : Kept(tcb) /\ Live(task) /\ SwitchTo(tcb, task)
<1>1. ASSUME NEW tcb, Kept(tcb), NEW q, IsQueue(q, Slots), \A t \in Range(q) : Live(t),
             BeFault(tcb, q) = NotHalted, DispatchBe(tcb, q)
      PROVE  \E new : \E task \in Slots : Kept(new) /\ Live(task) /\ SwitchTo(new, task)
  <2>1. tcb \in [Slots -> Tcb]
    BY <1>1 DEF Kept
  <2>2. SwitchTo(BeTcb(tcb, q), BeTask(tcb, q))
    BY <1>1 DEF DispatchBe
  <2>3. Charged(BeTcb(tcb, q), tcb)
    BY <1>1, <2>1, BeTcbCharges
  <2>4. Kept(BeTcb(tcb, q))
    BY <1>1, <2>3, ChargedKept
  <2>5. BeTask(tcb, q) \in Slots /\ Live(BeTask(tcb, q))
    BY <1>1, <2>1, BeQueueKeeps, QueuePlaces
  <2> QED
    BY <2>2, <2>4, <2>5
<1>2. CASE hf_yield
  <2>1. /\ BeFault(Preempted, krnl_run_queue) = NotHalted
        /\ DispatchBe(Preempted, krnl_run_queue)
    BY <1>2, BeFaultIsCause, HaltKeeps DEF Dispatch, hf_yield, StackOverflow, Halt, NotHalted
  <2>2. IsQueue(krnl_run_queue, Slots) /\ \A t \in Range(krnl_run_queue) : Live(t)
    BY PlacedHolds DEF Placed, Live
  <2> QED
    BY <1>1, <2>1, <2>2, PreemptedKept
<1>3. CASE dispatch_isr
  <2>1. TickDispatch
    BY <1>3, dispatch_isrCases DEF Dispatch, StackOverflow, Halt, NotHalted
  <2>2. CASE TickTask # 0
    BY <2>1, <2>2, TickTaskIs, TickParts DEF TickDispatch
  <2>3. CASE TickTask = 0
    <3>1. BeFault(TickCharged, TickRun) = NotHalted /\ DispatchBe(TickCharged, TickRun)
      BY <2>1, <2>3 DEF TickDispatch
    <3>2. IsQueue(TickRun, Slots) /\ \A t \in Range(TickRun) : Live(t)
      BY TickParts DEF Placed, Live
    <3> QED
      BY <1>1, <3>1, <3>2, TickParts
  <2> QED
    BY <2>2, <2>3
<1> QED
  BY <1>2, <1>3 DEF Dispatch

(* The thread on the processor belongs to a live task, and every live task *)
(* to the thread that hf_spawn() created for it.                           *)
OwnInv ==
    /\ Live(krnl_current_task) /\ cpu = "own"
    /\ \A t \in Slots : Live(t) => context[t] = "own"

LEMMA OwnSame ==
    ASSUME IInv, OwnInv, UNCHANGED <<krnl_current_task, cpu, context>>,
           \A t \in Slots : krnl_tcb'[t].ptask = krnl_tcb[t].ptask
    PROVE  OwnInv'
BY DEF IInv, TypeOK, OwnInv, Live

LEMMA OwnNext ==
    ASSUME "kill_self" \notin Liberties, IInv, OwnInv, [Next]_vars
    PROVE  OwnInv'
<1> USE DEF OwnInv
<1>1. /\ krnl_tcb \in [Slots -> Tcb] /\ krnl_current_task \in Slots
      /\ context \in [Slots -> {"clear", "own", "dead"}]
  BY DEF IInv, TypeOK
<1>2. CASE Dispatch
  <2>1. PICK tcb : \E task \in Slots : Kept(tcb) /\ Live(task) /\ SwitchTo(tcb, task)
    BY <1>2, DispatchSwitches
  <2>2. PICK task \in Slots : Kept(tcb) /\ Live(task) /\ SwitchTo(tcb, task)
    BY <2>1
  <2>3. /\ krnl_current_task' = task
        /\ \A t \in Slots : krnl_tcb'[t].ptask = tcb[t].ptask /\ tcb[t].ptask = krnl_tcb[t].ptask
    BY <2>2, SwitchSpares DEF Kept
  <2>4. /\ context' = [context EXCEPT ![krnl_current_task] = cpu]
        /\ cpu' = IF task = krnl_current_task THEN cpu ELSE context[task]
    BY <2>2 DEF SwitchTo
  <2> QED
    BY <1>1, <2>2, <2>3, <2>4 DEF Live
<1>3. CASE krnl_tcb' = krnl_tcb /\ UNCHANGED <<krnl_current_task, cpu, context>>
  BY <1>3, OwnSame
<1>4. CASE \E p \in RTParams, mem \in BOOLEAN : hf_spawn(p[1], p[2], p[3], mem)
  <2>1. PICK p \in RTParams, mem \in BOOLEAN : hf_spawn(p[1], p[2], p[3], mem)
    BY <1>4
  <2> DEFINE i == FirstFree
             r == SpawnedAs(krnl_tcb[i], i, p[1], p[2], p[3], mem)
  <2>2. i \in Slots /\ ~Live(i)
    BY <2>1, FirstFreeIsFree DEF hf_spawn
  <2>3. \/ krnl_tcb' = krnl_tcb /\ UNCHANGED <<krnl_current_task, cpu, context>>
        \/ /\ krnl_tcb' = [krnl_tcb EXCEPT ![i] = r]
           /\ context' = [context EXCEPT ![i] = "own"]
           /\ UNCHANGED <<krnl_current_task, cpu>>
    BY <2>1 DEF hf_spawn, Halt, SpawnedAs
  <2> HIDE DEF i, r
  <2> QED
    BY <1>1, <1>3, <2>2, <2>3 DEF Live
<1>5. CASE \E id \in Slots : hf_kill(id)
  <2>1. PICK id \in Slots : hf_kill(id)
    BY <1>5
  <2> DEFINE r == [krnl_tcb[id] EXCEPT !.id = NoId, !.ptask = FALSE, !.state = "IDLE"]
  <2>2. /\ id # krnl_current_task /\ UNCHANGED <<krnl_current_task, cpu, context>>
        /\ krnl_tcb' = krnl_tcb \/ krnl_tcb' = [krnl_tcb EXCEPT ![id] = r]
    BY <1>1, <2>1 DEF hf_kill, Halt, Tcb
  <2>3. r.ptask = FALSE
    BY <1>1 DEF Tcb
  <2> HIDE DEF r
  <2> QED
    BY <1>1, <1>3, <2>2, <2>3 DEF Live
<1>6. CASE \E id \in Slots, delay \in Delays : hf_delay(id, delay)
  <2>1. PICK id \in Slots, delay \in Delays : hf_delay(id, delay)
    BY <1>6
  <2> DEFINE r == [krnl_tcb[id] EXCEPT !.state = "DELAYED", !.delay = delay]
  <2>2. /\ UNCHANGED <<krnl_current_task, cpu, context>>
        /\ krnl_tcb' = krnl_tcb \/ krnl_tcb' = [krnl_tcb EXCEPT ![id] = r]
    BY <1>1, <2>1 DEF hf_delay, Halt, Tcb
  <2>3. r.ptask = krnl_tcb[id].ptask
    BY <1>1 DEF Tcb
  <2> HIDE DEF r
  <2>4. \A t \in Slots : krnl_tcb'[t].ptask = krnl_tcb[t].ptask
    BY <1>1, <2>2, <2>3
  <2> QED
    BY <2>2, <2>4, OwnSame
<1>7. CASE (\E id \in Slots : hf_block(id) \/ hf_resume(id)) \/ AssignPriority \/ eth_isr
  <2>1. UNCHANGED <<krnl_current_task, cpu, context>>
    BY <1>7 DEF hf_block, hf_resume, AssignPriority, eth_isr
  <2>2. \A t \in Slots : krnl_tcb'[t].ptask = krnl_tcb[t].ptask
    <3>1. CASE \E id \in Slots : hf_block(id) \/ hf_resume(id)
      BY <1>1, <3>1 DEF hf_block, hf_resume, Tcb
    <3>2. CASE AssignPriority
      <4>1. pending[krnl_current_task].id \in Slots
        BY <1>1 DEF IInv, TypeOK, Pending
      <4> QED
        BY <1>1, <3>2, <4>1 DEF AssignPriority, Tcb
    <3>3. CASE eth_isr
      BY <1>1, <3>3, NetTaskAssumption DEF eth_isr, Tcb
    <3> QED
      BY <1>7, <3>1, <3>2, <3>3
  <2> QED
    BY <2>1, <2>2, OwnSame
<1>8. CASE \/ idletask
           \/ \E id \in Slots, priority \in Priorities : hf_priorityset(id, priority)
           \/ \E lock \in BOOLEAN : hf_schedlock(lock)
           \/ UNCHANGED vars
  BY <1>3, <1>8 DEF idletask, hf_priorityset, hf_schedlock, vars
<1>9. CASE (hf_yield \/ dispatch_isr) /\ ~Dispatch
  <2>1. halted' # NotHalted /\ halted = NotHalted
    BY <1>9 DEF Dispatch, hf_yield, CanCall, dispatch_isr
  <2>2. halted' = halted \/ (krnl_tcb' = krnl_tcb /\ UNCHANGED <<krnl_current_task, cpu, context>>)
    BY <1>9, dispatch_isrCases
    DEF hf_yield, StackOverflow, Halt, DispatchBe, SwitchTo, TickDispatch
  <2> QED
    BY <1>3, <2>1, <2>2
<1> QED
  BY <1>2, <1>4, <1>5, <1>6, <1>7, <1>8, <1>9 DEF Next, Call

(* Unless a task kills itself, the registers that a switch restores are    *)
(* always those of the thread that hf_spawn() created for the task: the    *)
(* context that hf_kill() leaves behind is never taken for another task's. *)
THEOREM KernelOwnContext == ASSUME "kill_self" \notin Liberties PROVE Spec => []OwnContext
<1>1. Init => OwnInv
  <2> SUFFICES ASSUME Init PROVE OwnInv
    OBVIOUS
  <2>1. Live(0)
    BY ZeroSlot DEF Init, Live, SpawnedTcb, ClearTcb
  <2>2. \A t \in Slots : t # 0 => ~Live(t)
    BY DEF Init, Live, ClearTcb
  <2> QED
    BY <2>1, <2>2, ZeroSlot DEF Init, OwnInv
<1>2. IInv /\ OwnInv /\ [Next]_vars => OwnInv'
  BY OwnNext
<1>3. OwnInv => OwnContext
  BY DEF OwnInv, OwnContext
<1> QED
  BY <1>1, <1>2, <1>3, KernelInvariant, PTL DEF Spec
=============================================================================
