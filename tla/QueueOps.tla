------------------------------ MODULE QueueOps ------------------------------
(***************************************************************************)
(* What the loops over the kernel's task queues compute.  A queue is the   *)
(* sequence of module Fifo, which sys/lib/queue.c implements; the kernel   *)
(* walks it with remhead/addtail rotations and get/swap, always with       *)
(* interrupts disabled, so only the result of a loop is visible.           *)
(***************************************************************************)
EXTENDS Integers, Sequences

(* n times "remove the head, add it to the tail", n at most one turn. *)
Rotate(q, n) ==
    [i \in 1..Len(q) |-> q[IF i + n <= Len(q) THEN i + n ELSE i + n - Len(q)]]

(* Where the search loop "if (hf_queue_get(q, i) == task) break" stops. *)
PositionOf(q, t) == CHOOSE i \in 1..Len(q) : q[i] = t

(* Mutation: the task is not swapped to the head before the head is removed. *)
WithoutHead(q, t) == Tail(q)

(* The task is swapped, place by place, to the head and removed there: the *)
(* others keep their order.                                                *)
Without(q, t) ==
    [i \in 1..(Len(q) - 1) |-> q[IF i < PositionOf(q, t) THEN i ELSE i + 1]]

(* The members of S, in the order of the queue. *)
Keep(q, S) ==
    LET F[i \in 0..Len(q)] ==
            IF i = 0 THEN << >>
            ELSE IF q[i] \in S THEN Append(F[i - 1], q[i])
            ELSE F[i - 1]
    IN  F[Len(q)]

(* Mutation: the comparison is reversed. *)
ExchangeReversed(q, i, j, key) ==
    IF i < j /\ key[q[i]] < key[q[j]]
    THEN [q EXCEPT ![i] = q[j], ![j] = q[i]]
    ELSE q

(* One turn of the sorting loop: compare places i and j, swap if needed. *)
Exchange(q, i, j, key) ==
    IF i < j /\ key[q[i]] > key[q[j]]
    THEN [q EXCEPT ![i] = q[j], ![j] = q[i]]
    ELSE q

(* The two nested loops of sched_rma(): places (i, j) in lexical order.    *)
(* Equal keys may change their order.  Choosing from a set of one value    *)
(* makes TLC compute the previous turn once.                               *)
ExchangeSort(q, key) ==
    LET k == Len(q)
        F[n \in 0..(k * k)] ==
            IF n = 0 THEN q
            ELSE CHOOSE r \in {Exchange(p, ((n - 1) \div k) + 1, ((n - 1) % k) + 1, key)
                                  : p \in {F[n - 1]}} : TRUE
    IN  F[k * k]
=============================================================================
