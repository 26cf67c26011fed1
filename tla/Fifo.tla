-------------------------------- MODULE Fifo --------------------------------
(***************************************************************************)
(* What sys/lib/queue.c promises its callers: a bounded first-in first-out *)
(* sequence of node pointers.  The kernel's run, RT and delay queues, the  *)
(* semaphore and condition variable wait queues and the packet queues of   *)
(* the drivers are all built on this promise.                              *)
(***************************************************************************)
EXTENDS Integers, Sequences

CONSTANTS
    Capacity,       \* the "size" argument of hf_queue_create()
    Value,          \* node pointers
    NULL            \* the pointer returned when there is no node

VARIABLES
    contents,       \* the queued pointers, oldest first
    exists,         \* the queue has been created and not destroyed
    call,           \* the last call, with its arguments
    ret             \* what it returned

fifoVars == <<contents, exists, call, ret>>

Init ==
    /\ contents = << >>
    /\ exists = TRUE
    /\ call = <<"create">>
    /\ ret = 0

(* A full queue refuses the node and keeps what it holds. *)
AddTail(v) ==
    /\ exists
    /\ call' = <<"addtail", v>>
    /\ IF Len(contents) < Capacity
       THEN contents' = Append(contents, v) /\ ret' = 0
       ELSE contents' = contents /\ ret' = -1
    /\ UNCHANGED exists

RemHead ==
    /\ exists
    /\ call' = <<"remhead">>
    /\ IF contents = << >>
       THEN contents' = contents /\ ret' = NULL
       ELSE contents' = Tail(contents) /\ ret' = Head(contents)
    /\ UNCHANGED exists

(* Positions are counted from 0, as the callers do. *)
Get(n) ==
    /\ exists
    /\ call' = <<"get", n>>
    /\ ret' = IF n < Len(contents) THEN contents[n + 1] ELSE NULL
    /\ UNCHANGED <<contents, exists>>

Set(n, v) ==
    /\ exists
    /\ call' = <<"set", n, v>>
    /\ IF n < Len(contents)
       THEN contents' = [contents EXCEPT ![n + 1] = v] /\ ret' = 0
       ELSE contents' = contents /\ ret' = -1
    /\ UNCHANGED exists

Swap(m, n) ==
    /\ exists
    /\ call' = <<"swap", m, n>>
    /\ IF m < Len(contents) /\ n < Len(contents)
       THEN /\ contents' = [contents EXCEPT ![m + 1] = contents[n + 1],
                                            ![n + 1] = contents[m + 1]]
            /\ ret' = 0
       ELSE contents' = contents /\ ret' = -1
    /\ UNCHANGED exists

(* Only an empty queue can be destroyed. *)
Destroy ==
    /\ exists
    /\ call' = <<"destroy">>
    /\ IF contents = << >>
       THEN exists' = FALSE /\ ret' = 0
       ELSE exists' = exists /\ ret' = -1
    /\ UNCHANGED contents

(* A new queue may be created once the old one is gone. *)
Create ==
    /\ ~exists
    /\ call' = <<"create">>
    /\ exists' = TRUE
    /\ ret' = 0
    /\ UNCHANGED contents

Next ==
    \/ \E v \in Value : AddTail(v)
    \/ RemHead
    \/ \E n \in 0..Capacity : Get(n)
    \/ \E n \in 0..Capacity, v \in Value : Set(n, v)
    \/ \E m, n \in 0..Capacity : Swap(m, n)
    \/ Destroy
    \/ Create

Spec == Init /\ [][Next]_fifoVars
=============================================================================
