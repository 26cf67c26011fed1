------------------------------- MODULE Queue -------------------------------
(***************************************************************************)
(* sys/lib/queue.c: a queue of pointers kept in a ring of size + 1 cells   *)
(* with two indices and, redundantly, a count of elements.                 *)
(*                                                                         *)
(* Cells of a new ring hold whatever the heap held: "data" starts as any   *)
(* array.  The calls are atomic: every caller in the kernel makes them     *)
(* with interrupts disabled.  hf_queue_remtail(), which no code calls, is   *)
(* in module QueueRemtail.                                                 *)
(***************************************************************************)
EXTENDS Integers, Sequences

CONSTANTS
    Capacity,       \* the "size" argument of hf_queue_create()
    Value,          \* node pointers
    NULL

ASSUME CapacityAssumption == Capacity \in Nat \ {0}
ASSUME NullAssumption == NULL \notin Value

VARIABLES
    size,           \* q->size, one more than the capacity
    elem,           \* q->elem
    head,           \* q->head
    tail,           \* q->tail
    data,           \* q->data
    exists,         \* the structure is allocated
    call,           \* the last call, with its arguments
    ret             \* the value it returned

vars == <<size, elem, head, tail, data, exists, call, ret>>

Cells == 0..Capacity

Init ==
    /\ size = Capacity + 1
    /\ head = 0
    /\ tail = 0
    /\ elem = 0
    /\ data \in [Cells -> Value \cup {NULL}]
    /\ exists = TRUE
    /\ call = <<"create">>
    /\ ret = 0

-----------------------------------------------------------------------------
(* hf_queue_create(): the ring is allocated anew and holds garbage. *)
hf_queue_create ==
    /\ ~exists
    /\ call' = <<"create">>
    /\ size' = Capacity + 1
    /\ data' \in [Cells -> Value \cup {NULL}]
    /\ head' = 0
    /\ tail' = 0
    /\ elem' = 0
    /\ exists' = TRUE
    /\ ret' = 0

(* hf_queue_destroy(): refused unless the indices say the ring is empty. *)
hf_queue_destroy ==
    /\ exists
    /\ call' = <<"destroy">>
    /\ exists' = (head # tail)
    /\ ret' = IF head = tail THEN 0 ELSE -1
    /\ UNCHANGED <<size, elem, head, tail, data>>

(* Mutation: the tail is not wrapped. *)
AddtailNoWrap(ptr) ==
    /\ exists
    /\ call' = <<"addtail", ptr>>
    /\ IF tail + 1 = head
       THEN ret' = -1 /\ UNCHANGED <<data, tail, elem>>
       ELSE /\ data' = [data EXCEPT ![tail] = ptr]
            /\ tail' = tail + 1
            /\ elem' = elem + 1
            /\ ret' = 0
    /\ UNCHANGED <<size, head, exists>>

(* Mutation: the tail moves before the node is stored. *)
AddtailMoveFirst(ptr) ==
    LET next == (tail + 1) % size
    IN  /\ exists
        /\ call' = <<"addtail", ptr>>
        /\ IF next = head
           THEN ret' = -1 /\ UNCHANGED <<data, tail, elem>>
           ELSE /\ data' = [data EXCEPT ![next] = ptr]
                /\ tail' = next
                /\ elem' = elem + 1
                /\ ret' = 0
        /\ UNCHANGED <<size, head, exists>>

hf_queue_addtail(ptr) ==
    LET next == (tail + 1) % size
    IN  /\ exists
        /\ call' = <<"addtail", ptr>>
        /\ IF next = head
           THEN ret' = -1 /\ UNCHANGED <<data, tail, elem>>
           ELSE /\ data' = [data EXCEPT ![tail] = ptr]
                /\ tail' = next
                /\ elem' = elem + 1
                /\ ret' = 0
        /\ UNCHANGED <<size, head, exists>>

(* Mutation: the count of elements is not updated. *)
RemheadNoCount ==
    /\ exists
    /\ call' = <<"remhead">>
    /\ IF head = tail
       THEN ret' = NULL /\ UNCHANGED <<head, elem>>
       ELSE /\ ret' = data[head]
            /\ head' = (head + 1) % size
            /\ UNCHANGED elem
    /\ UNCHANGED <<size, tail, data, exists>>

hf_queue_remhead ==
    /\ exists
    /\ call' = <<"remhead">>
    /\ IF head = tail
       THEN ret' = NULL /\ UNCHANGED <<head, elem>>
       ELSE /\ ret' = data[head]
            /\ head' = (head + 1) % size
            /\ elem' = elem - 1
    /\ UNCHANGED <<size, tail, data, exists>>

(* The test shared by get, set and swap. *)
HasNode(n) == elem > n /\ head # tail

Cell(n) == (head + n) % size

hf_queue_get(n) ==
    /\ exists
    /\ call' = <<"get", n>>
    /\ ret' = IF HasNode(n) THEN data[Cell(n)] ELSE NULL
    /\ UNCHANGED <<size, elem, head, tail, data, exists>>

hf_queue_set(n, ptr) ==
    /\ exists
    /\ call' = <<"set", n, ptr>>
    /\ IF HasNode(n)
       THEN data' = [data EXCEPT ![Cell(n)] = ptr] /\ ret' = 0
       ELSE data' = data /\ ret' = -1
    /\ UNCHANGED <<size, elem, head, tail, exists>>

(* Mutation: the swap loses the first node, no temporary being used. *)
SwapNoTemporary(m, n) ==
    /\ exists
    /\ call' = <<"swap", m, n>>
    /\ IF HasNode(m) /\ HasNode(n)
       THEN data' = [data EXCEPT ![Cell(m)] = data[Cell(n)]] /\ ret' = 0
       ELSE data' = data /\ ret' = -1
    /\ UNCHANGED <<size, elem, head, tail, exists>>

hf_queue_swap(m, n) ==
    /\ exists
    /\ call' = <<"swap", m, n>>
    /\ IF HasNode(m) /\ HasNode(n)
       THEN /\ data' = [data EXCEPT ![Cell(m)] = data[Cell(n)],
                                    ![Cell(n)] = data[Cell(m)]]
            /\ ret' = 0
       ELSE data' = data /\ ret' = -1
    /\ UNCHANGED <<size, elem, head, tail, exists>>

Next ==
    \/ hf_queue_create
    \/ hf_queue_destroy
    \/ \E ptr \in Value : hf_queue_addtail(ptr)
    \/ hf_queue_remhead
    \/ \E n \in Cells : hf_queue_get(n)
    \/ \E n \in Cells, ptr \in Value : hf_queue_set(n, ptr)
    \/ \E m, n \in Cells : hf_queue_swap(m, n)

Spec == Init /\ [][Next]_vars

-----------------------------------------------------------------------------
(* The ring, its indices and its cells have their C types, and an index is *)
(* always that of a cell: no call reads or writes outside q->data.         *)
TypeOK ==
    /\ size = Capacity + 1
    /\ elem \in 0..Capacity
    /\ head \in Cells
    /\ tail \in Cells
    /\ data \in [Cells -> Value \cup {NULL}]
    /\ exists \in BOOLEAN
    /\ ret \in Value \cup {NULL} \cup {-1, 0}

(* The number of cells from the head, included, to the tail, excluded. *)
Distance == IF tail >= head THEN tail - head ELSE tail - head + size

(* q->elem is maintained separately from the two indices; callers use      *)
(* hf_queue_count() for the number of nodes and hf_queue_get() trusts it:  *)
(* it always agrees with the indices.                                      *)
CountIsDistance == elem = Distance

(* Every node between the head and the tail was stored by a caller: no     *)
(* uninitialised cell is ever handed out.                                  *)
NodesInitialised == \A n \in 0..(elem - 1) : data[Cell(n)] \in Value

-----------------------------------------------------------------------------
(* The nodes in the order in which hf_queue_remhead() will return them. *)
Contents == [n \in 1..elem |-> data[Cell(n - 1)]]

Abstract == INSTANCE Fifo WITH contents <- Contents

(* The ring buffer implements the bounded FIFO of module Fifo: every call  *)
(* changes the contents, and answers, as the abstract queue does.          *)
ImplementsFifo == Abstract!Spec
=============================================================================
