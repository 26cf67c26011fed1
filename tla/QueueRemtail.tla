---------------------------- MODULE QueueRemtail ----------------------------
(***************************************************************************)
(* hf_queue_remtail() of sys/lib/queue.c, which no code in the repository  *)
(* calls, beside the other operations of the ring buffer.                  *)
(***************************************************************************)
EXTENDS Queue

(* C's remainder takes the sign of its left operand, TLA+'s does not. *)
CRem(a, b) == IF a < 0 THEN -((-a) % b) ELSE a % b

(* The cell read is the one past the newest node, and the index goes to -1 *)
(* when the tail is at cell 0; a cell outside the ring reads as anything.  *)
hf_queue_remtail ==
    /\ exists
    /\ call' = <<"remtail">>
    /\ IF head = tail
       THEN ret' = NULL /\ UNCHANGED <<tail, elem>>
       ELSE /\ IF tail \in Cells THEN ret' = data[tail]
                                 ELSE ret' \in Value \cup {NULL}
            /\ tail' = CRem(tail - 1, size)
            /\ elem' = elem - 1
    /\ UNCHANGED <<size, head, data, exists>>

SpecRemtail == Init /\ [][Next \/ hf_queue_remtail]_vars

(* hf_queue_remtail() "Removes a node from the tail of the queue" and      *)
(* returns a "pointer to node data": the node returned is the newest one.  *)
RemtailReturnsNewest ==
    [][hf_queue_remtail /\ elem > 0 => ret' = Contents[elem]]_vars
=============================================================================
