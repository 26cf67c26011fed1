----------------------------- MODULE QueueProof -----------------------------
(***************************************************************************)
(* Proofs about the ring buffer of sys/lib/queue.c, for every capacity and *)
(* every set of node pointers.                                             *)
(***************************************************************************)
EXTENDS Queue, TLAPS

(* Advancing an index of the ring by at most one turn. *)
LEMMA RingIndex ==
    ASSUME NEW s \in Nat \ {0}, NEW i \in 0..(s - 1), NEW n \in 0..s
    PROVE  /\ (i + n) % s \in 0..(s - 1)
           /\ (i + n) % s = IF i + n < s THEN i + n ELSE i + n - s
<1>1. CASE i + n < s
  BY <1>1, SMT
<1>2. CASE i + n >= s
  <2>1. i + n = 1 * s + (i + n - s) /\ i + n - s \in 0..(s - 1)
    BY <1>2, SMT
  <2>2. QED
    BY <1>2, <2>1, SMTT(30)
<1>3. QED
  BY <1>1, <1>2

(***************************************************************************)
(* The inductive invariant.  The count and the distance between the        *)
(* indices each depend on the other: addtail refuses by comparing indices, *)
(* get trusts the count, so neither is inductive alone.                    *)
(***************************************************************************)
IndInv ==
    /\ TypeOK
    /\ CountIsDistance
    /\ NodesInitialised
    /\ ~exists => head = tail

(* The n-th node of a queue that satisfies the invariant is in the ring,   *)
(* and two nodes share a cell only if they are the same node.              *)
LEMMA CellInRing ==
    ASSUME TypeOK, CountIsDistance, NEW n \in 0..Capacity
    PROVE  /\ Cell(n) \in Cells
           /\ Cell(n) = IF head + n < size THEN head + n ELSE head + n - size
<1>1. /\ size \in Nat \ {0} /\ head \in 0..(size - 1) /\ n \in 0..size
      /\ size - 1 = Capacity
  BY CapacityAssumption DEF TypeOK, Cells
<1>2. /\ (head + n) % size \in 0..(size - 1)
      /\ (head + n) % size = IF head + n < size THEN head + n ELSE head + n - size
  BY <1>1, RingIndex, Zenon
<1>3. QED
  BY <1>1, <1>2 DEF Cell, Cells

LEMMA IndInvInit == Init => IndInv
BY CapacityAssumption
   DEF Init, IndInv, TypeOK, CountIsDistance, NodesInitialised, Distance, Cells

LEMMA IndInvNext == IndInv /\ [Next]_vars => IndInv'
<1> SUFFICES ASSUME IndInv, [Next]_vars
             PROVE  IndInv'
  OBVIOUS
<1> USE CapacityAssumption DEF IndInv
<1>0. /\ size = Capacity + 1 /\ size \in Nat \ {0}
      /\ head \in 0..(size - 1) /\ tail \in 0..(size - 1)
  BY DEF TypeOK, Cells
<1>1. CASE hf_queue_create
  BY <1>1 DEF hf_queue_create, TypeOK, CountIsDistance, NodesInitialised,
              Distance, Cells
<1>2. CASE hf_queue_destroy
  BY <1>2 DEF hf_queue_destroy, TypeOK, CountIsDistance, NodesInitialised,
              Distance, Cell
<1>3. ASSUME NEW ptr \in Value, hf_queue_addtail(ptr)
      PROVE  IndInv'
  <2>1. (tail + 1) % size = IF tail + 1 < size THEN tail + 1 ELSE 0
    <3>1. 1 \in 0..size
      BY <1>0
    <3>2. (tail + 1) % size = IF tail + 1 < size THEN tail + 1 ELSE tail + 1 - size
      BY <1>0, <3>1, RingIndex, Zenon
    <3>3. QED
      BY <1>0, <3>2
  <2>2. CASE (tail + 1) % size = head
    BY <1>3, <2>2 DEF hf_queue_addtail, TypeOK, CountIsDistance,
                      NodesInitialised, Distance, Cell
  <2>3. CASE (tail + 1) % size # head
    <3>0. /\ tail' = (tail + 1) % size /\ tail' # head
          /\ data' = [data EXCEPT ![tail] = ptr] /\ elem' = elem + 1 /\ ret' = 0
          /\ size' = size /\ head' = head /\ exists' = exists
      BY <1>3, <2>3 DEF hf_queue_addtail
    <3>a. tail' = IF tail + 1 < size THEN tail + 1 ELSE 0
      BY <2>1, <3>0, Zenon
    <3>b. elem = (IF tail >= head THEN tail - head ELSE tail - head + size)
      BY DEF CountIsDistance, Distance
    <3>c. elem \in 0..(Capacity - 1) /\ tail' \in 0..Capacity
      BY <1>0, <3>0, <3>a, <3>b
    <3>d. elem' = (IF tail' >= head' THEN tail' - head' ELSE tail' - head' + size')
      BY <1>0, <3>0, <3>a, <3>b
    <3>1. TypeOK' /\ CountIsDistance'
      BY <3>0, <3>c, <3>d DEF TypeOK, CountIsDistance, Distance, Cells
    <3>2. ASSUME NEW n \in 0..(elem' - 1)
          PROVE  data'[Cell(n)'] \in Value
      <4>1. /\ elem' = elem + 1 /\ elem \in 0..(Capacity - 1)
            /\ n \in 0..Capacity
        BY <3>0, <3>c
      <4>2. /\ Cell(n)' = Cell(n) /\ Cell(n) \in Cells
            /\ Cell(n) = IF head + n < size THEN head + n ELSE head + n - size
        BY <1>3, <4>1, CellInRing DEF hf_queue_addtail, Cell
      <4>3. CASE n = elem
        <5>1. Cell(n) = tail
          BY <1>0, <4>1, <4>2, <4>3 DEF CountIsDistance, Distance
        <5>2. QED
          BY <1>0, <1>3, <2>3, <4>2, <5>1 DEF hf_queue_addtail, TypeOK
      <4>4. CASE n < elem
        <5>1. Cell(n) # tail
          BY <1>0, <4>1, <4>2, <4>4 DEF CountIsDistance, Distance
        <5>2. data[Cell(n)] \in Value
          BY <4>1, <4>4 DEF NodesInitialised
        <5>3. QED
          BY <1>3, <2>3, <4>2, <5>1, <5>2 DEF hf_queue_addtail, TypeOK
      <4>5. QED
        BY <4>1, <4>3, <4>4
    <3>3. QED
      BY <1>3, <3>0, <3>1, <3>2 DEF NodesInitialised, hf_queue_addtail
  <2>4. QED
    BY <2>2, <2>3
<1>4. CASE hf_queue_remhead
  <2>1. (head + 1) % size = IF head + 1 < size THEN head + 1 ELSE 0
    <3>1. 1 \in 0..size
      BY <1>0
    <3>2. (head + 1) % size = IF head + 1 < size THEN head + 1 ELSE head + 1 - size
      BY <1>0, <3>1, RingIndex, Zenon
    <3>3. QED
      BY <1>0, <3>2
  <2>2. CASE head = tail
    BY <1>4, <2>2 DEF hf_queue_remhead, TypeOK, CountIsDistance,
                      NodesInitialised, Distance, Cell
  <2>3. CASE head # tail
    <3>1. elem \in 1..Capacity
      BY <1>0, <2>3 DEF TypeOK, CountIsDistance, Distance
    <3>2. data[head] \in Value \cup {NULL}
      BY DEF TypeOK
    <3>a. /\ head' = (head + 1) % size /\ elem' = elem - 1 /\ ret' = data[head]
          /\ size' = size /\ tail' = tail /\ data' = data /\ exists' = exists
      BY <1>4, <2>3 DEF hf_queue_remhead
    <3>b. head' = IF head + 1 < size THEN head + 1 ELSE 0
      BY <2>1, <3>a, Zenon
    <3>c. elem = (IF tail >= head THEN tail - head ELSE tail - head + size)
      BY DEF CountIsDistance, Distance
    <3>d. head' \in 0..Capacity /\ elem' \in 0..Capacity
      BY <1>0, <3>1, <3>a, <3>b
    <3>e. elem' = (IF tail' >= head' THEN tail' - head' ELSE tail' - head' + size')
      BY <1>0, <2>3, <3>a, <3>b, <3>c
    <3>3. TypeOK' /\ CountIsDistance'
      BY <3>2, <3>a, <3>d, <3>e DEF TypeOK, CountIsDistance, Distance, Cells
    <3>4. ASSUME NEW n \in 0..(elem' - 1)
          PROVE  data'[Cell(n)'] \in Value
      <4>1. elem' = elem - 1 /\ n + 1 \in 0..(elem - 1) /\ n \in 0..Capacity
            /\ n + 1 \in 0..Capacity
        BY <1>4, <2>3, <3>1 DEF hf_queue_remhead
      <4>2. Cell(n)' = (head' + n) % size /\ head' \in 0..(size - 1)
        BY <1>0, <1>4, <2>3, <3>3 DEF hf_queue_remhead, Cell, TypeOK, Cells
      <4>3. Cell(n)' = IF head' + n < size THEN head' + n ELSE head' + n - size
        <5>1. n \in 0..size
          BY <1>0, <4>1
        <5>2. (head' + n) % size
                = IF head' + n < size THEN head' + n ELSE head' + n - size
          BY <1>0, <4>2, <5>1, RingIndex, Zenon
        <5>3. QED
          BY <4>2, <5>2
      <4>4. Cell(n)' = Cell(n + 1)
        <5>1. Cell(n + 1) = IF head + (n + 1) < size THEN head + (n + 1)
                            ELSE head + (n + 1) - size
          BY <4>1, CellInRing
        <5>2. QED
          BY <1>0, <3>b, <4>1, <4>3, <5>1
      <4>5. QED
        BY <1>4, <4>1, <4>4 DEF hf_queue_remhead, NodesInitialised
    <3>5. QED
      BY <1>4, <3>a, <3>3, <3>4 DEF NodesInitialised, hf_queue_remhead
  <2>4. QED
    BY <2>2, <2>3
<1>5. ASSUME NEW n \in Cells, hf_queue_get(n)
      PROVE  IndInv'
  <2>1. Cell(n) \in Cells
    BY CellInRing DEF Cells
  <2>2. QED
    BY <1>5, <2>1 DEF hf_queue_get, TypeOK, CountIsDistance, NodesInitialised,
                      Distance, Cell
<1>6. ASSUME NEW n \in Cells, NEW ptr \in Value, hf_queue_set(n, ptr)
      PROVE  IndInv'
  <2>1. Cell(n) \in Cells
    BY CellInRing DEF Cells
  <2>2. TypeOK' /\ CountIsDistance'
    BY <1>6, <2>1 DEF hf_queue_set, TypeOK, CountIsDistance, Distance
  <2>3. ASSUME NEW k \in 0..(elem' - 1)
        PROVE  data'[Cell(k)'] \in Value
    <3>1. elem' = elem /\ Cell(k)' = Cell(k) /\ k \in 0..Capacity
      BY <1>6 DEF hf_queue_set, Cell, TypeOK
    <3>2. Cell(k) \in Cells /\ data[Cell(k)] \in Value
      BY <3>1, CellInRing DEF NodesInitialised
    <3>3. QED
      BY <1>6, <3>1, <3>2 DEF hf_queue_set, TypeOK
  <2>4. QED
    BY <1>6, <2>2, <2>3 DEF NodesInitialised, hf_queue_set
<1>7. ASSUME NEW m \in Cells, NEW n \in Cells, hf_queue_swap(m, n)
      PROVE  IndInv'
  <2>1. Cell(m) \in Cells /\ Cell(n) \in Cells
    BY CellInRing DEF Cells
  <2>2. TypeOK' /\ CountIsDistance'
    BY <1>7, <2>1 DEF hf_queue_swap, TypeOK, CountIsDistance, Distance
  <2>3. ASSUME NEW k \in 0..(elem' - 1)
        PROVE  data'[Cell(k)'] \in Value
    <3>1. elem' = elem /\ Cell(k)' = Cell(k) /\ k \in 0..Capacity
      BY <1>7 DEF hf_queue_swap, Cell, TypeOK
    <3>2. Cell(k) \in Cells /\ data[Cell(k)] \in Value
      BY <3>1, CellInRing DEF NodesInitialised
    <3>3. CASE HasNode(m) /\ HasNode(n)
      <4>1. data[Cell(m)] \in Value /\ data[Cell(n)] \in Value
        BY <3>3 DEF HasNode, NodesInitialised, TypeOK, Cells
      <4>2. QED
        BY <1>7, <2>1, <3>1, <3>2, <3>3, <4>1 DEF hf_queue_swap, TypeOK
    <3>4. CASE ~(HasNode(m) /\ HasNode(n))
      BY <1>7, <3>1, <3>2, <3>4 DEF hf_queue_swap
    <3>5. QED
      BY <3>3, <3>4
  <2>4. QED
    BY <1>7, <2>2, <2>3 DEF NodesInitialised, hf_queue_swap
<1>8. CASE UNCHANGED vars
  BY <1>8 DEF vars, TypeOK, CountIsDistance, NodesInitialised, Distance, Cell
<1>9. QED
  BY <1>1, <1>2, <1>3, <1>4, <1>5, <1>6, <1>7, <1>8 DEF Next

(* Indices stay in the ring and fields keep their types in every reachable *)
(* state of the queue.                                                     *)
THEOREM QueueTypeOK == Spec => []TypeOK
<1>1. IndInv => TypeOK
  BY DEF IndInv
<1>2. QED
  BY IndInvInit, IndInvNext, <1>1, PTL DEF Spec

(* hf_queue_count() always agrees with the head and tail indices. *)
THEOREM QueueCountIsDistance == Spec => []CountIsDistance
<1>1. IndInv => CountIsDistance
  BY DEF IndInv
<1>2. QED
  BY IndInvInit, IndInvNext, <1>1, PTL DEF Spec

(* No call ever hands out a cell that no caller wrote. *)
THEOREM QueueNodesInitialised == Spec => []NodesInitialised
<1>1. IndInv => NodesInitialised
  BY DEF IndInv
<1>2. QED
  BY IndInvInit, IndInvNext, <1>1, PTL DEF Spec

-----------------------------------------------------------------------------
(* Facts about the contents of the queue that every refinement step uses. *)
ContentsOK ==
    /\ Contents \in Seq(Value)
    /\ Len(Contents) = elem
    /\ \A n \in 0..(elem - 1) : Contents[n + 1] = data[Cell(n)]
    /\ head = tail <=> elem = 0

LEMMA ContentsFacts == IndInv => ContentsOK
<1> SUFFICES ASSUME IndInv PROVE ContentsOK
  OBVIOUS
<1>1. elem \in Nat
  BY DEF IndInv, TypeOK
<1>2. \A n \in 1..elem : n - 1 \in 0..(elem - 1) /\ data[Cell(n - 1)] \in Value
  BY <1>1 DEF IndInv, NodesInitialised
<1>3. Contents \in [1..elem -> Value]
  BY <1>2 DEF Contents
<1>4. Contents \in Seq(Value) /\ Len(Contents) = elem
  BY <1>1, <1>3
<1>5. \A n \in 0..(elem - 1) : n + 1 \in 1..elem /\ (n + 1) - 1 = n
  BY <1>1
<1>6. \A n \in 0..(elem - 1) : Contents[n + 1] = data[Cell(n)]
  BY <1>5 DEF Contents
<1>7. head = tail <=> elem = 0
  BY CapacityAssumption DEF IndInv, TypeOK, Cells, CountIsDistance, Distance
<1>8. QED
  BY <1>4, <1>6, <1>7 DEF ContentsOK

(* Distinct nodes are in distinct cells. *)
LEMMA CellInjective ==
    ASSUME IndInv, NEW m \in 0..(elem - 1), NEW n \in 0..(elem - 1),
           Cell(m) = Cell(n)
    PROVE  m = n
<1>1. m \in 0..Capacity /\ n \in 0..Capacity
  BY CapacityAssumption DEF IndInv, TypeOK
<1>2. /\ Cell(m) = IF head + m < size THEN head + m ELSE head + m - size
      /\ Cell(n) = IF head + n < size THEN head + n ELSE head + n - size
  BY <1>1, CellInRing DEF IndInv
<1>3. head \in 0..Capacity /\ size = Capacity + 1
  BY DEF IndInv, TypeOK, Cells
<1>4. QED
  <2>1. \A h, s, a, b \in Int :
           /\ 0 <= a /\ a < s /\ 0 <= b /\ b < s /\ 0 <= h /\ h < s
           /\ (IF h + a < s THEN h + a ELSE h + a - s)
                = (IF h + b < s THEN h + b ELSE h + b - s)
           => a = b
    BY SMT
  <2>2. /\ head \in Int /\ size \in Int /\ m \in Int /\ n \in Int
        /\ 0 <= m /\ m < size /\ 0 <= n /\ n < size /\ 0 <= head /\ head < size
    BY <1>1, <1>3, CapacityAssumption
  <2>3. QED
    BY <1>2, <2>1, <2>2

LEMMA RefinesInit == Init => Abstract!Init
<1> SUFFICES ASSUME Init PROVE Abstract!Init
  OBVIOUS
<1>1. elem = 0
  BY DEF Init
<1>2. Contents = << >>
  BY <1>1 DEF Contents
<1>3. QED
  BY <1>2 DEF Init, Abstract!Init

LEMMA RefinesNext ==
    IndInv /\ IndInv' /\ [Next]_vars => [Abstract!Next]_(Abstract!fifoVars)
<1> SUFFICES ASSUME IndInv, IndInv', [Next]_vars
             PROVE  [Abstract!Next]_(Abstract!fifoVars)
  OBVIOUS
<1>0. /\ size = Capacity + 1 /\ size \in Nat \ {0} /\ Capacity \in Nat
      /\ elem \in 0..Capacity /\ elem' \in 0..Capacity
      /\ head \in 0..(size - 1) /\ tail \in 0..(size - 1)
  BY CapacityAssumption DEF IndInv, TypeOK, Cells
<1>a. ContentsOK /\ ContentsOK'
  BY ContentsFacts, PTL
<1> USE DEF ContentsOK
<1>1. CASE hf_queue_create
  <2>1. elem = 0 /\ elem' = 0
    BY <1>1, <1>a DEF hf_queue_create, IndInv
  <2>2. Contents = << >> /\ Contents' = << >>
    BY <1>a, <2>1
  <2>3. Abstract!Create
    BY <1>1, <2>2 DEF hf_queue_create, Abstract!Create
  <2>4. QED
    BY <2>3 DEF Abstract!Next
<1>2. CASE hf_queue_destroy
  <2>1. Contents' = Contents
    BY <1>2 DEF hf_queue_destroy, Contents, Cell
  <2>2. (Contents = << >>) <=> (head = tail)
    BY <1>0, <1>a
  <2>3. Abstract!Destroy
    BY <1>2, <2>1, <2>2 DEF hf_queue_destroy, Abstract!Destroy
  <2>4. QED
    BY <2>3 DEF Abstract!Next
<1>3. ASSUME NEW ptr \in Value, hf_queue_addtail(ptr)
      PROVE  Abstract!Next
  <2>1. (tail + 1) % size = IF tail + 1 < size THEN tail + 1 ELSE 0
    <3>1. 1 \in 0..size
      BY <1>0
    <3>2. (tail + 1) % size = IF tail + 1 < size THEN tail + 1 ELSE tail + 1 - size
      BY <1>0, <3>1, RingIndex, Zenon
    <3>3. QED
      BY <1>0, <3>2
  <2>a. elem = (IF tail >= head THEN tail - head ELSE tail - head + size)
    BY DEF IndInv, CountIsDistance, Distance
  <2>2. CASE (tail + 1) % size = head
    <3>1. elem = Capacity
      BY <1>0, <2>1, <2>2, <2>a
    <3>2. /\ Contents' = Contents /\ ret' = -1 /\ exists /\ exists' = exists
          /\ call' = <<"addtail", ptr>>
      BY <1>3, <2>2 DEF hf_queue_addtail, Contents, Cell
    <3>3. Abstract!AddTail(ptr)
      BY <1>0, <1>a, <3>1, <3>2 DEF Abstract!AddTail
    <3>4. QED
      BY <3>3 DEF Abstract!Next
  <2>3. CASE (tail + 1) % size # head
    <3>1. /\ data' = [data EXCEPT ![tail] = ptr] /\ elem' = elem + 1 /\ ret' = 0
          /\ size' = size /\ head' = head /\ exists /\ exists' = exists
          /\ call' = <<"addtail", ptr>>
      BY <1>3, <2>3 DEF hf_queue_addtail
    <3>2. elem \in 0..(Capacity - 1)
      BY <1>0, <2>1, <2>3, <2>a
    <3>3. \A n \in 0..elem : Cell(n)' = Cell(n)
      BY <3>1 DEF Cell
    <3>4. \A n \in 0..elem :
             /\ Cell(n) \in Cells
             /\ Cell(n) = IF head + n < size THEN head + n ELSE head + n - size
      BY <1>0, <3>2, CellInRing DEF IndInv
    <3>5. Cell(elem) = tail
      BY <1>0, <2>a, <3>2, <3>4
    <3>6. ASSUME NEW n \in 0..(elem - 1)
          PROVE  Contents'[n + 1] = Contents[n + 1]
      <4>1. Cell(n) # tail
        BY <1>0, <2>a, <3>2, <3>4
      <4>2. n \in 0..(elem' - 1) /\ n \in 0..elem
        BY <1>0, <3>1
      <4>3. data'[Cell(n)] = data[Cell(n)]
        BY <3>1, <3>4, <4>1, <4>2 DEF IndInv, TypeOK
      <4>4. QED
        BY <1>a, <3>3, <4>2, <4>3
    <3>7. Contents'[elem + 1] = ptr
      <4>1. elem \in 0..(elem' - 1) /\ elem \in 0..elem
        BY <1>0, <3>1
      <4>2. data'[tail] = ptr
        BY <1>0, <3>1 DEF IndInv, TypeOK, Cells
      <4>3. QED
        BY <1>a, <3>3, <3>5, <4>1, <4>2
    <3>8. Contents' = Append(Contents, ptr)
      <4>1. Len(Contents') = elem + 1 /\ Len(Append(Contents, ptr)) = elem + 1
        BY <1>0, <1>a, <3>1
      <4>2. \A k \in 1..(elem + 1) : Contents'[k] = Append(Contents, ptr)[k]
        <5> TAKE k \in 1..(elem + 1)
        <5>2. CASE k = elem + 1
          BY <1>0, <1>a, <3>7, <5>2
        <5>3. CASE k <= elem
          <6>1. k - 1 \in 0..(elem - 1) /\ (k - 1) + 1 = k
            BY <1>0, <5>3
          <6>2. Contents'[k] = Contents[k]
            BY <3>6, <6>1
          <6>3. QED
            BY <1>0, <1>a, <5>3, <6>2
        <5>4. k = elem + 1 \/ k <= elem
          BY <1>0
        <5>5. QED
          BY <5>2, <5>3, <5>4, Zenon
      <4>3. Append(Contents, ptr) \in Seq(Value)
        BY <1>a
      <4>4. QED
        BY <1>a, <4>1, <4>2, <4>3
    <3>9. Abstract!AddTail(ptr)
      BY <1>0, <1>a, <3>1, <3>2, <3>8 DEF Abstract!AddTail
    <3>10. QED
      BY <3>9 DEF Abstract!Next
  <2>4. QED
    BY <2>2, <2>3
<1>4. CASE hf_queue_remhead
  <2>1. CASE head = tail
    <3>1. Contents = << >>
      BY <1>0, <1>a, <2>1
    <3>2. /\ Contents' = Contents /\ ret' = NULL /\ exists /\ exists' = exists
          /\ call' = <<"remhead">>
      BY <1>4, <2>1 DEF hf_queue_remhead, Contents, Cell
    <3>3. Abstract!RemHead
      BY <3>1, <3>2 DEF Abstract!RemHead
    <3>4. QED
      BY <3>3 DEF Abstract!Next
  <2>2. CASE head # tail
    <3>1. /\ head' = (head + 1) % size /\ elem' = elem - 1 /\ ret' = data[head]
          /\ size' = size /\ data' = data /\ exists /\ exists' = exists
          /\ call' = <<"remhead">>
      BY <1>4, <2>2 DEF hf_queue_remhead
    <3>2. elem \in 1..Capacity /\ Contents # << >>
      BY <1>0, <1>a, <2>2
    <3>3. head' = IF head + 1 < size THEN head + 1 ELSE 0
      <4>1. 1 \in 0..size
        BY <1>0
      <4>2. (head + 1) % size
              = IF head + 1 < size THEN head + 1 ELSE head + 1 - size
        BY <1>0, <4>1, RingIndex, Zenon
      <4>3. QED
        BY <1>0, <3>1, <4>2
    <3>4. ASSUME NEW n \in 0..(elem' - 1)
          PROVE  Cell(n)' = Cell(n + 1)
      <4>1. n \in 0..Capacity /\ n \in 0..size /\ n + 1 \in 0..Capacity
            /\ head' \in 0..(size - 1)
        BY <1>0, <3>1, <3>2, <3>3
      <4>2. (head' + n) % size
              = IF head' + n < size THEN head' + n ELSE head' + n - size
        BY <1>0, <4>1, RingIndex, Zenon
      <4>3. Cell(n + 1) = IF head + (n + 1) < size THEN head + (n + 1)
                          ELSE head + (n + 1) - size
        BY <4>1, CellInRing DEF IndInv
      <4>4. Cell(n)' = (head' + n) % size
        BY <3>1 DEF Cell
      <4>5. QED
        BY <1>0, <3>3, <4>1, <4>2, <4>3, <4>4
    <3>5. ret' = Head(Contents)
      <4>1. Cell(0) = head
        BY <1>0, CellInRing DEF IndInv
      <4>2. 0 \in 0..(elem - 1)
        BY <3>2
      <4>3. Contents[0 + 1] = data[head]
        BY <1>a, <4>1, <4>2
      <4>4. QED
        BY <1>a, <3>1, <3>2, <4>3
    <3>6. Contents' = Tail(Contents)
      <4>1. /\ Len(Contents') = elem - 1 /\ Tail(Contents) \in Seq(Value)
            /\ Len(Tail(Contents)) = elem - 1
        BY <1>0, <1>a, <3>1, <3>2
      <4>2. \A k \in 1..(elem - 1) : Contents'[k] = Tail(Contents)[k]
        <5> TAKE k \in 1..(elem - 1)
        <5>1. k - 1 \in 0..(elem' - 1) /\ k \in 0..(elem - 1) /\ (k - 1) + 1 = k
          BY <1>0, <3>1, <3>2
        <5>2. Contents'[k] = data[Cell(k)]
          BY <1>a, <3>1, <3>4, <5>1
        <5>3. Contents[k + 1] = data[Cell(k)]
          BY <1>a, <5>1
        <5>4. Tail(Contents)[k] = Contents[k + 1]
          BY <1>0, <1>a, <3>2
        <5>5. QED
          BY <5>2, <5>3, <5>4
      <4>3. QED
        BY <1>a, <3>2, <4>1, <4>2
    <3>7. Abstract!RemHead
      BY <3>1, <3>2, <3>5, <3>6 DEF Abstract!RemHead
    <3>8. QED
      BY <3>7 DEF Abstract!Next
  <2>3. QED
    BY <2>1, <2>2
<1>b. \A n \in Cells : HasNode(n) <=> n < Len(Contents)
  BY <1>0, <1>a DEF HasNode, Cells
<1>5. ASSUME NEW n \in Cells, hf_queue_get(n)
      PROVE  Abstract!Next
  <2>1. Contents' = Contents
    BY <1>5 DEF hf_queue_get, Contents, Cell
  <2>2. n < Len(Contents) => Contents[n + 1] = data[Cell(n)]
    BY <1>0, <1>a DEF Cells
  <2>3. Abstract!Get(n)
    BY <1>5, <1>b, <2>1, <2>2 DEF hf_queue_get, Abstract!Get
  <2>4. QED
    BY <2>3 DEF Abstract!Next, Cells
<1>6. ASSUME NEW n \in Cells, NEW ptr \in Value, hf_queue_set(n, ptr)
      PROVE  Abstract!Next
  <2>1. CASE ~HasNode(n)
    <3>1. /\ Contents' = Contents /\ ret' = -1 /\ exists /\ exists' = exists
          /\ call' = <<"set", n, ptr>>
      BY <1>6, <2>1 DEF hf_queue_set, Contents, Cell
    <3>2. Abstract!Set(n, ptr)
      BY <1>b, <2>1, <3>1 DEF Abstract!Set
    <3>3. QED
      BY <3>2 DEF Abstract!Next, Cells
  <2>2. CASE HasNode(n)
    <3>1. /\ data' = [data EXCEPT ![Cell(n)] = ptr] /\ ret' = 0
          /\ elem' = elem /\ exists /\ exists' = exists
          /\ call' = <<"set", n, ptr>>
          /\ \A k \in Nat : Cell(k)' = Cell(k)
      BY <1>6, <2>2 DEF hf_queue_set, Cell
    <3>2. n \in 0..(elem - 1) /\ n < Len(Contents)
      BY <1>0, <1>a, <1>b, <2>2 DEF Cells
    <3>3. \A k \in 0..(elem - 1) :
             Contents'[k + 1] = IF k = n THEN ptr ELSE Contents[k + 1]
      <4> TAKE k \in 0..(elem - 1)
      <4>1. Cell(k) \in Cells /\ Cell(n) \in Cells
        BY <1>0, CellInRing DEF IndInv, Cells
      <4>2. Contents'[k + 1] = data'[Cell(k)]
        BY <1>0, <1>a, <3>1
      <4>3. data'[Cell(k)] = IF Cell(k) = Cell(n) THEN ptr ELSE data[Cell(k)]
        BY <3>1, <4>1 DEF IndInv, TypeOK
      <4>4. Cell(k) = Cell(n) => k = n
        BY <3>2, CellInjective
      <4>5. QED
        BY <1>a, <4>2, <4>3, <4>4
    <3>4. Contents' = [Contents EXCEPT ![n + 1] = ptr]
      <4>1. /\ [Contents EXCEPT ![n + 1] = ptr] \in Seq(Value)
            /\ Len([Contents EXCEPT ![n + 1] = ptr]) = elem
        BY <1>0, <1>a, <3>2
      <4>2. \A k \in 1..elem : Contents'[k] = [Contents EXCEPT ![n + 1] = ptr][k]
        <5> TAKE k \in 1..elem
        <5>1. k - 1 \in 0..(elem - 1) /\ (k - 1) + 1 = k /\ (k - 1 = n <=> k = n + 1)
          BY <1>0, <3>2
        <5>2. Contents'[k] = IF k = n + 1 THEN ptr ELSE Contents[k]
          BY <3>3, <5>1
        <5>3. QED
          BY <1>0, <1>a, <5>2
      <4>3. QED
        BY <1>a, <3>1, <4>1, <4>2
    <3>5. Abstract!Set(n, ptr)
      BY <3>1, <3>2, <3>4 DEF Abstract!Set
    <3>6. QED
      BY <3>5 DEF Abstract!Next, Cells
  <2>3. QED
    BY <2>1, <2>2
<1>7. ASSUME NEW m \in Cells, NEW n \in Cells, hf_queue_swap(m, n)
      PROVE  Abstract!Next
  <2>1. CASE ~(HasNode(m) /\ HasNode(n))
    <3>1. /\ Contents' = Contents /\ ret' = -1 /\ exists /\ exists' = exists
          /\ call' = <<"swap", m, n>>
      BY <1>7, <2>1 DEF hf_queue_swap, Contents, Cell
    <3>2. Abstract!Swap(m, n)
      BY <1>b, <2>1, <3>1 DEF Abstract!Swap
    <3>3. QED
      BY <3>2 DEF Abstract!Next, Cells
  <2>2. CASE HasNode(m) /\ HasNode(n)
    <3>1. /\ data' = [data EXCEPT ![Cell(m)] = data[Cell(n)],
                                  ![Cell(n)] = data[Cell(m)]]
          /\ ret' = 0 /\ elem' = elem /\ exists /\ exists' = exists
          /\ call' = <<"swap", m, n>>
          /\ \A k \in Nat : Cell(k)' = Cell(k)
      BY <1>7, <2>2 DEF hf_queue_swap, Cell
    <3>2. /\ m \in 0..(elem - 1) /\ n \in 0..(elem - 1)
          /\ m < Len(Contents) /\ n < Len(Contents)
      BY <1>0, <1>a, <1>b, <2>2 DEF Cells
    <3>3. \A k \in 0..(elem - 1) :
             Contents'[k + 1] = IF k = n THEN Contents[m + 1]
                                ELSE IF k = m THEN Contents[n + 1]
                                ELSE Contents[k + 1]
      <4> TAKE k \in 0..(elem - 1)
      <4>1. Cell(k) \in Cells /\ Cell(m) \in Cells /\ Cell(n) \in Cells
        BY <1>0, CellInRing DEF IndInv, Cells
      <4>2. Contents'[k + 1] = data'[Cell(k)]
        <5>1. k \in 0..(elem' - 1) /\ Cell(k)' = Cell(k)
          BY <1>0, <3>1
        <5>2. QED
          BY <1>a, <5>1
      <4>3. data'[Cell(k)] = IF Cell(k) = Cell(n) THEN data[Cell(m)]
                             ELSE IF Cell(k) = Cell(m) THEN data[Cell(n)]
                             ELSE data[Cell(k)]
        BY <3>1, <4>1 DEF IndInv, TypeOK
      <4>4. /\ Cell(k) = Cell(n) => k = n
            /\ Cell(k) = Cell(m) => k = m
        BY <3>2, CellInjective
      <4>5. QED
        BY <1>a, <3>2, <4>2, <4>3, <4>4
    <3>4. Contents' = [Contents EXCEPT ![m + 1] = Contents[n + 1],
                                       ![n + 1] = Contents[m + 1]]
      <4> DEFINE Swapped == [Contents EXCEPT ![m + 1] = Contents[n + 1],
                                             ![n + 1] = Contents[m + 1]]
      <4>1. Swapped \in Seq(Value) /\ Len(Swapped) = elem
        BY <1>0, <1>a, <3>2
      <4>2. \A k \in 1..elem : Contents'[k] = Swapped[k]
        <5> TAKE k \in 1..elem
        <5>1. /\ k - 1 \in 0..(elem - 1) /\ (k - 1) + 1 = k
              /\ (k - 1 = n <=> k = n + 1) /\ (k - 1 = m <=> k = m + 1)
          BY <1>0, <3>2
        <5>2. Contents'[k] = IF k = n + 1 THEN Contents[m + 1]
                             ELSE IF k = m + 1 THEN Contents[n + 1]
                             ELSE Contents[k]
          BY <3>3, <5>1
        <5>3. QED
          BY <1>0, <1>a, <3>2, <5>2
      <4> HIDE DEF Swapped
      <4>3. Contents' = Swapped
        BY <1>a, <3>1, <4>1, <4>2
      <4>4. QED
        BY <4>3 DEF Swapped
    <3>5. Abstract!Swap(m, n)
      BY <3>1, <3>2, <3>4 DEF Abstract!Swap
    <3>6. QED
      BY <3>5 DEF Abstract!Next, Cells
  <2>3. QED
    BY <2>1, <2>2
<1>8. CASE UNCHANGED vars
  BY <1>8 DEF vars, Abstract!fifoVars, Contents, Cell
<1>9. QED
  BY <1>1, <1>2, <1>3, <1>4, <1>5, <1>6, <1>7, <1>8 DEF Next

(* The ring buffer implements the bounded FIFO: every behaviour of         *)
(* sys/lib/queue.c, hf_queue_remtail() left out, is one of module Fifo.    *)
THEOREM QueueImplementsFifo == Spec => ImplementsFifo
<1>1. Spec => []IndInv
  BY IndInvInit, IndInvNext, PTL DEF Spec
<1>2. QED
  BY <1>1, RefinesInit, RefinesNext, PTL
     DEF Spec, ImplementsFifo, Abstract!Spec
=============================================================================
