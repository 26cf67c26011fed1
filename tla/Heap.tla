-------------------------------- MODULE Heap --------------------------------
(***************************************************************************)
(* The heap of HellfireOS (sys/lib/malloc.c), with the four allocators     *)
(* that MEM_ALLOC selects.  Addresses and sizes are counted in words of    *)
(* four bytes; a size has the width of size_t, so a negative one wraps     *)
(* around at SIZE_MOD.  Every call holds the lock krnl_malloc from its     *)
(* first access to its last, so it is one action, except hf_realloc(),     *)
(* which is two.  The loops of the code are walks along the chain of       *)
(* block headers.  A client writes all over the block it is given.         *)
(***************************************************************************)
EXTENDS Integers, FiniteSets, FiniteSetsExt

CONSTANTS
    Allocators,     \* the values of MEM_ALLOC
    HEAP,           \* length of the heap in words
    SIZE_MOD,       \* sizes are computed modulo this, 2^30 words
    Requests,       \* arguments of hf_malloc(), in bytes
    CallocArgs,     \* arguments <<qty, type_size>> of hf_calloc()
    MinPool,        \* MIN_POOL_ALLOC_QUANTAS
    MaxMoving,      \* calls of hf_realloc() in progress at a time
    NULL

ASSUME HeapAssumption == HEAP \in Nat /\ HEAP >= 8 /\ SIZE_MOD \in Nat /\ SIZE_MOD > 2 * HEAP
ASSUME RequestsAssumption == Requests \subseteq Nat

Words == 0..(HEAP - 1)

VARIABLES
    MEM_ALLOC,      \* the allocator that was compiled in
    mem,            \* the header, if any, at each address
    hint,           \* last_free, ff, krnl_heap_ptr.free or freep
    pool_free_pos,  \* MEM_ALLOC 1: the words of the heap taken so far
    krnl_free,      \* free words
    base,           \* MEM_ALLOC 1: the address of the list's head
    held,           \* the blocks of the clients: address -> words
    moving          \* blocks that hf_realloc() copied and has yet to free

vars == <<MEM_ALLOC, mem, hint, pool_free_pos, krnl_free, base, held, moving>>

(* MEM_ALLOC 0 has a header of one word, the others of two. *)
H == IF MEM_ALLOC = 0 THEN 1 ELSE 2

Header(next, size, used) == [next |-> next, size |-> size % SIZE_MOD, used |-> used]
Junk == [next |-> NULL, size |-> 0, used |-> FALSE]

align4(bytes) == (bytes + 3) \div 4

(* The address that a loop "while (more) p = p->next" reaches. *)
Walk(m, p, succ(_, _), more(_, _)) ==
    LET at[n \in 0..HEAP] ==
            IF n = 0 THEN p
            ELSE LET a == at[n - 1] IN IF a \in Words /\ more(m, a) THEN succ(m, a) ELSE a
    IN at[HEAP]

NextOf(m, p) == m[p].next
BySize(m, p) == p + m[p].size
IsUsed(m, p) == m[p].used
IsFreeInside(m, p) == ~m[p].used /\ m[p].next # NULL

(* The outcome of a call: the heap after it and the address returned. *)
Outcome(m, h, ptr, size) == [mem |-> m, hint |-> h, pos |-> pool_free_pos, ptr |-> ptr, size |-> size]
Failed(m) == Outcome(m, hint, NULL, 0)

-----------------------------------------------------------------------------
(* MEM_ALLOC 3. *)

(* Skip the used blocks from s.p on; q is where the free ones begin. *)
Skip(s) == [m |-> s.m, p |-> Walk(s.m, s.p, NextOf, IsUsed),
            q |-> IF IsUsed(s.m, s.p) THEN Walk(s.m, s.p, NextOf, IsUsed) ELSE s.q]

(* Join the free blocks from q up to r. *)
Join(m, q, r) == [m |-> [m EXCEPT ![q] = Header(r, r - q - H, FALSE)], p |-> r, q |-> q]

(* One turn of the loop of hf_malloc(): skip used blocks, join the free    *)
(* blocks that follow, and stop if they are enough.                        *)
Turn3(s, size) ==
    LET join(k) == Join(k.m, k.q, Walk(k.m, k.p, NextOf, IsFreeInside))
        stop(j) == IF j.m[j.q].size >= size + H
                   THEN [m |-> j.m, p |-> j.q, q |-> j.q, done |-> TRUE]
                   ELSE [m |-> j.m, p |-> j.p, q |-> j.q, done |-> FALSE]
    IN stop(join(Skip(s)))

Search3(size) ==
    LET s[n \in 0..HEAP] ==
            IF n = 0 THEN [m |-> mem, p |-> hint, q |-> hint, done |-> FALSE]
            ELSE LET t == s[n - 1] IN IF t.done \/ t.m[t.p].next = NULL THEN t ELSE Turn3(t, size)
    IN s[HEAP]

(* Mutation: the remainder is linked after the block behind it was lost. *)
Split3_swapped(m, p, size) ==
    LET rest == p + size + H
        cut == [m EXCEPT ![p] = Header(rest, size, TRUE)]
    IN [cut EXCEPT ![rest] = Header(cut[rest].next, cut[p].size - size - H, FALSE)]

(* The block is cut; the remainder's size is computed from the size that   *)
(* was just overwritten, so it is -H until a sweep computes it again.      *)
Split3(m, p, size) ==
    LET rest == p + size + H
        cut == [m EXCEPT ![p] = Header(rest, size, TRUE)]
    IN [cut EXCEPT ![rest] = Header(m[p].next, cut[p].size - size - H, FALSE)]

hf_malloc3(size) ==
    LET take(s) == IF s.m[s.p].next = NULL THEN Failed(s.m)
                   ELSE Outcome(Split3(s.m, s.p, size), s.p, s.p + H, size)
    IN take(Search3(size))

(* Mutation: hf_free() does not set last_free. *)
hf_free3_keep(ptr) == Outcome([mem EXCEPT ![ptr - H].used = FALSE], hint, ptr, mem[ptr - H].size)

hf_free3(ptr) == Outcome([mem EXCEPT ![ptr - H].used = FALSE], 0, ptr, mem[ptr - H].size)

-----------------------------------------------------------------------------
(* MEM_ALLOC 2: the first fit from ff; hf_free() joins free blocks. *)

hf_malloc2(size) ==
    LET tooSmall(m, p) == (m[p].size < size + H \/ m[p].used) /\ ~(m[p].next = NULL /\ m[p].size < size)
        take(p, rest) ==
            IF mem[p].next = NULL THEN Failed(mem)
            ELSE Outcome([mem EXCEPT ![p] = Header(rest, size, TRUE),
                                     ![rest] = Header(mem[p].next, mem[p].size - size - H, FALSE)],
                         p, p + H, size)
        cut(p) == take(p, p + size + H)
    IN cut(Walk(mem, hint, NextOf, tooSmall))

(* Mutation: hf_free() accounts for the block after it was joined. *)
hf_free2_late(ptr) ==
    LET freed == [mem EXCEPT ![ptr - H].used = FALSE]
        r == Walk(freed, ptr - H, NextOf, IsFreeInside)
    IN Outcome([freed EXCEPT ![ptr - H] = Header(r, r - ptr, FALSE)], 0, ptr, r - ptr)

(* One turn of the loop of hf_free(). *)
Join2(s) ==
    LET join(k) == Join(k.m, k.q, Walk(k.m, k.p, NextOf, IsFreeInside))
    IN join(Skip(s))

hf_free2(ptr) ==
    LET s[n \in 0..HEAP] ==
            IF n = 0 THEN [m |-> [mem EXCEPT ![ptr - H].used = FALSE], p |-> 0, q |-> 0]
            ELSE LET t == s[n - 1] IN IF t.m[t.p].next = NULL THEN t ELSE Join2(t)
    IN Outcome(s[HEAP].m, 0, ptr, mem[ptr - H].size)

-----------------------------------------------------------------------------
(* MEM_ALLOC 0: the size includes the header and leads to the next block;  *)
(* a block of size 0 ends the heap.                                        *)

(* One turn of the loop of compact(). *)
Turn0(s, nsize) ==
    LET psize == s.m[s.p].size
        full == s.m[s.p].used
        m == IF full /\ s.bsize # 0 THEN [s.m EXCEPT ![s.best].size = s.bsize] ELSE s.m
    IN IF full /\ s.bsize # 0 /\ s.bsize >= nsize
       THEN [s EXCEPT !.m = m, !.done = TRUE]
       ELSE [m |-> m, p |-> s.p + psize, done |-> FALSE,
             best |-> IF full THEN s.p + psize ELSE s.best,
             bsize |-> IF full THEN 0 ELSE s.bsize + psize]

compact(nsize) ==
    LET s[n \in 0..HEAP] ==
            IF n = 0 THEN [m |-> mem, p |-> 0, best |-> 0, bsize |-> 0, done |-> FALSE]
            ELSE LET t == s[n - 1] IN IF t.done \/ t.m[t.p].size = 0 THEN t ELSE Turn0(t, nsize)
        end(e) == [mem |-> IF e.bsize # 0 THEN [e.m EXCEPT ![e.best].size = e.bsize] ELSE e.m,
                   free |-> IF e.bsize # 0 /\ e.bsize >= nsize THEN e.best ELSE NULL]
    IN end(s[HEAP])

hf_malloc0(words) ==
    LET size == words + H
        take(m, p) ==
            IF p = NULL THEN Outcome(m, NULL, NULL, 0)
            ELSE IF m[p].size >= size + H
                 THEN Outcome([m EXCEPT ![p] = Header(NULL, size, TRUE),
                                        ![p + size] = Header(NULL, m[p].size - size, FALSE)],
                              p + size, p + H, words)
                 ELSE Outcome([m EXCEPT ![p] = Header(NULL, m[p].size, TRUE)], NULL, p + H, words)
        found(c) == take(c.mem, c.free)
    IN found(IF hint = NULL \/ (hint # NULL /\ size > mem[hint].size)
             THEN compact(size) ELSE [mem |-> mem, free |-> hint])

hf_free0(ptr) == Outcome([mem EXCEPT ![ptr - H].used = FALSE], hint, ptr, mem[ptr - H].size)

-----------------------------------------------------------------------------
(* MEM_ALLOC 1: a circular list of free blocks ordered by address, whose   *)
(* head is the variable base; sizes in quantas of two words, the header    *)
(* included.                                                               *)

Quanta == 2

(* The free block after which a block belongs. *)
Below(m, freep, block) ==
    LET between(p) == (block > p /\ block < m[p].next)
                      \/ (p >= m[p].next /\ (block > p \/ block < m[p].next))
        at[n \in 0..HEAP] == IF n = 0 THEN freep
                             ELSE LET a == at[n - 1] IN IF between(a) THEN a ELSE m[a].next
    IN at[HEAP]

(* Mutation: free2() joins with the block above without its size. *)
free2_short(m, freep, block) ==
    LET put(p) == [mem |-> [m EXCEPT ![block].next = m[p].next, ![block].size = @ + 1, ![p].next = block],
                   freep |-> p]
    IN put(Below(m, freep, block))

(* free2(): find the place of the block and join it with its neighbours. *)
free2(m, freep, block) ==
    LET above(up) == IF block + m[block].size * Quanta = up
                     THEN [m EXCEPT ![block].size = @ + m[up].size, ![block].next = m[up].next]
                     ELSE [m EXCEPT ![block].next = up]
        below(b, p) == IF p + m[p].size * Quanta = block
                       THEN [b EXCEPT ![p].size = @ + b[block].size, ![p].next = b[block].next]
                       ELSE [b EXCEPT ![p].next = block]
        put(p) == [mem |-> below(above(m[p].next), p), freep |-> p]
    IN put(Below(m, freep, block))

(* morecore(): a piece of the unused heap becomes a free block. *)
morecore(m, freep, pos, nquantas) ==
    LET n == IF nquantas < MinPool THEN MinPool ELSE nquantas
        grown(f) == [mem |-> f.mem, freep |-> f.freep, pos |-> pos + n * Quanta]
    IN grown(free2([m EXCEPT ![pos].size = n], freep, pos))
NoMoreCore(pos, nquantas) == pos + (IF nquantas < MinPool THEN MinPool ELSE nquantas) * Quanta > HEAP

(* One turn of the loop of hf_malloc(): a fit, more core, or the next block. *)
Turn1(s, nquantas) ==
    LET fits == s.m[s.p].size >= nquantas
        last == s.p = s.freep
        refilled(c) == [m |-> c.mem, freep |-> c.freep, pos |-> c.pos, prevp |-> c.freep,
                        p |-> c.mem[c.freep].next, end |-> "no"]
    IN CASE fits -> [s EXCEPT !.end = "fit"]
         [] ~fits /\ last /\ NoMoreCore(s.pos, nquantas) -> [s EXCEPT !.end = "none"]
         [] ~fits /\ last /\ ~NoMoreCore(s.pos, nquantas) ->
                refilled(morecore(s.m, s.freep, s.pos, nquantas))
         [] OTHER -> [s EXCEPT !.prevp = s.p, !.p = s.m[s.p].next]

(* The first call makes base the only, empty block of the list.  A fit of  *)
(* the exact size leaves the list; a larger block gives its tail.          *)
hf_malloc1(words) ==
    LET nquantas == (words + Quanta - 1) \div Quanta + 1
        first == hint = NULL
        m0 == IF first THEN [mem EXCEPT ![base] = Header(base, 0, FALSE)] ELSE mem
        f0 == IF first THEN base ELSE hint
        s[n \in 0..(2 * HEAP)] ==
            IF n = 0 THEN [m |-> m0, freep |-> f0, pos |-> pool_free_pos, prevp |-> f0,
                           p |-> m0[f0].next, end |-> "no"]
            ELSE LET t == s[n - 1] IN IF t.end # "no" THEN t ELSE Turn1(t, nquantas)
        take(e, left) ==
            CASE e.end = "none" -> [mem |-> e.m, hint |-> e.freep, pos |-> e.pos, ptr |-> NULL, size |-> 0]
              [] e.end = "fit" /\ left = 0 ->
                     [mem |-> [e.m EXCEPT ![e.prevp].next = e.m[e.p].next], hint |-> e.prevp,
                      pos |-> e.pos, ptr |-> e.p + H, size |-> words]
              [] e.end = "fit" /\ left # 0 ->
                     LET tail == e.p + left * Quanta
                     IN [mem |-> [e.m EXCEPT ![e.p].size = left, ![tail].size = nquantas], hint |-> e.prevp,
                         pos |-> e.pos, ptr |-> tail + H, size |-> words]
        end(e) == take(e, e.m[e.p].size - nquantas)
    IN end(s[2 * HEAP])

hf_free1(ptr) ==
    LET freed(f) == Outcome(f.mem, f.freep, ptr, mem[ptr - H].size)
    IN freed(free2(mem, hint, ptr - H))

-----------------------------------------------------------------------------
(* The calls. *)

(* heapinit(): MEM_ALLOC 2 and 3 begin with a free block and a terminator. *)
InitialMem(a, b) ==
    CASE a = 0 -> [w \in Words |-> IF w = 0 THEN Header(NULL, HEAP - 1, FALSE) ELSE Junk]
      [] a = 1 -> [w \in Words \cup {b} |-> Junk]
      [] OTHER -> [w \in Words |-> IF w = 0 THEN Header(HEAP - 2, HEAP - 4, FALSE) ELSE Junk]

(* The list's head of MEM_ALLOC 1 is in memory below or above the heap. *)
Init ==
    /\ MEM_ALLOC \in Allocators
    /\ base \in IF MEM_ALLOC = 1 THEN {-4, HEAP + 2} ELSE {0}
    /\ mem = InitialMem(MEM_ALLOC, base)
    /\ hint = IF MEM_ALLOC = 1 THEN NULL ELSE 0
    /\ pool_free_pos = 0
    /\ krnl_free = IF MEM_ALLOC = 1 THEN HEAP ELSE HEAP - IF MEM_ALLOC = 0 THEN 1 ELSE 4
    /\ held = << >>
    /\ moving = {}

malloc(words) == CASE MEM_ALLOC = 0 -> IF words = 0 THEN Failed(mem) ELSE hf_malloc0(words)
                   [] MEM_ALLOC = 1 -> hf_malloc1(words)
                   [] MEM_ALLOC = 2 -> hf_malloc2(words)
                   [] MEM_ALLOC = 3 -> hf_malloc3(words)

free(ptr) == CASE MEM_ALLOC = 0 -> hf_free0(ptr)
               [] MEM_ALLOC = 1 -> hf_free1(ptr)
               [] MEM_ALLOC = 2 -> hf_free2(ptr)
               [] MEM_ALLOC = 3 -> hf_free3(ptr)

(* The free memory after a call, where the allocator keeps it by adding    *)
(* and subtracting (MEM_ALLOC 2 and 3).  MEM_ALLOC 0 has the size of the   *)
(* block at its hint instead, and MEM_ALLOC 1 subtracts and never adds     *)
(* (malloc.c:57, 93, 233): both are left out.                              *)
Charged(o) == IF MEM_ALLOC \in {2, 3} /\ o.ptr # NULL THEN krnl_free - (o.size + H) ELSE krnl_free
Credited(o) == IF MEM_ALLOC \in {2, 3} THEN krnl_free + o.size + H ELSE krnl_free

Allocate(words) ==
    \E o \in {malloc(words)} :
        /\ mem' = IF o.ptr = NULL THEN o.mem
                  ELSE [a \in DOMAIN o.mem |-> IF a >= o.ptr /\ a < o.ptr + words THEN Junk ELSE o.mem[a]]
        /\ hint' = o.hint
        /\ pool_free_pos' = o.pos
        /\ krnl_free' = Charged(o)
        /\ held' = IF o.ptr = NULL THEN held
                   ELSE [p \in DOMAIN held \cup {o.ptr} |-> IF p = o.ptr THEN words ELSE held[p]]

Release(ptr) ==
    \E o \in {free(ptr)} :
        /\ mem' = o.mem
        /\ hint' = o.hint
        /\ pool_free_pos' = o.pos
        /\ krnl_free' = Credited(o)
        /\ held' = [p \in DOMAIN held \ {ptr} |-> held[p]]

hf_malloc(bytes) ==
    /\ Allocate(align4(bytes))
    /\ UNCHANGED <<MEM_ALLOC, base, moving>>

hf_free(ptr) ==
    /\ Release(ptr)
    /\ UNCHANGED <<MEM_ALLOC, base, moving>>

hf_calloc(qty, type_size) ==
    /\ Allocate(align4(qty * type_size))
    /\ UNCHANGED <<MEM_ALLOC, base, moving>>

(* hf_realloc(), up to the copy; if there is a new block the old one is    *)
(* freed in a second step.                                                 *)
hf_realloc(ptr, bytes) ==
    /\ Cardinality(moving) < MaxMoving
    /\ Allocate(align4(bytes))
    /\ moving' = IF DOMAIN held' = DOMAIN held THEN moving ELSE moving \cup {ptr}
    /\ UNCHANGED <<MEM_ALLOC, base>>

FreeMoved(ptr) ==
    /\ Release(ptr)
    /\ moving' = moving \ {ptr}
    /\ UNCHANGED <<MEM_ALLOC, base>>

Next ==
    \/ \E bytes \in Requests : hf_malloc(bytes)
    \/ \E args \in CallocArgs : hf_calloc(args[1], args[2])
    \/ \E ptr \in DOMAIN held \ moving :
          \/ hf_free(ptr)
          \/ \E bytes \in Requests : hf_realloc(ptr, bytes)
    \/ \E ptr \in moving : FreeMoved(ptr)

Spec == Init /\ [][Next]_vars

-----------------------------------------------------------------------------
(* Properties. *)

TypeOK ==
    /\ MEM_ALLOC \in Allocators
    /\ \A a \in DOMAIN mem : /\ mem[a].next \in Words \cup {NULL, base}
                             /\ mem[a].size \in 0..(SIZE_MOD - 1)
                             /\ mem[a].used \in BOOLEAN
    /\ hint \in Words \cup {NULL, base}
    /\ pool_free_pos \in 0..HEAP
    /\ krnl_free \in Int
    /\ DOMAIN held \subseteq Words
    /\ moving \subseteq DOMAIN held

(* The words that belong to a client's block. *)
Block(p) == p..(p + held[p] - 1)

(* No two clients share a word, no client is given a word outside the heap *)
(* or one of a header in use: whatever allocator, and whatever sequence of *)
(* splits, joins and sweeps came before.                                   *)
BlocksDisjoint ==
    /\ TypeOK
    /\ \A p \in DOMAIN held :
        /\ (p - H)..(p + held[p] - 1) \subseteq Words
        /\ MEM_ALLOC \in {2, 3} => p + held[p] <= HEAP - 2 * H
        /\ \A q \in DOMAIN held \ {p} : Block(p) \cap ((q - H)..(q + held[q] - 1)) = {}

(* The blocks from the start of the heap to the one that ends it. *)
Chain ==
    LET succ(m, p) == IF MEM_ALLOC = 0 THEN BySize(m, p) ELSE NextOf(m, p)
        last(p) == IF MEM_ALLOC = 0 THEN mem[p].size = 0 ELSE mem[p].next = NULL
        at[n \in 0..HEAP] ==
            IF n = 0 THEN {0}
            ELSE LET c == at[n - 1] IN c \cup {succ(mem, p) : p \in {x \in c : x \in Words /\ ~last(x)}}
    IN at[HEAP]

(* The chain that the allocators 0, 2 and 3 sweep is whole: it ends at the *)
(* terminator, its used blocks are exactly the clients', and with 2 and 3  *)
(* the block before the terminator is free, without which a sweep would    *)
(* take the terminator for a free block and leave the heap.                *)
ChainWhole ==
    MEM_ALLOC # 1 =>
        /\ Chain \subseteq Words
        /\ Max(Chain) = HEAP - H
        /\ {p \in Chain : mem[p].used} = {p - H : p \in DOMAIN held}
        /\ MEM_ALLOC \in {2, 3} => ~mem[Max(Chain \ {HEAP - H})].used

(* The free memory that hf_freemem() reports is what is not in a client's  *)
(* block, its header or the first and last headers, for the two allocators *)
(* that add and subtract (MEM_ALLOC 2 and 3).                              *)
FreeMemoryCounted ==
    MEM_ALLOC \in {2, 3} =>
        krnl_free = HEAP - 2 * H - MapThenSumSet(LAMBDA p : held[p] + H, DOMAIN held)

(* Nothing is lost: once every block is freed the whole heap can be had    *)
(* again in one piece, although joining free blocks is left to later calls *)
(* (MEM_ALLOC 0 and 3) and starts where the last one was found.            *)
AllFreeAgain ==
    MEM_ALLOC \in {0, 2, 3} /\ DOMAIN held = {} => malloc(HEAP - 3 * H).ptr = H

(* "free areas are searched from the beginning of the heap": hf_malloc()   *)
(* fails only if no run of free blocks is large enough.                    *)
FirstFit ==
    \A bytes \in Requests :
        malloc(align4(bytes)).ptr = NULL =>
            ~ \E a, b \in Words : /\ a + 2 * H + align4(bytes) <= b
                                  /\ a..(b - 1) \cap UNION {(p - H)..(p + held[p] - 1) : p \in DOMAIN held} = {}
                                  /\ b <= HEAP - H
=============================================================================
