---------------------------- MODULE EndpointProof ---------------------------
(***************************************************************************)
(* The endpoint of module Net is sound without a lock, for any number of   *)
(* buffers and datagrams: EndpointSafe and InOrder.                        *)
(*                                                                         *)
(* The argument is the one the code leaves unsaid.  Each queue of an       *)
(* endpoint has one task that adds to it and one that takes from it        *)
(* (Roles), so the tail is written by one and the head by the other; what  *)
(* a ring holds is the sequence Line, to which add_tail appends and from   *)
(* which rem_head takes, whatever the element count says.  Every buffer    *)
(* made so far is in one place (OnePlace): with QSize buffers and QSize    *)
(* cells a task that has a buffer in hand always finds a cell for it       *)
(* (NotFull), so no buffer is refused and lost.  Ordered carries the       *)
(* numbers of the datagrams from their arrival to hf_uudp_recv().          *)
(* All that holds while the endpoint is created or in use (Live), which    *)
(* no step brings back once it is over; Filling is needed for that.        *)
(***************************************************************************)
EXTENDS NetProof, FiniteSetTheorems, SequenceTheorems

Removing == {"rem", "rem_head", "rem_load", "rem_store", "taken"}
Adding == {"add", "add_tail", "add_load", "add_store"}
Both == {"free_buffers", "pkt_queue"}
Ring == [data : [Cells -> 0..QSize], head : Cells, tail : Cells, elem : Int]
Doing == [pc : {"idle", "arp_mac", "create", "fill", "drain", "unlist"} \cup Removing \cup Adding,
          q : {""} \cup Both, buf : 0..QSize, reg : Int, n : 0..QSize]

EndpointType ==
    /\ life \in {"none", "creating", "ready", "failed", "destroying", "gone"}
    /\ list \in BOOLEAN
    /\ DOMAIN queues \subseteq Both /\ queues \in [DOMAIN queues -> Ring]
    /\ content \in [Buffers -> -1..(2 * Oversize)]
    /\ act \in [{Service, Owner} -> Doing]
    /\ \A a \in {Service, Owner} : /\ act[a].pc = "add" => act[a].buf \in Buffers
                                   /\ act[a].pc = "create" => act[a].q \in Both
    /\ arrived \in 0..MaxDatagrams /\ received \in Int
    /\ leaked \subseteq Buffers

(* What is in a ring, in the order it is taken out. *)
Line(r) == [i \in 1..((r.tail - r.head) % (QSize + 1)) |-> r.data[(r.head + i - 1) % (QSize + 1)]]
Waiting(q) == IF q \in DOMAIN queues THEN Line(queues[q]) ELSE << >>
Free == Waiting("free_buffers")
Packets == Waiting("pkt_queue")

Elements(s) == {s[i] : i \in 1..Len(s)}
Distinct(s) == \A i, j \in 1..Len(s) : s[i] = s[j] => i = j

(* The endpoint is being created or in use. *)
Live == wild = {} /\ life \in {"none", "creating", "ready"}

(* Each queue has one task that adds to it and one that takes from it. *)
Roles ==
    /\ act[Service].pc \in {"idle", "arp_mac"} \cup Removing \cup Adding
    /\ act[Service].pc \in Removing => act[Service].q = "free_buffers"
    /\ act[Service].pc \in Adding => act[Service].q = "pkt_queue"
    /\ act[Owner].pc \in {"idle", "create", "fill"} \cup Removing \cup Adding
    /\ act[Owner].pc \in Removing => act[Owner].q = "pkt_queue"
    /\ act[Owner].pc \in Adding => act[Owner].q = "free_buffers"

Stages ==
    /\ life = "none" => ~list /\ DOMAIN queues = {} /\ act[Owner] = Idle /\ act[Service].pc \in {"idle", "arp_mac"}
    /\ life = "creating" =>
          \/ /\ act[Owner].pc = "create" /\ act[Owner].n = 0
             /\ \/ act[Owner].q = "free_buffers" /\ DOMAIN queues = {}
                \/ act[Owner].q = "pkt_queue" /\ DOMAIN queues = {"free_buffers"}
          \/ act[Owner].pc \in {"fill"} \cup Adding /\ DOMAIN queues = Both
    /\ life = "ready" => act[Owner].pc \in {"idle"} \cup Removing \cup Adding /\ DOMAIN queues = Both

(* A task that takes a buffer out has read it at the head, and one that    *)
(* adds a buffer has written it at the tail, before the index moves.       *)
InHand == {"rem_load", "rem_store", "taken", "add", "add_tail"}
Hand(a) == IF act[a].pc \in InHand THEN {act[a].buf} ELSE {}
Steady(a) ==
    /\ act[a].pc = "rem_head" => Waiting(act[a].q) # << >> /\ act[a].buf = Waiting(act[a].q)[1]
    /\ act[a].pc = "add_tail" => /\ Len(Waiting(act[a].q)) < QSize
                                 /\ queues[act[a].q].data[queues[act[a].q].tail] = act[a].buf
    /\ act[a].pc \notin InHand \cup {"rem_head"} => act[a].buf = 0
    /\ act[a].pc \in (Removing \cup Adding) \ {"rem"} => act[a].q \in DOMAIN queues

(* Every buffer made so far is in one place. *)
Made == IF life = "ready" THEN Buffers ELSE 1..act[Owner].n
Split(A, B, C, D, E, M) ==
    /\ A \cup B \cup C \cup D \cup E = M
    /\ A \cap B = {} /\ A \cap C = {} /\ A \cap D = {} /\ A \cap E = {}
    /\ B \cap C = {} /\ B \cap D = {} /\ B \cap E = {}
    /\ C \cap D = {} /\ C \cap E = {} /\ D \cap E = {}
OnePlace ==
    /\ Distinct(Free) /\ Distinct(Packets)
    /\ Split(Elements(Free), Elements(Packets), Hand(Service), Hand(Owner), leaked, Made)
    /\ \A b \in leaked : content[b] >= Oversize

(* Datagrams are numbered as they arrive. *)
Number(b) == content[b] % Oversize
Reading == act[Owner].pc \in {"rem_load", "rem_store", "taken"}
Handled == act[Service].pc \in Removing \cup {"add", "add_tail"}
Ordered ==
    /\ \A b \in Buffers : content[b] >= 0
    /\ received <= arrived /\ (Handled => received < arrived)
    /\ \A i \in 1..Len(Packets) : /\ received < Number(Packets[i]) /\ Number(Packets[i]) <= arrived
                                  /\ Handled => Number(Packets[i]) < arrived
                                  /\ Reading => Number(act[Owner].buf) < Number(Packets[i])
    /\ \A i, j \in 1..Len(Packets) : i < j => Number(Packets[i]) < Number(Packets[j])
    /\ Reading => /\ received < Number(act[Owner].buf) /\ Number(act[Owner].buf) <= arrived
                  /\ Handled => Number(act[Owner].buf) < arrived
    /\ act[Service].pc \in {"add", "add_tail"} => Number(act[Service].buf) = arrived

LiveInv == Roles /\ Stages /\ Steady(Service) /\ Steady(Owner) /\ OnePlace /\ Ordered

TriesBounded ==
    /\ arp_index \in Entries
    /\ \A t \in Senders : sending[t].tries <= UUDP_RETRIES + (IF sending[t].pc = "unlock" THEN 1 ELSE 0)

(* hf_uudp_create() is what makes queues and buffers. *)
Filling == act[Owner].pc \in {"create", "fill"} => life = "creating"

LockType == uudplock \in BOOLEAN
EndpointInv == EndpointType /\ LockType /\ TriesBounded /\ QueuesThere /\ Filling /\ (Live => LiveInv)

-----------------------------------------------------------------------------
(* Rings of QSize + 1 cells. *)

LEMMA Modulo ==
    ASSUME NEW k \in Nat \ {0}, NEW i \in Int, -k < i, i < 2 * k
    PROVE  i % k = IF i < 0 THEN i + k ELSE IF i < k THEN i ELSE i - k
<1>1. CASE i < 0
  BY <1>1, SMT
<1>2. CASE 0 <= i /\ i < k
  BY <1>2, SMT
<1>3. CASE k <= i
  BY <1>3, SMT
<1> QED
  BY <1>1, <1>2, <1>3

LEMMA WrapIs ==
    ASSUME NEW i \in Cells
    PROVE  Wrap(i) = (IF i = QSize THEN 0 ELSE i + 1) /\ Wrap(i) \in Cells
<1>1. PICK k, j : k = QSize + 1 /\ j = i + 1
  OBVIOUS
<1>2. k \in Nat \ {0} /\ j \in Int /\ -k < j /\ j < 2 * k /\ QSize \in Nat /\ i \in 0..QSize
  BY <1>1, NetAssumption DEF Cells
<1>3. j % k = IF j < 0 THEN j + k ELSE IF j < k THEN j ELSE j - k
  BY <1>2, Modulo
<1>4. Wrap(i) = j % k
  BY <1>1 DEF Wrap
<1> QED
  BY <1>1, <1>2, <1>3, <1>4 DEF Cells

(* How many cells are in use, and where the i-th of them is. *)
Count(h, t) == IF h <= t THEN t - h ELSE t - h + QSize + 1
Place(h, i) == IF h + i - 1 <= QSize THEN h + i - 1 ELSE h + i - 2 - QSize

LEMMA Ends ==
    ASSUME NEW h \in Cells, NEW t \in Cells
    PROVE  /\ (t - h) % (QSize + 1) = Count(h, t)
           /\ Count(h, t) \in 0..QSize
           /\ \A i \in 1..(QSize + 1) : (h + i - 1) % (QSize + 1) = Place(h, i) /\ Place(h, i) \in Cells
<1>1. QSize \in Nat \ {0} /\ QSize + 1 \in Nat \ {0} /\ h \in Int /\ t \in Int /\ 0 <= h /\ h <= QSize /\ 0 <= t /\ t <= QSize
  BY NetAssumption DEF Cells
<1>2. (t - h) % (QSize + 1) = Count(h, t)
  <2>1. t - h \in Int /\ -(QSize + 1) < t - h /\ t - h < 2 * (QSize + 1) /\ t - h < QSize + 1
    BY <1>1
  <2>2. (t - h) % (QSize + 1) = IF t - h < 0 THEN t - h + (QSize + 1) ELSE IF t - h < QSize + 1 THEN t - h ELSE t - h - (QSize + 1)
    BY <1>1, <2>1, Modulo
  <2> QED
    BY <1>1, <2>1, <2>2 DEF Count
<1>3. Count(h, t) \in 0..QSize
  BY <1>1 DEF Count
<1>4. ASSUME NEW i \in 1..(QSize + 1) PROVE (h + i - 1) % (QSize + 1) = Place(h, i) /\ Place(h, i) \in Cells
  <2>1. PICK k, j : k = QSize + 1 /\ j = h + i - 1
    OBVIOUS
  <2>2. k \in Nat \ {0} /\ j \in Int /\ -k < j /\ j < 2 * k /\ 0 <= j
    BY <1>1, <2>1
  <2>3. (h + i - 1) % (QSize + 1) = Place(h, i)
    <3>1. j % k = IF j < 0 THEN j + k ELSE IF j < k THEN j ELSE j - k
      BY <2>2, Modulo
    <3>2. (h + i - 1) % (QSize + 1) = j % k
      BY <2>1
    <3>3. Place(h, i) = IF j < k THEN j ELSE j - k
      BY <1>1, <2>1 DEF Place
    <3> QED
      BY <2>2, <3>1, <3>2, <3>3
  <2>4. Place(h, i) \in Cells
    BY <1>1 DEF Place, Cells
  <2> QED
    BY <2>3, <2>4
<1> QED
  BY <1>2, <1>3, <1>4

LEMMA LineIs ==
    ASSUME NEW r \in Ring
    PROVE  /\ Line(r) \in Seq(0..QSize) /\ Len(Line(r)) = Count(r.head, r.tail) /\ Len(Line(r)) \in 0..QSize
           /\ \A i \in 1..Len(Line(r)) : Line(r)[i] = r.data[Place(r.head, i)] /\ Place(r.head, i) \in Cells
<1>1. r.head \in Cells /\ r.tail \in Cells /\ r.data \in [Cells -> 0..QSize]
  BY DEF Ring
<1>2. PICK n : n = Count(r.head, r.tail)
  OBVIOUS
<1>3. (r.tail - r.head) % (QSize + 1) = n /\ n \in 0..QSize
  BY <1>1, <1>2, Ends
<1>4. \A i \in 1..n : /\ (r.head + i - 1) % (QSize + 1) = Place(r.head, i) /\ Place(r.head, i) \in Cells
  <2>1. \A i \in 1..n : i \in 1..(QSize + 1)
    BY <1>3, NetAssumption
  <2> QED
    BY <1>1, <2>1, Ends
<1>5. Line(r) = [i \in 1..n |-> r.data[(r.head + i - 1) % (QSize + 1)]]
  BY <1>3 DEF Line
<1>6. \A i \in 1..n : r.data[(r.head + i - 1) % (QSize + 1)] \in 0..QSize
  BY <1>1, <1>4
<1>7. n \in Nat
  BY <1>3
<1>8. Line(r) \in Seq(0..QSize) /\ Len(Line(r)) = n
  BY <1>5, <1>6, <1>7
<1> QED
  BY <1>2, <1>3, <1>4, <1>5, <1>8

LEMMA RingEnds ==
    ASSUME NEW r \in Ring
    PROVE  /\ r.head = r.tail <=> Line(r) = << >>
           /\ r.head # r.tail => Line(r)[1] = r.data[r.head]
           /\ Wrap(r.tail) = r.head <=> Len(Line(r)) = QSize
<1>1. r.head \in Cells /\ r.tail \in Cells /\ QSize \in Nat \ {0}
  BY NetAssumption DEF Ring
<1>2. Line(r) \in Seq(0..QSize) /\ Len(Line(r)) = Count(r.head, r.tail)
  BY LineIs
<1>3. r.head = r.tail <=> Count(r.head, r.tail) = 0
  BY <1>1 DEF Count, Cells
<1>4. Line(r) = << >> <=> Len(Line(r)) = 0
  BY <1>2
<1>5. r.head # r.tail => Line(r)[1] = r.data[r.head]
  <2> SUFFICES ASSUME r.head # r.tail PROVE Line(r)[1] = r.data[r.head]
    OBVIOUS
  <2>1. Place(r.head, 1) = r.head
    BY <1>1 DEF Place, Cells
  <2>2. 1 \in 1..Len(Line(r))
    BY <1>1, <1>2 DEF Count, Cells
  <2> QED
    BY <2>1, <2>2, LineIs
<1>6. Wrap(r.tail) = r.head <=> Count(r.head, r.tail) = QSize
  <2>1. Wrap(r.tail) = IF r.tail = QSize THEN 0 ELSE r.tail + 1
    BY <1>1, WrapIs
  <2> QED
    BY <1>1, <2>1 DEF Count, Cells
<1> QED
  BY <1>2, <1>3, <1>4, <1>5, <1>6

(* Either index moves on by one cell. *)
LEMMA Moved ==
    ASSUME NEW h \in Cells, NEW t \in Cells, NEW w \in Cells, NEW n \in Nat, n = Count(h, t)
    PROVE  /\ w = (IF t = QSize THEN 0 ELSE t + 1) /\ n < QSize => Count(h, w) = n + 1 /\ Place(h, n + 1) = t
           /\ w = (IF h = QSize THEN 0 ELSE h + 1) /\ h # t =>
                 n # 0 /\ Count(w, t) = n - 1 /\ \A i \in 1..(n - 1) : Place(w, i) = Place(h, i + 1)
<1>1. QSize \in Nat /\ h \in 0..QSize /\ t \in 0..QSize /\ w \in 0..QSize
  BY NetAssumption DEF Cells
<1>2. ASSUME w = (IF t = QSize THEN 0 ELSE t + 1), n < QSize PROVE Count(h, w) = n + 1 /\ Place(h, n + 1) = t
  BY <1>1, <1>2 DEF Count, Place
<1>3. ASSUME w = (IF h = QSize THEN 0 ELSE h + 1), h # t
      PROVE  n # 0 /\ Count(w, t) = n - 1 /\ \A i \in 1..(n - 1) : Place(w, i) = Place(h, i + 1)
  <2>1. n # 0 /\ Count(w, t) = n - 1
    BY <1>1, <1>3 DEF Count
  <2>2. ASSUME NEW i \in 1..(n - 1) PROVE Place(w, i) = Place(h, i + 1)
    BY <1>1, <1>3 DEF Count, Place
  <2> QED
    BY <2>1, <2>2
<1> QED
  BY <1>2, <1>3

(* A cell is written behind the tail: nothing that waits changes. *)
LEMMA RingWrite ==
    ASSUME NEW r \in Ring, NEW b \in 0..QSize
    PROVE  /\ [r EXCEPT !.data[r.tail] = b] \in Ring
           /\ Line([r EXCEPT !.data[r.tail] = b]) = Line(r)
           /\ [r EXCEPT !.data[r.tail] = b].data[r.tail] = b
<1>1. PICK w : w = [r EXCEPT !.data[r.tail] = b]
  OBVIOUS
<1>2. /\ w \in Ring /\ w.head = r.head /\ w.tail = r.tail /\ w.data[r.tail] = b
      /\ \A c \in Cells : c # r.tail => w.data[c] = r.data[c]
      /\ r.head \in Cells /\ r.tail \in Cells /\ QSize \in Nat
  BY <1>1, NetAssumption DEF Ring
<1>3. /\ Line(r) \in Seq(0..QSize) /\ Len(Line(r)) = Count(r.head, r.tail)
      /\ \A i \in 1..Len(Line(r)) : Line(r)[i] = r.data[Place(r.head, i)] /\ Place(r.head, i) \in Cells
  BY LineIs
<1>4. /\ Line(w) \in Seq(0..QSize) /\ Len(Line(w)) = Count(r.head, r.tail)
      /\ \A i \in 1..Len(Line(w)) : Line(w)[i] = w.data[Place(r.head, i)]
  BY <1>2, LineIs
<1>5. ASSUME NEW i \in 1..Count(r.head, r.tail) PROVE Place(r.head, i) # r.tail
  BY <1>2 DEF Place, Count, Cells
<1>6. \A i \in 1..Len(Line(r)) : Line(w)[i] = Line(r)[i]
  BY <1>2, <1>3, <1>4, <1>5
<1>7. Line(w) = Line(r)
  BY <1>3, <1>4, <1>6
<1> QED
  BY <1>1, <1>2, <1>7

LEMMA RingAdd ==
    ASSUME NEW r \in Ring, Len(Line(r)) < QSize
    PROVE  /\ [r EXCEPT !.tail = Wrap(r.tail)] \in Ring
           /\ Line([r EXCEPT !.tail = Wrap(r.tail)]) = Append(Line(r), r.data[r.tail])
<1>1. PICK w : w = [r EXCEPT !.tail = Wrap(r.tail)]
  OBVIOUS
<1>2. /\ r.head \in Cells /\ r.tail \in Cells /\ QSize \in Nat /\ r.data \in [Cells -> 0..QSize]
      /\ Wrap(r.tail) = (IF r.tail = QSize THEN 0 ELSE r.tail + 1) /\ Wrap(r.tail) \in Cells
  BY WrapIs, NetAssumption DEF Ring
<1>3. w \in Ring /\ w.head = r.head /\ w.tail = Wrap(r.tail) /\ w.data = r.data
  BY <1>1, <1>2 DEF Ring
<1>4. /\ Line(r) \in Seq(0..QSize) /\ Len(Line(r)) = Count(r.head, r.tail)
      /\ \A i \in 1..Len(Line(r)) : Line(r)[i] = r.data[Place(r.head, i)]
  BY LineIs
<1>5. /\ Line(w) \in Seq(0..QSize) /\ Len(Line(w)) = Count(r.head, Wrap(r.tail))
      /\ \A i \in 1..Len(Line(w)) : Line(w)[i] = r.data[Place(r.head, i)]
  BY <1>3, LineIs
<1>6. PICK n : n = Len(Line(r))
  OBVIOUS
<1>7. n \in Nat /\ n < QSize /\ Count(r.head, Wrap(r.tail)) = n + 1 /\ Place(r.head, n + 1) = r.tail
  BY <1>2, <1>4, <1>6, Moved
<1>8. PICK s \in Seq(0..QSize), x \in 0..QSize : s = Line(r) /\ x = r.data[r.tail]
  BY <1>2, <1>4
<1>9. PICK l \in Seq(0..QSize) : l = Line(w)
  BY <1>5
<1>10. /\ Len(l) = n + 1 /\ Len(s) = n /\ l[n + 1] = x
       /\ \A i \in 1..n : l[i] = s[i]
  <2>1. n + 1 \in 1..(n + 1) /\ \A i \in 1..n : i \in 1..(n + 1)
    BY <1>7
  <2> QED
    BY <1>4, <1>5, <1>6, <1>7, <1>8, <1>9, <2>1
<1>11. l = Append(s, x)
  BY <1>7, <1>10
<1> QED
  BY <1>1, <1>3, <1>8, <1>9, <1>11

LEMMA RingRem ==
    ASSUME NEW r \in Ring, Line(r) # << >>
    PROVE  /\ [r EXCEPT !.head = Wrap(r.head)] \in Ring
           /\ Line([r EXCEPT !.head = Wrap(r.head)]) = Tail(Line(r))
<1>1. PICK w : w = [r EXCEPT !.head = Wrap(r.head)]
  OBVIOUS
<1>2. /\ r.head \in Cells /\ r.tail \in Cells /\ QSize \in Nat /\ r.data \in [Cells -> 0..QSize]
      /\ Wrap(r.head) = (IF r.head = QSize THEN 0 ELSE r.head + 1) /\ Wrap(r.head) \in Cells
  BY WrapIs, NetAssumption DEF Ring
<1>3. w \in Ring /\ w.tail = r.tail /\ w.head = Wrap(r.head) /\ w.data = r.data
  BY <1>1, <1>2 DEF Ring
<1>4. /\ Line(r) \in Seq(0..QSize) /\ Len(Line(r)) = Count(r.head, r.tail)
      /\ \A i \in 1..Len(Line(r)) : Line(r)[i] = r.data[Place(r.head, i)]
  BY LineIs
<1>5. /\ Line(w) \in Seq(0..QSize) /\ Len(Line(w)) = Count(Wrap(r.head), r.tail)
      /\ \A i \in 1..Len(Line(w)) : Line(w)[i] = r.data[Place(Wrap(r.head), i)]
  BY <1>3, LineIs
<1>6. r.head # r.tail
  BY RingEnds
<1>7. PICK n : n = Count(r.head, r.tail)
  OBVIOUS
<1>8. /\ n \in Nat \ {0} /\ Len(Line(r)) = n /\ Len(Line(w)) = n - 1
      /\ \A i \in 1..(n - 1) : Place(Wrap(r.head), i) = Place(r.head, i + 1) /\ i + 1 \in 1..n
  <2>1. n \in Nat
    BY <1>4, <1>7
  <2>2. /\ n # 0 /\ Count(Wrap(r.head), r.tail) = n - 1
        /\ \A i \in 1..(n - 1) : Place(Wrap(r.head), i) = Place(r.head, i + 1)
    BY <1>2, <1>6, <1>7, <2>1, Moved
  <2>3. \A i \in 1..(n - 1) : i + 1 \in 1..n
    BY <2>1
  <2> QED
    BY <1>4, <1>5, <1>7, <2>1, <2>2, <2>3
<1>9. /\ Tail(Line(r)) \in Seq(0..QSize) /\ Len(Tail(Line(r))) = Len(Line(w))
      /\ \A i \in 1..Len(Line(w)) : Tail(Line(r))[i] = Line(r)[i + 1]
  BY <1>4, <1>5, <1>8
<1>10. \A i \in 1..Len(Line(w)) : Tail(Line(r))[i] = Line(w)[i]
  BY <1>4, <1>5, <1>8, <1>9
<1>11. Line(w) = Tail(Line(r))
  BY <1>5, <1>9, <1>10
<1> QED
  BY <1>1, <1>3, <1>11

(* The element count is no part of what waits. *)
LEMMA RingCount ==
    ASSUME NEW r \in Ring, NEW n \in Int
    PROVE  [r EXCEPT !.elem = n] \in Ring /\ Line([r EXCEPT !.elem = n]) = Line(r)
BY DEF Ring, Line

-----------------------------------------------------------------------------
(* What waits in a queue. *)

LEMMA Appended ==
    ASSUME NEW s \in Seq(0..QSize), NEW x \in 0..QSize
    PROVE  /\ Append(s, x) \in Seq(0..QSize) /\ Append(s, x) # << >> /\ Len(s) \in Nat /\ Len(Append(s, x)) = Len(s) + 1
           /\ Append(s, x)[Len(s) + 1] = x /\ \A i \in 1..Len(s) : Append(s, x)[i] = s[i]
           /\ Elements(Append(s, x)) = Elements(s) \cup {x}
           /\ Distinct(s) /\ x \notin Elements(s) => Distinct(Append(s, x))
           /\ s # << >> => Append(s, x)[1] = s[1]
<1>1. PICK r : r = Append(s, x)
  OBVIOUS
<1>2. /\ r \in Seq(0..QSize) /\ Len(s) \in Nat /\ Len(r) = Len(s) + 1 /\ r[Len(s) + 1] = x
      /\ \A i \in 1..Len(s) : r[i] = s[i]
  BY <1>1
<1>3. /\ \A i \in 1..Len(r) : i \in 1..Len(s) \/ i = Len(s) + 1
      /\ \A i \in 1..Len(s) : i \in 1..Len(r)
      /\ Len(s) + 1 \in 1..Len(r) /\ r # << >> /\ (s # << >> => 1 \in 1..Len(s))
  BY <1>2
<1>4. Elements(r) = Elements(s) \cup {x}
  BY <1>2, <1>3, ZenonT(40) DEF Elements
<1>5. Distinct(s) /\ x \notin Elements(s) => Distinct(r)
  BY <1>2, <1>3 DEF Distinct, Elements
<1> QED
  BY <1>1, <1>2, <1>3, <1>4, <1>5

LEMMA Taken ==
    ASSUME NEW s \in Seq(0..QSize), s # << >>
    PROVE  /\ Tail(s) \in Seq(0..QSize) /\ Len(s) \in Nat \ {0} /\ Len(Tail(s)) = Len(s) - 1 /\ s[1] \in 0..QSize
           /\ \A i \in 1..Len(Tail(s)) : Tail(s)[i] = s[i + 1] /\ i + 1 \in 1..Len(s)
           /\ Elements(s) = Elements(Tail(s)) \cup {s[1]}
           /\ Distinct(s) => Distinct(Tail(s)) /\ s[1] \notin Elements(Tail(s))
<1>1. PICK r : r = Tail(s)
  OBVIOUS
<1>2. /\ r \in Seq(0..QSize) /\ Len(s) \in Nat \ {0} /\ Len(r) = Len(s) - 1 /\ s[1] \in 0..QSize
      /\ \A i \in 1..Len(r) : r[i] = s[i + 1] /\ i + 1 \in 1..Len(s)
  <2>1. r \in Seq(0..QSize) /\ Len(s) \in Nat \ {0} /\ Len(r) = Len(s) - 1
    BY <1>1
  <2>2. 1 \in 1..Len(s)
    BY <2>1
  <2>3. s[1] \in 0..QSize
    BY <2>2, ElementOfSeq
  <2>4. \A i \in 1..Len(r) : r[i] = s[i + 1]
    BY <1>1
  <2>5. \A i \in 1..Len(r) : i + 1 \in 1..Len(s)
    BY <2>1
  <2> QED
    BY <2>1, <2>3, <2>4, <2>5
<1>3. /\ \A i \in 1..Len(s) : i = 1 \/ (i - 1 \in 1..Len(r) /\ s[i] = r[i - 1])
      /\ 1 \in 1..Len(s)
  BY <1>2
<1>4. Elements(s) = Elements(r) \cup {s[1]}
  <2>1. Elements(r) \subseteq Elements(s)
    BY <1>2 DEF Elements
  <2>2. Elements(s) \subseteq Elements(r) \cup {s[1]}
    BY <1>3, SMTT(30) DEF Elements
  <2>3. s[1] \in Elements(s)
    BY <1>3 DEF Elements
  <2> QED
    BY <2>1, <2>2, <2>3
<1>5. ASSUME Distinct(s) PROVE Distinct(r) /\ s[1] \notin Elements(r)
  <2>1. ASSUME NEW i \in 1..Len(r), NEW j \in 1..Len(r), r[i] = r[j] PROVE i = j
    <3>1. i + 1 = j + 1
      BY <1>2, <1>5, <2>1, Zenon DEF Distinct
    <3> QED
      BY <3>1
  <2>2. ASSUME NEW i \in 1..Len(r), r[i] = s[1] PROVE FALSE
    <3>1. i + 1 = 1
      BY <1>2, <1>3, <1>5, <2>2, Zenon DEF Distinct
    <3> QED
      BY <3>1
  <2> QED
    BY <2>1, <2>2 DEF Distinct, Elements
<1> QED
  BY <1>1, <1>2, <1>4, <1>5

(* A task that has a buffer to add finds a place for it. *)
LEMMA NotFull ==
    ASSUME NEW s \in Seq(0..QSize), Distinct(s), Elements(s) \subseteq Buffers, NEW b \in Buffers, b \notin Elements(s)
    PROVE  Len(s) # QSize
<1> SUFFICES ASSUME Len(s) = QSize PROVE FALSE
  OBVIOUS
<1>1. QSize \in Nat \ {0}
  BY NetAssumption
<1>2. IsFiniteSet(Buffers) /\ Cardinality(Buffers) = QSize
  BY <1>1, FS_Interval DEF Buffers
<1>3. IsFiniteSet(Buffers \ {b}) /\ Cardinality(Buffers \ {b}) = QSize - 1
  BY <1>2, FS_RemoveElement
<1>4. PICK f \in [Buffers -> Buffers \ {b}] : \A i \in Buffers : f[i] = s[i]
  <2>1. \A i \in Buffers : s[i] \in Buffers \ {b}
    BY DEF Elements, Buffers
  <2>2. [i \in Buffers |-> s[i]] \in [Buffers -> Buffers \ {b}]
    BY <2>1
  <2> QED
    BY <2>2
<1>5. Cardinality(Buffers \ {b}) < Cardinality(Buffers)
  BY <1>1, <1>2, <1>3
<1>6. \E x, y \in Buffers : x # y /\ f[x] = f[y]
  BY <1>2, <1>3, <1>5, FS_PigeonHole, Zenon
<1> QED
  BY <1>4, <1>6 DEF Distinct, Buffers

LEMMA WaitingType ==
    ASSUME EndpointType, NEW q
    PROVE  Waiting(q) \in Seq(0..QSize) /\ Len(Waiting(q)) \in 0..QSize
<1>1. CASE q \in DOMAIN queues
  <2>1. queues[q] \in Ring
    BY <1>1 DEF EndpointType
  <2> QED
    BY <1>1, <2>1, LineIs DEF Waiting
<1>2. CASE q \notin DOMAIN queues
  BY <1>2, NetAssumption DEF Waiting
<1> QED
  BY <1>1, <1>2

(* One queue changes. *)
LEMMA QueueBecomes ==
    ASSUME EndpointType, NEW q \in DOMAIN queues, NEW r \in Ring, queues' = [queues EXCEPT ![q] = r]
    PROVE  /\ DOMAIN queues' = DOMAIN queues /\ queues' \in [DOMAIN queues -> Ring]
           /\ Waiting(q)' = Line(r) /\ queues'[q] = r
           /\ \A p : p # q => Waiting(p)' = Waiting(p) /\ (p \in DOMAIN queues => queues'[p] = queues[p])
<1>1. /\ DOMAIN queues' = DOMAIN queues /\ queues' \in [DOMAIN queues -> Ring] /\ queues'[q] = r
  BY DEF EndpointType
<1>2. Waiting(q)' = Line(r)
  BY <1>1 DEF Waiting
<1>3. ASSUME NEW p, p # q PROVE Waiting(p)' = Waiting(p) /\ (p \in DOMAIN queues => queues'[p] = queues[p])
  BY <1>1, <1>3 DEF Waiting
<1> QED
  BY <1>1, <1>2, <1>3

-----------------------------------------------------------------------------
(* Types. *)

Actors == {Service, Owner}
Pcs == {"idle", "arp_mac", "create", "fill", "drain", "unlist"} \cup Removing \cup Adding

LEMMA ActBecomes ==
    ASSUME EndpointType, NEW a \in Actors, NEW d \in Doing, act' = [act EXCEPT ![a] = d]
    PROVE  act' \in [Actors -> Doing] /\ act'[a] = d /\ \A b \in Actors : b # a => act'[b] = act[b]
BY DEF EndpointType, Actors

LEMMA GotoFacts ==
    ASSUME EndpointType, NEW a \in Actors, NEW pc \in Pcs, NEW q \in {""} \cup Both, Goto(a, pc, q)
    PROVE  /\ act' \in [Actors -> Doing] /\ \A b \in Actors : b # a => act'[b] = act[b]
           /\ act'[a].pc = pc /\ act'[a].q = q /\ act'[a].buf = act[a].buf /\ act'[a].n = act[a].n
<1>1. act[a] \in Doing /\ act \in [Actors -> Doing]
  BY DEF EndpointType, Actors
<1>2. PICK d : d = [act[a] EXCEPT !.pc = pc, !.q = q]
  OBVIOUS
<1>3. d \in Doing /\ d.pc = pc /\ d.q = q /\ d.buf = act[a].buf /\ d.n = act[a].n
  BY <1>1, <1>2 DEF Doing, Pcs
<1>4. act' = [act EXCEPT ![a] = d]
  BY <1>1, <1>2 DEF Goto
<1> QED
  BY <1>3, <1>4, ActBecomes

LEMMA IdleType == Idle \in Doing
BY NetAssumption DEF Idle, Doing

LEMMA ReturnFacts ==
    ASSUME EndpointType, NEW a \in Actors, Return(a)
    PROVE  act' \in [Actors -> Doing] /\ act'[a] = Idle /\ \A b \in Actors : b # a => act'[b] = act[b]
BY IdleType, ActBecomes DEF Return

LEMMA TypeOf ==
    ASSUME EndpointType, NEW a \in Actors
    PROVE  /\ act \in [Actors -> Doing] /\ act[a] \in Doing /\ act[a].buf \in 0..QSize /\ act[a].n \in 0..QSize
           /\ act[a].q \in {""} \cup Both /\ act[a].reg \in Int
           /\ Exists(a) => Q(a) \in Ring
           /\ QSize \in Nat \ {0} /\ 0 \in 0..QSize
<1>1. act \in [Actors -> Doing] /\ act[a] \in Doing
  BY DEF EndpointType, Actors
<1>2. Exists(a) => Q(a) \in Ring
  BY DEF EndpointType, Exists, Q
<1>3. act[a].buf \in 0..QSize /\ act[a].n \in 0..QSize /\ act[a].q \in {""} \cup Both /\ act[a].reg \in Int
  BY <1>1, Zenon DEF Doing
<1>4. QSize \in Nat \ {0} /\ 0 \in 0..QSize
  BY NetAssumption
<1> QED
  BY <1>1, <1>2, <1>3, <1>4

(* Adding a buffer ends in the filling of the endpoint or in nothing. *)
LEMMA AddedFacts ==
    ASSUME EndpointType, NEW a \in Actors, Added(a)
    PROVE  /\ act' \in [Actors -> Doing] /\ \A b \in Actors : b # a => act'[b] = act[b]
           /\ act'[a] = IF a = Owner /\ life = "creating" THEN [Idle EXCEPT !.pc = "fill", !.n = act[a].n] ELSE Idle
<1>1. [Idle EXCEPT !.pc = "fill", !.n = act[a].n] \in Doing
  <2>1. \A n \in 0..QSize : [Idle EXCEPT !.pc = "fill", !.n = n] \in Doing
    BY IdleType DEF Doing
  <2> QED
    BY <2>1, TypeOf
<1>2. CASE a = Owner /\ life = "creating"
  BY <1>1, <1>2, ActBecomes DEF Added
<1>3. CASE ~(a = Owner /\ life = "creating")
  BY <1>3, ReturnFacts DEF Added
<1> QED
  BY <1>2, <1>3

LEMMA TypeQueue ==
    ASSUME EndpointType, NEW a \in Actors, QueueStep(a)
    PROVE  EndpointType'
<1>1. /\ UNCHANGED <<life, list, content, arrived, received>>
  BY DEF QueueStep, add_data, add_tail, rem_data, rem_head, load_elem, store_elem
<1> SUFFICES /\ DOMAIN queues' \subseteq Both /\ queues' \in [DOMAIN queues' -> Ring]
             /\ act' \in [Actors -> Doing] /\ act'[a].pc \notin {"add", "create"}
             /\ \A b \in Actors : b # a => act'[b] = act[b]
             /\ leaked' \subseteq Buffers
  BY <1>1 DEF EndpointType, Actors
<1>2. Idle.pc = "idle"
  BY DEF Idle
<1>3. DOMAIN queues \subseteq Both /\ queues \in [DOMAIN queues -> Ring] /\ leaked \subseteq Buffers
  BY DEF EndpointType
<1>4. ASSUME NEW reason, Wild(a, reason) PROVE act' \in [Actors -> Doing] /\ act'[a].pc \notin {"add", "create"}
                                               /\ \A b \in Actors : b # a => act'[b] = act[b]
  BY <1>2, <1>4, ReturnFacts DEF Wild
<1>5. ASSUME Added(a) PROVE act' \in [Actors -> Doing] /\ act'[a].pc \notin {"add", "create"}
                            /\ \A b \in Actors : b # a => act'[b] = act[b]
  <2>1. [Idle EXCEPT !.pc = "fill", !.n = act[a].n].pc = "fill"
    BY DEF Idle
  <2> QED
    BY <1>2, <1>5, <2>1, AddedFacts
<1>6. ASSUME NEW r \in Ring, Exists(a), queues' = [queues EXCEPT ![act[a].q] = r]
      PROVE  DOMAIN queues' \subseteq Both /\ queues' \in [DOMAIN queues' -> Ring]
  BY <1>3, <1>6, QueueBecomes DEF Exists
<1>7. ASSUME NEW pc \in Pcs, Goto(a, pc, act[a].q), pc \notin {"add", "create"}
      PROVE  act' \in [Actors -> Doing] /\ act'[a].pc \notin {"add", "create"} /\ \A b \in Actors : b # a => act'[b] = act[b]
  BY <1>7, TypeOf, GotoFacts
<1>8. ASSUME NEW d \in Doing, act' = [act EXCEPT ![a] = d], d.pc \notin {"add", "create"}
      PROVE  act' \in [Actors -> Doing] /\ act'[a].pc \notin {"add", "create"} /\ \A b \in Actors : b # a => act'[b] = act[b]
  BY <1>8, ActBecomes
<1>9. /\ act \in [Actors -> Doing] /\ act[a] \in Doing /\ act[a].buf \in 0..QSize /\ act[a].reg \in Int /\ 0 \in 0..QSize
      /\ Exists(a) => Q(a) \in Ring
  BY TypeOf
<1>10. CASE add_data(a)
  <2>1. CASE ~Exists(a)
    BY <1>3, <1>4, <1>10, <2>1 DEF add_data
  <2>2. CASE Exists(a) /\ Wrap(Q(a).tail) = Q(a).head
    <3>1. act[a].buf \in Buffers
      BY <1>10 DEF add_data, At, EndpointType, Actors
    <3> QED
      BY <1>3, <1>5, <1>10, <2>2, <3>1 DEF add_data
  <2>3. CASE Exists(a) /\ Wrap(Q(a).tail) # Q(a).head
    <3>1. queues' = [queues EXCEPT ![act[a].q] = [Q(a) EXCEPT !.data[Q(a).tail] = act[a].buf]]
      BY <1>3, <1>10, <2>3 DEF add_data, Q, Exists
    <3>2. [Q(a) EXCEPT !.data[Q(a).tail] = act[a].buf] \in Ring
      BY <1>9, <2>3, RingWrite
    <3>3. Goto(a, "add_tail", act[a].q) /\ leaked' = leaked /\ "add_tail" \in Pcs
      BY <1>10, <2>3 DEF add_data, Pcs, Adding
    <3> QED
      BY <1>3, <1>6, <1>7, <2>3, <3>1, <3>2, <3>3
  <2> QED
    BY <2>1, <2>2, <2>3
<1>11. CASE add_tail(a)
  <2>1. CASE ~Exists(a)
    BY <1>3, <1>4, <1>11, <2>1 DEF add_tail
  <2>2. CASE Exists(a)
    <3>1. queues' = [queues EXCEPT ![act[a].q] = [Q(a) EXCEPT !.tail = Wrap(Q(a).tail)]] /\ leaked' = leaked
      BY <1>3, <1>11, <2>2 DEF add_tail, Q, Exists
    <3>2. [Q(a) EXCEPT !.tail = Wrap(Q(a).tail)] \in Ring
      BY <1>9, <2>2, WrapIs DEF Ring
    <3>3. act' = [act EXCEPT ![a] = [act[a] EXCEPT !.pc = "add_load", !.buf = 0]]
      BY <1>9, <1>11, <2>2 DEF add_tail
    <3>4. [act[a] EXCEPT !.pc = "add_load", !.buf = 0] \in Doing /\ [act[a] EXCEPT !.pc = "add_load", !.buf = 0].pc = "add_load"
      BY <1>9 DEF Doing, Adding
    <3> QED
      BY <1>3, <1>6, <1>8, <2>2, <3>1, <3>2, <3>3, <3>4
  <2> QED
    BY <2>1, <2>2
<1>12. CASE rem_data(a)
  <2>1. CASE Exists(a) /\ Q(a).head # Q(a).tail
    <3>1. act' = [act EXCEPT ![a] = [act[a] EXCEPT !.pc = "rem_head", !.buf = Q(a).data[Q(a).head]]]
      BY <1>9, <1>12, <2>1 DEF rem_data
    <3>2. Q(a).data[Q(a).head] \in 0..QSize
      BY <1>9, <2>1 DEF Ring
    <3>3. PICK d : d = [act[a] EXCEPT !.pc = "rem_head", !.buf = Q(a).data[Q(a).head]]
      OBVIOUS
    <3>4. d \in Doing /\ d.pc = "rem_head"
      BY <1>9, <3>2, <3>3 DEF Doing, Removing
    <3> QED
      BY <1>3, <1>8, <1>12, <3>1, <3>3, <3>4 DEF rem_data
  <2>2. CASE ~(Exists(a) /\ Q(a).head # Q(a).tail)
    <3>1. Return(a)
      BY <1>12, <2>2 DEF rem_data, Wild
    <3> QED
      BY <1>2, <1>3, <1>12, <3>1, ReturnFacts DEF rem_data
  <2> QED
    BY <2>1, <2>2
<1>13. CASE rem_head(a)
  <2>1. CASE ~Exists(a)
    BY <1>3, <1>4, <1>13, <2>1 DEF rem_head
  <2>2. CASE Exists(a)
    <3>1. queues' = [queues EXCEPT ![act[a].q] = [Q(a) EXCEPT !.head = Wrap(Q(a).head)]] /\ leaked' = leaked
      BY <1>3, <1>13, <2>2 DEF rem_head, Q, Exists
    <3>2. [Q(a) EXCEPT !.head = Wrap(Q(a).head)] \in Ring
      BY <1>9, <2>2, WrapIs DEF Ring
    <3>3. Goto(a, "rem_load", act[a].q) /\ "rem_load" \in Pcs
      BY <1>13, <2>2 DEF rem_head, Pcs, Removing
    <3> QED
      BY <1>3, <1>6, <1>7, <2>2, <3>1, <3>2, <3>3
  <2> QED
    BY <2>1, <2>2
<1>14. CASE load_elem(a)
  <2>1. CASE ~Exists(a)
    BY <1>3, <1>4, <1>14, <2>1 DEF load_elem
  <2>2. CASE Exists(a)
    <3>1. PICK d : d = [act[a] EXCEPT !.pc = IF @ = "add_load" THEN "add_store" ELSE "rem_store", !.reg = Q(a).elem]
      OBVIOUS
    <3>2. act' = [act EXCEPT ![a] = d]
      BY <1>9, <1>14, <2>2, <3>1 DEF load_elem
    <3>3. Q(a).elem \in Int
      BY <1>9, <2>2 DEF Ring
    <3>4. d \in Doing /\ d.pc \notin {"add", "create"}
      BY <1>9, <3>1, <3>3 DEF Doing, Removing, Adding
    <3> QED
      BY <1>3, <1>8, <1>14, <3>2, <3>4 DEF load_elem
  <2> QED
    BY <2>1, <2>2
<1>15. CASE store_elem(a)
  <2>1. CASE ~Exists(a)
    BY <1>3, <1>4, <1>15, <2>1 DEF store_elem
  <2>2. CASE Exists(a)
    <3>1. PICK e : e = act[a].reg + (IF At(a, "add_store") THEN 1 ELSE -1)
      OBVIOUS
    <3>2. e \in Int
      BY <1>9, <3>1
    <3>3. queues' = [queues EXCEPT ![act[a].q] = [Q(a) EXCEPT !.elem = e]] /\ leaked' = leaked
      BY <1>3, <1>15, <2>2, <3>1 DEF store_elem, Q, Exists
    <3>4. [Q(a) EXCEPT !.elem = e] \in Ring
      BY <1>9, <2>2, <3>2, RingCount
    <3>5. CASE At(a, "add_store")
      BY <1>3, <1>5, <1>6, <1>15, <2>2, <3>3, <3>4, <3>5 DEF store_elem
    <3>6. CASE ~At(a, "add_store")
      <4>1. PICK d : d = [act[a] EXCEPT !.pc = "taken", !.reg = 0]
        OBVIOUS
      <4>2. act' = [act EXCEPT ![a] = d]
        BY <1>9, <1>15, <2>2, <3>6, <4>1 DEF store_elem
      <4>3. d \in Doing /\ d.pc = "taken"
        <5>1. \A x \in Doing, i \in Int : /\ [x EXCEPT !.pc = "taken", !.reg = i] \in Doing
                                          /\ [x EXCEPT !.pc = "taken", !.reg = i].pc = "taken"
          BY DEF Doing, Removing
        <5>2. 0 \in Int /\ act[a] \in Doing
          BY <1>9
        <5> QED
          BY <4>1, <5>1, <5>2, Zenon
      <4> QED
        BY <1>3, <1>6, <1>8, <2>2, <3>3, <3>4, <4>2, <4>3
    <3> QED
      BY <3>5, <3>6
  <2> QED
    BY <2>1, <2>2
<1> QED
  BY <1>10, <1>11, <1>12, <1>13, <1>14, <1>15 DEF QueueStep

ServiceStep == udp_in \/ udp_callback \/ arp_mac \/ \E host \in Hosts : arp_update(host)
OwnerStep == \/ hf_uudp_create \/ create_queue \/ create_buffer \/ hf_uudp_recv \/ recv_copy
             \/ hf_uudp_destroy \/ drain \/ free_buffer \/ unlist

LEMMA EmptyRing == EmptyQueue \in Ring /\ Line(EmptyQueue) = << >>
<1>1. EmptyQueue \in Ring
  BY NetAssumption DEF EmptyQueue, Ring, Cells
<1>2. EmptyQueue.head = EmptyQueue.tail
  BY DEF EmptyQueue
<1> QED
  BY <1>1, <1>2, RingEnds

(* A queue is created. *)
LEMMA Extended ==
    ASSUME queues \in [DOMAIN queues -> Ring], DOMAIN queues \subseteq Both, NEW q \in Both,
           queues' = [x \in DOMAIN queues \cup {q} |-> IF x \in DOMAIN queues THEN queues[x] ELSE EmptyQueue]
    PROVE  /\ DOMAIN queues' = DOMAIN queues \cup {q} /\ queues' \in [DOMAIN queues' -> Ring] /\ DOMAIN queues' \subseteq Both
           /\ \A p \in DOMAIN queues : queues'[p] = queues[p]
           /\ q \notin DOMAIN queues => queues'[q] = EmptyQueue
BY EmptyRing

(* The steps that change what one task does, and no queue. *)
LEMMA TypeService ==
    ASSUME EndpointType, ServiceStep
    PROVE  EndpointType'
<1>0. Service \in Actors /\ "rem" \in Pcs /\ "add" \in Pcs /\ "free_buffers" \in {""} \cup Both /\ "pkt_queue" \in {""} \cup Both
  BY DEF Actors, Pcs, Removing, Adding, Both
<1>1. /\ act \in [Actors -> Doing] /\ act[Service] \in Doing /\ act[Service].buf \in 0..QSize /\ MaxDatagrams \in Nat
      /\ arrived \in 0..MaxDatagrams /\ content \in [Buffers -> -1..(2 * Oversize)]
  BY <1>0, TypeOf, NetAssumption DEF EndpointType
<1>2. UNCHANGED <<life, list, queues, received, leaked>>
  BY DEF ServiceStep, udp_in, udp_callback, arp_mac, arp_update
<1> SUFFICES /\ arrived' \in 0..MaxDatagrams /\ content' \in [Buffers -> -1..(2 * Oversize)]
             /\ act' \in [Actors -> Doing] /\ \A b \in Actors : b # Service => act'[b] = act[b]
             /\ act'[Service].pc = "add" => act'[Service].buf \in Buffers
             /\ act'[Service].pc # "create"
  BY <1>2 DEF EndpointType, Actors
<1>3. CASE udp_in
  <2>1. arrived' \in 0..MaxDatagrams /\ content' = content /\ act[Service].pc = "idle"
    BY <1>1, <1>3 DEF udp_in, ustack_service, At
  <2>2. CASE list
    BY <1>0, <1>1, <1>3, <2>1, <2>2, GotoFacts DEF udp_in
  <2>3. CASE ~list
    BY <1>1, <1>3, <2>1, <2>3 DEF udp_in
  <2> QED
    BY <2>2, <2>3
<1>4. CASE udp_callback
  <2>1. CASE Buffer(Service)
    <3>1. act[Service].buf \in Buffers /\ Goto(Service, "add", "pkt_queue") /\ arrived' = arrived
      BY <1>4, <2>1 DEF udp_callback, Buffer
    <3>2. PICK o \in {0, Oversize} : content' = [content EXCEPT ![act[Service].buf] = arrived + o]
      BY <1>4, <2>1 DEF udp_callback
    <3>3. arrived + o \in -1..(2 * Oversize)
      BY <1>1 DEF Oversize
    <3>4. content' \in [Buffers -> -1..(2 * Oversize)]
      BY <1>1, <3>2, <3>3
    <3> QED
      BY <1>0, <1>1, <3>1, <3>4, GotoFacts
  <2>2. CASE ~Buffer(Service)
    <3>1. Return(Service) /\ content' = content /\ arrived' = arrived
      BY <1>4, <2>2 DEF udp_callback, Wild
    <3>2. Idle.pc = "idle"
      BY DEF Idle
    <3> QED
      BY <1>0, <1>1, <3>1, <3>2, ReturnFacts
  <2> QED
    BY <2>1, <2>2
<1>5. CASE arp_mac
  <2>1. Return(Service) /\ content' = content /\ arrived' = arrived
    BY <1>5 DEF arp_mac
  <2>2. Idle.pc = "idle"
    BY DEF Idle
  <2> QED
    BY <1>0, <1>1, <2>1, <2>2, ReturnFacts
<1>6. CASE \E host \in Hosts : arp_update(host)
  <2>1. PICK i \in Entries : act' = [act EXCEPT ![Service].pc = "arp_mac", ![Service].reg = i]
    BY <1>6 DEF arp_update
  <2>2. content' = content /\ arrived' = arrived
    BY <1>6 DEF arp_update
  <2>3. i \in Int
    BY NetAssumption DEF Entries
  <2>4. \A x \in Doing, k \in Int : /\ [x EXCEPT !.pc = "arp_mac", !.reg = k] \in Doing
                                    /\ [x EXCEPT !.pc = "arp_mac", !.reg = k].pc = "arp_mac"
    BY DEF Doing
  <2>5. act' = [act EXCEPT ![Service] = [act[Service] EXCEPT !.pc = "arp_mac", !.reg = i]]
    BY <1>0, <1>1, <2>1
  <2>6. PICK d : d = [act[Service] EXCEPT !.pc = "arp_mac", !.reg = i]
    OBVIOUS
  <2>7. d \in Doing /\ d.pc = "arp_mac"
    BY <1>1, <2>3, <2>4, <2>6, Zenon
  <2> QED
    BY <1>0, <1>1, <2>2, <2>5, <2>6, <2>7, ActBecomes
<1> QED
  BY <1>3, <1>4, <1>5, <1>6 DEF ServiceStep

LEMMA TypeOwner ==
    ASSUME EndpointInv, OwnerStep
    PROVE  EndpointType'
<1>0. /\ EndpointType /\ Owner \in Actors /\ Both = {"free_buffers", "pkt_queue"}
      /\ {"", "free_buffers", "pkt_queue"} = {""} \cup Both
      /\ {"rem", "add", "create", "fill", "drain", "unlist"} \subseteq Pcs
  BY DEF EndpointInv, Actors, Pcs, Removing, Adding, Both
<1>1. /\ act \in [Actors -> Doing] /\ act[Owner] \in Doing /\ act[Owner].buf \in 0..QSize /\ act[Owner].n \in 0..QSize
      /\ act[Owner].q \in {""} \cup Both /\ QSize \in Nat \ {0} /\ MaxDatagrams \in Nat
      /\ content \in [Buffers -> -1..(2 * Oversize)] /\ received \in Int /\ leaked \subseteq Buffers
      /\ life \in {"none", "creating", "ready", "failed", "destroying", "gone"}
  BY <1>0, TypeOf, NetAssumption DEF EndpointType
<1>n. /\ act[Owner].n \in 0..QSize /\ QSize \in Nat /\ MaxDatagrams \in Nat /\ 0 \in 0..QSize
      /\ content \in [Buffers -> -1..(2 * Oversize)]
  BY <1>0, TypeOf, NetAssumption DEF EndpointType
<1>c. DOMAIN queues \subseteq Both /\ queues \in [DOMAIN queues -> Ring]
  BY <1>0 DEF EndpointType
<1>a. list' \in BOOLEAN
  BY <1>0, Zenon DEF EndpointType, OwnerStep, hf_uudp_create, create_queue, create_buffer, hf_uudp_recv, recv_copy,
         hf_uudp_destroy, drain, free_buffer, unlist
<1>b. act[Owner].pc = "create" => act[Owner].q \in Both
  BY <1>0 DEF EndpointType
<1>2. arrived' = arrived
  BY DEF OwnerStep, hf_uudp_create, create_queue, create_buffer, hf_uudp_recv, recv_copy, hf_uudp_destroy, drain,
         free_buffer, unlist
<1>3. Idle.pc = "idle"
  BY DEF Idle
<1> SUFFICES /\ life' \in {"none", "creating", "ready", "failed", "destroying", "gone"}
             /\ received' \in Int /\ leaked' \subseteq Buffers
             /\ DOMAIN queues' \subseteq Both /\ queues' \in [DOMAIN queues' -> Ring]
             /\ content' \in [Buffers -> -1..(2 * Oversize)]
             /\ act' \in [Actors -> Doing] /\ (\A b \in Actors : b # Owner => act'[b] = act[b])
             /\ act'[Owner].pc = "add" => act'[Owner].buf \in Buffers
             /\ act'[Owner].pc = "create" => act'[Owner].q \in Both
  BY <1>0, <1>a, <1>2, Zenon DEF EndpointType, Actors
<1>4. ASSUME NEW pc \in {"rem", "create", "fill", "drain", "unlist"}, NEW q \in {""} \cup Both, Goto(Owner, pc, q),
             pc = "create" => q \in Both
      PROVE  /\ act' \in [Actors -> Doing] /\ \A b \in Actors : b # Owner => act'[b] = act[b]
             /\ act'[Owner].pc # "add" /\ (act'[Owner].pc = "create" => act'[Owner].q \in Both)
  <2>1. pc \in Pcs /\ Owner \in Actors
    BY <1>0
  <2>2. /\ act' \in [Actors -> Doing] /\ \A b \in Actors : b # Owner => act'[b] = act[b]
        /\ act'[Owner].pc = pc /\ act'[Owner].q = q
    BY <1>0, <1>4, <2>1, GotoFacts, ZenonT(40)
  <2> QED
    BY <1>4, <2>2
<1>5. ASSUME Return(Owner)
      PROVE  /\ act' \in [Actors -> Doing] /\ \A b \in Actors : b # Owner => act'[b] = act[b]
             /\ act'[Owner].pc # "add" /\ act'[Owner].pc # "create"
  BY <1>0, <1>3, <1>5, ReturnFacts
<1>6. CASE hf_uudp_create \/ hf_uudp_destroy \/ hf_uudp_recv \/ unlist
  <2>1. UNCHANGED <<queues, content, received, leaked>>
        /\ life' \in {"none", "creating", "ready", "failed", "destroying", "gone"}
    BY <1>1, <1>6 DEF hf_uudp_create, hf_uudp_destroy, hf_uudp_recv, unlist
  <2>2. \/ Return(Owner)
        \/ \E pc \in {"rem", "create", "fill", "drain", "unlist"}, q \in {""} \cup Both : Goto(Owner, pc, q) /\ (pc = "create" => q \in Both)
    BY <1>0, <1>6, Zenon DEF hf_uudp_create, hf_uudp_destroy, hf_uudp_recv, unlist
  <2> QED
    BY <1>1, <1>c, <1>4, <1>5, <2>1, <2>2
<1>7. CASE create_queue
  <2>1. UNCHANGED <<content, received, leaked>> /\ life' \in {"none", "creating", "ready", "failed", "destroying", "gone"}
    BY <1>1, <1>7 DEF create_queue
  <2>2. CASE Return(Owner) /\ queues' = queues
    BY <1>1, <1>c, <1>5, <2>1, <2>2
  <2>3. CASE /\ queues' = [q \in DOMAIN queues \cup {act[Owner].q} |-> IF q \in DOMAIN queues THEN queues[q] ELSE EmptyQueue]
             /\ IF act[Owner].q = "free_buffers" THEN Goto(Owner, "create", "pkt_queue")
                ELSE act' = [act EXCEPT ![Owner] = [Idle EXCEPT !.pc = "fill"]]
    <3>1. DOMAIN queues' \subseteq Both /\ queues' \in [DOMAIN queues' -> Ring]
      <4>1. act[Owner].q \in Both
        BY <1>b, <1>7 DEF create_queue, At
      <4> QED
        BY <1>c, <2>3, <4>1, Extended
    <3>2. [Idle EXCEPT !.pc = "fill"] \in Doing /\ [Idle EXCEPT !.pc = "fill"].pc = "fill"
      BY IdleType DEF Doing, Idle
    <3>3. /\ act' \in [Actors -> Doing] /\ \A b \in Actors : b # Owner => act'[b] = act[b]
          /\ act'[Owner].pc # "add" /\ (act'[Owner].pc = "create" => act'[Owner].q \in Both)
      <4>1. CASE act[Owner].q = "free_buffers"
        BY <1>0, <1>4, <2>3, <4>1
      <4>2. CASE act[Owner].q # "free_buffers"
        BY <1>0, <2>3, <3>2, <4>2, ActBecomes
      <4> QED
        BY <4>1, <4>2
    <3> QED
      BY <1>1, <2>1, <3>1, <3>3
  <2> QED
    BY <1>7, <2>2, <2>3 DEF create_queue
<1>8. CASE create_buffer
  <2>1. UNCHANGED <<queues, content, received, leaked>> /\ life' \in {"none", "creating", "ready", "failed", "destroying", "gone"}
    BY <1>1, <1>8 DEF create_buffer
  <2>2. CASE act[Owner].n # QSize /\ act' = [act EXCEPT ![Owner] = [pc |-> "add", q |-> "free_buffers", reg |-> 0,
                                                 buf |-> act[Owner].n + 1, n |-> act[Owner].n + 1]]
    <3>1. act[Owner].n + 1 \in 0..QSize /\ act[Owner].n + 1 \in Buffers
      BY <1>n, <2>2 DEF Buffers
    <3>2. \A k \in 0..QSize : /\ [pc |-> "add", q |-> "free_buffers", reg |-> 0, buf |-> k, n |-> k] \in Doing
                              /\ [pc |-> "add", q |-> "free_buffers", reg |-> 0, buf |-> k, n |-> k].buf = k
      BY DEF Doing, Adding, Both
    <3> QED
      BY <1>0, <1>1, <1>c, <2>1, <2>2, <3>1, <3>2, ActBecomes, ZenonT(40)
  <2>3. CASE Return(Owner)
    BY <1>1, <1>c, <1>5, <2>1, <2>3
  <2>4. CASE Goto(Owner, "drain", "free_buffers")
    BY <1>0, <1>1, <1>c, <1>4, <2>1, <2>4
  <2> QED
    BY <1>8, <2>2, <2>3, <2>4 DEF create_buffer
<1>9. CASE recv_copy
  <2>0. UNCHANGED <<queues, content, life>> /\ act[Owner].pc = "taken" /\ life = "ready" /\ wild = {}
    BY <1>9 DEF recv_copy, At
  <2>1. act[Owner].buf \in Buffers
    <3>1. LiveInv
      BY <2>0 DEF EndpointInv, Live
    <3>2. act[Owner].buf \in Hand(Owner) /\ Made = Buffers
      BY <2>0 DEF Hand, InHand, Made
    <3> QED
      BY <3>1, <3>2 DEF LiveInv, OnePlace, Split
  <2>2. content[act[Owner].buf] \in Int
    BY <1>n, <2>1 DEF Oversize
  <2>3. CASE content[act[Owner].buf] >= Oversize
    BY <1>1, <1>c, <1>5, <1>9, <2>0, <2>1, <2>3 DEF recv_copy
  <2>4. CASE ~(content[act[Owner].buf] >= Oversize)
    <3>1. received' = content[act[Owner].buf] /\ Goto(Owner, "add", "free_buffers") /\ leaked' = leaked
      BY <1>9, <2>4 DEF recv_copy
    <3> QED
      BY <1>0, <1>1, <1>c, <2>0, <2>1, <2>2, <3>1, GotoFacts
  <2> QED
    BY <2>3, <2>4
<1>10. CASE drain
  <2>1. UNCHANGED <<content, received, leaked, life>>
    BY <1>10 DEF drain
  <2>2. \E pc \in {"rem", "create", "fill", "drain", "unlist"}, q \in {""} \cup Both : Goto(Owner, pc, q) /\ (pc = "create" => q \in Both)
    BY <1>0, <1>1, <1>10, Zenon DEF drain
  <2>3. DOMAIN queues' \subseteq Both /\ queues' \in [DOMAIN queues' -> Ring]
    <3>1. queues' = queues \/ queues' = [q \in DOMAIN queues \ {act[Owner].q} |-> queues[q]]
      BY <1>10 DEF drain
    <3> QED
      BY <1>c, <3>1
  <2> QED
    BY <1>1, <1>4, <2>1, <2>2, <2>3
<1>11. CASE free_buffer
  <2>1. UNCHANGED <<queues, received, leaked, life>>
    BY <1>11 DEF free_buffer
  <2>2. CASE Buffer(Owner)
    <3>1. /\ content' = [content EXCEPT ![act[Owner].buf] = Freed]
          /\ act' = [act EXCEPT ![Owner].pc = "drain", ![Owner].buf = 0]
      BY <1>11, <2>2 DEF free_buffer
    <3>2. content' \in [Buffers -> -1..(2 * Oversize)]
      <4>1. Freed \in -1..(2 * Oversize)
        BY <1>n DEF Freed, Oversize
      <4> QED
        BY <1>1, <3>1, <4>1
    <3>3. \A x \in Doing, k \in 0..QSize : /\ [x EXCEPT !.pc = "drain", !.buf = k] \in Doing
                                           /\ [x EXCEPT !.pc = "drain", !.buf = k].pc = "drain"
      BY DEF Doing
    <3>4. PICK d : d = [act[Owner] EXCEPT !.pc = "drain", !.buf = 0]
      OBVIOUS
    <3>5. d \in Doing /\ d.pc = "drain"
      <4>1. 0 \in 0..QSize
        BY <1>n
      <4> QED
        BY <1>1, <3>3, <3>4, <4>1, Zenon
    <3>6. act' = [act EXCEPT ![Owner] = d]
      BY <1>0, <1>1, <3>1, <3>4
    <3> QED
      BY <1>0, <1>1, <1>c, <2>1, <3>2, <3>5, <3>6, ActBecomes
  <2>3. CASE ~Buffer(Owner)
    <3>1. Return(Owner) /\ content' = content
      BY <1>11, <2>3 DEF free_buffer, Wild
    <3> QED
      BY <1>1, <1>c, <1>5, <2>1, <3>1
  <2> QED
    BY <2>2, <2>3
<1> QED
  BY <1>6, <1>7, <1>8, <1>9, <1>10, <1>11 DEF OwnerStep

-----------------------------------------------------------------------------
(* An endpoint that is created or in use. *)

Same == life' = life /\ content' = content /\ arrived' = arrived /\ received' = received /\ leaked' = leaked

LEMMA LiveFacts ==
    ASSUME EndpointInv, Live
    PROVE  EndpointType /\ Roles /\ Stages /\ Steady(Service) /\ Steady(Owner) /\ OnePlace /\ Ordered
BY DEF EndpointInv, LiveInv

LEMMA PlaceFacts ==
    ASSUME EndpointInv, Live, NEW q \in Both, NEW a \in Actors
    PROVE  /\ Distinct(Waiting(q)) /\ Elements(Waiting(q)) \subseteq Made /\ Made \subseteq Buffers
           /\ Hand(a) \subseteq Made /\ Hand(a) \cap Elements(Waiting(q)) = {}
<1>1. OnePlace /\ EndpointType
  BY LiveFacts
<1>2. Made \subseteq Buffers
  <2>1. act[Owner].n \in 0..QSize /\ QSize \in Nat
    BY <1>1, TypeOf DEF Actors
  <2>2. 1..act[Owner].n \subseteq Buffers
    BY <2>1 DEF Buffers
  <2> QED
    BY <2>2 DEF Made
<1>3. (q = "free_buffers" \/ q = "pkt_queue") /\ (a = Service \/ a = Owner)
  BY DEF Both, Actors
<1> QED
  BY <1>1, <1>2, <1>3 DEF OnePlace, Split, Free, Packets

LEMMA Opposite ==
    ASSUME EndpointInv, Live, NEW a \in Actors, NEW b \in Actors, a # b
    PROVE  /\ Roles /\ Steady(a) /\ Steady(b)
           /\ act[a].pc \in Removing \cup Adding => act[a].q \in Both
           /\ act[a].pc \in Adding /\ act[b].pc \in Adding => act[a].q # act[b].q
           /\ act[a].pc \in Removing /\ act[b].pc \in Removing => act[a].q # act[b].q
BY LiveFacts DEF Roles, Actors, Both

(* The other task is not disturbed. *)
LEMMA SteadyKept ==
    ASSUME NEW b \in Actors, Steady(b), act'[b] = act[b], DOMAIN queues \subseteq DOMAIN queues',
           act[b].pc = "rem_head" => /\ Waiting(act[b].q)' # << >>
                                     /\ Waiting(act[b].q)'[1] = Waiting(act[b].q)[1],
           act[b].pc = "add_tail" => /\ Len(Waiting(act[b].q)') < QSize
                                     /\ queues'[act[b].q] = queues[act[b].q] \/
                                        /\ queues'[act[b].q].tail = queues[act[b].q].tail
                                        /\ queues'[act[b].q].data = queues[act[b].q].data
    PROVE  Steady(b)'
<1>1. PICK d : d = act[b]
  OBVIOUS
<1>2. PICK q : q = d.q
  OBVIOUS
<1>3. PICK w : w = Waiting(q)
  OBVIOUS
<1>4. Waiting(act[b].q)' = Waiting(q)'
  BY <1>1, <1>2
<1> QED
  BY <1>1, <1>2, <1>4 DEF Steady

(* Nothing moves from one place to another. *)
LEMMA NothingMoves ==
    ASSUME EndpointInv, Live, NEW a \in Actors, NEW b \in Actors, a # b, Same, act'[b] = act[b],
           Free' = Free, Packets' = Packets, Hand(a)' = Hand(a), Made' = Made,
           a = Owner => (Reading' => Reading /\ act'[Owner].buf = act[Owner].buf),
           a = Service => /\ Handled' => Handled
                          /\ act'[Service].pc \in {"add", "add_tail"} => /\ act[Service].pc \in {"add", "add_tail"}
                                                                        /\ act'[Service].buf = act[Service].buf
    PROVE  OnePlace' /\ Ordered'
<1>1. OnePlace /\ Ordered
  BY LiveFacts
<1>2. Hand(b)' = Hand(b)
  BY DEF Hand
<1>3. Hand(Service)' = Hand(Service) /\ Hand(Owner)' = Hand(Owner)
  BY <1>2 DEF Actors
<1>4. OnePlace'
  BY <1>1, <1>3, Zenon DEF OnePlace, Same
<1>5. /\ Handled' => Handled
      /\ Reading' => Reading /\ act'[Owner].buf = act[Owner].buf
      /\ act'[Service].pc \in {"add", "add_tail"} => /\ act[Service].pc \in {"add", "add_tail"}
                                                    /\ act'[Service].buf = act[Service].buf
  BY DEF Actors, Handled, Reading
<1>6. \A x : Number(x)' = Number(x)
  BY DEF Number, Same
<1>7. Ordered'
  BY <1>1, <1>5, <1>6, Zenon DEF Ordered, Same
<1> QED
  BY <1>4, <1>7

(* A task that works on a queue goes on with it or is done. *)
LEMMA RolesKept ==
    ASSUME Roles, Stages, NEW a \in Actors, NEW b \in Actors, a # b, life' = life, list' = list, act'[b] = act[b],
           DOMAIN queues' = DOMAIN queues, act[a].pc \in Removing \cup Adding,
           \/ act'[a].pc \in Removing /\ act[a].pc \in Removing /\ act'[a].q = act[a].q
           \/ act'[a].pc \in Adding /\ act[a].pc \in Adding /\ act'[a].q = act[a].q
           \/ a = Owner /\ life = "creating" /\ act'[a].pc = "fill"
           \/ ~(a = Owner /\ life = "creating") /\ act'[a].pc = "idle"
    PROVE  Roles' /\ Stages'
<1>1. CASE a = Service /\ b = Owner
  BY <1>1 DEF Roles, Stages, Removing, Adding
<1>2. CASE a = Owner /\ b = Service
  <2>1. Roles'
    BY <1>2 DEF Roles, Stages, Removing, Adding
  <2>2. life # "none"
    <3>1. Idle.pc \notin Removing \cup Adding
      BY DEF Idle, Removing, Adding
    <3> QED
      BY <1>2, <3>1 DEF Stages
  <2>3. Stages'
    BY <1>2, <2>2 DEF Stages, Removing, Adding
  <2> QED
    BY <2>1, <2>3
<1> QED
  BY <1>1, <1>2 DEF Actors

(* A buffer is written behind the tail: the queue has a place for it. *)
LEMMA LiveAddData ==
    ASSUME EndpointInv, Live, NEW a \in Actors, add_data(a)
    PROVE  LiveInv' /\ wild' = {}
<1>1. PICK b \in Actors : b # a
  BY NetAssumption DEF Actors
<1>2. /\ EndpointType /\ Roles /\ Stages /\ Steady(a) /\ Steady(b) /\ act[a].pc = "add" /\ wild = {}
  BY <1>1, LiveFacts, Opposite DEF add_data, At
<1>3. PICK q : q = act[a].q
  OBVIOUS
<1>4. q \in DOMAIN queues /\ q \in Both /\ Exists(a) /\ Q(a) = queues[q] /\ Q(a) \in Ring
  BY <1>1, <1>2, <1>3, Opposite, TypeOf DEF Steady, Adding, Exists, Q
<1>5. Len(Waiting(q)) < QSize /\ Wrap(Q(a).tail) # Q(a).head
  <2>1. act[a].buf \in Buffers /\ act[a].buf \notin Elements(Waiting(q))
    BY <1>2, <1>4, PlaceFacts DEF Hand, InHand
  <2>2. Waiting(q) \in Seq(0..QSize) /\ Len(Waiting(q)) \in 0..QSize
    BY <1>2, WaitingType
  <2>3. Distinct(Waiting(q)) /\ Elements(Waiting(q)) \subseteq Buffers
    BY <1>4, PlaceFacts
  <2>4. Len(Waiting(q)) # QSize
    BY <2>1, <2>2, <2>3, NotFull
  <2>5. Waiting(q) = Line(Q(a))
    BY <1>4 DEF Waiting
  <2>6. QSize \in Nat
    BY NetAssumption
  <2> QED
    BY <1>4, <2>2, <2>4, <2>5, <2>6, RingEnds
<1>6. PICK r : r = [Q(a) EXCEPT !.data[Q(a).tail] = act[a].buf]
  OBVIOUS
<1>7. act[a].buf \in 0..QSize
  BY <1>2, TypeOf
<1>8. r \in Ring /\ Line(r) = Line(Q(a)) /\ r.data[r.tail] = act[a].buf
  <2>1. r.tail = Q(a).tail
    BY <1>4, <1>6 DEF Ring
  <2> QED
    BY <1>4, <1>6, <1>7, <2>1, RingWrite
<1>9. /\ queues' = [queues EXCEPT ![q] = r] /\ Goto(a, "add_tail", q) /\ wild' = wild /\ Same /\ list' = list
  BY <1>2, <1>3, <1>4, <1>5, <1>6 DEF add_data, Same, Q, EndpointType
<1>10. /\ DOMAIN queues' = DOMAIN queues /\ Waiting(q)' = Line(r) /\ queues'[q] = r
       /\ \A p : p # q => Waiting(p)' = Waiting(p) /\ (p \in DOMAIN queues => queues'[p] = queues[p])
  BY <1>2, <1>4, <1>8, <1>9, QueueBecomes
<1>11. \A p : Waiting(p)' = Waiting(p)
  BY <1>4, <1>8, <1>10 DEF Waiting
<1>12. /\ act'[b] = act[b] /\ act'[a].pc = "add_tail" /\ act'[a].q = q /\ act'[a].buf = act[a].buf /\ act'[a].n = act[a].n
  <2>1. "add_tail" \in Pcs /\ q \in {""} \cup Both
    BY <1>4 DEF Pcs, Adding
  <2> QED
    BY <1>1, <1>2, <1>9, <2>1, GotoFacts
<1>13. Roles' /\ Stages'
  <2>1. act[a].pc \in Adding /\ act'[a].pc \in Adding
    BY <1>2, <1>12 DEF Adding
  <2> QED
    BY <1>1, <1>2, <1>3, <1>9, <1>10, <1>12, <2>1, RolesKept DEF Same
<1>14. Steady(a)'
  <2>1. Waiting(act[a].q)' = Waiting(q)' /\ queues'[act'[a].q] = r
    BY <1>10, <1>12
  <2> QED
    BY <1>4, <1>5, <1>8, <1>10, <1>11, <1>12 DEF Steady, InHand, Removing, Adding
<1>15. Steady(b)'
  <2>1. act[b].pc = "add_tail" => act[b].q # q /\ act[b].q \in DOMAIN queues
    BY <1>1, <1>2, <1>3, Opposite DEF Adding, Steady
  <2> QED
    BY <1>2, <1>10, <1>11, <1>12, <2>1, SteadyKept DEF Steady
<1>16. OnePlace' /\ Ordered'
  <2>1. Free' = Free /\ Packets' = Packets
    BY <1>11 DEF Free, Packets
  <2>2. Hand(a)' = Hand(a)
    BY <1>2, <1>12 DEF Hand, InHand
  <2>3. Made' = Made
    BY <1>1, <1>9, <1>12 DEF Made, Same, Actors
  <2>4. a = Owner => ~Reading'
    BY <1>12 DEF Reading
  <2>5. a = Service => Handled
    BY <1>2 DEF Handled
  <2> QED
    BY <1>1, <1>2, <1>9, <1>12, <2>1, <2>2, <2>3, <2>4, <2>5, NothingMoves
<1> QED
  BY <1>1, <1>2, <1>9, <1>13, <1>14, <1>15, <1>16 DEF LiveInv, Actors

(* The tail moves: what was in hand now waits. *)
LEMMA LiveAddTail ==
    ASSUME EndpointInv, Live, NEW a \in Actors, add_tail(a)
    PROVE  LiveInv' /\ wild' = {}
<1>1. PICK b \in Actors : b # a
  BY NetAssumption DEF Actors
<1>2. /\ EndpointType /\ Roles /\ Stages /\ Steady(a) /\ Steady(b) /\ act[a].pc = "add_tail" /\ wild = {}
      /\ OnePlace /\ Ordered
  BY <1>1, LiveFacts, Opposite DEF add_tail, At
<1>3. PICK q, x : q = act[a].q /\ x = act[a].buf
  OBVIOUS
<1>4. q \in DOMAIN queues /\ q \in Both /\ Exists(a) /\ Q(a) = queues[q] /\ Q(a) \in Ring
  BY <1>1, <1>2, <1>3, Opposite, TypeOf DEF Steady, Adding, Exists, Q
<1>5. Len(Line(Q(a))) < QSize /\ Q(a).data[Q(a).tail] = x /\ Waiting(q) = Line(Q(a))
  BY <1>2, <1>3, <1>4 DEF Steady, Waiting
<1>6. PICK r : r = [Q(a) EXCEPT !.tail = Wrap(Q(a).tail)]
  OBVIOUS
<1>7. r \in Ring /\ Line(r) = Append(Waiting(q), x)
  BY <1>4, <1>5, <1>6, RingAdd
<1>8. /\ queues' = [queues EXCEPT ![q] = r] /\ wild' = wild /\ Same /\ list' = list
      /\ act' = [act EXCEPT ![a] = [act[a] EXCEPT !.pc = "add_load", !.buf = 0]]
  BY <1>2, <1>3, <1>4, <1>6, TypeOf DEF add_tail, Same, Q, EndpointType
<1>9. /\ DOMAIN queues' = DOMAIN queues /\ Waiting(q)' = Append(Waiting(q), x)
      /\ \A p : p # q => Waiting(p)' = Waiting(p) /\ (p \in DOMAIN queues => queues'[p] = queues[p])
  BY <1>2, <1>4, <1>7, <1>8, QueueBecomes
<1>10. /\ act'[b] = act[b] /\ act'[a].pc = "add_load" /\ act'[a].q = q /\ act'[a].buf = 0 /\ act'[a].n = act[a].n
  <2>1. act[a] \in Doing /\ act \in [Actors -> Doing]
    BY <1>2, TypeOf
  <2> QED
    BY <1>1, <1>3, <1>8, <2>1 DEF Doing
<1>11. Roles' /\ Stages'
  <2>1. act[a].pc \in Adding /\ act'[a].pc \in Adding
    BY <1>2, <1>10 DEF Adding
  <2> QED
    BY <1>1, <1>2, <1>3, <1>8, <1>9, <1>10, <2>1, RolesKept DEF Same
<1>12. Steady(a)'
  BY <1>4, <1>9, <1>10 DEF Steady, InHand, Removing, Adding
<1>13. Waiting(q) \in Seq(0..QSize) /\ x \in 0..QSize
  BY <1>2, <1>3, WaitingType, TypeOf
<1>14. Steady(b)'
  <2>1. act[b].pc = "add_tail" => act[b].q # q /\ act[b].q \in DOMAIN queues
    BY <1>1, <1>2, <1>3, Opposite DEF Adding, Steady
  <2>2. act[b].pc = "rem_head" => /\ Waiting(act[b].q)' # << >>
                                  /\ Waiting(act[b].q)'[1] = Waiting(act[b].q)[1]
    <3>1. CASE act[b].q = q
      BY <1>2, <1>9, <1>10, <1>13, <3>1, Appended DEF Steady
    <3>2. CASE act[b].q # q
      BY <1>2, <1>9, <1>10, <3>2 DEF Steady
    <3> QED
      BY <3>1, <3>2
  <2>3. act[b].pc = "add_tail" => Waiting(act[b].q)' = Waiting(act[b].q) /\ queues'[act[b].q] = queues[act[b].q]
    BY <1>9, <1>10, <2>1
  <2> QED
    BY <1>2, <1>9, <1>10, <2>2, <2>3, SteadyKept DEF Steady
<1>15. /\ Elements(Waiting(q))' = Elements(Waiting(q)) \cup {x}
       /\ Distinct(Waiting(q))'
       /\ Hand(a) = {x} /\ Hand(a)' = {} /\ Hand(b)' = Hand(b)
  <2>1. Hand(a) = {x} /\ Hand(a)' = {} /\ Hand(b)' = Hand(b)
    BY <1>2, <1>3, <1>10 DEF Hand, InHand
  <2>2. Distinct(Waiting(q)) /\ x \notin Elements(Waiting(q))
    BY <1>4, <2>1, PlaceFacts
  <2> QED
    BY <1>9, <1>13, <2>1, <2>2, Appended
<1>16. Made' = Made /\ leaked' = leaked /\ content' = content
  BY <1>1, <1>8, <1>10 DEF Made, Same, Actors
<1>17. CASE a = Owner
  <2>1. q = "free_buffers" /\ b = Service
    BY <1>1, <1>2, <1>3, <1>17 DEF Roles, Adding, Actors
  <2>2. Waiting("pkt_queue")' = Waiting("pkt_queue")
    BY <1>9, <2>1
  <2>3. OnePlace'
    BY <1>2, <1>15, <1>16, <1>17, <2>1, <2>2 DEF OnePlace, Split, Free, Packets
  <2>4. ~Reading' /\ Handled' = Handled /\ Packets' = Packets /\ act'[Service] = act[Service]
    BY <1>10, <1>17, <2>1, <2>2 DEF Reading, Handled, Packets
  <2>5. \A z : Number(z)' = Number(z)
    BY <1>16 DEF Number
  <2>6. Ordered'
    BY <1>2, <1>8, <2>4, <2>5, Zenon DEF Ordered, Same
  <2> QED
    BY <1>1, <1>2, <1>8, <1>11, <1>12, <1>14, <1>17, <2>1, <2>3, <2>6 DEF LiveInv
<1>18. CASE a = Service
  <2>1. q = "pkt_queue" /\ b = Owner
    BY <1>1, <1>2, <1>3, <1>18 DEF Roles, Adding, Actors
  <2>2. Waiting("free_buffers")' = Waiting("free_buffers")
    BY <1>9, <2>1
  <2>3. OnePlace'
    BY <1>2, <1>15, <1>16, <1>18, <2>1, <2>2 DEF OnePlace, Split, Free, Packets
  <2>4. /\ Handled /\ ~Handled' /\ Reading' = Reading /\ act'[Owner] = act[Owner] /\ Packets' = Append(Packets, x)
        /\ Number(x) = arrived /\ Packets \in Seq(0..QSize) /\ act'[Service].pc \notin {"add", "add_tail"}
    BY <1>2, <1>3, <1>9, <1>10, <1>13, <1>18, <2>1 DEF Reading, Handled, Packets, Removing, Ordered
  <2>5. \A z : Number(z)' = Number(z)
    BY <1>16 DEF Number
  <2>6. Ordered'
    <3>1. PICK n, s : n = Len(Packets) /\ s = Packets'
      OBVIOUS
    <3>2. n \in Nat /\ Len(s) = n + 1 /\ s[n + 1] = x /\ \A i \in 1..n : s[i] = Packets[i]
      BY <1>13, <2>4, <3>1, Appended
    <3>3. /\ \A i \in 1..Len(s) : i \in 1..n \/ i = n + 1
          /\ \A i, j \in 1..Len(s) : i < j => i \in 1..n /\ (j \in 1..n \/ j = n + 1)
      BY <3>2
    <3>4. arrived \in Nat
      BY <1>2, NetAssumption DEF EndpointType
    <3>5. arrived <= arrived
      BY <3>4
    <3>6. \A i \in 1..Len(s) : /\ received < Number(s[i]) /\ Number(s[i]) <= arrived
                               /\ Reading => Number(act[Owner].buf) < Number(s[i])
      BY <1>2, <2>4, <3>1, <3>2, <3>3, <3>5, Zenon DEF Ordered
    <3>7. \A i, j \in 1..Len(s) : i < j => Number(s[i]) < Number(s[j])
      <4> SUFFICES ASSUME NEW i \in 1..Len(s), NEW j \in 1..Len(s), i < j PROVE Number(s[i]) < Number(s[j])
        OBVIOUS
      <4>1. i \in 1..n /\ (j \in 1..n \/ j = n + 1)
        BY <3>3
      <4>2. CASE j \in 1..n
        BY <1>2, <3>1, <3>2, <4>1, <4>2, Zenon DEF Ordered
      <4>3. CASE j = n + 1
        BY <1>2, <2>4, <3>1, <3>2, <4>1, <4>3, Zenon DEF Ordered
      <4> QED
        BY <4>1, <4>2, <4>3
    <3> QED
      BY <1>2, <1>8, <2>4, <2>5, <3>1, <3>6, <3>7, Zenon DEF Ordered, Same
  <2> QED
    BY <1>1, <1>2, <1>8, <1>11, <1>12, <1>14, <1>18, <2>1, <2>3, <2>6 DEF LiveInv
<1> QED
  BY <1>17, <1>18 DEF Actors

(* The head is read. *)
LEMMA LiveRemData ==
    ASSUME EndpointInv, Live, NEW a \in Actors, rem_data(a), wild' = {}
    PROVE  LiveInv'
<1>1. PICK b \in Actors : b # a
  BY NetAssumption DEF Actors
<1>2. /\ EndpointType /\ Roles /\ Stages /\ Steady(a) /\ Steady(b) /\ act[a].pc = "rem"
  BY <1>1, LiveFacts, Opposite DEF rem_data, At
<1>3. PICK q : q = act[a].q
  OBVIOUS
<1>4. q \in Both /\ q \in DOMAIN queues /\ Exists(a) /\ Q(a) = queues[q] /\ Q(a) \in Ring /\ Waiting(q) = Line(Q(a))
  <2>1. Exists(a)
    BY DEF rem_data, Wild
  <2> QED
    BY <1>1, <1>2, <1>3, <2>1, Opposite, TypeOf DEF Removing, Exists, Q, Waiting
<1>5. queues' = queues /\ Same /\ list' = list
  BY DEF rem_data, Same
<1>6. \A p : Waiting(p)' = Waiting(p)
  BY <1>5 DEF Waiting
<1>7. /\ act'[b] = act[b]
      /\ \/ /\ act'[a].pc = "rem_head" /\ act'[a].q = q /\ act'[a].buf = Waiting(q)[1] /\ act'[a].n = act[a].n
            /\ Waiting(q) # << >>
         \/ a = Service /\ act'[a] = Idle
  <2>1. CASE Q(a).head # Q(a).tail
    <3>1. act' = [act EXCEPT ![a] = [act[a] EXCEPT !.pc = "rem_head", !.buf = Q(a).data[Q(a).head]]]
      BY <1>2, <1>4, <2>1, TypeOf DEF rem_data
    <3>2. act[a] \in Doing /\ act \in [Actors -> Doing]
      BY <1>2, TypeOf
    <3>3. Waiting(q) # << >> /\ Q(a).data[Q(a).head] = Waiting(q)[1]
      BY <1>4, <2>1, RingEnds
    <3> QED
      BY <1>1, <1>3, <3>1, <3>2, <3>3 DEF Doing
  <2>2. CASE Q(a).head = Q(a).tail
    <3>1. a = Service /\ Return(a)
      BY <1>4, <2>2 DEF rem_data, Wild, Actors
    <3> QED
      BY <1>1, <1>2, <3>1, ReturnFacts
  <2> QED
    BY <2>1, <2>2
<1>8. Idle.pc = "idle" /\ Idle.buf = 0
  BY DEF Idle
<1>9. Roles' /\ Stages'
  <2>1. \/ act[a].pc \in Removing /\ act'[a].pc \in Removing /\ act'[a].q = act[a].q
        \/ a # Owner /\ act'[a].pc = "idle"
    BY <1>2, <1>3, <1>7, <1>8, NetAssumption DEF Removing
  <2>2. act[a].pc \in Removing \cup Adding
    BY <1>2 DEF Removing
  <2> QED
    BY <1>1, <1>2, <1>5, <1>7, <2>1, <2>2, RolesKept DEF Same
<1>10. Steady(a)'
  BY <1>4, <1>5, <1>6, <1>7, <1>8 DEF Steady, InHand, Removing, Adding
<1>11. Steady(b)'
  BY <1>2, <1>5, <1>6, <1>7, SteadyKept DEF Steady
<1>12. OnePlace' /\ Ordered'
  <2>1. Free' = Free /\ Packets' = Packets
    BY <1>6 DEF Free, Packets
  <2>2. Hand(a)' = Hand(a)
    BY <1>2, <1>7, <1>8 DEF Hand, InHand
  <2>3. Made' = Made
    BY <1>1, <1>5, <1>7, NetAssumption DEF Made, Same, Actors
  <2>4. a = Owner => ~Reading'
    BY <1>7, NetAssumption DEF Reading
  <2>5. a = Service => Handled /\ act'[Service].pc \notin {"add", "add_tail"}
    BY <1>2, <1>7, <1>8 DEF Handled, Removing
  <2> QED
    BY <1>1, <1>2, <1>5, <1>7, <2>1, <2>2, <2>3, <2>4, <2>5, NothingMoves
<1> QED
  BY <1>1, <1>2, <1>9, <1>10, <1>11, <1>12 DEF LiveInv, Actors

(* The head moves: what was first is in hand. *)
LEMMA LiveRemHead ==
    ASSUME EndpointInv, Live, NEW a \in Actors, rem_head(a)
    PROVE  LiveInv' /\ wild' = {}
<1>1. PICK b \in Actors : b # a
  BY NetAssumption DEF Actors
<1>2. /\ EndpointType /\ Roles /\ Stages /\ Steady(a) /\ Steady(b) /\ act[a].pc = "rem_head" /\ wild = {}
      /\ OnePlace /\ Ordered
  BY <1>1, LiveFacts, Opposite DEF rem_head, At
<1>3. PICK q, x : q = act[a].q /\ x = act[a].buf
  OBVIOUS
<1>4. q \in DOMAIN queues /\ q \in Both /\ Exists(a) /\ Q(a) = queues[q] /\ Q(a) \in Ring
  BY <1>1, <1>2, <1>3, Opposite, TypeOf DEF Steady, Removing, Exists, Q
<1>5. Waiting(q) = Line(Q(a)) /\ Waiting(q) # << >> /\ x = Waiting(q)[1]
  BY <1>2, <1>3, <1>4 DEF Steady, Waiting
<1>6. PICK r : r = [Q(a) EXCEPT !.head = Wrap(Q(a).head)]
  OBVIOUS
<1>7. r \in Ring /\ Line(r) = Tail(Waiting(q)) /\ r.tail = Q(a).tail /\ r.data = Q(a).data
  <2>1. r.tail = Q(a).tail /\ r.data = Q(a).data
    BY <1>4, <1>6 DEF Ring
  <2> QED
    BY <1>4, <1>5, <1>6, <2>1, RingRem
<1>8. /\ queues' = [queues EXCEPT ![q] = r] /\ wild' = wild /\ Same /\ list' = list
      /\ Goto(a, "rem_load", q)
  BY <1>2, <1>3, <1>4, <1>6, TypeOf DEF rem_head, Same, Q, EndpointType
<1>9. /\ DOMAIN queues' = DOMAIN queues /\ Waiting(q)' = Tail(Waiting(q)) /\ queues'[q] = r
      /\ \A p : p # q => Waiting(p)' = Waiting(p) /\ (p \in DOMAIN queues => queues'[p] = queues[p])
  BY <1>2, <1>4, <1>7, <1>8, QueueBecomes
<1>10. /\ act'[b] = act[b] /\ act'[a].pc = "rem_load" /\ act'[a].q = q /\ act'[a].buf = x /\ act'[a].n = act[a].n
  <2>1. "rem_load" \in Pcs /\ q \in {""} \cup Both
    BY <1>4 DEF Pcs, Removing
  <2> QED
    BY <1>1, <1>2, <1>3, <1>8, <2>1, GotoFacts
<1>11. Roles' /\ Stages'
  <2>1. act[a].pc \in Removing /\ act'[a].pc \in Removing
    BY <1>2, <1>10 DEF Removing
  <2> QED
    BY <1>1, <1>2, <1>3, <1>8, <1>9, <1>10, <2>1, RolesKept DEF Same
<1>12. Steady(a)'
  BY <1>4, <1>9, <1>10 DEF Steady, InHand, Removing, Adding
<1>13. Waiting(q) \in Seq(0..QSize) /\ x \in 0..QSize
  BY <1>2, <1>3, WaitingType, TypeOf
<1>14. Steady(b)'
  <2>1. act[b].pc = "rem_head" => act[b].q # q
    BY <1>1, <1>2, <1>3, Opposite DEF Removing
  <2>2. act[b].pc = "add_tail" => /\ Len(Waiting(act[b].q)') < QSize
                                  /\ queues'[act[b].q].tail = queues[act[b].q].tail
                                  /\ queues'[act[b].q].data = queues[act[b].q].data
    <3> SUFFICES ASSUME act[b].pc = "add_tail"
                 PROVE  /\ Len(Waiting(act[b].q)') < QSize
                        /\ queues'[act[b].q].tail = queues[act[b].q].tail
                        /\ queues'[act[b].q].data = queues[act[b].q].data
      OBVIOUS
    <3>1. CASE act[b].q = q
      <4>1. Len(Waiting(q)) < QSize
        BY <1>2, <3>1 DEF Steady
      <4>2. Len(Tail(Waiting(q))) = Len(Waiting(q)) - 1 /\ Len(Waiting(q)) \in Nat
        BY <1>5, <1>13, Taken
      <4>3. QSize \in Nat
        BY NetAssumption
      <4>4. Len(Waiting(q)') < QSize
        BY <1>9, <4>1, <4>2, <4>3
      <4> QED
        <5>1. act[b].q = q /\ Waiting(act[b].q)' = Waiting(q)'
          BY <1>10, <3>1
        <5>2. queues'[q].tail = queues[q].tail /\ queues'[q].data = queues[q].data
          BY <1>4, <1>7, <1>9
        <5> QED
          BY <4>4, <5>1, <5>2
    <3>2. CASE act[b].q # q
      <4>1. act[b].q \in DOMAIN queues /\ Len(Waiting(act[b].q)) < QSize
        BY <1>2 DEF Steady, Adding
      <4> QED
        BY <1>9, <1>10, <3>2, <4>1
    <3> QED
      BY <3>1, <3>2
  <2>3. act[b].pc = "rem_head" => Waiting(act[b].q)' = Waiting(act[b].q)
    BY <1>9, <1>10, <2>1
  <2> QED
    BY <1>2, <1>9, <1>10, <2>2, <2>3, SteadyKept DEF Steady
<1>15. /\ Elements(Waiting(q)) = Elements(Waiting(q))' \cup {x} /\ x \notin Elements(Waiting(q))'
       /\ Distinct(Waiting(q))'
       /\ Hand(a) = {} /\ Hand(a)' = {x} /\ Hand(b)' = Hand(b)
  <2>1. Hand(a) = {} /\ Hand(a)' = {x} /\ Hand(b)' = Hand(b)
    BY <1>2, <1>3, <1>10 DEF Hand, InHand
  <2>2. Distinct(Waiting(q))
    BY <1>4, PlaceFacts
  <2> QED
    BY <1>5, <1>9, <1>13, <2>1, <2>2, Taken
<1>16. Made' = Made /\ leaked' = leaked /\ content' = content
  BY <1>1, <1>8, <1>10 DEF Made, Same, Actors
<1>17. CASE a = Service
  <2>1. q = "free_buffers" /\ b = Owner
    BY <1>1, <1>2, <1>3, <1>17 DEF Roles, Removing, Actors
  <2>2. Waiting("pkt_queue")' = Waiting("pkt_queue")
    BY <1>9, <2>1
  <2>3. OnePlace'
    BY <1>2, <1>15, <1>16, <1>17, <2>1, <2>2 DEF OnePlace, Split, Free, Packets
  <2>4. /\ Handled /\ Reading' = Reading /\ Packets' = Packets /\ act'[Owner] = act[Owner]
        /\ act'[Service].pc \notin {"add", "add_tail"}
    BY <1>2, <1>10, <1>17, <2>1, <2>2 DEF Reading, Handled, Packets, Removing
  <2>5. \A z : Number(z)' = Number(z)
    BY <1>16 DEF Number
  <2>6. Ordered'
    BY <1>2, <1>8, <2>4, <2>5, Zenon DEF Ordered, Same
  <2> QED
    BY <1>1, <1>2, <1>8, <1>11, <1>12, <1>14, <1>17, <2>1, <2>3, <2>6 DEF LiveInv
<1>18. CASE a = Owner
  <2>1. q = "pkt_queue" /\ b = Service
    BY <1>1, <1>2, <1>3, <1>18 DEF Roles, Removing, Actors
  <2>2. Waiting("free_buffers")' = Waiting("free_buffers")
    BY <1>9, <2>1
  <2>3. OnePlace'
    BY <1>2, <1>15, <1>16, <1>18, <2>1, <2>2 DEF OnePlace, Split, Free, Packets
  <2>4. /\ Handled' = Handled /\ Reading' /\ act'[Service] = act[Service] /\ Packets' = Tail(Packets)
        /\ Packets # << >> /\ x = Packets[1] /\ Packets \in Seq(0..QSize) /\ act'[Owner].buf = x
    BY <1>2, <1>3, <1>5, <1>9, <1>10, <1>13, <1>18, <2>1 DEF Reading, Handled, Packets, Removing
  <2>5. \A z : Number(z)' = Number(z)
    BY <1>16 DEF Number
  <2>6. Ordered'
    <3>1. PICK n, s : n = Len(Packets) /\ s = Packets'
      OBVIOUS
    <3>2. n \in Nat \ {0} /\ Len(s) = n - 1 /\ \A i \in 1..Len(s) : s[i] = Packets[i + 1] /\ i + 1 \in 1..n
      BY <2>4, <3>1, Taken
    <3>3. 1 \in 1..n /\ \A i \in 1..Len(s) : 1 < i + 1
      BY <3>2
    <3>4. \A i \in 1..Len(s) : /\ received < Number(s[i]) /\ Number(s[i]) <= arrived /\ Number(x) < Number(s[i])
                               /\ Handled => Number(s[i]) < arrived
      <4> SUFFICES ASSUME NEW i \in 1..Len(s)
                   PROVE  /\ received < Number(s[i]) /\ Number(s[i]) <= arrived /\ Number(x) < Number(s[i])
                          /\ Handled => Number(s[i]) < arrived
        OBVIOUS
      <4>1. PICK j \in 1..n : j = i + 1 /\ s[i] = Packets[j] /\ 1 < j
        BY <3>2, <3>3
      <4> QED
        BY <1>2, <2>4, <3>1, <3>3, <4>1, Zenon DEF Ordered
    <3>5. \A i, j \in 1..Len(s) : i < j => Number(s[i]) < Number(s[j])
      <4> SUFFICES ASSUME NEW i \in 1..Len(s), NEW j \in 1..Len(s), i < j PROVE Number(s[i]) < Number(s[j])
        OBVIOUS
      <4>1. PICK k \in 1..n, l \in 1..n : k < l /\ s[i] = Packets[k] /\ s[j] = Packets[l]
        <5>1. i + 1 < j + 1
          OBVIOUS
        <5> QED
          BY <3>2, <5>1
      <4> QED
        BY <1>2, <3>1, <4>1, Zenon DEF Ordered
    <3>6. received < Number(x) /\ Number(x) <= arrived /\ (Handled => Number(x) < arrived)
      BY <1>2, <2>4, <3>1, <3>3, Zenon DEF Ordered
    <3> QED
      BY <1>2, <1>8, <2>4, <2>5, <3>1, <3>4, <3>5, <3>6, Zenon DEF Ordered, Same
  <2> QED
    BY <1>1, <1>2, <1>8, <1>11, <1>12, <1>14, <1>18, <2>1, <2>3, <2>6 DEF LiveInv
<1> QED
  BY <1>17, <1>18 DEF Actors

(* The element count is loaded and stored. *)
LEMMA LiveElem ==
    ASSUME EndpointInv, Live, NEW a \in Actors, load_elem(a) \/ store_elem(a)
    PROVE  LiveInv' /\ wild' = {}
<1>1. PICK b \in Actors : b # a
  BY NetAssumption DEF Actors
<1>2. /\ EndpointType /\ Roles /\ Stages /\ Steady(a) /\ Steady(b) /\ wild = {}
      /\ act[a].pc \in {"add_load", "rem_load", "add_store", "rem_store"}
  BY <1>1, LiveFacts, Opposite DEF load_elem, store_elem, At
<1>3. PICK q : q = act[a].q
  OBVIOUS
<1>4. q \in DOMAIN queues /\ q \in Both /\ Exists(a) /\ Q(a) = queues[q] /\ Q(a) \in Ring
  BY <1>1, <1>2, <1>3, Opposite, TypeOf DEF Steady, Removing, Adding, Exists, Q
<1>5. Same /\ list' = list /\ wild' = wild
  BY <1>4 DEF load_elem, store_elem, Same
<1>6. /\ DOMAIN queues' = DOMAIN queues /\ \A p : Waiting(p)' = Waiting(p)
      /\ \A p \in DOMAIN queues : queues'[p].data = queues[p].data /\ queues'[p].tail = queues[p].tail
  <2>1. CASE load_elem(a)
    BY <2>1 DEF load_elem, Waiting
  <2>2. CASE store_elem(a)
    <3>1. PICK e, r : e = act[a].reg + (IF At(a, "add_store") THEN 1 ELSE -1) /\ r = [Q(a) EXCEPT !.elem = e]
      OBVIOUS
    <3>2. act[a].reg \in Int
      BY <1>2, TypeOf
    <3>3. e \in Int
      BY <3>1, <3>2
    <3>4. queues' = [queues EXCEPT ![q] = r]
      BY <1>2, <1>3, <1>4, <2>2, <3>1 DEF store_elem, EndpointType, Q
    <3>5. r \in Ring /\ Line(r) = Line(Q(a))
      BY <1>4, <3>1, <3>3, RingCount
    <3>6. r.data = Q(a).data /\ r.tail = Q(a).tail
      BY <1>4, <3>1 DEF Ring
    <3>7. /\ DOMAIN queues' = DOMAIN queues /\ Waiting(q)' = Line(r) /\ queues'[q] = r
          /\ \A p : p # q => Waiting(p)' = Waiting(p) /\ (p \in DOMAIN queues => queues'[p] = queues[p])
      BY <1>2, <1>4, <3>4, <3>5, QueueBecomes
    <3>8. \A p : Waiting(p)' = Waiting(p)
      BY <1>4, <3>5, <3>7 DEF Waiting
    <3> QED
      BY <1>4, <3>6, <3>7, <3>8
  <2> QED
    BY <2>1, <2>2
<1>7. /\ act'[b] = act[b]
      /\ \/ /\ act'[a].pc = (IF act[a].pc = "add_load" THEN "add_store" ELSE IF act[a].pc = "rem_load" THEN "rem_store" ELSE "taken")
            /\ act[a].pc # "add_store"
            /\ act'[a].q = q /\ act'[a].buf = act[a].buf /\ act'[a].n = act[a].n
         \/ /\ act[a].pc = "add_store"
            /\ act'[a].buf = 0
            /\ a = Owner /\ life = "creating" => act'[a].pc = "fill" /\ act'[a].n = act[a].n
            /\ ~(a = Owner /\ life = "creating") => act'[a].pc = "idle"
  <2>0. act[a] \in Doing /\ act \in [Actors -> Doing]
    BY <1>2, TypeOf
  <2>1. CASE load_elem(a)
    <3>1. act' = [act EXCEPT ![a] = [act[a] EXCEPT !.pc = IF @ = "add_load" THEN "add_store" ELSE "rem_store", !.reg = Q(a).elem]]
      BY <1>4, <2>0, <2>1 DEF load_elem
    <3>2. act[a].pc \in {"add_load", "rem_load"}
      BY <2>1 DEF load_elem, At
    <3> QED
      BY <1>1, <1>3, <2>0, <3>1, <3>2 DEF Doing
  <2>2. CASE store_elem(a) /\ act[a].pc = "rem_store"
    <3>1. act' = [act EXCEPT ![a] = [act[a] EXCEPT !.pc = "taken", !.reg = 0]]
      BY <1>4, <2>0, <2>2 DEF store_elem, At
    <3> QED
      BY <1>1, <1>3, <2>0, <2>2, <3>1 DEF Doing
  <2>3. CASE store_elem(a) /\ act[a].pc = "add_store"
    <3>1. Added(a)
      BY <1>2, <1>4, <2>3 DEF store_elem, At
    <3>2. /\ act'[b] = act[b]
          /\ act'[a] = IF a = Owner /\ life = "creating" THEN [Idle EXCEPT !.pc = "fill", !.n = act[a].n] ELSE Idle
      BY <1>1, <1>2, <3>1, AddedFacts
    <3>3. CASE a = Owner /\ life = "creating"
      <4>1. \A k : /\ [Idle EXCEPT !.pc = "fill", !.n = k].pc = "fill"
                   /\ [Idle EXCEPT !.pc = "fill", !.n = k].buf = 0
                   /\ [Idle EXCEPT !.pc = "fill", !.n = k].n = k
        BY DEF Idle
      <4>2. act'[a].pc = "fill" /\ act'[a].buf = 0 /\ act'[a].n = act[a].n
        BY <3>2, <3>3, <4>1, Zenon
      <4> QED
        BY <2>3, <3>2, <3>3, <4>2
    <3>4. CASE ~(a = Owner /\ life = "creating")
      <4>1. act'[b] = act[b] /\ act'[a] = Idle
        BY <3>2, <3>4, Zenon
      <4>2. Idle.pc = "idle" /\ Idle.buf = 0
        BY DEF Idle
      <4> QED
        BY <2>3, <3>4, <4>1, <4>2
    <3> QED
      BY <3>3, <3>4
  <2>4. store_elem(a) => act[a].pc \in {"add_store", "rem_store"}
    BY DEF store_elem, At
  <2> QED
    BY <2>1, <2>2, <2>3, <2>4
<1>9. Roles' /\ Stages'
  <2>1. act[a].pc \in Removing \cup Adding
    BY <1>2 DEF Removing, Adding
  <2>2. \/ act'[a].pc \in Removing /\ act[a].pc \in Removing /\ act'[a].q = act[a].q
        \/ act'[a].pc \in Adding /\ act[a].pc \in Adding /\ act'[a].q = act[a].q
        \/ a = Owner /\ life = "creating" /\ act'[a].pc = "fill"
        \/ ~(a = Owner /\ life = "creating") /\ act'[a].pc = "idle"
    BY <1>2, <1>3, <1>7 DEF Removing, Adding
  <2> QED
    BY <1>1, <1>2, <1>5, <1>6, <1>7, <2>1, <2>2, RolesKept DEF Same
<1>10. Steady(a)'
  BY <1>2, <1>3, <1>4, <1>6, <1>7 DEF Steady, InHand, Removing, Adding
<1>11. Steady(b)'
  <2>1. act[b].pc = "add_tail" => act[b].q \in DOMAIN queues
    BY <1>2 DEF Steady, Adding
  <2> QED
    BY <1>2, <1>6, <1>7, <2>1, SteadyKept DEF Steady
<1>12. OnePlace' /\ Ordered'
  <2>1. Free' = Free /\ Packets' = Packets
    BY <1>6 DEF Free, Packets
  <2>2. Hand(a)' = Hand(a)
    BY <1>2, <1>7 DEF Hand, InHand
  <2>3. Made' = Made
    <3>1. CASE a = Service
      BY <1>1, <1>5, <1>7, <3>1 DEF Made, Same, Actors
    <3>2. CASE a = Owner
      <4>1. Idle.pc = "idle"
        BY DEF Idle
      <4>2. life # "none"
        BY <1>2, <3>2, <4>1 DEF Stages
      <4>3. life = "ready" \/ act'[Owner].n = act[Owner].n
        BY <1>7, <3>2, <4>2 DEF Live
      <4> QED
        BY <1>5, <4>3 DEF Made, Same
    <3> QED
      BY <3>1, <3>2 DEF Actors
  <2>4. a = Owner => (Reading' => Reading /\ act'[Owner].buf = act[Owner].buf)
    BY <1>2, <1>7 DEF Reading
  <2>5. a = Service => (Handled' => Handled) /\ act'[Service].pc \notin {"add", "add_tail"}
    BY <1>2, <1>7 DEF Handled, Removing
  <2> QED
    BY <1>1, <1>2, <1>5, <1>7, <2>1, <2>2, <2>3, <2>4, <2>5, NothingMoves
<1> QED
  BY <1>1, <1>2, <1>5, <1>9, <1>10, <1>11, <1>12 DEF LiveInv, Actors

(* A datagram arrives: it is newer than all that wait. *)
LEMMA LiveUdpIn ==
    ASSUME EndpointInv, Live, udp_in
    PROVE  LiveInv' /\ wild' = {}
<1>1. /\ EndpointType /\ Roles /\ Stages /\ Steady(Service) /\ Steady(Owner) /\ OnePlace /\ Ordered
      /\ act[Service].pc = "idle" /\ wild = {} /\ wild' = wild
      /\ life' = life /\ content' = content /\ received' = received /\ leaked' = leaked /\ queues' = queues /\ list' = list
  BY LiveFacts DEF udp_in, ustack_service, At
<1>2. Service \in Actors /\ Owner \in Actors /\ Owner # Service
  BY NetAssumption DEF Actors
<1>3. \/ act' = act
      \/ /\ list /\ act'[Owner] = act[Owner] /\ act'[Service].pc = "rem" /\ act'[Service].q = "free_buffers"
         /\ act'[Service].buf = act[Service].buf
  <2>1. "rem" \in Pcs /\ "free_buffers" \in {""} \cup Both
    BY DEF Pcs, Removing, Both
  <2> QED
    BY <1>1, <1>2, <2>1, GotoFacts DEF udp_in
<1>4. act'[Owner] = act[Owner] /\ act'[Service].pc \in {"idle", "rem"} /\ act'[Service].buf = act[Service].buf
  BY <1>1, <1>3
<1>5. Roles' /\ Stages'
  BY <1>1, <1>3 DEF Roles, Stages, Removing, Adding
<1>6. \A p : Waiting(p)' = Waiting(p)
  BY <1>1 DEF Waiting
<1>7. Steady(Service)'
  BY <1>1, <1>4 DEF Steady, InHand, Removing, Adding
<1>8. Steady(Owner)'
  BY <1>1, <1>2, <1>4, <1>6, SteadyKept DEF Steady
<1>9. Hand(Service)' = Hand(Service) /\ Hand(Owner)' = Hand(Owner) /\ Made' = Made /\ Free' = Free /\ Packets' = Packets
  BY <1>1, <1>4, <1>6 DEF Hand, InHand, Made, Free, Packets
<1>10. OnePlace'
  BY <1>1, <1>9, Zenon DEF OnePlace
<1>11. Ordered'
  <2>1. arrived \in Nat /\ arrived' = arrived + 1 /\ received \in Int
    BY <1>1, NetAssumption DEF udp_in, EndpointType
  <2>2. \A k \in Int : k <= arrived => k < arrived' /\ k <= arrived'
    BY <2>1
  <2>3. \A b \in Buffers : Number(b) \in Int
    <3>1. Oversize \in Nat \ {0} /\ \A b \in Buffers : content[b] \in Int
      BY <1>1, NetAssumption DEF Oversize, EndpointType
    <3> QED
      BY <3>1 DEF Number
  <2>4. \A b : Number(b)' = Number(b)
    BY <1>1 DEF Number
  <2>5. \A i \in 1..Len(Packets) : Packets[i] \in Buffers
    <3>1. Elements(Packets) \subseteq Buffers
      BY <1>2, PlaceFacts DEF Packets, Both
    <3> QED
      BY <3>1 DEF Elements
  <2>6. Reading => act[Owner].buf \in Buffers
    <3>1. Hand(Owner) \subseteq Buffers
      BY <1>2, PlaceFacts DEF Both
    <3> QED
      BY <3>1 DEF Hand, InHand, Reading
  <2>7. Reading' = Reading /\ act'[Owner].buf = act[Owner].buf /\ act'[Service].pc \notin {"add", "add_tail"}
    BY <1>4 DEF Reading
  <2>8. \A i \in 1..Len(Packets) : Number(Packets[i]) < arrived' /\ Number(Packets[i]) <= arrived'
    BY <1>1, <2>2, <2>3, <2>5, Zenon DEF Ordered
  <2>9. Reading => Number(act[Owner].buf) < arrived' /\ Number(act[Owner].buf) <= arrived'
    BY <1>1, <2>2, <2>3, <2>6, Zenon DEF Ordered
  <2>10. received < arrived' /\ received <= arrived'
    BY <1>1, <2>1, <2>2, Zenon DEF Ordered
  <2> QED
    BY <1>1, <1>9, <2>4, <2>7, <2>8, <2>9, <2>10, Zenon DEF Ordered
<1> QED
  BY <1>1, <1>5, <1>7, <1>8, <1>10, <1>11 DEF LiveInv

(* The buffer in the hands of the service is filled. *)
LEMMA LiveUdpCallback ==
    ASSUME EndpointInv, Live, udp_callback
    PROVE  LiveInv' /\ wild' = {}
<1>1. /\ EndpointType /\ Roles /\ Stages /\ Steady(Service) /\ Steady(Owner) /\ OnePlace /\ Ordered
      /\ act[Service].pc = "taken" /\ wild = {}
      /\ life' = life /\ arrived' = arrived /\ received' = received /\ leaked' = leaked /\ queues' = queues /\ list' = list
  BY LiveFacts DEF udp_callback, At
<1>2. Service \in Actors /\ Owner \in Actors /\ Owner # Service
  BY NetAssumption DEF Actors
<1>3. PICK x : x = act[Service].buf
  OBVIOUS
<1>4. Hand(Service) = {x} /\ x \in Made /\ x \in Buffers /\ content[x] # Freed /\ Buffer(Service)
  <2>1. Hand(Service) = {x}
    BY <1>1, <1>3 DEF Hand, InHand
  <2>2. Hand(Service) \subseteq Made /\ Made \subseteq Buffers
    BY <1>2, PlaceFacts DEF Both
  <2>3. content[x] >= 0
    BY <1>1, <2>1, <2>2 DEF Ordered
  <2>4. content[x] # Freed
    BY <2>3 DEF Freed
  <2> QED
    BY <1>3, <2>1, <2>2, <2>4 DEF Buffer
<1>5. Goto(Service, "add", "pkt_queue") /\ wild' = wild
      /\ \E o \in {0, Oversize} : content' = [content EXCEPT ![x] = arrived + o]
  BY <1>3, <1>4 DEF udp_callback
<1>6. PICK o \in {0, Oversize} : content' = [content EXCEPT ![x] = arrived + o]
  BY <1>5
<1>7. /\ act'[Owner] = act[Owner] /\ act'[Service].pc = "add" /\ act'[Service].q = "pkt_queue" /\ act'[Service].buf = x
  <2>1. "add" \in Pcs /\ "pkt_queue" \in {""} \cup Both
    BY DEF Pcs, Adding, Both
  <2> QED
    BY <1>1, <1>2, <1>3, <1>5, <2>1, GotoFacts
<1>8. DOMAIN queues = Both
  <2>1. life = "creating" /\ act[Owner].n = 0 => Made = {}
    BY DEF Made
  <2>2. life # "none"
    BY <1>1 DEF Stages
  <2> QED
    BY <1>1, <1>4, <2>1, <2>2 DEF Stages, Live
<1>9. Roles' /\ Stages'
  BY <1>1, <1>7, <1>8 DEF Roles, Stages, Removing, Adding
<1>10. \A p : Waiting(p)' = Waiting(p)
  BY <1>1 DEF Waiting
<1>11. Steady(Service)'
  BY <1>1, <1>7, <1>8 DEF Steady, InHand, Removing, Adding, Both
<1>12. Steady(Owner)'
  BY <1>1, <1>2, <1>7, <1>10, SteadyKept DEF Steady
<1>13. Hand(Service)' = Hand(Service) /\ Hand(Owner)' = Hand(Owner) /\ Made' = Made /\ Free' = Free /\ Packets' = Packets
  BY <1>1, <1>3, <1>7, <1>10 DEF Hand, InHand, Made, Free, Packets
<1>14. content \in [Buffers -> -1..(2 * Oversize)] /\ (\A b \in Buffers : b # x => content'[b] = content[b]) /\ content'[x] = arrived + o
  BY <1>1, <1>4, <1>6 DEF EndpointType
<1>15. x \notin leaked /\ x \notin Elements(Packets) /\ x \notin Hand(Owner)
  BY <1>1, <1>4 DEF OnePlace, Split
<1>16. OnePlace'
  <2>1. \A b \in leaked : b \in Buffers /\ content'[b] >= Oversize
    <3>1. leaked \subseteq Buffers
      BY <1>1 DEF EndpointType
    <3> QED
      BY <1>1, <1>14, <1>15, <3>1 DEF OnePlace
  <2> QED
    BY <1>1, <1>13, <2>1, Zenon DEF OnePlace
<1>17. Ordered'
  <2>1. arrived \in Nat /\ arrived <= MaxDatagrams /\ MaxDatagrams \in Nat /\ Oversize = MaxDatagrams + 1
    BY <1>1, NetAssumption DEF EndpointType, Oversize
  <2>2. Number(x)' = arrived
    <3>1. Number(x)' = (arrived + o) % Oversize
      BY <1>14 DEF Number
    <3>2. PICK k, j : k = Oversize /\ j = arrived + o
      OBVIOUS
    <3>3. k \in Nat \ {0} /\ j \in Int /\ -k < j /\ j < 2 * k
      BY <2>1, <3>2
    <3>4. j % k = IF j < 0 THEN j + k ELSE IF j < k THEN j ELSE j - k
      BY <3>3, Modulo
    <3>5. (IF j < 0 THEN j + k ELSE IF j < k THEN j ELSE j - k) = arrived
      BY <2>1, <3>2
    <3> QED
      BY <3>1, <3>2, <3>4, <3>5
  <2>3. \A b \in Buffers : b # x => Number(b)' = Number(b)
    BY <1>14 DEF Number
  <2>4. \A i \in 1..Len(Packets) : Packets[i] \in Buffers /\ Packets[i] # x
    <3>1. Elements(Packets) \subseteq Buffers
      BY <1>2, PlaceFacts DEF Packets, Both
    <3> QED
      BY <1>15, <3>1 DEF Elements
  <2>5. Reading => act[Owner].buf \in Buffers /\ act[Owner].buf # x
    <3>1. Hand(Owner) \subseteq Buffers
      BY <1>2, PlaceFacts DEF Both
    <3> QED
      BY <1>15, <3>1 DEF Hand, InHand, Reading
  <2>6. \A b \in Buffers : content'[b] >= 0
    <3>1. arrived + o >= 0
      BY <2>1
    <3> QED
      BY <1>1, <1>14, <3>1 DEF Ordered
  <2>7. Reading' = Reading /\ act'[Owner].buf = act[Owner].buf /\ Handled /\ Handled'
    BY <1>1, <1>7 DEF Reading, Handled, Removing
  <2>8. \A i \in 1..Len(Packets) : Number(Packets[i])' = Number(Packets[i])
    BY <1>13, <2>3, <2>4
  <2>9. Reading => Number(act[Owner].buf)' = Number(act[Owner].buf)
    BY <2>3, <2>5, <2>7
  <2>10. Number(act[Service].buf)' = arrived
    BY <1>7, <2>2
  <2> QED
    BY <1>1, <1>13, <2>6, <2>7, <2>8, <2>9, <2>10, Zenon DEF Ordered
<1> QED
  BY <1>1, <1>5, <1>9, <1>11, <1>12, <1>16, <1>17 DEF LiveInv

(* The service handles an ARP answer. *)
LEMMA LiveArp ==
    ASSUME EndpointInv, Live, arp_mac \/ \E host \in Hosts : arp_update(host)
    PROVE  LiveInv' /\ wild' = {}
<1>1. /\ EndpointType /\ Roles /\ Stages /\ Steady(Service) /\ Steady(Owner)
      /\ act[Service].pc \in {"idle", "arp_mac"} /\ wild = {} /\ wild' = wild
      /\ Same /\ queues' = queues /\ list' = list
  BY LiveFacts DEF arp_mac, arp_update, ustack_service, At, Same
<1>2. Service \in Actors /\ Owner \in Actors /\ Owner # Service
  BY NetAssumption DEF Actors
<1>3. act[Service].buf = 0
  BY <1>1 DEF Steady, InHand
<1>4. act'[Owner] = act[Owner] /\ act'[Service].pc \in {"idle", "arp_mac"} /\ act'[Service].buf = 0
  <2>1. CASE arp_mac
    <3>1. Idle.pc = "idle" /\ Idle.buf = 0 /\ Return(Service)
      BY <2>1 DEF Idle, arp_mac
    <3> QED
      BY <1>1, <1>2, <3>1, ReturnFacts
  <2>2. CASE \E host \in Hosts : arp_update(host)
    <3>1. PICK i \in Entries : act' = [act EXCEPT ![Service].pc = "arp_mac", ![Service].reg = i]
      BY <2>2 DEF arp_update
    <3>2. act \in [Actors -> Doing] /\ act[Service] \in Doing
      BY <1>1, <1>2, TypeOf
    <3>3. \A x \in Doing : \A k : /\ [x EXCEPT !.pc = "arp_mac", !.reg = k].pc = "arp_mac"
                                   /\ [x EXCEPT !.pc = "arp_mac", !.reg = k].buf = x.buf
      BY DEF Doing
    <3>4. act'[Owner] = act[Owner] /\ act'[Service] = [act[Service] EXCEPT !.pc = "arp_mac", !.reg = i]
      BY <1>2, <3>1, <3>2
    <3> QED
      BY <1>3, <3>2, <3>3, <3>4, ZenonT(40)
  <2> QED
    BY <2>1, <2>2
<1>5. Roles' /\ Stages'
  BY <1>1, <1>4 DEF Roles, Stages, Removing, Adding, Same
<1>6. \A p : Waiting(p)' = Waiting(p)
  BY <1>1 DEF Waiting
<1>7. Steady(Service)'
  BY <1>4 DEF Steady, InHand, Removing, Adding
<1>8. Steady(Owner)'
  BY <1>1, <1>2, <1>4, <1>6, SteadyKept DEF Steady
<1>9. OnePlace' /\ Ordered'
  <2>1. Free' = Free /\ Packets' = Packets /\ Hand(Service)' = Hand(Service) /\ Made' = Made
    BY <1>1, <1>4, <1>6 DEF Free, Packets, Hand, InHand, Made, Same
  <2>2. ~Handled' /\ act'[Service].pc \notin {"add", "add_tail"}
    BY <1>4 DEF Handled, Removing
  <2> QED
    BY <1>1, <1>2, <1>4, <2>1, <2>2, NothingMoves
<1> QED
  BY <1>1, <1>5, <1>7, <1>8, <1>9 DEF LiveInv

(* The owner starts to create the endpoint, or to receive. *)
LEMMA LiveBegin ==
    ASSUME EndpointInv, Live, hf_uudp_create \/ hf_uudp_recv
    PROVE  LiveInv' /\ wild' = {}
<1>1. /\ EndpointType /\ Roles /\ Stages /\ Steady(Service) /\ Steady(Owner) /\ OnePlace /\ Ordered
      /\ act[Owner].pc = "idle" /\ wild = {} /\ wild' = wild
      /\ content' = content /\ arrived' = arrived /\ received' = received /\ leaked' = leaked /\ queues' = queues
  BY LiveFacts DEF hf_uudp_create, hf_uudp_recv, At
<1>2. Service \in Actors /\ Owner \in Actors /\ Owner # Service
  BY NetAssumption DEF Actors
<1>3. act[Owner].buf = 0
  BY <1>1 DEF Steady, InHand
<1>4. /\ act'[Service] = act[Service] /\ act'[Owner].buf = 0 /\ act'[Owner].n = act[Owner].n
      /\ \/ /\ life = "none" /\ life' = "creating" /\ act'[Owner].pc = "create" /\ act'[Owner].q = "free_buffers"
         \/ /\ life = "ready" /\ life' = "ready" /\ list' = list /\ act'[Owner].pc = "rem" /\ act'[Owner].q = "pkt_queue"
  <2>1. "rem" \in Pcs /\ "create" \in Pcs /\ "free_buffers" \in {""} \cup Both /\ "pkt_queue" \in {""} \cup Both
    BY DEF Pcs, Removing, Both
  <2>2. CASE hf_uudp_create
    BY <1>1, <1>2, <1>3, <2>1, <2>2, GotoFacts DEF hf_uudp_create
  <2>3. CASE hf_uudp_recv
    BY <1>1, <1>2, <1>3, <2>1, <2>3, GotoFacts DEF hf_uudp_recv
  <2> QED
    BY <2>2, <2>3
<1>5. life = "none" => act[Owner].n = 0 /\ DOMAIN queues = {} /\ act[Service].pc \in {"idle", "arp_mac"}
  <2>1. Idle.n = 0
    BY DEF Idle
  <2> QED
    BY <1>1, <2>1, Zenon DEF Stages
<1>6. Roles' /\ Stages'
  BY <1>1, <1>4, <1>5 DEF Roles, Stages, Removing, Adding
<1>7. \A p : Waiting(p)' = Waiting(p)
  BY <1>1 DEF Waiting
<1>8. Steady(Owner)'
  BY <1>4 DEF Steady, InHand, Removing, Adding
<1>9. Steady(Service)'
  BY <1>1, <1>2, <1>4, <1>7, SteadyKept DEF Steady
<1>10. Free' = Free /\ Packets' = Packets /\ Hand(Owner)' = Hand(Owner) /\ Hand(Service)' = Hand(Service) /\ Made' = Made
  BY <1>1, <1>4, <1>7 DEF Free, Packets, Hand, InHand, Made
<1>11. OnePlace'
  BY <1>1, <1>10, Zenon DEF OnePlace
<1>12. Ordered'
  <2>1. ~Reading' /\ Handled' = Handled /\ \A z : Number(z)' = Number(z)
    BY <1>1, <1>4 DEF Reading, Handled, Number
  <2> QED
    BY <1>1, <1>4, <1>10, <2>1, Zenon DEF Ordered
<1> QED
  BY <1>1, <1>6, <1>8, <1>9, <1>11, <1>12 DEF LiveInv

(* A queue is created, and nothing waits in it. *)
LEMMA LiveCreateQueue ==
    ASSUME EndpointInv, Live, create_queue, life' # "failed"
    PROVE  LiveInv' /\ wild' = {}
<1>1. /\ EndpointType /\ Roles /\ Stages /\ Steady(Service) /\ Steady(Owner) /\ OnePlace /\ Ordered
      /\ act[Owner].pc = "create" /\ wild = {} /\ wild' = wild
      /\ Same /\ list' = list
      /\ queues' = [q \in DOMAIN queues \cup {act[Owner].q} |-> IF q \in DOMAIN queues THEN queues[q] ELSE EmptyQueue]
      /\ IF act[Owner].q = "free_buffers" THEN Goto(Owner, "create", "pkt_queue")
         ELSE act' = [act EXCEPT ![Owner] = [Idle EXCEPT !.pc = "fill"]]
  BY LiveFacts DEF create_queue, At, Same
<1>2. Service \in Actors /\ Owner \in Actors /\ Owner # Service
  BY NetAssumption DEF Actors
<1>3. PICK q : q = act[Owner].q
  OBVIOUS
<1>4. /\ life = "creating" /\ act[Owner].n = 0 /\ act[Owner].buf = 0
      /\ \/ q = "free_buffers" /\ DOMAIN queues = {}
         \/ q = "pkt_queue" /\ DOMAIN queues = {"free_buffers"}
  <2>1. life # "none" /\ life # "ready"
    <3>1. Idle.pc # "create" /\ "create" \notin {"idle"} \cup Removing \cup Adding
      BY DEF Idle, Removing, Adding
    <3> QED
      BY <1>1, <3>1, Zenon DEF Stages
  <2> QED
    BY <1>1, <1>3, <2>1 DEF Live, Stages, Steady, InHand, Adding
<1>5. q \in Both /\ q \notin DOMAIN queues
  BY <1>4 DEF Both
<1>6. /\ DOMAIN queues' = DOMAIN queues \cup {q} /\ queues'[q] = EmptyQueue
      /\ \A p \in DOMAIN queues : queues'[p] = queues[p]
  <2>1. queues \in [DOMAIN queues -> Ring] /\ DOMAIN queues \subseteq Both
    BY <1>1 DEF EndpointType
  <2> QED
    BY <1>1, <1>3, <1>5, <2>1, Extended
<1>7. \A p : Waiting(p)' = Waiting(p)
  <2> SUFFICES ASSUME NEW p PROVE Waiting(p)' = Waiting(p)
    OBVIOUS
  <2>1. CASE p = q
    BY <1>5, <1>6, <2>1, EmptyRing DEF Waiting
  <2>2. CASE p # q
    BY <1>6, <2>2 DEF Waiting
  <2> QED
    BY <2>1, <2>2
<1>8. /\ act'[Service] = act[Service] /\ act'[Owner].buf = 0 /\ act'[Owner].n = 0
      /\ \/ q = "free_buffers" /\ act'[Owner].pc = "create" /\ act'[Owner].q = "pkt_queue"
         \/ q = "pkt_queue" /\ act'[Owner].pc = "fill"
  <2>1. CASE q = "free_buffers"
    <3>1. "create" \in Pcs /\ "pkt_queue" \in {""} \cup Both
      BY DEF Pcs, Both
    <3> QED
      BY <1>1, <1>2, <1>3, <1>4, <2>1, <3>1, GotoFacts, ZenonT(40)
  <2>2. CASE q = "pkt_queue"
    <3>1. [Idle EXCEPT !.pc = "fill"].pc = "fill" /\ [Idle EXCEPT !.pc = "fill"].buf = 0 /\ [Idle EXCEPT !.pc = "fill"].n = 0
      BY DEF Idle
    <3>2. act' = [act EXCEPT ![Owner] = [Idle EXCEPT !.pc = "fill"]] /\ act \in [Actors -> Doing]
      BY <1>1, <1>2, <1>3, <2>2, TypeOf
    <3>3. act'[Owner] = [Idle EXCEPT !.pc = "fill"] /\ act'[Service] = act[Service]
      BY <1>2, <3>2
    <3> QED
      BY <2>2, <3>1, <3>3
  <2> QED
    BY <1>4, <2>1, <2>2
<1>9. Roles' /\ Stages'
  <2>1. Roles'
    BY <1>1, <1>8 DEF Roles, Removing, Adding
  <2>2. life' = "creating"
    BY <1>1, <1>4 DEF Same
  <2>3. DOMAIN queues' = IF q = "free_buffers" THEN {"free_buffers"} ELSE Both
    BY <1>4, <1>6 DEF Both
  <2> QED
    BY <1>4, <1>8, <2>1, <2>2, <2>3 DEF Stages
<1>10. Steady(Owner)'
  BY <1>8 DEF Steady, InHand, Removing, Adding
<1>11. Steady(Service)'
  <2>1. act[Service].pc = "add_tail" => act[Service].q \in DOMAIN queues
    BY <1>1 DEF Steady, Adding
  <2> QED
    BY <1>1, <1>2, <1>6, <1>7, <1>8, <2>1, SteadyKept DEF Steady
<1>12. OnePlace' /\ Ordered'
  <2>1. Free' = Free /\ Packets' = Packets /\ Hand(Owner)' = Hand(Owner) /\ Made' = Made
    BY <1>1, <1>4, <1>7, <1>8 DEF Free, Packets, Hand, InHand, Made, Same
  <2>2. ~Reading'
    BY <1>8 DEF Reading
  <2> QED
    BY <1>1, <1>2, <1>8, <2>1, <2>2, NothingMoves
<1> QED
  BY <1>1, <1>9, <1>10, <1>11, <1>12 DEF LiveInv

(* A buffer is made, or all of them are and the endpoint is ready. *)
LEMMA LiveCreateBuffer ==
    ASSUME EndpointInv, Live, create_buffer, life' # "destroying"
    PROVE  LiveInv' /\ wild' = {}
<1>1. /\ EndpointType /\ Roles /\ Stages /\ Steady(Service) /\ Steady(Owner) /\ OnePlace /\ Ordered
      /\ act[Owner].pc = "fill" /\ wild = {} /\ wild' = wild
      /\ content' = content /\ arrived' = arrived /\ received' = received /\ leaked' = leaked
      /\ queues' = queues /\ list' = list
  BY LiveFacts DEF create_buffer, At
<1>2. Service \in Actors /\ Owner \in Actors /\ Owner # Service
  BY NetAssumption DEF Actors
<1>3. life = "creating" /\ DOMAIN queues = Both
  <2>1. Idle.pc # "fill" /\ "fill" \notin {"idle"} \cup Removing \cup Adding
    BY DEF Idle, Removing, Adding
  <2>2. life # "none" /\ life # "ready"
    BY <1>1, <2>1, Zenon DEF Stages
  <2> QED
    BY <1>1, <2>2 DEF Live, Stages
<1>4. PICK n : n = act[Owner].n
  OBVIOUS
<1>5. n \in 0..QSize /\ QSize \in Nat
  BY <1>1, <1>2, <1>4, TypeOf
<1>6. Made = 1..n /\ Hand(Owner) = {}
  BY <1>1, <1>3, <1>4 DEF Made, Hand, InHand
<1>7. \A p : Waiting(p)' = Waiting(p)
  BY <1>1 DEF Waiting
<1>8. \A z : Number(z)' = Number(z)
  BY <1>1 DEF Number
<1>9. act \in [Actors -> Doing]
  BY <1>1, <1>2, TypeOf
<1>10. CASE n = QSize
  <2>1. Return(Owner) /\ life' = "ready"
    BY <1>4, <1>10 DEF create_buffer
  <2>2. act'[Owner] = Idle /\ act'[Service] = act[Service]
    BY <1>1, <1>2, <2>1, ReturnFacts
  <2>3. act'[Owner].pc = "idle" /\ act'[Owner].buf = 0
    <3>1. Idle.pc = "idle" /\ Idle.buf = 0
      BY DEF Idle
    <3> QED
      BY <2>2, <3>1
  <2>4. Made' = Made /\ Hand(Owner)' = {} /\ Hand(Service)' = Hand(Service) /\ Free' = Free /\ Packets' = Packets
    BY <1>6, <1>7, <1>10, <2>1, <2>2, <2>3 DEF Made, Buffers, Hand, InHand, Free, Packets
  <2>5. Roles' /\ Stages'
    BY <1>1, <1>3, <2>1, <2>2, <2>3 DEF Roles, Stages, Removing, Adding
  <2>6. Steady(Owner)'
    BY <2>3 DEF Steady, InHand, Removing, Adding
  <2>7. Steady(Service)'
    BY <1>1, <1>2, <1>7, <2>2, SteadyKept DEF Steady
  <2>8. OnePlace'
    BY <1>1, <1>6, <2>4, Zenon DEF OnePlace
  <2>9. ~Reading' /\ Handled' = Handled
    BY <2>2, <2>3 DEF Reading, Handled
  <2>10. Ordered'
    BY <1>1, <1>8, <2>2, <2>4, <2>9, Zenon DEF Ordered
  <2> QED
    BY <1>1, <2>5, <2>6, <2>7, <2>8, <2>10 DEF LiveInv
<1>11. CASE n # QSize
  <2>1. /\ act' = [act EXCEPT ![Owner] = [pc |-> "add", q |-> "free_buffers", reg |-> 0, buf |-> n + 1, n |-> n + 1]]
        /\ life' = life
    BY <1>4, <1>11 DEF create_buffer
  <2>2. /\ act'[Service] = act[Service] /\ act'[Owner].pc = "add" /\ act'[Owner].q = "free_buffers"
        /\ act'[Owner].buf = n + 1 /\ act'[Owner].n = n + 1
    BY <1>2, <1>9, <2>1
  <2>3. 1..(n + 1) = 1..n \cup {n + 1} /\ n + 1 \notin 1..n
    BY <1>5
  <2>4. /\ Made' = Made \cup {n + 1} /\ n + 1 \notin Made /\ Hand(Owner)' = {n + 1} /\ Hand(Service)' = Hand(Service)
        /\ Free' = Free /\ Packets' = Packets
    BY <1>3, <1>6, <1>7, <2>1, <2>2, <2>3 DEF Made, Hand, InHand, Free, Packets
  <2>5. Roles' /\ Stages'
    BY <1>1, <1>3, <2>1, <2>2 DEF Roles, Stages, Removing, Adding
  <2>6. Steady(Owner)'
    BY <1>1, <1>3, <2>2 DEF Steady, InHand, Removing, Adding, Both
  <2>7. Steady(Service)'
    BY <1>1, <1>2, <1>7, <2>2, SteadyKept DEF Steady
  <2>8. OnePlace'
    <3>1. PICK A, B, C, E : A = Elements(Free) /\ B = Elements(Packets) /\ C = Hand(Service) /\ E = leaked
      OBVIOUS
    <3>2. Split(A, B, C, {}, E, Made) => Split(A, B, C, {n + 1}, E, Made \cup {n + 1})
      BY <2>4 DEF Split
    <3>3. Split(A, B, C, {n + 1}, E, Made \cup {n + 1})
      BY <1>1, <1>6, <3>1, <3>2 DEF OnePlace
    <3> QED
      BY <1>1, <2>4, <3>1, <3>3, Zenon DEF OnePlace
  <2>9. ~Reading' /\ Handled' = Handled
    BY <2>2 DEF Reading, Handled
  <2>10. Ordered'
    BY <1>1, <1>8, <2>2, <2>4, <2>9, Zenon DEF Ordered
  <2> QED
    BY <1>1, <2>5, <2>6, <2>7, <2>8, <2>10 DEF LiveInv
<1> QED
  BY <1>10, <1>11

(* A datagram is received: it is older than all that wait. *)
LEMMA LiveRecvCopy ==
    ASSUME EndpointInv, Live, recv_copy
    PROVE  LiveInv' /\ wild' = {}
<1>1. /\ EndpointType /\ Roles /\ Stages /\ Steady(Service) /\ Steady(Owner) /\ OnePlace /\ Ordered
      /\ act[Owner].pc = "taken" /\ life = "ready" /\ wild = {} /\ wild' = wild
      /\ content' = content /\ arrived' = arrived /\ life' = life
      /\ queues' = queues /\ list' = list
  BY LiveFacts DEF recv_copy, At
<1>2. Service \in Actors /\ Owner \in Actors /\ Owner # Service
  BY NetAssumption DEF Actors
<1>3. PICK x : x = act[Owner].buf
  OBVIOUS
<1>4. Hand(Owner) = {x} /\ Reading /\ x \in Buffers /\ DOMAIN queues = Both
  <2>1. Hand(Owner) = {x} /\ Reading
    BY <1>1, <1>3 DEF Hand, InHand, Reading
  <2>2. Hand(Owner) \subseteq Buffers
    BY <1>2, PlaceFacts DEF Both
  <2> QED
    BY <1>1, <2>1, <2>2 DEF Stages
<1>5. \A p : Waiting(p)' = Waiting(p)
  BY <1>1 DEF Waiting
<1>6. \A z : Number(z)' = Number(z)
  BY <1>1 DEF Number
<1>7. Free' = Free /\ Packets' = Packets
  BY <1>5 DEF Free, Packets
<1>8. CASE content[x] >= Oversize
  <2>1. leaked' = leaked \cup {x} /\ Return(Owner) /\ received' = received
    BY <1>3, <1>8 DEF recv_copy
  <2>2. act'[Owner] = Idle /\ act'[Service] = act[Service]
    BY <1>1, <1>2, <2>1, ReturnFacts
  <2>3. act'[Owner].pc = "idle" /\ act'[Owner].buf = 0
    <3>1. Idle.pc = "idle" /\ Idle.buf = 0
      BY DEF Idle
    <3> QED
      BY <2>2, <3>1
  <2>4. Made' = Made /\ Hand(Owner)' = {} /\ Hand(Service)' = Hand(Service)
    BY <1>1, <2>2, <2>3 DEF Made, Hand, InHand
  <2>5. Roles' /\ Stages'
    BY <1>1, <1>4, <2>2, <2>3 DEF Roles, Stages, Removing, Adding
  <2>6. Steady(Owner)'
    BY <2>3 DEF Steady, InHand, Removing, Adding
  <2>7. Steady(Service)'
    BY <1>1, <1>2, <1>5, <2>2, SteadyKept DEF Steady
  <2>8. OnePlace'
    <3>1. PICK A, B, C, E : A = Elements(Free) /\ B = Elements(Packets) /\ C = Hand(Service) /\ E = leaked
      OBVIOUS
    <3>2. Split(A, B, C, {x}, E, Made) => Split(A, B, C, {}, E \cup {x}, Made)
      BY DEF Split
    <3>3. Split(A, B, C, {}, E \cup {x}, Made)
      BY <1>1, <1>4, <3>1, <3>2 DEF OnePlace
    <3>4. \A b \in leaked' : content'[b] >= Oversize
      BY <1>1, <1>8, <2>1 DEF OnePlace
    <3> QED
      BY <1>1, <1>7, <2>1, <2>4, <3>1, <3>3, <3>4, Zenon DEF OnePlace
  <2>9. ~Reading' /\ Handled' = Handled
    BY <2>2, <2>3 DEF Reading, Handled
  <2>10. Ordered'
    BY <1>1, <1>6, <1>7, <2>1, <2>2, <2>9, Zenon DEF Ordered
  <2> QED
    BY <1>1, <2>5, <2>6, <2>7, <2>8, <2>10 DEF LiveInv
<1>9. CASE ~(content[x] >= Oversize)
  <2>1. leaked' = leaked /\ Goto(Owner, "add", "free_buffers") /\ received' = content[x]
    BY <1>3, <1>9 DEF recv_copy
  <2>2. /\ act'[Service] = act[Service] /\ act'[Owner].pc = "add" /\ act'[Owner].q = "free_buffers"
        /\ act'[Owner].buf = x
    <3>1. "add" \in Pcs /\ "free_buffers" \in {""} \cup Both
      BY DEF Pcs, Adding, Both
    <3> QED
      BY <1>1, <1>2, <1>3, <2>1, <3>1, GotoFacts
  <2>3. received' = Number(x)
    <3>1. PICK k, j : k = Oversize /\ j = content[x]
      OBVIOUS
    <3>2. content \in [Buffers -> -1..(2 * Oversize)] /\ MaxDatagrams \in Nat /\ content[x] >= 0
      BY <1>1, <1>4, NetAssumption DEF EndpointType, Ordered
    <3>3. k \in Nat \ {0} /\ j \in Int /\ j >= 0 /\ j < k
      BY <1>4, <1>9, <3>1, <3>2 DEF Oversize
    <3>4. -k < j /\ j < 2 * k
      BY <3>3
    <3>5. j % k = IF j < 0 THEN j + k ELSE IF j < k THEN j ELSE j - k
      BY <3>3, <3>4, Modulo
    <3>6. j % k = j
      BY <3>3, <3>5
    <3> QED
      BY <2>1, <3>1, <3>6 DEF Number
  <2>4. Made' = Made /\ Hand(Owner)' = Hand(Owner) /\ Hand(Service)' = Hand(Service)
    BY <1>1, <1>4, <2>2 DEF Made, Hand, InHand
  <2>5. Roles' /\ Stages'
    BY <1>1, <1>4, <2>2 DEF Roles, Stages, Removing, Adding
  <2>6. Steady(Owner)'
    BY <1>1, <1>4, <2>2 DEF Steady, InHand, Removing, Adding, Both
  <2>7. Steady(Service)'
    BY <1>1, <1>2, <1>5, <2>2, SteadyKept DEF Steady
  <2>8. OnePlace'
    BY <1>1, <1>7, <2>1, <2>4, Zenon DEF OnePlace
  <2>9. ~Reading' /\ Handled' = Handled
    BY <2>2 DEF Reading, Handled
  <2>10. Ordered'
    <3>1. /\ Number(x) <= arrived /\ (Handled => Number(x) < arrived)
          /\ \A i \in 1..Len(Packets) : Number(x) < Number(Packets[i])
      BY <1>1, <1>3, <1>4, Zenon DEF Ordered
    <3> QED
      BY <1>1, <1>6, <1>7, <2>2, <2>3, <2>9, <3>1, Zenon DEF Ordered
  <2> QED
    BY <1>1, <2>5, <2>6, <2>7, <2>8, <2>10 DEF LiveInv
<1> QED
  BY <1>8, <1>9

-----------------------------------------------------------------------------
(* Every step. *)

LEMMA QueueLive ==
    ASSUME EndpointInv, Live, NEW a \in Actors, QueueStep(a)
    PROVE  /\ wild' = {} => LiveInv'
           /\ life = "ready" => wild' \in {{}, {"null"}}
<1>1. CASE rem_data(a)
  <2>1. ASSUME life = "ready" PROVE wild' \in {{}, {"null"}}
    <3>1. PICK b \in Actors : b # a
      BY NetAssumption DEF Actors
    <3>2. act[a].pc = "rem" /\ wild = {} /\ Stages
      BY <1>1, LiveFacts DEF rem_data, At
    <3>3. act[a].q \in Both
      BY <3>1, <3>2, Opposite DEF Removing
    <3>4. Exists(a)
      BY <2>1, <3>2, <3>3 DEF Stages, Exists
    <3> QED
      BY <1>1, <3>2, <3>4 DEF rem_data, Wild
  <2> QED
    BY <1>1, <2>1, LiveRemData
<1>2. CASE add_data(a) \/ add_tail(a) \/ rem_head(a) \/ load_elem(a) \/ store_elem(a)
  BY <1>2, LiveAddData, LiveAddTail, LiveRemHead, LiveElem
<1> QED
  BY <1>1, <1>2 DEF QueueStep

LEMMA ServiceLive ==
    ASSUME EndpointInv, Live, ServiceStep
    PROVE  LiveInv' /\ wild' = {}
BY LiveUdpIn, LiveUdpCallback, LiveArp DEF ServiceStep

LEMMA OwnerLive ==
    ASSUME EndpointInv, Live, OwnerStep
    PROVE  wild' = {} /\ (Live' => LiveInv')
<1>1. CASE hf_uudp_create \/ hf_uudp_recv
  BY <1>1, LiveBegin
<1>2. CASE create_queue
  <2>1. wild = {} /\ wild' = wild
    BY <1>2 DEF create_queue, At
  <2> QED
    BY <1>2, <2>1, LiveCreateQueue DEF Live
<1>3. CASE create_buffer
  <2>1. wild = {} /\ wild' = wild
    BY <1>3 DEF create_buffer, At
  <2> QED
    BY <1>3, <2>1, LiveCreateBuffer DEF Live
<1>4. CASE recv_copy
  BY <1>4, LiveRecvCopy
<1>5. CASE hf_uudp_destroy
  BY <1>5 DEF hf_uudp_destroy, At, Live
<1>6. CASE drain \/ unlist
  <2>1. act[Owner].pc \in {"drain", "unlist"} /\ Roles
    BY <1>6, LiveFacts DEF drain, unlist, At
  <2> QED
    BY <2>1 DEF Roles, Removing, Adding
<1>7. CASE free_buffer
  BY <1>7 DEF free_buffer, Live
<1> QED
  BY <1>1, <1>2, <1>3, <1>4, <1>5, <1>6, <1>7 DEF OwnerStep

(* A step needs wild = {}, and no step brings an endpoint to life. *)
LEMMA StaysDead ==
    ASSUME EndpointInv, QueueStep(Service) \/ QueueStep(Owner) \/ ServiceStep \/ OwnerStep
    PROVE  /\ wild = {} /\ (Live' => Live)
           /\ life' = "ready" => life = "ready" \/ wild' = {}
<1>1. CASE QueueStep(Service) \/ QueueStep(Owner) \/ ServiceStep
  <2>1. wild = {} /\ life' = life
    BY <1>1 DEF QueueStep, add_data, add_tail, rem_data, rem_head, load_elem, store_elem, ServiceStep, udp_in,
                udp_callback, arp_mac, arp_update, ustack_service, At
  <2> QED
    BY <2>1, SMTT(30) DEF Live
<1>2. CASE OwnerStep
  <2>1. Filling
    BY DEF EndpointInv
  <2>2. wild = {} /\ (life' = life \/ (life = "none" /\ life' = "creating")
                      \/ life' \in {"failed", "destroying", "gone"}
                      \/ (act[Owner].pc = "fill" /\ life' = "ready" /\ wild' = {}))
    BY <1>2 DEF OwnerStep, hf_uudp_create, create_queue, create_buffer, hf_uudp_recv, recv_copy, hf_uudp_destroy,
                drain, free_buffer, unlist, At
  <2>3. act[Owner].pc = "fill" => life = "creating"
    BY <2>1 DEF Filling
  <2> QED
    BY <2>2, <2>3 DEF Live
<1> QED
  BY <1>1, <1>2

LEMMA FillingKept ==
    ASSUME EndpointInv, QueueStep(Service) \/ QueueStep(Owner) \/ ServiceStep \/ OwnerStep
    PROVE  Filling'
<1>1. EndpointType /\ Filling /\ Owner # Service /\ Owner \in Actors /\ Service \in Actors
  BY NetAssumption DEF EndpointInv, Actors
<1>2. Idle.pc = "idle"
  BY DEF Idle
<1>3. act \in [Actors -> Doing] /\ act[Owner] \in Doing
  BY <1>1, TypeOf
<1>4. ASSUME Return(Owner) PROVE act'[Owner].pc = "idle"
  BY <1>1, <1>2, <1>4, ReturnFacts
<1>5. ASSUME NEW pc, NEW q, Goto(Owner, pc, q) PROVE act'[Owner].pc = pc
  <2>1. \A x \in Doing : [x EXCEPT !.pc = pc, !.q = q].pc = pc
    BY DEF Doing
  <2>2. act'[Owner] = [act[Owner] EXCEPT !.pc = pc, !.q = q]
    BY <1>1, <1>3, <1>5 DEF Goto
  <2> QED
    BY <1>3, <2>1, <2>2, Zenon
<1>6. CASE QueueStep(Service) \/ ServiceStep
  <2>1. act'[Owner] = act[Owner]
    <3>1. CASE udp_in \/ udp_callback \/ arp_mac
      BY <1>1, <1>3, <3>1 DEF udp_in, udp_callback, arp_mac, Goto, Return, Wild
    <3>2. CASE \E host \in Hosts : arp_update(host)
      BY <1>1, <1>3, <3>2 DEF arp_update
    <3>3. CASE QueueStep(Service)
      <4>1. CASE add_data(Service) \/ add_tail(Service)
        BY <1>1, <1>3, <4>1, SMTT(30) DEF add_data, add_tail, Goto, Return, Wild, Added
      <4>2. CASE rem_data(Service) \/ rem_head(Service)
        BY <1>1, <1>3, <4>2, SMTT(30) DEF rem_data, rem_head, Goto, Return, Wild, Added
      <4>3. CASE load_elem(Service) \/ store_elem(Service)
        BY <1>1, <1>3, <4>3, SMTT(30) DEF load_elem, store_elem, Goto, Return, Wild, Added
      <4> QED
        BY <3>3, <4>1, <4>2, <4>3, Zenon DEF QueueStep
    <3> QED
      BY <1>6, <3>1, <3>2, <3>3 DEF ServiceStep
  <2>2. life' = life
    BY <1>6 DEF QueueStep, add_data, add_tail, rem_data, rem_head, load_elem, store_elem, ServiceStep, udp_in,
                udp_callback, arp_mac, arp_update
  <2> QED
    BY <1>1, <2>1, <2>2 DEF Filling
<1>7. CASE QueueStep(Owner)
  <2>1. life' = life
    BY <1>7 DEF QueueStep, add_data, add_tail, rem_data, rem_head, load_elem, store_elem
  <2>2. act'[Owner].pc \in {"create", "fill"} => life = "creating"
    <3>1. ASSUME Added(Owner) PROVE act'[Owner].pc \in {"create", "fill"} => life = "creating"
      BY <1>1, <1>4, <3>1 DEF Added
    <3>2. ASSUME NEW pc, NEW buf, NEW reg, act' = [act EXCEPT ![Owner].pc = pc, ![Owner].buf = buf] \/
                                           act' = [act EXCEPT ![Owner].pc = pc, ![Owner].reg = reg]
          PROVE  act'[Owner].pc = pc
      <4>1. \A x \in Doing : [x EXCEPT !.pc = pc, !.buf = buf].pc = pc /\ [x EXCEPT !.pc = pc, !.reg = reg].pc = pc
        BY DEF Doing
      <4>2. \/ act'[Owner] = [act[Owner] EXCEPT !.pc = pc, !.buf = buf]
            \/ act'[Owner] = [act[Owner] EXCEPT !.pc = pc, !.reg = reg]
        BY <1>1, <1>3, <3>2
      <4> QED
        BY <1>3, <4>1, <4>2, Zenon
    <3>3. CASE add_data(Owner)
      BY <1>4, <1>5, <3>1, <3>3 DEF add_data, Wild
    <3>4. CASE add_tail(Owner)
      BY <1>4, <3>2, <3>4 DEF add_tail, Wild
    <3>5. CASE rem_data(Owner)
      BY <1>4, <3>2, <3>5 DEF rem_data, Wild
    <3>6. CASE rem_head(Owner)
      BY <1>4, <1>5, <3>6 DEF rem_head, Wild
    <3>7. CASE load_elem(Owner)
      <4>1. \/ Return(Owner)
            \/ \E pc \in {"add_store", "rem_store"} : act' = [act EXCEPT ![Owner].pc = pc, ![Owner].reg = Q(Owner).elem]
        BY <3>7 DEF load_elem, Wild
      <4> QED
        BY <1>4, <3>2, <4>1
    <3>8. CASE store_elem(Owner)
      BY <1>4, <3>1, <3>2, <3>8 DEF store_elem, Wild
    <3> QED
      BY <1>7, <3>3, <3>4, <3>5, <3>6, <3>7, <3>8 DEF QueueStep
  <2> QED
    BY <2>1, <2>2, SMTT(30) DEF Filling
<1>8. CASE OwnerStep
  <2>1. CASE create_queue
    BY <1>1, <1>4, <2>1 DEF create_queue, Filling, At
  <2>2. CASE create_buffer
    <3>1. CASE Return(Owner)
      BY <1>4, <3>1 DEF Filling
    <3>2. CASE Goto(Owner, "drain", "free_buffers")
      BY <1>5, <3>2 DEF Filling
    <3>3. CASE act' = [act EXCEPT ![Owner] = [pc |-> "add", q |-> "free_buffers", reg |-> 0,
                                              buf |-> act[Owner].n + 1, n |-> act[Owner].n + 1]]
      BY <1>1, <1>3, <3>3 DEF Filling
    <3> QED
      BY <2>2, <3>1, <3>2, <3>3 DEF create_buffer
  <2>3. CASE hf_uudp_create
    BY <2>3 DEF hf_uudp_create, Filling
  <2>4. CASE free_buffer
    <3>1. CASE Return(Owner)
      BY <1>4, <3>1 DEF Filling
    <3>2. CASE act' = [act EXCEPT ![Owner].pc = "drain", ![Owner].buf = 0]
      <4>1. \A x \in Doing : [x EXCEPT !.pc = "drain", !.buf = 0].pc = "drain"
        BY DEF Doing
      <4>2. act'[Owner] = [act[Owner] EXCEPT !.pc = "drain", !.buf = 0]
        BY <1>1, <1>3, <3>2
      <4>3. act'[Owner].pc = "drain"
        BY <1>3, <4>1, <4>2, Zenon
      <4> QED
        BY <4>3 DEF Filling
    <3> QED
      BY <2>4, <3>1, <3>2 DEF free_buffer, Wild
  <2>5. CASE hf_uudp_recv \/ recv_copy \/ hf_uudp_destroy \/ drain \/ unlist
    <3>1. Return(Owner) \/ \E pc \in {"rem", "add", "drain", "unlist"} : \E q : Goto(Owner, pc, q)
      BY <2>5, Zenon DEF hf_uudp_recv, recv_copy, hf_uudp_destroy, drain, unlist
    <3>2. act'[Owner].pc \in {"idle", "rem", "add", "drain", "unlist"}
      BY <1>4, <1>5, <3>1
    <3> QED
      BY <3>2 DEF Filling
  <2> QED
    BY <1>8, <2>1, <2>2, <2>3, <2>4, <2>5 DEF OwnerStep
<1> QED
  BY <1>6, <1>7, <1>8

(* Sending leaves the endpoint alone, and so does a step that stutters. *)
LEMMA NothingHappens ==
    ASSUME EndpointInv, KeepEndpoint
    PROVE  EndpointType' /\ QueuesThere' /\ Filling' /\ (Live' => LiveInv')
<1>1. /\ life' = life /\ list' = list /\ queues' = queues /\ content' = content /\ act' = act /\ arrived' = arrived
      /\ received' = received /\ leaked' = leaked /\ wild' = wild
  BY DEF KeepEndpoint
<1>2. EndpointType'
  BY <1>1, Zenon DEF EndpointInv, EndpointType
<1>3. QueuesThere' /\ Filling'
  BY <1>1 DEF EndpointInv, QueuesThere, Filling
<1>4. ASSUME Live' PROVE LiveInv'
  <2>1. Live
    BY <1>1, <1>4 DEF Live
  <2>2. Roles /\ Stages /\ Steady(Service) /\ Steady(Owner) /\ OnePlace /\ Ordered
    BY <2>1, LiveFacts
  <2>3. \A p : Waiting(p)' = Waiting(p)
    BY <1>1 DEF Waiting
  <2>4. Free' = Free /\ Packets' = Packets
    BY <2>3 DEF Free, Packets
  <2>5. Roles' /\ Stages'
    BY <1>1, <2>2, Zenon DEF Roles, Stages
  <2>6. Service \in Actors /\ Owner \in Actors
    BY DEF Actors
  <2>7. Steady(Service)' /\ Steady(Owner)'
    BY <1>1, <2>2, <2>3, <2>6, SteadyKept DEF Steady
  <2>8. Hand(Service)' = Hand(Service) /\ Hand(Owner)' = Hand(Owner) /\ Made' = Made
    BY <1>1 DEF Hand, Made
  <2>9. OnePlace'
    BY <1>1, <2>2, <2>4, <2>8, Zenon DEF OnePlace
  <2>10. Reading' = Reading /\ Handled' = Handled /\ \A z : Number(z)' = Number(z)
    BY <1>1 DEF Reading, Handled, Number
  <2>11. Ordered'
    BY <1>1, <2>2, <2>4, <2>10, Zenon DEF Ordered
  <2> QED
    BY <2>5, <2>7, <2>9, <2>11 DEF LiveInv
<1> QED
  BY <1>2, <1>3, <1>4

(* netif_send() gives up after the last try, and hf_uudp_send() starts     *)
(* again from the first one; arp_index goes round.                         *)
LEMMA TriesKept ==
    ASSUME EndpointInv, OutputInv, [Next]_vars
    PROVE  TriesBounded'
<1>1. /\ sending \in [Senders -> [pc : SendPlaces, tries : Nat, entry : Int, done : Nat]]
      /\ UUDP_RETRIES \in Nat /\ ARP_CACHE_SIZE \in Nat \ {0} /\ arp_index \in Entries
      /\ \A t \in Senders : sending[t].tries <= UUDP_RETRIES + (IF sending[t].pc = "unlock" THEN 1 ELSE 0)
  BY NetAssumption DEF OutputInv, OutputType, EndpointInv, TriesBounded
<1>2. CASE arp' = arp /\ sending' = sending
  BY <1>1, <1>2 DEF TriesBounded, arp
<1>3. CASE \E host \in Hosts : arp_update(host)
  <2>1. sending' = sending /\ (arp_index' = arp_index \/ arp_index' = (arp_index + 1) % ARP_CACHE_SIZE)
    BY <1>3 DEF arp_update, output, arp
  <2>2. (arp_index + 1) % ARP_CACHE_SIZE \in Entries
    BY <1>1 DEF Entries
  <2> QED
    BY <1>1, <2>1, <2>2 DEF TriesBounded
<1>4. CASE arp_mac
  <2>1. sending' = sending /\ arp_index' = arp_index
    BY <1>4 DEF arp_mac, output
  <2> QED
    BY <1>1, <2>1 DEF TriesBounded
<1>5. ASSUME NEW t \in Senders, SendStep(t) PROVE TriesBounded'
  <2>1. arp_index' = arp_index
    BY <1>5 DEF SendStep, hf_uudp_send, send_copy, udp_out, netif_send, en_ll_output, send_return, arp
  <2>2. PICK r : r = sending[t]
    OBVIOUS
  <2>3. r \in [pc : SendPlaces, tries : Nat, entry : Int, done : Nat]
        /\ r.tries <= UUDP_RETRIES + (IF r.pc = "unlock" THEN 1 ELSE 0)
    BY <1>1, <2>2
  <2>4. PICK w : sending' = [sending EXCEPT ![t] = w] /\ w.tries <= UUDP_RETRIES + (IF w.pc = "unlock" THEN 1 ELSE 0)
    <3>1. CASE hf_uudp_send(t) \/ send_copy(t) \/ udp_out(t) \/ en_ll_output(t)
      <4>1. PICK pc \in {"copy", "out", "check", "unlock"} : sending' = [sending EXCEPT ![t].pc = pc]
        BY <3>1 DEF hf_uudp_send, send_copy, udp_out, en_ll_output, SendGoto
      <4>2. r.pc # "unlock"
        BY <2>2, <3>1 DEF hf_uudp_send, send_copy, udp_out, en_ll_output, Sending
      <4>3. PICK w : w = [r EXCEPT !.pc = pc]
        OBVIOUS
      <4>4. w.tries = r.tries
        BY <2>3, <4>3
      <4>5. r.tries <= UUDP_RETRIES /\ r.tries \in Nat
        BY <2>3, <4>2, <1>1
      <4>6. r.tries <= UUDP_RETRIES + (IF w.pc = "unlock" THEN 1 ELSE 0)
        BY <1>1, <4>5
      <4>7. sending' = [sending EXCEPT ![t] = w]
        BY <1>1, <2>2, <4>1, <4>3
      <4> QED
        BY <4>4, <4>6, <4>7
    <3>2. CASE netif_send(t)
      <4>1. r.pc = "check"
        BY <2>2, <3>2 DEF netif_send, Sending
      <4>2. r.tries <= UUDP_RETRIES /\ r.tries \in Nat
        BY <1>1, <2>3, <4>1
      <4>3. \/ \E i \in Entries : sending' = [sending EXCEPT ![t].pc = "mac", ![t].entry = i]
            \/ sending' = [sending EXCEPT ![t].pc = IF r.tries < UUDP_RETRIES THEN "out" ELSE "unlock",
                                          ![t].tries = @ + 1]
        BY <2>2, <3>2 DEF netif_send
      <4>4. CASE \E i \in Entries : sending' = [sending EXCEPT ![t].pc = "mac", ![t].entry = i]
        <5>1. PICK i : sending' = [sending EXCEPT ![t].pc = "mac", ![t].entry = i]
          BY <4>4
        <5>2. PICK w : w = [r EXCEPT !.pc = "mac", !.entry = i]
          OBVIOUS
        <5>3. w.tries = r.tries /\ w.pc = "mac"
          BY <2>3, <5>2
        <5>4. r.tries <= UUDP_RETRIES + 0
          BY <1>1, <4>2
        <5>5. sending' = [sending EXCEPT ![t] = w]
          BY <1>1, <2>2, <5>1, <5>2
        <5> QED
          BY <5>3, <5>4, <5>5
      <4>5. CASE sending' = [sending EXCEPT ![t].pc = IF r.tries < UUDP_RETRIES THEN "out" ELSE "unlock",
                                            ![t].tries = @ + 1]
        <5>1. PICK pc : pc = IF r.tries < UUDP_RETRIES THEN "out" ELSE "unlock"
          OBVIOUS
        <5>2. PICK w : w = [r EXCEPT !.pc = pc, !.tries = r.tries + 1]
          OBVIOUS
        <5>3. w.tries = r.tries + 1 /\ w.pc = pc
          BY <2>3, <5>2
        <5>4. r.tries + 1 <= UUDP_RETRIES + (IF pc = "unlock" THEN 1 ELSE 0)
          BY <1>1, <4>2, <5>1
        <5>5. sending' = [sending EXCEPT ![t] = w]
          BY <1>1, <2>2, <4>5, <5>1, <5>2
        <5> QED
          BY <5>3, <5>4, <5>5
      <4> QED
        BY <4>3, <4>4, <4>5
    <3>3. CASE send_return(t)
      <4>1. PICK w : w = [pc |-> "idle", tries |-> 0, entry |-> 0, done |-> r.done + 1]
        OBVIOUS
      <4>2. sending' = [sending EXCEPT ![t] = w] /\ w.tries = 0 /\ w.pc = "idle"
        BY <1>1, <2>2, <3>3, <4>1 DEF send_return
      <4>3. 0 <= UUDP_RETRIES + 0
        BY <1>1
      <4> QED
        BY <4>2, <4>3
    <3> QED
      BY <1>5, <3>1, <3>2, <3>3 DEF SendStep
  <2>5. \A u \in Senders : sending'[u] = IF u = t THEN w ELSE sending[u]
    BY <1>1, <2>4
  <2> QED
    BY <1>1, <2>1, <2>4, <2>5 DEF TriesBounded
<1>6. CASE EndpointStep
  <2>1. Apart
    BY <1>6, EndpointApart DEF OutputInv
  <2> QED
    BY <1>2, <2>1 DEF Apart, output, arp
<1>7. CASE UNCHANGED vars
  BY <1>2, <1>7 DEF vars, output
<1> QED
  BY <1>3, <1>4, <1>5, <1>6, <1>7 DEF Next, EndpointStep, SendStep

LEMMA LockKept ==
    ASSUME EndpointInv, OutputInv, [Next]_vars
    PROVE  LockType'
<1>1. uudplock' = uudplock \/ uudplock' = TRUE \/ uudplock' = FALSE
  BY EndpointApart, Zenon DEF OutputInv, Apart, EndpointStep, output, vars, Next, arp_mac, arp_update, hf_uudp_send,
     send_copy, udp_out, netif_send, en_ll_output, send_return
<1> QED
  BY <1>1 DEF EndpointInv, LockType

LEMMA EndpointInit == Init => EndpointInv
<1> SUFFICES ASSUME Init PROVE EndpointInv
  OBVIOUS
<1>0. QSize \in Nat \ {0} /\ MaxDatagrams \in Nat /\ UUDP_RETRIES \in Nat /\ ARP_CACHE_SIZE \in Nat \ {0}
  BY NetAssumption
<1>1. /\ life = "none" /\ list = FALSE /\ queues = << >> /\ content = [b \in Buffers |-> 0]
      /\ act = [a \in {Service, Owner} |-> Idle] /\ arrived = 0 /\ received = 0 /\ leaked = {} /\ wild = {} /\ arp_index = 0
  BY DEF Init
<1>2. Idle.pc = "idle" /\ Idle.buf = 0 /\ Idle.n = 0 /\ act[Service] = Idle /\ act[Owner] = Idle
  BY <1>1 DEF Idle
<1>3. DOMAIN queues = {} /\ queues \in [DOMAIN queues -> Ring]
  BY <1>1
<1>4. EndpointType
  <2>1. act \in [{Service, Owner} -> Doing]
    BY <1>1, IdleType
  <2>2. 0 \in -1..(2 * Oversize) /\ arrived \in 0..MaxDatagrams /\ received \in Int
    BY <1>0, <1>1 DEF Oversize
  <2>3. content \in [Buffers -> -1..(2 * Oversize)]
    BY <1>1, <2>2
  <2> QED
    BY <1>1, <1>2, <1>3, <2>1, <2>2, <2>3 DEF EndpointType
<1>5. TriesBounded
  <2>1. 0 \in Entries /\ \A t \in Senders : sending[t].tries = 0 /\ sending[t].pc = "idle"
    BY <1>0 DEF Init, Entries
  <2>2. 0 <= UUDP_RETRIES + 0
    BY <1>0
  <2> QED
    BY <1>1, <2>1, <2>2 DEF TriesBounded
<1>6. QueuesThere /\ Filling /\ LockType
  BY <1>1, <1>2 DEF QueuesThere, Filling, LockType, Init
<1>7. LiveInv
  <2>1. Roles /\ Stages
    BY <1>1, <1>2, <1>3 DEF Roles, Stages, Removing, Adding
  <2>2. Steady(Service) /\ Steady(Owner)
    BY <1>2 DEF Steady, InHand, Removing, Adding
  <2>3. Free = << >> /\ Packets = << >> /\ Hand(Service) = {} /\ Hand(Owner) = {} /\ Made = {} /\ ~Reading /\ ~Handled
    BY <1>1, <1>2, <1>3 DEF Free, Packets, Waiting, Hand, InHand, Made, Reading, Handled, Removing
  <2>4. Elements(<< >>) = {} /\ Distinct(<< >>)
    BY DEF Elements, Distinct
  <2>5. OnePlace
    BY <1>1, <2>3, <2>4 DEF OnePlace, Split
  <2>6. 1..Len(<< >>) = {} /\ 0 <= 0 /\ 0 >= 0
    OBVIOUS
  <2>7. Ordered
    BY <1>1, <1>2, <2>3, <2>6 DEF Ordered
  <2> QED
    BY <2>1, <2>2, <2>5, <2>7 DEF LiveInv
<1> QED
  BY <1>4, <1>5, <1>6, <1>7 DEF EndpointInv

LEMMA EndpointNext == EndpointInv /\ OutputInv /\ [Next]_vars => EndpointInv'
<1> SUFFICES ASSUME EndpointInv, OutputInv, [Next]_vars PROVE EndpointInv'
  OBVIOUS
<1>1. TriesBounded' /\ LockType'
  BY TriesKept, LockKept
<1>2. Service \in Actors /\ Owner \in Actors /\ EndpointType
  BY DEF Actors, EndpointInv
<1>3. CASE QueueStep(Service) \/ QueueStep(Owner) \/ ServiceStep \/ OwnerStep
  <2>1. /\ wild = {} /\ (Live' => Live) /\ Filling'
        /\ life' = "ready" => life = "ready" \/ wild' = {}
    BY <1>3, StaysDead, FillingKept
  <2>2. EndpointType'
    BY <1>2, <1>3, TypeQueue, TypeService, TypeOwner
  <2>3. Live' => LiveInv'
    BY <1>2, <1>3, <2>1, QueueLive, ServiceLive, OwnerLive DEF Live
  <2>4. QueuesThere'
    <3>1. CASE life' # "ready"
      BY <3>1 DEF QueuesThere
    <3>2. CASE wild' = {}
      BY <3>2 DEF QueuesThere
    <3>3. CASE life = "ready"
      <4>1. Live
        BY <2>1, <3>3 DEF Live
      <4>2. wild' \in {{}, {"null"}}
        BY <1>2, <1>3, <3>3, <4>1, QueueLive, ServiceLive, OwnerLive
      <4> QED
        BY <4>2 DEF QueuesThere
    <3> QED
      BY <2>1, <3>1, <3>2, <3>3
  <2> QED
    BY <1>1, <2>1, <2>2, <2>3, <2>4 DEF EndpointInv
<1>4. CASE UNCHANGED vars \/ \E t \in Senders : SendStep(t)
  <2>1. KeepEndpoint
    BY <1>4 DEF vars, KeepEndpoint, SendStep, hf_uudp_send, send_copy, udp_out, netif_send, en_ll_output, send_return
  <2> QED
    BY <1>1, <2>1, NothingHappens DEF EndpointInv
<1> QED
  BY <1>3, <1>4 DEF Next, SendStep, ServiceStep, OwnerStep

-----------------------------------------------------------------------------
(* What the invariant says of the places of a buffer. *)

LEMMA InLine ==
    ASSUME EndpointType, NEW q \in DOMAIN queues
    PROVE  /\ Used(q) = Len(Waiting(q)) /\ Len(Waiting(q)) \in 0..QSize
           /\ \A i \in 1..Len(Waiting(q)) : Nth(q, i) = Waiting(q)[i]
           /\ \A i : (i \in Buffers /\ i <= Used(q)) <=> i \in 1..Len(Waiting(q))
<1>1. PICK r : r = queues[q]
  OBVIOUS
<1>2. r \in Ring /\ Waiting(q) = Line(r)
  BY <1>1 DEF EndpointType, Waiting
<1>3. r.head \in Cells /\ r.tail \in Cells
  BY <1>2 DEF Ring
<1>4. PICK n : n = (r.tail - r.head) % (QSize + 1)
  OBVIOUS
<1>5. n = Len(Line(r)) /\ n \in 0..QSize
  BY <1>2, <1>3, <1>4, Ends, LineIs
<1>6. Line(r) = [i \in 1..n |-> r.data[(r.head + i - 1) % (QSize + 1)]]
  BY <1>4 DEF Line
<1>7. \A i \in 1..n : Line(r)[i] = r.data[(r.head + i - 1) % (QSize + 1)]
  BY <1>6
<1>8. Used(q) = n /\ \A i : Nth(q, i) = r.data[(r.head + i - 1) % (QSize + 1)]
  BY <1>1, <1>4 DEF Used, Nth, Cell
<1>9. \A i : (i \in Buffers /\ i <= n) <=> i \in 1..n
  BY <1>5, NetAssumption DEF Buffers
<1> QED
  BY <1>2, <1>5, <1>7, <1>8, <1>9

LEMMA InPlaces ==
    ASSUME EndpointInv, life = "ready", wild = {}, NEW b \in Buffers, NEW p
    PROVE  p \in Places(b) <=> \/ \E q \in Both : \E i \in 1..Len(Waiting(q)) : p = <<q, i>> /\ Waiting(q)[i] = b
                               \/ \E a \in Actors : p = <<a, 0>> /\ b \in Hand(a)
<1>1. Live /\ EndpointType /\ Stages /\ Steady(Service) /\ Steady(Owner)
  BY LiveFacts DEF Live
<1>2. DOMAIN queues = Both
  BY <1>1 DEF Stages
<1>3. PICK S, T : /\ S = {x \in (DOMAIN queues) \X Buffers : x[2] <= Used(x[1]) /\ Nth(x[1], x[2]) = b}
                  /\ T = {<<a, 0>> : a \in {c \in {Service, Owner} : act[c].buf = b /\ ~At(c, "rem_head")}}
  OBVIOUS
<1>4. Places(b) = S \cup T
  BY <1>3 DEF Places
<1>5. p \in S <=> \E q \in Both : \E i \in 1..Len(Waiting(q)) : p = <<q, i>> /\ Waiting(q)[i] = b
  <2>1. p \in S <=> \E q \in Both : \E i \in Buffers : p = <<q, i>> /\ i <= Used(q) /\ Nth(q, i) = b
    BY <1>2, <1>3
  <2>2. \A q \in Both : /\ \A i \in 1..Len(Waiting(q)) : Nth(q, i) = Waiting(q)[i]
                        /\ \A i : (i \in Buffers /\ i <= Used(q)) <=> i \in 1..Len(Waiting(q))
    BY <1>1, <1>2, InLine
  <2> QED
    BY <2>1, <2>2, Zenon
<1>6. \A a \in Actors : b \in Hand(a) <=> act[a].buf = b /\ ~At(a, "rem_head")
  <2> SUFFICES ASSUME NEW a \in Actors PROVE b \in Hand(a) <=> act[a].buf = b /\ ~At(a, "rem_head")
    OBVIOUS
  <2>1. b # 0
    BY NetAssumption DEF Buffers
  <2>2. Steady(a)
    BY <1>1 DEF Actors
  <2>3. "rem_head" \notin InHand
    BY DEF InHand
  <2> QED
    BY <2>1, <2>2, <2>3, Zenon DEF Hand, Steady, At
<1>7. p \in T <=> \E a \in Actors : p = <<a, 0>> /\ b \in Hand(a)
  BY <1>3, <1>6, Zenon DEF Actors
<1> QED
  BY <1>4, <1>5, <1>7

LEMMA BuffersSound ==
    ASSUME EndpointInv
    PROVE  BuffersSafe
<1> SUFFICES ASSUME life = "ready", wild = {}, NEW b \in Buffers
             PROVE  IF b \in leaked THEN Places(b) = {} /\ content[b] >= Oversize ELSE Cardinality(Places(b)) = 1
  BY DEF BuffersSafe
<1>1. Live /\ OnePlace
  BY LiveFacts DEF Live
<1>2. /\ Distinct(Free) /\ Distinct(Packets) /\ (\A x \in leaked : content[x] >= Oversize)
      /\ Split(Elements(Free), Elements(Packets), Hand(Service), Hand(Owner), leaked, Buffers)
  BY <1>1 DEF OnePlace, Made
<1>3. /\ \A i \in 1..Len(Free) : Free[i] \in Elements(Free)
      /\ \A i \in 1..Len(Packets) : Packets[i] \in Elements(Packets)
  BY DEF Elements
<1>4. \A p : p \in Places(b) <=> \/ \E q \in Both : \E i \in 1..Len(Waiting(q)) : p = <<q, i>> /\ Waiting(q)[i] = b
                                 \/ \E a \in Actors : p = <<a, 0>> /\ b \in Hand(a)
  BY InPlaces
<1>5. \A p \in Places(b) : \/ \E i \in 1..Len(Free) : p = <<"free_buffers", i>> /\ Free[i] = b /\ b \in Elements(Free)
                           \/ \E i \in 1..Len(Packets) : p = <<"pkt_queue", i>> /\ Packets[i] = b /\ b \in Elements(Packets)
                           \/ p = <<Service, 0>> /\ b \in Hand(Service)
                           \/ p = <<Owner, 0>> /\ b \in Hand(Owner)
  <2> SUFFICES ASSUME NEW p \in Places(b)
               PROVE  \/ \E i \in 1..Len(Free) : p = <<"free_buffers", i>> /\ Free[i] = b /\ b \in Elements(Free)
                      \/ \E i \in 1..Len(Packets) : p = <<"pkt_queue", i>> /\ Packets[i] = b /\ b \in Elements(Packets)
                      \/ p = <<Service, 0>> /\ b \in Hand(Service)
                      \/ p = <<Owner, 0>> /\ b \in Hand(Owner)
    OBVIOUS
  <2>1. CASE \E a \in Actors : p = <<a, 0>> /\ b \in Hand(a)
    BY <2>1 DEF Actors
  <2>2. CASE \E q \in Both : \E i \in 1..Len(Waiting(q)) : p = <<q, i>> /\ Waiting(q)[i] = b
    <3>0. PICK q \in Both : \E i \in 1..Len(Waiting(q)) : p = <<q, i>> /\ Waiting(q)[i] = b
      BY <2>2
    <3>1. PICK i \in 1..Len(Waiting(q)) : p = <<q, i>> /\ Waiting(q)[i] = b
      BY <3>0
    <3>2. CASE q = "free_buffers"
      <4>1. i \in 1..Len(Free) /\ p = <<"free_buffers", i>> /\ Free[i] = b
        BY <3>1, <3>2 DEF Free
      <4> QED
        BY <1>3, <4>1
    <3>3. CASE q = "pkt_queue"
      <4>1. i \in 1..Len(Packets) /\ p = <<"pkt_queue", i>> /\ Packets[i] = b
        BY <3>1, <3>3 DEF Packets
      <4> QED
        BY <1>3, <4>1
    <3> QED
      BY <3>2, <3>3 DEF Both
  <2> QED
    BY <1>4, <2>1, <2>2
<1>6. CASE b \in leaked
  <2>1. Places(b) = {}
    BY <1>2, <1>5, <1>6 DEF Split
  <2> QED
    BY <1>2, <1>6, <2>1
<1>7. CASE b \notin leaked
  <2> SUFFICES \E p : Places(b) = {p}
    BY <1>7, FS_Singleton, Zenon
  <2>1. \/ b \in Elements(Free) \/ b \in Elements(Packets) \/ b \in Hand(Service) \/ b \in Hand(Owner)
    BY <1>2, <1>7 DEF Split
  <2>2. CASE b \in Elements(Free)
    <3>1. PICK i \in 1..Len(Free) : Free[i] = b
      BY <2>2 DEF Elements
    <3>2. <<"free_buffers", i>> \in Places(b)
      BY <1>4, <3>1, Zenon DEF Free, Both
    <3>3. b \notin Elements(Packets) /\ b \notin Hand(Service) /\ b \notin Hand(Owner)
      BY <1>2, <2>2 DEF Split
    <3>4. \A p \in Places(b) : p = <<"free_buffers", i>>
      BY <1>2, <1>5, <3>1, <3>3 DEF Distinct
    <3> QED
      BY <3>2, <3>4
  <2>3. CASE b \in Elements(Packets)
    <3>1. PICK i \in 1..Len(Packets) : Packets[i] = b
      BY <2>3 DEF Elements
    <3>2. <<"pkt_queue", i>> \in Places(b)
      BY <1>4, <3>1, Zenon DEF Packets, Both
    <3>3. b \notin Elements(Free) /\ b \notin Hand(Service) /\ b \notin Hand(Owner)
      BY <1>2, <2>3 DEF Split
    <3>4. \A p \in Places(b) : p = <<"pkt_queue", i>>
      BY <1>2, <1>5, <3>1, <3>3 DEF Distinct
    <3> QED
      BY <3>2, <3>4
  <2>4. CASE b \in Hand(Service)
    <3>1. <<Service, 0>> \in Places(b)
      BY <1>4, <2>4, Zenon DEF Actors
    <3>2. b \notin Elements(Free) /\ b \notin Elements(Packets) /\ b \notin Hand(Owner)
      BY <1>2, <2>4 DEF Split
    <3> QED
      BY <1>5, <3>1, <3>2
  <2>5. CASE b \in Hand(Owner)
    <3>1. <<Owner, 0>> \in Places(b)
      BY <1>4, <2>5, Zenon DEF Actors
    <3>2. b \notin Elements(Free) /\ b \notin Elements(Packets) /\ b \notin Hand(Service)
      BY <1>2, <2>5 DEF Split
    <3> QED
      BY <1>5, <3>1, <3>2, SMTT(30)
  <2> QED
    BY <2>1, <2>2, <2>3, <2>4, <2>5
<1> QED
  BY <1>6, <1>7

LEMMA TypesSound ==
    ASSUME EndpointInv, OutputInv
    PROVE  TypeOK
<1>1. EndpointType /\ TriesBounded /\ LockType /\ OutputType
  BY DEF EndpointInv, OutputInv
<1>2. \A q \in DOMAIN queues : queues[q].head \in Cells /\ queues[q].tail \in Cells /\ queues[q].elem \in Int
  <2>1. \A q \in DOMAIN queues : queues[q] \in Ring
    BY <1>1 DEF EndpointType
  <2> QED
    BY <2>1 DEF Ring
<1>3. \A b \in Buffers : content[b] \in -1..(2 * Oversize)
  BY <1>1 DEF EndpointType
<1>4. \A i \in Entries : arp_cache[i].ip \in Hosts \cup {Nobody}
  BY <1>1 DEF OutputType, Address
<1>5. \A t \in Senders : sending[t].tries \in 0..(UUDP_RETRIES + 1)
  <2> SUFFICES ASSUME NEW t \in Senders PROVE sending[t].tries \in 0..(UUDP_RETRIES + 1)
    OBVIOUS
  <2>1. sending[t].tries \in Nat /\ UUDP_RETRIES \in Nat
    BY <1>1, NetAssumption DEF OutputType
  <2>2. sending[t].tries <= UUDP_RETRIES + (IF sending[t].pc = "unlock" THEN 1 ELSE 0)
    BY <1>1 DEF TriesBounded
  <2>3. sending[t].tries <= UUDP_RETRIES + 1
    BY <2>1, <2>2
  <2> QED
    BY <2>1, <2>3
<1> QED
  BY <1>1, <1>2, <1>3, <1>4, <1>5, Zenon DEF TypeOK, EndpointType, LockType, TriesBounded, Both

LEMMA OrderSound ==
    ASSUME EndpointInv
    PROVE  InOrder
<1> SUFFICES ASSUME life = "ready", wild = {}
             PROVE  LET N(i) == content[Nth("pkt_queue", i)] % Oversize
                        n == Used("pkt_queue")
                    IN /\ \A i \in 1..(n - 1) : N(i) < N(i + 1)
                       /\ n > 0 => received < N(1) /\ N(n) <= arrived
  BY DEF InOrder
<1>1. Live /\ Ordered /\ EndpointType /\ Stages
  BY LiveFacts DEF Live
<1>2. "pkt_queue" \in DOMAIN queues
  BY <1>1 DEF Stages, Both
<1>3. PICK n : n = Len(Packets)
  OBVIOUS
<1>4. Used("pkt_queue") = n /\ n \in 0..QSize /\ \A i \in 1..n : Nth("pkt_queue", i) = Packets[i]
  BY <1>1, <1>2, <1>3, InLine DEF Packets
<1>5. n \in Nat
  BY <1>4, NetAssumption
<1>6. /\ \A i \in 1..(n - 1) : i \in 1..n /\ i + 1 \in 1..n /\ i < i + 1
      /\ n > 0 => 1 \in 1..n /\ n \in 1..n
  BY <1>5
<1>7. \A i \in 1..n : content[Nth("pkt_queue", i)] % Oversize = Number(Packets[i])
  BY <1>4 DEF Number
<1>8. \A i, j \in 1..n : i < j => Number(Packets[i]) < Number(Packets[j])
  BY <1>1, <1>3, Zenon DEF Ordered
<1>9. \A i \in 1..n : received < Number(Packets[i]) /\ Number(Packets[i]) <= arrived
  BY <1>1, <1>3, Zenon DEF Ordered
<1> QED
  BY <1>4, <1>6, <1>7, <1>8, <1>9, Zenon

-----------------------------------------------------------------------------
LEMMA EndpointAlways == Spec => [](EndpointInv /\ OutputInv)
<1>1. EndpointInv /\ OutputInv /\ [Next]_vars => (EndpointInv /\ OutputInv)'
  BY EndpointNext, OutputNext
<1> QED
  BY EndpointInit, OutputInit, <1>1, PTL DEF Spec

(* Whatever interleaving of the service task and of the owner: while the   *)
(* endpoint is in use every buffer is in one place, a queue or the hands   *)
(* of a task, or was lost to a datagram that hf_uudp_recv() refused, and   *)
(* no missing queue and no freed buffer is used (udp_callback,             *)
(* hf_uudp_recv, hf_queue_addtail, hf_queue_remhead; no lock).             *)
THEOREM NetEndpointSafe == Spec => []EndpointSafe
<1>1. EndpointInv /\ OutputInv => EndpointSafe
  BY TypesSound, BuffersSound DEF EndpointSafe, EndpointInv
<1> QED
  BY EndpointAlways, <1>1, PTL

(* Datagrams come out of hf_uudp_recv() in the order in which they         *)
(* arrived, each once: the packets that wait are newer than what was       *)
(* received, and in order.                                                 *)
THEOREM NetInOrder == Spec => []InOrder
<1>1. EndpointInv /\ OutputInv => InOrder
  BY OrderSound
<1> QED
  BY EndpointAlways, <1>1, PTL
=============================================================================
