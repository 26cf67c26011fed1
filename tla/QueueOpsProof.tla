--------------------------- MODULE QueueOpsProof ---------------------------
(***************************************************************************)
(* What the loops over the kernel's queues preserve, for every queue: none *)
(* of them loses, doubles or invents a task.                               *)
(***************************************************************************)
EXTENDS QueueOps, Functions, WellFoundedInduction, TLAPS

(* Every non-empty set of naturals has a least element. *)
LEMMA NatMin ==
    ASSUME NEW S \in SUBSET Nat, S # {}
    PROVE  \E m \in S : \A k \in S : m <= k
<1> DEFINE R == {ss \in Nat \X Nat : ss[1] < ss[2]}
<1>1. IsWellFoundedOn(R, Nat)
  BY NatLessThanWellFounded DEF OpToRel
<1> HIDE DEF R
<1>2. PICK m \in S : \A k \in S : ~(<<k, m>> \in R)
  BY <1>1, WFMin
<1>3. \A k \in S : m <= k
  <2> TAKE k \in S
  <2>1. k \in Nat /\ m \in Nat /\ <<k, m>> \notin R
    BY <1>2
  <2>2. \A a, b \in Nat : a < b => <<a, b>> \in R
    BY DEF R
  <2>3. QED
    BY <2>1, <2>2
<1>4. QED
  BY <1>3

(* Induction over the naturals, for a set. *)
LEMMA NatSetInduction ==
    ASSUME NEW P, 0 \in P, \A n \in Nat : n \in P => n + 1 \in P
    PROVE  \A n \in Nat : n \in P
<1>1. SUFFICES ASSUME NEW n0 \in Nat, n0 \notin P PROVE FALSE
  OBVIOUS
<1> DEFINE S == {n \in Nat : n \notin P}
<1>2. PICK m \in S : \A k \in S : m <= k
  <2>1. S \in SUBSET Nat /\ S # {}
    BY <1>1
  <2>2. QED
    BY <2>1, NatMin
<1>3. m # 0 /\ m - 1 \in Nat /\ (m - 1) + 1 = m
  BY <1>2
<1>4. m - 1 \in P
  BY <1>2, <1>3
<1>5. QED
  BY <1>2, <1>3, <1>4

(***************************************************************************)
(* A queue of distinct members of D.                                       *)
(***************************************************************************)
IsQueue(q, D) == q \in Seq(D) /\ IsInjective(q)

(* A queue given by its length and its places. *)
LEMMA QueueByPlaces ==
    ASSUME NEW D, NEW n \in Nat, NEW q \in [1..n -> D],
           \A i, j \in 1..n : q[i] = q[j] => i = j
    PROVE  IsQueue(q, D) /\ Len(q) = n
BY DEF IsQueue, IsInjective

(* The places of a queue. *)
LEMMA QueuePlaces ==
    ASSUME NEW D, NEW q, IsQueue(q, D)
    PROVE  /\ Len(q) \in Nat /\ DOMAIN q = 1..Len(q)
           /\ \A i \in 1..Len(q) : q[i] \in D
           /\ \A i, j \in 1..Len(q) : q[i] = q[j] => i = j
           /\ Range(q) = {q[i] : i \in 1..Len(q)}
           /\ Range(q) \subseteq D
           /\ q = [i \in 1..Len(q) |-> q[i]]
BY DEF IsQueue, IsInjective, Range

(* run_queue_next() and rt_queue_next(): a turn keeps the queue's members. *)
LEMMA RotateKeeps ==
    ASSUME NEW D, NEW q, IsQueue(q, D), NEW n \in 0..Len(q)
    PROVE  /\ IsQueue(Rotate(q, n), D)
           /\ Len(Rotate(q, n)) = Len(q)
           /\ Range(Rotate(q, n)) = Range(q)
<1> DEFINE k == Len(q)
           from(i) == IF i + n <= k THEN i + n ELSE i + n - k
           r == Rotate(q, n)
<1>1. /\ k \in Nat /\ \A i \in 1..k : q[i] \in D
      /\ \A i, j \in 1..k : q[i] = q[j] => i = j
      /\ Range(q) = {q[i] : i \in 1..k}
  BY QueuePlaces
<1>2. r = [i \in 1..k |-> q[from(i)]] /\ DOMAIN r = 1..k
  BY DEF Rotate
<1>3. \A i \in 1..k : from(i) \in 1..k
  BY <1>1
<1>4. \A i, j \in 1..k : from(i) = from(j) => i = j
  BY <1>1
<1>5. \A i \in 1..k : \E j \in 1..k : from(j) = i
  <2> TAKE i \in 1..k
  <2>1. CASE i > n
    <3>1. i - n \in 1..k /\ from(i - n) = i
      BY <1>1, <2>1
    <3>2. QED
      BY <3>1
  <2>2. CASE i <= n
    <3>1. i - n + k \in 1..k /\ from(i - n + k) = i
      BY <1>1, <2>2
    <3>2. QED
      BY <3>1
  <2>3. QED
    BY <1>1, <2>1, <2>2
<1>6. \A i \in 1..k : r[i] = q[from(i)]
  BY <1>2
<1> HIDE DEF from, r
<1>7. IsQueue(r, D) /\ Len(r) = k
  <2>1. \A i \in 1..k : r[i] \in D
    BY <1>1, <1>3, <1>6
  <2>2. \A i, j \in 1..k : r[i] = r[j] => i = j
    BY <1>1, <1>3, <1>4, <1>6
  <2>3. r \in [1..k -> D]
    BY <1>2, <1>6, <2>1
  <2>4. QED
    BY <1>1, <2>2, <2>3, QueueByPlaces
<1>8. Range(r) = Range(q)
  <2>1. Range(r) = {r[i] : i \in 1..k}
    BY <1>2 DEF Range
  <2>2. ASSUME NEW x \in Range(r) PROVE x \in Range(q)
    BY <1>1, <1>3, <1>6, <2>1, <2>2
  <2>3. ASSUME NEW x \in Range(q) PROVE x \in Range(r)
    <3>1. PICK i \in 1..k : x = q[i]
      BY <1>1, <2>3
    <3>2. PICK j \in 1..k : from(j) = i
      BY <1>5
    <3>3. x = r[j]
      BY <1>6, <3>1, <3>2
    <3>4. QED
      BY <2>1, <3>3
  <2>4. QED
    BY <2>2, <2>3
<1>9. QED
  BY <1>7, <1>8 DEF r

(* Adding a task that is not in the queue. *)
LEMMA AppendAdds ==
    ASSUME NEW D, NEW q, IsQueue(q, D), NEW t \in D, t \notin Range(q)
    PROVE  /\ IsQueue(Append(q, t), D)
           /\ Range(Append(q, t)) = Range(q) \cup {t}
<1> DEFINE k == Len(q)
           r == Append(q, t)
<1>1. /\ k \in Nat /\ \A i \in 1..k : q[i] \in D
      /\ \A i, j \in 1..k : q[i] = q[j] => i = j
      /\ Range(q) = {q[i] : i \in 1..k} /\ q \in Seq(D)
  BY QueuePlaces DEF IsQueue
<1>2. /\ r \in Seq(D) /\ Len(r) = k + 1 /\ DOMAIN r = 1..(k + 1)
      /\ \A i \in 1..k : r[i] = q[i] /\ r[k + 1] = t
  BY <1>1
<1>3. r[k + 1] = t
  BY <1>1
<1> HIDE DEF r
<1>4. \A i \in 1..(k + 1) : i \in 1..k \/ i = k + 1
  BY <1>1
<1>5. \A i \in 1..k : i \in 1..(k + 1) /\ q[i] # t /\ i # k + 1
  BY <1>1
<1>6. \A i, j \in 1..(k + 1) : r[i] = r[j] => i = j
  BY <1>1, <1>2, <1>3, <1>4, <1>5
<1>7. IsQueue(r, D)
  BY <1>2, <1>6 DEF IsQueue, IsInjective
<1>8. Range(r) = {r[i] : i \in 1..(k + 1)}
  BY <1>2 DEF Range
<1>9. ASSUME NEW x \in Range(r) PROVE x \in Range(q) \cup {t}
  BY <1>1, <1>2, <1>3, <1>4, <1>8, <1>9
<1>10. k + 1 \in 1..(k + 1)
  BY <1>1
<1>11. ASSUME NEW x \in Range(q) \cup {t} PROVE x \in Range(r)
  <2>1. CASE x = t
    BY <1>3, <1>8, <1>10, <2>1
  <2>2. CASE x \in Range(q)
    BY <1>1, <1>2, <1>5, <1>8, <2>2
  <2>3. QED
    BY <1>11, <2>1, <2>2
<1>12. QED
  BY <1>7, <1>9, <1>11 DEF r

(* Two queues without a common task, one behind the other. *)
LEMMA ConcatJoins ==
    ASSUME NEW D, NEW p, IsQueue(p, D), NEW q, IsQueue(q, D),
           Range(p) \cap Range(q) = {}
    PROVE  /\ IsQueue(p \o q, D)
           /\ Range(p \o q) = Range(p) \cup Range(q)
<1> DEFINE k == Len(p)
           l == Len(q)
           r == p \o q
<1>1. /\ k \in Nat /\ \A i, j \in 1..k : p[i] = p[j] => i = j
      /\ Range(p) = {p[i] : i \in 1..k} /\ p \in Seq(D)
  BY QueuePlaces DEF IsQueue
<1>2. /\ l \in Nat /\ \A i, j \in 1..l : q[i] = q[j] => i = j
      /\ Range(q) = {q[i] : i \in 1..l} /\ q \in Seq(D)
  BY QueuePlaces DEF IsQueue
<1>3. /\ r \in Seq(D) /\ Len(r) = k + l /\ DOMAIN r = 1..(k + l)
      /\ \A i \in 1..(k + l) : r[i] = IF i <= k THEN p[i] ELSE q[i - k]
  BY <1>1, <1>2
<1> HIDE DEF r
<1>4. \A i \in 1..(k + l) : (i <= k => i \in 1..k) /\ (~(i <= k) => i - k \in 1..l)
  BY <1>1, <1>2
<1>5. \A i \in 1..k, j \in 1..l : p[i] # q[j]
  BY <1>1, <1>2
<1>6. \A i, j \in 1..(k + l) : r[i] = r[j] => i = j
  <2> TAKE i, j \in 1..(k + l)
  <2>1. CASE i <= k /\ j <= k
    BY <1>1, <1>3, <1>4, <2>1
  <2>2. CASE ~(i <= k) /\ ~(j <= k)
    <3>1. r[i] = q[i - k] /\ r[j] = q[j - k] /\ i - k \in 1..l /\ j - k \in 1..l
      BY <1>3, <1>4, <2>2
    <3>2. r[i] = r[j] => i - k = j - k
      BY <1>2, <3>1
    <3>3. QED
      BY <1>1, <1>2, <3>2
  <2>3. CASE (i <= k) # (j <= k)
    BY <1>3, <1>4, <1>5, <2>3, SMTT(30)
  <2>4. QED
    BY <2>1, <2>2, <2>3
<1>7. IsQueue(r, D)
  BY <1>3, <1>6 DEF IsQueue, IsInjective
<1>8. Range(r) = {r[i] : i \in 1..(k + l)}
  BY <1>3 DEF Range
<1>9. ASSUME NEW x \in Range(r) PROVE x \in Range(p) \cup Range(q)
  BY <1>1, <1>2, <1>3, <1>4, <1>8, <1>9
<1>10. ASSUME NEW x \in Range(p) PROVE x \in Range(r)
  <2>1. PICK i \in 1..k : x = p[i]
    BY <1>1, <1>10
  <2>2. i \in 1..(k + l) /\ r[i] = p[i]
    BY <1>1, <1>2, <1>3
  <2>3. QED
    BY <1>8, <2>1, <2>2
<1>11. ASSUME NEW x \in Range(q) PROVE x \in Range(r)
  <2>1. PICK i \in 1..l : x = q[i]
    BY <1>2, <1>11
  <2>2. i + k \in 1..(k + l) /\ ~(i + k <= k) /\ (i + k) - k = i
    BY <1>1, <1>2
  <2>3. r[i + k] = q[i]
    BY <1>3, <2>2
  <2>4. QED
    BY <1>8, <2>1, <2>2, <2>3
<1>12. QED
  BY <1>7, <1>9, <1>10, <1>11 DEF r

(* The search-and-remove loop of hf_kill() and hf_delay(). *)
LEMMA WithoutRemoves ==
    ASSUME NEW D, NEW q, IsQueue(q, D), NEW t \in Range(q)
    PROVE  /\ IsQueue(Without(q, t), D)
           /\ Range(Without(q, t)) = Range(q) \ {t}
<1> DEFINE k == Len(q)
           m == PositionOf(q, t)
           r == Without(q, t)
           from(i) == IF i < m THEN i ELSE i + 1
<1>1. /\ k \in Nat /\ \A i \in 1..k : q[i] \in D
      /\ \A i, j \in 1..k : q[i] = q[j] => i = j
      /\ Range(q) = {q[i] : i \in 1..k}
  BY QueuePlaces
<1>2. m \in 1..k /\ q[m] = t
  <2>1. \E i \in 1..k : q[i] = t
    BY <1>1
  <2>2. QED
    BY <2>1 DEF PositionOf
<1>3. r = [i \in 1..(k - 1) |-> q[from(i)]]
  BY DEF Without
<1> HIDE DEF m, r
<1>4. /\ k - 1 \in Nat
      /\ \A i \in 1..(k - 1) : from(i) \in 1..k /\ from(i) # m
      /\ \A i, j \in 1..(k - 1) : from(i) = from(j) => i = j
  BY <1>1, <1>2
<1>5. ASSUME NEW i \in 1..k, i # m PROVE \E j \in 1..(k - 1) : from(j) = i
  <2>1. CASE i < m
    <3>1. i \in 1..(k - 1) /\ from(i) = i
      BY <1>1, <1>2, <2>1
    <3>2. QED
      BY <3>1
  <2>2. CASE i > m
    <3>1. i - 1 \in 1..(k - 1) /\ from(i - 1) = i
      BY <1>1, <1>2, <2>2
    <3>2. QED
      BY <3>1
  <2>3. QED
    BY <1>1, <1>2, <1>5, <2>1, <2>2
<1> HIDE DEF from
<1>6. \A i \in 1..(k - 1) : r[i] = q[from(i)] /\ r[i] # t
  BY <1>1, <1>2, <1>3, <1>4
<1>7. r \in [1..(k - 1) -> D]
  BY <1>1, <1>3, <1>4
<1>8. \A i, j \in 1..(k - 1) : r[i] = r[j] => i = j
  BY <1>1, <1>4, <1>6
<1>9. IsQueue(r, D)
  BY <1>4, <1>7, <1>8, QueueByPlaces
<1>10. Range(r) = {r[i] : i \in 1..(k - 1)}
  BY <1>7 DEF Range
<1>11. ASSUME NEW x \in Range(r) PROVE x \in Range(q) \ {t}
  BY <1>1, <1>4, <1>6, <1>10, <1>11
<1>12. ASSUME NEW x \in Range(q) \ {t} PROVE x \in Range(r)
  <2>1. PICK i \in 1..k : x = q[i] /\ i # m
    BY <1>1, <1>2, <1>12
  <2>2. PICK j \in 1..(k - 1) : from(j) = i
    BY <1>5, <2>1
  <2>3. QED
    BY <1>6, <1>10, <2>1, <2>2
<1>13. QED
  BY <1>9, <1>11, <1>12 DEF r

(* process_delay_queue() and the like: what stays of a queue is the queue  *)
(* of the members in S.                                                    *)
LEMMA KeepFilters ==
    ASSUME NEW D, NEW q, IsQueue(q, D), NEW S
    PROVE  /\ IsQueue(Keep(q, S), D)
           /\ Range(Keep(q, S)) = Range(q) \cap S
<1> DEFINE k == Len(q)
           turn(f, i) == IF i = 0 THEN << >>
                         ELSE IF q[i] \in S THEN Append(f[i - 1], q[i])
                         ELSE f[i - 1]
           Walk(f, m) == /\ f = [i \in 0..m |-> f[i]]
                         /\ \A i \in 0..m : f[i] = turn(f, i)
           F == CHOOSE f : f = [i \in 0..k |-> turn(f, i)]
<1>1. /\ k \in Nat /\ \A i \in 1..k : q[i] \in D
      /\ \A i, j \in 1..k : q[i] = q[j] => i = j
      /\ Range(q) = {q[i] : i \in 1..k}
  BY QueuePlaces
<1>2. \A m \in Nat : \E f : Walk(f, m)
  <2> DEFINE P == {m \in Nat : \E f : Walk(f, m)}
  <2>1. 0 \in P
    <3> DEFINE g == [i \in 0..0 |-> << >>]
    <3>1. g = [i \in 0..0 |-> g[i]] /\ \A i \in 0..0 : g[i] = turn(g, i)
      OBVIOUS
    <3>2. QED
      BY <3>1
  <2>2. ASSUME NEW m \in Nat, m \in P PROVE m + 1 \in P
    <3>1. PICK f : Walk(f, m)
      BY <2>2
    <3> DEFINE g == [i \in 0..(m + 1) |-> IF i <= m THEN f[i] ELSE turn(f, m + 1)]
    <3>2. \A i \in 0..m : g[i] = f[i] /\ i \in 0..(m + 1)
      OBVIOUS
    <3>3. g = [i \in 0..(m + 1) |-> g[i]]
      OBVIOUS
    <3>4. g[m + 1] = turn(f, m + 1)
      OBVIOUS
    <3> HIDE DEF g
    <3>5. \A i \in 0..(m + 1) : i \in 0..m \/ i = m + 1
      OBVIOUS
    <3>6. \A i \in 0..(m + 1) : i # 0 => i - 1 \in 0..m
      OBVIOUS
    <3>7. ASSUME NEW i \in 0..(m + 1) PROVE g[i] = turn(g, i)
      <4>1. turn(g, i) = turn(f, i)
        BY <3>2, <3>6
      <4>2. QED
        BY <3>1, <3>2, <3>4, <3>5, <4>1
    <3>8. Walk(g, m + 1)
      BY <3>3, <3>7
    <3> HIDE DEF Walk
    <3>9. QED
      BY <3>8
  <2> HIDE DEF P
  <2>3. \A m \in Nat : m \in P
    BY <2>1, <2>2, NatSetInduction
  <2> HIDE DEF Walk
  <2>4. QED
    BY <2>3 DEF P
<1>3. F = [i \in 0..k |-> turn(F, i)]
  <2>1. PICK f : Walk(f, k)
    BY <1>1, <1>2
  <2>2. f = [i \in 0..k |-> turn(f, i)]
    BY <2>1
  <2>3. QED
    BY <2>2
<1>4. Keep(q, S) = F[k]
  BY DEF Keep
<1>5. \A i \in 0..k : F[i] = turn(F, i)
  BY <1>3
<1> HIDE DEF F
<1> DEFINE Sub(i) == {q[j] : j \in 1..i} \cap S
           P == {m \in Nat : m <= k => IsQueue(F[m], D) /\ Range(F[m]) = Sub(m)}
<1>6. 0 \in P
  <2>1. F[0] = << >>
    BY <1>1, <1>5
  <2>2. IsQueue(<< >>, D) /\ Range(<< >>) = {}
    BY DEF IsQueue, IsInjective, Range
  <2>3. Sub(0) = {}
    OBVIOUS
  <2>4. QED
    BY <2>1, <2>2, <2>3
<1>7. ASSUME NEW m \in Nat, m \in P PROVE m + 1 \in P
  <2> SUFFICES ASSUME m + 1 <= k
               PROVE  IsQueue(F[m + 1], D) /\ Range(F[m + 1]) = Sub(m + 1)
    OBVIOUS
  <2>1. m + 1 \in 0..k /\ m + 1 # 0 /\ (m + 1) - 1 = m /\ m <= k /\ m + 1 \in 1..k
    BY <1>1
  <2>2. IsQueue(F[m], D) /\ Range(F[m]) = Sub(m)
    BY <1>7, <2>1
  <2>3. F[m + 1] = IF q[m + 1] \in S THEN Append(F[m], q[m + 1]) ELSE F[m]
    BY <1>5, <2>1
  <2>4. Sub(m + 1) = Sub(m) \cup ({q[m + 1]} \cap S)
    <3>1. 1..(m + 1) = 1..m \cup {m + 1}
      OBVIOUS
    <3>2. QED
      BY <3>1
  <2>5. q[m + 1] \notin Sub(m)
    BY <1>1, <2>1
  <2> HIDE DEF Sub
  <2>6. CASE q[m + 1] \in S
    <3>1. /\ IsQueue(Append(F[m], q[m + 1]), D)
          /\ Range(Append(F[m], q[m + 1])) = Range(F[m]) \cup {q[m + 1]}
      BY <1>1, <2>1, <2>2, <2>5, AppendAdds
    <3>2. QED
      BY <2>2, <2>3, <2>4, <2>6, <3>1
  <2>7. CASE q[m + 1] \notin S
    BY <2>2, <2>3, <2>4, <2>7
  <2>8. QED
    BY <2>6, <2>7
<1> HIDE DEF P
<1>8. k \in P
  BY <1>1, <1>6, <1>7, NatSetInduction
<1>9. IsQueue(F[k], D) /\ Range(F[k]) = Sub(k)
  BY <1>1, <1>8 DEF P
<1>10. QED
  BY <1>1, <1>4, <1>9

(* One comparison of sched_rma() keeps the members of the queue. *)
LEMMA ExchangeKeeps ==
    ASSUME NEW D, NEW q, IsQueue(q, D), NEW i \in Int, NEW j \in 1..Len(q), NEW key,
           i >= 1
    PROVE  /\ IsQueue(Exchange(q, i, j, key), D)
           /\ Len(Exchange(q, i, j, key)) = Len(q)
           /\ Range(Exchange(q, i, j, key)) = Range(q)
<1> DEFINE k == Len(q)
           r == Exchange(q, i, j, key)
           other(n) == IF n = i THEN j ELSE IF n = j THEN i ELSE n
<1>1. /\ k \in Nat /\ DOMAIN q = 1..k /\ \A n \in 1..k : q[n] \in D
      /\ \A m, n \in 1..k : q[m] = q[n] => m = n
      /\ Range(q) = {q[n] : n \in 1..k}
      /\ q = [n \in 1..k |-> q[n]]
  BY QueuePlaces
<1>2. CASE r = q
  BY <1>2
<1>3. CASE i < j /\ r = [q EXCEPT ![i] = q[j], ![j] = q[i]]
  <2>1. i \in 1..k /\ i # j
    BY <1>1, <1>3
  <2>2. \A n \in 1..k : other(n) \in 1..k /\ other(other(n)) = n
    BY <1>1, <2>1
  <2>3. r = [n \in 1..k |-> q[other(n)]]
    BY <1>1, <1>3, <2>1
  <2>4. \A n \in 1..k : r[n] = q[other(n)]
    BY <2>3
  <2> HIDE DEF r, other
  <2>5. \A m, n \in 1..k : r[m] = r[n] => m = n
    <3> TAKE m, n \in 1..k
    <3>1. r[m] = r[n] => other(m) = other(n)
      BY <1>1, <2>2, <2>4
    <3>2. QED
      BY <2>2, <3>1
  <2>6. r \in [1..k -> D]
    BY <1>1, <2>2, <2>3
  <2>7. IsQueue(r, D) /\ Len(r) = k
    BY <1>1, <2>5, <2>6, QueueByPlaces
  <2>8. Range(r) = {r[n] : n \in 1..k}
    BY <2>6 DEF Range
  <2>9. ASSUME NEW x \in Range(r) PROVE x \in Range(q)
    BY <1>1, <2>2, <2>4, <2>8, <2>9
  <2>10. ASSUME NEW x \in Range(q) PROVE x \in Range(r)
    <3>1. PICK n \in 1..k : x = q[n]
      BY <1>1, <2>10
    <3>2. x = r[other(n)] /\ other(n) \in 1..k
      BY <2>2, <2>4, <3>1
    <3>3. QED
      BY <2>8, <3>2
  <2>11. QED
    BY <2>7, <2>9, <2>10 DEF r
<1>4. QED
  BY <1>2, <1>3 DEF Exchange

(* The queue after each turn of the sorting loops of sched_rma(). *)
Turns(F, q, key) ==
    /\ F[0] = q
    /\ ExchangeSort(q, key) = F[Len(q) * Len(q)]
    /\ \A m \in Nat : m + 1 <= Len(q) * Len(q) =>
          F[m + 1] = Exchange(F[m], (m \div Len(q)) + 1, (m % Len(q)) + 1, key)

LEMMA SortTurns ==
    ASSUME NEW D, NEW q, IsQueue(q, D), NEW key
    PROVE  \E F : Turns(F, q, key)
<1> DEFINE k == Len(q)
           I(n) == ((n - 1) \div k) + 1
           J(n) == ((n - 1) % k) + 1
           compare(p, n) == CHOOSE r \in {Exchange(x, I(n), J(n), key) : x \in {p}} : TRUE
           turn(f, n) == IF n = 0 THEN q ELSE compare(f[n - 1], n)
           Walk(f, m) == /\ f = [n \in 0..m |-> f[n]]
                         /\ \A n \in 0..m : f[n] = turn(f, n)
           F == CHOOSE f : f = [n \in 0..(k * k) |-> turn(f, n)]
<1>1. k \in Nat /\ k * k \in Nat
  BY QueuePlaces
<1>2. ExchangeSort(q, key) = F[k * k]
  BY DEF ExchangeSort
<1>3. \A p, n : compare(p, n) = Exchange(p, I(n), J(n), key)
  <2> TAKE p, n
  <2>1. {Exchange(x, I(n), J(n), key) : x \in {p}} = {Exchange(p, I(n), J(n), key)}
    OBVIOUS
  <2>2. QED
    BY <2>1
<1> HIDE DEF compare, I, J
<1>4. \A m \in Nat : \E f : Walk(f, m)
  <2> DEFINE P == {m \in Nat : \E f : Walk(f, m)}
  <2>1. 0 \in P
    <3> DEFINE g == [i \in 0..0 |-> q]
    <3>1. g = [i \in 0..0 |-> g[i]] /\ \A i \in 0..0 : g[i] = turn(g, i)
      OBVIOUS
    <3>2. QED
      BY <3>1
  <2>2. ASSUME NEW m \in Nat, m \in P PROVE m + 1 \in P
    <3>1. PICK f : Walk(f, m)
      BY <2>2
    <3> DEFINE g == [i \in 0..(m + 1) |-> IF i <= m THEN f[i] ELSE turn(f, m + 1)]
    <3>2. \A i \in 0..m : g[i] = f[i] /\ i \in 0..(m + 1)
      OBVIOUS
    <3>3. g = [i \in 0..(m + 1) |-> g[i]]
      OBVIOUS
    <3>4. g[m + 1] = turn(f, m + 1)
      OBVIOUS
    <3> HIDE DEF g
    <3>5. \A i \in 0..(m + 1) : i \in 0..m \/ i = m + 1
      OBVIOUS
    <3>6. \A i \in 0..(m + 1) : i # 0 => i - 1 \in 0..m
      OBVIOUS
    <3>7. ASSUME NEW i \in 0..(m + 1) PROVE g[i] = turn(g, i)
      <4>1. turn(g, i) = turn(f, i)
        BY <3>2, <3>6
      <4>2. QED
        BY <3>1, <3>2, <3>4, <3>5, <4>1
    <3>8. Walk(g, m + 1)
      BY <3>3, <3>7
    <3> HIDE DEF Walk
    <3>9. QED
      BY <3>8
  <2> HIDE DEF P
  <2>3. \A m \in Nat : m \in P
    BY <2>1, <2>2, NatSetInduction
  <2> HIDE DEF Walk
  <2>4. QED
    BY <2>3 DEF P
<1>5. F = [n \in 0..(k * k) |-> turn(F, n)]
  <2>1. PICK f : Walk(f, k * k)
    BY <1>1, <1>4
  <2>2. f = [n \in 0..(k * k) |-> turn(f, n)]
    BY <2>1
  <2>3. QED
    BY <2>2
<1>6. \A n \in 0..(k * k) : F[n] = turn(F, n)
  BY <1>5
<1> HIDE DEF F, turn
<1>7. F[0] = q
  <2>1. 0 \in 0..(k * k)
    BY <1>1
  <2>2. QED
    BY <1>6, <2>1 DEF turn
<1>8. ASSUME NEW m \in Nat, m + 1 <= k * k
      PROVE  F[m + 1] = Exchange(F[m], (m \div k) + 1, (m % k) + 1, key)
  <2>1. m + 1 \in 0..(k * k) /\ m + 1 # 0 /\ (m + 1) - 1 = m
    BY <1>1, <1>8
  <2>2. F[m + 1] = Exchange(F[m], I(m + 1), J(m + 1), key)
    BY <1>3, <1>6, <2>1 DEF turn
  <2>3. QED
    BY <2>1, <2>2 DEF I, J
<1>9. QED
  BY <1>2, <1>7, <1>8 DEF Turns

(* The places that a turn compares. *)
LEMMA TurnPlaces ==
    ASSUME NEW m \in Nat, NEW k \in Nat \ {0}
    PROVE  (m \div k) + 1 \in Int /\ (m \div k) + 1 >= 1 /\ (m % k) + 1 \in 1..k
<1>1. m \div k \in Int /\ m \div k >= 0 /\ m % k \in 0..(k - 1)
  OBVIOUS
<1>2. \A a \in Int, b \in 0..(k - 1) : a >= 0 => a + 1 \in Int /\ a + 1 >= 1 /\ b + 1 \in 1..k
  OBVIOUS
<1>3. QED
  BY <1>1, <1>2, Zenon

(* The sorting loops of sched_rma() keep the members of the queue. *)
LEMMA SortKeeps ==
    ASSUME NEW D, NEW q, IsQueue(q, D), NEW key
    PROVE  /\ IsQueue(ExchangeSort(q, key), D)
           /\ Len(ExchangeSort(q, key)) = Len(q)
           /\ Range(ExchangeSort(q, key)) = Range(q)
<1> DEFINE k == Len(q)
<1>1. k \in Nat /\ k * k \in Nat
  BY QueuePlaces
<1> PICK F : Turns(F, q, key)
  BY SortTurns, Zenon
<1>2. /\ F[0] = q /\ ExchangeSort(q, key) = F[k * k]
      /\ \A m \in Nat : m + 1 <= k * k =>
            F[m + 1] = Exchange(F[m], (m \div k) + 1, (m % k) + 1, key)
  BY DEF Turns
<1> DEFINE Same(p) == IsQueue(p, D) /\ Len(p) = k /\ Range(p) = Range(q)
           P == {m \in Nat : m <= k * k => Same(F[m])}
<1>3. 0 \in P
  BY <1>2
<1>4. ASSUME NEW m \in Nat, m \in P PROVE m + 1 \in P
  <2> SUFFICES ASSUME m + 1 <= k * k PROVE Same(F[m + 1])
    OBVIOUS
  <2>1. m <= k * k /\ k \in Nat \ {0}
    BY <1>1
  <2>2. Same(F[m])
    BY <1>4, <2>1
  <2>3. F[m + 1] = Exchange(F[m], (m \div k) + 1, (m % k) + 1, key)
    BY <1>2
  <2>4. (m \div k) + 1 \in Int /\ (m \div k) + 1 >= 1 /\ (m % k) + 1 \in 1..Len(F[m])
    BY <2>1, <2>2, TurnPlaces
  <2>5. QED
    BY <2>2, <2>3, <2>4, ExchangeKeeps
<1> HIDE DEF P
<1>5. k * k \in P
  BY <1>1, <1>3, <1>4, NatSetInduction
<1>6. QED
  BY <1>1, <1>2, <1>5 DEF P

-----------------------------------------------------------------------------
(* sched_rma() sorts its queue. *)

(* What the loops have established after r rows and c places of the next. *)
Sorted(p, k, r, c, key) ==
    /\ \A a \in 1..r, b \in 1..k : a < b => key[p[a]] <= key[p[b]]
    /\ \A b \in 1..c : r + 1 < b => key[p[r + 1]] <= key[p[b]]

LEMMA DivMod ==
    ASSUME NEW k \in Nat \ {0}, NEW r \in Nat, NEW c \in 0..(k - 1)
    PROVE  (r * k + c) \div k = r /\ (r * k + c) % k = c
OBVIOUS

(* A turn adds a place to its row. *)
LEMMA ExchangeSorts ==
    ASSUME NEW D, NEW p, IsQueue(p, D), NEW key, \A d \in D : key[d] \in Int,
           NEW k, k = Len(p), NEW r \in 0..(k - 1), NEW c \in 0..(k - 1), Sorted(p, k, r, c, key)
    PROVE  Sorted(Exchange(p, r + 1, c + 1, key), k, r, c + 1, key)
<1> DEFINE i == r + 1
           j == c + 1
           s == Exchange(p, i, j, key)
           w(n) == key[p[n]]
           v(n) == key[s[n]]
           other(n) == IF n = i THEN j ELSE IF n = j THEN i ELSE n
<1>1. /\ k \in Nat /\ DOMAIN p = 1..k /\ \A n \in 1..k : p[n] \in D
      /\ p = [n \in 1..k |-> p[n]]
  BY QueuePlaces
<1>2. i \in 1..k /\ j \in 1..k
  BY <1>1
<1>3. \A n \in 1..k : w(n) \in Int
  BY <1>1
<1>4. /\ \A a \in 1..r, b \in 1..k : a < b => w(a) <= w(b)
      /\ \A b \in 1..c : i < b => w(i) <= w(b)
  BY DEF Sorted
<1>5. SUFFICES /\ \A a \in 1..r, b \in 1..k : a < b => v(a) <= v(b)
               /\ \A b \in 1..(c + 1) : i < b => v(i) <= v(b)
  BY DEF Sorted
<1>6. CASE ~(i < j /\ w(i) > w(j))
  <2>1. \A n \in 1..k : v(n) = w(n)
    BY <1>6 DEF Exchange
  <2> HIDE DEF w, v
  <2>2. ASSUME NEW a \in 1..r, NEW b \in 1..k, a < b PROVE v(a) <= v(b)
    <3>1. a \in 1..k
      BY <1>1
    <3>2. QED
      BY <1>4, <2>1, <2>2, <3>1
  <2>3. ASSUME NEW b \in 1..(c + 1), i < b PROVE v(i) <= v(b)
    <3>1. b \in 1..k
      BY <1>1
    <3>2. w(i) <= w(b)
      <4>1. CASE b = j
        BY <1>2, <1>3, <1>6, <2>3, <4>1
      <4>2. CASE b # j
        <5>1. b \in 1..c
          BY <4>2
        <5>2. QED
          BY <1>4, <2>3, <5>1
      <4>3. QED
        BY <4>1, <4>2
    <3>3. QED
      BY <1>2, <2>1, <3>1, <3>2
  <2>4. QED
    BY <2>2, <2>3
<1>7. CASE i < j /\ w(i) > w(j)
  <2>1. s = [p EXCEPT ![i] = p[j], ![j] = p[i]]
    BY <1>7 DEF Exchange
  <2>2. \A n \in 1..k : s[n] = p[other(n)]
    BY <1>1, <1>2, <1>7, <2>1
  <2>3. \A n \in 1..k : v(n) = w(other(n)) /\ other(n) \in 1..k
    BY <1>2, <2>2
  <2> HIDE DEF w, v
  <2>4. ASSUME NEW a \in 1..r, NEW b \in 1..k, a < b PROVE v(a) <= v(b)
    <3>1. a \in 1..k /\ other(a) = a /\ a < other(b)
      BY <1>1, <1>7, <2>4
    <3>2. v(a) = w(a) /\ v(b) = w(other(b)) /\ other(b) \in 1..k
      BY <2>3, <3>1
    <3> HIDE DEF other
    <3>3. QED
      BY <1>4, <3>1, <3>2
  <2>5. ASSUME NEW b \in 1..(c + 1), i < b PROVE v(i) <= v(b)
    <3>1. b \in 1..k /\ other(i) = j
      BY <1>1
    <3>2. v(i) = w(j) /\ v(b) = w(other(b)) /\ other(b) \in 1..k
      BY <1>2, <2>3, <3>1
    <3>3. w(i) \in Int /\ w(j) \in Int /\ w(other(b)) \in Int
      BY <1>2, <1>3, <3>2
    <3>4. w(i) <= w(other(b))
      <4>1. CASE b = j
        <5>1. other(b) = i
          BY <1>7, <4>1
        <5>2. QED
          BY <3>3, <5>1
      <4>2. CASE b # j
        <5>1. b \in 1..c /\ other(b) = b
          BY <2>5, <4>2
        <5>2. QED
          BY <1>4, <2>5, <5>1
      <4>3. QED
        BY <4>1, <4>2
    <3> HIDE DEF other
    <3>5. QED
      BY <1>7, <3>2, <3>3, <3>4
  <2>6. QED
    BY <2>4, <2>5
<1>8. QED
  BY <1>6, <1>7

(* A whole row. *)
LEMMA RowDone ==
    ASSUME NEW p, NEW k \in Nat, NEW r \in 0..(k - 1), NEW key, Sorted(p, k, r, k, key)
    PROVE  Sorted(p, k, r + 1, 0, key)
<1>1. ASSUME NEW a \in 1..(r + 1), NEW b \in 1..k, a < b PROVE key[p[a]] <= key[p[b]]
  <2>1. CASE a = r + 1
    BY <1>1, <2>1 DEF Sorted
  <2>2. CASE a # r + 1
    <3>1. a \in 1..r
      BY <2>2
    <3>2. QED
      BY <1>1, <3>1 DEF Sorted
  <2>3. QED
    BY <2>1, <2>2
<1>2. QED
  BY <1>1 DEF Sorted

(* The queue that sched_rma() scans is in the order of the keys. *)
LEMMA SortSorts ==
    ASSUME NEW D, NEW q, IsQueue(q, D), NEW key, \A d \in D : key[d] \in Int
    PROVE  \A a, b \in 1..Len(q) :
              a < b => key[ExchangeSort(q, key)[a]] <= key[ExchangeSort(q, key)[b]]
<1> DEFINE k == Len(q)
<1>1. k \in Nat /\ k * k \in Nat
  BY QueuePlaces
<1> PICK F : Turns(F, q, key)
  BY SortTurns, Zenon
<1>2. /\ F[0] = q /\ ExchangeSort(q, key) = F[k * k]
      /\ \A m \in Nat : m + 1 <= k * k =>
            F[m + 1] = Exchange(F[m], (m \div k) + 1, (m % k) + 1, key)
  BY DEF Turns
<1> DEFINE Done(m) == \A r \in 0..k, c \in 0..(k - 1) :
                         m = r * k + c => Sorted(F[m], k, r, c, key)
           P == {m \in Nat : m <= k * k => IsQueue(F[m], D) /\ Len(F[m]) = k /\ Done(m)}
<1>3. CASE k = 0
  BY <1>3
<1>4. CASE k # 0
  <2>1. 0 \in P
    <3>1. ASSUME NEW r \in 0..k, NEW c \in 0..(k - 1), 0 = r * k + c
          PROVE  Sorted(F[0], k, r, c, key)
      <4>1. r * k >= 0 /\ c >= 0
        BY <1>1
      <4>2. c = 0 /\ r * k = 0
        BY <1>1, <3>1, <4>1
      <4>3. r = 0
        BY <1>1, <1>4, <4>2
      <4>4. QED
        BY <4>2, <4>3 DEF Sorted
    <3>2. QED
      BY <1>2, <3>1
  <2>2. ASSUME NEW m \in Nat, m \in P PROVE m + 1 \in P
    <3> SUFFICES ASSUME m + 1 <= k * k
                 PROVE  IsQueue(F[m + 1], D) /\ Len(F[m + 1]) = k /\ Done(m + 1)
      OBVIOUS
    <3>1. m <= k * k /\ k \in Nat \ {0}
      BY <1>1, <1>4
    <3>2. IsQueue(F[m], D) /\ Len(F[m]) = k /\ Done(m)
      BY <2>2, <3>1
    <3>3. F[m + 1] = Exchange(F[m], (m \div k) + 1, (m % k) + 1, key)
      BY <1>2
    <3>4. (m \div k) + 1 \in Int /\ (m \div k) + 1 >= 1 /\ (m % k) + 1 \in 1..Len(F[m])
      BY <3>1, <3>2, TurnPlaces
    <3>5. IsQueue(F[m + 1], D) /\ Len(F[m + 1]) = k
      BY <3>2, <3>3, <3>4, ExchangeKeeps
    <3>6. ASSUME NEW r \in 0..(k - 1), NEW c \in 0..(k - 1), m = r * k + c
          PROVE  Sorted(F[m + 1], k, r, c + 1, key)
      <4>1. r \in Nat /\ r \in 0..k
        BY <1>1
      <4>2. m \div k = r /\ m % k = c
        BY <3>1, <3>6, <4>1, DivMod
      <4>3. Sorted(F[m], k, r, c, key)
        BY <3>2, <3>6, <4>1
      <4>4. F[m + 1] = Exchange(F[m], r + 1, c + 1, key)
        BY <3>3, <4>2
      <4>5. QED
        BY <3>2, <4>3, <4>4, ExchangeSorts
    <3>7. ASSUME NEW r \in 0..k, NEW c \in 0..(k - 1), m + 1 = r * k + c
          PROVE  Sorted(F[m + 1], k, r, c, key)
      <4>1. CASE c # 0
        <5>1. c - 1 \in 0..(k - 1) /\ m = r * k + (c - 1) /\ (c - 1) + 1 = c
          BY <1>1, <3>7, <4>1
        <5>2. r \in 0..(k - 1)
          <6>1. r = k => m + 1 = k * k + c
            BY <3>7
          <6>2. r # k
            BY <1>1, <4>1, <6>1
          <6>3. QED
            BY <1>1, <6>2
        <5>3. QED
          BY <3>6, <5>1, <5>2
      <4>2. CASE c = 0
        <5>1. r # 0
          <6>1. r = 0 => m + 1 = 0
            BY <1>1, <3>7, <4>2
          <6>2. QED
            BY <6>1
        <5>2. r - 1 \in 0..(k - 1) /\ k - 1 \in 0..(k - 1) /\ (k - 1) + 1 = k /\ (r - 1) + 1 = r
          BY <1>1, <3>1, <5>1
        <5>3. m = (r - 1) * k + (k - 1)
          BY <1>1, <3>7, <4>2
        <5>4. Sorted(F[m + 1], k, r - 1, k, key)
          BY <3>6, <5>2, <5>3
        <5>5. QED
          BY <1>1, <4>2, <5>2, <5>4, RowDone
      <4>3. QED
        BY <4>1, <4>2
    <3>8. QED
      BY <3>5, <3>7
  <2> HIDE DEF P
  <2>3. k * k \in P
    BY <1>1, <2>1, <2>2, NatSetInduction
  <2>4. Done(k * k)
    BY <1>1, <2>3 DEF P
  <2>5. k \in 0..k /\ 0 \in 0..(k - 1) /\ k * k = k * k + 0
    BY <1>1, <1>4
  <2>6. Sorted(F[k * k], k, k, 0, key)
    BY <2>4, <2>5
  <2>7. QED
    BY <1>2, <2>6 DEF Sorted
<1>5. QED
  BY <1>3, <1>4
=============================================================================
