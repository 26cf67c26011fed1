------------------------------ MODULE NocProof ------------------------------
(***************************************************************************)
(* No packet buffer is lost or made twice: BuffersConserved of module Noc, *)
(* for any cores, tasks, messages, pool and queue sizes.                   *)
(*                                                                         *)
(* The count is not inductive alone.  A step moves a buffer between the    *)
(* pool, a queue and the hands of a task by what the code believes of them,*)
(* so Shape says, for every place of a task in its calls, what it holds    *)
(* there: one buffer at the copy and none elsewhere, a queue that is there *)
(* while the task serves it and none before it is created.  Once a queue   *)
(* was freed under the interrupt handler only the inequality is left, and  *)
(* the pool still never overflows.                                         *)
(*                                                                         *)
(* Messages come whole and acknowledgements are for the message sent:      *)
(* MessageIntact and AckIsForThisMessage of module Noc, for any cores,     *)
(* tasks, packets per message and turns of the queue.                      *)
(*                                                                         *)
(* A packet is on a link, in a queue, in a buffer or copied.  RouteInv says*)
(* that it is only where its addresses take it, and what a receiver has    *)
(* copied so far by its place in the call.  TokenInv says that of the n-th *)
(* packets of a sender at most one exists in all these places, none while  *)
(* an acknowledgement to the sender exists, none before it is sent, and    *)
(* that all say the message the sender is at.  A sender that waits for its *)
(* acknowledgement so passes a token to the receiver and back; a time-out  *)
(* drops the token, and a receiver that gave up waiting takes a packet for *)
(* which it has none, which is why both theorems exclude the former and    *)
(* the n-th packets (n > 1) need that the latter did not happen.           *)
(*                                                                         *)
(* The acknowledgements are flow control: FlowControlled of module Noc, if *)
(* each pool has room for one message of every sender to its core and one  *)
(* acknowledgement of every sender on it (PoolsSuffice), and each queue,   *)
(* of the size that hf_comm_create() was asked for, room for one message   *)
(* of every sender to its task (QueuesSuffice).  The tokens say this of    *)
(* one packet; FlowInv adds them up for every group of receivers, of which *)
(* two matter: those of a core, who share a pool, and each of them alone   *)
(* with its queue.  Until a time-out, the packets of messages that the     *)
(* group has or that are on the links to it, and a whole message for every *)
(* acknowledgement on its way back, are no more than the senders to the    *)
(* group have sent of the messages they are at.  It counts per receiver    *)
(* and not per sender: a receiver that gave up waiting completes a message *)
(* with packets of another.                                                *)
(***************************************************************************)
EXTENDS Noc, TLAPS, FiniteSetTheorems, SequenceTheorems

Pcs == {"create", "create_queue", "create_port", "refused", "destroy_queue", "destroy_port",
        "idle", "send", "wait_ack", "recv_first", "copy", "recv_next", "returned"}
Receiving == {"recv_first", "copy", "recv_next", "returned"}
InCall == {"send", "wait_ack"} \cup Receiving
Serving == {"create_port", "destroy_queue", "idle"} \cup InCall
Reasons == {"pool", "port", "queue", "freed", "destroyed", "timeout", "gave up"}

Copied == [source : Tasks, message : Nat, seq : 1..Packets]
Call == [pc : Pcs, message : Nat, channel : Nat, seq : Nat, packet : Nat, packets : Nat,
         buf : Seq(Packet), got : Seq(Copied), turns : Nat, error : BOOLEAN, round : Nat]

NocType ==
    /\ pool \in [Cores -> Nat]
    /\ tqueue \in [Tasks -> NoQueue \cup Seq(Packet)]
    /\ ports \in [Tasks -> Nat]
    /\ net \in [Links -> Seq(Packet)]
    /\ call \in [Tasks -> Call]
    /\ malformed \in Nat
    /\ incidents \subseteq Reasons

(* What the place of a task in its call says of its queue and its locals. *)
QueueShape(t) ==
    /\ ports[t] \in {0, PortOf[t]}
    /\ ports[t] # 0 => tqueue[t] # NULL
    /\ call[t].pc \in Serving => tqueue[t] \in Seq(Packet)
    /\ call[t].pc = "create_queue" => tqueue[t] = NULL

CallShape(t) ==
    /\ IF call[t].pc = "copy" THEN Len(call[t].buf) = 1 ELSE call[t].buf = << >>
    /\ call[t].pc = "returned" => call[t].got # << >>
    /\ call[t].pc = "send" => call[t].packet \in 1..Packets
    /\ call[t].turns <= TurnLimit + 1
    /\ t \in Receivers => call[t].round \in 1..Len(Receives[t])

RoleShape(t) ==
    /\ call[t].pc \in {"send", "wait_ack"} => t \in Senders
    /\ call[t].pc \in Receiving => t \in Senders \cup Receivers
    /\ t \in Senders => /\ call[t].message \in 1..(MessagesOf[t] + 1)
                        /\ call[t].pc \in InCall => call[t].message <= MessagesOf[t]
    /\ t \notin Senders => call[t].message = 1

Shape == \A t \in Tasks : QueueShape(t) /\ CallShape(t) /\ RoleShape(t)

Conserved ==
    \A c \in Cores :
        /\ IsFiniteSet(HeldOn(Held, c))
        /\ pool[c] + Cardinality(HeldOn(Held, c)) <= NOC_PACKET_SLOTS
        /\ "freed" \notin incidents => pool[c] + Cardinality(HeldOn(Held, c)) = NOC_PACKET_SLOTS

BufferInv == NocType /\ Shape /\ Conserved

-----------------------------------------------------------------------------
(* Counting buffers. *)

LEMMA OneTaskCount ==
    ASSUME NEW t, NEW n \in Nat
    PROVE  IsFiniteSet({t} \X (1..n)) /\ Cardinality({t} \X (1..n)) = n
<1>1. IsFiniteSet({t}) /\ Cardinality({t}) = 1
  BY FS_Singleton
<1>2. IsFiniteSet(1..n) /\ Cardinality(1..n) = n
  BY FS_Interval
<1>3. IsFiniteSet({t} \X (1..n)) /\ Cardinality({t} \X (1..n)) = Cardinality({t}) * Cardinality(1..n)
  BY <1>1, <1>2, FS_Product
<1>4. 1 * n = n
  OBVIOUS
<1>5. Cardinality({t}) * Cardinality(1..n) = 1 * n
  BY <1>1, <1>2, Zenon
<1> QED
  BY <1>3, <1>4, <1>5, Zenon

LEMMA HeldMember ==
    ASSUME NEW held, NEW c, NEW x
    PROVE  x \in HeldOn(held, c) <=>
               \E t \in Tasks : CoreOf[t] = c /\ x \in {t} \X (1..held[t])
BY DEF HeldOn

(* One task holds n buffers instead of those it held. *)
LEMMA HeldChange ==
    ASSUME NEW old \in [Tasks -> Nat], NEW k \in Tasks, NEW n \in Nat,
           IsFiniteSet(HeldOn(old, CoreOf[k]))
    PROVE  LET new == [old EXCEPT ![k] = n]
           IN /\ IsFiniteSet(HeldOn(new, CoreOf[k]))
              /\ Cardinality(HeldOn(new, CoreOf[k])) = Cardinality(HeldOn(old, CoreOf[k])) - old[k] + n
              /\ \A d : d # CoreOf[k] => HeldOn(new, d) = HeldOn(old, d)
<1> DEFINE new == [old EXCEPT ![k] = n]
           c == CoreOf[k]
           was == {k} \X (1..old[k])
           is == {k} \X (1..n)
           rest == HeldOn(old, c) \ was
<1>0. new[k] = n /\ (\A t \in Tasks : t # k => new[t] = old[t])
  OBVIOUS
<1>1. was \subseteq HeldOn(old, c)
  BY HeldMember
<1>2. HeldOn(new, c) = rest \cup is
  <2> HIDE DEF new
  <2>1. ASSUME NEW x \in HeldOn(new, c) PROVE x \in rest \cup is
    <3>1. PICK t \in Tasks : CoreOf[t] = c /\ x \in {t} \X (1..new[t])
      BY <2>1, HeldMember
    <3>2. CASE t = k
      BY <3>1, <3>2, <1>0
    <3>3. CASE t # k
      <4>1. x \in {t} \X (1..old[t])
        BY <3>1, <3>3, <1>0
      <4>2. x \in HeldOn(old, c)
        BY <4>1, <3>1, HeldMember
      <4>3. x \notin was
        BY <4>1, <3>3
      <4> QED
        BY <4>2, <4>3
    <3> QED
      BY <3>2, <3>3
  <2>2. ASSUME NEW x \in rest PROVE x \in HeldOn(new, c)
    <3>1. PICK t \in Tasks : CoreOf[t] = c /\ x \in {t} \X (1..old[t])
      BY <2>2, HeldMember
    <3>2. t # k
      BY <3>1, <2>2
    <3>3. x \in {t} \X (1..new[t])
      BY <3>1, <3>2, <1>0
    <3> QED
      BY <3>1, <3>3, HeldMember
  <2>3. is \subseteq HeldOn(new, c)
    BY <1>0, HeldMember
  <2> HIDE DEF rest, is, c
  <2> QED
    BY <2>1, <2>2, <2>3
<1>3. rest \cap is = {}
  <2> SUFFICES ASSUME NEW x \in rest, x \in is PROVE FALSE
    OBVIOUS
  <2>1. PICK t \in Tasks : CoreOf[t] = c /\ x \in {t} \X (1..old[t])
    BY HeldMember
  <2>2. t = k
    BY <2>1
  <2>3. x \in was
    BY <2>1, <2>2
  <2> QED
    BY <2>3
<1>4. IsFiniteSet(rest) /\ Cardinality(rest) = Cardinality(HeldOn(old, c)) - old[k]
  <2>1. HeldOn(old, c) \cap was = was
    BY <1>1
  <2>2. IsFiniteSet(was) /\ Cardinality(was) = old[k]
    BY OneTaskCount
  <2>3. /\ IsFiniteSet(rest)
        /\ Cardinality(rest) = Cardinality(HeldOn(old, c)) - Cardinality(HeldOn(old, c) \cap was)
    BY FS_Difference
  <2> HIDE DEF rest, was, c
  <2> QED
    BY <2>1, <2>2, <2>3
<1>5. IsFiniteSet(is) /\ Cardinality(is) = n
  BY OneTaskCount
<1>6. IsFiniteSet(rest \cup is) /\ Cardinality(rest \cup is) = Cardinality(rest) + Cardinality(is)
  <2>1. Cardinality(rest \cap is) = 0
    BY <1>3, FS_EmptySet
  <2>2. Cardinality(rest) \in Nat /\ Cardinality(is) \in Nat
    BY <1>4, <1>5, FS_CardinalityType
  <2>3. /\ IsFiniteSet(rest \cup is)
        /\ Cardinality(rest \cup is) = Cardinality(rest) + Cardinality(is) - Cardinality(rest \cap is)
    BY <1>4, <1>5, FS_Union
  <2> HIDE DEF rest, is
  <2> QED
    BY <2>1, <2>2, <2>3
<1>7. ASSUME NEW d, d # c PROVE HeldOn(new, d) = HeldOn(old, d)
  BY <1>7 DEF HeldOn
<1>8. Cardinality(HeldOn(old, c)) \in Nat
  BY FS_CardinalityType
<1>9. Cardinality(HeldOn(new, c)) = Cardinality(HeldOn(old, c)) - old[k] + n
  <2> HIDE DEF rest, is, new, c
  <2> QED
    BY <1>2, <1>4, <1>5, <1>6, <1>8
<1> QED
  BY <1>2, <1>6, <1>7, <1>9
(* A step that touches one task only, t, and accounts for its buffers. *)
Untouched(t) ==
    \A u \in Tasks \ {t} : call'[u] = call[u] /\ tqueue'[u] = tqueue[u] /\ ports'[u] = ports[u]

Accounted(t) ==
    /\ \A c \in Cores \ {CoreOf[t]} : pool'[c] = pool[c]
    /\ pool'[CoreOf[t]] + Held'[t] <= pool[CoreOf[t]] + Held[t]
    /\ "freed" \notin incidents' => pool'[CoreOf[t]] + Held'[t] = pool[CoreOf[t]] + Held[t]

LEMMA HeldType ==
    ASSUME NEW cl \in [Tasks -> Call], NEW q \in [Tasks -> NoQueue \cup Seq(Packet)], NEW t \in Tasks
    PROVE  Len(cl[t].buf) + (IF q[t] \in NoQueue THEN 0 ELSE Len(q[t])) \in Nat
<1>1. Len(cl[t].buf) \in Nat
  <2>1. cl[t].buf \in Seq(Packet)
    BY DEF Call
  <2> QED
    BY <2>1, LenProperties
<1>2. CASE q[t] \in NoQueue
  BY <1>1, <1>2
<1>3. CASE q[t] \notin NoQueue
  <2>1. q[t] \in Seq(Packet)
    BY <1>3
  <2>2. Len(q[t]) \in Nat
    BY <2>1, LenProperties
  <2> QED
    BY <1>1, <1>3, <2>2
<1> QED
  BY <1>2, <1>3

LEMMA ConservedKept ==
    ASSUME NocType, Conserved, NocType', NEW t \in Tasks, Untouched(t), Accounted(t),
           incidents \subseteq incidents'
    PROVE  Conserved'
<1> DEFINE k == CoreOf[t]
<1>1. Held \in [Tasks -> Nat] /\ Held' \in [Tasks -> Nat]
  <2>1. Held \in [Tasks -> Nat]
    BY HeldType DEF Held, NocType
  <2>2. Held' \in [Tasks -> Nat]
    BY HeldType DEF Held, NocType
  <2> QED
    BY <2>1, <2>2
<1>2. Held' = [Held EXCEPT ![t] = Held'[t]]
  <2> SUFFICES ASSUME NEW u \in Tasks, u # t PROVE Held'[u] = Held[u]
    BY <1>1
  <2> QED
    BY DEF Held, Untouched
<1>3. k \in Cores
  BY RolesAssumption
<1>4. IsFiniteSet(HeldOn(Held, k))
  BY <1>3 DEF Conserved
<1>5. /\ IsFiniteSet(HeldOn(Held', k))
      /\ Cardinality(HeldOn(Held', k)) = Cardinality(HeldOn(Held, k)) - Held[t] + Held'[t]
      /\ \A d : d # k => HeldOn(Held', d) = HeldOn(Held, d)
  <2>1. Held'[t] \in Nat
    BY <1>1
  <2> QED
    BY <1>1, <1>2, <1>4, <2>1, HeldChange
<1> SUFFICES ASSUME NEW c \in Cores
             PROVE  /\ IsFiniteSet(HeldOn(Held', c))
                    /\ pool'[c] + Cardinality(HeldOn(Held', c)) <= NOC_PACKET_SLOTS
                    /\ "freed" \notin incidents' => pool'[c] + Cardinality(HeldOn(Held', c)) = NOC_PACKET_SLOTS
  BY DEF Conserved, HeldOn
<1>6. CASE c # k
  BY <1>5, <1>6 DEF Conserved, Accounted
<1>7. CASE c = k
  <2>1. pool[k] \in Nat /\ pool'[k] \in Nat /\ Held[t] \in Nat /\ Held'[t] \in Nat
    BY <1>1, <1>3 DEF NocType
  <2>2. Cardinality(HeldOn(Held, k)) \in Nat
    BY <1>4, FS_CardinalityType
  <2>3. /\ pool[k] + Cardinality(HeldOn(Held, k)) <= NOC_PACKET_SLOTS
        /\ "freed" \notin incidents' => pool[k] + Cardinality(HeldOn(Held, k)) = NOC_PACKET_SLOTS
    BY <1>3 DEF Conserved
  <2>4. NOC_PACKET_SLOTS \in Nat
    BY SizesAssumption
  <2>5. /\ pool'[k] + Held'[t] <= pool[k] + Held[t]
        /\ "freed" \notin incidents' => pool'[k] + Held'[t] = pool[k] + Held[t]
    BY DEF Accounted
  <2> HIDE DEF k
  <2>6. /\ pool'[k] + Cardinality(HeldOn(Held', k)) <= NOC_PACKET_SLOTS
        /\ "freed" \notin incidents' => pool'[k] + Cardinality(HeldOn(Held', k)) = NOC_PACKET_SLOTS
    BY <1>5, <2>1, <2>2, <2>3, <2>4, <2>5
  <2> QED
    BY <1>5, <1>7, <2>6
<1> QED
  BY <1>6, <1>7

LEMMA OneTaskStep ==
    ASSUME BufferInv, NocType', NEW t \in Tasks, Untouched(t), Accounted(t),
           incidents \subseteq incidents',
           QueueShape(t)', CallShape(t)', RoleShape(t)'
    PROVE  BufferInv'
<1>1. Conserved'
  BY ConservedKept DEF BufferInv
<1>2. Shape'
  <2> SUFFICES ASSUME NEW u \in Tasks, u # t
               PROVE  QueueShape(u)' /\ CallShape(u)' /\ RoleShape(u)'
    BY DEF Shape
  <2>1. QueueShape(u) /\ CallShape(u) /\ RoleShape(u)
    BY DEF BufferInv, Shape
  <2>2. call'[u] = call[u] /\ tqueue'[u] = tqueue[u] /\ ports'[u] = ports[u]
    BY DEF Untouched
  <2>3. QueueShape(u)'
    BY <2>1, <2>2 DEF QueueShape
  <2>4. CallShape(u)'
    BY <2>1, <2>2 DEF CallShape
  <2>5. RoleShape(u)'
    BY <2>1, <2>2 DEF RoleShape
  <2> QED
    BY <2>3, <2>4, <2>5
<1> QED
  BY <1>1, <1>2 DEF BufferInv

(* A step of t that moves no buffer: only its locals and the network change. *)
LEMMA LocalStep ==
    ASSUME BufferInv, NEW t \in Tasks, NEW c \in Call, Set(t, c),
           c.buf = call[t].buf, pool' = pool, tqueue' = tqueue, ports' = ports,
           net' \in [Links -> Seq(Packet)], malformed' \in Nat,
           incidents \subseteq incidents', incidents' \subseteq Reasons,
           QueueShape(t)', CallShape(t)', RoleShape(t)'
    PROVE  BufferInv'
<1>1. NocType /\ call \in [Tasks -> Call]
  BY DEF BufferInv, NocType
<1>2. call'[t] = c /\ call' \in [Tasks -> Call] /\ (\A u \in Tasks \ {t} : call'[u] = call[u])
  BY <1>1 DEF Set
<1>3. NocType'
  BY <1>1, <1>2 DEF NocType
<1>4. Untouched(t)
  BY <1>2 DEF Untouched
<1>5. Held'[t] = Held[t]
  BY <1>2 DEF Held
<1>6. pool[CoreOf[t]] \in Nat /\ Held[t] \in Nat
  <2>1. CoreOf[t] \in Cores
    BY RolesAssumption
  <2>2. Held[t] \in Nat
    BY <1>1, HeldType DEF Held, NocType
  <2> QED
    BY <1>1, <2>1, <2>2 DEF NocType
<1>7. Accounted(t)
  BY <1>5, <1>6 DEF Accounted
<1> QED
  BY <1>3, <1>4, <1>7, OneTaskStep

LEMMA Facts ==
    ASSUME BufferInv, NEW t \in Tasks
    PROVE  /\ call \in [Tasks -> Call] /\ call[t] \in Call
           /\ QueueShape(t) /\ CallShape(t) /\ RoleShape(t)
           /\ pool[CoreOf[t]] \in Nat /\ Held[t] \in Nat /\ CoreOf[t] \in Cores
           /\ net \in [Links -> Seq(Packet)] /\ malformed \in Nat /\ incidents \subseteq Reasons
<1>1. NocType
  BY DEF BufferInv
<1>2. CoreOf[t] \in Cores
  BY RolesAssumption
<1>3. Held[t] \in Nat
  BY <1>1, HeldType DEF Held, NocType
<1> QED
  BY <1>1, <1>2, <1>3 DEF BufferInv, Shape, NocType

LEMMA CheckKeeps ==
    ASSUME BufferInv, NEW t \in Tasks, comm_check(t) PROVE BufferInv'
<1>1. /\ call \in [Tasks -> Call] /\ call[t] \in Call
      /\ QueueShape(t) /\ CallShape(t) /\ RoleShape(t)
      /\ net \in [Links -> Seq(Packet)] /\ malformed \in Nat /\ incidents \subseteq Reasons
  BY Facts
<1>2. PICK pc \in {"create_queue", "refused"} :
          /\ Set(t, [call[t] EXCEPT !.pc = pc])
          /\ pc = "create_queue" => tqueue[t] = NULL
  BY DEF comm_check
<1> DEFINE c == [call[t] EXCEPT !.pc = pc]
<1>3. c \in Call /\ c.buf = call[t].buf /\ call'[t] = c
  BY <1>1, <1>2 DEF Call, Pcs, Set
<1>4. QueueShape(t)' /\ CallShape(t)' /\ RoleShape(t)'
  BY <1>1, <1>2, <1>3 DEF comm_check, At, QueueShape, CallShape, RoleShape, Serving, InCall, Receiving, Call, Set
<1> QED
  BY <1>1, <1>2, <1>3, <1>4, LocalStep DEF comm_check

LEMMA NoCallType ==
    ASSUME NEW m \in Nat, NEW n \in Nat
    PROVE  /\ [NoCall EXCEPT !.message = m] \in Call
           /\ [NoCall EXCEPT !.message = m, !.round = n] \in Call
<1>1. << >> \in Seq(Packet) /\ << >> \in Seq(Copied)
  OBVIOUS
<1>2. NoCall \in Call
  BY <1>1 DEF NoCall, Call, Pcs
<1> QED
  BY <1>2 DEF Call

LEMMA TurnLimitNat == TurnLimit \in Nat
BY SizesAssumption DEF TurnLimit

LEMMA SendackKeeps ==
    ASSUME BufferInv, NEW t \in Tasks, hf_sendack(t) PROVE BufferInv'
<1>1. /\ call \in [Tasks -> Call] /\ call[t] \in Call
      /\ QueueShape(t) /\ CallShape(t) /\ RoleShape(t)
      /\ net \in [Links -> Seq(Packet)] /\ malformed \in Nat /\ incidents \subseteq Reasons
  BY Facts
<1> DEFINE c == [call[t] EXCEPT !.pc = "send", !.packet = 1]
<1>2. c \in Call
  BY <1>1 DEF Call, Pcs
<1>3. Set(t, c) /\ call'[t] = c /\ ports' = ports /\ tqueue' = tqueue
  BY <1>1 DEF hf_sendack, Set
<1>4. c.buf = call[t].buf
  BY <1>1 DEF CallShape, At, hf_sendack, Call
<1>5. QueueShape(t)'
  BY <1>1, <1>3 DEF hf_sendack, At, QueueShape, Serving, InCall, Receiving, Call
<1>6. CallShape(t)'
  BY <1>1, <1>3, SizesAssumption DEF hf_sendack, At, CallShape, Call
<1>7. RoleShape(t)'
  BY <1>1, <1>3, RolesAssumption DEF hf_sendack, At, RoleShape, InCall, Receiving, Call
<1> HIDE DEF c
<1> QED
  BY <1>1, <1>2, <1>3, <1>4, <1>5, <1>6, <1>7, LocalStep DEF hf_sendack

LEMMA SeeAckKeeps ==
    ASSUME BufferInv, NEW t \in Tasks, see_ack(t) PROVE BufferInv'
<1>1. /\ call \in [Tasks -> Call] /\ call[t] \in Call
      /\ QueueShape(t) /\ CallShape(t) /\ RoleShape(t)
      /\ net \in [Links -> Seq(Packet)] /\ malformed \in Nat /\ incidents \subseteq Reasons
  BY Facts
<1> DEFINE c == [call[t] EXCEPT !.pc = "recv_first", !.channel = AckChannel, !.seq = 0]
<1>0. AckChannel \in Nat
  BY DEF AckChannel
<1>2. c \in Call
  BY <1>0, <1>1 DEF Call, Pcs
<1>3. Set(t, c) /\ call'[t] = c /\ ports' = ports /\ tqueue' = tqueue
  BY <1>1 DEF see_ack, Set
<1>4. c.buf = call[t].buf
  BY <1>1 DEF AckChannel, CallShape, At, see_ack, Call
<1>5. QueueShape(t)'
  BY <1>1, <1>3 DEF see_ack, AckChannel, At, QueueShape, Serving, InCall, Receiving, Call
<1>6. CallShape(t)'
  BY <1>0, <1>1, <1>3 DEF see_ack, AckChannel, At, CallShape, Call
<1>7. RoleShape(t)'
  BY <1>0, <1>1, <1>3, RolesAssumption DEF see_ack, AckChannel, At, RoleShape, InCall, Receiving, Call
<1> HIDE DEF c
<1> QED
  BY <1>1, <1>2, <1>3, <1>4, <1>5, <1>6, <1>7, LocalStep DEF see_ack

LEMMA TimeOutKeeps ==
    ASSUME BufferInv, NEW t \in Tasks, time_out(t) PROVE BufferInv'
<1>1. /\ call \in [Tasks -> Call] /\ call[t] \in Call
      /\ QueueShape(t) /\ CallShape(t) /\ RoleShape(t)
      /\ net \in [Links -> Seq(Packet)] /\ malformed \in Nat /\ incidents \subseteq Reasons
  BY Facts
<1> DEFINE c == [call[t] EXCEPT !.pc = "idle", !.message = @ + 1]
<1>0. call[t].message + 1 \in Nat
  BY <1>1 DEF Call
<1>2. c \in Call
  BY <1>0, <1>1 DEF Call, Pcs
<1>3. Set(t, c) /\ call'[t] = c /\ ports' = ports /\ tqueue' = tqueue
  BY <1>1 DEF time_out, Set
<1>4. c.buf = call[t].buf
  BY <1>1 DEF CallShape, At, time_out, Call
<1>5. QueueShape(t)'
  BY <1>1, <1>3 DEF time_out, At, QueueShape, Serving, InCall, Receiving, Call
<1>6. CallShape(t)'
  BY <1>0, <1>1, <1>3 DEF time_out, At, CallShape, Call
<1>7. RoleShape(t)'
  BY <1>0, <1>1, <1>3, RolesAssumption DEF time_out, At, RoleShape, InCall, Receiving, Call
<1> HIDE DEF c
<1> QED
  BY <1>1, <1>2, <1>3, <1>4, <1>5, <1>6, <1>7, LocalStep DEF Reasons, time_out

LEMMA RecvackKeeps ==
    ASSUME BufferInv, NEW t \in Tasks, hf_recvack(t) PROVE BufferInv'
<1>1. /\ call \in [Tasks -> Call] /\ call[t] \in Call
      /\ QueueShape(t) /\ CallShape(t) /\ RoleShape(t)
      /\ net \in [Links -> Seq(Packet)] /\ malformed \in Nat /\ incidents \subseteq Reasons
  BY Facts
<1> DEFINE c == [call[t] EXCEPT !.pc = "recv_first", !.channel = Receives[t][call[t].round], !.seq = 0]
<1>0. Receives[t][call[t].round] \in Nat
  <2>1. Receives[t] \in Seq(Nat \ {AckChannel}) /\ call[t].round \in 1..Len(Receives[t])
    BY <1>1, RolesAssumption DEF hf_recvack, CallShape
  <2> QED
    BY <2>1
<1>2. c \in Call
  BY <1>0, <1>1 DEF Call, Pcs
<1>3. Set(t, c) /\ call'[t] = c /\ ports' = ports /\ tqueue' = tqueue
  BY <1>1 DEF hf_recvack, Set
<1>4. c.buf = call[t].buf
  BY <1>1 DEF CallShape, At, hf_recvack, Call
<1>5. QueueShape(t)'
  BY <1>1, <1>3 DEF hf_recvack, At, QueueShape, Serving, InCall, Receiving, Call
<1>6. CallShape(t)'
  BY <1>0, <1>1, <1>3 DEF hf_recvack, At, CallShape, Call
<1>7. RoleShape(t)'
  BY <1>0, <1>1, <1>3, RolesAssumption DEF hf_recvack, At, RoleShape, InCall, Receiving, Call
<1> HIDE DEF c
<1> QED
  BY <1>1, <1>2, <1>3, <1>4, <1>5, <1>6, <1>7, LocalStep DEF hf_recvack

LEMMA AckReturnKeeps ==
    ASSUME BufferInv, NEW t \in Tasks, ack_return(t) PROVE BufferInv'
<1>1. /\ call \in [Tasks -> Call] /\ call[t] \in Call
      /\ QueueShape(t) /\ CallShape(t) /\ RoleShape(t)
      /\ net \in [Links -> Seq(Packet)] /\ malformed \in Nat /\ incidents \subseteq Reasons
  BY Facts
<1> DEFINE c == [NoCall EXCEPT !.message = call[t].message + 1]
<1>0. call[t].message + 1 \in Nat
  BY <1>1 DEF Call
<1>2. c \in Call
  BY <1>0, NoCallType
<1>3. Set(t, c) /\ call'[t] = c /\ ports' = ports /\ tqueue' = tqueue
  BY <1>1 DEF ack_return, Set
<1>4. c.buf = call[t].buf
  BY <1>1 DEF NoCall, CallShape, At, ack_return, Call
<1>5. QueueShape(t)'
  BY <1>1, <1>3 DEF ack_return, NoCall, At, QueueShape, Serving, InCall, Receiving, Call
<1>6. CallShape(t)'
  BY <1>0, <1>1, <1>3, RolesAssumption, TurnLimitNat DEF ack_return, NoCall, At, CallShape, Call
<1>7. RoleShape(t)'
  BY <1>0, <1>1, <1>3, RolesAssumption DEF ack_return, NoCall, At, RoleShape, InCall, Receiving, Call
<1> HIDE DEF c
<1> QED
  BY <1>1, <1>2, <1>3, <1>4, <1>5, <1>6, <1>7, LocalStep DEF ack_return
LEMMA WriteType ==
    ASSUME BufferInv, NEW t, NEW to, NEW p \in Packet, ni_write_packet(t, to, p)
    PROVE  net' \in [Links -> Seq(Packet)]
<1>1. net \in [Links -> Seq(Packet)]
  BY DEF BufferInv, NocType
<1>2. ASSUME NEW q \in Seq(Packet) PROVE Append(q, p) \in Seq(Packet)
  OBVIOUS
<1> QED
  BY <1>1, <1>2 DEF ni_write_packet

LEMMA PortPacket ==
    ASSUME NEW t \in Tasks PROVE PortOf[t] \in {PortOf[u] : u \in Tasks} /\ PortOf[t] \in Nat \ {0}
BY RolesAssumption

LEMMA SendKeeps ==
    ASSUME BufferInv, NEW t \in Tasks, send_packet(t) PROVE BufferInv'
<1>1. /\ call \in [Tasks -> Call] /\ call[t] \in Call
      /\ QueueShape(t) /\ CallShape(t) /\ RoleShape(t)
      /\ net \in [Links -> Seq(Packet)] /\ malformed \in Nat /\ incidents \subseteq Reasons
  BY Facts
<1> DEFINE to == TargetOf[t]
           p == [source |-> t, port |-> PortOf[to], channel |-> ChannelOf[t],
                 seq |-> call[t].packet, packets |-> Packets,
                 message |-> call[t].message, wellformed |-> TRUE]
           c == IF call[t].packet < Packets THEN [call[t] EXCEPT !.packet = @ + 1]
                ELSE [call[t] EXCEPT !.pc = "wait_ack", !.packet = 0]
<1>2. t \in Senders /\ to \in Tasks /\ ChannelOf[t] \in Nat
  BY <1>1, RolesAssumption DEF send_packet, At, RoleShape
<1>3. p \in Packet
  <2>1. call[t].message \in Nat /\ Packets \in 1..Packets /\ call[t].packet \in 1..Packets
    BY <1>1, SizesAssumption DEF Call, CallShape, send_packet, At
  <2> QED
    BY <1>2, <2>1, PortPacket DEF Packet
<1>4. ni_write_packet(t, to, p) /\ Set(t, c) /\ tqueue' = tqueue /\ ports' = ports
  BY DEF send_packet
<1>5. net' \in [Links -> Seq(Packet)]
  BY <1>3, <1>4, WriteType
<1>6. c \in Call /\ c.buf = call[t].buf /\ c.turns = call[t].turns /\ c.round = call[t].round
      /\ c.message = call[t].message /\ c.pc \in {"send", "wait_ack"}
      /\ (c.pc = "send" => c.packet \in 1..Packets)
  <2>1. CASE call[t].packet < Packets
    <3>1. call[t].packet + 1 \in Nat /\ call[t].packet + 1 \in 1..Packets
      BY <1>1, <2>1, SizesAssumption DEF Call, CallShape, send_packet, At
    <3> QED
      BY <1>1, <2>1, <3>1 DEF Call, Pcs, send_packet, At
  <2>2. CASE ~(call[t].packet < Packets)
    BY <1>1, <2>2 DEF Call, Pcs
  <2> QED
    BY <2>1, <2>2
<1>7. call'[t] = c
  BY <1>1, <1>4 DEF Set
<1> HIDE DEF c, p, to
<1>8. QueueShape(t)'
  BY <1>1, <1>4, <1>6, <1>7 DEF send_packet, At, QueueShape, Serving, InCall
<1>9. CallShape(t)'
  BY <1>1, <1>6, <1>7 DEF send_packet, At, CallShape
<1>10. RoleShape(t)'
  BY <1>1, <1>2, <1>6, <1>7 DEF send_packet, At, RoleShape, InCall
<1> QED
  BY <1>1, <1>4, <1>5, <1>6, <1>8, <1>9, <1>10, LocalStep DEF send_packet

LEMMA ReturnKeeps ==
    ASSUME BufferInv, NEW t \in Tasks, recv_return(t) PROVE BufferInv'
<1>1. /\ call \in [Tasks -> Call] /\ call[t] \in Call
      /\ QueueShape(t) /\ CallShape(t) /\ RoleShape(t)
      /\ net \in [Links -> Seq(Packet)] /\ malformed \in Nat /\ incidents \subseteq Reasons
  BY Facts
<1> DEFINE first == call[t].got[1]
           to == first.source
           p == [source |-> t, port |-> PortOf[to], channel |-> AckChannel, seq |-> 1,
                 packets |-> 1, message |-> first.message, wellformed |-> TRUE]
           n == (call[t].round % Len(Receives[t])) + 1
           c == [NoCall EXCEPT !.message = call[t].message, !.round = n]
<1>2. first \in Copied
  <2>1. call[t].got \in Seq(Copied) /\ call[t].got # << >>
    BY <1>1 DEF recv_return, At, CallShape, Call
  <2> QED
    BY <2>1
<1>3. p \in Packet
  <2>1. to \in Tasks /\ first.message \in Nat /\ 1 \in 1..Packets /\ AckChannel \in Nat
    BY <1>2, SizesAssumption DEF Copied, AckChannel
  <2> QED
    BY <2>1, PortPacket DEF Packet
<1>4. net' \in [Links -> Seq(Packet)]
  <2>1. CASE call[t].error
    BY <1>1, <2>1 DEF recv_return
  <2>2. CASE ~call[t].error
    <3>1. ni_write_packet(t, to, p)
      BY <2>2 DEF recv_return
    <3> QED
      BY <1>3, <3>1, WriteType
  <2> QED
    BY <2>1, <2>2
<1>5. n \in 1..Len(Receives[t]) /\ n \in Nat
  <2>1. t \in Receivers
    BY DEF recv_return
  <2>2. Receives[t] \in Seq(Nat \ {AckChannel}) /\ Receives[t] # << >>
    BY <2>1, RolesAssumption
  <2>3. Len(Receives[t]) \in Nat \ {0}
    BY <2>2
  <2>4. call[t].round \in Nat
    BY <1>1 DEF Call
  <2>5. ASSUME NEW l \in Nat \ {0}, NEW m \in Nat PROVE (m % l) + 1 \in 1..l
    OBVIOUS
  <2> QED
    BY <2>3, <2>4, <2>5, SMTT(30)
<1>6. c \in Call /\ Set(t, c) /\ tqueue' = tqueue /\ ports' = ports
  BY <1>1, <1>5, NoCallType DEF recv_return, Finished, Call
<1>7. call'[t] = c
  BY <1>1, <1>6 DEF Set
<1>8. /\ c.buf = << >> /\ c.turns = 0 /\ c.round = n /\ c.message = call[t].message /\ c.pc = "idle"
      /\ call[t].buf = << >> /\ t \in Receivers
  BY <1>1 DEF NoCall, recv_return, At, CallShape
<1> HIDE DEF c, p, to, n
<1>9. QueueShape(t)'
  BY <1>1, <1>6, <1>7, <1>8 DEF recv_return, At, QueueShape, Serving, InCall, Receiving
<1>10. CallShape(t)'
  BY <1>1, <1>5, <1>7, <1>8, TurnLimitNat DEF recv_return, At, CallShape
<1>11. RoleShape(t)'
  BY <1>1, <1>7, <1>8, RolesAssumption DEF recv_return, At, RoleShape, InCall, Receiving
<1> QED
  BY <1>1, <1>4, <1>6, <1>8, <1>9, <1>10, <1>11, LocalStep DEF recv_return

(* A step of t that takes its queue from what it was to q, with the        *)
(* buffers accounted for by the pool.                                      *)
QueueLen(q) == IF q \in NoQueue THEN 0 ELSE Len(q)

LEMMA QueueStep ==
    ASSUME BufferInv, NEW t \in Tasks, NEW c \in Call, Set(t, c),
           NEW q \in NoQueue \cup Seq(Packet), tqueue' = [tqueue EXCEPT ![t] = q],
           NEW port \in Nat, ports' = [ports EXCEPT ![t] = port],
           NEW n \in Nat, pool' = [pool EXCEPT ![CoreOf[t]] = n],
           n + (Len(c.buf) + QueueLen(q)) = pool[CoreOf[t]] + (Len(call[t].buf) + QueueLen(tqueue[t])),
           net' = net, malformed' = malformed,
           incidents \subseteq incidents', incidents' \subseteq Reasons,
           QueueShape(t)', CallShape(t)', RoleShape(t)'
    PROVE  BufferInv'
<1>1. NocType
  BY DEF BufferInv
<1>2. /\ call'[t] = c /\ tqueue'[t] = q
      /\ \A u \in Tasks \ {t} : call'[u] = call[u] /\ tqueue'[u] = tqueue[u] /\ ports'[u] = ports[u]
  BY <1>1 DEF Set, NocType
<1>3. call' \in [Tasks -> Call] /\ tqueue' \in [Tasks -> NoQueue \cup Seq(Packet)] /\ ports' \in [Tasks -> Nat]
  BY <1>1 DEF Set, NocType
<1>4. pool' \in [Cores -> Nat]
  BY <1>1 DEF NocType
<1>5. NocType'
  BY <1>1, <1>3, <1>4 DEF NocType
<1>6. Untouched(t)
  BY <1>2 DEF Untouched
<1>7. CoreOf[t] \in Cores
  BY RolesAssumption
<1>8. pool'[CoreOf[t]] = n /\ (\A d \in Cores \ {CoreOf[t]} : pool'[d] = pool[d])
  BY <1>1, <1>7 DEF NocType
<1>9. Held[t] = Len(call[t].buf) + QueueLen(tqueue[t]) /\ Held'[t] = Len(c.buf) + QueueLen(q)
  <2>1. Held[t] = Len(call[t].buf) + QueueLen(tqueue[t])
    BY DEF Held, QueueLen
  <2>2. Held'[t] = Len(call'[t].buf) + QueueLen(tqueue'[t])
    BY DEF Held, QueueLen
  <2> QED
    BY <1>2, <2>1, <2>2
<1>10. Held[t] \in Nat /\ Held'[t] \in Nat /\ pool[CoreOf[t]] \in Nat
  BY <1>1, <1>3, <1>7, HeldType DEF Held, NocType
<1>11. Accounted(t)
  BY <1>8, <1>9, <1>10 DEF Accounted
<1> QED
  BY <1>5, <1>6, <1>11, OneTaskStep

LEMMA EmptyQueue == << >> \in Seq(Packet) /\ << >> # NULL /\ << >> # FREED
<1>1. << >> \in Seq(Packet)
  OBVIOUS
<1> QED
  BY <1>1, NoQueueAssumption, Zenon

LEMMA PortKeeps ==
    ASSUME BufferInv, NEW t \in Tasks, comm_port(t) PROVE BufferInv'
<1>1. /\ call \in [Tasks -> Call] /\ call[t] \in Call
      /\ QueueShape(t) /\ CallShape(t) /\ RoleShape(t)
      /\ pool \in [Cores -> Nat] /\ tqueue \in [Tasks -> NoQueue \cup Seq(Packet)] /\ ports \in [Tasks -> Nat]
      /\ CoreOf[t] \in Cores /\ incidents \subseteq Reasons
  BY Facts DEF BufferInv, NocType
<1> DEFINE c == [call[t] EXCEPT !.pc = "idle"]
           q == tqueue[t]
           n == pool[CoreOf[t]]
<1>2. c \in Call /\ Set(t, c) /\ call'[t] = c
  BY <1>1 DEF comm_port, Call, Pcs, Set
<1>3. q \in NoQueue \cup Seq(Packet) /\ tqueue' = [tqueue EXCEPT ![t] = q] /\ tqueue'[t] = q
  BY <1>1 DEF comm_port, NoQueue
<1>4. /\ PortOf[t] \in Nat /\ ports' = [ports EXCEPT ![t] = PortOf[t]]
      /\ ports'[t] = PortOf[t] /\ PortOf[t] \in {0, PortOf[t]}
  BY <1>1, PortPacket DEF comm_port, QueueShape
<1>5. n \in Nat /\ pool' = [pool EXCEPT ![CoreOf[t]] = n]
  BY <1>1 DEF comm_port
<1>6. n + (Len(c.buf) + QueueLen(q)) = pool[CoreOf[t]] + (Len(call[t].buf) + QueueLen(tqueue[t]))
  BY <1>1, NoQueueAssumption DEF comm_port, At, CallShape, QueueShape, Serving, InCall, Receiving, QueueLen, NoQueue, Call
<1>7. QueueShape(t)' /\ CallShape(t)' /\ RoleShape(t)'
  <2>1. QueueShape(t)'
    BY <1>1, <1>2, <1>3, <1>4, NoQueueAssumption DEF comm_port, At, QueueShape, Serving, InCall, Receiving, Call, NoQueue
  <2>2. CallShape(t)'
    BY <1>1, <1>2, TurnLimitNat DEF comm_port, At, CallShape, Call
  <2>3. RoleShape(t)'
    BY <1>1, <1>2, RolesAssumption DEF comm_port, At, RoleShape, InCall, Receiving, Call
  <2> QED
    BY <2>1, <2>2, <2>3
<1>8. net' = net /\ malformed' = malformed /\ incidents \subseteq incidents' /\ incidents' \subseteq Reasons
  BY <1>1 DEF comm_port, Reasons
<1> HIDE DEF c, q, n
<1> QED
  BY <1>1, <1>2, <1>3, <1>4, <1>5, <1>6, <1>7, <1>8, QueueStep

LEMMA UnportKeeps ==
    ASSUME BufferInv, NEW t \in Tasks, comm_unport(t) PROVE BufferInv'
<1>1. /\ call \in [Tasks -> Call] /\ call[t] \in Call
      /\ QueueShape(t) /\ CallShape(t) /\ RoleShape(t)
      /\ pool \in [Cores -> Nat] /\ tqueue \in [Tasks -> NoQueue \cup Seq(Packet)] /\ ports \in [Tasks -> Nat]
      /\ CoreOf[t] \in Cores /\ incidents \subseteq Reasons
  BY Facts DEF BufferInv, NocType
<1> DEFINE c == [call[t] EXCEPT !.pc = "create"]
           q == tqueue[t]
           n == pool[CoreOf[t]]
<1>2. c \in Call /\ Set(t, c) /\ call'[t] = c
  BY <1>1 DEF comm_unport, Call, Pcs, Set
<1>3. q \in NoQueue \cup Seq(Packet) /\ tqueue' = [tqueue EXCEPT ![t] = q] /\ tqueue'[t] = q
  BY <1>1 DEF comm_unport, NoQueue
<1>4. /\ 0 \in Nat /\ ports' = [ports EXCEPT ![t] = 0]
      /\ ports'[t] = 0 /\ 0 \in {0, PortOf[t]}
  BY <1>1, PortPacket DEF comm_unport, QueueShape
<1>5. n \in Nat /\ pool' = [pool EXCEPT ![CoreOf[t]] = n]
  BY <1>1 DEF comm_unport
<1>6. n + (Len(c.buf) + QueueLen(q)) = pool[CoreOf[t]] + (Len(call[t].buf) + QueueLen(tqueue[t]))
  BY <1>1, NoQueueAssumption DEF comm_unport, At, CallShape, QueueShape, Serving, InCall, Receiving, QueueLen, NoQueue, Call
<1>7. QueueShape(t)' /\ CallShape(t)' /\ RoleShape(t)'
  <2>1. QueueShape(t)'
    BY <1>1, <1>2, <1>3, <1>4, NoQueueAssumption DEF comm_unport, At, QueueShape, Serving, InCall, Receiving, Call, NoQueue
  <2>2. CallShape(t)'
    BY <1>1, <1>2, TurnLimitNat DEF comm_unport, At, CallShape, Call
  <2>3. RoleShape(t)'
    BY <1>1, <1>2, RolesAssumption DEF comm_unport, At, RoleShape, InCall, Receiving, Call
  <2> QED
    BY <2>1, <2>2, <2>3
<1>8. net' = net /\ malformed' = malformed /\ incidents \subseteq incidents' /\ incidents' \subseteq Reasons
  BY <1>1 DEF comm_unport, Reasons
<1> HIDE DEF c, q, n
<1> QED
  BY <1>1, <1>2, <1>3, <1>4, <1>5, <1>6, <1>7, <1>8, QueueStep

LEMMA DrainKeeps ==
    ASSUME BufferInv, NEW t \in Tasks, comm_drain(t) PROVE BufferInv'
<1>1. /\ call \in [Tasks -> Call] /\ call[t] \in Call
      /\ QueueShape(t) /\ CallShape(t) /\ RoleShape(t)
      /\ pool \in [Cores -> Nat] /\ tqueue \in [Tasks -> NoQueue \cup Seq(Packet)] /\ ports \in [Tasks -> Nat]
      /\ CoreOf[t] \in Cores /\ incidents \subseteq Reasons
  BY Facts DEF BufferInv, NocType
<1>0. tqueue[t] \in Seq(Packet) /\ Len(tqueue[t]) \in Nat
  <2>1. tqueue[t] \in Seq(Packet)
    BY <1>1 DEF comm_drain, At, QueueShape, Serving, InCall, Receiving
  <2> QED
    BY <2>1, LenProperties
<1> DEFINE c == [call[t] EXCEPT !.pc = "destroy_queue"]
           q == << >>
           n == pool[CoreOf[t]] + Len(tqueue[t])
<1>2. c \in Call /\ Set(t, c) /\ call'[t] = c
  BY <1>1 DEF comm_drain, Call, Pcs, Set
<1>3. q \in NoQueue \cup Seq(Packet) /\ tqueue' = [tqueue EXCEPT ![t] = q] /\ tqueue'[t] = q
  BY <1>1 DEF comm_drain, NoQueue
<1>4. /\ ports[t] \in Nat /\ ports' = [ports EXCEPT ![t] = ports[t]]
      /\ ports'[t] = ports[t] /\ ports[t] \in {0, PortOf[t]}
  BY <1>1, PortPacket DEF comm_drain, QueueShape
<1>5. n \in Nat /\ pool' = [pool EXCEPT ![CoreOf[t]] = n]
  BY <1>0, <1>1 DEF comm_drain
<1>6. n + (Len(c.buf) + QueueLen(q)) = pool[CoreOf[t]] + (Len(call[t].buf) + QueueLen(tqueue[t]))
  BY <1>0, <1>1, NoQueueAssumption, SMTT(30) DEF comm_drain, At, CallShape, QueueShape, Serving, InCall, Receiving, QueueLen, NoQueue, Call
<1>7. QueueShape(t)' /\ CallShape(t)' /\ RoleShape(t)'
  <2>1. QueueShape(t)'
    BY EmptyQueue, <1>1, <1>2, <1>3, <1>4, NoQueueAssumption DEF comm_drain, At, QueueShape, Serving, InCall, Receiving, Call, NoQueue
  <2>2. CallShape(t)'
    BY EmptyQueue, <1>1, <1>2, TurnLimitNat DEF comm_drain, At, CallShape, Call
  <2>3. RoleShape(t)'
    BY EmptyQueue, <1>1, <1>2, RolesAssumption DEF comm_drain, At, RoleShape, InCall, Receiving, Call
  <2> QED
    BY <2>1, <2>2, <2>3
<1>8. net' = net /\ malformed' = malformed /\ incidents \subseteq incidents' /\ incidents' \subseteq Reasons
  BY <1>1 DEF comm_drain, Reasons
<1> HIDE DEF c, q, n
<1> QED
  BY <1>1, <1>2, <1>3, <1>4, <1>5, <1>6, <1>7, <1>8, QueueStep

LEMMA CreateQueueKeeps ==
    ASSUME BufferInv, NEW t \in Tasks, comm_queue(t) PROVE BufferInv'
<1>1. /\ call \in [Tasks -> Call] /\ call[t] \in Call
      /\ QueueShape(t) /\ CallShape(t) /\ RoleShape(t)
      /\ pool \in [Cores -> Nat] /\ tqueue \in [Tasks -> NoQueue \cup Seq(Packet)] /\ ports \in [Tasks -> Nat]
      /\ CoreOf[t] \in Cores /\ incidents \subseteq Reasons
  BY Facts DEF BufferInv, NocType
<1>2. CASE /\ tqueue' = [tqueue EXCEPT ![t] = << >>]
           /\ Set(t, [call[t] EXCEPT !.pc = "create_port"])
  <2> DEFINE c == [call[t] EXCEPT !.pc = "create_port"]
             q == << >>
  <2>1. c \in Call /\ Set(t, c) /\ call'[t] = c
    BY <1>1, <1>2 DEF Call, Pcs, Set
  <2>2. q \in NoQueue \cup Seq(Packet) /\ tqueue' = [tqueue EXCEPT ![t] = q] /\ tqueue'[t] = q
    BY <1>1, <1>2
  <2>3. /\ ports[t] \in Nat /\ ports' = [ports EXCEPT ![t] = ports[t]] /\ ports'[t] = ports[t]
        /\ pool[CoreOf[t]] \in Nat /\ pool' = [pool EXCEPT ![CoreOf[t]] = pool[CoreOf[t]]]
    BY <1>1 DEF comm_queue
  <2>4. Len(c.buf) = Len(call[t].buf) /\ QueueLen(q) = 0 /\ QueueLen(tqueue[t]) = 0
    BY <1>1 DEF comm_queue, At, QueueShape, QueueLen, NoQueue, Call
  <2>5. QueueShape(t)' /\ CallShape(t)' /\ RoleShape(t)'
    BY <1>1, <2>1, <2>2, <2>3, NoQueueAssumption
       DEF comm_queue, At, QueueShape, CallShape, RoleShape, Serving, InCall, Receiving, Call
  <2>6. net' = net /\ malformed' = malformed /\ incidents' = incidents
    BY DEF comm_queue
  <2> HIDE DEF c, q
  <2> QED
    BY <1>1, <2>1, <2>2, <2>3, <2>4, <2>5, <2>6, QueueStep
<1>3. CASE Set(t, [call[t] EXCEPT !.pc = "refused"]) /\ UNCHANGED tqueue
  <2> DEFINE c == [call[t] EXCEPT !.pc = "refused"]
  <2>1. c \in Call /\ Set(t, c) /\ call'[t] = c /\ c.buf = call[t].buf
    BY <1>1, <1>3 DEF Call, Pcs, Set
  <2>2. net \in [Links -> Seq(Packet)] /\ malformed \in Nat
    BY Facts
  <2>3. QueueShape(t)' /\ CallShape(t)' /\ RoleShape(t)'
    BY <1>1, <1>3, <2>1 DEF comm_queue, At, QueueShape, CallShape, RoleShape, Serving, InCall, Receiving, Call
  <2> HIDE DEF c
  <2> QED
    BY <1>1, <1>3, <2>1, <2>2, <2>3, LocalStep DEF comm_queue
<1> QED
  BY <1>2, <1>3 DEF comm_queue

LEMMA FreeKeeps ==
    ASSUME BufferInv, NEW t \in Tasks, comm_free(t) PROVE BufferInv'
<1>1. /\ call \in [Tasks -> Call] /\ call[t] \in Call
      /\ QueueShape(t) /\ CallShape(t) /\ RoleShape(t)
      /\ pool \in [Cores -> Nat] /\ tqueue \in [Tasks -> NoQueue \cup Seq(Packet)] /\ ports \in [Tasks -> Nat]
      /\ CoreOf[t] \in Cores /\ incidents \subseteq Reasons
  BY Facts DEF BufferInv, NocType
<1>2. CASE tqueue[t] = << >>
  <2> DEFINE c == [call[t] EXCEPT !.pc = "destroy_port"]
  <2>1. c \in Call /\ Set(t, c) /\ call'[t] = c
    BY <1>1, <1>2 DEF Call, Pcs, Set, comm_free
  <2>2. FREED \in NoQueue /\ tqueue' = [tqueue EXCEPT ![t] = FREED] /\ tqueue'[t] = FREED
    BY <1>1, <1>2 DEF comm_free, NoQueue
  <2>3. /\ ports[t] \in Nat /\ ports' = [ports EXCEPT ![t] = ports[t]] /\ ports'[t] = ports[t]
        /\ pool[CoreOf[t]] \in Nat /\ pool' = [pool EXCEPT ![CoreOf[t]] = pool[CoreOf[t]]]
    BY <1>1 DEF comm_free
  <2>4. Len(c.buf) = Len(call[t].buf) /\ QueueLen(FREED) = 0 /\ QueueLen(tqueue[t]) = 0
    BY <1>1, <1>2 DEF QueueLen, NoQueue, Call
  <2>5. QueueShape(t)' /\ CallShape(t)' /\ RoleShape(t)'
    BY <1>1, <2>1, <2>2, <2>3, NoQueueAssumption
       DEF comm_free, At, QueueShape, CallShape, RoleShape, Serving, InCall, Receiving, Call
  <2>6. net' = net /\ malformed' = malformed /\ incidents' = incidents
    BY DEF comm_free
  <2> HIDE DEF c
  <2> QED
    BY <1>1, <2>1, <2>2, <2>3, <2>4, <2>5, <2>6, QueueStep
<1>3. CASE tqueue[t] # << >>
  <2> DEFINE c == [call[t] EXCEPT !.pc = "idle"]
  <2>1. c \in Call /\ Set(t, c) /\ call'[t] = c /\ c.buf = call[t].buf /\ tqueue' = tqueue
    BY <1>1, <1>3 DEF Call, Pcs, Set, comm_free
  <2>2. net \in [Links -> Seq(Packet)] /\ malformed \in Nat
    BY Facts
  <2>3. QueueShape(t)' /\ CallShape(t)' /\ RoleShape(t)'
    BY <1>1, <1>3, <2>1 DEF comm_free, At, QueueShape, CallShape, RoleShape, Serving, InCall, Receiving, Call
  <2> HIDE DEF c
  <2> QED
    BY <1>1, <1>3, <2>1, <2>2, <2>3, LocalStep DEF comm_free
<1> QED
  BY <1>2, <1>3 DEF comm_free
LEMMA QueueFacts ==
    ASSUME NEW q \in Seq(Packet), q # << >>
    PROVE  /\ Len(q) \in Nat \ {0} /\ Head(q) \in Packet /\ Tail(q) \in Seq(Packet) /\ Len(Tail(q)) = Len(q) - 1
           /\ Rotated(q) \in Seq(Packet) /\ Len(Rotated(q)) = Len(q) /\ Rotated(q) # << >>
<1>1. Len(q) \in Nat \ {0} /\ Head(q) \in Packet /\ Tail(q) \in Seq(Packet) /\ Len(Tail(q)) = Len(q) - 1
  OBVIOUS
<1>2. Rotated(q) \in Seq(Packet) /\ Len(Rotated(q)) = Len(q) /\ Rotated(q) # << >>
  BY <1>1 DEF Rotated
<1> QED
  BY <1>1, <1>2

LEMMA SeqLen ==
    ASSUME NEW q \in Seq(Packet) PROVE QueueLen(q) = Len(q) /\ q # NULL /\ q # FREED
<1>1. q \notin NoQueue
  BY NoQueueAssumption, Zenon DEF NoQueue
<1> QED
  BY <1>1, Zenon DEF QueueLen, NoQueue

(* A step of t that works on its queue and leaves its port alone. *)
LEMMA ReceiveStep ==
    ASSUME BufferInv, NEW t \in Tasks, call[t].pc \in Serving, NEW c \in Call, Set(t, c), c.pc \in InCall,
           NEW q \in Seq(Packet), tqueue' = [tqueue EXCEPT ![t] = q],
           NEW n \in Nat, pool' = [pool EXCEPT ![CoreOf[t]] = n],
           n + (Len(c.buf) + Len(q)) = pool[CoreOf[t]] + (Len(call[t].buf) + Len(tqueue[t])),
           ports' = ports, net' = net, malformed' = malformed,
           incidents \subseteq incidents', incidents' \subseteq Reasons,
           CallShape(t)', RoleShape(t)'
    PROVE  BufferInv'
<1>1. /\ call \in [Tasks -> Call] /\ call[t] \in Call
      /\ QueueShape(t) /\ CallShape(t) /\ RoleShape(t)
      /\ pool \in [Cores -> Nat] /\ tqueue \in [Tasks -> NoQueue \cup Seq(Packet)] /\ ports \in [Tasks -> Nat]
      /\ CoreOf[t] \in Cores /\ incidents \subseteq Reasons
  BY Facts DEF BufferInv, NocType
<1>2. tqueue[t] \in Seq(Packet)
  BY <1>1 DEF QueueShape
<1>3. QueueLen(q) = Len(q) /\ QueueLen(tqueue[t]) = Len(tqueue[t]) /\ q # NULL
  BY <1>2, SeqLen
<1>4. ports[t] \in Nat /\ ports' = [ports EXCEPT ![t] = ports[t]] /\ q \in NoQueue \cup Seq(Packet)
  BY <1>1
<1>5. call'[t] = c /\ tqueue'[t] = q
  BY <1>1 DEF Set
<1>6. QueueShape(t)'
  BY <1>1, <1>3, <1>5 DEF QueueShape, InCall, Receiving
<1> QED
  BY <1>3, <1>4, <1>6, QueueStep

LEMMA FirstKeeps ==
    ASSUME BufferInv, NEW t \in Tasks, recv_first(t) PROVE BufferInv'
<1>1. /\ call \in [Tasks -> Call] /\ call[t] \in Call
      /\ QueueShape(t) /\ CallShape(t) /\ RoleShape(t)
      /\ pool \in [Cores -> Nat] /\ tqueue \in [Tasks -> NoQueue \cup Seq(Packet)] /\ ports \in [Tasks -> Nat]
      /\ CoreOf[t] \in Cores /\ incidents \subseteq Reasons
  BY Facts DEF BufferInv, NocType
<1> DEFINE p == Head(tqueue[t])
<1>2. tqueue[t] \in Seq(Packet) /\ tqueue[t] # << >> /\ call[t].pc = "recv_first" /\ call[t].buf = << >>
  BY <1>1 DEF recv_first, At, QueueShape, CallShape, Serving, InCall, Receiving
<1>3. /\ Len(tqueue[t]) \in Nat \ {0} /\ p \in Packet
      /\ Tail(tqueue[t]) \in Seq(Packet) /\ Len(Tail(tqueue[t])) = Len(tqueue[t]) - 1
      /\ Rotated(tqueue[t]) \in Seq(Packet) /\ Len(Rotated(tqueue[t])) = Len(tqueue[t])
  BY <1>2, QueueFacts
<1>4. call[t].pc \in Serving /\ pool[CoreOf[t]] \in Nat /\ pool' = [pool EXCEPT ![CoreOf[t]] = pool[CoreOf[t]]]
  BY <1>1, <1>2 DEF Serving, InCall, Receiving, recv_first
<1>5. ports' = ports /\ net' = net /\ malformed' = malformed /\ incidents' = incidents
  BY DEF recv_first
<1>6. CASE Wanted(p, call[t].channel, call[t].seq + 1)
  <2> DEFINE c == [call[t] EXCEPT !.pc = "copy", !.buf = <<p>>, !.seq = p.seq, !.packet = 1,
                                  !.packets = p.packets, !.got = << >>, !.error = FALSE]
  <2>1. Set(t, c) /\ tqueue' = [tqueue EXCEPT ![t] = Tail(tqueue[t])]
    BY <1>6 DEF recv_first
  <2>2. c \in Call
    <3>1. p.seq \in Nat /\ p.packets \in Nat
      <4> HIDE DEF p
      <4>1. p.seq \in 1..Packets /\ p.packets \in 1..Packets
        BY <1>3 DEF Packet
      <4> QED
        BY <4>1, SizesAssumption
    <3>2. <<p>> \in Seq(Packet) /\ << >> \in Seq(Copied)
      BY <1>3
    <3> QED
      BY <1>1, <3>1, <3>2 DEF Call, Pcs
  <2>3. /\ c.pc = "copy" /\ c.buf = <<p>> /\ Len(c.buf) = 1 /\ c.turns = call[t].turns
        /\ c.message = call[t].message /\ c.round = call[t].round
    BY <1>1 DEF Call
  <2>4. call'[t] = c
    BY <1>1, <2>1 DEF Set
  <2> HIDE DEF c
  <2>5. CallShape(t)'
    BY <1>1, <2>3, <2>4 DEF CallShape
  <2>6. RoleShape(t)'
    BY <1>1, <1>2, <2>3, <2>4 DEF RoleShape, InCall, Receiving
  <2>7. pool[CoreOf[t]] + (Len(c.buf) + Len(Tail(tqueue[t]))) = pool[CoreOf[t]] + (Len(call[t].buf) + Len(tqueue[t]))
    BY <1>2, <1>3, <1>4, <2>3
  <2> QED
    BY <1>1, <1>3, <1>4, <1>5, <2>1, <2>2, <2>3, <2>5, <2>6, <2>7, ReceiveStep DEF InCall, Receiving
<1>7. CASE ~Wanted(p, call[t].channel, call[t].seq + 1)
  <2>1. tqueue' = [tqueue EXCEPT ![t] = Rotated(tqueue[t])] /\ call' = call
    BY <1>7 DEF recv_first
  <2>2. Set(t, call[t]) /\ call'[t] = call[t]
    BY <1>1, <2>1 DEF Set
  <2>3. CallShape(t)' /\ RoleShape(t)'
    BY <1>1, <2>2 DEF CallShape, RoleShape
  <2>4. call[t].pc \in InCall
    BY <1>2 DEF InCall, Receiving
  <2> QED
    BY <1>1, <1>3, <1>4, <1>5, <2>1, <2>2, <2>3, <2>4, ReceiveStep
<1> QED
  BY <1>6, <1>7

LEMMA NextKeeps ==
    ASSUME BufferInv, NEW t \in Tasks, recv_next(t) PROVE BufferInv'
<1>1. /\ call \in [Tasks -> Call] /\ call[t] \in Call
      /\ QueueShape(t) /\ CallShape(t) /\ RoleShape(t)
      /\ pool \in [Cores -> Nat] /\ tqueue \in [Tasks -> NoQueue \cup Seq(Packet)] /\ ports \in [Tasks -> Nat]
      /\ CoreOf[t] \in Cores /\ incidents \subseteq Reasons
  BY Facts DEF BufferInv, NocType
<1> DEFINE wanted == Wanted(Head(tqueue[t]), call[t].channel, call[t].seq)
           q == IF wanted THEN tqueue[t] ELSE Rotated(tqueue[t])
           gives_up == ~wanted /\ call[t].turns > TurnLimit
<1>2. tqueue[t] \in Seq(Packet) /\ tqueue[t] # << >> /\ call[t].pc = "recv_next" /\ call[t].buf = << >>
  BY <1>1 DEF recv_next, At, QueueShape, CallShape, Serving, InCall, Receiving
<1>3. q \in Seq(Packet) /\ Len(q) = Len(tqueue[t]) /\ q # << >>
  BY <1>2, QueueFacts
<1>4. /\ Len(tqueue[t]) \in Nat \ {0} /\ Head(q) \in Packet
      /\ Tail(q) \in Seq(Packet) /\ Len(Tail(q)) = Len(tqueue[t]) - 1
  BY <1>3, QueueFacts
<1>5. call[t].pc \in Serving /\ pool[CoreOf[t]] \in Nat /\ pool' = [pool EXCEPT ![CoreOf[t]] = pool[CoreOf[t]]]
  BY <1>1, <1>2 DEF Serving, InCall, Receiving, recv_next
<1>6. ports' = ports /\ net' = net /\ malformed' = malformed
  BY DEF recv_next
<1>7. incidents \subseteq incidents' /\ incidents' \subseteq Reasons
  BY <1>1 DEF recv_next, Reasons
<1>8. CASE wanted \/ gives_up
  <2> DEFINE c == [call[t] EXCEPT !.pc = "copy", !.buf = <<Head(q)>>, !.turns = 0]
  <2>1. Set(t, c) /\ tqueue' = [tqueue EXCEPT ![t] = Tail(q)]
    BY <1>8 DEF recv_next
  <2> HIDE DEF q, wanted, gives_up
  <2>2. c \in Call
    <3>1. <<Head(q)>> \in Seq(Packet)
      BY <1>4
    <3> QED
      BY <1>1, <3>1 DEF Call, Pcs
  <2>3. /\ c.pc = "copy" /\ Len(c.buf) = 1 /\ c.turns = 0
        /\ c.message = call[t].message /\ c.round = call[t].round
    BY <1>1 DEF Call
  <2>4. call'[t] = c
    BY <1>1, <2>1 DEF Set
  <2> HIDE DEF c
  <2>5. CallShape(t)'
    BY <1>1, <2>3, <2>4, TurnLimitNat DEF CallShape
  <2>6. RoleShape(t)'
    BY <1>1, <1>2, <2>3, <2>4 DEF RoleShape, InCall, Receiving
  <2>7. pool[CoreOf[t]] + (Len(c.buf) + Len(Tail(q))) = pool[CoreOf[t]] + (Len(call[t].buf) + Len(tqueue[t]))
    BY <1>2, <1>4, <1>5, <2>3
  <2> QED
    BY <1>1, <1>4, <1>5, <1>6, <1>7, <2>1, <2>2, <2>3, <2>5, <2>6, <2>7, ReceiveStep DEF InCall, Receiving
<1>9. CASE ~(wanted \/ gives_up)
  <2> DEFINE c == [call[t] EXCEPT !.turns = @ + 1]
  <2>1. Set(t, c) /\ tqueue' = [tqueue EXCEPT ![t] = q]
    BY <1>9 DEF recv_next
  <2>2. call[t].turns <= TurnLimit
    BY <1>1, <1>9, TurnLimitNat DEF Call
  <2> HIDE DEF q, wanted, gives_up
  <2>3. c \in Call
    <3>1. call[t].turns + 1 \in Nat
      BY <1>1 DEF Call
    <3> QED
      BY <1>1, <3>1 DEF Call
  <2>4. /\ c.pc = "recv_next" /\ c.buf = call[t].buf /\ c.turns = call[t].turns + 1
        /\ c.message = call[t].message /\ c.round = call[t].round
    BY <1>1, <1>2 DEF Call
  <2>5. call'[t] = c
    BY <1>1, <2>1 DEF Set
  <2> HIDE DEF c
  <2>6. CallShape(t)'
    <3>1. call[t].turns + 1 <= TurnLimit + 1
      BY <1>1, <2>2, TurnLimitNat DEF Call
    <3> QED
      BY <1>1, <1>2, <2>4, <2>5, <3>1 DEF CallShape
  <2>7. RoleShape(t)'
    BY <1>1, <1>2, <2>4, <2>5 DEF RoleShape, InCall, Receiving
  <2> QED
    BY <1>1, <1>3, <1>5, <1>6, <1>7, <2>1, <2>3, <2>4, <2>6, <2>7, ReceiveStep DEF InCall, Receiving
<1> QED
  BY <1>8, <1>9

LEMMA CopyKeeps ==
    ASSUME BufferInv, NEW t \in Tasks, recv_copy(t) PROVE BufferInv'
<1>1. /\ call \in [Tasks -> Call] /\ call[t] \in Call
      /\ QueueShape(t) /\ CallShape(t) /\ RoleShape(t)
      /\ pool \in [Cores -> Nat] /\ tqueue \in [Tasks -> NoQueue \cup Seq(Packet)] /\ ports \in [Tasks -> Nat]
      /\ CoreOf[t] \in Cores /\ incidents \subseteq Reasons
  BY Facts DEF BufferInv, NocType
<1> DEFINE p == call[t].buf[1]
           x == [source |-> p.source, message |-> p.message, seq |-> p.seq]
           copied == [call[t] EXCEPT !.buf = << >>, !.seq = @ + 1, !.error = @ \/ p.seq # call[t].seq,
                                     !.got = Append(@, x)]
           c == IF call[t].packet < call[t].packets
                THEN [copied EXCEPT !.pc = "recv_next", !.packet = @ + 1, !.turns = 0]
                ELSE [copied EXCEPT !.pc = "returned"]
<1>2. call[t].pc = "copy" /\ Len(call[t].buf) = 1 /\ tqueue[t] \in Seq(Packet)
  BY <1>1 DEF recv_copy, At, QueueShape, CallShape, Serving, InCall, Receiving
<1>3. p \in Packet
  BY <1>1, <1>2 DEF Call
<1>4. Append(call[t].got, x) \in Seq(Copied) /\ Append(call[t].got, x) # << >>
  <2>1. x \in Copied
    BY <1>3 DEF Packet, Copied
  <2>2. call[t].got \in Seq(Copied)
    BY <1>1 DEF Call
  <2> HIDE DEF x
  <2> QED
    BY <2>1, <2>2
<1>5. copied \in Call /\ copied.buf = << >> /\ copied.got = Append(call[t].got, x) /\ copied.message = call[t].message
      /\ copied.round = call[t].round /\ copied.turns = call[t].turns
  <2>1. call[t].seq + 1 \in Nat /\ << >> \in Seq(Packet)
    BY <1>1 DEF Call
  <2>2. (call[t].error \/ p.seq # call[t].seq) \in BOOLEAN
    OBVIOUS
  <2> HIDE DEF x, p
  <2> QED
    BY <1>1, <1>4, <2>1, <2>2 DEF Call
<1>6. Set(t, c)
  BY DEF recv_copy
<1> HIDE DEF x, p, copied
<1>7. c \in Call /\ c.pc \in {"recv_next", "returned"} /\ c.buf = << >> /\ c.got # << >> /\ c.message = call[t].message
      /\ c.round = call[t].round /\ c.turns \in {0, call[t].turns}
  <2>1. copied.packet + 1 \in Nat
    BY <1>5 DEF Call
  <2> QED
    BY <1>4, <1>5, <2>1 DEF Call, Pcs
<1>8. call'[t] = c
  BY <1>1, <1>6 DEF Set
<1> HIDE DEF c
<1>9. CallShape(t)'
  BY <1>1, <1>7, <1>8, TurnLimitNat DEF CallShape
<1>10. RoleShape(t)'
  BY <1>1, <1>2, <1>7, <1>8 DEF RoleShape, InCall, Receiving
<1>11. /\ pool[CoreOf[t]] + 1 \in Nat /\ pool' = [pool EXCEPT ![CoreOf[t]] = pool[CoreOf[t]] + 1]
       /\ tqueue' = [tqueue EXCEPT ![t] = tqueue[t]]
       /\ ports' = ports /\ net' = net /\ malformed' = malformed /\ incidents' = incidents
  BY <1>1 DEF recv_copy
<1>12. (pool[CoreOf[t]] + 1) + (Len(c.buf) + Len(tqueue[t])) = pool[CoreOf[t]] + (Len(call[t].buf) + Len(tqueue[t]))
  <2>1. Len(tqueue[t]) \in Nat /\ pool[CoreOf[t]] \in Nat /\ Len(c.buf) = 0
    BY <1>1, <1>2, <1>7, LenProperties
  <2> QED
    BY <1>2, <2>1, SMTT(30)
<1>13. call[t].pc \in Serving /\ c.pc \in InCall
  BY <1>2, <1>7 DEF Serving, InCall, Receiving
<1> QED
  BY <1>1, <1>2, <1>6, <1>7, <1>9, <1>10, <1>11, <1>12, <1>13, ReceiveStep

(* A step of the network that neither takes nor moves a buffer. *)
LEMMA NetStep ==
    ASSUME BufferInv, NEW t \in Tasks, pool' = pool, tqueue' = tqueue, ports' = ports, call' = call,
           net' \in [Links -> Seq(Packet)], malformed' \in Nat,
           incidents \subseteq incidents', incidents' \subseteq Reasons
    PROVE  BufferInv'
<1>1. call \in [Tasks -> Call] /\ call[t] \in Call /\ QueueShape(t) /\ CallShape(t) /\ RoleShape(t)
  BY Facts
<1>2. Set(t, call[t]) /\ call'[t] = call[t]
  BY <1>1 DEF Set
<1>3. QueueShape(t)' /\ CallShape(t)' /\ RoleShape(t)'
  BY <1>1 DEF QueueShape, CallShape, RoleShape
<1> QED
  BY <1>1, <1>2, <1>3, LocalStep

LEMMA LinkFacts ==
    ASSUME NEW link \in Links
    PROVE  /\ link[2] \in Cores /\ link[1] \in Cores
           /\ \E s \in Senders : s \in Tasks /\ TargetOf[s] \in Tasks
BY RolesAssumption DEF Links

LEMMA IsrKeeps ==
    ASSUME BufferInv, NEW link \in Links, ni_isr(link) PROVE BufferInv'
<1> DEFINE p == Head(net[link])
           c == link[2]
           owners == {t \in Tasks : CoreOf[t] = c /\ ports[t] = p.port}
           k == CHOOSE t \in owners : TRUE
           reason == CASE pool[c] = 0 -> "pool"
                       [] pool[c] > 0 /\ owners = {} -> "port"
                       [] pool[c] > 0 /\ owners # {} /\ tqueue[k] = FREED -> "freed"
                       [] pool[c] > 0 /\ owners # {} /\ tqueue[k] # FREED
                          /\ Len(tqueue[k]) = QueueSlots(k) -> "queue"
                       [] OTHER -> "none"
           kept == p.wellformed /\ reason = "none"
           taken == IF kept \/ (p.wellformed /\ reason = "freed") THEN 1 ELSE 0
<1>1. NocType /\ Shape
  BY DEF BufferInv
<1>2. c \in Cores /\ (\E s \in Senders : s \in Tasks)
  BY LinkFacts
<1>3. net[link] \in Seq(Packet) /\ net[link] # << >>
  BY <1>1, ZenonT(40) DEF NocType, ni_isr
<1>4. p \in Packet /\ net' \in [Links -> Seq(Packet)]
  <2>1. p \in Packet /\ Tail(net[link]) \in Seq(Packet)
    BY <1>3, QueueFacts, SMTT(30)
  <2> QED
    BY <1>1, <2>1 DEF NocType, ni_isr
<1>5. /\ pool' = [pool EXCEPT ![c] = @ - taken]
      /\ tqueue' = IF kept THEN [tqueue EXCEPT ![k] = Append(@, p)] ELSE tqueue
      /\ incidents' = incidents \cup (IF p.wellformed THEN {reason} \ {"none"} ELSE {})
      /\ ports' = ports /\ call' = call /\ malformed' = malformed
  BY DEF ni_isr
<1>6. pool[c] \in Nat
  BY <1>1, <1>2, SMTT(30) DEF NocType
<1>7. /\ reason \in {"pool", "port", "freed", "queue", "none"}
      /\ reason \in {"none", "freed"} => pool[c] > 0 /\ owners # {}
      /\ reason = "none" => tqueue[k] # FREED
  BY <1>6
<1>8. owners # {} => k \in Tasks /\ CoreOf[k] = c /\ ports[k] = p.port
  <2>1. owners # {} => k \in owners
    OBVIOUS
  <2> QED
    BY <2>1
<1> HIDE DEF reason, k, owners
<1>9. incidents \subseteq incidents' /\ incidents' \subseteq Reasons
  BY <1>1, <1>5, <1>7 DEF NocType, Reasons
<1>10. CASE taken = 0
  <2>1. tqueue' = tqueue
    BY <1>5, <1>10
  <2>2. pool' = pool
    BY <1>1, <1>2, <1>5, <1>6, <1>10 DEF NocType
  <2>3. PICK s \in Tasks : TRUE
    BY <1>2
  <2>4. malformed' \in Nat
    BY <1>1, <1>5 DEF NocType
  <2> QED
    BY <1>4, <1>5, <1>9, <2>1, <2>2, <2>4, NetStep
<1>11. CASE taken = 1
  <2>1. PICK j \in Tasks : j = k /\ pool[c] > 0 /\ CoreOf[j] = c /\ ports[j] = p.port
    BY <1>7, <1>8, <1>11
  <2>2. pool' \in [Cores -> Nat] /\ pool'[c] = pool[c] - 1 /\ (\A d \in Cores \ {c} : pool'[d] = pool[d])
    BY <1>1, <1>2, <1>5, <1>6, <1>11, <2>1 DEF NocType
  <2>3. QueueShape(j) /\ CallShape(j) /\ RoleShape(j)
    BY <1>1, <2>1 DEF Shape
  <2>4. tqueue[j] # NULL
    <3>1. p.port # 0
      BY <1>4, RolesAssumption DEF Packet
    <3> QED
      BY <2>1, <2>3, <3>1 DEF QueueShape
  <2>5. CallShape(j)' /\ RoleShape(j)'
    BY <1>5, <2>3 DEF CallShape, RoleShape
  <2>6. tqueue[j] \in NoQueue \cup Seq(Packet) /\ call \in [Tasks -> Call] /\ Held[j] \in Nat
    BY <1>1, <2>1, HeldType DEF NocType, Held
  <2>7. CASE kept
    <3>1. tqueue[j] \in Seq(Packet)
      BY <1>7, <2>1, <2>4, <2>6, <2>7 DEF NoQueue
    <3>2. Append(tqueue[j], p) \in Seq(Packet) /\ Len(Append(tqueue[j], p)) = Len(tqueue[j]) + 1
      BY <1>4, <3>1
    <3>3. tqueue' = [tqueue EXCEPT ![j] = Append(tqueue[j], p)]
      BY <1>5, <2>1, <2>7
    <3> HIDE DEF kept, taken, p
    <3>4. /\ tqueue' \in [Tasks -> NoQueue \cup Seq(Packet)] /\ tqueue'[j] = Append(tqueue[j], p)
          /\ \A u \in Tasks \ {j} : tqueue'[u] = tqueue[u]
      BY <1>1, <2>1, <3>2, <3>3 DEF NocType
    <3>5. NocType'
      BY <1>1, <1>4, <1>5, <1>9, <2>2, <3>4 DEF NocType
    <3>6. Untouched(j)
      BY <1>5, <3>4 DEF Untouched
    <3>7. QueueLen(tqueue[j]) = Len(tqueue[j]) /\ QueueLen(tqueue'[j]) = Len(tqueue[j]) + 1 /\ tqueue'[j] # NULL
      BY <3>1, <3>2, <3>4, SeqLen
    <3>8. Held[j] = Len(call[j].buf) + Len(tqueue[j]) /\ Held'[j] = Len(call[j].buf) + (Len(tqueue[j]) + 1)
      BY <1>5, <2>1, <3>7 DEF Held, QueueLen
    <3>9. Held'[j] = Held[j] + 1
      <4>1. call[j].buf \in Seq(Packet)
        BY <2>1, <2>6 DEF Call
      <4>2. Len(call[j].buf) \in Nat /\ Len(tqueue[j]) \in Nat
        BY <3>1, <4>1, LenProperties
      <4>3. ASSUME NEW a \in Nat, NEW b \in Nat PROVE a + (b + 1) = (a + b) + 1
        OBVIOUS
      <4> QED
        BY <3>8, <4>2, <4>3, Zenon
    <3>10. Accounted(j)
      BY <1>2, <1>6, <2>1, <2>2, <2>6, <3>9, SMTT(30) DEF Accounted
    <3>11. QueueShape(j)'
      BY <1>5, <2>3, <2>4, <3>2, <3>4, <3>7 DEF QueueShape
    <3> QED
      BY <1>9, <2>1, <2>5, <3>5, <3>6, <3>10, <3>11, OneTaskStep
  <2>8. CASE ~kept
    <3>1. tqueue' = tqueue /\ "freed" \in incidents'
      BY <1>5, <1>11, <2>8
    <3> HIDE DEF kept, taken, p
    <3>2. NocType'
      BY <1>1, <1>4, <1>5, <1>9, <2>2, <3>1 DEF NocType
    <3>3. Untouched(j)
      BY <1>5, <3>1 DEF Untouched
    <3>4. Held'[j] = Held[j]
      BY <1>5, <3>1 DEF Held
    <3>5. Accounted(j)
      BY <1>6, <2>1, <2>2, <2>6, <3>1, <3>4 DEF Accounted
    <3>6. QueueShape(j)'
      BY <1>5, <2>3, <3>1 DEF QueueShape
    <3> QED
      BY <1>9, <2>1, <2>5, <3>2, <3>3, <3>5, <3>6, OneTaskStep
  <2> QED
    BY <2>7, <2>8
<1> QED
  BY <1>10, <1>11

LEMMA MalformedKeeps ==
    ASSUME BufferInv, NEW link \in Links, Malformed(link) PROVE BufferInv'
<1>1. NocType
  BY DEF BufferInv
<1>2. PICK s \in Senders :
         net' = [net EXCEPT ![link] =
                    Append(@, [source |-> s, port |-> PortOf[TargetOf[s]], channel |-> ChannelOf[s], seq |-> 1,
                               packets |-> Packets, message |-> 1, wellformed |-> FALSE])]
  BY DEF Malformed
<1> DEFINE p == [source |-> s, port |-> PortOf[TargetOf[s]], channel |-> ChannelOf[s], seq |-> 1,
                 packets |-> Packets, message |-> 1, wellformed |-> FALSE]
<1>3. p \in Packet
  <2>1. s \in Tasks /\ TargetOf[s] \in Tasks /\ ChannelOf[s] \in Nat
    BY RolesAssumption
  <2>2. 1 \in 1..Packets /\ Packets \in 1..Packets
    BY SizesAssumption
  <2> QED
    BY <2>1, <2>2, PortPacket DEF Packet
<1> HIDE DEF p
<1>4. Append(net[link], p) \in Seq(Packet)
  BY <1>1, <1>3 DEF NocType
<1>5. net' \in [Links -> Seq(Packet)]
  BY <1>1, <1>2, <1>4 DEF NocType, p
<1>6. malformed' \in Nat /\ incidents \subseteq Reasons /\ s \in Tasks
  BY <1>1, RolesAssumption DEF NocType, Malformed
<1> QED
  BY <1>5, <1>6, NetStep DEF Malformed

LEMMA NextKeepsBuffers ==
    ASSUME BufferInv, [Next]_vars PROVE BufferInv'
<1>1. CASE vars' = vars
  <2>1. NocType'
    BY <1>1 DEF vars, BufferInv, NocType
  <2>2. Shape'
    BY <1>1 DEF vars, BufferInv, Shape, QueueShape, CallShape, RoleShape
  <2>3. Conserved'
    <3>1. Held' = Held
      BY <1>1 DEF vars, Held
    <3> QED
      BY <1>1, <3>1 DEF vars, BufferInv, Conserved, HeldOn
  <2> QED
    BY <2>1, <2>2, <2>3 DEF BufferInv
<1>2. ASSUME NEW t \in Tasks, Step(t) PROVE BufferInv'
  BY <1>2, CheckKeeps, CreateQueueKeeps, PortKeeps, SendackKeeps, SendKeeps, SeeAckKeeps, RecvackKeeps,
     FirstKeeps, CopyKeeps, NextKeeps, ReturnKeeps, AckReturnKeeps DEF Step
<1>3. ASSUME NEW t \in Tasks, Destroy(t) \/ time_out(t) PROVE BufferInv'
  BY <1>3, DrainKeeps, FreeKeeps, UnportKeeps, TimeOutKeeps DEF Destroy
<1>4. ASSUME NEW link \in Links, ni_isr(link) \/ Malformed(link) PROVE BufferInv'
  BY <1>4, IsrKeeps, MalformedKeeps
<1> QED
  BY <1>1, <1>2, <1>3, <1>4 DEF Next

LEMMA InitBuffers == Init => BufferInv
<1> SUFFICES ASSUME Init PROVE BufferInv
  OBVIOUS
<1>1. NoCall \in Call
  <2>1. << >> \in Seq(Packet) /\ << >> \in Seq(Copied)
    OBVIOUS
  <2> QED
    BY <2>1 DEF NoCall, Call, Pcs
<1>2. ASSUME NEW t \in Tasks
      PROVE  [NoCall EXCEPT !.pc = IF t \in Created THEN "idle" ELSE "create"] \in Call
  BY <1>1 DEF Call, Pcs
<1>3. NocType
  <2>1. call \in [Tasks -> Call]
    BY <1>2 DEF Init
  <2>2. tqueue \in [Tasks -> NoQueue \cup Seq(Packet)] /\ net \in [Links -> Seq(Packet)]
    BY EmptyQueue DEF Init, NoQueue
  <2>3. pool \in [Cores -> Nat] /\ ports \in [Tasks -> Nat]
    BY SizesAssumption, RolesAssumption DEF Init
  <2> QED
    BY <2>1, <2>2, <2>3 DEF Init, NocType
<1>5. Shape
  <2> SUFFICES ASSUME NEW t \in Tasks PROVE QueueShape(t) /\ CallShape(t) /\ RoleShape(t)
    BY DEF Shape
  <2>1. /\ call[t].pc = IF t \in Created THEN "idle" ELSE "create"
        /\ call[t].buf = << >> /\ call[t].turns = 0 /\ call[t].round = 1 /\ call[t].message = 1
        /\ tqueue[t] = IF t \in Created THEN << >> ELSE NULL
        /\ ports[t] = IF t \in Created THEN PortOf[t] ELSE 0
    BY DEF Init, NoCall
  <2>2. QueueShape(t)
    BY <2>1, EmptyQueue DEF QueueShape, Serving, InCall, Receiving
  <2>3. CallShape(t)
    <3>1. t \in Receivers => 1 \in 1..Len(Receives[t])
      BY RolesAssumption
    <3> QED
      BY <2>1, <3>1, TurnLimitNat DEF CallShape
  <2>4. RoleShape(t)
    BY <2>1, RolesAssumption DEF RoleShape, InCall, Receiving
  <2> QED
    BY <2>2, <2>3, <2>4
<1>4. Conserved
  <2>1. \A t \in Tasks : Held[t] = 0
    BY EmptyQueue DEF Init, Held, NoCall, NoQueue
  <2>2. \A c : HeldOn(Held, c) = {}
    BY <2>1 DEF HeldOn
  <2>3. IsFiniteSet({}) /\ Cardinality({}) = 0
    BY FS_EmptySet
  <2> QED
    <3> SUFFICES ASSUME NEW c \in Cores
                 PROVE  /\ IsFiniteSet(HeldOn(Held, c))
                        /\ pool[c] + Cardinality(HeldOn(Held, c)) = NOC_PACKET_SLOTS
                        /\ NOC_PACKET_SLOTS <= NOC_PACKET_SLOTS
      BY DEF Conserved
    <3>1. pool[c] = NOC_PACKET_SLOTS /\ NOC_PACKET_SLOTS \in Nat
      BY SizesAssumption DEF Init
    <3> QED
      BY <2>2, <2>3, <3>1
<1> QED
  BY <1>3, <1>4, <1>5 DEF BufferInv

LEMMA BufferInvHolds == Spec => []BufferInv
BY InitBuffers, NextKeepsBuffers, PTL DEF Spec

(* Every buffer of a core is in its pool, in a queue or in the hands of a  *)
(* task that copies from it, unless the interrupt handler put it in a      *)
(* queue that had been freed: for any tasks, roles, pool and message       *)
(* sizes, through hf_send(), hf_recv(), ni_isr(), hf_comm_create() and     *)
(* hf_comm_destroy().                                                      *)
THEOREM NocBuffersConserved == Spec => []BuffersConserved
<1>1. BufferInv => BuffersConserved
  <2> SUFFICES ASSUME BufferInv PROVE BuffersConserved
    OBVIOUS
  <2>1. NocType /\ Shape /\ Conserved
    BY DEF BufferInv
  <2>2. pool \in [Cores -> 0..NOC_PACKET_SLOTS]
    <3> SUFFICES ASSUME NEW c \in Cores PROVE pool[c] \in 0..NOC_PACKET_SLOTS
      BY <2>1 DEF NocType
    <3>1. pool[c] \in Nat /\ NOC_PACKET_SLOTS \in Nat
      BY <2>1, SizesAssumption DEF NocType
    <3>2. Cardinality(HeldOn(Held, c)) \in Nat
      BY <2>1, FS_CardinalityType DEF Conserved
    <3>3. pool[c] + Cardinality(HeldOn(Held, c)) <= NOC_PACKET_SLOTS
      BY <2>1 DEF Conserved
    <3> QED
      BY <3>1, <3>2, <3>3
  <2>3. ASSUME NEW t \in Tasks
        PROVE  /\ tqueue[t] \in NoQueue \cup Seq(Packet)
               /\ ports[t] \in {0, PortOf[t]}
               /\ call[t].buf \in Seq(Packet)
               /\ call[t].message \in 1..(IF t \in Senders THEN MessagesOf[t] + 1 ELSE 1)
               /\ call[t].turns \in 0..(TurnLimit + 1)
    <3>1. QueueShape(t) /\ CallShape(t) /\ RoleShape(t)
      BY <2>1 DEF Shape
    <3>2. call[t].buf \in Seq(Packet) /\ call[t].turns \in Nat
      BY <2>1 DEF NocType, Call
    <3>3. call[t].turns \in 0..(TurnLimit + 1)
      BY <3>1, <3>2, TurnLimitNat DEF CallShape
    <3>4. call[t].message \in 1..(IF t \in Senders THEN MessagesOf[t] + 1 ELSE 1)
      BY <3>1 DEF RoleShape
    <3> QED
      BY <2>1, <3>1, <3>2, <3>3, <3>4 DEF NocType, QueueShape
  <2>4. TypeOK
    BY <2>1, <2>2, <2>3 DEF TypeOK, NocType, Reasons
  <2> QED
    BY <2>1, <2>4 DEF BuffersConserved, Conserved
<1> QED
  BY <1>1, BufferInvHolds, PTL

(***************************************************************************)
(* Where packets can be, and what they say there.                          *)
(***************************************************************************)
DataLink(s) == <<CoreOf[s], CoreOf[TargetOf[s]]>>
AckLink(s) == <<CoreOf[TargetOf[s]], CoreOf[s]>>

IsData(p) == /\ p.source \in Senders
             /\ p.channel = ChannelOf[p.source]
             /\ p.port = PortOf[TargetOf[p.source]]
             /\ p.packets = Packets
IsAck(p, s) == /\ p.wellformed /\ p.channel = AckChannel /\ p.seq = 1 /\ p.packets = 1
               /\ p.source = TargetOf[s] /\ p.port = PortOf[s]

(* On a link, and in the queue or the hands of a task. *)
Routed(p, link) == \/ IsData(p) /\ link = DataLink(p.source)
                   \/ \E s \in Senders : IsAck(p, s) /\ link = AckLink(s)
Addressed(p, t) == \/ p.wellformed /\ IsData(p) /\ TargetOf[p.source] = t
                   \/ t \in Senders /\ IsAck(p, t)

Queue(t) == IF tqueue[t] \in NoQueue THEN << >> ELSE tqueue[t]

OnLink(link) == {p \in Packet : Routed(p, link)}
ForTask(t) == {p \in Packet : Addressed(p, t)}
All(q, M) == \A i \in 1..Len(q) : q[i] \in M

Routes ==
    /\ \A link \in Links : All(net[link], OnLink(link))
    /\ \A t \in Tasks : All(Queue(t), ForTask(t)) /\ All(call[t].buf, ForTask(t))

(* What hf_recv() has got so far, by its place in the call. *)
Copying == {"copy", "recv_next", "returned"}
Origin(t, x) == IF t \in Senders THEN x.source = TargetOf[t]
                ELSE /\ x.source \in Senders
                     /\ TargetOf[x.source] = t
                     /\ ChannelOf[x.source] = call[t].channel
Whole(t) == IF t \in Senders THEN 1 ELSE Packets

Reception(t) ==
    LET c == call[t]
    IN /\ c.pc \notin Copying => c.got = << >>
       /\ c.pc = "recv_first" => c.seq = 0
       /\ c.pc \in Receiving => (t \in Senders <=> c.channel = AckChannel)
       /\ c.pc \in Copying => c.packets = Whole(t)
       /\ c.pc \in {"copy", "recv_next"} => /\ Len(c.got) = c.packet - 1
                                            /\ c.packet \in 1..c.packets
                                            /\ c.seq = c.packet
       /\ c.pc = "recv_next" => c.got # << >>
       /\ c.pc = "returned" => Len(c.got) = c.packets
       /\ c.pc = "copy" /\ (c.packet = 1 \/ "gave up" \notin incidents) => Wanted(c.buf[1], c.channel, c.seq)
       /\ c.got # << >> => c.got[1].seq = 1 /\ Origin(t, c.got[1])
       /\ "gave up" \notin incidents => \A i \in 1..Len(c.got) : Origin(t, c.got[i])
       /\ ~c.error => \A i \in 1..Len(c.got) : c.got[i].seq = i

RouteInv == Routes /\ \A t \in Tasks : Reception(t)

(***************************************************************************)
(* The packets that may exist once only: the n-th packets of a sender, and *)
(* the acknowledgements to it.                                             *)
(***************************************************************************)
Data(s, n) == {p \in Packet : p.wellformed /\ p.source = s /\ p.channel = ChannelOf[s] /\ p.seq = n}
Acks(s) == {p \in Packet : IsAck(p, s)}

Has(q, M) == \E i \in 1..Len(q) : q[i] \in M
Once(q, M) == \A i, j \in 1..Len(q) : q[i] \in M /\ q[j] \in M => i = j
Says(q, M, m) == \A i \in 1..Len(q) : q[i] \in M => q[i].message = m
GotAt(g, n, x) == n <= Len(g) /\ g[n].source = x /\ g[n].seq = n

(* On the link l, in the queue q, in the buffer b or copied in g. *)
Exists(l, q, b, g, M, n, x) == Has(l, M) \/ Has(q, M) \/ Has(b, M) \/ GotAt(g, n, x)
Alone(l, q, b, g, M, n, x, m) ==
    /\ Once(l, M) /\ Once(q, M)
    /\ Has(q, M) => ~Has(l, M)
    /\ Has(b, M) => ~Has(l, M) /\ ~Has(q, M)
    /\ GotAt(g, n, x) => ~Has(l, M) /\ ~Has(q, M) /\ ~Has(b, M)
    /\ Says(l, M, m) /\ Says(q, M, m) /\ Says(b, M, m)
    /\ GotAt(g, n, x) => g[n].message = m

(* The packets of M on their way to t over a link. *)
PipeExists(t, link, M, n, x) == Exists(net[link], Queue(t), call[t].buf, call[t].got, M, n, x)
PipeAlone(t, link, M, n, x, m) == Alone(net[link], Queue(t), call[t].buf, call[t].got, M, n, x, m)

DataExists(s, n) == PipeExists(TargetOf[s], DataLink(s), Data(s, n), n, s)
DataAlone(s, n, m) == PipeAlone(TargetOf[s], DataLink(s), Data(s, n), n, s, m)
AckExists(s) == PipeExists(s, AckLink(s), Acks(s), 1, TargetOf[s])
AckAlone(s, m) == PipeAlone(s, AckLink(s), Acks(s), 1, TargetOf[s], m)

Sent(s, n) == \/ call[s].pc = "wait_ack" \/ call[s].pc \in Receiving
              \/ call[s].pc = "send" /\ n < call[s].packet

Sound(n) == "timeout" \notin incidents /\ (n > 1 => "gave up" \notin incidents)

Token(s, n) ==
    /\ DataAlone(s, n, call[s].message) /\ AckAlone(s, call[s].message)
    /\ ~(DataExists(s, n) /\ AckExists(s))
    /\ DataExists(s, n) \/ AckExists(s) => Sent(s, n)

TokenInv == \A s \in Senders : \A n \in 1..Packets : Sound(n) => Token(s, n)

MessageInv == RouteInv /\ TokenInv

-----------------------------------------------------------------------------
(* Sequences of packets. *)

LEMMA AppendFacts ==
    ASSUME NEW q \in Seq(Packet), NEW p \in Packet, NEW M, NEW m
    PROVE  /\ Has(Append(q, p), M) <=> Has(q, M) \/ p \in M
           /\ Once(q, M) /\ (p \in M => ~Has(q, M)) => Once(Append(q, p), M)
           /\ Says(q, M, m) /\ (p \in M => p.message = m) => Says(Append(q, p), M, m)
<1> DEFINE r == Append(q, p)
<1>1. /\ Len(q) \in Nat /\ Len(r) = Len(q) + 1 /\ r[Len(q) + 1] = p
      /\ \A i \in 1..Len(q) : r[i] = q[i]
  OBVIOUS
<1> HIDE DEF r
<1>2. \A i \in 1..Len(r) : i \in 1..Len(q) \/ i = Len(q) + 1
  BY <1>1
<1>3. 1..Len(q) \subseteq 1..Len(r) /\ Len(q) + 1 \in 1..Len(r)
  BY <1>1
<1>4. Has(r, M) <=> Has(q, M) \/ p \in M
  BY <1>1, <1>2, <1>3 DEF Has
<1>5. Once(q, M) /\ (p \in M => ~Has(q, M)) => Once(r, M)
  BY <1>1, <1>2, <1>3 DEF Once, Has
<1>6. Says(q, M, m) /\ (p \in M => p.message = m) => Says(r, M, m)
  BY <1>1, <1>2 DEF Says
<1> QED
  BY <1>4, <1>5, <1>6 DEF r

LEMMA TailFacts ==
    ASSUME NEW q \in Seq(Packet), q # << >>, NEW M, NEW m
    PROVE  /\ Has(q, M) <=> Has(Tail(q), M) \/ Head(q) \in M
           /\ Once(q, M) => Once(Tail(q), M) /\ (Head(q) \in M => ~Has(Tail(q), M))
           /\ Says(q, M, m) => Says(Tail(q), M, m) /\ (Head(q) \in M => Head(q).message = m)
<1> DEFINE r == Tail(q)
<1>1. /\ Len(q) \in Nat \ {0} /\ Len(r) = Len(q) - 1 /\ Head(q) = q[1]
      /\ \A i \in 1..Len(r) : r[i] = q[i + 1]
  OBVIOUS
<1> HIDE DEF r
<1>2. \A i \in 1..Len(q) : i = 1 \/ (i - 1 \in 1..Len(r) /\ r[i - 1] = q[i])
  BY <1>1
<1>3. (\A i \in 1..Len(r) : i + 1 \in 1..Len(q)) /\ 1 \in 1..Len(q)
  BY <1>1
<1>4. Has(q, M) <=> Has(r, M) \/ Head(q) \in M
  BY <1>1, <1>2, <1>3 DEF Has
<1>5. Once(q, M) => Once(r, M) /\ (Head(q) \in M => ~Has(r, M))
  <2> SUFFICES ASSUME Once(q, M) PROVE Once(r, M) /\ (Head(q) \in M => ~Has(r, M))
    OBVIOUS
  <2>1. ASSUME NEW i \in 1..Len(r), NEW j \in 1..Len(r), r[i] \in M, r[j] \in M PROVE i = j
    <3>1. i + 1 \in 1..Len(q) /\ j + 1 \in 1..Len(q) /\ q[i + 1] \in M /\ q[j + 1] \in M
      BY <1>1, <1>3, <2>1
    <3>2. i + 1 = j + 1
      BY <3>1 DEF Once
    <3> QED
      BY <3>2, <1>1
  <2>2. ASSUME NEW i \in 1..Len(r), r[i] \in M, Head(q) \in M PROVE FALSE
    <3>1. i + 1 \in 1..Len(q) /\ 1 \in 1..Len(q) /\ q[i + 1] \in M /\ q[1] \in M
      BY <1>1, <1>3, <2>2
    <3>2. i + 1 = 1
      BY <3>1 DEF Once
    <3> QED
      BY <3>2, <1>1
  <2> QED
    BY <2>1, <2>2 DEF Once, Has
<1>6. Says(q, M, m) => Says(r, M, m) /\ (Head(q) \in M => Head(q).message = m)
  BY <1>1, <1>3 DEF Says
<1> QED
  BY <1>4, <1>5, <1>6 DEF r

LEMMA RotatedFacts ==
    ASSUME NEW q \in Seq(Packet), q # << >>, NEW M, NEW m
    PROVE  /\ Has(Rotated(q), M) <=> Has(q, M)
           /\ Once(q, M) => Once(Rotated(q), M)
           /\ Says(q, M, m) => Says(Rotated(q), M, m)
<1>1. Tail(q) \in Seq(Packet) /\ Head(q) \in Packet
  BY QueueFacts
<1> QED
  BY <1>1, TailFacts, AppendFacts DEF Rotated

LEMMA OneFacts ==
    ASSUME NEW p, NEW M, NEW m
    PROVE  /\ Has(<<p>>, M) <=> p \in M
           /\ Says(<<p>>, M, m) <=> (p \in M => p.message = m)
           /\ ~Has(<< >>, M) /\ Once(<< >>, M) /\ Says(<< >>, M, m)
<1>1. Len(<<p>>) = 1 /\ <<p>>[1] = p /\ Len(<< >>) = 0
  OBVIOUS
<1>2. 1..1 = {1} /\ 1..0 = {}
  OBVIOUS
<1> QED
  BY <1>1, <1>2 DEF Has, Once, Says
-----------------------------------------------------------------------------
(* How packets move. *)

LEMMA Vacuous ==
    ASSUME NEW l, NEW q, NEW b, NEW g, NEW M, NEW n, NEW x, NEW m, NEW k,
           ~Exists(l, q, b, g, M, n, x), Alone(l, q, b, g, M, n, x, m)
    PROVE  Alone(l, q, b, g, M, n, x, k)
BY DEF Exists, Alone, Says, Has

(* A packet leaves the link, for the queue or for nowhere. *)
LEMMA PipeArrive ==
    ASSUME NEW l \in Seq(Packet), l # << >>, NEW q \in Seq(Packet), NEW b, NEW g, NEW M, NEW n, NEW x, NEW m,
           NEW q2, q2 \in {q, Append(q, Head(l))}, Alone(l, q, b, g, M, n, x, m)
    PROVE  /\ Alone(Tail(l), q2, b, g, M, n, x, m)
           /\ Exists(Tail(l), q2, b, g, M, n, x) => Exists(l, q, b, g, M, n, x)
<1>1. Head(l) \in Packet
  BY QueueFacts
<1>2. /\ Has(l, M) <=> Has(Tail(l), M) \/ Head(l) \in M
      /\ Once(l, M) => Once(Tail(l), M) /\ (Head(l) \in M => ~Has(Tail(l), M))
      /\ Says(l, M, m) => Says(Tail(l), M, m) /\ (Head(l) \in M => Head(l).message = m)
  BY TailFacts
<1>3. /\ Has(Append(q, Head(l)), M) <=> Has(q, M) \/ Head(l) \in M
      /\ Once(q, M) /\ (Head(l) \in M => ~Has(q, M)) => Once(Append(q, Head(l)), M)
      /\ Says(q, M, m) /\ (Head(l) \in M => Head(l).message = m) => Says(Append(q, Head(l)), M, m)
  BY <1>1, AppendFacts
<1>4. CASE q2 = q
  BY <1>2, <1>4, Zenon DEF Alone, Exists
<1>5. CASE q2 = Append(q, Head(l))
  BY <1>2, <1>3, <1>5, Zenon DEF Alone, Exists
<1> QED
  BY <1>4, <1>5

(* A packet that is none of M gets on the link, or in the queue. *)
LEMMA PipeForeign ==
    ASSUME NEW l \in Seq(Packet), NEW q \in Seq(Packet), NEW b, NEW g, NEW M, NEW n, NEW x, NEW m,
           NEW p \in Packet, p \notin M, Alone(l, q, b, g, M, n, x, m)
    PROVE  /\ Alone(Append(l, p), q, b, g, M, n, x, m)
           /\ Exists(Append(l, p), q, b, g, M, n, x) => Exists(l, q, b, g, M, n, x)
           /\ Alone(l, Append(q, p), b, g, M, n, x, m)
           /\ Exists(l, Append(q, p), b, g, M, n, x) => Exists(l, q, b, g, M, n, x)
<1>1. /\ Has(Append(q, p), M) <=> Has(q, M)
      /\ Once(q, M) => Once(Append(q, p), M)
      /\ Says(q, M, m) => Says(Append(q, p), M, m)
  BY AppendFacts
<1>2. /\ Has(Append(l, p), M) <=> Has(l, M)
      /\ Once(l, M) => Once(Append(l, p), M)
      /\ Says(l, M, m) => Says(Append(l, p), M, m)
  BY AppendFacts
<1> QED
  BY <1>1, <1>2, Zenon DEF Alone, Exists

(* The first of its kind is sent. *)
LEMMA PipeSend ==
    ASSUME NEW l \in Seq(Packet), NEW q \in Seq(Packet), NEW b, NEW g, NEW M, NEW n, NEW x, NEW m,
           NEW p \in Packet, p.message = m, ~Exists(l, q, b, g, M, n, x), Alone(l, q, b, g, M, n, x, m)
    PROVE  Alone(Append(l, p), q, b, g, M, n, x, m)
<1>1. /\ Has(Append(l, p), M) <=> Has(l, M) \/ p \in M
      /\ Once(l, M) /\ (p \in M => ~Has(l, M)) => Once(Append(l, p), M)
      /\ Says(l, M, m) /\ (p \in M => p.message = m) => Says(Append(l, p), M, m)
  BY AppendFacts
<1> QED
  BY <1>1, Zenon DEF Alone, Exists

LEMMA PipeRotate ==
    ASSUME NEW l, NEW q \in Seq(Packet), q # << >>, NEW b, NEW g, NEW M, NEW n, NEW x, NEW m,
           Alone(l, q, b, g, M, n, x, m)
    PROVE  /\ Alone(l, Rotated(q), b, g, M, n, x, m)
           /\ Exists(l, Rotated(q), b, g, M, n, x) => Exists(l, q, b, g, M, n, x)
<1>1. /\ Has(Rotated(q), M) <=> Has(q, M)
      /\ Once(q, M) => Once(Rotated(q), M)
      /\ Says(q, M, m) => Says(Rotated(q), M, m)
  BY RotatedFacts
<1> QED
  BY <1>1, Zenon DEF Alone, Exists

(* The head of the queue is taken. *)
LEMMA PipeTake ==
    ASSUME NEW l, NEW q \in Seq(Packet), q # << >>, NEW g, NEW M, NEW n, NEW x, NEW m,
           Alone(l, q, << >>, g, M, n, x, m)
    PROVE  /\ Alone(l, Tail(q), <<Head(q)>>, g, M, n, x, m)
           /\ Exists(l, Tail(q), <<Head(q)>>, g, M, n, x) => Exists(l, q, << >>, g, M, n, x)
<1>1. /\ Has(q, M) <=> Has(Tail(q), M) \/ Head(q) \in M
      /\ Once(q, M) => Once(Tail(q), M) /\ (Head(q) \in M => ~Has(Tail(q), M))
      /\ Says(q, M, m) => Says(Tail(q), M, m) /\ (Head(q) \in M => Head(q).message = m)
  BY TailFacts
<1>2. /\ Has(<<Head(q)>>, M) <=> Head(q) \in M
      /\ Says(<<Head(q)>>, M, m) <=> (Head(q) \in M => Head(q).message = m)
  BY OneFacts
<1> QED
  BY <1>1, <1>2, Zenon DEF Alone, Exists

(* The packet taken is copied: it is the n-th from x only if it was in M. *)
LEMMA PipeCopy ==
    ASSUME NEW l, NEW q, NEW p \in Packet, NEW g \in Seq(Copied), NEW M, NEW n \in Nat \ {0}, NEW x, NEW m,
           p.source = x /\ p.seq = n => p \in M,
           Alone(l, q, <<p>>, g, M, n, x, m)
    PROVE  LET h == Append(g, [source |-> p.source, message |-> p.message, seq |-> p.seq])
           IN /\ Alone(l, q, << >>, h, M, n, x, m)
              /\ Exists(l, q, << >>, h, M, n, x) => Exists(l, q, <<p>>, g, M, n, x)
<1> DEFINE y == [source |-> p.source, message |-> p.message, seq |-> p.seq]
           h == Append(g, y)
<1>1. /\ Has(<<p>>, M) <=> p \in M
      /\ Says(<<p>>, M, m) <=> (p \in M => p.message = m)
      /\ ~Has(<< >>, M) /\ Says(<< >>, M, m)
  BY OneFacts
<1>2. y \in Copied /\ y.source = p.source /\ y.message = p.message /\ y.seq = p.seq
  BY DEF Packet, Copied
<1> HIDE DEF y
<1>3. /\ Len(g) \in Nat /\ Len(h) = Len(g) + 1 /\ h[Len(g) + 1] = y
      /\ \A i \in 1..Len(g) : h[i] = g[i]
  BY <1>2
<1> HIDE DEF h
<1>4. GotAt(h, n, x) => (GotAt(g, n, x) /\ h[n] = g[n]) \/ (p \in M /\ h[n] = y)
  <2> SUFFICES ASSUME GotAt(h, n, x) PROVE (GotAt(g, n, x) /\ h[n] = g[n]) \/ (p \in M /\ h[n] = y)
    OBVIOUS
  <2>1. CASE n <= Len(g)
    BY <1>3, <2>1 DEF GotAt
  <2>2. CASE n = Len(g) + 1
    BY <1>2, <1>3, <2>2 DEF GotAt
  <2> QED
    BY <1>3, <2>1, <2>2 DEF GotAt
<1>5. Alone(l, q, << >>, h, M, n, x, m)
  BY <1>1, <1>2, <1>4, Zenon DEF Alone
<1>6. Exists(l, q, << >>, h, M, n, x) => Exists(l, q, <<p>>, g, M, n, x)
  BY <1>1, <1>4, Zenon DEF Exists
<1> QED
  BY <1>5, <1>6 DEF h, y

(* What was copied is handed over; the queue is emptied. *)
LEMMA PipeReset ==
    ASSUME NEW l, NEW q, NEW b, NEW g, NEW M, NEW n \in Nat \ {0}, NEW x, NEW m,
           Alone(l, q, b, g, M, n, x, m)
    PROVE  /\ Alone(l, q, b, << >>, M, n, x, m)
           /\ Exists(l, q, b, << >>, M, n, x) => Exists(l, q, b, g, M, n, x)
           /\ GotAt(g, n, x) => ~Exists(l, q, b, << >>, M, n, x)
           /\ Alone(l, << >>, b, g, M, n, x, m)
           /\ Exists(l, << >>, b, g, M, n, x) => Exists(l, q, b, g, M, n, x)
<1>1. ~Has(<< >>, M) /\ Once(<< >>, M) /\ Says(<< >>, M, m)
  BY OneFacts
<1>2. ~GotAt(<< >>, n, x)
  BY DEF GotAt
<1> QED
  BY <1>1, <1>2, Zenon DEF Alone, Exists

LEMMA AllFacts ==
    ASSUME NEW M
    PROVE  /\ \A q \in Seq(Packet) : \A p \in Packet : All(q, M) /\ p \in M => All(Append(q, p), M)
           /\ \A q \in Seq(Packet) : q # << >> /\ All(q, M) =>
                  Head(q) \in M /\ All(Tail(q), M) /\ All(Rotated(q), M) /\ Head(Rotated(q)) \in M /\ All(Tail(Rotated(q)), M)
           /\ All(<< >>, M) /\ (\A p \in M : All(<<p>>, M))
<1>1. ASSUME NEW q \in Seq(Packet), NEW p \in Packet, All(q, M), p \in M PROVE All(Append(q, p), M)
  <2>1. /\ Len(q) \in Nat /\ Len(Append(q, p)) = Len(q) + 1 /\ Append(q, p)[Len(q) + 1] = p
        /\ \A i \in 1..Len(q) : Append(q, p)[i] = q[i]
    OBVIOUS
  <2> QED
    BY <1>1, <2>1 DEF All
<1>2. ASSUME NEW q \in Seq(Packet), q # << >>, All(q, M) PROVE Head(q) \in M /\ All(Tail(q), M)
  <2>1. /\ Len(q) \in Nat \ {0} /\ Len(Tail(q)) = Len(q) - 1 /\ Head(q) = q[1]
        /\ \A i \in 1..Len(Tail(q)) : Tail(q)[i] = q[i + 1]
    BY <1>2
  <2> QED
    BY <1>2, <2>1 DEF All
<1>3. ASSUME NEW q \in Seq(Packet), q # << >>, All(q, M)
      PROVE  All(Rotated(q), M) /\ Head(Rotated(q)) \in M /\ All(Tail(Rotated(q)), M)
  <2>1. /\ Tail(q) \in Seq(Packet) /\ Head(q) \in Packet
        /\ Rotated(q) \in Seq(Packet) /\ Rotated(q) # << >>
    BY <1>3, QueueFacts
  <2>2. All(Rotated(q), M)
    BY <1>1, <1>2, <1>3, <2>1 DEF Rotated
  <2> QED
    BY <1>2, <2>1, <2>2
<1>4. All(<< >>, M) /\ (\A p \in M : All(<<p>>, M))
  BY DEF All
<1> QED
  BY <1>1, <1>2, <1>3, <1>4

-----------------------------------------------------------------------------
(* What a step does to the packets of a task. *)

LEMMA PacketTypes ==
    ASSUME BufferInv, NEW t \in Tasks
    PROVE  /\ Queue(t) \in Seq(Packet) /\ call[t].buf \in Seq(Packet) /\ call[t].got \in Seq(Copied)
           /\ call \in [Tasks -> Call] /\ call[t] \in Call /\ tqueue \in [Tasks -> NoQueue \cup Seq(Packet)]
           /\ net \in [Links -> Seq(Packet)]
<1>1. NocType
  BY DEF BufferInv
<1>2. Queue(t) \in Seq(Packet)
  <2>1. CASE tqueue[t] \in NoQueue
    BY <2>1, EmptyQueue DEF Queue
  <2>2. CASE tqueue[t] \notin NoQueue
    BY <1>1, <2>2 DEF Queue, NocType
  <2> QED
    BY <2>1, <2>2
<1> QED
  BY <1>1, <1>2 DEF NocType, Call

LEMMA QueueIs ==
    ASSUME NEW t, tqueue[t] \in Seq(Packet) PROVE Queue(t) = tqueue[t]
<1>1. tqueue[t] \notin NoQueue
  BY NoQueueAssumption, Zenon DEF NoQueue
<1> QED
  BY <1>1 DEF Queue

LEMMA QueueBecomes ==
    ASSUME NEW t, tqueue'[t] \in Seq(Packet) PROVE Queue(t)' = tqueue'[t]
<1>1. tqueue'[t] \notin NoQueue
  BY NoQueueAssumption, Zenon DEF NoQueue
<1> QED
  BY <1>1 DEF Queue

(* The packets of t are where they were. *)
Still(t) == Queue(t)' = Queue(t) /\ call'[t].buf = call[t].buf /\ call'[t].got = call[t].got

Quiet(u) == \/ comm_check(u) \/ comm_queue(u) \/ comm_port(u) \/ comm_free(u) \/ comm_unport(u)
            \/ hf_sendack(u) \/ see_ack(u) \/ hf_recvack(u) \/ time_out(u)

LEMMA StillIfUntouched ==
    ASSUME NEW t, call'[t] = call[t], tqueue'[t] = tqueue[t] PROVE Still(t)
BY DEF Still, Queue

LEMMA QuietStep ==
    ASSUME BufferInv, NEW u \in Tasks, Quiet(u), NEW t \in Tasks
    PROVE  Still(t) /\ net' = net
<1>1. /\ call \in [Tasks -> Call] /\ tqueue \in [Tasks -> NoQueue \cup Seq(Packet)]
      /\ QueueShape(u)
  BY PacketTypes, Facts
<1>2. net' = net
  BY DEF Quiet, comm_check, comm_queue, comm_port, comm_free, comm_unport, hf_sendack, see_ack, hf_recvack, time_out
<1>3. CASE t # u
  <2>1. call'[t] = call[t] /\ tqueue'[t] = tqueue[t]
    BY <1>1, <1>3 DEF Set, Quiet, comm_check, comm_queue, comm_port, comm_free, comm_unport,
                      hf_sendack, see_ack, hf_recvack, time_out
  <2> QED
    BY <1>2, <2>1, StillIfUntouched
<1>4. CASE t = u
  <2>1. call'[t].buf = call[t].buf /\ call'[t].got = call[t].got
    <3>1. call[t] \in Call
      BY <1>1
    <3> QED
      BY <1>1, <1>4, <3>1, ZenonT(40) DEF Call, Set, Quiet, comm_check, comm_queue, comm_port, comm_free, comm_unport,
                         hf_sendack, see_ack, hf_recvack, time_out
  <2>2. tqueue'[t] = tqueue[t] \/ (Queue(t) = << >> /\ Queue(t)' = << >>)
    <3>1. CASE comm_queue(t)
      BY <1>1, <1>4, <3>1, EmptyQueue DEF comm_queue, At, QueueShape, Queue, NoQueue
    <3>2. CASE comm_free(t)
      BY <1>1, <1>4, <3>2, EmptyQueue DEF comm_free, At, QueueShape, Queue, NoQueue
    <3> QED
      BY <1>4, <3>1, <3>2 DEF Quiet, comm_check, comm_port, comm_unport, hf_sendack, see_ack, hf_recvack, time_out
  <2> QED
    BY <1>2, <2>1, <2>2 DEF Still, Queue
<1> QED
  BY <1>3, <1>4

(* The head of the queue of u is taken, perhaps after a turn, or the queue *)
(* turns.                                                                  *)
Turns(u) == /\ Queue(u) # << >> /\ Queue(u)' = Rotated(Queue(u))
            /\ call'[u].buf = call[u].buf /\ call'[u].got = call[u].got
Takes(u, z) == /\ Queue(u) # << >> /\ Queue(u)' = Tail(z)
               /\ call[u].buf = << >> /\ call'[u].buf = <<Head(z)>> /\ call'[u].got = call[u].got

LEMMA FirstStep ==
    ASSUME BufferInv, NEW u \in Tasks, Reception(u), recv_first(u)
    PROVE  /\ Turns(u) \/ Takes(u, Queue(u))
           /\ net' = net /\ \A t \in Tasks \ {u} : Still(t)
<1>1. /\ call \in [Tasks -> Call] /\ call[u] \in Call /\ tqueue \in [Tasks -> NoQueue \cup Seq(Packet)]
      /\ QueueShape(u) /\ CallShape(u)
  BY PacketTypes, Facts
<1>2. tqueue[u] \in Seq(Packet) /\ tqueue[u] # << >> /\ call[u].buf = << >> /\ call[u].got = << >>
  BY <1>1 DEF recv_first, At, QueueShape, CallShape, Reception, Copying, Serving, InCall, Receiving
<1>3. Queue(u) = tqueue[u] /\ Tail(tqueue[u]) \in Seq(Packet) /\ Rotated(tqueue[u]) \in Seq(Packet)
  BY <1>2, QueueIs, QueueFacts
<1>4. \A t \in Tasks \ {u} : call'[t] = call[t] /\ tqueue'[t] = tqueue[t]
  BY <1>1 DEF recv_first, Set
<1>5. CASE Wanted(Head(tqueue[u]), call[u].channel, call[u].seq + 1)
  <2>1. tqueue'[u] = Tail(tqueue[u]) /\ call'[u].buf = <<Head(tqueue[u])>> /\ call'[u].got = << >>
    BY <1>1, <1>5 DEF recv_first, Set, Call
  <2>2. Queue(u)' = Tail(tqueue[u])
    BY <1>3, <2>1, QueueBecomes
  <2> QED
    BY <1>2, <1>3, <1>4, <2>1, <2>2, StillIfUntouched DEF Takes, recv_first
<1>6. CASE ~Wanted(Head(tqueue[u]), call[u].channel, call[u].seq + 1)
  <2>1. tqueue'[u] = Rotated(tqueue[u]) /\ call' = call
    BY <1>1, <1>6 DEF recv_first
  <2>2. Queue(u)' = Rotated(tqueue[u])
    BY <1>3, <2>1, QueueBecomes
  <2> QED
    BY <1>2, <1>3, <1>4, <2>1, <2>2, StillIfUntouched DEF Turns, recv_first
<1> QED
  BY <1>5, <1>6

LEMMA NextStep ==
    ASSUME BufferInv, NEW u \in Tasks, recv_next(u)
    PROVE  /\ Turns(u) \/ (\E z \in {Queue(u), Rotated(Queue(u))} : Takes(u, z))
           /\ net' = net /\ \A t \in Tasks \ {u} : Still(t)
<1> DEFINE wanted == Wanted(Head(tqueue[u]), call[u].channel, call[u].seq)
           z == IF wanted THEN tqueue[u] ELSE Rotated(tqueue[u])
           gives_up == ~wanted /\ call[u].turns > TurnLimit
<1>1. /\ call \in [Tasks -> Call] /\ call[u] \in Call /\ tqueue \in [Tasks -> NoQueue \cup Seq(Packet)]
      /\ QueueShape(u) /\ CallShape(u)
  BY PacketTypes, Facts
<1>2. tqueue[u] \in Seq(Packet) /\ tqueue[u] # << >> /\ call[u].buf = << >>
  BY <1>1 DEF recv_next, At, QueueShape, CallShape, Serving, InCall, Receiving
<1>3. Queue(u) = tqueue[u] /\ Rotated(tqueue[u]) \in Seq(Packet) /\ Rotated(tqueue[u]) # << >>
  BY <1>2, QueueIs, QueueFacts
<1>4. \A t \in Tasks \ {u} : call'[t] = call[t] /\ tqueue'[t] = tqueue[t]
  BY <1>1 DEF recv_next, Set
<1>5. z \in Seq(Packet) /\ z # << >>
  BY <1>2, <1>3
<1>6. CASE wanted \/ gives_up
  <2>1. tqueue'[u] = Tail(z) /\ call'[u].buf = <<Head(z)>> /\ call'[u].got = call[u].got
    BY <1>1, <1>6 DEF recv_next, Set, Call
  <2>2. z \in {Queue(u), Rotated(Queue(u))}
    BY <1>3
  <2> HIDE DEF z
  <2>3. Queue(u)' = Tail(z)
    BY <1>5, <2>1, QueueBecomes, QueueFacts
  <2>4. Takes(u, z)
    BY <1>2, <1>3, <2>1, <2>3 DEF Takes
  <2> QED
    BY <1>4, <2>2, <2>4, StillIfUntouched DEF recv_next
<1>7. CASE ~(wanted \/ gives_up)
  <2>1. tqueue'[u] = Rotated(tqueue[u]) /\ call'[u].buf = call[u].buf /\ call'[u].got = call[u].got
    BY <1>1, <1>7 DEF recv_next, Set, Call
  <2>2. Queue(u)' = Rotated(tqueue[u])
    BY <1>3, <2>1, QueueBecomes
  <2> QED
    BY <1>2, <1>3, <1>4, <2>1, <2>2, StillIfUntouched DEF Turns, recv_next
<1> QED
  BY <1>6, <1>7

LEMMA CopyStep ==
    ASSUME BufferInv, NEW u \in Tasks, recv_copy(u)
    PROVE  LET p == call[u].buf[1]
               x == [source |-> p.source, message |-> p.message, seq |-> p.seq]
           IN /\ p \in Packet /\ call[u].buf = <<p>> /\ Queue(u)' = Queue(u)
              /\ call'[u].buf = << >> /\ call'[u].got = Append(call[u].got, x)
              /\ net' = net /\ \A t \in Tasks \ {u} : Still(t)
<1> DEFINE p == call[u].buf[1]
           x == [source |-> p.source, message |-> p.message, seq |-> p.seq]
<1>1. /\ call \in [Tasks -> Call] /\ call[u] \in Call /\ tqueue \in [Tasks -> NoQueue \cup Seq(Packet)]
      /\ call[u].buf \in Seq(Packet) /\ CallShape(u)
  BY PacketTypes, Facts
<1>2. Len(call[u].buf) = 1
  BY <1>1 DEF recv_copy, At, CallShape
<1>3. p \in Packet /\ call[u].buf = <<p>>
  BY <1>1, <1>2
<1>4. call'[u].buf = << >> /\ call'[u].got = Append(call[u].got, x)
  <2> DEFINE copied == [call[u] EXCEPT !.buf = << >>, !.seq = @ + 1, !.error = @ \/ p.seq # call[u].seq,
                                       !.got = Append(@, x)]
             c == IF call[u].packet < call[u].packets
                  THEN [copied EXCEPT !.pc = "recv_next", !.packet = @ + 1, !.turns = 0]
                  ELSE [copied EXCEPT !.pc = "returned"]
  <2>1. call'[u] = c
    BY <1>1 DEF recv_copy, Set
  <2> HIDE DEF p, x
  <2>2. c.buf = << >> /\ c.got = Append(call[u].got, x)
    BY <1>1 DEF Call
  <2> QED
    BY <2>1, <2>2
<1>5. \A t \in Tasks \ {u} : call'[t] = call[t] /\ tqueue'[t] = tqueue[t]
  BY <1>1 DEF recv_copy, Set
<1>6. Queue(u)' = Queue(u) /\ net' = net
  BY DEF recv_copy, Queue
<1> QED
  BY <1>3, <1>4, <1>5, <1>6, StillIfUntouched

LEMMA DrainStep ==
    ASSUME BufferInv, NEW u \in Tasks, comm_drain(u)
    PROVE  /\ Queue(u)' = << >> /\ call'[u].buf = call[u].buf /\ call'[u].got = call[u].got
           /\ net' = net /\ \A t \in Tasks \ {u} : Still(t)
<1>1. /\ call \in [Tasks -> Call] /\ call[u] \in Call /\ tqueue \in [Tasks -> NoQueue \cup Seq(Packet)]
  BY PacketTypes
<1>2. \A t \in Tasks \ {u} : call'[t] = call[t] /\ tqueue'[t] = tqueue[t]
  BY <1>1 DEF comm_drain, Set
<1>3. tqueue'[u] = << >> /\ call'[u].buf = call[u].buf /\ call'[u].got = call[u].got
  BY <1>1 DEF comm_drain, Set, Call
<1>4. Queue(u)' = << >>
  BY <1>3, EmptyQueue DEF Queue, NoQueue
<1> QED
  BY <1>2, <1>3, <1>4, StillIfUntouched DEF comm_drain

(* The call of u ends. *)
Ends(u) == Queue(u)' = Queue(u) /\ call'[u].buf = call[u].buf /\ call'[u].got = << >>

LEMMA EndStep ==
    ASSUME BufferInv, NEW u \in Tasks, recv_return(u) \/ ack_return(u)
    PROVE  Ends(u) /\ \A t \in Tasks \ {u} : Still(t)
<1>1. /\ call \in [Tasks -> Call] /\ call[u] \in Call /\ CallShape(u)
  BY PacketTypes, Facts
<1>2. \A t \in Tasks \ {u} : call'[t] = call[t] /\ tqueue'[t] = tqueue[t]
  BY <1>1 DEF recv_return, ack_return, Set
<1>3. call[u].buf = << >>
  BY <1>1 DEF recv_return, ack_return, At, CallShape
<1>4. call'[u].buf = << >> /\ call'[u].got = << >>
  BY <1>1 DEF recv_return, ack_return, Set, Finished, NoCall
<1>5. Queue(u)' = Queue(u)
  BY DEF recv_return, ack_return, Queue
<1> QED
  BY <1>2, <1>3, <1>4, <1>5, StillIfUntouched DEF Ends

(* ni_isr() takes the head of a link, for the queue of one task or none. *)
LEMMA IsrStep ==
    ASSUME BufferInv, NEW link \in Links, ni_isr(link)
    PROVE  LET p == Head(net[link])
           IN /\ net[link] # << >> /\ net' = [net EXCEPT ![link] = Tail(@)] /\ call' = call
              /\ \/ \A t \in Tasks : Still(t)
                 \/ \E k \in Tasks : /\ CoreOf[k] = link[2] /\ PortOf[k] = p.port /\ p.wellformed
                                     /\ Queue(k)' = Append(Queue(k), p)
                                     /\ \A t \in Tasks \ {k} : Still(t)
<1> DEFINE p == Head(net[link])
           c == link[2]
           owners == {t \in Tasks : CoreOf[t] = c /\ ports[t] = p.port}
           k == CHOOSE t \in owners : TRUE
           reason == CASE pool[c] = 0 -> "pool"
                       [] pool[c] > 0 /\ owners = {} -> "port"
                       [] pool[c] > 0 /\ owners # {} /\ tqueue[k] = FREED -> "freed"
                       [] pool[c] > 0 /\ owners # {} /\ tqueue[k] # FREED
                          /\ Len(tqueue[k]) = QueueSlots(k) -> "queue"
                       [] OTHER -> "none"
           kept == p.wellformed /\ reason = "none"
<1>1. /\ net[link] # << >> /\ net' = [net EXCEPT ![link] = Tail(@)] /\ call' = call
      /\ tqueue' = IF kept THEN [tqueue EXCEPT ![k] = Append(@, p)] ELSE tqueue
  BY DEF ni_isr
<1>2. CASE ~kept
  <2>1. \A t \in Tasks : Still(t)
    BY <1>1, <1>2, StillIfUntouched
  <2> QED
    BY <1>1, <2>1, SMTT(30)
<1>3. CASE kept
  <2>1. c \in Cores /\ NocType /\ Shape
    BY LinkFacts DEF BufferInv
  <2>2. pool[c] \in Nat
    BY <2>1 DEF NocType
  <2>3. owners # {} /\ tqueue[k] # FREED
    BY <1>3, <2>2
  <2>4. k \in owners
    BY <2>3
  <2>5. PICK j \in Tasks : j = k /\ CoreOf[j] = c /\ ports[j] = p.port
    BY <2>4
  <2>6. p \in Packet
    BY <1>1, <2>1, QueueFacts DEF NocType
  <2> HIDE DEF reason, k, owners
  <2>7. ports[j] = PortOf[j] /\ tqueue[j] # NULL
    <3>1. p.port # 0
      BY <2>6, RolesAssumption DEF Packet
    <3> QED
      BY <2>1, <2>5, <3>1 DEF Shape, QueueShape
  <2>8. tqueue[j] \in Seq(Packet)
    BY <2>1, <2>3, <2>5, <2>7 DEF NocType, NoQueue
  <2>9. Append(tqueue[j], p) \in Seq(Packet)
    BY <2>6, <2>8
  <2>10. tqueue' = [tqueue EXCEPT ![j] = Append(tqueue[j], p)]
    BY <1>1, <1>3, <2>5
  <2> HIDE DEF kept, p
  <2>11. tqueue'[j] = Append(tqueue[j], p) /\ (\A t \in Tasks \ {j} : tqueue'[t] = tqueue[t])
    BY <2>1, <2>10 DEF NocType
  <2>12. Queue(j) = tqueue[j] /\ Queue(j)' = Append(tqueue[j], p)
    BY <2>8, <2>9, <2>11, QueueIs, QueueBecomes
  <2>13. \A t \in Tasks \ {j} : Still(t)
    BY <1>1, <2>11, StillIfUntouched
  <2>14. p.wellformed
    BY <1>3 DEF kept
  <2> QED
    BY <1>1, <2>5, <2>7, <2>12, <2>13, <2>14 DEF p
<1> QED
  BY <1>2, <1>3

-----------------------------------------------------------------------------
(* The packets of M stay alone on their way to t. *)

Fits(t, link, M, n, x) ==
    /\ t \in Tasks /\ link \in Links /\ n \in Nat \ {0}
    /\ \A k \in Links : \A i \in 1..Len(net[k]) :
           net[k][i] \in M /\ k[2] = CoreOf[t] /\ net[k][i].port = PortOf[t] => k = link
    /\ \A p \in ForTask(t) : p.source = x /\ p.seq = n => p \in M

Flows(t, link, M, n, x, m) ==
    /\ PipeAlone(t, link, M, n, x, m)'
    /\ PipeExists(t, link, M, n, x)' => PipeExists(t, link, M, n, x)

LEMMA StillFlows ==
    ASSUME NEW t, NEW link, NEW M, NEW n, NEW x, NEW m, PipeAlone(t, link, M, n, x, m),
           Still(t), net'[link] = net[link]
    PROVE  Flows(t, link, M, n, x, m)
BY DEF Flows, PipeAlone, PipeExists, Still

LEMMA TurnFlows ==
    ASSUME BufferInv, NEW t \in Tasks, NEW link, NEW M, NEW n, NEW x, NEW m, PipeAlone(t, link, M, n, x, m),
           Turns(t), net' = net
    PROVE  Flows(t, link, M, n, x, m)
<1>1. Queue(t) \in Seq(Packet)
  BY PacketTypes
<1> QED
  BY <1>1, PipeRotate DEF Flows, PipeAlone, PipeExists, Turns

LEMMA TakeFlows ==
    ASSUME BufferInv, NEW t \in Tasks, NEW link, NEW M, NEW n, NEW x, NEW m, PipeAlone(t, link, M, n, x, m),
           NEW z \in {Queue(t), Rotated(Queue(t))}, Takes(t, z), net' = net
    PROVE  Flows(t, link, M, n, x, m)
<1> DEFINE q == Queue(t)
           l == net[link]
           g == call[t].got
<1>1. q \in Seq(Packet) /\ q # << >> /\ call[t].buf = << >>
  BY PacketTypes DEF Takes
<1>2. Alone(l, q, << >>, g, M, n, x, m)
  BY <1>1 DEF PipeAlone
<1>3. Rotated(q) \in Seq(Packet) /\ Rotated(q) # << >>
  BY <1>1, QueueFacts
<1>4. Alone(l, z, << >>, g, M, n, x, m) /\ (Exists(l, z, << >>, g, M, n, x) => Exists(l, q, << >>, g, M, n, x))
  BY <1>1, <1>2, PipeRotate
<1>5. z \in Seq(Packet) /\ z # << >>
  BY <1>1, <1>3
<1>6. /\ Alone(l, Tail(z), <<Head(z)>>, g, M, n, x, m)
      /\ Exists(l, Tail(z), <<Head(z)>>, g, M, n, x) => Exists(l, z, << >>, g, M, n, x)
  BY <1>4, <1>5, PipeTake
<1> QED
  BY <1>1, <1>4, <1>6 DEF Flows, PipeAlone, PipeExists, Takes

LEMMA CopyFlows ==
    ASSUME BufferInv, Routes, NEW u \in Tasks, recv_copy(u),
           NEW t, NEW link, NEW M, NEW n, NEW x, NEW m, PipeAlone(t, link, M, n, x, m), Fits(t, link, M, n, x)
    PROVE  Flows(t, link, M, n, x, m)
<1>1. t \in Tasks
  BY DEF Fits
<1>2. CASE t # u
  BY <1>1, <1>2, CopyStep, StillFlows
<1>3. CASE t = u
  <2> DEFINE p == call[t].buf[1]
             y == [source |-> p.source, message |-> p.message, seq |-> p.seq]
  <2>1. /\ p \in Packet /\ call[t].buf = <<p>> /\ Queue(t)' = Queue(t)
        /\ call'[t].buf = << >> /\ call'[t].got = Append(call[t].got, y) /\ net' = net
    BY <1>3, CopyStep
  <2>2. p \in ForTask(t)
    <3>1. \A z : Len(<<z>>) = 1
      OBVIOUS
    <3>2. Len(call[t].buf) = 1
      BY <2>1, <3>1, Zenon
    <3> QED
      BY <1>1, <3>2 DEF Routes, All
  <2>3. call[t].got \in Seq(Copied) /\ n \in Nat \ {0} /\ (p.source = x /\ p.seq = n => p \in M)
    BY <1>1, <2>2, PacketTypes DEF Fits
  <2> HIDE DEF p
  <2>4. Alone(net[link], Queue(t), <<p>>, call[t].got, M, n, x, m)
    BY <2>1 DEF PipeAlone
  <2>5. /\ Alone(net[link], Queue(t), << >>, Append(call[t].got, y), M, n, x, m)
        /\ Exists(net[link], Queue(t), << >>, Append(call[t].got, y), M, n, x) =>
               Exists(net[link], Queue(t), <<p>>, call[t].got, M, n, x)
    BY <2>1, <2>3, <2>4, PipeCopy
  <2> HIDE DEF y
  <2> QED
    BY <2>1, <2>5 DEF Flows, PipeAlone, PipeExists
<1> QED
  BY <1>2, <1>3

LEMMA ResetFlows ==
    ASSUME BufferInv, NEW t \in Tasks, NEW link, NEW M, NEW n, NEW x, NEW m, PipeAlone(t, link, M, n, x, m),
           Fits(t, link, M, n, x), net'[link] = net[link],
           comm_drain(t) \/ Ends(t)
    PROVE  Flows(t, link, M, n, x, m) /\ (Ends(t) /\ GotAt(call[t].got, n, x) => ~PipeExists(t, link, M, n, x)')
<1>1. n \in Nat \ {0}
  BY DEF Fits
<1>2. /\ Alone(net[link], Queue(t), call[t].buf, << >>, M, n, x, m)
      /\ Exists(net[link], Queue(t), call[t].buf, << >>, M, n, x) => PipeExists(t, link, M, n, x)
      /\ GotAt(call[t].got, n, x) => ~Exists(net[link], Queue(t), call[t].buf, << >>, M, n, x)
      /\ Alone(net[link], << >>, call[t].buf, call[t].got, M, n, x, m)
      /\ Exists(net[link], << >>, call[t].buf, call[t].got, M, n, x) => PipeExists(t, link, M, n, x)
  BY <1>1, PipeReset DEF PipeAlone, PipeExists
<1>3. CASE Ends(t)
  BY <1>2, <1>3 DEF Ends, Flows, PipeAlone, PipeExists
<1>4. CASE ~Ends(t)
  BY <1>2, <1>4, DrainStep DEF Flows, PipeAlone, PipeExists
<1> QED
  BY <1>3, <1>4

LEMMA IsrFlows ==
    ASSUME BufferInv, Routes, NEW k \in Links, ni_isr(k),
           NEW t, NEW link, NEW M, NEW n, NEW x, NEW m, PipeAlone(t, link, M, n, x, m), Fits(t, link, M, n, x)
    PROVE  Flows(t, link, M, n, x, m)
<1> DEFINE p == Head(net[k])
<1>1. t \in Tasks /\ link \in Links
  BY DEF Fits
<1>2. /\ net[k] # << >> /\ net' = [net EXCEPT ![k] = Tail(@)] /\ call' = call
      /\ \/ \A u \in Tasks : Still(u)
         \/ \E j \in Tasks : /\ CoreOf[j] = k[2] /\ PortOf[j] = p.port /\ p.wellformed
                             /\ Queue(j)' = Append(Queue(j), p)
                             /\ \A u \in Tasks \ {j} : Still(u)
  BY IsrStep
<1>3. net \in [Links -> Seq(Packet)] /\ net[k] \in Seq(Packet) /\ net[link] \in Seq(Packet) /\ Queue(t) \in Seq(Packet)
  BY <1>1, PacketTypes
<1>4. p \in Packet /\ p = net[k][1] /\ 1 \in 1..Len(net[k])
  BY <1>2, <1>3
<1>5. call'[t].buf = call[t].buf /\ call'[t].got = call[t].got
  BY <1>2
<1>6. Queue(t)' = Queue(t) \/ (Queue(t)' = Append(Queue(t), p) /\ CoreOf[t] = k[2] /\ PortOf[t] = p.port)
  BY <1>1, <1>2 DEF Still
<1>7. CASE link = k
  <2>1. net'[link] = Tail(net[link]) /\ p = Head(net[link]) /\ net[link] # << >>
    BY <1>2, <1>3, <1>7
  <2>2. Queue(t)' \in {Queue(t), Append(Queue(t), Head(net[link]))}
    BY <1>6, <2>1
  <2> QED
    BY <1>3, <1>5, <2>1, <2>2, PipeArrive DEF Flows, PipeAlone, PipeExists
<1>8. CASE link # k
  <2>1. net'[link] = net[link]
    BY <1>1, <1>2, <1>3, <1>8
  <2>2. CASE Queue(t)' = Queue(t)
    BY <1>5, <2>1, <2>2, StillFlows DEF Still
  <2>3. CASE Queue(t)' = Append(Queue(t), p) /\ CoreOf[t] = k[2] /\ PortOf[t] = p.port
    <3>1. p \notin M
      BY <1>4, <1>8, <2>3 DEF Fits
    <3> HIDE DEF p
    <3> QED
      BY <1>3, <1>4, <1>5, <2>1, <2>3, <3>1, PipeForeign DEF Flows, PipeAlone, PipeExists
  <2> QED
    BY <1>6, <2>2, <2>3
<1> QED
  BY <1>7, <1>8

(* A packet is written to the link k. *)
Writes(k, p) == net' = [net EXCEPT ![k] = Append(@, p)]

LEMMA WriteFlows ==
    ASSUME BufferInv, NEW k, NEW p \in Packet, Writes(k, p), NEW t, Still(t),
           NEW link, NEW M, NEW n, NEW x, NEW m, PipeAlone(t, link, M, n, x, m), Fits(t, link, M, n, x),
           k = link => p \notin M
    PROVE  Flows(t, link, M, n, x, m)
<1>1. t \in Tasks /\ link \in Links
  BY DEF Fits
<1>2. net \in [Links -> Seq(Packet)] /\ net[link] \in Seq(Packet) /\ Queue(t) \in Seq(Packet)
  BY <1>1, PacketTypes
<1>3. CASE k = link
  <2>1. net'[link] = Append(net[link], p)
    BY <1>1, <1>2, <1>3 DEF Writes
  <2> QED
    BY <1>2, <1>3, <2>1, PipeForeign DEF Flows, PipeAlone, PipeExists, Still
<1>4. CASE k # link
  <2>1. net'[link] = net[link]
    BY <1>1, <1>2, <1>4 DEF Writes
  <2> QED
    BY <2>1, StillFlows
<1> QED
  BY <1>3, <1>4

LEMMA SenderFacts ==
    ASSUME NEW s \in Senders
    PROVE  /\ s \in Tasks /\ TargetOf[s] \in Receivers /\ TargetOf[s] \in Tasks /\ TargetOf[s] \notin Senders
           /\ ChannelOf[s] \in Nat /\ ChannelOf[s] # AckChannel
           /\ DataLink(s) \in Links /\ AckLink(s) \in Links
           /\ DataLink(s)[1] = CoreOf[s] /\ DataLink(s)[2] = CoreOf[TargetOf[s]]
           /\ AckLink(s)[1] = CoreOf[TargetOf[s]] /\ AckLink(s)[2] = CoreOf[s]
<1>1. /\ s \in Tasks /\ TargetOf[s] \in Receivers /\ TargetOf[s] \in Tasks /\ TargetOf[s] \notin Senders
      /\ ChannelOf[s] \in Nat /\ ChannelOf[s] # AckChannel
  BY RolesAssumption, AddressesAssumption
<1>2. DataLink(s) \in Links /\ AckLink(s) \in Links
  BY DEF Links, DataLink, AckLink
<1> QED
  BY <1>1, <1>2 DEF DataLink, AckLink

LEMMA FitsData ==
    ASSUME Routes, NEW s \in Senders, NEW n \in 1..Packets
    PROVE  Fits(TargetOf[s], DataLink(s), Data(s, n), n, s)
<1>1. TargetOf[s] \in Tasks /\ DataLink(s) \in Links /\ n \in Nat \ {0}
  BY SenderFacts
<1>2. ASSUME NEW k \in Links, NEW i \in 1..Len(net[k]), net[k][i] \in Data(s, n) PROVE k = DataLink(s)
  <2>1. Routed(net[k][i], k) /\ net[k][i].source = s /\ net[k][i].channel # AckChannel
    BY <1>2, SenderFacts DEF Routes, All, OnLink, Data
  <2> QED
    BY <2>1 DEF Routed, IsAck
<1>3. ASSUME NEW p \in ForTask(TargetOf[s]), p.source = s, p.seq = n PROVE p \in Data(s, n)
  <2>1. p \in Packet /\ Addressed(p, TargetOf[s])
    BY <1>3 DEF ForTask
  <2> QED
    BY <1>3, <2>1, SenderFacts DEF Addressed, IsData, Data
<1> QED
  BY <1>1, <1>2, <1>3 DEF Fits

LEMMA FitsAck ==
    ASSUME Routes, NEW s \in Senders
    PROVE  Fits(s, AckLink(s), Acks(s), 1, TargetOf[s])
<1>1. s \in Tasks /\ AckLink(s) \in Links /\ 1 \in Nat \ {0}
  BY SenderFacts
<1>2. ASSUME NEW k \in Links, NEW i \in 1..Len(net[k]), net[k][i] \in Acks(s), k[2] = CoreOf[s]
      PROVE  k = AckLink(s)
  <2>1. Routed(net[k][i], k) /\ IsAck(net[k][i], s)
    BY <1>2 DEF Routes, All, OnLink, Acks
  <2>2. ~IsData(net[k][i])
    BY <2>1, SenderFacts DEF IsAck, IsData
  <2>3. PICK u \in Senders : IsAck(net[k][i], u) /\ k = AckLink(u)
    BY <2>1, <2>2 DEF Routed
  <2>4. PortOf[u] = PortOf[s] /\ CoreOf[u] = CoreOf[s]
    BY <1>2, <2>1, <2>3, SenderFacts DEF IsAck
  <2>5. u = s
    BY <2>4, SenderFacts, AddressesAssumption
  <2> QED
    BY <2>3, <2>5
<1>3. ASSUME NEW p \in ForTask(s) PROVE p \in Acks(s)
  <2>1. p \in Packet /\ Addressed(p, s)
    BY DEF ForTask
  <2>2. ~(IsData(p) /\ TargetOf[p.source] = s)
    BY SenderFacts DEF IsData
  <2> QED
    BY <2>1, <2>2 DEF Addressed, Acks
<1> QED
  BY <1>1, <1>2, <1>3 DEF Fits

-----------------------------------------------------------------------------
(* Packets go where they are sent. *)

(* The packets of t after a step are packets it had. *)
LEMMA RoutesStill ==
    ASSUME NEW t, All(Queue(t), ForTask(t)), All(call[t].buf, ForTask(t)), Still(t)
    PROVE  All(Queue(t)', ForTask(t)) /\ All(call'[t].buf, ForTask(t))
BY DEF Still

LEMMA RoutesKeep ==
    ASSUME BufferInv, Routes, \A t \in Tasks : Reception(t), NEW u \in Tasks,
           Quiet(u) \/ comm_drain(u) \/ recv_first(u) \/ recv_next(u) \/ recv_copy(u) \/ ack_return(u)
    PROVE  Routes'
<1>1. net' = net
  BY QuietStep, DrainStep, FirstStep, NextStep, CopyStep DEF ack_return
<1>2. ASSUME NEW t \in Tasks PROVE All(Queue(t)', ForTask(t)) /\ All(call'[t].buf, ForTask(t))
  <2>1. All(Queue(t), ForTask(t)) /\ All(call[t].buf, ForTask(t)) /\ Queue(t) \in Seq(Packet)
    BY PacketTypes DEF Routes
  <2>2. CASE Still(t)
    BY <2>1, <2>2, RoutesStill
  <2>3. CASE comm_drain(u) /\ t = u
    BY <2>1, <2>3, DrainStep, AllFacts
  <2>4. CASE (recv_first(u) \/ recv_next(u)) /\ t = u
    <3>1. Turns(t) \/ (\E z \in {Queue(t), Rotated(Queue(t))} : Takes(t, z))
      BY <2>4, FirstStep, NextStep
    <3>2. CASE Turns(t)
      BY <2>1, <3>2, AllFacts DEF Turns
    <3>3. CASE Takes(t, Queue(t))
      BY <2>1, <3>3, AllFacts DEF Takes
    <3>4. CASE Takes(t, Rotated(Queue(t)))
      BY <2>1, <3>4, AllFacts DEF Takes
    <3> QED
      BY <3>1, <3>2, <3>3, <3>4
  <2>5. CASE recv_copy(u) /\ t = u
    BY <2>1, <2>5, CopyStep, AllFacts
  <2>6. CASE ack_return(u) /\ t = u
    BY <2>1, <2>6, EndStep DEF Ends
  <2> QED
    BY <2>2, <2>3, <2>4, <2>5, <2>6, QuietStep, DrainStep, FirstStep, NextStep, CopyStep, EndStep
<1> QED
  BY <1>1, <1>2 DEF Routes

LEMMA RoutesWrite ==
    ASSUME BufferInv, Routes, NEW k, NEW p \in Packet, k \in Links => Routed(p, k), Writes(k, p),
           \A t \in Tasks : Queue(t)' = Queue(t) /\ call'[t].buf = call[t].buf
    PROVE  Routes'
<1>1. net \in [Links -> Seq(Packet)]
  BY DEF BufferInv, NocType
<1>2. ASSUME NEW link \in Links PROVE All(net'[link], OnLink(link))
  <2>1. All(net[link], OnLink(link)) /\ net[link] \in Seq(Packet)
    BY <1>1 DEF Routes
  <2>2. CASE link = k
    <3>1. net'[link] = Append(net[link], p) /\ p \in OnLink(link)
      BY <1>1, <2>2 DEF Writes, OnLink
    <3> QED
      BY <2>1, <3>1, AllFacts
  <2>3. CASE link # k
    BY <1>1, <2>1, <2>3 DEF Writes
  <2> QED
    BY <2>2, <2>3
<1> QED
  BY <1>2 DEF Routes

LEMMA RoutesIsr ==
    ASSUME BufferInv, Routes, NEW k \in Links, ni_isr(k) PROVE Routes'
<1> DEFINE p == Head(net[k])
<1>1. /\ net[k] # << >> /\ net' = [net EXCEPT ![k] = Tail(@)] /\ call' = call
      /\ \/ \A u \in Tasks : Still(u)
         \/ \E j \in Tasks : /\ CoreOf[j] = k[2] /\ PortOf[j] = p.port /\ p.wellformed
                             /\ Queue(j)' = Append(Queue(j), p)
                             /\ \A u \in Tasks \ {j} : Still(u)
  BY IsrStep
<1>2. net \in [Links -> Seq(Packet)]
  BY DEF BufferInv, NocType
<1>3. All(Tail(net[k]), OnLink(k)) /\ p \in OnLink(k) /\ p \in Packet
  BY <1>1, <1>2, AllFacts DEF Routes, OnLink
<1>4. \A link \in Links : All(net'[link], OnLink(link))
  BY <1>1, <1>2, <1>3 DEF Routes
<1>5. ASSUME NEW j \in Tasks, CoreOf[j] = k[2], PortOf[j] = p.port, p.wellformed PROVE p \in ForTask(j)
  <2> HIDE DEF p
  <2>1. Routed(p, k)
    BY <1>3 DEF OnLink
  <2>2. CASE IsData(p) /\ k = DataLink(p.source)
    <3>1. p.source \in Senders /\ PortOf[TargetOf[p.source]] = PortOf[j] /\ CoreOf[TargetOf[p.source]] = CoreOf[j]
      BY <1>5, <2>2, SenderFacts DEF IsData
    <3>2. j = TargetOf[p.source]
      BY <3>1, SenderFacts, AddressesAssumption
    <3> QED
      BY <1>3, <1>5, <2>2, <3>2 DEF ForTask, Addressed
  <2>3. CASE \E s \in Senders : IsAck(p, s) /\ k = AckLink(s)
    <3>1. PICK s \in Senders : IsAck(p, s) /\ k = AckLink(s)
      BY <2>3
    <3>2. j = s
      BY <1>5, <3>1, SenderFacts, AddressesAssumption DEF IsAck
    <3> QED
      BY <1>3, <3>1, <3>2 DEF ForTask, Addressed
  <2> QED
    BY <2>1, <2>2, <2>3 DEF Routed
<1>6. ASSUME NEW t \in Tasks PROVE All(Queue(t)', ForTask(t)) /\ All(call'[t].buf, ForTask(t))
  <2>1. All(Queue(t), ForTask(t)) /\ All(call[t].buf, ForTask(t)) /\ Queue(t) \in Seq(Packet)
    BY PacketTypes DEF Routes
  <2>2. \/ Still(t)
        \/ /\ CoreOf[t] = k[2] /\ PortOf[t] = p.port /\ p.wellformed
           /\ Queue(t)' = Append(Queue(t), p)
    BY <1>1
  <2>3. CASE Still(t)
    BY <2>1, <2>3, RoutesStill
  <2>4. CASE /\ CoreOf[t] = k[2] /\ PortOf[t] = p.port /\ p.wellformed
             /\ Queue(t)' = Append(Queue(t), p)
    <3>1. p \in ForTask(t)
      BY <1>5, <2>4
    <3>2. call'[t].buf = call[t].buf
      BY <1>1
    <3>3. All(Append(Queue(t), p), ForTask(t))
      BY <1>3, <2>1, <3>1, AllFacts, Zenon
    <3> HIDE DEF p
    <3> QED
      BY <2>1, <2>4, <3>2, <3>3
  <2> QED
    BY <2>2, <2>3, <2>4
<1> QED
  BY <1>4, <1>6 DEF Routes

LEMMA SendStep ==
    ASSUME BufferInv, NEW u \in Tasks, send_packet(u)
    PROVE  /\ u \in Senders /\ call[u].pc = "send" /\ call[u].packet \in 1..Packets
           /\ \A t \in Tasks : Still(t)
           /\ \A t \in Tasks \ {u} : call'[t] = call[t]
           /\ call'[u].message = call[u].message
           /\ IF call[u].packet < Packets THEN call'[u].pc = "send" /\ call'[u].packet = call[u].packet + 1
              ELSE call'[u].pc = "wait_ack"
           /\ \E p \in Packet : /\ Writes(DataLink(u), p) /\ IsData(p) /\ p.wellformed
                                /\ p.source = u /\ p.seq = call[u].packet /\ p.message = call[u].message
<1> DEFINE to == TargetOf[u]
           p == [source |-> u, port |-> PortOf[to], channel |-> ChannelOf[u],
                 seq |-> call[u].packet, packets |-> Packets,
                 message |-> call[u].message, wellformed |-> TRUE]
           c == IF call[u].packet < Packets THEN [call[u] EXCEPT !.packet = @ + 1]
                ELSE [call[u] EXCEPT !.pc = "wait_ack", !.packet = 0]
<1>1. /\ call \in [Tasks -> Call] /\ call[u] \in Call /\ CallShape(u) /\ RoleShape(u) /\ net \in [Links -> Seq(Packet)]
  BY PacketTypes, Facts
<1>2. u \in Senders /\ call[u].pc = "send" /\ call[u].packet \in 1..Packets
  BY <1>1 DEF send_packet, At, RoleShape, CallShape
<1>3. to \in Tasks /\ ChannelOf[u] \in Nat /\ call[u].message \in Nat /\ Packets \in 1..Packets
  BY <1>1, <1>2, SenderFacts, SizesAssumption DEF Call
<1>4. p \in Packet
  BY <1>2, <1>3, PortPacket DEF Packet
<1>5. IsData(p)
  BY <1>2 DEF IsData
<1>6. Set(u, c) /\ tqueue' = tqueue /\ Writes(DataLink(u), p)
  BY DEF send_packet, ni_write_packet, Writes, DataLink
<1>7. call'[u] = c /\ \A t \in Tasks \ {u} : call'[t] = call[t]
  BY <1>1, <1>6 DEF Set
<1>8. /\ c.buf = call[u].buf /\ c.got = call[u].got /\ c.message = call[u].message
      /\ IF call[u].packet < Packets THEN c.pc = "send" /\ c.packet = call[u].packet + 1 ELSE c.pc = "wait_ack"
  BY <1>1, <1>2 DEF Call
<1> HIDE DEF c
<1>9. \A t \in Tasks : Still(t)
  BY <1>6, <1>7, <1>8 DEF Still, Queue
<1>10. p.wellformed /\ p.source = u /\ p.seq = call[u].packet /\ p.message = call[u].message
  OBVIOUS
<1> HIDE DEF p
<1> QED
  BY <1>2, <1>4, <1>5, <1>6, <1>7, <1>8, <1>9, <1>10

LEMMA ReturnStep ==
    ASSUME BufferInv, NEW u \in Tasks, Reception(u), recv_return(u)
    PROVE  LET s == call[u].got[1].source
           IN /\ u \in Receivers /\ s \in Senders /\ TargetOf[s] = u
              /\ GotAt(call[u].got, 1, s)
              /\ \/ net' = net
                 \/ /\ ~call[u].error
                    /\ \E p \in Packet : Writes(AckLink(s), p) /\ IsAck(p, s) /\ p.message = call[u].got[1].message
<1> DEFINE first == call[u].got[1]
           s == first.source
           p == [source |-> u, port |-> PortOf[s], channel |-> AckChannel, seq |-> 1,
                 packets |-> 1, message |-> first.message, wellformed |-> TRUE]
<1>1. /\ call[u] \in Call /\ CallShape(u) /\ call[u].got \in Seq(Copied)
  BY PacketTypes, Facts
<1>2. u \in Receivers /\ u \notin Senders /\ call[u].got # << >>
  BY <1>1, RolesAssumption DEF recv_return, At, CallShape
<1>3. s \in Senders /\ TargetOf[s] = u /\ first.seq = 1
  BY <1>2 DEF Reception, Origin
<1>4. GotAt(call[u].got, 1, s)
  <2>1. 1 <= Len(call[u].got)
    BY <1>1, <1>2
  <2> QED
    BY <1>3, <2>1 DEF GotAt
<1>5. first \in Copied
  BY <1>1, <1>2
<1>6. p \in Packet
  <2>1. s \in Tasks /\ first.message \in Nat /\ 1 \in 1..Packets /\ AckChannel \in Nat
    BY <1>3, <1>5, SenderFacts, SizesAssumption DEF Copied, AckChannel
  <2> HIDE DEF first, s
  <2> QED
    BY <2>1, PortPacket DEF Packet
<1>7. IsAck(p, s)
  BY <1>3 DEF IsAck
<1>8. net' = net \/ (~call[u].error /\ Writes(AckLink(s), p))
  BY <1>3 DEF recv_return, ni_write_packet, Writes, AckLink
<1>9. p.message = first.message
  OBVIOUS
<1> HIDE DEF p
<1> QED
  BY <1>2, <1>3, <1>4, <1>6, <1>7, <1>8, <1>9

LEMMA MalformedStep ==
    ASSUME BufferInv, NEW link \in Links, Malformed(link)
    PROVE  /\ \A t \in Tasks : Still(t) /\ call' = call
           /\ \E p \in Packet : Writes(link, p) /\ Routed(p, link) /\ ~p.wellformed
<1>1. PICK s \in Senders :
         /\ link = <<CoreOf[s], CoreOf[TargetOf[s]]>>
         /\ net' = [net EXCEPT ![link] =
                    Append(@, [source |-> s, port |-> PortOf[TargetOf[s]], channel |-> ChannelOf[s], seq |-> 1,
                               packets |-> Packets, message |-> 1, wellformed |-> FALSE])]
  BY DEF Malformed
<1> DEFINE p == [source |-> s, port |-> PortOf[TargetOf[s]], channel |-> ChannelOf[s], seq |-> 1,
                 packets |-> Packets, message |-> 1, wellformed |-> FALSE]
<1>2. p \in Packet
  <2>1. s \in Tasks /\ TargetOf[s] \in Tasks /\ ChannelOf[s] \in Nat
    BY SenderFacts
  <2>2. 1 \in 1..Packets /\ Packets \in 1..Packets
    BY SizesAssumption
  <2> QED
    BY <2>1, <2>2, PortPacket DEF Packet
<1>3. Routed(p, link) /\ ~p.wellformed
  BY <1>1 DEF Routed, IsData, DataLink
<1>4. Writes(link, p)
  BY <1>1 DEF Writes
<1>5. \A t \in Tasks : Still(t) /\ call' = call
  BY DEF Malformed, Still, Queue
<1> HIDE DEF p
<1> QED
  BY <1>2, <1>3, <1>4, <1>5

LEMMA RoutesNext ==
    ASSUME BufferInv, RouteInv, Next PROVE Routes'
<1>1. Routes /\ \A t \in Tasks : Reception(t)
  BY DEF RouteInv
<1>2. ASSUME NEW u \in Tasks, send_packet(u) PROVE Routes'
  <2>1. PICK p \in Packet : Writes(DataLink(u), p) /\ IsData(p) /\ p.source = u
    BY <1>2, SendStep
  <2>2. Routed(p, DataLink(u))
    BY <2>1 DEF Routed
  <2>3. \A t \in Tasks : Queue(t)' = Queue(t) /\ call'[t].buf = call[t].buf
    BY <1>2, SendStep DEF Still
  <2> QED
    BY <1>1, <2>1, <2>2, <2>3, RoutesWrite
<1>3. ASSUME NEW u \in Tasks, recv_return(u) PROVE Routes'
  <2> DEFINE s == call[u].got[1].source
  <2>1. /\ s \in Senders
        /\ \/ net' = net
           \/ \E p \in Packet : Writes(AckLink(s), p) /\ IsAck(p, s)
    BY <1>1, <1>3, ReturnStep
  <2> HIDE DEF s
  <2>2. \A t \in Tasks : Queue(t)' = Queue(t) /\ call'[t].buf = call[t].buf
    BY <1>3, EndStep DEF Still, Ends
  <2>3. CASE net' = net
    BY <1>1, <2>2, <2>3 DEF Routes
  <2>4. CASE \E p \in Packet : Writes(AckLink(s), p) /\ IsAck(p, s)
    <3>1. PICK p \in Packet : Writes(AckLink(s), p) /\ IsAck(p, s)
      BY <2>4
    <3>2. Routed(p, AckLink(s))
      BY <2>1, <3>1 DEF Routed
    <3> QED
      BY <1>1, <2>2, <3>1, <3>2, RoutesWrite
  <2> QED
    BY <2>1, <2>3, <2>4
<1>4. ASSUME NEW k \in Links, Malformed(k) PROVE Routes'
  BY <1>1, <1>4, MalformedStep, RoutesWrite DEF Still
<1>5. ASSUME NEW k \in Links, ni_isr(k) PROVE Routes'
  BY <1>1, <1>5, RoutesIsr
<1>6. ASSUME NEW u \in Tasks,
             Quiet(u) \/ comm_drain(u) \/ recv_first(u) \/ recv_next(u) \/ recv_copy(u) \/ ack_return(u)
      PROVE  Routes'
  BY <1>1, <1>6, RoutesKeep
<1> QED
  BY <1>2, <1>3, <1>4, <1>5, <1>6 DEF Next, Step, Destroy, Quiet

-----------------------------------------------------------------------------
(* What hf_recv() has got. *)

LEMMA ReceptionFrame ==
    ASSUME NEW t, Reception(t), call'[t] = call[t], incidents \subseteq incidents'
    PROVE  Reception(t)'
BY ZenonT(40) DEF Reception, Origin

LEMMA ReceptionNone ==
    ASSUME NEW t, call'[t].pc \notin Receiving, call'[t].got = << >>
    PROVE  Reception(t)'
<1>1. /\ call'[t].pc \notin Copying /\ call'[t].pc # "recv_first" /\ call'[t].pc # "copy"
      /\ call'[t].pc # "recv_next" /\ call'[t].pc # "returned"
  BY DEF Receiving, Copying
<1>2. \A i \in 1..Len(call'[t].got) : FALSE
  OBVIOUS
<1> QED
  BY <1>1, <1>2 DEF Reception

LEMMA ReceptionBegins ==
    ASSUME NEW t, call'[t].pc = "recv_first", call'[t].got = << >>, call'[t].seq = 0,
           t \in Senders <=> call'[t].channel = AckChannel
    PROVE  Reception(t)'
BY DEF Reception, Copying

(* A packet that was looked for comes from where it should. *)
LEMMA WantedOrigin ==
    ASSUME NEW t \in Tasks, NEW p \in ForTask(t), p.channel = call[t].channel,
           t \in Senders <=> call[t].channel = AckChannel
    PROVE  Origin(t, p) /\ p.packets = Whole(t) /\ p.source \in Tasks
<1>1. Addressed(p, t)
  BY DEF ForTask
<1>2. CASE t \in Senders
  <2>1. ~(IsData(p) /\ TargetOf[p.source] = t)
    BY <1>2, SenderFacts DEF IsData
  <2> QED
    BY <1>1, <1>2, <2>1, SenderFacts DEF Addressed, IsAck, Origin, Whole
<1>3. CASE t \notin Senders
  BY <1>1, <1>3, SenderFacts DEF Addressed, IsData, Origin, Whole
<1> QED
  BY <1>2, <1>3

LEMMA ReceptionFirst ==
    ASSUME BufferInv, RouteInv, NEW t \in Tasks, recv_first(t) PROVE Reception(t)'
<1>1. Routes /\ Reception(t) /\ call \in [Tasks -> Call] /\ call[t] \in Call /\ QueueShape(t) /\ RoleShape(t)
  BY PacketTypes, Facts DEF RouteInv
<1> DEFINE p == Head(tqueue[t])
<1>2. tqueue[t] \in Seq(Packet) /\ tqueue[t] # << >> /\ call[t].pc = "recv_first"
  BY <1>1 DEF recv_first, At, QueueShape, Serving, InCall, Receiving
<1>3. call[t].seq = 0 /\ (t \in Senders <=> call[t].channel = AckChannel)
  BY <1>1, <1>2 DEF Reception, Receiving
<1>4. p \in ForTask(t)
  <2>1. All(tqueue[t], ForTask(t))
    BY <1>1, <1>2, QueueIs DEF Routes
  <2> QED
    BY <1>2, <2>1, AllFacts
<1>5. CASE ~Wanted(p, call[t].channel, call[t].seq + 1)
  BY <1>1, <1>5, ReceptionFrame DEF recv_first
<1>6. CASE Wanted(p, call[t].channel, call[t].seq + 1)
  <2>1. p.channel = call[t].channel /\ p.seq = 1
    BY <1>3, <1>6 DEF Wanted
  <2>2. p.packets = Whole(t)
    BY <1>3, <1>4, <2>1, WantedOrigin
  <2> DEFINE c == [call[t] EXCEPT !.pc = "copy", !.buf = <<p>>, !.seq = p.seq, !.packet = 1,
                                  !.packets = p.packets, !.got = << >>, !.error = FALSE]
  <2>3. call'[t] = c
    BY <1>1, <1>6 DEF recv_first, Set
  <2>4. /\ c.pc = "copy" /\ c.buf = <<p>> /\ c.seq = 1 /\ c.packet = 1 /\ c.packets = Whole(t)
        /\ c.got = << >> /\ c.channel = call[t].channel
    BY <1>1, <2>1, <2>2 DEF Call
  <2> HIDE DEF c
  <2>5. 1 \in 1..Whole(t)
    BY SizesAssumption DEF Whole
  <2>6. c.buf[1] = p /\ Wanted(p, c.channel, 1)
    BY <2>1, <2>4 DEF Wanted
  <2> QED
    BY <1>3, <2>3, <2>4, <2>5, <2>6 DEF Reception, Copying, Receiving
<1> QED
  BY <1>5, <1>6

LEMMA ReceptionNextPacket ==
    ASSUME BufferInv, RouteInv, NEW t \in Tasks, recv_next(t) PROVE Reception(t)'
<1>1. Routes /\ Reception(t) /\ call \in [Tasks -> Call] /\ call[t] \in Call /\ QueueShape(t)
      /\ call[t].got \in Seq(Copied)
  BY PacketTypes, Facts DEF RouteInv
<1> DEFINE wanted == Wanted(Head(tqueue[t]), call[t].channel, call[t].seq)
           z == IF wanted THEN tqueue[t] ELSE Rotated(tqueue[t])
           gives_up == ~wanted /\ call[t].turns > TurnLimit
<1>2. call[t].pc = "recv_next"
  BY DEF recv_next, At
<1>3. /\ call[t].packets = Whole(t) /\ (t \in Senders <=> call[t].channel = AckChannel)
      /\ Len(call[t].got) = call[t].packet - 1 /\ call[t].packet \in 1..call[t].packets
      /\ call[t].seq = call[t].packet /\ call[t].got # << >>
      /\ call[t].got[1].seq = 1 /\ Origin(t, call[t].got[1])
      /\ "gave up" \notin incidents => \A i \in 1..Len(call[t].got) : Origin(t, call[t].got[i])
      /\ ~call[t].error => \A i \in 1..Len(call[t].got) : call[t].got[i].seq = i
  BY <1>1, <1>2 DEF Reception, Receiving, Copying
<1>4. call[t].packet # 1
  <2>1. \A g \in Seq(Copied) : g # << >> => Len(g) # 0
    OBVIOUS
  <2>2. Len(call[t].got) # 0
    BY <1>1, <1>3, <2>1, Zenon
  <2>3. Len(call[t].got) = call[t].packet - 1
    BY <1>3
  <2> QED
    BY <2>2, <2>3
<1>5. incidents \subseteq incidents' /\ (gives_up => "gave up" \in incidents')
  BY DEF recv_next
<1>6. CASE wanted \/ gives_up
  <2> DEFINE c == [call[t] EXCEPT !.pc = "copy", !.buf = <<Head(z)>>, !.turns = 0]
  <2>1. call'[t] = c
    BY <1>1, <1>6 DEF recv_next, Set
  <2>2. /\ c.pc = "copy" /\ c.buf[1] = Head(z) /\ c.seq = call[t].seq /\ c.packet = call[t].packet
        /\ c.packets = call[t].packets /\ c.got = call[t].got /\ c.channel = call[t].channel /\ c.error = call[t].error
    <3> HIDE DEF z
    <3> QED
      BY <1>1 DEF Call
  <2>3. "gave up" \notin incidents' => Wanted(c.buf[1], c.channel, c.seq)
    BY <1>5, <1>6, <2>2
  <2>4. \A x : Origin(t, x) => Origin(t, x)'
    BY <2>1, <2>2 DEF Origin
  <2>5. call[t].got[1].seq = 1 /\ Origin(t, call[t].got[1])'
    BY <1>3, <2>1, <2>2 DEF Origin
  <2>6. "gave up" \notin incidents' => \A i \in 1..Len(c.got) : Origin(t, call[t].got[i])'
    BY <1>3, <1>5, <2>1, <2>2, ZenonT(40) DEF Origin
  <2> HIDE DEF c
  <2> QED
    BY <1>3, <1>4, <1>5, <2>1, <2>2, <2>3 DEF Reception, Receiving, Copying, Origin
<1>7. CASE ~(wanted \/ gives_up)
  <2> DEFINE c == [call[t] EXCEPT !.turns = @ + 1]
  <2>1. call'[t] = c
    BY <1>1, <1>7 DEF recv_next, Set
  <2>2. /\ c.pc = "recv_next" /\ c.seq = call[t].seq /\ c.packet = call[t].packet
        /\ c.packets = call[t].packets /\ c.got = call[t].got /\ c.channel = call[t].channel /\ c.error = call[t].error
    BY <1>1, <1>2 DEF Call
  <2> HIDE DEF c
  <2> QED
    BY <1>3, <1>5, <2>1, <2>2 DEF Reception, Receiving, Copying, Origin
<1> QED
  BY <1>6, <1>7

LEMMA ReceptionCopy ==
    ASSUME BufferInv, RouteInv, NEW t \in Tasks, recv_copy(t) PROVE Reception(t)'
<1>1. Routes /\ Reception(t) /\ call \in [Tasks -> Call] /\ call[t] \in Call /\ call[t].got \in Seq(Copied)
  BY PacketTypes DEF RouteInv
<1> DEFINE p == call[t].buf[1]
           x == [source |-> p.source, message |-> p.message, seq |-> p.seq]
           g == call[t].got
           h == Append(g, x)
           copied == [call[t] EXCEPT !.buf = << >>, !.seq = @ + 1, !.error = @ \/ p.seq # call[t].seq,
                                     !.got = Append(@, x)]
           c == IF call[t].packet < call[t].packets
                THEN [copied EXCEPT !.pc = "recv_next", !.packet = @ + 1, !.turns = 0]
                ELSE [copied EXCEPT !.pc = "returned"]
<1>2. p \in Packet /\ call[t].buf = <<p>> /\ incidents' = incidents
  BY CopyStep DEF recv_copy
<1>3. p \in ForTask(t)
  <2>1. \A z : Len(<<z>>) = 1
    OBVIOUS
  <2>2. Len(call[t].buf) = 1
    BY <1>2, <2>1, Zenon
  <2> QED
    BY <1>1, <2>2 DEF Routes, All
<1>4. /\ call[t].pc = "copy" /\ call[t].packets = Whole(t) /\ (t \in Senders <=> call[t].channel = AckChannel)
      /\ Len(g) = call[t].packet - 1 /\ call[t].packet \in 1..call[t].packets
      /\ call[t].seq = call[t].packet
      /\ (call[t].packet = 1 \/ "gave up" \notin incidents) => Wanted(p, call[t].channel, call[t].seq)
  BY <1>1 DEF recv_copy, At, Reception, Receiving, Copying
<1>5. /\ g # << >> => g[1].seq = 1 /\ Origin(t, g[1])
      /\ "gave up" \notin incidents => \A i \in 1..Len(g) : Origin(t, g[i])
      /\ ~call[t].error => \A i \in 1..Len(g) : g[i].seq = i
  BY <1>1 DEF Reception
<1>6. call'[t] = c
  BY <1>1 DEF recv_copy, Set
<1>7. x \in Copied /\ x.source = p.source /\ x.seq = p.seq
  BY <1>2 DEF Packet, Copied
<1> HIDE DEF p, x
<1>8. /\ c.got = h /\ c.channel = call[t].channel /\ c.packets = call[t].packets
      /\ c.error = (call[t].error \/ p.seq # call[t].seq)
      /\ c.seq = call[t].seq + 1
      /\ \/ /\ call[t].packet < call[t].packets /\ c.pc = "recv_next" /\ c.packet = call[t].packet + 1
         \/ ~(call[t].packet < call[t].packets) /\ c.pc = "returned"
  BY <1>1 DEF Call
<1>9. /\ Len(g) \in Nat /\ Len(h) = Len(g) + 1 /\ h[Len(g) + 1] = x /\ h # << >>
      /\ \A i \in 1..Len(g) : h[i] = g[i]
  BY <1>1, <1>7
<1> HIDE DEF c, h, g, copied
<1>10. /\ Len(h) = call[t].packet /\ call[t].packet = Len(g) + 1 /\ call[t].seq = Len(g) + 1
       /\ call[t].packets \in Nat /\ call[t].packet <= call[t].packets
  <2>1. Len(g) = call[t].packet - 1 /\ call[t].packet \in 1..call[t].packets /\ call[t].seq = call[t].packet
    BY <1>4
  <2>2. call[t].packet \in Nat /\ call[t].packets \in Nat
    BY <1>1 DEF Call
  <2>3. Len(h) = Len(g) + 1
    BY <1>9
  <2> QED
    BY <2>1, <2>2, <2>3
<1>11. call[t].packet = 1 \/ "gave up" \notin incidents => p.seq = call[t].packet /\ Origin(t, x)
  <2> SUFFICES ASSUME call[t].packet = 1 \/ "gave up" \notin incidents
               PROVE  p.seq = call[t].packet /\ Origin(t, x)
    OBVIOUS
  <2>1. p.channel = call[t].channel /\ p.seq = call[t].seq
    BY <1>4 DEF Wanted
  <2>2. Origin(t, p)
    BY <1>3, <1>4, <2>1, WantedOrigin
  <2> QED
    BY <1>4, <1>7, <2>1, <2>2 DEF Origin
<1>12. h[1].seq = 1 /\ Origin(t, h[1])
  <2>1. CASE call[t].packet = 1
    <3>1. h[1] = x
      BY <1>4, <1>9, <2>1
    <3> QED
      BY <1>7, <1>11, <2>1, <3>1
  <2>2. CASE call[t].packet # 1
    <3>1. 1 \in 1..Len(g)
      <4>1. Len(g) \in Nat /\ Len(g) + 1 # 1
        BY <1>9, <1>10, <2>2
      <4> QED
        BY <4>1
    <3>2. g # << >>
      BY <3>1
    <3> QED
      BY <1>5, <1>9, <3>1, <3>2
  <2> QED
    BY <2>1, <2>2
<1>13. \A i \in 1..Len(h) : i \in 1..Len(g) \/ (i = Len(g) + 1 /\ i = call[t].packet)
  <2>1. Len(g) \in Nat /\ Len(h) = Len(g) + 1 /\ call[t].packet = Len(g) + 1
    BY <1>9, <1>10
  <2> QED
    BY <2>1
<1>14. "gave up" \notin incidents => \A i \in 1..Len(h) : Origin(t, h[i])
  BY <1>5, <1>9, <1>11, <1>13
<1>15. ~c.error => \A i \in 1..Len(h) : h[i].seq = i
  BY <1>4, <1>5, <1>7, <1>8, <1>9, <1>13
<1>16. \A y : Origin(t, y) => Origin(t, y)'
  BY <1>6, <1>8 DEF Origin
<1>17. /\ c.pc \in Copying /\ c.pc # "recv_first" /\ c.pc # "copy"
       /\ c.packets = Whole(t) /\ (t \in Senders <=> c.channel = AckChannel)
       /\ c.pc = "recv_next" => Len(c.got) = c.packet - 1 /\ c.packet \in 1..c.packets /\ c.seq = c.packet
       /\ c.pc = "returned" => Len(c.got) = c.packets
  <2>1. CASE call[t].packet < call[t].packets /\ c.pc = "recv_next" /\ c.packet = call[t].packet + 1
    <3>1. Len(g) \in Nat
      BY <1>9
    <3>2. Len(c.got) = c.packet - 1 /\ c.packet \in 1..c.packets /\ c.seq = c.packet
      BY <1>8, <1>10, <2>1, <3>1
    <3> QED
      BY <1>4, <1>8, <2>1, <3>2 DEF Copying
  <2>2. CASE ~(call[t].packet < call[t].packets) /\ c.pc = "returned"
    <3>1. Len(g) \in Nat
      BY <1>9
    <3>2. Len(c.got) = c.packets
      BY <1>8, <1>10, <2>2, <3>1
    <3> QED
      BY <1>4, <1>8, <2>2, <3>2 DEF Copying
  <2> QED
    BY <1>8, <2>1, <2>2
<1>18. /\ c.got # << >> /\ c.got[1].seq = 1 /\ Origin(t, c.got[1])
       /\ "gave up" \notin incidents' => \A i \in 1..Len(c.got) : Origin(t, c.got[i])
       /\ ~c.error => \A i \in 1..Len(c.got) : c.got[i].seq = i
  BY <1>2, <1>8, <1>9, <1>12, <1>14, <1>15
<1>19. c.channel = call[t].channel
  BY <1>8
<1> QED
  BY <1>6, <1>17, <1>18, <1>19 DEF Reception, Receiving, Copying, Origin

LEMMA ReceptionQuiet ==
    ASSUME BufferInv, RouteInv, NEW t \in Tasks, Quiet(t) \/ comm_drain(t) \/ send_packet(t) PROVE Reception(t)'
<1>1. Reception(t) /\ call \in [Tasks -> Call] /\ call[t] \in Call /\ RoleShape(t) /\ CallShape(t)
  BY PacketTypes, Facts DEF RouteInv
<1>2. CASE comm_check(t) \/ comm_queue(t) \/ comm_port(t) \/ comm_free(t) \/ comm_unport(t)
           \/ hf_sendack(t) \/ time_out(t) \/ comm_drain(t)
  <2>1. /\ call[t].pc \notin Copying
        /\ call'[t].pc \notin Receiving
    <3>1. ASSUME NEW pc \in {"create_queue", "refused", "create_port", "idle", "destroy_port", "create", "send",
                             "destroy_queue"}, call'[t].pc = pc
          PROVE  call'[t].pc \notin Receiving
      BY <3>1 DEF Receiving
    <3>2. CASE comm_check(t) \/ comm_queue(t) \/ comm_port(t) \/ comm_unport(t)
      BY <1>1, <3>1, <3>2 DEF Copying, comm_check, comm_queue, comm_port, comm_unport, At, Set, Call
    <3>3. CASE comm_free(t)
      BY <1>1, <3>1, <3>3 DEF Copying, comm_free, At, Set, Call
    <3>4. CASE hf_sendack(t) \/ time_out(t) \/ comm_drain(t)
      BY <1>1, <3>1, <3>4, ZenonT(40) DEF Copying, hf_sendack, time_out, comm_drain, At, Set, Call
    <3> QED
      BY <1>2, <3>2, <3>3, <3>4
  <2>2. call'[t].got = call[t].got
    BY <1>2, QuietStep, DrainStep DEF Quiet, Still
  <2> QED
    BY <1>1, <2>1, <2>2, ReceptionNone DEF Reception
<1>3. CASE send_packet(t)
  <2>1. call[t].pc \notin Copying /\ call'[t].pc \notin Receiving
    BY <1>3, SendStep DEF Copying, Receiving
  <2>2. call'[t].got = call[t].got
    BY <1>3, SendStep DEF Still
  <2> QED
    BY <1>1, <2>1, <2>2, ReceptionNone DEF Reception
<1>4. CASE see_ack(t)
  <2>1. call[t].pc = "wait_ack" /\ call[t].got = << >> /\ t \in Senders
    BY <1>1, <1>4 DEF see_ack, At, Reception, Copying, RoleShape
  <2>2. call'[t].pc = "recv_first" /\ call'[t].got = << >> /\ call'[t].seq = 0 /\ call'[t].channel = AckChannel
    BY <1>1, <1>4, <2>1 DEF see_ack, Set, Call
  <2> QED
    BY <2>1, <2>2, ReceptionBegins
<1>5. CASE hf_recvack(t)
  <2>1. call[t].pc = "idle" /\ call[t].got = << >> /\ t \in Receivers /\ t \notin Senders
    BY <1>1, <1>5, RolesAssumption DEF hf_recvack, At, Reception, Copying
  <2>2. Receives[t][call[t].round] # AckChannel
    <3>1. Receives[t] \in Seq(Nat \ {AckChannel}) /\ call[t].round \in 1..Len(Receives[t])
      BY <1>1, <2>1, RolesAssumption DEF CallShape
    <3> QED
      BY <3>1
  <2>3. call'[t].pc = "recv_first" /\ call'[t].got = << >> /\ call'[t].seq = 0
        /\ call'[t].channel = Receives[t][call[t].round]
    BY <1>1, <1>5, <2>1 DEF hf_recvack, Set, Call
  <2> QED
    BY <2>1, <2>2, <2>3, ReceptionBegins
<1> QED
  BY <1>2, <1>3, <1>4, <1>5 DEF Quiet

LEMMA ReceptionEnds ==
    ASSUME BufferInv, NEW t \in Tasks, recv_return(t) \/ ack_return(t) PROVE Reception(t)'
<1>1. call \in [Tasks -> Call]
  BY PacketTypes
<1>2. call'[t].pc \notin Receiving /\ call'[t].got = << >>
  BY <1>1 DEF recv_return, ack_return, Set, Finished, NoCall, Receiving
<1> QED
  BY <1>2, ReceptionNone

(* A step of one task leaves the calls of the others alone. *)
LEMMA OthersCalls ==
    ASSUME BufferInv, NEW u \in Tasks, Step(u) \/ Destroy(u) \/ time_out(u), NEW t \in Tasks, t # u
    PROVE  call'[t] = call[t]
<1>1. call \in [Tasks -> Call]
  BY PacketTypes
<1> QED
  BY <1>1, ZenonT(40) DEF Step, Destroy, comm_check, comm_queue, comm_port, comm_free, comm_unport, comm_drain, hf_sendack,
              send_packet, see_ack, time_out, hf_recvack, recv_first, recv_next, recv_copy, recv_return, ack_return, Set

LEMMA IncidentsGrow ==
    ASSUME Next PROVE incidents \subseteq incidents'
BY ZenonT(40) DEF Next, Step, Destroy, comm_check, comm_queue, comm_port, comm_free, comm_unport, comm_drain, hf_sendack,
       send_packet, see_ack, time_out, hf_recvack, recv_first, recv_next, recv_copy, recv_return, ack_return,
       ni_isr, Malformed

LEMMA RouteInvNext ==
    ASSUME BufferInv, RouteInv, [Next]_vars PROVE RouteInv'
<1>1. CASE Next
  <2>1. Routes'
    BY <1>1, RoutesNext
  <2>2. ASSUME NEW t \in Tasks PROVE Reception(t)'
    <3>1. Reception(t) /\ incidents \subseteq incidents'
      BY <1>1, IncidentsGrow DEF RouteInv
    <3>2. CASE call'[t] = call[t]
      BY <3>1, <3>2, ReceptionFrame
    <3>3. ASSUME NEW u \in Tasks, Step(u) \/ Destroy(u) \/ time_out(u), call'[t] # call[t] PROVE Reception(t)'
      <4>1. u = t
        BY <3>3, OthersCalls
      <4> QED
        BY <3>3, <4>1, ReceptionQuiet, ReceptionFirst, ReceptionNextPacket, ReceptionCopy, ReceptionEnds
           DEF Step, Destroy, Quiet
    <3>4. ASSUME NEW k \in Links, ni_isr(k) \/ Malformed(k) PROVE call'[t] = call[t]
      BY <3>4 DEF ni_isr, Malformed
    <3> QED
      BY <1>1, <3>2, <3>3, <3>4 DEF Next
  <2> QED
    BY <2>1, <2>2 DEF RouteInv
<1>2. CASE vars' = vars
  <2>1. Routes'
    BY <1>2 DEF vars, RouteInv, Routes, Queue
  <2>2. \A t \in Tasks : Reception(t)'
    BY <1>2, ReceptionFrame DEF vars, RouteInv
  <2> QED
    BY <2>1, <2>2 DEF RouteInv
<1> QED
  BY <1>1, <1>2

-----------------------------------------------------------------------------
(* Every step, for packets of M none of which is being sent. *)

LEMMA EndFlows ==
    ASSUME BufferInv, NEW t \in Tasks, NEW link, NEW M, NEW n, NEW x, NEW m, PipeAlone(t, link, M, n, x, m),
           Fits(t, link, M, n, x), Ends(t), NEW p \in Packet, p \notin M,
           net'[link] \in {net[link], Append(net[link], p)}
    PROVE  Flows(t, link, M, n, x, m) /\ (GotAt(call[t].got, n, x) => ~PipeExists(t, link, M, n, x)')
<1> DEFINE l == net[link]
           q == Queue(t)
           b == call[t].buf
<1>1. n \in Nat \ {0} /\ l \in Seq(Packet) /\ q \in Seq(Packet)
  BY PacketTypes DEF Fits
<1>2. /\ Alone(l, q, b, << >>, M, n, x, m)
      /\ Exists(l, q, b, << >>, M, n, x) => PipeExists(t, link, M, n, x)
      /\ GotAt(call[t].got, n, x) => ~Exists(l, q, b, << >>, M, n, x)
  BY <1>1, PipeReset DEF PipeAlone, PipeExists
<1>3. /\ Alone(Append(l, p), q, b, << >>, M, n, x, m)
      /\ Exists(Append(l, p), q, b, << >>, M, n, x) => Exists(l, q, b, << >>, M, n, x)
  BY <1>1, <1>2, PipeForeign
<1>4. Queue(t)' = q /\ call'[t].buf = b /\ call'[t].got = << >>
  BY DEF Ends
<1>5. CASE net'[link] = l
  BY <1>2, <1>4, <1>5 DEF Flows, PipeAlone, PipeExists
<1>6. CASE net'[link] = Append(l, p)
  BY <1>2, <1>3, <1>4, <1>6 DEF Flows, PipeAlone, PipeExists
<1> QED
  BY <1>5, <1>6

(* No packet of M is written to the link. *)
NoneNew(link, M) ==
    /\ \A p \in M : p.wellformed
    /\ \A u \in Senders : \A p \in Packet :
           send_packet(u) /\ IsData(p) /\ p.source = u /\ p.seq = call[u].packet /\ DataLink(u) = link => p \notin M
    /\ \A u \in Tasks : \A p \in Packet :
           recv_return(u) /\ ~call[u].error /\ IsAck(p, call[u].got[1].source)
           /\ AckLink(call[u].got[1].source) = link => p \notin M

LEMMA FlowNext ==
    ASSUME BufferInv, RouteInv, Next, NEW t, NEW link, NEW M, NEW n, NEW x, NEW m,
           Fits(t, link, M, n, x), PipeAlone(t, link, M, n, x, m), NoneNew(link, M)
    PROVE  Flows(t, link, M, n, x, m)
<1>1. t \in Tasks /\ link \in Links /\ Routes /\ Reception(t) /\ net \in [Links -> Seq(Packet)]
  BY PacketTypes DEF Fits, RouteInv
<1>2. ASSUME NEW u \in Tasks, Quiet(u) PROVE Flows(t, link, M, n, x, m)
  BY <1>1, <1>2, QuietStep, StillFlows
<1>3. ASSUME NEW u \in Tasks, comm_drain(u) PROVE Flows(t, link, M, n, x, m)
  <2>1. CASE t = u
    BY <1>1, <1>3, <2>1, DrainStep, ResetFlows
  <2>2. CASE t # u
    BY <1>1, <1>3, <2>2, DrainStep, StillFlows
  <2> QED
    BY <2>1, <2>2
<1>4. ASSUME NEW u \in Tasks, recv_first(u) \/ recv_next(u) PROVE Flows(t, link, M, n, x, m)
  <2>0. Reception(u)
    BY DEF RouteInv
  <2>1. CASE t = u
    <3>1. net' = net /\ (Turns(t) \/ (\E z \in {Queue(t), Rotated(Queue(t))} : Takes(t, z)))
      BY <1>4, <2>0, <2>1, FirstStep, NextStep
    <3> QED
      BY <1>1, <3>1, TurnFlows, TakeFlows
  <2>2. CASE t # u
    BY <1>1, <1>4, <2>0, <2>2, FirstStep, NextStep, StillFlows
  <2> QED
    BY <2>1, <2>2
<1>5. ASSUME NEW u \in Tasks, recv_copy(u) PROVE Flows(t, link, M, n, x, m)
  BY <1>1, <1>5, CopyFlows
<1>6. ASSUME NEW u \in Tasks, ack_return(u) PROVE Flows(t, link, M, n, x, m)
  <2>1. net' = net
    BY <1>6 DEF ack_return
  <2>2. CASE t = u
    BY <1>1, <1>6, <2>1, <2>2, EndStep, ResetFlows
  <2>3. CASE t # u
    BY <1>1, <1>6, <2>1, <2>3, EndStep, StillFlows
  <2> QED
    BY <2>2, <2>3
<1>7. ASSUME NEW u \in Tasks, recv_return(u) PROVE Flows(t, link, M, n, x, m)
  <2> DEFINE s == call[u].got[1].source
  <2>1. Reception(u) /\ Ends(u) /\ \A v \in Tasks \ {u} : Still(v)
    BY <1>7, EndStep DEF RouteInv
  <2>2. \/ net' = net
        \/ \E p \in Packet : Writes(AckLink(s), p) /\ IsAck(p, s) /\ ~call[u].error
    BY <1>7, <2>1, ReturnStep
  <2>3. CASE net' = net
    <3>1. CASE t = u
      BY <1>1, <2>1, <2>3, <3>1, ResetFlows
    <3>2. CASE t # u
      BY <1>1, <2>1, <2>3, <3>2, StillFlows
    <3> QED
      BY <3>1, <3>2
  <2>4. CASE \E p \in Packet : Writes(AckLink(s), p) /\ IsAck(p, s) /\ ~call[u].error
    <3>1. PICK p \in Packet : Writes(AckLink(s), p) /\ IsAck(p, s) /\ ~call[u].error
      BY <2>4
    <3>2. AckLink(s) = link => p \notin M
      BY <1>7, <3>1 DEF NoneNew
    <3> HIDE DEF s
    <3>3. CASE t # u
      BY <1>1, <2>1, <3>1, <3>2, <3>3, WriteFlows
    <3>4. CASE t = u /\ AckLink(s) = link
      <4>1. net'[link] = Append(net[link], p)
        BY <1>1, <3>1, <3>4 DEF Writes
      <4> QED
        BY <1>1, <2>1, <3>2, <3>4, <4>1, EndFlows
    <3>5. CASE t = u /\ AckLink(s) # link
      <4>1. net'[link] = net[link]
        BY <1>1, <3>1, <3>5 DEF Writes
      <4> QED
        BY <1>1, <2>1, <3>5, <4>1, ResetFlows
    <3> QED
      BY <3>3, <3>4, <3>5
  <2> QED
    BY <2>2, <2>3, <2>4
<1>8. ASSUME NEW u \in Tasks, send_packet(u) PROVE Flows(t, link, M, n, x, m)
  <2>1. PICK p \in Packet : Writes(DataLink(u), p) /\ IsData(p) /\ p.source = u /\ p.seq = call[u].packet
    BY <1>8, SendStep
  <2>2. Still(t) /\ u \in Senders
    BY <1>1, <1>8, SendStep
  <2>3. DataLink(u) = link => p \notin M
    BY <1>8, <2>1, <2>2 DEF NoneNew
  <2> QED
    BY <1>1, <2>1, <2>2, <2>3, WriteFlows
<1>9. ASSUME NEW k \in Links, Malformed(k) PROVE Flows(t, link, M, n, x, m)
  <2>1. PICK p \in Packet : Writes(k, p) /\ ~p.wellformed
    BY <1>9, MalformedStep
  <2>2. Still(t) /\ p \notin M
    BY <1>1, <1>9, <2>1, MalformedStep DEF NoneNew
  <2> QED
    BY <1>1, <2>1, <2>2, WriteFlows
<1>10. ASSUME NEW k \in Links, ni_isr(k) PROVE Flows(t, link, M, n, x, m)
  BY <1>1, <1>10, IsrFlows
<1> QED
  BY <1>2, <1>3, <1>4, <1>5, <1>6, <1>7, <1>8, <1>9, <1>10 DEF Next, Step, Destroy, Quiet

LEMMA DataFlows ==
    ASSUME BufferInv, RouteInv, Next, NEW s \in Senders, NEW n \in 1..Packets, NEW m, DataAlone(s, n, m),
           ~(send_packet(s) /\ call[s].packet = n)
    PROVE  DataAlone(s, n, m)' /\ (DataExists(s, n)' => DataExists(s, n))
<1>1. Fits(TargetOf[s], DataLink(s), Data(s, n), n, s)
  BY FitsData DEF RouteInv
<1>2. NoneNew(DataLink(s), Data(s, n))
  <2>1. \A p \in Data(s, n) : p.wellformed /\ p.source = s /\ p.channel # AckChannel /\ p.seq = n
    BY SenderFacts DEF Data
  <2> QED
    BY <2>1 DEF NoneNew, IsAck
<1>3. Flows(TargetOf[s], DataLink(s), Data(s, n), n, s, m)
  BY <1>1, <1>2, FlowNext DEF DataAlone
<1> QED
  BY <1>3 DEF Flows, DataAlone, DataExists

LEMMA AckFlows ==
    ASSUME BufferInv, RouteInv, Next, NEW s \in Senders, NEW m, AckAlone(s, m),
           \A u \in Tasks : ~(recv_return(u) /\ ~call[u].error /\ call[u].got[1].source = s)
    PROVE  AckAlone(s, m)' /\ (AckExists(s)' => AckExists(s))
<1>1. Fits(s, AckLink(s), Acks(s), 1, TargetOf[s])
  BY FitsAck DEF RouteInv
<1>2. NoneNew(AckLink(s), Acks(s))
  <2>1. \A p \in Acks(s) : IsAck(p, s) /\ p.wellformed /\ ~IsData(p)
    BY SenderFacts DEF Acks, IsAck, IsData
  <2>2. ASSUME NEW u \in Tasks, NEW p \in Packet, recv_return(u), ~call[u].error,
               IsAck(p, call[u].got[1].source), AckLink(call[u].got[1].source) = AckLink(s), p \in Acks(s)
        PROVE  FALSE
    <3> DEFINE v == call[u].got[1].source
    <3>1. v \in Senders
      BY <2>2, ReturnStep DEF RouteInv
    <3>2. PortOf[v] = PortOf[s] /\ CoreOf[v] = CoreOf[s]
      BY <2>1, <2>2, <3>1, SenderFacts DEF IsAck
    <3>3. v = s
      BY <3>1, <3>2, SenderFacts, AddressesAssumption
    <3> QED
      BY <2>2, <3>3
  <2> QED
    BY <2>1, <2>2 DEF NoneNew
<1>3. Flows(s, AckLink(s), Acks(s), 1, TargetOf[s], m)
  BY <1>1, <1>2, FlowNext, SMTT(30) DEF AckAlone
<1> QED
  BY <1>3 DEF Flows, AckAlone, AckExists

-----------------------------------------------------------------------------
(* One message of a sender at a time. *)

LEMMA SenderCalls ==
    ASSUME BufferInv, RouteInv, Next, NEW s \in Senders, NEW n \in 1..Packets,
           ~send_packet(s), ~ack_return(s), ~time_out(s)
    PROVE  call'[s].message = call[s].message /\ (Sent(s, n) => Sent(s, n)')
<1>1. s \in Tasks /\ s \notin Receivers
  BY SenderFacts, RolesAssumption
<1>2. call \in [Tasks -> Call] /\ call[s] \in Call
  BY <1>1, PacketTypes
<1>3. CASE call'[s] = call[s]
  BY <1>3 DEF Sent
<1>4. CASE Step(s) \/ Destroy(s)
  <2>1. CASE comm_check(s) \/ comm_queue(s) \/ comm_port(s) \/ hf_sendack(s)
    <3>1. ASSUME comm_check(s)
          PROVE  call'[s].message = call[s].message /\ (Sent(s, n) => Sent(s, n)')
      BY <1>1, <1>2, <3>1 DEF comm_check, At, Set, Call, Sent, Receiving
    <3>2. ASSUME comm_queue(s)
          PROVE  call'[s].message = call[s].message /\ (Sent(s, n) => Sent(s, n)')
      BY <1>1, <1>2, <3>2 DEF comm_queue, At, Set, Call, Sent, Receiving
    <3>3. ASSUME comm_port(s)
          PROVE  call'[s].message = call[s].message /\ (Sent(s, n) => Sent(s, n)')
      BY <1>1, <1>2, <3>3 DEF comm_port, At, Set, Call, Sent, Receiving
    <3>4. ASSUME hf_sendack(s)
          PROVE  call'[s].message = call[s].message /\ (Sent(s, n) => Sent(s, n)')
      BY <1>1, <1>2, <3>4 DEF hf_sendack, At, Set, Call, Sent, Receiving
    <3> QED
      BY <2>1, <3>1, <3>2, <3>3, <3>4
  <2>2. CASE comm_drain(s) \/ comm_free(s) \/ comm_unport(s)
    BY <1>1, <1>2, <2>2 DEF comm_drain, comm_free, comm_unport, At, Set, Call, Sent, Receiving
  <2>3. CASE see_ack(s)
    BY <1>1, <1>2, <2>3 DEF see_ack, Set, Call, Sent, Receiving
  <2>4. CASE recv_first(s)
    <3> DEFINE p == Head(tqueue[s])
               c == [call[s] EXCEPT !.pc = "copy", !.buf = <<p>>, !.seq = p.seq, !.packet = 1,
                                    !.packets = p.packets, !.got = << >>, !.error = FALSE]
    <3>1. call'[s] = call[s] \/ call'[s] = c
      BY <1>1, <1>2, <2>4 DEF recv_first, Set
    <3> HIDE DEF p
    <3>2. c.message = call[s].message /\ c.pc = "copy"
      BY <1>2 DEF Call
    <3> QED
      BY <1>3, <3>1, <3>2 DEF Sent, Receiving
  <2>5. CASE recv_next(s)
    BY <1>1, <1>2, <2>5, ZenonT(40) DEF recv_next, At, Set, Call, Sent, Receiving
  <2>6. CASE recv_copy(s)
    <3> DEFINE p == call[s].buf[1]
               x == [source |-> p.source, message |-> p.message, seq |-> p.seq]
               copied == [call[s] EXCEPT !.buf = << >>, !.seq = @ + 1, !.error = @ \/ p.seq # call[s].seq,
                                         !.got = Append(@, x)]
               c == IF call[s].packet < call[s].packets
                    THEN [copied EXCEPT !.pc = "recv_next", !.packet = @ + 1, !.turns = 0]
                    ELSE [copied EXCEPT !.pc = "returned"]
    <3>1. call'[s] = c
      BY <1>1, <1>2, <2>6 DEF recv_copy, Set
    <3> HIDE DEF p, x
    <3>2. c.message = call[s].message /\ c.pc \in {"recv_next", "returned"}
      BY <1>2 DEF Call
    <3> QED
      BY <3>1, <3>2 DEF Sent, Receiving
  <2> QED
    BY <1>1, <1>4, <2>1, <2>2, <2>3, <2>4, <2>5, <2>6 DEF Step, Destroy, hf_recvack, recv_return
<1> QED
  BY <1>1, <1>3, <1>4, OthersCalls DEF Next, ni_isr, Malformed

LEMMA TokenQuiet ==
    ASSUME BufferInv, RouteInv, Next, NEW s \in Senders, NEW n \in 1..Packets, Token(s, n),
           ~send_packet(s), ~ack_return(s), ~time_out(s),
           \A u \in Tasks : ~(recv_return(u) /\ ~call[u].error /\ call[u].got[1].source = s)
    PROVE  Token(s, n)'
<1>0. PICK m : m = call[s].message
  OBVIOUS
<1>1. DataAlone(s, n, m)' /\ (DataExists(s, n)' => DataExists(s, n))
  BY <1>0, DataFlows DEF Token
<1>2. AckAlone(s, m)' /\ (AckExists(s)' => AckExists(s))
  BY <1>0, AckFlows DEF Token
<1>3. call'[s].message = m /\ (Sent(s, n) => Sent(s, n)')
  BY <1>0, SenderCalls
<1>4. DataAlone(s, n, call[s].message)' /\ AckAlone(s, call[s].message)'
  BY <1>1, <1>2, <1>3 DEF DataAlone, AckAlone, PipeAlone
<1> QED
  BY <1>1, <1>2, <1>3, <1>4 DEF Token

LEMMA TokenSend ==
    ASSUME BufferInv, RouteInv, Next, NEW s \in Senders, NEW n \in 1..Packets, Token(s, n), send_packet(s)
    PROVE  Token(s, n)'
<1>0. PICK m : m = call[s].message
  OBVIOUS
<1>1. s \in Tasks /\ TargetOf[s] \in Tasks /\ DataLink(s) \in Links
  BY SenderFacts
<1>2. /\ call[s].pc = "send" /\ call[s].packet \in 1..Packets /\ call'[s].message = m
      /\ \A t \in Tasks : Still(t)
      /\ \A t \in Tasks \ {s} : call'[t] = call[t]
      /\ IF call[s].packet < Packets THEN call'[s].pc = "send" /\ call'[s].packet = call[s].packet + 1
         ELSE call'[s].pc = "wait_ack"
  BY <1>0, <1>1, SendStep
<1>3. \A u \in Tasks : ~recv_return(u)
  <2> SUFFICES ASSUME NEW u \in Tasks, recv_return(u) PROVE FALSE
    OBVIOUS
  <2>1. call \in [Tasks -> Call]
    BY <1>1, PacketTypes
  <2>2. call'[u].pc = "idle" /\ call[u].pc = "returned"
    BY <2>1 DEF recv_return, Finished, NoCall, Set, At
  <2> QED
    BY <1>2, <2>2
<1>4. AckAlone(s, m)' /\ (AckExists(s)' => AckExists(s))
  BY <1>0, <1>3, AckFlows DEF Token
<1>5. CASE call[s].packet # n
  <2>1. DataAlone(s, n, m)' /\ (DataExists(s, n)' => DataExists(s, n))
    BY <1>0, <1>5, DataFlows DEF Token
  <2>2. DataAlone(s, n, call[s].message)' /\ AckAlone(s, call[s].message)'
    BY <1>2, <1>4, <2>1 DEF DataAlone, AckAlone, PipeAlone
  <2>3. Sent(s, n) => Sent(s, n)'
    BY <1>2 DEF Sent, Receiving
  <2> QED
    BY <1>4, <2>1, <2>2, <2>3 DEF Token
<1>6. CASE call[s].packet = n
  <2>1. ~Sent(s, n)
    BY <1>2, <1>6 DEF Sent, Receiving
  <2>2. ~DataExists(s, n) /\ ~AckExists(s) /\ DataAlone(s, n, m)
    BY <1>0, <2>1 DEF Token
  <2>3. PICK p \in Packet : Writes(DataLink(s), p) /\ p.message = m
    BY <1>0, <1>1, SendStep
  <2>4. net \in [Links -> Seq(Packet)] /\ Queue(TargetOf[s]) \in Seq(Packet) /\ net[DataLink(s)] \in Seq(Packet)
    BY <1>1, PacketTypes
  <2>5. net'[DataLink(s)] = Append(net[DataLink(s)], p)
    BY <1>1, <2>3, <2>4 DEF Writes
  <2>6. Still(TargetOf[s])
    BY <1>1, <1>2
  <2>7. DataAlone(s, n, m)'
    BY <2>2, <2>3, <2>4, <2>5, <2>6, PipeSend DEF DataAlone, DataExists, PipeAlone, PipeExists, Still
  <2>8. DataAlone(s, n, call[s].message)' /\ AckAlone(s, call[s].message)'
    BY <1>2, <1>4, <2>7 DEF DataAlone, AckAlone, PipeAlone
  <2>9. Sent(s, n)'
    BY <1>2, <1>6 DEF Sent
  <2> QED
    BY <1>4, <2>2, <2>8, <2>9 DEF Token
<1> QED
  BY <1>5, <1>6

LEMMA TokenAcked ==
    ASSUME BufferInv, RouteInv, Next, NEW s \in Senders, NEW n \in 1..Packets, Token(s, n), ack_return(s)
    PROVE  Token(s, n)'
<1>0. PICK m : m = call[s].message
  OBVIOUS
<1>1. s \in Tasks /\ Reception(s) /\ CallShape(s) /\ call[s].got \in Seq(Copied) /\ net' = net
  BY SenderFacts, Facts, PacketTypes DEF RouteInv, ack_return
<1>2. GotAt(call[s].got, 1, TargetOf[s])
  <2>1. call[s].got # << >>
    BY <1>1 DEF ack_return, At, CallShape
  <2>2. 1 <= Len(call[s].got)
    BY <1>1, <2>1
  <2> QED
    BY <1>1, <2>1, <2>2 DEF Reception, Origin, GotAt
<1>3. AckExists(s)
  BY <1>2 DEF AckExists, PipeExists, Exists
<1>4. ~DataExists(s, n) /\ DataAlone(s, n, m) /\ AckAlone(s, m)
  BY <1>0, <1>3 DEF Token
<1>5. Fits(s, AckLink(s), Acks(s), 1, TargetOf[s])
  BY FitsAck DEF RouteInv
<1>6. Ends(s)
  BY <1>1, EndStep
<1>7. AckAlone(s, m)' /\ ~AckExists(s)'
  BY <1>1, <1>2, <1>4, <1>5, <1>6, ResetFlows DEF AckAlone, AckExists, Flows
<1>8. ~send_packet(s)
  BY DEF send_packet, ack_return, At
<1>9. DataAlone(s, n, m)' /\ ~DataExists(s, n)'
  BY <1>4, <1>8, DataFlows
<1>10. DataAlone(s, n, call[s].message)' /\ AckAlone(s, call[s].message)'
  BY <1>7, <1>9, Vacuous DEF DataAlone, AckAlone, DataExists, AckExists, PipeAlone, PipeExists
<1> QED
  BY <1>7, <1>9, <1>10 DEF Token

LEMMA Places ==
    ASSUME NEW n \in 1..Packets
    PROVE  1 \in 1..Packets /\ n \in Nat /\ ~(1 > 1) /\ (n # 1 => n > 1) /\ n <= Packets
BY SizesAssumption

(* A message received whole, without a packet taken for want of patience,  *)
(* comes from one sender.                                                  *)
LEMMA OneSource ==
    ASSUME BufferInv, RouteInv, NEW u \in Tasks, u \notin Senders, call[u].pc = "returned", ~call[u].error,
           NEW n \in 1..Packets, n > 1 => "gave up" \notin incidents
    PROVE  Len(call[u].got) = Packets /\ GotAt(call[u].got, n, call[u].got[1].source)
<1>1. Reception(u) /\ call[u].got \in Seq(Copied)
  BY PacketTypes DEF RouteInv
<1>2. PICK g : g = call[u].got
  OBVIOUS
<1>3. /\ Len(g) = Packets
      /\ "gave up" \notin incidents => \A i \in 1..Len(g) : Origin(u, g[i])
      /\ g # << >> => Origin(u, g[1])
      /\ \A i \in 1..Len(g) : g[i].seq = i
  <2>1. Len(g) = call[u].packets /\ call[u].packets = Packets
    BY <1>1, <1>2 DEF Reception, Copying, Whole
  <2> QED
    BY <1>1, <1>2, <2>1, Zenon DEF Reception
<1>4. 1 \in 1..Len(g) /\ n \in 1..Len(g) /\ n \in Nat /\ g \in Seq(Copied)
  BY <1>1, <1>2, <1>3, Places, Zenon
<1>5. n # 1 => n > 1
  BY Places, Zenon
<1>6. g[n].source = g[1].source
  <2>1. CASE n = 1
    BY <2>1
  <2>2. CASE n # 1
    <3>1. Origin(u, g[n]) /\ Origin(u, g[1])
      BY <1>3, <1>4, <1>5, <2>2, Zenon
    <3> QED
      BY <3>1, AddressesAssumption DEF Origin
  <2> QED
    BY <2>1, <2>2
<1>7. g[n].seq = n
  BY <1>3, <1>4, Zenon
<1>8. n <= Len(g)
  BY <1>3, Places, Zenon
<1> QED
  BY <1>2, <1>3, <1>6, <1>7, <1>8, Zenon DEF GotAt

LEMMA TokenReturned ==
    ASSUME BufferInv, RouteInv, Next, NEW s \in Senders, NEW n \in 1..Packets, Token(s, n), Token(s, 1), Sound(n),
           NEW u \in Tasks, recv_return(u), ~call[u].error, call[u].got[1].source = s
    PROVE  Token(s, n)'
<1>0. PICK m : m = call[s].message
  OBVIOUS
<1>1. /\ s \in Tasks /\ u \in Receivers /\ u \notin Senders /\ TargetOf[s] = u /\ u # s
      /\ DataLink(s) \in Links /\ AckLink(s) \in Links /\ call[u].pc = "returned"
  <2>1. s \in Tasks /\ DataLink(s) \in Links /\ AckLink(s) \in Links
    BY SenderFacts
  <2>2. Reception(u)
    BY DEF RouteInv
  <2>3. u \in Receivers /\ TargetOf[s] = u
    BY <2>2, ReturnStep
  <2>4. u \notin Senders
    BY <2>3, SenderFacts
  <2>5. call[u].pc = "returned"
    BY DEF recv_return, At
  <2> QED
    BY <2>1, <2>3, <2>4, <2>5
<1>2. GotAt(call[u].got, n, s) /\ GotAt(call[u].got, 1, s)
  <2>1. 1 \in 1..Packets /\ ~(1 > 1)
    BY SizesAssumption
  <2>2. n > 1 => "gave up" \notin incidents
    BY DEF Sound
  <2>3. GotAt(call[u].got, n, s)
    BY <1>1, <2>2, OneSource
  <2>4. GotAt(call[u].got, 1, s)
    BY <1>1, <2>1, OneSource
  <2> QED
    BY <2>3, <2>4
<1>3. DataExists(s, n) /\ ~AckExists(s) /\ Sent(s, n) /\ DataAlone(s, n, m) /\ AckAlone(s, m)
  BY <1>0, <1>1, <1>2 DEF Token, DataExists, PipeExists, Exists
<1>4. call[u].got[1].message = m
  BY <1>0, <1>1, <1>2 DEF Token, DataAlone, PipeAlone, Alone
<1>5. Ends(u) /\ Still(s) /\ call'[s] = call[s]
  <2>1. call'[s] = call[s]
    BY <1>1, OthersCalls DEF Step
  <2> QED
    BY <1>1, <2>1, EndStep
<1>6. net' = net \/ \E p \in Packet : Writes(AckLink(s), p) /\ IsAck(p, s) /\ p.message = m
  BY <1>4, ReturnStep DEF RouteInv
<1>7. net \in [Links -> Seq(Packet)] /\ Queue(s) \in Seq(Packet) /\ net[AckLink(s)] \in Seq(Packet)
  BY <1>1, PacketTypes
<1>8. Fits(u, DataLink(s), Data(s, n), n, s)
  BY <1>1, FitsData DEF RouteInv
<1>9. DataAlone(s, n, m)' /\ ~DataExists(s, n)'
  <2>1. CASE net' = net
    BY <1>1, <1>2, <1>3, <1>5, <1>8, <2>1, ResetFlows DEF DataAlone, DataExists, Flows
  <2>2. CASE \E p \in Packet : Writes(AckLink(s), p) /\ IsAck(p, s) /\ p.message = m
    <3>1. PICK p \in Packet : Writes(AckLink(s), p) /\ IsAck(p, s)
      BY <2>2
    <3>2. p \notin Data(s, n)
      BY <3>1, SenderFacts DEF Data, IsAck
    <3>3. net'[DataLink(s)] \in {net[DataLink(s)], Append(net[DataLink(s)], p)}
      BY <1>1, <1>7, <3>1 DEF Writes
    <3> QED
      BY <1>1, <1>2, <1>3, <1>5, <1>8, <3>2, <3>3, EndFlows DEF DataAlone, DataExists, Flows
  <2> QED
    BY <1>6, <2>1, <2>2
<1>10. AckAlone(s, m)'
  <2>1. CASE net' = net
    BY <1>3, <1>5, <2>1, StillFlows DEF AckAlone, Flows
  <2>2. CASE \E p \in Packet : Writes(AckLink(s), p) /\ IsAck(p, s) /\ p.message = m
    <3>1. PICK p \in Packet : Writes(AckLink(s), p) /\ p.message = m
      BY <2>2
    <3>2. net'[AckLink(s)] = Append(net[AckLink(s)], p)
      BY <1>1, <1>7, <3>1 DEF Writes
    <3>3. Alone(net'[AckLink(s)], Queue(s), call[s].buf, call[s].got, Acks(s), 1, TargetOf[s], m)
      BY <1>3, <1>7, <3>1, <3>2, PipeSend, ZenonT(40) DEF AckAlone, AckExists, PipeAlone, PipeExists
    <3> QED
      BY <1>5, <3>3 DEF AckAlone, PipeAlone, Still
  <2> QED
    BY <1>6, <2>1, <2>2
<1>11. DataAlone(s, n, call[s].message)' /\ AckAlone(s, call[s].message)' /\ Sent(s, n)'
  BY <1>0, <1>3, <1>5, <1>9, <1>10 DEF DataAlone, AckAlone, PipeAlone, Sent
<1> QED
  BY <1>9, <1>11 DEF Token

LEMMA TokenInvNext ==
    ASSUME BufferInv, RouteInv, TokenInv, [Next]_vars PROVE TokenInv'
<1> SUFFICES ASSUME NEW s \in Senders, NEW n \in 1..Packets, Sound(n)' PROVE Token(s, n)'
  BY DEF TokenInv, Sound
<1>1. CASE vars' = vars
  <2>1. Token(s, n)
    BY <1>1 DEF TokenInv, Sound, vars
  <2> QED
    BY <1>1, <2>1, Zenon DEF vars, Token, DataAlone, AckAlone, DataExists, AckExists, PipeAlone, PipeExists, Queue, Sent
<1>2. CASE Next
  <2>1. incidents \subseteq incidents'
    BY <1>2, IncidentsGrow
  <2>2. Sound(n) /\ Sound(1)
    <3>1. ~(1 > 1)
      BY Places
    <3> QED
      BY <2>1, <3>1, Zenon DEF Sound
  <2>3. 1 \in 1..Packets
    BY Places
  <2>4. Token(s, n) /\ Token(s, 1)
    BY <2>2, <2>3 DEF TokenInv
  <2>5. ~time_out(s)
    BY DEF time_out, Sound
  <2>6. CASE send_packet(s)
    BY <1>2, <2>4, <2>6, TokenSend
  <2>7. CASE ack_return(s)
    BY <1>2, <2>4, <2>7, TokenAcked
  <2>8. CASE \E u \in Tasks : recv_return(u) /\ ~call[u].error /\ call[u].got[1].source = s
    BY <1>2, <2>2, <2>4, <2>8, TokenReturned
  <2> QED
    BY <1>2, <2>4, <2>5, <2>6, <2>7, <2>8, TokenQuiet
<1> QED
  BY <1>1, <1>2

LEMMA MessageInvInit == Init => RouteInv /\ TokenInv
<1> SUFFICES ASSUME Init PROVE RouteInv /\ TokenInv
  OBVIOUS
<1>1. \A link \in Links : net[link] = << >>
  BY DEF Init
<1>2. ASSUME NEW t \in Tasks
      PROVE  /\ Queue(t) = << >> /\ call[t].buf = << >> /\ call[t].got = << >> /\ call[t].pc \in {"idle", "create"}
             /\ ~call[t].error
  BY DEF Init, NoCall, Queue, NoQueue
<1>3. Len(<< >>) = 0
  OBVIOUS
<1>4. \A M : All(<< >>, M) /\ ~Has(<< >>, M) /\ Once(<< >>, M)
  BY <1>3 DEF All, Has, Once
<1>5. \A M, m : Says(<< >>, M, m)
  BY <1>3 DEF Says
<1>6. ASSUME NEW n \in Nat \ {0}, NEW x PROVE ~GotAt(<< >>, n, x)
  BY <1>3 DEF GotAt
<1>7. Routes
  BY <1>1, <1>2, <1>4 DEF Routes
<1>8. ASSUME NEW t \in Tasks PROVE Reception(t)
  <2>1. \A i \in 1..Len(call[t].got) : FALSE
    BY <1>2, <1>3
  <2> QED
    BY <1>2, <2>1 DEF Reception, Copying, Receiving
<1>9. ASSUME NEW s \in Senders, NEW n \in 1..Packets PROVE Token(s, n)
  <2>1. n \in Nat \ {0} /\ 1 \in Nat \ {0}
    BY SizesAssumption
  <2>2. ASSUME NEW t \in Tasks, NEW link \in Links, NEW M, NEW k \in Nat \ {0}, NEW x, NEW m
        PROVE  ~PipeExists(t, link, M, k, x) /\ PipeAlone(t, link, M, k, x, m)
    <3>1. net[link] = << >> /\ Queue(t) = << >> /\ call[t].buf = << >> /\ call[t].got = << >>
      BY <1>1, <1>2
    <3>2. ~GotAt(<< >>, k, x)
      BY <1>6
    <3> QED
      BY <1>4, <1>5, <3>1, <3>2, Zenon DEF PipeExists, PipeAlone, Exists, Alone
  <2>3. ~DataExists(s, n) /\ DataAlone(s, n, call[s].message)
    BY <2>1, <2>2, SenderFacts DEF DataExists, DataAlone
  <2>4. ~AckExists(s) /\ AckAlone(s, call[s].message)
    BY <2>1, <2>2, SenderFacts DEF AckExists, AckAlone
  <2> QED
    BY <2>3, <2>4 DEF Token
<1> QED
  BY <1>7, <1>8, <1>9 DEF RouteInv, TokenInv

LEMMA MessageInvHolds == Spec => [](BufferInv /\ MessageInv)
<1>1. Init => MessageInv
  BY MessageInvInit DEF MessageInv
<1>2. BufferInv /\ MessageInv /\ [Next]_vars => MessageInv'
  BY RouteInvNext, TokenInvNext DEF MessageInv
<1> QED
  BY <1>1, <1>2, BufferInvHolds, PTL DEF Spec

LEMMA CopiedFacts ==
    ASSUME NEW g \in Seq(Copied)
    PROVE  DOMAIN g = 1..Len(g) /\ (Len(g) = 1 => \A i \in DOMAIN g : i = 1) /\ 1 \in 1..Packets
BY SizesAssumption

(* As long as no hf_sendack() timed out and no hf_recv() gave up waiting   *)
(* for a packet, a message that hf_recv() returns as whole consists of     *)
(* the packets of one message of one sender, in order.                     *)
THEOREM NocMessageIntact == Spec => []MessageIntact
<1>1. ASSUME BufferInv, MessageInv PROVE MessageIntact
  <2> SUFFICES ASSUME "timeout" \notin incidents, "gave up" \notin incidents,
                      NEW t \in Tasks, At(t, "returned"), ~call[t].error
               PROVE  OneMessage(call[t].got)
    BY DEF MessageIntact, CorruptionReported
  <2>1. RouteInv /\ Reception(t) /\ call[t].got \in Seq(Copied)
    BY <1>1, PacketTypes DEF MessageInv, RouteInv
  <2>2. PICK g : g = call[t].got
    OBVIOUS
  <2>3. g \in Seq(Copied) /\ DOMAIN g = 1..Len(g)
    BY <2>1, <2>2, CopiedFacts, Zenon
  <2>4. call[t].pc = "returned"
    BY DEF At
  <2>5. \A i \in 1..Len(g) : g[i].seq = i
    BY <2>1, <2>2, Zenon DEF Reception
  <2>6. CASE t \in Senders
    <3>1. Len(g) = 1
      BY <2>1, <2>2, <2>4, <2>6 DEF Reception, Copying, Whole
    <3>2. \A i \in DOMAIN g : i = 1
      BY <2>3, <3>1, CopiedFacts, Zenon
    <3> QED
      BY <2>2, <2>3, <2>5, <3>2, Zenon DEF OneMessage
  <2>7. CASE t \notin Senders
    <3>1. Len(g) = Packets
      BY <2>1, <2>2, <2>4, <2>7 DEF Reception, Copying, Whole
    <3>2. PICK s : s = g[1].source
      OBVIOUS
    <3>3. s \in Senders /\ TargetOf[s] = t
      <4>1. g # << >>
        BY <2>3, <3>1, SizesAssumption
      <4> QED
        BY <2>1, <2>2, <2>7, <3>2, <4>1, Zenon DEF Reception, Origin
    <3>4. ASSUME NEW i \in 1..Packets PROVE GotAt(g, i, s) /\ g[i].message = call[s].message
      <4>1. GotAt(g, i, s)
        BY <1>1, <2>1, <2>2, <2>4, <2>7, <3>2, OneSource
      <4>2. Token(s, i)
        BY <1>1, <3>3 DEF MessageInv, TokenInv, Sound
      <4> QED
        BY <2>2, <3>3, <4>1, <4>2, Zenon DEF Token, DataAlone, PipeAlone, Alone
    <3>5. 1 \in 1..Packets
      BY <2>3, CopiedFacts
    <3>6. ASSUME NEW i \in DOMAIN g
          PROVE  g[i].source = g[1].source /\ g[i].message = g[1].message /\ g[i].seq = i
      <4>1. i \in 1..Packets
        BY <2>3, <3>1, <3>6
      <4> QED
        BY <3>2, <3>4, <3>5, <4>1, Zenon DEF GotAt
    <3> QED
      BY <2>2, <3>6 DEF OneMessage
  <2> QED
    BY <2>6, <2>7
<1> QED
  BY <1>1, MessageInvHolds, PTL

(* Without time-outs, the acknowledgement that lets hf_sendack() return is *)
(* the one for the message it sent.                                        *)
THEOREM NocAckIsForThisMessage == Spec => []AckIsForThisMessage
<1>1. ASSUME BufferInv, MessageInv PROVE AckIsForThisMessage
  <2> SUFFICES ASSUME NEW s \in Senders, At(s, "returned"), "timeout" \notin incidents
               PROVE  call[s].got[1].message = call[s].message
    BY DEF AckIsForThisMessage
  <2>1. s \in Tasks /\ Reception(s) /\ CallShape(s) /\ call[s].got \in Seq(Copied) /\ call[s].pc = "returned"
    BY <1>1, SenderFacts, Facts, PacketTypes DEF MessageInv, RouteInv, At
  <2>2. call[s].got # << >>
    BY <2>1 DEF CallShape
  <2>3. 1 <= Len(call[s].got)
    BY <2>1, <2>2
  <2>4. GotAt(call[s].got, 1, TargetOf[s])
    BY <2>1, <2>2, <2>3 DEF Reception, Origin, GotAt
  <2>5. 1 \in 1..Packets /\ ~(1 > 1)
    BY SizesAssumption
  <2>6. Token(s, 1)
    BY <1>1, <2>5 DEF MessageInv, TokenInv, Sound
  <2> QED
    BY <2>4, <2>6 DEF Token, AckAlone, PipeAlone, Alone
<1> QED
  BY <1>1, MessageInvHolds, PTL

(***************************************************************************)
(* How much is on its way to some of the receiving tasks.                  *)
(***************************************************************************)
(* The sum of f over S, as the size of a set. *)
Units(S, f) == UNION {{x} \X (1..f[x]) : x \in S}
Total(S, f) == Cardinality(Units(S, f))

Servers == Tasks \ Senders

(* The packets of a sequence that carry a part of a message to one of G. *)
IsPart(p, G) == p.wellformed /\ p.channel # AckChannel /\ p.source \in SendersTo(G)
Parts(q, G) == {i \in 1..Len(q) : IsPart(q[i], G)}

(* Packets that a receiver has, packets on a link, packets that were       *)
(* acknowledged and packets that were sent, of the messages the senders    *)
(* are at.                                                                 *)
Arrived == [t \in Tasks |-> Len(Queue(t)) + Len(call[t].buf) + Len(call[t].got)]
Flying(n, G) == [k \in Links |-> Cardinality(Parts(n[k], G))]
Acked == [s \in Senders |-> IF AckExists(s) THEN Packets ELSE 0]
Emitted == [s \in Senders |-> CASE call[s].pc = "send" -> call[s].packet - 1
                                [] call[s].pc \in {"wait_ack"} \cup Receiving -> Packets
                                [] OTHER -> 0]

Counted(G) == Total(G, Arrived) + Total(Links, Flying(net, G)) + Total(SendersTo(G), Acked)
              <= Total(SendersTo(G), Emitted)

(* It holds of every group of receivers: of those of a core, which share a *)
(* pool, and of each of them, which has a queue.                           *)
FlowInv == "timeout" \notin incidents => \A G \in SUBSET Servers : Counted(G)

-----------------------------------------------------------------------------
(* Sums. *)

LEMMA UnitsMember ==
    ASSUME NEW S, NEW f, NEW x
    PROVE  x \in Units(S, f) <=> \E a \in S : x \in {a} \X (1..f[a])
BY DEF Units

LEMMA UnitsFinite ==
    ASSUME NEW S, IsFiniteSet(S), NEW f, \A a \in S : f[a] \in Nat
    PROVE  IsFiniteSet(Units(S, f)) /\ Total(S, f) \in Nat
<1> DEFINE T == {{a} \X (1..f[a]) : a \in S}
           h == [a \in S |-> {a} \X (1..f[a])]
<1>1. h \in Surjection(S, T)
  BY DEF Surjection
<1>2. IsFiniteSet(T)
  <2> HIDE DEF h, T
  <2> QED
    BY <1>1, FS_Surjection
<1>3. ASSUME NEW U \in T PROVE IsFiniteSet(U)
  <2>1. PICK a \in S : U = {a} \X (1..f[a])
    BY <1>3
  <2>2. f[a] \in Nat
    OBVIOUS
  <2> QED
    BY <2>1, <2>2, OneTaskCount
<1>4. IsFiniteSet(UNION T)
  <2> HIDE DEF T
  <2> QED
    BY <1>2, <1>3, FS_UNION
<1>5. IsFiniteSet(Units(S, f))
  BY <1>4 DEF Units
<1> QED
  BY <1>5, FS_CardinalityType DEF Total

LEMMA TotalLe ==
    ASSUME NEW S, IsFiniteSet(S), NEW f, NEW g, \A a \in S : f[a] \in Nat /\ g[a] \in Nat /\ g[a] <= f[a]
    PROVE  Total(S, g) <= Total(S, f) /\ Total(S, g) \in Nat /\ Total(S, f) \in Nat
<1>1. ASSUME NEW x \in Units(S, g) PROVE x \in Units(S, f)
  <2>1. PICK a \in S : x \in {a} \X (1..g[a])
    BY UnitsMember
  <2>2. 1..g[a] \subseteq 1..f[a]
    OBVIOUS
  <2>3. x \in {a} \X (1..f[a])
    BY <2>1, <2>2
  <2> QED
    BY <2>3, UnitsMember
<1>2. /\ IsFiniteSet(Units(S, f)) /\ Total(S, f) \in Nat /\ Total(S, g) \in Nat
  BY UnitsFinite
<1>3. Cardinality(Units(S, g)) <= Cardinality(Units(S, f))
  BY <1>1, <1>2, FS_Subset
<1> QED
  BY <1>2, <1>3 DEF Total

(* The sum without one of its terms. *)
LEMMA TotalAt ==
    ASSUME NEW S, IsFiniteSet(S), NEW f, \A a \in S : f[a] \in Nat, NEW k \in S
    PROVE  Total(S, f) = Total(S \ {k}, f) + f[k] /\ Total(S \ {k}, f) \in Nat
<1> DEFINE rest == Units(S \ {k}, f)
           is == {k} \X (1..f[k])
<1>1. Units(S, f) = rest \cup is
  <2>1. ASSUME NEW x \in Units(S, f) PROVE x \in rest \cup is
    <3>1. PICK a \in S : x \in {a} \X (1..f[a])
      BY UnitsMember
    <3>2. CASE a = k
      BY <3>1, <3>2
    <3>3. CASE a # k
      <4>1. a \in S \ {k}
        BY <3>3
      <4>2. x \in rest
        BY <3>1, <4>1, UnitsMember
      <4> QED
        BY <4>2
    <3> QED
      BY <3>2, <3>3
  <2>2. ASSUME NEW x \in rest PROVE x \in Units(S, f)
    <3>1. PICK a \in S \ {k} : x \in {a} \X (1..f[a])
      BY <2>2, UnitsMember
    <3> QED
      BY <3>1, UnitsMember
  <2>3. ASSUME NEW x \in is PROVE x \in Units(S, f)
    BY <2>3, UnitsMember
  <2> HIDE DEF rest, is
  <2> QED
    BY <2>1, <2>2, <2>3
<1>2. rest \cap is = {}
  <2> SUFFICES ASSUME NEW x \in rest, x \in is PROVE FALSE
    OBVIOUS
  <2>1. PICK a \in S \ {k} : x \in {a} \X (1..f[a])
    BY UnitsMember
  <2> QED
    BY <2>1
<1>3. IsFiniteSet(S \ {k})
  BY FS_Subset
<1>4. IsFiniteSet(rest) /\ Cardinality(rest) \in Nat /\ Total(S \ {k}, f) = Cardinality(rest)
  <2>1. \A a \in S \ {k} : f[a] \in Nat
    OBVIOUS
  <2> QED
    BY <1>3, <2>1, UnitsFinite DEF Total
<1>5. IsFiniteSet(is) /\ Cardinality(is) = f[k]
  BY OneTaskCount
<1>6. Cardinality(rest \cap is) = 0
  BY <1>2, FS_EmptySet
<1> HIDE DEF rest, is
<1>7. Cardinality(rest \cup is) = Cardinality(rest) + Cardinality(is) - Cardinality(rest \cap is)
  BY <1>4, <1>5, FS_Union
<1>8. f[k] \in Nat
  OBVIOUS
<1> QED
  BY <1>1, <1>4, <1>5, <1>6, <1>7, <1>8 DEF Total

(* One term grows by at most n, the others do not grow. *)
LEMMA TotalMoves ==
    ASSUME NEW S, IsFiniteSet(S), NEW f, NEW g, \A a \in S : f[a] \in Nat /\ g[a] \in Nat,
           NEW k \in S, NEW n \in Int, g[k] <= f[k] + n, \A a \in S \ {k} : g[a] <= f[a]
    PROVE  Total(S, g) <= Total(S, f) + n
<1>1. Total(S, f) = Total(S \ {k}, f) + f[k] /\ Total(S \ {k}, f) \in Nat
  BY TotalAt
<1>2. Total(S, g) = Total(S \ {k}, g) + g[k] /\ Total(S \ {k}, g) \in Nat
  BY TotalAt
<1>3. Total(S \ {k}, g) <= Total(S \ {k}, f)
  <2>1. IsFiniteSet(S \ {k})
    BY FS_Subset
  <2>2. \A a \in S \ {k} : f[a] \in Nat /\ g[a] \in Nat /\ g[a] <= f[a]
    OBVIOUS
  <2> QED
    BY <2>1, <2>2, TotalLe
<1>4. f[k] \in Nat /\ g[k] \in Nat
  OBVIOUS
<1> QED
  BY <1>1, <1>2, <1>3, <1>4

(* No term exceeds n. *)
LEMMA TotalBound ==
    ASSUME NEW S, IsFiniteSet(S), NEW n \in Nat, NEW f, \A a \in S : f[a] \in Nat /\ f[a] <= n
    PROVE  Total(S, f) <= n * Cardinality(S) /\ Total(S, f) \in Nat /\ Cardinality(S) \in Nat
<1>1. ASSUME NEW x \in Units(S, f) PROVE x \in S \X (1..n)
  <2>1. PICK a \in S : x \in {a} \X (1..f[a])
    BY UnitsMember
  <2>2. 1..f[a] \subseteq 1..n
    OBVIOUS
  <2> QED
    BY <2>1, <2>2
<1>2. IsFiniteSet(1..n) /\ Cardinality(1..n) = n
  BY FS_Interval
<1>3. IsFiniteSet(S \X (1..n)) /\ Cardinality(S \X (1..n)) = Cardinality(S) * Cardinality(1..n)
  BY <1>2, FS_Product
<1>4. Cardinality(Units(S, f)) <= Cardinality(S \X (1..n))
  BY <1>1, <1>3, FS_Subset
<1>5. Cardinality(S) \in Nat /\ Total(S, f) \in Nat
  BY FS_CardinalityType, UnitsFinite
<1>6. Cardinality(S) * Cardinality(1..n) = n * Cardinality(S)
  <2>1. Cardinality(S) * Cardinality(1..n) = Cardinality(S) * n
    BY <1>2, Zenon
  <2> QED
    BY <1>5, <2>1
<1> QED
  BY <1>3, <1>4, <1>5, <1>6, Zenon DEF Total

(* The packets of messages in a sequence. *)
LEMMA PartsFinite ==
    ASSUME NEW q \in Seq(Packet), NEW G
    PROVE  IsFiniteSet(Parts(q, G)) /\ Cardinality(Parts(q, G)) \in Nat
<1>1. Len(q) \in Nat
  OBVIOUS
<1>2. IsFiniteSet(1..Len(q))
  BY <1>1, FS_Interval
<1>3. Parts(q, G) \subseteq 1..Len(q)
  BY DEF Parts
<1>4. IsFiniteSet(Parts(q, G))
  BY <1>2, <1>3, FS_Subset
<1> QED
  BY <1>4, FS_CardinalityType

LEMMA PartsAppend ==
    ASSUME NEW q \in Seq(Packet), NEW p \in Packet, NEW G
    PROVE  Cardinality(Parts(Append(q, p), G)) = Cardinality(Parts(q, G)) + (IF IsPart(p, G) THEN 1 ELSE 0)
<1> DEFINE r == Append(q, p)
           m == Len(q) + 1
<1>1. /\ Len(q) \in Nat /\ Len(r) = m /\ r[m] = p
      /\ \A i \in 1..Len(q) : r[i] = q[i]
  OBVIOUS
<1> HIDE DEF r
<1>2. \A i \in 1..Len(r) : i \in 1..Len(q) \/ i = m
  BY <1>1
<1>3. 1..Len(q) \subseteq 1..Len(r) /\ m \in 1..Len(r) /\ m \notin 1..Len(q)
  BY <1>1
<1>4. m \notin Parts(q, G)
  BY <1>3 DEF Parts
<1>5. IsFiniteSet(Parts(q, G)) /\ Cardinality(Parts(q, G)) \in Nat
  BY PartsFinite
<1> HIDE DEF m
<1>6. CASE IsPart(p, G)
  <2>1. Parts(r, G) = Parts(q, G) \cup {m}
    BY <1>1, <1>2, <1>3, <1>6 DEF Parts
  <2>2. Cardinality(Parts(q, G) \cup {m}) = Cardinality(Parts(q, G)) + 1
    BY <1>4, <1>5, FS_AddElement
  <2> QED
    BY <1>6, <2>1, <2>2 DEF r
<1>7. CASE ~IsPart(p, G)
  <2>1. Parts(r, G) = Parts(q, G)
    BY <1>1, <1>2, <1>3, <1>7 DEF Parts
  <2> QED
    BY <1>5, <1>7, <2>1 DEF r
<1> QED
  BY <1>6, <1>7

LEMMA PartsTail ==
    ASSUME NEW q \in Seq(Packet), NEW G, q # << >>
    PROVE  Cardinality(Parts(Tail(q), G)) + (IF IsPart(Head(q), G) THEN 1 ELSE 0) <= Cardinality(Parts(q, G))
<1> DEFINE r == Tail(q)
           T == Parts(q, G) \ {1}
           h == [i \in Parts(r, G) |-> i + 1]
<1>1. /\ r \in Seq(Packet) /\ Len(q) \in Nat /\ Len(q) >= 1 /\ Len(r) = Len(q) - 1 /\ Head(q) = q[1]
      /\ \A i \in 1..Len(r) : r[i] = q[i + 1]
  OBVIOUS
<1> HIDE DEF r
<1>2. IsFiniteSet(Parts(q, G)) /\ Cardinality(Parts(q, G)) \in Nat /\ Cardinality(Parts(r, G)) \in Nat
  BY <1>1, PartsFinite
<1>3. ASSUME NEW i \in Parts(r, G) PROVE i \in Nat /\ i + 1 \in T
  <2>1. i \in 1..Len(r) /\ IsPart(r[i], G)
    BY DEF Parts
  <2>2. i \in Nat /\ i + 1 \in 1..Len(q) /\ i + 1 # 1
    BY <1>1, <2>1
  <2>3. IsPart(q[i + 1], G)
    BY <1>1, <2>1
  <2> QED
    BY <2>2, <2>3 DEF Parts
<1>4. h \in Injection(Parts(r, G), T)
  <2>1. h \in [Parts(r, G) -> T]
    BY <1>3
  <2>2. ASSUME NEW i \in Parts(r, G), NEW j \in Parts(r, G), h[i] = h[j] PROVE i = j
    BY <1>3, <2>2
  <2> HIDE DEF h
  <2> QED
    BY <2>1, <2>2 DEF Injection, IsInjective
<1>5. /\ IsFiniteSet(T)
      /\ Cardinality(T) = IF 1 \in Parts(q, G) THEN Cardinality(Parts(q, G)) - 1 ELSE Cardinality(Parts(q, G))
  BY <1>2, FS_RemoveElement
<1>6. Cardinality(Parts(r, G)) <= Cardinality(T)
  <2> HIDE DEF h, T
  <2> QED
    BY <1>4, <1>5, FS_Injection
<1>7. 1 \in Parts(q, G) <=> IsPart(Head(q), G)
  BY <1>1 DEF Parts
<1> HIDE DEF T
<1> QED
  BY <1>2, <1>5, <1>6, <1>7 DEF r

-----------------------------------------------------------------------------
(* The terms of the sums. *)

LEMMA PlacesFinite ==
    /\ \A G \in SUBSET Servers : IsFiniteSet(G) /\ IsFiniteSet(SendersTo(G)) /\ G \subseteq Tasks
    /\ \A c : IsFiniteSet(SendersOn(c)) /\ ServersOn(c) \in SUBSET Servers
    /\ IsFiniteSet(Links)
<1>1. IsFiniteSet(Tasks) /\ Senders \subseteq Tasks
  BY RolesAssumption
<1>2. IsFiniteSet(Senders)
  BY <1>1, FS_Subset
<1>3. /\ \A G \in SUBSET Servers : IsFiniteSet(G) /\ IsFiniteSet(SendersTo(G)) /\ G \subseteq Tasks
      /\ \A c : IsFiniteSet(SendersOn(c)) /\ ServersOn(c) \in SUBSET Servers
  <2>1. ASSUME NEW G \in SUBSET Servers PROVE G \subseteq Tasks /\ SendersTo(G) \subseteq Senders
    BY DEF Servers, SendersTo
  <2>2. ASSUME NEW c PROVE SendersOn(c) \subseteq Senders /\ ServersOn(c) \in SUBSET Servers
    BY DEF Servers, SendersOn, ServersOn
  <2> QED
    BY <1>1, <1>2, <2>1, <2>2, FS_Subset
<1>4. IsFiniteSet(Links)
  <2> DEFINE h == [s \in Senders |-> {DataLink(s), AckLink(s)}]
             T == {{DataLink(s), AckLink(s)} : s \in Senders}
  <2>1. h \in Surjection(Senders, T)
    BY DEF Surjection
  <2>2. ASSUME NEW U \in T PROVE IsFiniteSet(U)
    <3>1. PICK s \in Senders : U = {DataLink(s), AckLink(s)}
      BY <2>2
    <3>2. IsFiniteSet({DataLink(s)}) /\ IsFiniteSet({AckLink(s)})
      BY FS_Singleton
    <3>3. U = {DataLink(s)} \cup {AckLink(s)}
      BY <3>1
    <3> QED
      BY <3>2, <3>3, FS_Union
  <2> HIDE DEF h
  <2>3. Links = UNION T
    BY DEF Links, DataLink, AckLink
  <2> HIDE DEF T
  <2>4. IsFiniteSet(T)
    BY <1>2, <2>1, FS_Surjection
  <2> QED
    BY <2>2, <2>3, <2>4, FS_UNION
<1> QED
  BY <1>3, <1>4

TermsTyped ==
    /\ \A t \in Tasks : Arrived[t] \in Nat
    /\ \A G \in SUBSET Servers, k \in Links : Flying(net, G)[k] \in Nat
    /\ \A s \in Senders : Acked[s] \in 0..Packets /\ Emitted[s] \in 0..Packets

LEMMA TermTypes == BufferInv => TermsTyped
<1> SUFFICES ASSUME BufferInv PROVE TermsTyped
  OBVIOUS
<1>1. ASSUME NEW t \in Tasks PROVE Arrived[t] \in Nat
  <2>1. Queue(t) \in Seq(Packet) /\ call[t].buf \in Seq(Packet) /\ call[t].got \in Seq(Copied)
    BY PacketTypes
  <2>2. Len(Queue(t)) \in Nat /\ Len(call[t].buf) \in Nat /\ Len(call[t].got) \in Nat
    BY <2>1
  <2>3. Arrived[t] = Len(Queue(t)) + Len(call[t].buf) + Len(call[t].got)
    BY DEF Arrived
  <2>4. \A i, j, k \in Nat : i + j + k \in Nat
    OBVIOUS
  <2> QED
    BY <2>2, <2>3, <2>4, Zenon
<1>2. ASSUME NEW G \in SUBSET Servers, NEW k \in Links PROVE Flying(net, G)[k] \in Nat
  <2>1. net[k] \in Seq(Packet)
    BY DEF BufferInv, NocType
  <2> QED
    BY <2>1, PartsFinite DEF Flying
<1>3. ASSUME NEW s \in Senders PROVE Acked[s] \in 0..Packets /\ Emitted[s] \in 0..Packets
  <2>1. s \in Tasks /\ Packets \in Nat
    BY SenderFacts, SizesAssumption
  <2>2. CallShape(s)
    BY <2>1, Facts
  <2>3. call[s].pc = "send" => call[s].packet \in 1..Packets
    BY <2>2 DEF CallShape
  <2>4. Acked[s] \in 0..Packets
    BY <2>1 DEF Acked
  <2>5. Emitted[s] = CASE call[s].pc = "send" -> call[s].packet - 1
                       [] call[s].pc \in {"wait_ack"} \cup Receiving -> Packets
                       [] OTHER -> 0
    BY DEF Emitted
  <2>6. Emitted[s] \in 0..Packets
    BY <2>1, <2>3, <2>5 DEF Receiving
  <2> QED
    BY <2>4, <2>6
<1> QED
  BY <1>1, <1>2, <1>3 DEF TermsTyped

LEMMA TermTypesNext == BufferInv' => TermsTyped'
BY TermTypes, PTL

(* Sent, in numbers. *)
SentNumbered == \A s \in Senders : \A n \in 1..Packets : Sent(s, n) <=> n <= Emitted[s]

LEMMA EmittedIs == BufferInv => SentNumbered
<1> SUFFICES ASSUME BufferInv, NEW s \in Senders PROVE \A n \in 1..Packets : Sent(s, n) <=> n <= Emitted[s]
  BY DEF SentNumbered
<1>1. s \in Tasks /\ Packets \in Nat
  BY SenderFacts, SizesAssumption
<1>2. CallShape(s)
  BY <1>1, Facts
<1>3. call[s].pc = "send" => call[s].packet \in 1..Packets
  BY <1>2 DEF CallShape
<1>4. Emitted[s] = CASE call[s].pc = "send" -> call[s].packet - 1
                     [] call[s].pc \in {"wait_ack"} \cup Receiving -> Packets
                     [] OTHER -> 0
  BY DEF Emitted
<1> QED
  BY <1>1, <1>3, <1>4 DEF Sent, Receiving

LEMMA EmittedIsNext == BufferInv' => SentNumbered'
BY EmittedIs, PTL

-----------------------------------------------------------------------------
(* What a step does to the sums. *)

(* The sum of g is that of f and at most n. *)
MovesBy(S, f, g, n) ==
    \/ n = 0 /\ \A x \in S : g[x] <= f[x]
    \/ \E k \in S : g[k] <= f[k] + n /\ \A x \in S \ {k} : g[x] <= f[x]

LEMMA MovesTotal ==
    ASSUME NEW S, IsFiniteSet(S), NEW f, NEW g, \A a \in S : f[a] \in Nat /\ g[a] \in Nat,
           NEW n \in Int, MovesBy(S, f, g, n)
    PROVE  Total(S, g) <= Total(S, f) + n /\ Total(S, g) \in Nat /\ Total(S, f) \in Nat
<1>1. Total(S, g) \in Nat /\ Total(S, f) \in Nat
  BY UnitsFinite
<1>2. CASE n = 0 /\ \A x \in S : g[x] <= f[x]
  <2>1. Total(S, g) <= Total(S, f)
    BY <1>2, TotalLe
  <2> QED
    BY <1>1, <1>2, <2>1
<1>3. CASE \E k \in S : g[k] <= f[k] + n /\ \A x \in S \ {k} : g[x] <= f[x]
  BY <1>1, <1>3, TotalMoves
<1> QED
  BY <1>2, <1>3 DEF MovesBy

LEMMA CountedNext ==
    ASSUME NEW G
    PROVE  Counted(G)' <=> Total(G, Arrived') + Total(Links, Flying(net', G)) + Total(SendersTo(G), Acked')
                           <= Total(SendersTo(G), Emitted')
BY DEF Counted, Total, Units

LEMMA CountedMoves ==
    ASSUME BufferInv, BufferInv', NEW G \in SUBSET Servers, Counted(G),
           NEW a \in Int, NEW b \in Int, NEW d \in Int, NEW e \in Int, a + b + d + e <= 0,
           MovesBy(G, Arrived, Arrived', a), MovesBy(Links, Flying(net, G), Flying(net', G), b),
           MovesBy(SendersTo(G), Acked, Acked', d), MovesBy(SendersTo(G), Emitted', Emitted, e)
    PROVE  Counted(G)'
<1>1. TermsTyped /\ TermsTyped'
  BY TermTypes, TermTypesNext
<1>2. 0..Packets \subseteq Nat
  BY SizesAssumption
<1>3. /\ \A t \in G : Arrived[t] \in Nat /\ Arrived'[t] \in Nat
      /\ \A k \in Links : Flying(net, G)[k] \in Nat /\ Flying(net', G)[k] \in Nat
      /\ \A s \in SendersTo(G) : /\ Acked[s] \in Nat /\ Acked'[s] \in Nat
                                 /\ Emitted[s] \in Nat /\ Emitted'[s] \in Nat
  BY <1>1, <1>2 DEF TermsTyped, Servers, SendersTo
<1>4. IsFiniteSet(G) /\ IsFiniteSet(Links) /\ IsFiniteSet(SendersTo(G))
  BY PlacesFinite
<1>5. /\ Total(G, Arrived') <= Total(G, Arrived) + a
      /\ Total(G, Arrived') \in Nat /\ Total(G, Arrived) \in Nat
  BY <1>3, <1>4, MovesTotal
<1>6. /\ Total(Links, Flying(net', G)) <= Total(Links, Flying(net, G)) + b
      /\ Total(Links, Flying(net', G)) \in Nat /\ Total(Links, Flying(net, G)) \in Nat
  BY <1>3, <1>4, MovesTotal
<1>7. /\ Total(SendersTo(G), Acked') <= Total(SendersTo(G), Acked) + d
      /\ Total(SendersTo(G), Acked') \in Nat /\ Total(SendersTo(G), Acked) \in Nat
  BY <1>3, <1>4, MovesTotal
<1>8. /\ Total(SendersTo(G), Emitted) <= Total(SendersTo(G), Emitted') + e
      /\ Total(SendersTo(G), Emitted') \in Nat /\ Total(SendersTo(G), Emitted) \in Nat
  BY <1>3, <1>4, MovesTotal
<1>9. Total(G, Arrived) + Total(Links, Flying(net, G)) + Total(SendersTo(G), Acked)
      <= Total(SendersTo(G), Emitted)
  BY DEF Counted
<1>10. Total(G, Arrived') + Total(Links, Flying(net', G)) + Total(SendersTo(G), Acked')
       <= Total(SendersTo(G), Emitted')
  BY <1>5, <1>6, <1>7, <1>8, <1>9
<1> QED
  BY <1>10, CountedNext

LEMMA ArrivedIs ==
    ASSUME NEW t \in Tasks
    PROVE  /\ Arrived[t] = Len(Queue(t)) + Len(call[t].buf) + Len(call[t].got)
           /\ Arrived'[t] = Len(Queue(t)') + Len(call'[t].buf) + Len(call'[t].got)
BY DEF Arrived

LEMMA ArrivedStill ==
    ASSUME NEW t \in Tasks, Still(t) PROVE Arrived'[t] = Arrived[t]
BY ArrivedIs DEF Still

LEMMA FlyingStill ==
    ASSUME NEW G, NEW k \in Links, net'[k] = net[k] PROVE Flying(net', G)[k] = Flying(net, G)[k]
BY DEF Flying, Parts

LEMMA FlyingIs ==
    ASSUME NEW n, NEW G, NEW k \in Links PROVE Flying(n, G)[k] = Cardinality(Parts(n[k], G))
BY DEF Flying

(* Packets only move between the places of a receiver, or are dropped. *)
LEMMA ArrivedKept ==
    ASSUME BufferInv, BufferInv', RouteInv, NEW u \in Tasks, NEW t \in Tasks \ Senders,
           Quiet(u) \/ comm_drain(u) \/ recv_first(u) \/ recv_next(u) \/ recv_copy(u) \/ ack_return(u) \/ recv_return(u)
    PROVE  Arrived'[t] <= Arrived[t]
<1>1. Reception(u) /\ Arrived[t] \in Nat /\ Arrived'[t] \in Nat
  BY TermTypes, TermTypesNext DEF RouteInv, TermsTyped
<1>2. CASE Still(t)
  BY <1>1, <1>2, ArrivedStill
<1>3. PICK q, b, g : q = Queue(t) /\ b = call[t].buf /\ g = call[t].got
  OBVIOUS
<1>4. q \in Seq(Packet) /\ b \in Seq(Packet) /\ g \in Seq(Copied)
  BY <1>3, PacketTypes
<1>5. Len(q) \in Nat /\ Len(b) \in Nat /\ Len(g) \in Nat /\ Len(<< >>) = 0
  BY <1>4
<1>6. Arrived[t] = Len(q) + Len(b) + Len(g)
  BY <1>3, ArrivedIs
<1>7. CASE t = u /\ comm_drain(u)
  <2>1. Arrived'[t] = Len(<< >>) + Len(b) + Len(g)
    BY <1>3, <1>7, DrainStep, ArrivedIs
  <2> QED
    BY <1>5, <1>6, <2>1
<1>8. CASE t = u /\ (recv_first(u) \/ recv_next(u))
  <2>1. Turns(t) \/ (\E z \in {q, Rotated(q)} : Takes(t, z))
    BY <1>1, <1>3, <1>8, FirstStep, NextStep
  <2>2. q # << >>
    BY <1>3, <2>1 DEF Turns, Takes
  <2>3. \A z \in {q, Rotated(q)} : z \in Seq(Packet) /\ z # << >> /\ Len(z) = Len(q)
    BY <1>4, <2>2, QueueFacts
  <2>4. CASE Turns(t)
    <3>1. Arrived'[t] = Len(Rotated(q)) + Len(b) + Len(g)
      BY <1>3, <2>4, ArrivedIs DEF Turns
    <3> QED
      BY <1>5, <1>6, <2>3, <3>1
  <2>5. CASE \E z \in {q, Rotated(q)} : Takes(t, z)
    <3>1. PICK z \in {q, Rotated(q)} : Takes(t, z)
      BY <2>5
    <3>2. Arrived'[t] = Len(Tail(z)) + Len(<<Head(z)>>) + Len(g) /\ Len(b) = Len(<< >>)
      BY <1>3, <3>1, ArrivedIs DEF Takes
    <3>3. Len(Tail(z)) = Len(z) - 1 /\ Len(z) = Len(q)
      BY <2>3, QueueFacts
    <3>4. Len(<<Head(z)>>) = 1
      OBVIOUS
    <3> QED
      BY <1>5, <1>6, <3>2, <3>3, <3>4
  <2> QED
    BY <2>1, <2>4, <2>5
<1>9. CASE t = u /\ recv_copy(u)
  <2>1. PICK p, x : /\ p \in Packet /\ b = <<p>> /\ Queue(t)' = q /\ call'[t].buf = << >> /\ call'[t].got = Append(g, x)
    BY <1>3, <1>9, CopyStep
  <2>2. Arrived'[t] = Len(q) + Len(<< >>) + Len(Append(g, x))
    BY <2>1, ArrivedIs
  <2>3. Len(Append(g, x)) = Len(g) + 1 /\ Len(<<p>>) = 1
    BY <1>4
  <2> QED
    BY <1>5, <1>6, <2>1, <2>2, <2>3
<1>10. CASE t = u /\ (ack_return(u) \/ recv_return(u))
  <2>1. Arrived'[t] = Len(q) + Len(b) + Len(<< >>)
    BY <1>3, <1>10, EndStep, ArrivedIs DEF Ends
  <2> QED
    BY <1>5, <1>6, <2>1
<1> QED
  BY <1>1, <1>2, <1>7, <1>8, <1>9, <1>10, QuietStep, DrainStep, FirstStep, NextStep, CopyStep, EndStep

(* A sender that returns had its acknowledgement and has none any more. *)
LEMMA AckTaken ==
    ASSUME BufferInv, RouteInv, NEW s \in Senders, Token(s, 1), ack_return(s)
    PROVE  AckExists(s) /\ ~AckExists(s)'
<1>0. PICK m : m = call[s].message
  OBVIOUS
<1>1. s \in Tasks /\ Reception(s) /\ CallShape(s) /\ call[s].got \in Seq(Copied) /\ net' = net
  BY SenderFacts, Facts, PacketTypes DEF RouteInv, ack_return
<1>2. GotAt(call[s].got, 1, TargetOf[s])
  <2>1. call[s].got # << >>
    BY <1>1 DEF ack_return, At, CallShape
  <2>2. 1 <= Len(call[s].got)
    BY <1>1, <2>1
  <2> QED
    BY <1>1, <2>1, <2>2 DEF Reception, Origin, GotAt
<1>3. AckExists(s) /\ AckAlone(s, m)
  BY <1>0, <1>2 DEF AckExists, PipeExists, Exists, Token
<1>4. Fits(s, AckLink(s), Acks(s), 1, TargetOf[s])
  BY FitsAck DEF RouteInv
<1>5. Ends(s)
  BY <1>1, EndStep
<1>6. ~AckExists(s)'
  BY <1>1, <1>2, <1>3, <1>4, <1>5, ResetFlows DEF AckAlone, AckExists, Flows
<1> QED
  BY <1>3, <1>6

LEMMA EmittedSend ==
    ASSUME BufferInv, BufferInv', NEW s \in Senders, send_packet(s)
    PROVE  Emitted'[s] = Emitted[s] + 1
<1>1. s \in Tasks /\ Packets \in Nat
  BY SenderFacts, SizesAssumption
<1>2. /\ call[s].pc = "send" /\ call[s].packet \in 1..Packets
      /\ IF call[s].packet < Packets THEN call'[s].pc = "send" /\ call'[s].packet = call[s].packet + 1
         ELSE call'[s].pc = "wait_ack"
  BY <1>1, SendStep
<1>3. Emitted[s] = CASE call[s].pc = "send" -> call[s].packet - 1
                     [] call[s].pc \in {"wait_ack"} \cup Receiving -> Packets
                     [] OTHER -> 0
  BY DEF Emitted
<1>4. Emitted'[s] = CASE call'[s].pc = "send" -> call'[s].packet - 1
                      [] call'[s].pc \in {"wait_ack"} \cup Receiving -> Packets
                      [] OTHER -> 0
  BY DEF Emitted
<1>5. Emitted[s] = call[s].packet - 1
  BY <1>2, <1>3 DEF Receiving
<1>6. CASE call[s].packet < Packets
  BY <1>1, <1>2, <1>4, <1>5, <1>6 DEF Receiving
<1>7. CASE ~(call[s].packet < Packets)
  <2>1. Emitted'[s] = Packets
    BY <1>2, <1>4, <1>7
  <2> QED
    BY <1>1, <1>2, <1>5, <1>7, <2>1
<1> QED
  BY <1>6, <1>7

(* What a sender has sent it takes back only when its call returns. *)
LEMMA EmittedKept ==
    ASSUME BufferInv, BufferInv', RouteInv, Next, NEW s \in Senders, ~ack_return(s), ~time_out(s)
    PROVE  Emitted[s] <= Emitted'[s]
<1>1. Emitted[s] \in 0..Packets /\ Emitted'[s] \in 0..Packets /\ Packets \in Nat
  BY TermTypes, TermTypesNext, SizesAssumption DEF TermsTyped
<1>2. CASE send_packet(s)
  BY <1>1, <1>2, EmittedSend
<1>3. CASE ~send_packet(s) /\ Emitted[s] \in 1..Packets
  <2>1. Sent(s, Emitted[s])
    BY <1>1, <1>3, EmittedIs DEF SentNumbered
  <2>2. Sent(s, Emitted[s]) => (\E n \in 1..Packets : n = Emitted[s] /\ Sent(s, n)')
    <3>1. PICK n \in 1..Packets : n = Emitted[s]
      BY <1>3
    <3>2. Sent(s, n) => Sent(s, n)'
      BY <1>3, SenderCalls
    <3> QED
      BY <3>1, <3>2
  <2>3. PICK n \in 1..Packets : n = Emitted[s] /\ Sent(s, n)'
    BY <2>1, <2>2
  <2>4. n <= Emitted'[s]
    <3>1. SentNumbered'
      BY EmittedIsNext
    <3> QED
      BY <2>3, <3>1 DEF SentNumbered
  <2> QED
    BY <2>3, <2>4
<1>4. CASE Emitted[s] = 0
  BY <1>1, <1>4
<1> QED
  BY <1>1, <1>2, <1>3, <1>4

LEMMA AckedIs ==
    ASSUME NEW s \in Senders
    PROVE  Acked[s] = (IF AckExists(s) THEN Packets ELSE 0) /\ Acked'[s] = (IF AckExists(s)' THEN Packets ELSE 0)
BY DEF Acked

(* Acknowledgements come from recv_return() only. *)
LEMMA AckedKept ==
    ASSUME BufferInv, RouteInv, TokenInv, Next, "timeout" \notin incidents, NEW s \in Senders,
           \A u \in Tasks : ~(recv_return(u) /\ ~call[u].error /\ call[u].got[1].source = s)
    PROVE  Acked'[s] <= Acked[s]
<1>1. 1 \in 1..Packets /\ ~(1 > 1) /\ Packets \in Nat /\ 0 <= Packets
  BY SizesAssumption
<1>2. Token(s, 1)
  BY <1>1 DEF TokenInv, Sound
<1>3. AckExists(s)' => AckExists(s)
  BY <1>2, AckFlows DEF Token
<1> QED
  BY <1>1, <1>3, AckedIs

LEMMA ZeroMove ==
    ASSUME NEW S, NEW f, NEW g, \A x \in S : g[x] <= f[x]
    PROVE  MovesBy(S, f, g, 0)
BY Zenon DEF MovesBy

LEMMA OneMove ==
    ASSUME NEW S, NEW f, NEW g, NEW n, NEW k \in S, g[k] <= f[k] + n, \A x \in S \ {k} : g[x] <= f[x]
    PROVE  MovesBy(S, f, g, n)
BY DEF MovesBy

(* Nothing is sent or returned to a sender. *)
LEMMA CountedQuiet ==
    ASSUME BufferInv, BufferInv', RouteInv, TokenInv, Next, "timeout" \notin incidents', NEW G \in SUBSET Servers, Counted(G),
           \A t \in G : Arrived'[t] <= Arrived[t], \A k \in Links : Flying(net', G)[k] <= Flying(net, G)[k],
           \A u \in Tasks : ~recv_return(u) \/ call[u].error, \A s \in SendersTo(G) : ~ack_return(s)
    PROVE  Counted(G)'
<1>1. "timeout" \notin incidents /\ \A s \in Senders : ~time_out(s)
  BY IncidentsGrow DEF time_out
<1>2. \A s \in SendersTo(G) : Acked'[s] <= Acked[s]
  BY <1>1, AckedKept DEF SendersTo
<1>3. \A s \in SendersTo(G) : Emitted[s] <= Emitted'[s]
  BY <1>1, EmittedKept DEF SendersTo
<1>4. /\ MovesBy(G, Arrived, Arrived', 0) /\ MovesBy(Links, Flying(net, G), Flying(net', G), 0)
      /\ MovesBy(SendersTo(G), Acked, Acked', 0) /\ MovesBy(SendersTo(G), Emitted', Emitted, 0)
  BY <1>2, <1>3, ZeroMove
<1>5. 0 \in Int /\ 0 + 0 + 0 + 0 <= 0
  OBVIOUS
<1> QED
  BY <1>4, <1>5, CountedMoves

LEMMA CountedAcked ==
    ASSUME BufferInv, BufferInv', RouteInv, TokenInv, Next, "timeout" \notin incidents', NEW G \in SUBSET Servers, Counted(G),
           NEW s \in Senders, ack_return(s)
    PROVE  Counted(G)'
<1>1. /\ "timeout" \notin incidents /\ (\A u \in Senders : ~time_out(u))
      /\ s \in Tasks /\ Packets \in Nat /\ net' = net /\ call \in [Tasks -> Call]
  BY IncidentsGrow, SenderFacts, SizesAssumption, PacketTypes DEF time_out, ack_return
<1>2. \A u \in Tasks : ~recv_return(u)
  <2> SUFFICES ASSUME NEW u \in Tasks, recv_return(u) PROVE FALSE
    OBVIOUS
  <2>1. CASE u = s
    BY <2>1, RolesAssumption DEF recv_return, ack_return
  <2>2. CASE u # s
    <3>1. call'[u] = call[u]
      BY <1>1, <2>2 DEF ack_return, Set
    <3>2. call'[u].pc = "idle" /\ call[u].pc = "returned"
      BY <1>1 DEF recv_return, Finished, NoCall, Set, At
    <3> QED
      BY <3>1, <3>2
  <2> QED
    BY <2>1, <2>2
<1>3. \A u \in Senders \ {s} : ~ack_return(u)
  <2> SUFFICES ASSUME NEW u \in Senders \ {s}, ack_return(u) PROVE FALSE
    OBVIOUS
  <2>1. u \in Tasks /\ call'[u] = call[u]
    BY <1>1, SenderFacts DEF ack_return, Set
  <2>2. call'[u].pc = "idle" /\ call[u].pc = "returned"
    BY <1>1, <2>1 DEF ack_return, NoCall, Set, At
  <2> QED
    BY <2>1, <2>2
<1>4. \A t \in G : Arrived'[t] <= Arrived[t]
  BY <1>1, ArrivedKept DEF Servers
<1>5. \A k \in Links : Flying(net', G)[k] <= Flying(net, G)[k]
  <2> SUFFICES ASSUME NEW k \in Links PROVE Flying(net', G)[k] <= Flying(net, G)[k]
    OBVIOUS
  <2>1. k \in Links /\ Flying(net, G)[k] \in Nat
    BY TermTypes DEF TermsTyped
  <2> QED
    BY <1>1, <2>1, FlyingStill
<1>6. CASE s \notin SendersTo(G)
  <2>1. \A u \in SendersTo(G) : ~ack_return(u)
    BY <1>3, <1>6 DEF SendersTo
  <2> QED
    BY <1>2, <1>4, <1>5, <2>1, CountedQuiet
<1>7. CASE s \in SendersTo(G)
  <2>1. \A u \in SendersTo(G) : Acked'[u] <= Acked[u]
    BY <1>1, <1>2, AckedKept DEF SendersTo
  <2>2. \A u \in SendersTo(G) \ {s} : Emitted[u] <= Emitted'[u]
    BY <1>1, <1>3, EmittedKept DEF SendersTo
  <2>3. Acked[s] = Packets /\ Acked'[s] = 0
    <3>0. 1 \in 1..Packets /\ ~(1 > 1)
      BY SizesAssumption
    <3>1. Token(s, 1)
      BY <1>1, <3>0 DEF TokenInv, Sound
    <3>2. AckExists(s) /\ ~AckExists(s)'
      BY <3>1, AckTaken
    <3> QED
      BY <3>2, AckedIs
  <2>4. Emitted[s] \in 0..Packets /\ Emitted'[s] \in 0..Packets
    BY TermTypes, TermTypesNext DEF TermsTyped
  <2>5. Acked'[s] <= Acked[s] + (-Packets) /\ Emitted[s] <= Emitted'[s] + Packets /\ -Packets \in Int /\ Packets \in Int
    BY <1>1, <2>3, <2>4
  <2>6. MovesBy(SendersTo(G), Acked, Acked', -Packets) /\ MovesBy(SendersTo(G), Emitted', Emitted, Packets)
    BY <1>7, <2>1, <2>2, <2>5, OneMove
  <2>7. MovesBy(G, Arrived, Arrived', 0) /\ MovesBy(Links, Flying(net, G), Flying(net', G), 0)
    BY <1>4, <1>5, ZeroMove
  <2>8. 0 \in Int /\ 0 + 0 + (-Packets) + Packets <= 0
    BY <1>1
  <2> QED
    BY <2>5, <2>6, <2>7, <2>8, CountedMoves
<1> QED
  BY <1>6, <1>7

LEMMA CallEnds ==
    ASSUME BufferInv, NEW u \in Tasks, recv_return(u) \/ ack_return(u)
    PROVE  call[u].pc = "returned" /\ call'[u].pc = "idle" /\ call'[u] # call[u]
<1>1. call \in [Tasks -> Call]
  BY PacketTypes
<1>2. call[u].pc = "returned" /\ call'[u].pc = "idle"
  BY <1>1 DEF recv_return, ack_return, Finished, NoCall, Set, At
<1> QED
  BY <1>2

LEMMA FlyingWrite ==
    ASSUME BufferInv, NEW G \in SUBSET Servers, NEW k \in Links, NEW p \in Packet, Writes(k, p)
    PROVE  /\ Flying(net', G)[k] = Flying(net, G)[k] + (IF IsPart(p, G) THEN 1 ELSE 0)
           /\ \A l \in Links \ {k} : Flying(net', G)[l] <= Flying(net, G)[l]
<1>1. net \in [Links -> Seq(Packet)]
  BY DEF BufferInv, NocType
<1>2. net'[k] = Append(net[k], p) /\ (\A l \in Links \ {k} : net'[l] = net[l]) /\ net[k] \in Seq(Packet)
  BY <1>1 DEF Writes
<1>3. Flying(net', G)[k] = Flying(net, G)[k] + (IF IsPart(p, G) THEN 1 ELSE 0)
  <2>1. /\ Flying(net, G)[k] = Cardinality(Parts(net[k], G))
        /\ Flying(net', G)[k] = Cardinality(Parts(net'[k], G))
    BY FlyingIs
  <2>2. Cardinality(Parts(Append(net[k], p), G)) = Cardinality(Parts(net[k], G)) + (IF IsPart(p, G) THEN 1 ELSE 0)
    BY <1>2, PartsAppend
  <2> QED
    BY <1>2, <2>1, <2>2
<1>4. ASSUME NEW l \in Links \ {k} PROVE Flying(net', G)[l] <= Flying(net, G)[l]
  <2>1. Flying(net, G)[l] \in Nat /\ net'[l] = net[l]
    BY <1>2, TermTypes DEF TermsTyped
  <2> QED
    BY <2>1, FlyingStill
<1> QED
  BY <1>3, <1>4

(* A step in which no call ends and no packet arrives. *)
LEMMA ArrivedLe ==
    ASSUME BufferInv, NEW S, S \subseteq Tasks, \A t \in S : Still(t)
    PROVE  \A t \in S : Arrived'[t] <= Arrived[t]
<1> SUFFICES ASSUME NEW t \in S PROVE Arrived'[t] <= Arrived[t]
  OBVIOUS
<1>1. t \in Tasks /\ Arrived[t] \in Nat
  BY TermTypes DEF TermsTyped
<1> QED
  BY <1>1, ArrivedStill

LEMMA FlyingLe ==
    ASSUME BufferInv, NEW G \in SUBSET Servers, NEW S, S \subseteq Links, \A k \in S : net'[k] = net[k]
    PROVE  \A k \in S : Flying(net', G)[k] <= Flying(net, G)[k]
<1> SUFFICES ASSUME NEW k \in S PROVE Flying(net', G)[k] <= Flying(net, G)[k]
  OBVIOUS
<1>1. k \in Links /\ Flying(net, G)[k] \in Nat
  BY TermTypes DEF TermsTyped
<1> QED
  BY <1>1, FlyingStill

LEMMA CountedSend ==
    ASSUME BufferInv, BufferInv', RouteInv, TokenInv, Next, "timeout" \notin incidents', NEW G \in SUBSET Servers, Counted(G),
           NEW s \in Tasks, send_packet(s)
    PROVE  Counted(G)'
<1>1. /\ s \in Senders /\ call[s].pc = "send" /\ (\A t \in Tasks : Still(t))
      /\ \A t \in Tasks \ {s} : call'[t] = call[t]
  BY SendStep
<1>2. PICK p \in Packet : Writes(DataLink(s), p) /\ IsData(p) /\ p.wellformed /\ p.source = s
  BY SendStep
<1>3. IsPart(p, G) <=> TargetOf[s] \in G
  BY <1>1, <1>2, SenderFacts DEF IsPart, IsData, SendersTo
<1>4. \A u \in Tasks : ~recv_return(u) /\ ~ack_return(u)
  BY <1>1, CallEnds
<1>5. DataLink(s) \in Links /\ DataLink(s)[2] = CoreOf[TargetOf[s]]
  BY <1>1, SenderFacts
<1>6. /\ Flying(net', G)[DataLink(s)] = Flying(net, G)[DataLink(s)] + (IF TargetOf[s] \in G THEN 1 ELSE 0)
      /\ \A l \in Links \ {DataLink(s)} : Flying(net', G)[l] <= Flying(net, G)[l]
  BY <1>2, <1>3, <1>5, FlyingWrite
<1>7. \A t \in G : Arrived'[t] <= Arrived[t]
  BY <1>1, ArrivedLe DEF Servers
<1>8. \A u \in Senders : u \in Tasks
  BY SenderFacts
<1>9. CASE TargetOf[s] \notin G
  <2>1. \A k \in Links : Flying(net', G)[k] <= Flying(net, G)[k]
    <3>1. Flying(net, G)[DataLink(s)] \in Nat
      BY <1>5, TermTypes DEF TermsTyped
    <3> QED
      BY <1>6, <1>9, <3>1
  <2>2. \A u \in SendersTo(G) : ~ack_return(u)
    BY <1>4, <1>8 DEF SendersTo
  <2> QED
    BY <1>4, <1>7, <2>1, <2>2, CountedQuiet
<1>10. CASE TargetOf[s] \in G
  <2>1. "timeout" \notin incidents /\ (\A u \in Senders : ~time_out(u) /\ ~ack_return(u))
    BY <1>4, <1>8, IncidentsGrow DEF time_out
  <2>2. \A u \in SendersTo(G) : Acked'[u] <= Acked[u]
    BY <1>4, <2>1, AckedKept DEF SendersTo
  <2>3. \A u \in SendersTo(G) \ {s} : Emitted[u] <= Emitted'[u]
    BY <2>1, EmittedKept DEF SendersTo
  <2>4. Emitted[s] <= Emitted'[s] + (-1) /\ Flying(net', G)[DataLink(s)] <= Flying(net, G)[DataLink(s)] + 1
    <3>1. Emitted'[s] = Emitted[s] + 1 /\ Packets \in Nat
      BY <1>1, EmittedSend, SizesAssumption
    <3>2. Emitted[s] \in 0..Packets /\ Flying(net, G)[DataLink(s)] \in Nat
      BY <1>1, <1>5, TermTypes DEF TermsTyped
    <3> QED
      BY <1>6, <1>10, <3>1, <3>2
  <2>5. s \in SendersTo(G) /\ DataLink(s) \in Links
    BY <1>1, <1>5, <1>10 DEF SendersTo
  <2>6. MovesBy(SendersTo(G), Emitted', Emitted, -1)
    BY <2>3, <2>4, <2>5, OneMove
  <2>7. MovesBy(Links, Flying(net, G), Flying(net', G), 1)
    BY <1>6, <2>4, <2>5, OneMove
  <2>8. MovesBy(G, Arrived, Arrived', 0) /\ MovesBy(SendersTo(G), Acked, Acked', 0)
    BY <1>7, <2>2, ZeroMove
  <2>9. 0 \in Int /\ 1 \in Int /\ -1 \in Int /\ 0 + 1 + 0 + (-1) <= 0
    OBVIOUS
  <2> QED
    BY <2>6, <2>7, <2>8, <2>9, CountedMoves
<1> QED
  BY <1>9, <1>10

LEMMA CountedReturned ==
    ASSUME BufferInv, BufferInv', RouteInv, TokenInv, Next, "timeout" \notin incidents', NEW G \in SUBSET Servers, Counted(G),
           NEW u \in Tasks, recv_return(u), ~call[u].error
    PROVE  Counted(G)'
<1>1. PICK s : s = call[u].got[1].source
  OBVIOUS
<1>2. /\ u \in Receivers /\ s \in Senders /\ TargetOf[s] = u /\ u \notin Senders
      /\ net' = net \/ \E p \in Packet : Writes(AckLink(s), p) /\ IsAck(p, s)
  BY <1>1, ReturnStep, SenderFacts DEF RouteInv
<1>3. Ends(u) /\ (\A t \in Tasks \ {u} : Still(t) /\ call'[t] = call[t])
  BY EndStep, OthersCalls DEF Step
<1>4. /\ \A t \in Tasks : recv_return(t) => t = u
      /\ \A t \in Tasks : ~ack_return(t)
  <2>1. ~ack_return(u)
    BY <1>2 DEF ack_return
  <2> QED
    BY <1>3, <2>1, CallEnds
<1>5. "timeout" \notin incidents /\ (\A v \in Senders : ~time_out(v) /\ ~ack_return(v)) /\ Packets \in Nat
  BY <1>4, IncidentsGrow, SenderFacts, SizesAssumption DEF time_out
<1>6. \A k \in Links : Flying(net', G)[k] <= Flying(net, G)[k]
  <2>2. CASE net' = net
    BY <2>2, FlyingLe
  <2>3. CASE \E p \in Packet : Writes(AckLink(s), p) /\ IsAck(p, s)
    <3>1. PICK p \in Packet : Writes(AckLink(s), p) /\ IsAck(p, s)
      BY <2>3
    <3>2. ~IsPart(p, G)
      BY <3>1 DEF IsPart, IsAck
    <3>3. AckLink(s) \in Links
      BY <1>2, SenderFacts
    <3>4. Flying(net, G)[AckLink(s)] \in Nat
      BY <3>3, TermTypes DEF TermsTyped
    <3>5. Flying(net', G)[AckLink(s)] = Flying(net, G)[AckLink(s)] + 0 /\ \A l \in Links \ {AckLink(s)} : Flying(net', G)[l] <= Flying(net, G)[l]
      BY <3>1, <3>2, <3>3, FlyingWrite
    <3> QED
      BY <3>4, <3>5
  <2> QED
    BY <1>2, <2>2, <2>3
<1>7. \A v \in SendersTo(G) : Emitted[v] <= Emitted'[v]
  BY <1>5, EmittedKept DEF SendersTo
<1>8. \A v \in SendersTo(G) \ {s} : Acked'[v] <= Acked[v]
  BY <1>1, <1>4, <1>5, AckedKept DEF SendersTo
<1>9. \A t \in G \ {u} : Arrived'[t] <= Arrived[t]
  <2>1. G \ {u} \subseteq Tasks /\ \A t \in G \ {u} : Still(t)
    BY <1>3 DEF Servers
  <2> QED
    BY <2>1, ArrivedLe
<1>10. MovesBy(Links, Flying(net, G), Flying(net', G), 0) /\ MovesBy(SendersTo(G), Emitted', Emitted, 0)
  BY <1>6, <1>7, ZeroMove
<1>11. CASE u \notin G
  <2>1. u \notin G /\ s \notin SendersTo(G)
    BY <1>2, <1>11 DEF Servers, SendersTo
  <2>2. (\A t \in G : Arrived'[t] <= Arrived[t]) /\ (\A v \in SendersTo(G) : Acked'[v] <= Acked[v])
    BY <1>8, <1>9, <2>1
  <2>3. MovesBy(G, Arrived, Arrived', 0) /\ MovesBy(SendersTo(G), Acked, Acked', 0)
    BY <2>2, ZeroMove
  <2>4. 0 \in Int /\ 0 + 0 + 0 + 0 <= 0
    OBVIOUS
  <2> QED
    BY <1>10, <2>3, <2>4, CountedMoves
<1>12. CASE u \in G
  <2>1. u \in G /\ s \in SendersTo(G)
    BY <1>2, <1>12 DEF Servers, SendersTo
  <2>2. Arrived'[u] <= Arrived[u] + (-Packets)
    <3>1. PICK q, b, g : q = Queue(u) /\ b = call[u].buf /\ g = call[u].got
      OBVIOUS
    <3>2. q \in Seq(Packet) /\ b \in Seq(Packet) /\ g \in Seq(Copied)
      BY <3>1, PacketTypes
    <3>3. Len(q) \in Nat /\ Len(b) \in Nat /\ Len(<< >>) = 0
      BY <3>2
    <3>4. Len(g) = Packets
      <4>1. Reception(u) /\ call[u].pc = "returned"
        BY CallEnds DEF RouteInv
      <4> QED
        BY <1>2, <3>1, <4>1 DEF Reception, Copying, Whole
    <3>5. Arrived[u] = Len(q) + Len(b) + Packets /\ Arrived'[u] = Len(q) + Len(b) + Len(<< >>)
      BY <1>3, <3>1, <3>4, ArrivedIs DEF Ends
    <3> QED
      BY <1>5, <3>3, <3>5
  <2>3. Acked'[s] <= Acked[s] + Packets
    <3>1. Acked[s] \in 0..Packets /\ Acked'[s] \in 0..Packets
      BY <1>2, TermTypes, TermTypesNext DEF TermsTyped
    <3> QED
      BY <1>5, <3>1
  <2>4. MovesBy(G, Arrived, Arrived', -Packets) /\ MovesBy(SendersTo(G), Acked, Acked', Packets)
    BY <1>8, <1>9, <2>1, <2>2, <2>3, OneMove
  <2>5. 0 \in Int /\ Packets \in Int /\ -Packets \in Int /\ (-Packets) + 0 + Packets + 0 <= 0
    BY <1>5
  <2> QED
    BY <1>10, <2>4, <2>5, CountedMoves
<1> QED
  BY <1>11, <1>12

LEMMA CountedIsr ==
    ASSUME BufferInv, BufferInv', RouteInv, TokenInv, Next, "timeout" \notin incidents', NEW G \in SUBSET Servers, Counted(G),
           NEW k \in Links, ni_isr(k)
    PROVE  Counted(G)'
<1> DEFINE p == Head(net[k])
<1>1. /\ net[k] # << >> /\ net' = [net EXCEPT ![k] = Tail(@)] /\ call' = call
      /\ \/ \A t \in Tasks : Still(t)
         \/ \E j \in Tasks : /\ CoreOf[j] = k[2] /\ p.wellformed
                             /\ Queue(j)' = Append(Queue(j), p)
                             /\ \A t \in Tasks \ {j} : Still(t)
  BY IsrStep
<1>2. net \in [Links -> Seq(Packet)] /\ net[k] \in Seq(Packet) /\ p \in Packet
  <2>1. net \in [Links -> Seq(Packet)]
    BY DEF BufferInv, NocType
  <2> QED
    BY <1>1, <2>1, QueueFacts
<1> HIDE DEF p
<1>3. net'[k] = Tail(net[k]) /\ \A l \in Links \ {k} : net'[l] = net[l]
  BY <1>1, <1>2
<1>4. Flying(net', G)[k] + (IF IsPart(p, G) THEN 1 ELSE 0) <= Flying(net, G)[k] /\ Flying(net, G)[k] \in Nat /\ Flying(net', G)[k] \in Nat
  <2>1. Flying(net, G)[k] \in Nat /\ Flying(net', G)[k] \in Nat
    BY TermTypes, TermTypesNext DEF TermsTyped
  <2> QED
    <3>1. /\ Flying(net, G)[k] = Cardinality(Parts(net[k], G))
          /\ Flying(net', G)[k] = Cardinality(Parts(net'[k], G))
      BY FlyingIs
    <3>2. Cardinality(Parts(Tail(net[k]), G)) + (IF IsPart(Head(net[k]), G) THEN 1 ELSE 0) <= Cardinality(Parts(net[k], G))
      BY <1>1, <1>2, PartsTail
    <3> QED
      BY <1>3, <2>1, <3>1, <3>2 DEF p
<1>5. \A l \in Links \ {k} : Flying(net', G)[l] <= Flying(net, G)[l]
  BY <1>3, FlyingLe
<1>6. \A l \in Links : Flying(net', G)[l] <= Flying(net, G)[l]
  <2>1. Flying(net', G)[k] <= Flying(net, G)[k]
    BY <1>4
  <2> QED
    BY <1>5, <2>1
<1>7. (\A u \in Tasks : ~recv_return(u)) /\ (\A s \in Senders : ~ack_return(s))
  BY <1>1, CallEnds, SenderFacts
<1>8. CASE \A t \in G : Still(t)
  <2>1. \A t \in G : Arrived'[t] <= Arrived[t]
    BY <1>8, ArrivedLe DEF Servers
  <2> QED
    BY <1>6, <1>7, <2>1, CountedQuiet DEF SendersTo
<1>9. CASE \E j \in G : ~Still(j)
  <2>1. PICK j \in G : ~Still(j)
    BY <1>9
  <2>2. /\ j \in Tasks /\ j \notin Senders /\ p.wellformed
        /\ Queue(j)' = Append(Queue(j), p)
        /\ \A t \in Tasks \ {j} : Still(t)
    BY <1>1, <2>1 DEF Servers
  <2>3. Queue(j) \in Seq(Packet) /\ call[j].buf \in Seq(Packet) /\ call[j].got \in Seq(Copied)
    BY <2>2, PacketTypes
  <2>4. IsPart(p, G)
    <3>1. All(Queue(j)', ForTask(j))
      BY <2>2, RoutesIsr DEF RouteInv, Routes
    <3>2. p \in ForTask(j)
      <4>1. All(Append(Queue(j), p), ForTask(j))
        BY <2>2, <3>1
      <4>2. PICK q : q = Queue(j)
        OBVIOUS
      <4>3. Len(q) + 1 \in 1..Len(Append(q, p)) /\ Append(q, p)[Len(q) + 1] = p
        BY <1>2, <2>3, <4>2
      <4> QED
        BY <4>1, <4>2, <4>3 DEF All
    <3>3. Addressed(p, j)
      BY <3>2 DEF ForTask
    <3> QED
      BY <2>1, <2>2, <3>3, SenderFacts DEF Addressed, IsData, IsPart, SendersTo
  <2>5. Flying(net', G)[k] <= Flying(net, G)[k] + (-1)
    BY <1>4, <2>4
  <2>6. Arrived'[j] <= Arrived[j] + 1
    <3>1. PICK q, b, g : q = Queue(j) /\ b = call[j].buf /\ g = call[j].got
      OBVIOUS
    <3>2. Len(q) \in Nat /\ Len(b) \in Nat /\ Len(g) \in Nat /\ Len(Append(q, p)) = Len(q) + 1
      BY <1>2, <2>3, <3>1
    <3>3. Arrived[j] = Len(q) + Len(b) + Len(g) /\ Arrived'[j] = Len(Append(q, p)) + Len(b) + Len(g)
      BY <1>1, <2>2, <3>1, ArrivedIs
    <3> QED
      BY <3>2, <3>3
  <2>7. \A t \in G \ {j} : Arrived'[t] <= Arrived[t]
    <3>1. G \ {j} \subseteq Tasks /\ \A t \in G \ {j} : Still(t)
      BY <2>2 DEF Servers
    <3> QED
      BY <3>1, ArrivedLe
  <2>9. MovesBy(G, Arrived, Arrived', 1) /\ MovesBy(Links, Flying(net, G), Flying(net', G), -1)
    BY <1>5, <2>1, <2>5, <2>6, <2>7, OneMove
  <2>10. "timeout" \notin incidents /\ \A s \in Senders : ~time_out(s)
    BY IncidentsGrow DEF time_out
  <2>11. \A s \in SendersTo(G) : Acked'[s] <= Acked[s] /\ Emitted[s] <= Emitted'[s]
    BY <1>7, <2>10, AckedKept, EmittedKept DEF SendersTo
  <2>12. MovesBy(SendersTo(G), Acked, Acked', 0) /\ MovesBy(SendersTo(G), Emitted', Emitted, 0)
    BY <2>11, ZeroMove
  <2>13. 0 \in Int /\ 1 \in Int /\ -1 \in Int /\ 1 + (-1) + 0 + 0 <= 0
    OBVIOUS
  <2> QED
    BY <2>9, <2>12, <2>13, CountedMoves
<1> QED
  BY <1>8, <1>9

LEMMA CountedOnward ==
    ASSUME BufferInv, BufferInv', RouteInv, TokenInv, Next, "timeout" \notin incidents', NEW G \in SUBSET Servers, Counted(G)
    PROVE  Counted(G)'
<1>1. ASSUME NEW u \in Tasks,
             \/ Quiet(u) \/ comm_drain(u) \/ recv_first(u) \/ recv_next(u) \/ recv_copy(u)
             \/ recv_return(u) /\ call[u].error
      PROVE  Counted(G)'
  <2>1. \A t \in G : Arrived'[t] <= Arrived[t]
    BY <1>1, ArrivedKept DEF Servers
  <2>2. net' = net /\ Reception(u)
    <3>1. Reception(u)
      BY DEF RouteInv
    <3> QED
      BY <1>1, <3>1, QuietStep, DrainStep, FirstStep, NextStep, CopyStep DEF recv_return
  <2>3. \A k \in Links : Flying(net', G)[k] <= Flying(net, G)[k]
    BY <2>2, FlyingLe
  <2>4. ASSUME NEW t \in Tasks, (recv_return(t) /\ ~call[t].error) \/ ack_return(t) PROVE Counted(G)'
    <3>1. CASE recv_return(t) /\ ~call[t].error
      BY <3>1, CountedReturned
    <3>2. CASE ack_return(t)
      <4>1. t \in Senders
        BY <3>2 DEF ack_return
      <4> QED
        BY <3>2, <4>1, CountedAcked
    <3> QED
      BY <2>4, <3>1, <3>2
  <2>5. \A s \in SendersTo(G) : s \in Tasks
    BY SenderFacts DEF SendersTo
  <2> QED
    BY <2>1, <2>3, <2>4, <2>5, CountedQuiet
<1>2. ASSUME NEW u \in Tasks, ack_return(u) PROVE Counted(G)'
  BY <1>2, CountedAcked DEF ack_return
<1>3. ASSUME NEW u \in Tasks, recv_return(u), ~call[u].error PROVE Counted(G)'
  BY <1>3, CountedReturned
<1>4. ASSUME NEW u \in Tasks, send_packet(u) PROVE Counted(G)'
  BY <1>4, CountedSend
<1>5. ASSUME NEW k \in Links, ni_isr(k) PROVE Counted(G)'
  BY <1>5, CountedIsr
<1>6. ASSUME NEW k \in Links, Malformed(k) PROVE Counted(G)'
  <2>1. PICK p \in Packet : Writes(k, p) /\ ~p.wellformed
    BY <1>6, MalformedStep
  <2>2. call' = call /\ \A t \in Tasks : Still(t)
    BY <1>6, MalformedStep DEF Malformed
  <2>3. Flying(net', G)[k] = Flying(net, G)[k] + 0 /\ \A l \in Links \ {k} : Flying(net', G)[l] <= Flying(net, G)[l]
    BY <2>1, FlyingWrite DEF IsPart
  <2>4. Flying(net, G)[k] \in Nat
    BY TermTypes DEF TermsTyped
  <2>5. \A l \in Links : Flying(net', G)[l] <= Flying(net, G)[l]
    BY <2>3, <2>4
  <2>6. \A t \in G : Arrived'[t] <= Arrived[t]
    BY <2>2, ArrivedLe DEF Servers
  <2>7. (\A u \in Tasks : ~recv_return(u)) /\ (\A s \in Senders : ~ack_return(s))
    BY <2>2, CallEnds, SenderFacts
  <2> QED
    BY <2>5, <2>6, <2>7, CountedQuiet DEF SendersTo
<1> QED
  BY <1>1, <1>2, <1>3, <1>4, <1>5, <1>6 DEF Next, Step, Destroy, Quiet

-----------------------------------------------------------------------------
(* The pool of a core is enough for what is on its way to it. *)

(* A sender holds its acknowledgement only, and nothing while that is on   *)
(* the link.                                                               *)
LEMMA SenderHolds ==
    ASSUME BufferInv, RouteInv, NEW s \in Senders, Token(s, 1)
    PROVE  Held[s] \in Nat /\ Held[s] <= 1 /\ (Has(net[AckLink(s)], Acks(s)) => Held[s] = 0)
<1>1. s \in Tasks
  BY SenderFacts
<1>2. PICK q, b, l, M : q = Queue(s) /\ b = call[s].buf /\ l = net[AckLink(s)] /\ M = Acks(s)
  OBVIOUS
<1>3. q \in Seq(Packet) /\ b \in Seq(Packet) /\ Len(b) <= 1
  <2>1. CallShape(s) /\ Queue(s) \in Seq(Packet) /\ call[s].buf \in Seq(Packet)
    BY <1>1, Facts, PacketTypes
  <2>2. Len(call[s].buf) <= 1
    <3>1. Len(call[s].buf) = 1 \/ call[s].buf = << >>
      BY <2>1, Zenon DEF CallShape
    <3>2. CASE Len(call[s].buf) = 1
      <4>1. \A i : i = 1 => i <= 1
        OBVIOUS
      <4> QED
        BY <3>2, <4>1, Zenon
    <3>3. CASE call[s].buf = << >>
      <4>1. Len(<< >>) <= 1
        OBVIOUS
      <4> QED
        BY <3>3, <4>1, Zenon
    <3> QED
      BY <3>1, <3>2, <3>3, Zenon
  <2> QED
    BY <1>2, <2>1, <2>2
<1>4. All(q, M) /\ All(b, M)
  <2>1. All(q, ForTask(s)) /\ All(b, ForTask(s))
    BY <1>1, <1>2 DEF RouteInv, Routes
  <2>2. ASSUME NEW p \in ForTask(s) PROVE p \in Acks(s)
    <3>1. p \in Packet /\ Addressed(p, s)
      BY DEF ForTask
    <3>2. ~(IsData(p) /\ TargetOf[p.source] = s)
      BY SenderFacts DEF IsData
    <3> QED
      BY <3>1, <3>2 DEF Addressed, Acks
  <2> QED
    BY <1>2, <2>1, <2>2 DEF All
<1>5. Once(q, M) /\ (Has(q, M) => ~Has(l, M)) /\ (Has(b, M) => ~Has(l, M) /\ ~Has(q, M))
  BY <1>2 DEF Token, AckAlone, PipeAlone, Alone
<1>6. Len(q) \in Nat /\ Len(b) \in Nat
  BY <1>3
<1>7. (Len(q) > 0 => Has(q, M)) /\ (Len(b) > 0 => Has(b, M))
  <2>1. ASSUME NEW z, Len(z) \in Nat, Len(z) > 0, All(z, M) PROVE Has(z, M)
    <3>1. 1 \in 1..Len(z)
      BY <2>1
    <3> QED
      BY <2>1, <3>1 DEF All, Has
  <2> QED
    BY <1>4, <1>6, <2>1
<1>8. Len(q) <= 1
  <2> SUFFICES ASSUME Len(q) > 1 PROVE FALSE
    BY <1>6
  <2>1. 1 \in 1..Len(q) /\ 2 \in 1..Len(q)
    BY <1>6
  <2>2. 1 = 2
    BY <1>4, <1>5, <2>1 DEF All, Once
  <2> QED
    BY <2>2
<1>9. Held[s] = Len(b) + Len(q)
  <2>1. CASE tqueue[s] \in NoQueue
    <3>1. Held[s] = Len(b) + 0 /\ q = << >>
      BY <1>1, <1>2, <2>1 DEF Held, Queue
    <3> QED
      BY <3>1
  <2>2. CASE tqueue[s] \notin NoQueue
    BY <1>1, <1>2, <2>2 DEF Held, Queue
  <2> QED
    BY <2>1, <2>2
<1>10. Len(b) + Len(q) <= 1 /\ (Has(l, M) => Len(b) + Len(q) = 0)
  BY <1>3, <1>5, <1>6, <1>7, <1>8
<1> QED
  BY <1>2, <1>6, <1>9, <1>10

(* What a core holds is what its receivers have and what its senders have. *)
LEMMA HeldParts ==
    ASSUME BufferInv, NEW c \in Cores
    PROVE  /\ Cardinality(HeldOn(Held, c)) <= Total(ServersOn(c), Arrived) + Total(SendersOn(c), Held)
           /\ Cardinality(HeldOn(Held, c)) \in Nat
           /\ Total(ServersOn(c), Arrived) \in Nat /\ Total(SendersOn(c), Held) \in Nat
<1> DEFINE A == ServersOn(c)
           B == SendersOn(c)
<1>1. IsFiniteSet(A) /\ IsFiniteSet(B) /\ A \subseteq Tasks /\ B \subseteq Tasks
  BY PlacesFinite, SenderFacts DEF ServersOn, SendersOn
<1>2. ASSUME NEW t \in Tasks
      PROVE  Held[t] \in Nat /\ Arrived[t] \in Nat /\ Held[t] <= Arrived[t]
  <2>1. PICK q, b, g : q = Queue(t) /\ b = call[t].buf /\ g = call[t].got
    OBVIOUS
  <2>2. q \in Seq(Packet) /\ b \in Seq(Packet) /\ g \in Seq(Copied)
    BY <2>1, PacketTypes
  <2>3. Len(q) \in Nat /\ Len(b) \in Nat /\ Len(g) \in Nat
    BY <2>2
  <2>4. Held[t] = Len(b) + Len(q)
    <3>1. CASE tqueue[t] \in NoQueue
      <4>1. Held[t] = Len(b) + 0 /\ q = << >>
        BY <2>1, <3>1 DEF Held, Queue
      <4> QED
        BY <4>1
    <3>2. CASE tqueue[t] \notin NoQueue
      BY <2>1, <3>2 DEF Held, Queue
    <3> QED
      BY <3>1, <3>2
  <2>5. Arrived[t] = Len(q) + Len(b) + Len(g)
    BY <2>1, ArrivedIs
  <2> QED
    BY <2>3, <2>4, <2>5
<1>3. Total(A, Held) <= Total(A, Arrived) /\ Total(A, Held) \in Nat /\ Total(A, Arrived) \in Nat
  BY <1>1, <1>2, TotalLe
<1>4. IsFiniteSet(Units(A, Held)) /\ IsFiniteSet(Units(B, Held)) /\ Total(B, Held) \in Nat
  BY <1>1, <1>2, UnitsFinite
<1>5. HeldOn(Held, c) = Units(A, Held) \cup Units(B, Held)
  <2>1. ASSUME NEW x \in HeldOn(Held, c) PROVE x \in Units(A, Held) \cup Units(B, Held)
    <3>1. PICK t \in Tasks : CoreOf[t] = c /\ x \in {t} \X (1..Held[t])
      BY HeldMember
    <3>2. t \in A \/ t \in B
      BY <3>1 DEF ServersOn, SendersOn
    <3> HIDE DEF A, B
    <3> QED
      BY <3>1, <3>2, UnitsMember
  <2>2. ASSUME NEW x \in Units(A, Held) \cup Units(B, Held) PROVE x \in HeldOn(Held, c)
    <3>1. PICK t \in A \cup B : x \in {t} \X (1..Held[t])
      <4> HIDE DEF A, B
      <4> QED
        BY <2>2, UnitsMember
    <3>2. t \in Tasks /\ CoreOf[t] = c
      BY <1>1 DEF ServersOn, SendersOn
    <3> QED
      BY <3>1, <3>2, HeldMember
  <2> HIDE DEF A, B
  <2> QED
    BY <2>1, <2>2
<1> HIDE DEF A, B
<1>6. /\ Cardinality(Units(A, Held) \cup Units(B, Held))
         = Cardinality(Units(A, Held)) + Cardinality(Units(B, Held)) - Cardinality(Units(A, Held) \cap Units(B, Held))
      /\ IsFiniteSet(Units(A, Held) \cup Units(B, Held))
  BY <1>4, FS_Union
<1>7. Cardinality(Units(A, Held) \cap Units(B, Held)) \in Nat
  <2>1. Units(A, Held) \cap Units(B, Held) \subseteq Units(A, Held)
    OBVIOUS
  <2> QED
    BY <1>4, <2>1, FS_Subset, FS_CardinalityType
<1>8. Cardinality(HeldOn(Held, c)) <= Total(A, Arrived) + Total(B, Held) /\ Cardinality(HeldOn(Held, c)) \in Nat
  <2>1. Cardinality(HeldOn(Held, c)) \in Nat
    BY <1>5, <1>6, FS_CardinalityType
  <2>2. Cardinality(HeldOn(Held, c)) = Total(A, Held) + Total(B, Held) - Cardinality(Units(A, Held) \cap Units(B, Held))
    BY <1>5, <1>6 DEF Total
  <2> QED
    BY <1>3, <1>4, <1>7, <2>1, <2>2
<1> QED
  BY <1>3, <1>4, <1>8 DEF A, B

(* A packet at the head of a link flies. *)
LEMMA HeadFlies ==
    ASSUME NEW G, NEW k \in Links, net[k] \in Seq(Packet), Len(net[k]) \in Nat \ {0}, IsPart(net[k][1], G)
    PROVE  Flying(net, G)[k] >= 1 /\ Flying(net, G)[k] \in Nat
<1>1. 1 \in Parts(net[k], G) /\ IsFiniteSet(Parts(net[k], G)) /\ Cardinality(Parts(net[k], G)) \in Nat
  <2>1. 1 \in 1..Len(net[k])
    OBVIOUS
  <2> QED
    BY <2>1, PartsFinite DEF Parts
<1>2. Cardinality(Parts(net[k], G)) # 0
  BY <1>1, FS_EmptySet
<1>3. Flying(net, G)[k] = Cardinality(Parts(net[k], G))
  BY FlyingIs
<1> QED
  BY <1>1, <1>2, <1>3

(* A buffer is left for a packet that arrives. *)
LEMMA PoolLasts ==
    ASSUME PoolsSuffice, BufferInv, RouteInv, TokenInv, incidents \cap {"timeout", "freed"} = {},
           NEW c \in Cores, Counted(ServersOn(c)), NEW k \in Links, k[2] = c, net[k] # << >>, Head(net[k]).wellformed
    PROVE  pool[c] # 0
<1> DEFINE p == Head(net[k])
           G == ServersOn(c)
           S == Total(SendersTo(G), Emitted)
           A == Total(G, Arrived)
           F == Total(Links, Flying(net, G))
           K == Total(SendersTo(G), Acked)
           H == Total(SendersOn(c), Held)
           room == Packets * Cardinality(SendersTo(G))
           n == Cardinality(SendersOn(c))
<1>1. /\ IsFiniteSet(Links) /\ IsFiniteSet(SendersTo(G)) /\ IsFiniteSet(SendersOn(c)) /\ G \in SUBSET Servers
      /\ SendersTo(G) \subseteq Senders /\ SendersOn(c) \subseteq Senders /\ Packets \in Nat
  BY PlacesFinite, SizesAssumption DEF SendersTo, SendersOn
<1>2. net[k] \in Seq(Packet) /\ p \in Packet /\ Routed(p, k) /\ Len(net[k]) \in Nat \ {0} /\ p = net[k][1]
  <2>1. net[k] \in Seq(Packet)
    BY DEF BufferInv, NocType
  <2>2. Len(net[k]) \in Nat \ {0} /\ p \in Packet /\ p = net[k][1]
    BY <2>1, QueueFacts
  <2>3. 1 \in 1..Len(net[k])
    BY <2>2
  <2>4. Routed(p, k)
    BY <2>2, <2>3 DEF RouteInv, Routes, All, OnLink
  <2> QED
    BY <2>1, <2>2, <2>4
<1>3. /\ \A s \in Senders : Token(s, 1)
      /\ pool[c] \in Nat /\ pool[c] + Cardinality(HeldOn(Held, c)) = NOC_PACKET_SLOTS
  <2>1. 1 \in 1..Packets /\ ~(1 > 1)
    BY SizesAssumption
  <2>2. \A s \in Senders : Token(s, 1)
    BY <2>1 DEF TokenInv, Sound
  <2> QED
    BY <2>2 DEF BufferInv, NocType, Conserved
<1>4. TermsTyped
  BY TermTypes
<1>5. 0..Packets \subseteq Nat /\ \A i \in 0..Packets : i <= Packets
  BY <1>1
<1>6. S \in Nat /\ S <= room /\ room \in Nat
  <2>1. \A s \in SendersTo(G) : Emitted[s] \in Nat /\ Emitted[s] <= Packets
    BY <1>1, <1>4, <1>5 DEF TermsTyped
  <2>2. S <= room /\ S \in Nat /\ Cardinality(SendersTo(G)) \in Nat
    BY <1>1, <2>1, TotalBound
  <2>3. \A i, j \in Nat : i * j \in Nat
    OBVIOUS
  <2> QED
    BY <1>1, <2>2, <2>3, Zenon
<1>7. F \in Nat /\ K \in Nat
  <2>1. \A s \in SendersTo(G) : Acked[s] \in Nat
    BY <1>1, <1>4, <1>5 DEF TermsTyped
  <2>2. \A l \in Links : Flying(net, G)[l] \in Nat
    BY <1>1, <1>4 DEF TermsTyped
  <2> QED
    BY <1>1, <2>1, <2>2, UnitsFinite
<1>8. A + F + K <= S
  BY DEF Counted
<1>9. Cardinality(HeldOn(Held, c)) <= A + H /\ Cardinality(HeldOn(Held, c)) \in Nat /\ A \in Nat /\ H \in Nat
  BY HeldParts
<1>10. room + n <= NOC_PACKET_SLOTS /\ n \in Nat /\ NOC_PACKET_SLOTS \in Nat
  BY <1>1, SizesAssumption, FS_CardinalityType DEF PoolsSuffice
<1>11. \A s \in SendersOn(c) : Held[s] \in Nat /\ Held[s] <= 1
  BY <1>1, <1>3, SenderHolds
<1>12. H <= n
  <2>1. H <= 1 * n
    BY <1>1, <1>11, TotalBound
  <2>2. \A i \in Nat : 1 * i = i
    OBVIOUS
  <2> HIDE DEF n, H
  <2> QED
    BY <1>10, <2>1, <2>2
<1>13. CASE IsData(p)
  <2>1. IsPart(p, G)
    <3>1. p.source \in Senders /\ k[2] = CoreOf[TargetOf[p.source]]
      BY <1>2, <1>13, SenderFacts DEF Routed, IsData, IsAck
    <3> QED
      BY <1>13, <3>1, SenderFacts DEF IsData, IsPart, SendersTo, ServersOn
  <2>2. Flying(net, G)[k] >= 1 /\ Flying(net, G)[k] \in Nat
    BY <1>2, <2>1, HeadFlies
  <2>3. F >= 1
    <3>1. \A l \in Links : Flying(net, G)[l] \in Nat
      BY <1>1, <1>4 DEF TermsTyped
    <3>2. F = Total(Links \ {k}, Flying(net, G)) + Flying(net, G)[k] /\ Total(Links \ {k}, Flying(net, G)) \in Nat
      BY <1>1, <3>1, TotalAt
    <3> QED
      BY <2>2, <3>2
  <2> HIDE DEF A, F, K, S, H, room, n
  <2> QED
    BY <1>3, <1>6, <1>7, <1>8, <1>9, <1>10, <1>12, <2>3
<1>14. CASE \E s \in Senders : IsAck(p, s) /\ k = AckLink(s)
  <2>1. PICK s \in Senders : IsAck(p, s) /\ k = AckLink(s)
    BY <1>14
  <2>2. s \in SendersOn(c)
    BY <2>1, SenderFacts DEF SendersOn
  <2>3. Held[s] = 0
    <3>1. p \in Acks(s)
      BY <1>2, <2>1 DEF Acks
    <3>2. 1 \in 1..Len(net[k])
      BY <1>2
    <3>3. Has(net[AckLink(s)], Acks(s))
      BY <1>2, <2>1, <3>1, <3>2 DEF Has
    <3> QED
      BY <1>3, <3>3, SenderHolds
  <2>4. H = Total(SendersOn(c) \ {s}, Held) + Held[s] /\ Total(SendersOn(c) \ {s}, Held) \in Nat
    BY <1>1, <1>11, <2>2, TotalAt
  <2>5. IsFiniteSet(SendersOn(c) \ {s}) /\ Cardinality(SendersOn(c) \ {s}) = n - 1
    BY <1>1, <2>2, FS_RemoveElement
  <2>6. Total(SendersOn(c) \ {s}, Held) <= 1 * Cardinality(SendersOn(c) \ {s})
    <3>1. \A u \in SendersOn(c) \ {s} : Held[u] \in Nat /\ Held[u] <= 1
      BY <1>11
    <3> QED
      BY <2>5, <3>1, TotalBound
  <2>7. Cardinality(SendersOn(c) \ {s}) \in Nat
    BY <2>5, FS_CardinalityType
  <2>8. H <= n - 1
    <3>1. \A i \in Nat : 1 * i = i
      OBVIOUS
    <3> HIDE DEF n, H
    <3> QED
      BY <1>10, <2>3, <2>4, <2>5, <2>6, <2>7, <3>1
  <2> HIDE DEF A, F, K, S, H, room, n
  <2> QED
    BY <1>3, <1>6, <1>7, <1>8, <1>9, <1>10, <2>8
<1> QED
  BY <1>2, <1>13, <1>14 DEF Routed

(* What a task has in its queue it holds. *)
LEMMA QueueHeld ==
    ASSUME BufferInv, NEW t \in Tasks, tqueue[t] \in Seq(Packet)
    PROVE  /\ Len(tqueue[t]) \in Nat /\ Held[t] \in Nat /\ Len(tqueue[t]) <= Held[t]
           /\ Arrived[t] \in Nat /\ Len(tqueue[t]) <= Arrived[t]
<1>1. tqueue[t] \notin NoQueue
  BY NoQueueAssumption, Zenon DEF NoQueue
<1>2. PICK q, b, g : q = tqueue[t] /\ b = call[t].buf /\ g = call[t].got
  OBVIOUS
<1>3. q \in Seq(Packet) /\ b \in Seq(Packet) /\ g \in Seq(Copied) /\ Queue(t) = q
  BY <1>1, <1>2, PacketTypes DEF Queue
<1>4. Len(q) \in Nat /\ Len(b) \in Nat /\ Len(g) \in Nat
  BY <1>3
<1>5. Held[t] = Len(b) + Len(q) /\ Arrived[t] = Len(q) + Len(b) + Len(g)
  <2>1. Arrived[t] = Len(Queue(t)) + Len(call[t].buf) + Len(call[t].got)
    BY ArrivedIs
  <2>2. Held[t] = Len(call[t].buf) + Len(tqueue[t])
    BY <1>1 DEF Held
  <2> QED
    BY <1>2, <1>3, <2>1, <2>2
<1>6. /\ Held[t] \in Nat /\ Len(q) <= Held[t]
      /\ Arrived[t] \in Nat /\ Len(q) <= Arrived[t]
  <2>1. PICK x, y, z : x = Len(q) /\ y = Len(b) /\ z = Len(g)
    OBVIOUS
  <2>2. x \in Nat /\ y \in Nat /\ z \in Nat
    BY <1>4, <2>1, Zenon
  <2>3. Held[t] = y + x /\ Arrived[t] = x + y + z
    BY <1>5, <2>1, Zenon
  <2>4. /\ y + x \in Nat /\ x <= y + x
        /\ x + y + z \in Nat /\ x <= x + y + z
    BY <2>2
  <2> QED
    BY <2>1, <2>3, <2>4, Zenon
<1> QED
  BY <1>2, <1>4, <1>6, Zenon

(* The queue of the task with the port of a packet has a place for it: a   *)
(* sender has no other acknowledgement in its queue, and a receiver has    *)
(* less than a message of each of its senders.                             *)
LEMMA QueueLasts ==
    ASSUME QueuesSuffice, BufferInv, RouteInv, TokenInv, "timeout" \notin incidents,
           \A G \in SUBSET Servers : Counted(G), NEW k \in Links, net[k] # << >>, Head(net[k]).wellformed,
           NEW t \in Tasks, CoreOf[t] = k[2], PortOf[t] = Head(net[k]).port, tqueue[t] \in Seq(Packet)
    PROVE  Len(tqueue[t]) # QueueSlots(t)
<1> DEFINE p == Head(net[k])
<1>1. net[k] \in Seq(Packet) /\ p \in Packet /\ Routed(p, k) /\ Len(net[k]) \in Nat \ {0} /\ p = net[k][1]
  <2>1. net[k] \in Seq(Packet)
    BY DEF BufferInv, NocType
  <2>2. Len(net[k]) \in Nat \ {0} /\ p \in Packet /\ p = net[k][1]
    BY <2>1, QueueFacts
  <2>3. 1 \in 1..Len(net[k])
    BY <2>2
  <2>4. Routed(p, k)
    BY <2>2, <2>3 DEF RouteInv, Routes, All, OnLink
  <2> QED
    BY <2>1, <2>2, <2>4
<1>2. /\ QueueSlots(t) \in Nat /\ QueueSlots(t) >= 1 /\ Packets \in Nat
      /\ \A s \in Senders : Token(s, 1)
  <2>1. 1 \in 1..Packets /\ ~(1 > 1)
    BY SizesAssumption
  <2>2. \A s \in Senders : Token(s, 1)
    BY <2>1 DEF TokenInv, Sound
  <2> QED
    BY <2>2, SizesAssumption, RolesAssumption DEF QueueSlots
<1>3. Len(tqueue[t]) \in Nat /\ Held[t] \in Nat /\ Arrived[t] \in Nat
      /\ Len(tqueue[t]) <= Held[t] /\ Len(tqueue[t]) <= Arrived[t]
  BY QueueHeld
<1>4. CASE IsData(p)
  <2>1. p.source \in Senders /\ TargetOf[p.source] = t /\ t \in Receivers /\ t \in Servers
    <3>1. p.source \in Senders /\ k[2] = CoreOf[TargetOf[p.source]] /\ p.port = PortOf[TargetOf[p.source]]
      BY <1>1, <1>4, SenderFacts DEF Routed, IsData, IsAck
    <3>2. TargetOf[p.source] \in Receivers /\ TargetOf[p.source] \in Tasks
      BY <3>1, SenderFacts
    <3>3. TargetOf[p.source] = t
      BY <3>1, <3>2, AddressesAssumption
    <3> QED
      BY <3>1, <3>2, <3>3, RolesAssumption DEF Servers
  <2> DEFINE G == {t}
             F == Total(Links, Flying(net, G))
             K == Total(SendersTo(G), Acked)
             S == Total(SendersTo(G), Emitted)
             room == Packets * Cardinality(SendersTo(G))
  <2>2. G \in SUBSET Servers /\ Counted(G) /\ IsFiniteSet(SendersTo(G)) /\ IsFiniteSet(Links) /\ TermsTyped
        /\ SendersTo(G) \subseteq Senders
    BY <2>1, PlacesFinite, TermTypes DEF SendersTo
  <2>3. IsPart(p, G)
    BY <1>4, <2>1, SenderFacts DEF IsData, IsPart, SendersTo
  <2>4. Flying(net, G)[k] >= 1 /\ Flying(net, G)[k] \in Nat
    BY <1>1, <2>3, HeadFlies
  <2>5. F >= 1 /\ F \in Nat
    <3>1. \A l \in Links : Flying(net, G)[l] \in Nat
      BY <2>2 DEF TermsTyped
    <3>2. F = Total(Links \ {k}, Flying(net, G)) + Flying(net, G)[k] /\ Total(Links \ {k}, Flying(net, G)) \in Nat
      BY <2>2, <3>1, TotalAt
    <3> QED
      BY <2>4, <3>2
  <2>6. 0..Packets \subseteq Nat /\ \A i \in 0..Packets : i <= Packets
    BY <1>2
  <2>7. K \in Nat /\ S \in Nat /\ S <= room
    <3>1. \A s \in SendersTo(G) : Acked[s] \in Nat /\ Emitted[s] \in Nat /\ Emitted[s] <= Packets
      BY <2>2, <2>6 DEF TermsTyped
    <3> QED
      BY <1>2, <2>2, <3>1, UnitsFinite, TotalBound
  <2>8. Total(G, Arrived) = Arrived[t]
    <3>1. IsFiniteSet(G) /\ IsFiniteSet({}) /\ G \ {t} = {} /\ t \in G /\ \A u \in G : Arrived[u] \in Nat
      BY <1>3, FS_Singleton, FS_EmptySet
    <3> HIDE DEF G
    <3>2. PICK f : f = Arrived
      OBVIOUS
    <3>3. IsFiniteSet(G) /\ t \in G /\ \A a \in G : f[a] \in Nat
      BY <3>2, <3>1, Zenon
    <3>4. Total(G, Arrived) = Total(G \ {t}, Arrived) + Arrived[t]
      <4>1. Total(G, f) = Total(G \ {t}, f) + f[t]
        BY <3>3, TotalAt
      <4> QED
        BY <3>2, <4>1, Zenon
    <3>5. Total({}, Arrived) = 0
      BY FS_EmptySet DEF Total, Units
    <3>6. \A i \in Nat : 0 + i = i
      OBVIOUS
    <3>7. Total(G, Arrived) = 0 + Arrived[t]
      BY <3>1, <3>4, <3>5, Zenon
    <3> QED
      BY <1>3, <3>6, <3>7, Zenon
  <2>9. Arrived[t] + F + K <= S
    BY <2>2, <2>8 DEF Counted
  <2>10. room <= QueueSlots(t) /\ room \in Nat
    <3>1. Cardinality(SendersTo(G)) \in Nat
      BY <2>2, FS_CardinalityType
    <3>2. \A i, j \in Nat : i * j \in Nat
      OBVIOUS
    <3>3. room \in Nat
      BY <1>2, <3>1, <3>2, Zenon
    <3> QED
      BY <2>1, <3>3 DEF QueuesSuffice
  <2> HIDE DEF G, F, K, S, room
  <2> QED
    BY <1>2, <1>3, <2>5, <2>7, <2>9, <2>10
<1>5. CASE \E s \in Senders : IsAck(p, s) /\ k = AckLink(s)
  <2>1. PICK s \in Senders : IsAck(p, s) /\ k = AckLink(s)
    BY <1>5
  <2>2. s = t
    BY <2>1, SenderFacts, AddressesAssumption DEF IsAck
  <2>3. Has(net[AckLink(s)], Acks(s))
    <3>1. p \in Acks(s) /\ 1 \in 1..Len(net[k])
      BY <1>1, <2>1 DEF Acks
    <3> QED
      BY <1>1, <2>1, <3>1 DEF Has
  <2>4. Held[t] = 0
    BY <1>2, <2>2, <2>3, SenderHolds
  <2> QED
    BY <1>2, <1>3, <2>4
<1> QED
  BY <1>1, <1>4, <1>5 DEF Routed

LEMMA NothingDropped ==
    ASSUME PoolsSuffice, QueuesSuffice, BufferInv, RouteInv, TokenInv, incidents \cap {"timeout", "freed"} = {},
           \A G \in SUBSET Servers : Counted(G), NEW link \in Links, ni_isr(link)
    PROVE  incidents' \cap {"pool", "queue"} \subseteq incidents
<1> DEFINE p == Head(net[link])
           c == link[2]
           owners == {t \in Tasks : CoreOf[t] = c /\ ports[t] = p.port}
           k == CHOOSE t \in owners : TRUE
           reason == CASE pool[c] = 0 -> "pool"
                       [] pool[c] > 0 /\ owners = {} -> "port"
                       [] pool[c] > 0 /\ owners # {} /\ tqueue[k] = FREED -> "freed"
                       [] pool[c] > 0 /\ owners # {} /\ tqueue[k] # FREED
                          /\ Len(tqueue[k]) = QueueSlots(k) -> "queue"
                       [] OTHER -> "none"
<1>1. net[link] # << >> /\ incidents' = incidents \cup (IF p.wellformed THEN {reason} \ {"none"} ELSE {})
  BY Zenon DEF ni_isr
<1>2. c \in Cores /\ NocType /\ Shape
  BY LinkFacts DEF BufferInv
<1>3. pool[c] \in Nat
  BY <1>2 DEF NocType
<1>4. p \in Packet
  BY <1>1, <1>2, QueueFacts DEF NocType
<1>5. p.wellformed => pool[c] # 0
  BY <1>1, <1>2, PoolLasts, PlacesFinite
<1>6. ASSUME p.wellformed PROVE reason \notin {"pool", "queue"}
  <2>1. pool[c] > 0
    BY <1>3, <1>5, <1>6
  <2>2. CASE owners = {}
    BY <2>1, <2>2
  <2>3. CASE owners # {} /\ tqueue[k] = FREED
    BY <2>1, <2>3
  <2>4. CASE owners # {} /\ tqueue[k] # FREED
    <3>1. k \in owners
      BY <2>4
    <3>2. PICK j \in Tasks : j = k /\ CoreOf[j] = c /\ ports[j] = p.port
      BY <3>1
    <3>3. p.port # 0
      BY <1>4, RolesAssumption DEF Packet
    <3>4. tqueue[j] # NULL /\ tqueue[j] # FREED
      BY <1>2, <2>4, <3>2, <3>3 DEF Shape, QueueShape
    <3>5. tqueue[j] \in Seq(Packet)
      BY <1>2, <3>4 DEF NocType, NoQueue
    <3>6. Len(tqueue[k]) # QueueSlots(k)
      <4>1. PortOf[j] = p.port
        BY <1>2, <3>2, <3>3 DEF Shape, QueueShape, NocType
      <4>2. Len(tqueue[j]) # QueueSlots(j)
        BY <1>1, <1>6, <3>2, <3>5, <4>1, QueueLasts
      <4> QED
        BY <3>2, <4>2
    <3> HIDE DEF k, owners
    <3> QED
      BY <2>1, <2>4, <3>6
  <2> HIDE DEF reason, k, owners
  <2> QED
    BY <2>2, <2>3, <2>4
<1> HIDE DEF reason, p
<1> QED
  BY <1>1, <1>6

(* ni_isr() alone drops packets. *)
LEMMA DropsByIsr ==
    ASSUME NEW u \in Tasks, Step(u) \/ Destroy(u) \/ time_out(u)
    PROVE  incidents' \subseteq incidents \cup {"destroyed", "timeout", "gave up"}
<1>1. CASE recv_next(u)
  BY <1>1 DEF recv_next
<1>2. CASE comm_drain(u) \/ time_out(u)
  BY <1>2 DEF comm_drain, time_out
<1> QED
  BY <1>1, <1>2, ZenonT(40) DEF Step, Destroy, comm_check, comm_queue, comm_port, comm_free, comm_unport, hf_sendack,
     send_packet, see_ack, hf_recvack, recv_first, recv_copy, recv_return, ack_return

LEMMA FlowInvInit == Init => FlowInv /\ FlowControlled
<1> SUFFICES ASSUME Init PROVE FlowInv /\ FlowControlled
  OBVIOUS
<1>0. BufferInv
  BY InitBuffers
<1>1. FlowControlled
  BY DEF Init, FlowControlled
<1>2. ASSUME NEW G \in SUBSET Servers PROVE Counted(G)
  <2>1. TermsTyped /\ (0..Packets \subseteq Nat) /\ Len(<< >>) = 0 /\ 0 \in Nat
    BY <1>0, TermTypes, SizesAssumption
  <2>2. /\ IsFiniteSet(G) /\ IsFiniteSet(Links) /\ IsFiniteSet(SendersTo(G))
        /\ G \subseteq Tasks /\ SendersTo(G) \subseteq Senders
    BY PlacesFinite DEF SendersTo
  <2>3. ASSUME NEW S, IsFiniteSet(S), NEW f, \A x \in S : f[x] = 0 PROVE Total(S, f) = 0
    <3>1. \A x \in S : f[x] \in Nat /\ f[x] <= 0
      BY <2>3
    <3>2. Total(S, f) <= 0 * Cardinality(S) /\ Total(S, f) \in Nat /\ Cardinality(S) \in Nat
      BY <2>1, <2>3, <3>1, TotalBound
    <3>3. \A i \in Nat : 0 * i = 0
      OBVIOUS
    <3> QED
      BY <3>2, <3>3
  <2>4. ASSUME NEW t \in Tasks PROVE Queue(t) = << >> /\ call[t].buf = << >> /\ call[t].got = << >>
    BY DEF Init, NoCall, Queue, NoQueue
  <2>5. \A t \in G : Arrived[t] = 0
    <3> SUFFICES ASSUME NEW t \in G PROVE Arrived[t] = 0
      OBVIOUS
    <3>1. Arrived[t] = Len(<< >>) + Len(<< >>) + Len(<< >>)
      BY <2>2, <2>4, ArrivedIs
    <3> QED
      BY <2>1, <3>1
  <2>6. \A k \in Links : Flying(net, G)[k] = 0
    <3> SUFFICES ASSUME NEW k \in Links PROVE Flying(net, G)[k] = 0
      OBVIOUS
    <3>1. net[k] = << >>
      BY DEF Init
    <3>2. Parts(<< >>, G) = {}
      BY <2>1 DEF Parts
    <3> QED
      <4>1. Flying(net, G)[k] = Cardinality(Parts(net[k], G))
        BY FlyingIs
      <4> QED
        BY <3>1, <3>2, <4>1, FS_EmptySet
  <2>7. \A s \in SendersTo(G) : Acked[s] = 0
    <3> SUFFICES ASSUME NEW s \in SendersTo(G) PROVE Acked[s] = 0
      OBVIOUS
    <3>1. s \in Senders /\ s \in Tasks /\ AckLink(s) \in Links
      BY <2>2, SenderFacts
    <3>2. net[AckLink(s)] = << >> /\ Queue(s) = << >> /\ call[s].buf = << >> /\ call[s].got = << >>
      BY <2>4, <3>1 DEF Init
    <3>3. (\A M : ~Has(<< >>, M)) /\ ~GotAt(<< >>, 1, TargetOf[s])
      BY <2>1 DEF Has, GotAt
    <3>4. ~AckExists(s)
      BY <3>2, <3>3, Zenon DEF AckExists, PipeExists, Exists
    <3> QED
      BY <3>1, <3>4, AckedIs
  <2>8. /\ Total(G, Arrived) = 0 /\ Total(Links, Flying(net, G)) = 0 /\ Total(SendersTo(G), Acked) = 0
    BY <2>2, <2>3, <2>5, <2>6, <2>7
  <2>9. Total(SendersTo(G), Emitted) \in Nat
    <3>1. \A s \in SendersTo(G) : Emitted[s] \in Nat
      BY <2>1, <2>2 DEF TermsTyped
    <3> QED
      BY <2>2, <3>1, UnitsFinite
  <2> QED
    BY <2>8, <2>9 DEF Counted
<1> QED
  BY <1>1, <1>2 DEF FlowInv

LEMMA FlowInvNext ==
    ASSUME PoolsSuffice, QueuesSuffice, BufferInv, BufferInv', MessageInv, FlowInv, FlowControlled, [Next]_vars
    PROVE  FlowInv' /\ FlowControlled'
<1>1. CASE vars' = vars
  <2>1. call' = call /\ tqueue' = tqueue /\ net' = net /\ incidents' = incidents
    BY <1>1 DEF vars
  <2>2. Arrived' = Arrived /\ (\A G : Flying(net', G) = Flying(net, G)) /\ Acked' = Acked /\ Emitted' = Emitted
    BY <2>1 DEF Arrived, Flying, Acked, Emitted, AckExists, PipeExists, Queue
  <2>3. ASSUME NEW G \in SUBSET Servers, Counted(G) PROVE Counted(G)'
    BY <2>2, <2>3, CountedNext DEF Counted
  <2> QED
    BY <2>1, <2>3 DEF FlowInv, FlowControlled
<1>2. CASE Next
  <2>1. RouteInv /\ TokenInv /\ incidents \subseteq incidents'
    BY <1>2, IncidentsGrow DEF MessageInv
  <2>2. FlowInv'
    <3> SUFFICES ASSUME "timeout" \notin incidents', NEW G \in SUBSET Servers PROVE Counted(G)'
      BY DEF FlowInv
    <3>1. Counted(G)
      BY <2>1 DEF FlowInv
    <3> QED
      BY <1>2, <2>1, <3>1, CountedOnward
  <2>3. FlowControlled'
    <3> SUFFICES ASSUME incidents' \cap {"timeout", "freed"} = {} PROVE incidents' \cap {"pool", "queue"} = {}
      BY DEF FlowControlled
    <3>1. incidents \cap {"timeout", "freed"} = {} /\ incidents \cap {"pool", "queue"} = {}
      BY <2>1 DEF FlowControlled
    <3>2. \A G \in SUBSET Servers : Counted(G)
      BY <3>1 DEF FlowInv
    <3>3. ASSUME NEW u \in Tasks, Step(u) \/ Destroy(u) \/ time_out(u) PROVE incidents' \cap {"pool", "queue"} = {}
      BY <3>1, <3>3, DropsByIsr
    <3>4. ASSUME NEW k \in Links, ni_isr(k) PROVE incidents' \cap {"pool", "queue"} = {}
      BY <2>1, <3>1, <3>2, <3>4, NothingDropped
    <3>5. ASSUME NEW k \in Links, Malformed(k) PROVE incidents' \cap {"pool", "queue"} = {}
      BY <3>1, <3>5 DEF Malformed
    <3> QED
      BY <1>2, <3>3, <3>4, <3>5 DEF Next
  <2> QED
    BY <2>2, <2>3
<1> QED
  BY <1>1, <1>2

(* hf_sendack() "works as a flow control mechanism, avoiding buffer/queue  *)
(* overflows": with pools for one message of every sender to the core and  *)
(* one acknowledgement of every sender on it, with queues for one message  *)
(* of every sender to the task, whatever size hf_comm_create() was asked   *)
(* for, and as long as no hf_sendack() timed out and no queue was freed    *)
(* under a packet, ni_isr() never drops a packet for want of a buffer or   *)
(* of a place in a queue, whatever receivers that gave up waiting did with *)
(* the packets.                                                            *)
THEOREM NocFlowControlled == PoolsSuffice /\ QueuesSuffice => (Spec => []FlowControlled)
<1>1. PoolsSuffice /\ QueuesSuffice /\ BufferInv /\ BufferInv' /\ MessageInv /\ FlowInv /\ FlowControlled /\ [Next]_vars
      => FlowInv' /\ FlowControlled'
  BY FlowInvNext
<1>2. (PoolsSuffice => PoolsSuffice') /\ (QueuesSuffice => QueuesSuffice')
  BY DEF PoolsSuffice, QueuesSuffice
<1> QED
  BY <1>1, <1>2, FlowInvInit, MessageInvHolds, PTL DEF Spec
=============================================================================
