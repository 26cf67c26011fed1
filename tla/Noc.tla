-------------------------------- MODULE Noc ---------------------------------
(***************************************************************************)
(* The network-on-chip driver (drivers/noc/noc.c over ni_hermes.c) on      *)
(* several cores: tasks that send and receive messages with                *)
(* acknowledgement, the interrupt handler that moves arriving packets from *)
(* a shared pool of buffers to the queue of a task, and the calls that     *)
(* create and destroy these queues.                                        *)
(*                                                                         *)
(* A buffer is only counted; what it holds is the packet in it.  The       *)
(* network keeps the order of packets between two cores.                   *)
(* Only the owner of a queue takes packets from it and the interrupt       *)
(* handler only appends, so looking at the head of the queue and removing  *)
(* it later is one step; every other masked section is a step of its own.  *)
(***************************************************************************)
EXTENDS Integers, Sequences, FiniteSets

CONSTANTS
    Cores,              \* the processors
    Tasks,              \* the communicating tasks, all cores together
    CoreOf,             \* the core of each task
    PortOf,             \* the port each task asks for
    TargetOf,           \* for a sender, the task it sends to
    ChannelOf,          \* for a sender, the channel it uses
    Receives,           \* for a receiver, the channels it receives on, in turn
    NOC_PACKET_SLOTS,   \* buffers in the pool of a core
    PacketsArg,         \* the queue size each task asks hf_comm_create() for
    TurnsPerSlot,       \* hf_recv() gives up after so many turns per slot, 8
    Packets,            \* packets of a message
    MessagesOf,         \* the number of messages of each sender
    MaxMalformed,       \* packets of the wrong length on the network
    NetSlots,           \* packets on the way between two cores
    Created,            \* the tasks that have their queue from the beginning
    MayTimeOut,         \* the senders whose hf_sendack() may time out
    MayDestroy,         \* the tasks that may destroy their queue
    NULL, FREED

AckChannel == 65535
Senders == DOMAIN TargetOf
Receivers == DOMAIN Receives
NoQueue == {NULL, FREED}

ASSUME SizesAssumption ==
    /\ NOC_PACKET_SLOTS \in Nat \ {0} /\ TurnsPerSlot \in Nat
    /\ Packets \in Nat \ {0} /\ NetSlots \in Nat /\ MaxMalformed \in Nat

(* A task has one role; port 0 stands for none. *)
ASSUME RolesAssumption ==
    /\ IsFiniteSet(Tasks)
    /\ CoreOf \in [Tasks -> Cores] /\ PortOf \in [Tasks -> Nat \ {0}] /\ PacketsArg \in [Tasks -> Nat]
    /\ Senders \subseteq Tasks /\ Receivers \subseteq Tasks /\ Senders \cap Receivers = {}
    /\ \A s \in Senders : TargetOf[s] \in Receivers /\ ChannelOf[s] \in Nat /\ MessagesOf[s] \in Nat
    /\ \A r \in Receivers : /\ Receives[r] \in Seq(Nat \ {AckChannel})
                            /\ Receives[r] # << >>

(* What the driver's users have to see to: the tasks of a core have ports  *)
(* of their own, and the senders to a task have channels of their own,     *)
(* none of them the one of the acknowledgements.                           *)
ASSUME AddressesAssumption ==
    /\ \A t, u \in Tasks : CoreOf[t] = CoreOf[u] /\ PortOf[t] = PortOf[u] => t = u
    /\ \A s, u \in Senders : TargetOf[s] = TargetOf[u] /\ ChannelOf[s] = ChannelOf[u] => s = u
    /\ \A s \in Senders : ChannelOf[s] # AckChannel

(* The pairs of cores between which packets travel. *)
Links == UNION {{<<CoreOf[s], CoreOf[TargetOf[s]]>>, <<CoreOf[TargetOf[s]], CoreOf[s]>>} : s \in Senders}

VARIABLES
    pool,       \* pktdrv_queue: the free buffers of a core, counted
    tqueue,     \* pktdrv_tqueue: the packets waiting for a task
    ports,      \* pktdrv_ports: the port of a task, 0 if none
    net,        \* packets on the way, by source and target core
    call,       \* what each task is doing
    malformed,  \* packets of the wrong length so far
    incidents   \* what went wrong so far: reasons why packets of the right
                \* length were lost, time-outs and destroyed queues

vars == <<pool, tqueue, ports, net, call, malformed, incidents>>

Packet == [source : Tasks, port : {PortOf[t] : t \in Tasks}, channel : Nat, seq : 1..Packets,
           packets : 1..Packets, message : Nat, wellformed : BOOLEAN]

ASSUME NoQueueAssumption == NULL # FREED /\ NULL \notin Seq(Packet) /\ FREED \notin Seq(Packet)

(* The locals of hf_send() and hf_recv(); "buf" holds at most one packet,  *)
(* "got" the packets copied so far.                                        *)
NoCall == [pc |-> "idle", message |-> 1, channel |-> 0, seq |-> 0, packet |-> 0, packets |-> 0,
           buf |-> << >>, got |-> << >>, turns |-> 0, error |-> FALSE, round |-> 1]

(* ni_init(): the pool is full, no port is taken; some tasks have already  *)
(* called hf_comm_create().                                                *)
Init ==
    /\ pool = [c \in Cores |-> NOC_PACKET_SLOTS]
    /\ tqueue = [t \in Tasks |-> IF t \in Created THEN << >> ELSE NULL]
    /\ ports = [t \in Tasks |-> IF t \in Created THEN PortOf[t] ELSE 0]
    /\ net = [cc \in Links |-> << >>]
    /\ call = [t \in Tasks |-> [NoCall EXCEPT !.pc = IF t \in Created THEN "idle" ELSE "create"]]
    /\ malformed = 0
    /\ incidents = {}

Set(t, c) == call' = [call EXCEPT ![t] = c]
At(t, pc) == call[t].pc = pc

-----------------------------------------------------------------------------
(* Queues and ports. *)

(* hf_comm_create(): its checks; without a queue and with a port of its    *)
(* own the call goes on, otherwise it returns an error.                    *)
comm_check(t) ==
    /\ At(t, "create")
    /\ LET feasible == /\ tqueue[t] = NULL
                       /\ \A k \in Tasks : CoreOf[k] = CoreOf[t] => ports[k] # PortOf[t]
       IN Set(t, [call[t] EXCEPT !.pc = IF feasible THEN "create_queue" ELSE "refused"])
    /\ UNCHANGED <<pool, tqueue, ports, net, malformed, incidents>>

(* The places of a task's queue: as many as it asked for, or as there are  *)
(* buffers in the pool if it asked for more, or for none.                  *)
QueueSlots(t) == IF PacketsArg[t] > NOC_PACKET_SLOTS \/ PacketsArg[t] = 0
                 THEN NOC_PACKET_SLOTS ELSE PacketsArg[t]

(* pktdrv_tqueue[id] = hf_queue_create(packets), with QueueSlots(t) places *)
(* that ni_isr() finds full or not, or ERR_OUT_OF_MEMORY.                  *)
comm_queue(t) ==
    /\ At(t, "create_queue")
    /\ \/ /\ tqueue' = [tqueue EXCEPT ![t] = << >>]
          /\ Set(t, [call[t] EXCEPT !.pc = "create_port"])
       \/ /\ Set(t, [call[t] EXCEPT !.pc = "refused"])
          /\ UNCHANGED tqueue
    /\ UNCHANGED <<pool, ports, net, malformed, incidents>>

comm_port(t) ==
    /\ At(t, "create_port")
    /\ ports' = [ports EXCEPT ![t] = PortOf[t]]
    /\ Set(t, [call[t] EXCEPT !.pc = "idle"])
    /\ UNCHANGED <<pool, tqueue, net, malformed, incidents>>

(* hf_comm_destroy(): the masked part gives the buffers back. *)
comm_drain(t) ==
    /\ At(t, "idle")
    /\ t \in MayDestroy
    /\ pool' = [pool EXCEPT ![CoreOf[t]] = @ + Len(tqueue[t])]
    /\ tqueue' = [tqueue EXCEPT ![t] = << >>]
    /\ incidents' = incidents \cup {"destroyed"}
    /\ Set(t, [call[t] EXCEPT !.pc = "destroy_queue"])
    /\ UNCHANGED <<ports, net, malformed>>

(* hf_queue_destroy(), which refuses a queue that is not empty; the        *)
(* pointer to a freed queue is kept.                                       *)
comm_free(t) ==
    /\ At(t, "destroy_queue")
    /\ IF tqueue[t] = << >>
       THEN /\ tqueue' = [tqueue EXCEPT ![t] = FREED]
            /\ Set(t, [call[t] EXCEPT !.pc = "destroy_port"])
       ELSE /\ Set(t, [call[t] EXCEPT !.pc = "idle"])
            /\ UNCHANGED tqueue
    /\ UNCHANGED <<pool, ports, net, malformed, incidents>>

comm_unport(t) ==
    /\ At(t, "destroy_port")
    /\ ports' = [ports EXCEPT ![t] = 0]
    /\ Set(t, [call[t] EXCEPT !.pc = "create"])
    /\ UNCHANGED <<pool, tqueue, net, malformed, incidents>>

-----------------------------------------------------------------------------
(* The network and its interrupt. *)

(* ni_isr(): the packet is dropped if the pool is empty, if its length is  *)
(* wrong, if no task has its port, or if the queue of the task is full.    *)
(* Put in a queue that was freed meanwhile, the buffer is lost.            *)
ni_isr(link) ==
    /\ net[link] # << >>
    /\ net' = [net EXCEPT ![link] = Tail(@)]
    /\ LET p == Head(net[link])
           c == link[2]
           owners == {t \in Tasks : CoreOf[t] = c /\ ports[t] = p.port}
           k == CHOOSE t \in owners : TRUE
           reason == CASE pool[c] = 0 -> "pool"
                       [] pool[c] > 0 /\ owners = {} -> "port"
                       [] pool[c] > 0 /\ owners # {} /\ tqueue[k] = FREED -> "freed"
                       [] pool[c] > 0 /\ owners # {} /\ tqueue[k] # FREED
                          /\ Len(tqueue[k]) = QueueSlots(k) -> "queue"
                       [] OTHER -> "none"
           kept == p.wellformed /\ reason = "none"
       IN /\ pool' = [pool EXCEPT ![c] = @ - (IF kept \/ (p.wellformed /\ reason = "freed") THEN 1 ELSE 0)]
          /\ tqueue' = IF kept THEN [tqueue EXCEPT ![k] = Append(@, p)] ELSE tqueue
          /\ incidents' = incidents \cup (IF p.wellformed THEN {reason} \ {"none"} ELSE {})
    /\ UNCHANGED <<ports, call, malformed>>

(* A packet of the wrong length arrives from somewhere. *)
Malformed(link) ==
    /\ malformed < MaxMalformed
    /\ Len(net[link]) < NetSlots
    /\ malformed' = malformed + 1
    /\ \E s \in Senders :
          /\ link = <<CoreOf[s], CoreOf[TargetOf[s]]>>
          /\ net' = [net EXCEPT ![link] =
                        Append(@, [source |-> s, port |-> PortOf[TargetOf[s]], channel |-> ChannelOf[s], seq |-> 1,
                                   packets |-> Packets, message |-> 1, wellformed |-> FALSE])]
    /\ UNCHANGED <<pool, tqueue, ports, call, incidents>>

-----------------------------------------------------------------------------
(* hf_send() *)

(* ni_write_packet(): the whole packet, once the interface is ready. *)
ni_write_packet(t, to, packet) ==
    LET cc == <<CoreOf[t], CoreOf[to]>>
    IN /\ Len(net[cc]) < NetSlots
       /\ net' = [net EXCEPT ![cc] = Append(@, packet)]

(* One packet of the message; after the last one hf_sendack() waits for    *)
(* the acknowledgement.                                                    *)
hf_sendack(t) ==
    /\ t \in Senders
    /\ At(t, "idle")
    /\ call[t].message <= MessagesOf[t]
    /\ Set(t, [call[t] EXCEPT !.pc = "send", !.packet = 1])
    /\ UNCHANGED <<pool, tqueue, ports, net, malformed, incidents>>

(* Mutant: the sender goes on without waiting, as with hf_send(). *)
send_packet_raw(t) ==
    /\ At(t, "send")
    /\ LET c == call[t]
           to == TargetOf[t]
       IN /\ ni_write_packet(t, to, [source |-> t, port |-> PortOf[to], channel |-> ChannelOf[t],
                                     seq |-> c.packet, packets |-> Packets,
                                     message |-> c.message, wellformed |-> TRUE])
          /\ Set(t, IF c.packet < Packets THEN [c EXCEPT !.packet = @ + 1]
                    ELSE [NoCall EXCEPT !.message = c.message + 1])
    /\ UNCHANGED <<pool, tqueue, ports, malformed, incidents>>

send_packet(t) ==
    /\ At(t, "send")
    /\ LET c == call[t]
           to == TargetOf[t]
       IN /\ ni_write_packet(t, to, [source |-> t, port |-> PortOf[to], channel |-> ChannelOf[t],
                                     seq |-> c.packet, packets |-> Packets,
                                     message |-> c.message, wellformed |-> TRUE])
          /\ Set(t, IF c.packet < Packets THEN [c EXCEPT !.packet = @ + 1]
                    ELSE [c EXCEPT !.pc = "wait_ack", !.packet = 0])
    /\ UNCHANGED <<pool, tqueue, ports, malformed, incidents>>

(* The head of the sender's queue is an acknowledgement: hf_recv() takes   *)
(* it.  The loop looks at the head only and does not rotate the queue.     *)
AckIsHead(t) == tqueue[t] # << >> /\ Head(tqueue[t]).channel = AckChannel

(* Mutant: the acknowledgement is seen but stays in the queue. *)
see_ack_peek(t) ==
    /\ At(t, "wait_ack")
    /\ AckIsHead(t)
    /\ LET p == Head(tqueue[t])
       IN Set(t, [call[t] EXCEPT !.pc = "returned",
                                 !.got = <<[source |-> p.source, message |-> p.message, seq |-> p.seq]>>])
    /\ UNCHANGED <<pool, tqueue, ports, net, malformed, incidents>>

see_ack(t) ==
    /\ At(t, "wait_ack")
    /\ AckIsHead(t)
    /\ Set(t, [call[t] EXCEPT !.pc = "recv_first", !.channel = AckChannel, !.seq = 0])
    /\ UNCHANGED <<pool, tqueue, ports, net, malformed, incidents>>

(* ERR_COMM_TIMEOUT; the program goes on with its next message. *)
time_out(t) ==
    /\ At(t, "wait_ack")
    /\ t \in MayTimeOut
    /\ ~AckIsHead(t)
    /\ Set(t, [call[t] EXCEPT !.pc = "idle", !.message = @ + 1])
    /\ incidents' = incidents \cup {"timeout"}
    /\ UNCHANGED <<pool, tqueue, ports, net, malformed>>

-----------------------------------------------------------------------------
(* hf_recv() *)

hf_recvack(t) ==
    /\ t \in Receivers
    /\ At(t, "idle")
    /\ Set(t, [call[t] EXCEPT !.pc = "recv_first", !.channel = Receives[t][call[t].round], !.seq = 0])
    /\ UNCHANGED <<pool, tqueue, ports, net, malformed, incidents>>

Rotated(q) == Append(Tail(q), Head(q))
(* Mutant: the channel is not looked at. *)
Wanted_seq(p, channel, seq) == p.seq = seq

Wanted(p, channel, seq) == p.channel = channel /\ p.seq = seq

(* Mutant: the queue is not rotated. *)
recv_first_still(t) ==
    /\ At(t, "recv_first")
    /\ tqueue[t] # << >>
    /\ LET c == call[t]
           p == Head(tqueue[t])
       IN /\ Wanted(p, c.channel, c.seq + 1)
          /\ tqueue' = [tqueue EXCEPT ![t] = Tail(@)]
          /\ Set(t, [c EXCEPT !.pc = "copy", !.buf = <<p>>, !.seq = p.seq, !.packet = 1,
                              !.packets = p.packets, !.got = << >>, !.error = FALSE])
    /\ UNCHANGED <<pool, ports, net, malformed, incidents>>

(* The loop for the first packet: take it, or rotate the queue. *)
recv_first(t) ==
    /\ At(t, "recv_first")
    /\ tqueue[t] # << >>
    /\ LET c == call[t]
           p == Head(tqueue[t])
       IN IF Wanted(p, c.channel, c.seq + 1)
          THEN /\ tqueue' = [tqueue EXCEPT ![t] = Tail(@)]
               /\ Set(t, [c EXCEPT !.pc = "copy", !.buf = <<p>>, !.seq = p.seq, !.packet = 1,
                                   !.packets = p.packets, !.got = << >>, !.error = FALSE])
          ELSE /\ tqueue' = [tqueue EXCEPT ![t] = Rotated(@)]
               /\ UNCHANGED call
    /\ UNCHANGED <<pool, ports, net, malformed, incidents>>

(* Mutant: the buffer of a packet out of order is not given back. *)
recv_copy_leak(t) ==
    /\ At(t, "copy")
    /\ LET c == call[t]
           p == c.buf[1]
           copied == [c EXCEPT !.buf = << >>, !.seq = @ + 1, !.error = @ \/ p.seq # c.seq,
                               !.got = Append(@, [source |-> p.source, message |-> p.message, seq |-> p.seq])]
       IN /\ pool' = [pool EXCEPT ![CoreOf[t]] = @ + (IF copied.error THEN 0 ELSE 1)]
          /\ Set(t, IF c.packet < c.packets
                    THEN [copied EXCEPT !.pc = "recv_next", !.packet = @ + 1, !.turns = 0]
                    ELSE [copied EXCEPT !.pc = "returned"])
    /\ UNCHANGED <<tqueue, ports, net, malformed, incidents>>

(* A packet is copied and its buffer goes back to the pool; after the last *)
(* one the call returns.                                                   *)
recv_copy(t) ==
    /\ At(t, "copy")
    /\ pool' = [pool EXCEPT ![CoreOf[t]] = @ + 1]
    /\ LET c == call[t]
           p == c.buf[1]
           copied == [c EXCEPT !.buf = << >>, !.seq = @ + 1, !.error = @ \/ p.seq # c.seq,
                               !.got = Append(@, [source |-> p.source, message |-> p.message, seq |-> p.seq])]
       IN Set(t, IF c.packet < c.packets
                 THEN [copied EXCEPT !.pc = "recv_next", !.packet = @ + 1, !.turns = 0]
                 ELSE [copied EXCEPT !.pc = "returned"])
    /\ UNCHANGED <<tqueue, ports, net, malformed, incidents>>

TurnLimit == NOC_PACKET_SLOTS * TurnsPerSlot

(* The loop for the following packets, which ends with whatever is at the  *)
(* head after too many turns.                                              *)
recv_next(t) ==
    /\ At(t, "recv_next")
    /\ tqueue[t] # << >>
    /\ LET c == call[t]
           wanted == Wanted(Head(tqueue[t]), c.channel, c.seq)
           q == IF wanted THEN tqueue[t] ELSE Rotated(tqueue[t])
           gives_up == ~wanted /\ c.turns > TurnLimit
       IN /\ IF wanted \/ gives_up
             THEN /\ tqueue' = [tqueue EXCEPT ![t] = Tail(q)]
                  /\ Set(t, [c EXCEPT !.pc = "copy", !.buf = <<Head(q)>>, !.turns = 0])
             ELSE /\ tqueue' = [tqueue EXCEPT ![t] = q]
                  /\ Set(t, [c EXCEPT !.turns = @ + 1])
          /\ incidents' = incidents \cup (IF gives_up THEN {"gave up"} ELSE {})
    /\ UNCHANGED <<pool, ports, net, malformed>>

(* hf_recvack(): the acknowledgement goes to the source of the first       *)
(* packet; a message with ERR_SEQ_ERROR is not acknowledged.               *)
Finished(t) == [NoCall EXCEPT !.message = call[t].message,
                              !.round = (call[t].round % Len(Receives[t])) + 1]

recv_return(t) ==
    /\ At(t, "returned")
    /\ t \in Receivers
    /\ LET to == call[t].got[1].source
       IN IF call[t].error THEN UNCHANGED net
          ELSE ni_write_packet(t, to, [source |-> t, port |-> PortOf[to], channel |-> AckChannel, seq |-> 1,
                                       packets |-> 1, message |-> call[t].got[1].message,
                                       wellformed |-> TRUE])
    /\ Set(t, Finished(t))
    /\ UNCHANGED <<pool, tqueue, ports, malformed, incidents>>

(* hf_sendack() returns ERR_OK once its hf_recv() has returned. *)
ack_return(t) ==
    /\ At(t, "returned")
    /\ t \in Senders
    /\ Set(t, [NoCall EXCEPT !.message = call[t].message + 1])
    /\ UNCHANGED <<pool, tqueue, ports, net, malformed, incidents>>

Step(t) ==
    \/ comm_check(t) \/ comm_queue(t) \/ comm_port(t)
    \/ hf_sendack(t) \/ send_packet(t) \/ see_ack(t)
    \/ hf_recvack(t) \/ recv_first(t) \/ recv_copy(t) \/ recv_next(t) \/ recv_return(t) \/ ack_return(t)

Destroy(t) == comm_drain(t) \/ comm_free(t) \/ comm_unport(t)

(* Tasks that wait for a packet spin, which is no step here: a state in    *)
(* which all of them wait, or have sent their messages, has no successor.  *)
Next ==
    \/ \E t \in Tasks : Step(t) \/ Destroy(t) \/ time_out(t)
    \/ \E link \in Links : ni_isr(link) \/ Malformed(link)

Spec == Init /\ [][Next]_vars

(* Tasks are scheduled again and again, and the network interrupts for     *)
(* every packet.                                                           *)
FairSpec == /\ Spec
            /\ \A t \in Tasks : WF_vars(Step(t))
            /\ \A link \in Links : WF_vars(ni_isr(link))

-----------------------------------------------------------------------------
(* Properties. *)

TypeOK ==
    /\ pool \in [Cores -> 0..NOC_PACKET_SLOTS]
    /\ \A t \in Tasks : /\ tqueue[t] \in NoQueue \cup Seq(Packet)
                        /\ ports[t] \in {0, PortOf[t]}
                        /\ call[t].buf \in Seq(Packet)
                        /\ call[t].message \in 1..(IF t \in Senders THEN MessagesOf[t] + 1 ELSE 1)
                        /\ call[t].turns \in 0..(TurnLimit + 1)
    /\ \A cc \in Links : net[cc] \in Seq(Packet)
    /\ incidents \subseteq {"pool", "port", "queue", "freed", "destroyed", "timeout", "gave up"}

(* The buffers that a task holds, in its queue or to copy from, numbered,  *)
(* and those of all the tasks of a core.                                   *)
Held == [t \in Tasks |-> Len(call[t].buf) + (IF tqueue[t] \in NoQueue THEN 0 ELSE Len(tqueue[t]))]
HeldOn(held, c) == UNION {{t} \X (1..held[t]) : t \in {u \in Tasks : CoreOf[u] = c}}

(* Every buffer of a core is in its pool, in the queue of one of its tasks *)
(* or in the hands of one that copies from it, through drops, sequence     *)
(* errors, time-outs and the destruction of queues, unless the interrupt   *)
(* handler put one in a queue that was freed.                              *)
BuffersConserved ==
    /\ TypeOK
    /\ "freed" \notin incidents =>
        \A c \in Cores : pool[c] + Cardinality(HeldOn(Held, c)) = NOC_PACKET_SLOTS

(* What the task got is one message, whole and in order. *)
OneMessage(got) ==
    \A i \in DOMAIN got : /\ got[i].source = got[1].source
                          /\ got[i].message = got[1].message
                          /\ got[i].seq = i

(* hf_recv(): "ERR_SEQ_ERROR when received packets arrive out of order, so *)
(* the message is corrupted": a call that returns ERR_OK has received one  *)
(* message, whole and in order.                                            *)
CorruptionReported ==
    \A t \in Tasks : At(t, "returned") /\ ~call[t].error => OneMessage(call[t].got)

(* What the code guarantees of that: as long as no hf_sendack() timed out  *)
(* and no hf_recv() gave up waiting for a packet, the rotations of the     *)
(* queue by receives on other channels, and the packets that arrive        *)
(* between two of them, never mix messages.                                *)
MessageIntact == incidents \cap {"timeout", "gave up"} = {} => CorruptionReported

(* hf_sendack() returns ERR_OK only when the receiver has the message it   *)
(* sent: without time-outs, the acknowledgement is the one for this        *)
(* message and not for an earlier one.                                     *)
AckIsForThisMessage ==
    \A t \in Senders :
        At(t, "returned") /\ "timeout" \notin incidents => call[t].got[1].message = call[t].message

(* A pool holds one message of every sender to the core, and one           *)
(* acknowledgement for every sender on it; a queue holds one message of    *)
(* every sender to its task.                                               *)
ServersOn(c) == {t \in Tasks \ Senders : CoreOf[t] = c}
SendersOn(c) == {s \in Senders : CoreOf[s] = c}
SendersTo(G) == {s \in Senders : TargetOf[s] \in G}
PoolsSuffice ==
    \A c \in Cores : Packets * Cardinality(SendersTo(ServersOn(c))) + Cardinality(SendersOn(c)) <= NOC_PACKET_SLOTS
QueuesSuffice == \A r \in Receivers : Packets * Cardinality(SendersTo({r})) <= QueueSlots(r)

(* "This works as a flow control mechanism, avoiding buffer/queue          *)
(* overflows": without time-outs no packet sent with acknowledgement is    *)
(* dropped for want of a buffer or of a place in a queue.  This takes a    *)
(* pool with room for one message of every sender to the core and one      *)
(* acknowledgement for each of its senders, and, where hf_comm_create()    *)
(* was asked for a smaller queue, a queue with room for one message of     *)
(* every sender to the task (PoolsSuffice and QueuesSuffice).              *)
FlowControlled ==
    incidents \cap {"timeout", "freed"} = {} => incidents \cap {"pool", "queue"} = {}

(* Every message of a sender is received and acknowledged, in whatever     *)
(* order the packets of several senders arrive, unless something went      *)
(* wrong that the sender is not told of: a packet was lost or came before  *)
(* its port was there, a queue was destroyed, or the receiver gave up      *)
(* waiting for a packet.                                                   *)
SendsComplete ==
    \A t \in Senders : <>(call[t].message = MessagesOf[t] + 1 \/ incidents # {})
=============================================================================
