-------------------------------- MODULE Net ---------------------------------
(***************************************************************************)
(* UDP endpoints (net/uudp/uudp.c) over the network stack (net/ustack): a  *)
(* service task takes frames from the interface and puts datagrams in the  *)
(* queue of an endpoint; application tasks create an endpoint, receive     *)
(* from it, destroy it, and send through the one output frame.             *)
(*                                                                         *)
(* The tasks preempt each other anywhere, and the two queues of an         *)
(* endpoint and the ARP cache are shared without a lock: what is done to   *)
(* them is modelled one access to shared memory at a time.  The model      *)
(* stops at the use of a missing queue or of a null pointer.               *)
(***************************************************************************)
EXTENDS Integers, FiniteSets

CONSTANTS
    Owner,          \* the task that owns the endpoint
    Service,        \* the task that runs ustack_service()
    Senders,        \* the tasks that send through the output frame
    HostOf,         \* the host each of them sends to
    QSize,          \* buffers of the endpoint
    ARP_CACHE_SIZE,
    UUDP_RETRIES,
    MaxDatagrams,   \* datagrams that arrive
    MaxSends        \* datagrams that a task sends

ASSUME NetAssumption == /\ QSize \in Nat \ {0} /\ ARP_CACHE_SIZE \in Nat \ {0}
                        /\ UUDP_RETRIES \in Nat /\ MaxDatagrams \in Nat /\ MaxSends \in Nat
                        /\ Service \notin Senders /\ Owner # Service

Hosts == {HostOf[t] : t \in Senders}
Buffers == 1..QSize
Cells == 0..QSize
Entries == 0..(ARP_CACHE_SIZE - 1)
Nobody == "nobody"
Oversize == MaxDatagrams + 1    \* added to the number of a datagram that says
                                \* it is longer than a buffer
Freed == -1                     \* the content of a buffer given back to the heap

VARIABLES
    life,       \* of the endpoint: none, creating, ready, failed, destroying, gone
    list,       \* the endpoint is in comm_list
    queues,     \* the queues of the endpoint that exist
    content,    \* the datagram in each buffer
    act,        \* what the service and the owner are doing
    arrived,    \* datagrams that arrived so far
    received,   \* the last datagram the owner received
    leaked,     \* buffers that nothing refers to any more
    wild,       \* a missing queue, a null pointer or a freed buffer was used
    uudplock, frame_out, arp_cache, arp_index,
    sending,    \* what the senders are doing
    sent        \* the last datagram put on the wire

output == <<uudplock, frame_out, sending, sent>>
arp == <<arp_cache, arp_index>>
vars == <<life, list, queues, content, act, arrived, received, leaked, wild, output, arp>>

EmptyQueue == [data |-> [c \in Cells |-> 0], head |-> 0, tail |-> 0, elem |-> 0]
Idle == [pc |-> "idle", q |-> "", buf |-> 0, reg |-> 0, n |-> 0]

(* ustack_init() has run, and the first endpoint of the system, which sets *)
(* comm_list, the callback and the lock up, has been created.              *)
Init ==
    /\ life = "none"
    /\ list = FALSE
    /\ queues = << >>
    /\ content = [b \in Buffers |-> 0]
    /\ act = [a \in {Service, Owner} |-> Idle]
    /\ arrived = 0
    /\ received = 0
    /\ leaked = {}
    /\ wild = {}
    /\ uudplock = FALSE
    /\ frame_out = [payload |-> Nobody, ip |-> Nobody]
    /\ arp_cache = [i \in Entries |-> [ip |-> Nobody, mac |-> Nobody]]
    /\ arp_index = 0
    /\ sending = [t \in Senders |-> [pc |-> "idle", tries |-> 0, entry |-> 0, done |-> 0]]
    /\ sent = [by |-> Nobody, payload |-> Nobody, ip |-> Nobody, mac |-> Nobody]

At(a, pc) == wild = {} /\ act[a].pc = pc
Goto(a, pc, q) == act' = [act EXCEPT ![a].pc = pc, ![a].q = q]
Return(a) == act' = [act EXCEPT ![a] = Idle]
Exists(a) == act[a].q \in DOMAIN queues
Q(a) == queues[act[a].q]
Wild(a, reason) == wild' = {reason} /\ Return(a)
Buffer(a) == act[a].buf \in Buffers /\ content[act[a].buf] # Freed

-----------------------------------------------------------------------------
(* hf_queue_addtail() and hf_queue_remhead(), one access at a time.  What  *)
(* is done to the element count between its load and its store is lost.    *)

(* Mutant: one cell less, as if the queue had no cell to tell full from     *)
(* empty.                                                                  *)
Wrap_short(i) == (i + 1) % QSize
Wrap(i) == (i + 1) % (QSize + 1)

(* hf_uudp_create() adds one buffer after the other; the other callers are *)
(* done when the buffer is added.                                          *)
Added(a) == IF a = Owner /\ life = "creating"
            THEN act' = [act EXCEPT ![a] = [Idle EXCEPT !.pc = "fill", !.n = act[a].n]]
            ELSE Return(a)

(* A full queue refuses the buffer, and no caller looks at the result. *)
add_data(a) ==
    /\ At(a, "add")
    /\ IF ~Exists(a) THEN Wild(a, "queue") /\ UNCHANGED <<queues, leaked>>
       ELSE IF Wrap(Q(a).tail) = Q(a).head
       THEN leaked' = leaked \cup {act[a].buf} /\ Added(a) /\ UNCHANGED <<queues, wild>>
       ELSE /\ queues' = [queues EXCEPT ![act[a].q].data[Q(a).tail] = act[a].buf]
            /\ Goto(a, "add_tail", act[a].q)
            /\ UNCHANGED <<leaked, wild>>
    /\ UNCHANGED <<life, list, content, arrived, received, output, arp>>

add_tail(a) ==
    /\ At(a, "add_tail")
    /\ IF Exists(a)
       THEN /\ queues' = [queues EXCEPT ![act[a].q].tail = Wrap(@)]
            /\ act' = [act EXCEPT ![a].pc = "add_load", ![a].buf = 0] /\ UNCHANGED wild
       ELSE Wild(a, "queue") /\ UNCHANGED queues
    /\ UNCHANGED <<life, list, content, arrived, received, leaked, output, arp>>

(* An empty queue gives the null pointer: the service drops the datagram,  *)
(* the owner, who asked for the count first, uses the pointer.             *)
rem_data(a) ==
    /\ At(a, "rem")
    /\ IF ~Exists(a) THEN Wild(a, "queue")
       ELSE IF Q(a).head # Q(a).tail
       THEN /\ act' = [act EXCEPT ![a].pc = "rem_head", ![a].buf = Q(a).data[Q(a).head]]
            /\ UNCHANGED wild
       ELSE IF a = Owner THEN Wild(a, "null") ELSE Return(a) /\ UNCHANGED wild
    /\ UNCHANGED <<life, list, queues, content, arrived, received, leaked, output, arp>>

rem_head(a) ==
    /\ At(a, "rem_head")
    /\ IF Exists(a)
       THEN queues' = [queues EXCEPT ![act[a].q].head = Wrap(@)]
            /\ Goto(a, "rem_load", act[a].q) /\ UNCHANGED wild
       ELSE Wild(a, "queue") /\ UNCHANGED queues
    /\ UNCHANGED <<life, list, content, arrived, received, leaked, output, arp>>

(* elem++ and elem--. *)
load_elem(a) ==
    /\ At(a, "add_load") \/ At(a, "rem_load")
    /\ IF Exists(a)
       THEN act' = [act EXCEPT ![a].pc = IF @ = "add_load" THEN "add_store" ELSE "rem_store",
                               ![a].reg = Q(a).elem] /\ UNCHANGED wild
       ELSE Wild(a, "queue")
    /\ UNCHANGED <<life, list, queues, content, arrived, received, leaked, output, arp>>

store_elem(a) ==
    /\ At(a, "add_store") \/ At(a, "rem_store")
    /\ IF Exists(a)
       THEN /\ queues' = [queues EXCEPT ![act[a].q].elem =
                                 act[a].reg + (IF At(a, "add_store") THEN 1 ELSE -1)]
            /\ IF At(a, "add_store") THEN Added(a)
               ELSE act' = [act EXCEPT ![a].pc = "taken", ![a].reg = 0]
            /\ UNCHANGED wild
       ELSE Wild(a, "queue") /\ UNCHANGED queues
    /\ UNCHANGED <<life, list, content, arrived, received, leaked, output, arp>>

QueueStep(a) == \/ add_data(a) \/ add_tail(a) \/ rem_data(a) \/ rem_head(a)
                \/ load_elem(a) \/ store_elem(a)

-----------------------------------------------------------------------------
(* ustack_service(): one frame at a time through netif_recv(), ip_in() and *)
(* udp_in().  Frames that these refuse, and echo requests, which are       *)
(* answered from the input frame, change nothing that is modelled.         *)

ustack_service == At(Service, "idle")

(* A datagram for the port of the endpoint; udp_callback() drops it when   *)
(* no endpoint of the list has the port.                                   *)
udp_in ==
    /\ ustack_service /\ arrived < MaxDatagrams
    /\ arrived' = arrived + 1
    /\ IF list THEN Goto(Service, "rem", "free_buffers") ELSE UNCHANGED act
    /\ UNCHANGED <<life, list, queues, content, received, leaked, wild, output, arp>>

(* The buffer is filled from the input frame, which holds the datagram     *)
(* that arrived last, and is put in the queue of packets.                  *)
udp_callback ==
    /\ At(Service, "taken")
    /\ IF Buffer(Service)
       THEN /\ \E oversize \in {0, Oversize} :
                  content' = [content EXCEPT ![act[Service].buf] = arrived + oversize]
            /\ Goto(Service, "add", "pkt_queue")
            /\ UNCHANGED wild
       ELSE Wild(Service, "buffer") /\ UNCHANGED content
    /\ UNCHANGED <<life, list, queues, arrived, received, leaked, output, arp>>

(* An ARP answer: the entry of the sender is rewritten, or the next entry  *)
(* of the ring is taken over, its address first.                           *)
arp_update(host) ==
    /\ ustack_service
    /\ \E i \in Entries :
          /\ IF \E j \in Entries : arp_cache[j].ip = host
             THEN arp_cache[i].ip = host /\ UNCHANGED arp
             ELSE /\ i = arp_index
                  /\ arp_cache' = [arp_cache EXCEPT ![i].ip = host]
                  /\ arp_index' = (arp_index + 1) % ARP_CACHE_SIZE
          /\ act' = [act EXCEPT ![Service].pc = "arp_mac", ![Service].reg = i]
    /\ UNCHANGED <<life, list, queues, content, arrived, received, leaked, wild, output>>

arp_mac ==
    /\ At(Service, "arp_mac")
    /\ arp_cache' = [arp_cache EXCEPT ![act[Service].reg].mac = arp_cache[act[Service].reg].ip]
    /\ Return(Service)
    /\ UNCHANGED <<life, list, queues, content, arrived, received, leaked, wild, output, arp_index>>

-----------------------------------------------------------------------------
(* The owner. *)

(* hf_uudp_create() puts the endpoint in the list first: the queues are    *)
(* still missing, and stay so when there is no memory for them.            *)
hf_uudp_create ==
    /\ At(Owner, "idle") /\ life = "none" /\ ~list
    /\ list' = TRUE
    /\ life' = "creating"
    /\ Goto(Owner, "create", "free_buffers")
    /\ UNCHANGED <<queues, content, arrived, received, leaked, wild, output, arp>>

create_queue ==
    /\ At(Owner, "create")
    /\ \/ life' = "failed" /\ Return(Owner) /\ UNCHANGED queues
       \/ /\ queues' = [q \in DOMAIN queues \cup {act[Owner].q} |->
                         IF q \in DOMAIN queues THEN queues[q] ELSE EmptyQueue]
          /\ IF act[Owner].q = "free_buffers" THEN Goto(Owner, "create", "pkt_queue")
             ELSE act' = [act EXCEPT ![Owner] = [Idle EXCEPT !.pc = "fill"]]
          /\ UNCHANGED life
    /\ UNCHANGED <<list, content, arrived, received, leaked, wild, output, arp>>

(* One more buffer, or none: what was made is then taken apart again. *)
create_buffer ==
    /\ At(Owner, "fill")
    /\ IF act[Owner].n = QSize THEN Return(Owner) /\ life' = "ready"
       ELSE \/ /\ act' = [act EXCEPT ![Owner] = [pc |-> "add", q |-> "free_buffers", reg |-> 0,
                                                 buf |-> act[Owner].n + 1, n |-> act[Owner].n + 1]]
               /\ UNCHANGED life
            \/ Goto(Owner, "drain", "free_buffers") /\ life' = "destroying"
    /\ UNCHANGED <<list, queues, content, arrived, received, leaked, wild, output, arp>>

(* hf_uudp_recv(): nothing to do when the count of packets is zero. *)
hf_uudp_recv ==
    /\ At(Owner, "idle") /\ life = "ready"
    /\ queues["pkt_queue"].elem # 0
    /\ Goto(Owner, "rem", "pkt_queue")
    /\ UNCHANGED <<life, list, queues, content, arrived, received, leaked, wild, output, arp>>

(* Mutant: the buffer goes back to the queue of packets. *)
recv_copy_requeue ==
    /\ At(Owner, "taken") /\ life = "ready"
    /\ received' = content[act[Owner].buf]
    /\ Goto(Owner, "add", "pkt_queue")
    /\ UNCHANGED <<life, list, queues, content, arrived, leaked, wild, output, arp>>

(* The datagram is copied and the buffer put back, unless the datagram is  *)
(* too long: then the buffer is forgotten.                                 *)
recv_copy ==
    /\ At(Owner, "taken") /\ life = "ready"
    /\ LET b == act[Owner].buf IN
       IF content[b] >= Oversize
       THEN leaked' = leaked \cup {b} /\ Return(Owner) /\ UNCHANGED received
       ELSE /\ received' = content[b]
            /\ Goto(Owner, "add", "free_buffers")
            /\ UNCHANGED leaked
    /\ UNCHANGED <<life, list, queues, content, arrived, wild, output, arp>>

(* hf_uudp_destroy() empties and frees one queue, then the other, and only *)
(* then takes the endpoint out of the list.                                *)
hf_uudp_destroy ==
    /\ At(Owner, "idle") /\ life = "ready"
    /\ life' = "destroying"
    /\ Goto(Owner, "drain", "free_buffers")
    /\ UNCHANGED <<list, queues, content, arrived, received, leaked, wild, output, arp>>

(* hf_queue_destroy() keeps a queue that is not empty. *)
drain ==
    /\ At(Owner, "drain")
    /\ IF Q(Owner).elem # 0
       THEN Goto(Owner, "rem", act[Owner].q) /\ UNCHANGED queues
       ELSE /\ queues' = IF Q(Owner).head = Q(Owner).tail
                         THEN [q \in DOMAIN queues \ {act[Owner].q} |-> queues[q]] ELSE queues
            /\ IF act[Owner].q = "free_buffers" THEN Goto(Owner, "drain", "pkt_queue")
               ELSE Goto(Owner, "unlist", "")
    /\ UNCHANGED <<life, list, content, arrived, received, leaked, wild, output, arp>>

free_buffer ==
    /\ At(Owner, "taken") /\ life = "destroying"
    /\ IF Buffer(Owner)
       THEN /\ content' = [content EXCEPT ![act[Owner].buf] = Freed]
            /\ act' = [act EXCEPT ![Owner].pc = "drain", ![Owner].buf = 0]
            /\ UNCHANGED wild
       ELSE Wild(Owner, "buffer") /\ UNCHANGED content
    /\ UNCHANGED <<life, list, queues, arrived, received, leaked, output, arp>>

unlist ==
    /\ At(Owner, "unlist")
    /\ list' = FALSE
    /\ life' = "gone"
    /\ Return(Owner)
    /\ UNCHANGED <<queues, content, arrived, received, leaked, wild, output, arp>>

-----------------------------------------------------------------------------
(* hf_uudp_send(), by any task, through the one output frame. *)

Sending(t, pc) == wild = {} /\ sending[t].pc = pc
SendGoto(t, pc) == sending' = [sending EXCEPT ![t].pc = pc]
KeepEndpoint == UNCHANGED <<life, list, queues, content, act, arrived, received, leaked, wild>>

(* Mutant: the frame is not locked. *)
hf_uudp_send_unlocked(t) ==
    /\ Sending(t, "idle") /\ sending[t].done < MaxSends
    /\ SendGoto(t, "copy")
    /\ KeepEndpoint /\ UNCHANGED <<uudplock, frame_out, sent, arp>>

(* hf_mtxlock() spins until the lock is free. *)
hf_uudp_send(t) ==
    /\ Sending(t, "idle") /\ sending[t].done < MaxSends
    /\ ~uudplock
    /\ uudplock' = TRUE
    /\ SendGoto(t, "copy")
    /\ KeepEndpoint /\ UNCHANGED <<frame_out, sent, arp>>

send_copy(t) ==
    /\ Sending(t, "copy")
    /\ frame_out' = [frame_out EXCEPT !.payload = t]
    /\ SendGoto(t, "out")
    /\ KeepEndpoint /\ UNCHANGED <<uudplock, sent, arp>>

(* udp_out() and ip_out() write the headers, at every try. *)
ip_out(t) == frame_out' = [frame_out EXCEPT !.ip = HostOf[t]]
udp_out(t) ==
    /\ Sending(t, "out")
    /\ ip_out(t)
    /\ SendGoto(t, "check")
    /\ KeepEndpoint /\ UNCHANGED <<uudplock, sent, arp>>

(* The first entry of the host, and the request that is written over the   *)
(* headers when there is none.                                             *)
arp_check(i) == /\ arp_cache[i].ip = frame_out.ip
                /\ \A j \in Entries : j < i => arp_cache[j].ip # frame_out.ip
arp_request == frame_out' = [frame_out EXCEPT !.ip = Nobody]

(* netif_send() looks the host up; when it is not known the caller tries   *)
(* again.  Broadcasts, multicasts and hosts behind the gateway, whose      *)
(* addresses are computed or looked up for another host, are left out.     *)
netif_send(t) ==
    /\ Sending(t, "check")
    /\ IF \E i \in Entries : arp_cache[i].ip = frame_out.ip
       THEN /\ \E i \in Entries :
                  /\ arp_check(i)
                  /\ sending' = [sending EXCEPT ![t].pc = "mac", ![t].entry = i]
            /\ UNCHANGED frame_out
       ELSE /\ arp_request
            /\ sending' = [sending EXCEPT ![t].pc = IF sending[t].tries < UUDP_RETRIES THEN "out" ELSE "unlock",
                                          ![t].tries = @ + 1]
    /\ KeepEndpoint /\ UNCHANGED <<uudplock, sent, arp>>

(* The address is copied from the entry and the frame is sent: copied into *)
(* the chip under a lock by enc28j60.c.  The driver of the pic32mz starts  *)
(* a transfer that reads the frame after the call, which this step leaves  *)
(* out.                                                                    *)
en_ll_output(t) ==
    /\ Sending(t, "mac")
    /\ sent' = [by |-> t, payload |-> frame_out.payload, ip |-> frame_out.ip,
                mac |-> arp_cache[sending[t].entry].mac]
    /\ SendGoto(t, "unlock")
    /\ KeepEndpoint /\ UNCHANGED <<uudplock, frame_out, arp>>

send_return(t) ==
    /\ Sending(t, "unlock")
    /\ uudplock' = FALSE
    /\ sending' = [sending EXCEPT ![t] = [pc |-> "idle", tries |-> 0, entry |-> 0, done |-> @.done + 1]]
    /\ KeepEndpoint /\ UNCHANGED <<frame_out, sent, arp>>

-----------------------------------------------------------------------------
Next ==
    \/ QueueStep(Service) \/ QueueStep(Owner)
    \/ udp_in \/ udp_callback \/ arp_mac
    \/ \E host \in Hosts : arp_update(host)
    \/ hf_uudp_create \/ create_queue \/ create_buffer
    \/ hf_uudp_recv \/ recv_copy
    \/ hf_uudp_destroy \/ drain \/ free_buffer \/ unlist
    \/ \E t \in Senders : \/ hf_uudp_send(t) \/ send_copy(t) \/ udp_out(t)
                          \/ netif_send(t) \/ en_ll_output(t) \/ send_return(t)

Spec == Init /\ [][Next]_vars

-----------------------------------------------------------------------------
TypeOK ==
    /\ life \in {"none", "creating", "ready", "failed", "destroying", "gone"}
    /\ list \in BOOLEAN /\ uudplock \in BOOLEAN
    /\ DOMAIN queues \subseteq {"free_buffers", "pkt_queue"}
    /\ \A q \in DOMAIN queues : /\ queues[q].head \in Cells /\ queues[q].tail \in Cells
                               /\ queues[q].elem \in Int
    /\ \A b \in Buffers : content[b] \in -1..(2 * Oversize)
    /\ leaked \subseteq Buffers
    /\ arp_index \in Entries
    /\ \A i \in Entries : arp_cache[i].ip \in Hosts \cup {Nobody}
    /\ \A t \in Senders : sending[t].tries \in 0..(UUDP_RETRIES + 1)

(* The cells of a queue that are in use, in the order they are taken. *)
Used(q) == (queues[q].tail - queues[q].head) % (QSize + 1)
Cell(q, i) == (queues[q].head + i - 1) % (QSize + 1)
Nth(q, i) == queues[q].data[Cell(q, i)]

(* The places where a buffer is: in a queue, or in the hands of a task (a  *)
(* task that has not moved the head yet has read it in the queue).         *)
Places(b) == {p \in (DOMAIN queues) \X Buffers : p[2] <= Used(p[1]) /\ Nth(p[1], p[2]) = b}
             \cup {<<a, 0>> : a \in {c \in {Service, Owner} : act[c].buf = b /\ ~At(c, "rem_head")}}

(* While the endpoint is in use no buffer is in two places, and the only   *)
(* buffers that get lost are those of datagrams hf_uudp_recv() refused:    *)
(* the races may leave the counts of the queues wrong, never their ends.   *)
BuffersSafe ==
    (life = "ready" /\ wild = {}) =>
        \A b \in Buffers : IF b \in leaked THEN Places(b) = {} /\ content[b] >= Oversize
                           ELSE Cardinality(Places(b)) = 1

(* A queue that does not exist, or a buffer that was freed, is used only   *)
(* while the endpoint is created or destroyed, or after that: never while  *)
(* it is in use.                                                           *)
QueuesThere == wild \cap {"queue", "buffer"} # {} => life # "ready"

(* The buffers and the queues of an endpoint in use are sound, although    *)
(* udp_callback() and hf_uudp_recv() take no lock.                         *)
EndpointSafe == TypeOK /\ BuffersSafe /\ QueuesThere

(* Datagrams come out of hf_uudp_recv() in the order they arrived, each    *)
(* once and whole: what waits in the queue of packets is newer than what   *)
(* was received, and in order.                                             *)
InOrder ==
    (life = "ready" /\ wild = {}) =>
        LET Number(i) == content[Nth("pkt_queue", i)] % Oversize
            n == Used("pkt_queue")
        IN /\ \A i \in 1..(n - 1) : Number(i) < Number(i + 1)
           /\ n > 0 => received < Number(1) /\ Number(n) <= arrived

(* A datagram on the wire is the payload of one call with the address that *)
(* this call gave, retries included (hf_uudp_send, netif_send).            *)
SendsOwnPayload == sent.by # Nobody => sent.payload = sent.by /\ sent.ip = HostOf[sent.by]

(* No host has two entries in the ARP cache, and an entry holds the        *)
(* address of its host unless it is being written (arp_update).            *)
ArpSound ==
    \A i \in Entries : arp_cache[i].ip # Nobody =>
        /\ \A j \in Entries : arp_cache[j].ip = arp_cache[i].ip => j = i
        /\ arp_cache[i].mac = arp_cache[i].ip \/ (act[Service].pc = "arp_mac" /\ act[Service].reg = i)

(* What goes out is the payload and the IP address of one call, whoever    *)
(* sends and whatever the service does to the ARP cache meanwhile; of the  *)
(* hardware address only the cache is sound (see MacOfDestination).        *)
OutputSound == SendsOwnPayload /\ ArpSound

(* hf_uudp_recv() "without locks" (uudp.c:135-136) never reads a datagram  *)
(* through a null pointer.                                                 *)
LockFreeReceive == life = "ready" => "null" \notin wild

(* A datagram goes to the station of the host it is for. *)
MacOfDestination == sent.mac = sent.ip
=============================================================================
