------------------------------ MODULE NetProof ------------------------------
(***************************************************************************)
(* What goes out of the network stack is whole, for any number of senders, *)
(* hosts, ARP entries, retries and datagrams: OutputSound of module Net.   *)
(*                                                                         *)
(* SendsOwnPayload needs LockInv: the lock of hf_uudp_send() is held by    *)
(* every task inside the call, so there is only one, and the output frame  *)
(* is its own from the copy to the wire, retries included.  ArpSound is    *)
(* inductive once the shapes of the records are known; its one delicate    *)
(* point is that no step but arp_mac ends the rewriting of an entry.       *)
(***************************************************************************)
EXTENDS Net, TLAPS

SendPlaces == {"idle", "copy", "out", "check", "mac", "unlock"}
Address == Hosts \cup {Nobody}

OutputType ==
    /\ sending \in [Senders -> [pc : SendPlaces, tries : Nat, entry : Int, done : Nat]]
    /\ frame_out \in [payload : Senders \cup {Nobody}, ip : Address]
    /\ arp_cache \in [Entries -> [ip : Address, mac : Address]]

ServiceShape ==
    /\ DOMAIN act = {Service, Owner}
    /\ DOMAIN act[Service] = {"pc", "q", "buf", "reg", "n"}

(* The lock is held by whoever is sending, who is alone, and the frame is  *)
(* that task's.                                                            *)
LockInv ==
    /\ \A t \in Senders : sending[t].pc # "idle" => uudplock
    /\ \A t, u \in Senders : sending[t].pc # "idle" /\ sending[u].pc # "idle" => t = u
    /\ \A t \in Senders : /\ sending[t].pc \in {"out", "check", "mac"} => frame_out.payload = t
                          /\ sending[t].pc \in {"check", "mac"} => frame_out.ip = HostOf[t]

OutputInv == OutputType /\ ServiceShape /\ LockInv /\ SendsOwnPayload /\ ArpSound

-----------------------------------------------------------------------------
(* The steps of the endpoint: they leave everything that is sent alone,    *)
(* and an entry that is being rewritten too.                               *)
EndpointStep ==
    \/ QueueStep(Service) \/ QueueStep(Owner)
    \/ udp_in \/ udp_callback
    \/ hf_uudp_create \/ create_queue \/ create_buffer
    \/ hf_uudp_recv \/ recv_copy
    \/ hf_uudp_destroy \/ drain \/ free_buffer \/ unlist

Apart == /\ UNCHANGED <<output, arp>>
         /\ act[Service].pc = "arp_mac" => act'[Service] = act[Service]

(* ustack_init() leaves a frame and a cache that satisfy the invariant. *)
LEMMA OutputInit == Init => OutputInv
<1> SUFFICES ASSUME Init PROVE OutputInv
  OBVIOUS
<1>1. OutputType
  BY DEF Init, OutputType, SendPlaces, Address
<1>2. ServiceShape
  BY DEF Init, ServiceShape, Idle
<1>3. LockInv /\ SendsOwnPayload /\ ArpSound
  BY DEF Init, LockInv, SendsOwnPayload, ArpSound
<1> QED
  BY <1>1, <1>2, <1>3 DEF OutputInv

(* Where the service or the owner goes next keeps the shape of act, and    *)
(* the owner does not move the service.                                    *)
LEMMA Moves ==
    ASSUME ServiceShape, NEW a \in {Service, Owner}, NEW pc, NEW q, Goto(a, pc, q) \/ Return(a)
    PROVE  ServiceShape' /\ (a = Owner => act'[Service] = act[Service])
<1>1. CASE Goto(a, pc, q)
  BY <1>1, NetAssumption DEF Goto, ServiceShape
<1>2. CASE Return(a)
  BY <1>2, NetAssumption DEF Return, ServiceShape, Idle
<1> QED
  BY <1>1, <1>2

(* The accesses of hf_queue_addtail() and hf_queue_remhead(). *)
LEMMA QueueStepApart ==
    ASSUME ServiceShape, NEW a \in {Service, Owner}, QueueStep(a)
    PROVE  Apart /\ ServiceShape'
<1> SUFFICES /\ UNCHANGED <<output, arp>>
             /\ act[a].pc # "arp_mac"
             /\ ServiceShape'
             /\ a = Owner => act'[Service] = act[Service]
  BY NetAssumption DEF Apart
<1>0. Owner # Service
  BY NetAssumption
<1>1. CASE add_data(a)
  <2>1. UNCHANGED <<output, arp>> /\ act[a].pc # "arp_mac"
    BY <1>1 DEF add_data, At
  <2>2. \/ \E pc, q : Goto(a, pc, q) \/ Return(a)
        \/ a = Owner /\ act' = [act EXCEPT ![a] = [Idle EXCEPT !.pc = "fill", !.n = act[a].n]]
    BY <1>1 DEF add_data, Wild, Added
  <2> QED
    BY <2>1, <2>2, <1>0, Moves DEF ServiceShape
<1>2. CASE add_tail(a)
  <2>1. UNCHANGED <<output, arp>> /\ act[a].pc # "arp_mac"
    BY <1>2 DEF add_tail, At
  <2>2. \/ Return(a)
        \/ act' = [act EXCEPT ![a].pc = "add_load", ![a].buf = 0]
    BY <1>2 DEF add_tail, Wild
  <2>3. CASE act' = [act EXCEPT ![a].pc = "add_load", ![a].buf = 0]
    BY <2>1, <2>3, <1>0 DEF ServiceShape
  <2> QED
    BY <2>1, <2>2, <2>3, Moves
<1>3. CASE rem_data(a)
  <2>1. UNCHANGED <<output, arp>> /\ act[a].pc # "arp_mac"
    BY <1>3 DEF rem_data, At
  <2>2. \/ Return(a)
        \/ act' = [act EXCEPT ![a].pc = "rem_head", ![a].buf = Q(a).data[Q(a).head]]
    BY <1>3 DEF rem_data, Wild
  <2>3. CASE act' = [act EXCEPT ![a].pc = "rem_head", ![a].buf = Q(a).data[Q(a).head]]
    BY <2>1, <2>3, <1>0 DEF ServiceShape
  <2> QED
    BY <2>1, <2>2, <2>3, Moves
<1>4. CASE rem_head(a)
  <2>1. UNCHANGED <<output, arp>> /\ act[a].pc # "arp_mac"
    BY <1>4 DEF rem_head, At
  <2>2. Goto(a, "rem_load", act[a].q) \/ Return(a)
    BY <1>4 DEF rem_head, Wild
  <2> QED
    BY <2>1, <2>2, Moves
<1>5. CASE load_elem(a)
  <2>1. UNCHANGED <<output, arp>> /\ act[a].pc # "arp_mac"
    BY <1>5 DEF load_elem, At
  <2>2. \/ Return(a)
        \/ \E pc : act' = [act EXCEPT ![a].pc = pc, ![a].reg = Q(a).elem]
    BY <1>5 DEF load_elem, Wild
  <2>3. ASSUME NEW pc, act' = [act EXCEPT ![a].pc = pc, ![a].reg = Q(a).elem]
        PROVE  ServiceShape' /\ (a = Owner => act'[Service] = act[Service])
    BY <2>3, <1>0 DEF ServiceShape
  <2> QED
    BY <2>1, <2>2, <2>3, Moves
<1>6. CASE store_elem(a)
  <2>1. UNCHANGED <<output, arp>> /\ act[a].pc # "arp_mac"
    BY <1>6 DEF store_elem, At
  <2>2. \/ Return(a)
        \/ act' = [act EXCEPT ![a].pc = "taken", ![a].reg = 0]
        \/ a = Owner /\ act' = [act EXCEPT ![a] = [Idle EXCEPT !.pc = "fill", !.n = act[a].n]]
    BY <1>6 DEF store_elem, Wild, Added
  <2>3. CASE act' = [act EXCEPT ![a].pc = "taken", ![a].reg = 0]
    BY <2>1, <2>3, <1>0 DEF ServiceShape
  <2> QED
    BY <2>1, <2>2, <2>3, <1>0, Moves DEF ServiceShape
<1> QED
  BY <1>1, <1>2, <1>3, <1>4, <1>5, <1>6 DEF QueueStep

(* The owner's calls leave the service where it is. *)
LEMMA OwnerApart ==
    ASSUME ServiceShape,
           \/ hf_uudp_create \/ create_queue \/ create_buffer
           \/ hf_uudp_recv \/ recv_copy
           \/ hf_uudp_destroy \/ drain \/ free_buffer \/ unlist
    PROVE  Apart /\ ServiceShape'
<1>0. Owner # Service
  BY NetAssumption
<1>1. UNCHANGED <<output, arp>>
  BY DEF hf_uudp_create, create_queue, create_buffer, hf_uudp_recv, recv_copy, hf_uudp_destroy, drain,
         free_buffer, unlist
<1>2. DOMAIN act' = DOMAIN act /\ act'[Service] = act[Service]
  <2>1. CASE hf_uudp_create
    BY <2>1, <1>0 DEF hf_uudp_create, Goto, ServiceShape
  <2>2. CASE create_queue
    BY <2>2, <1>0 DEF create_queue, Goto, Return, ServiceShape
  <2>3. CASE create_buffer
    BY <2>3, <1>0 DEF create_buffer, Goto, Return, ServiceShape
  <2>4. CASE hf_uudp_recv
    BY <2>4, <1>0 DEF hf_uudp_recv, Goto, ServiceShape
  <2>5. CASE recv_copy
    BY <2>5, <1>0 DEF recv_copy, Goto, Return, ServiceShape
  <2>6. CASE hf_uudp_destroy
    BY <2>6, <1>0 DEF hf_uudp_destroy, Goto, ServiceShape
  <2>7. CASE drain
    BY <2>7, <1>0 DEF drain, Goto, ServiceShape
  <2>8. CASE free_buffer
    BY <2>8, <1>0 DEF free_buffer, Wild, Return, ServiceShape
  <2>9. CASE unlist
    BY <2>9, <1>0 DEF unlist, Return, ServiceShape
  <2> QED
    BY <2>1, <2>2, <2>3, <2>4, <2>5, <2>6, <2>7, <2>8, <2>9
<1> QED
  BY <1>1, <1>2 DEF Apart, ServiceShape

(* None of the endpoint's steps touches the output or the ARP cache, or    *)
(* ends the rewriting of an entry.                                         *)
LEMMA EndpointApart ==
    ASSUME ServiceShape, EndpointStep
    PROVE  Apart /\ ServiceShape'
<1>1. CASE udp_in
  <2>1. UNCHANGED <<output, arp>> /\ act[Service].pc # "arp_mac"
    BY <1>1 DEF udp_in, ustack_service, At
  <2>2. Goto(Service, "rem", "free_buffers") \/ act' = act
    BY <1>1 DEF udp_in
  <2> QED
    BY <2>1, <2>2, Moves DEF Apart, ServiceShape
<1>2. CASE udp_callback
  <2>1. UNCHANGED <<output, arp>> /\ act[Service].pc # "arp_mac"
    BY <1>2 DEF udp_callback, At
  <2>2. Goto(Service, "add", "pkt_queue") \/ Return(Service)
    BY <1>2 DEF udp_callback, Wild
  <2> QED
    BY <2>1, <2>2, Moves DEF Apart
<1> QED
  BY <1>1, <1>2, QueueStepApart, OwnerApart DEF EndpointStep

-----------------------------------------------------------------------------
(* The invariant survives a step that is apart from it. *)
LEMMA ApartKeeps ==
    ASSUME OutputInv, Apart, ServiceShape'
    PROVE  OutputInv'
<1>1. OutputType' /\ LockInv' /\ SendsOwnPayload'
  BY DEF OutputInv, Apart, output, arp, OutputType, LockInv, SendsOwnPayload
<1>2. ArpSound'
  BY DEF OutputInv, Apart, arp, ArpSound
<1> QED
  BY <1>1, <1>2 DEF OutputInv

(* arp_update(): the address of an entry is written, and from then on the  *)
(* entry is excused until arp_mac().  An address that is already in the    *)
(* cache is not written again, so no two entries have the same.            *)
LEMMA ArpUpdateKeeps ==
    ASSUME OutputInv, NEW host \in Hosts, arp_update(host)
    PROVE  OutputInv'
<1>1. PICK i \in Entries :
         /\ IF \E j \in Entries : arp_cache[j].ip = host
            THEN arp_cache[i].ip = host /\ UNCHANGED arp
            ELSE /\ i = arp_index
                 /\ arp_cache' = [arp_cache EXCEPT ![i].ip = host]
                 /\ arp_index' = (arp_index + 1) % ARP_CACHE_SIZE
         /\ act' = [act EXCEPT ![Service].pc = "arp_mac", ![Service].reg = i]
  BY DEF arp_update
<1>2. act[Service].pc = "idle" /\ UNCHANGED output
  BY DEF arp_update, ustack_service, At
<1>3. ServiceShape' /\ act'[Service].pc = "arp_mac" /\ act'[Service].reg = i
  BY <1>1 DEF OutputInv, ServiceShape
<1>4. \A k \in Entries : arp_cache[k].ip # Nobody =>
         /\ \A j \in Entries : arp_cache[j].ip = arp_cache[k].ip => j = k
         /\ arp_cache[k].mac = arp_cache[k].ip
  BY <1>2 DEF OutputInv, ArpSound
<1>5. CASE \E j \in Entries : arp_cache[j].ip = host
  BY <1>1, <1>2, <1>3, <1>4, <1>5
     DEF OutputInv, output, arp, OutputType, LockInv, SendsOwnPayload, ArpSound
<1>6. CASE ~ \E j \in Entries : arp_cache[j].ip = host
  <2>1. arp_cache' = [arp_cache EXCEPT ![i].ip = host]
    BY <1>1, <1>6
  <2>2. arp_cache \in [Entries -> [ip : Address, mac : Address]] /\ host \in Address
    BY DEF OutputInv, OutputType, Address
  <2>3. arp_cache' \in [Entries -> [ip : Address, mac : Address]]
    BY <2>1, <2>2
  <2>4. /\ arp_cache'[i].ip = host
        /\ \A k \in Entries \ {i} : arp_cache'[k] = arp_cache[k]
    BY <2>1, <2>2
  <2>5. ArpSound'
    BY <1>3, <1>4, <1>6, <2>4 DEF ArpSound
  <2> QED
    BY <1>2, <1>3, <2>3, <2>5 DEF OutputInv, output, OutputType, LockInv, SendsOwnPayload
<1> QED
  BY <1>5, <1>6

(* The hardware address follows, and the entry is sound again. *)
LEMMA ArpMacKeeps ==
    ASSUME OutputInv, arp_mac
    PROVE  OutputInv'
<1> DEFINE i == act[Service].reg
<1>1. /\ act[Service].pc = "arp_mac" /\ UNCHANGED output
      /\ arp_cache' = [arp_cache EXCEPT ![i].mac = arp_cache[i].ip]
      /\ Return(Service)
  BY DEF arp_mac, At
<1> HIDE DEF i
<1>2. arp_cache \in [Entries -> [ip : Address, mac : Address]]
  BY DEF OutputInv, OutputType
<1>3. arp_cache' \in [Entries -> [ip : Address, mac : Address]]
  BY <1>1, <1>2
<1>4. /\ \A k \in Entries : arp_cache'[k].ip = arp_cache[k].ip
      /\ \A k \in Entries \ {i} : arp_cache'[k].mac = arp_cache[k].mac
      /\ i \in Entries => arp_cache'[i].mac = arp_cache[i].ip
  BY <1>1, <1>2
<1>5. \A k \in Entries \ {i} : arp_cache[k].ip # Nobody => arp_cache[k].mac = arp_cache[k].ip
  BY DEF OutputInv, ArpSound, i
<1>6. \A k, j \in Entries : arp_cache[k].ip # Nobody /\ arp_cache[j].ip = arp_cache[k].ip => j = k
  BY DEF OutputInv, ArpSound
<1>7. ArpSound'
  BY <1>4, <1>5, <1>6 DEF ArpSound
<1>8. ServiceShape'
  BY <1>1, Moves DEF OutputInv
<1> QED
  BY <1>1, <1>3, <1>7, <1>8 DEF OutputInv, output, OutputType, LockInv, SendsOwnPayload

-----------------------------------------------------------------------------
(* The steps of hf_uudp_send(). *)
SendStep(t) == hf_uudp_send(t) \/ send_copy(t) \/ udp_out(t) \/ netif_send(t) \/ en_ll_output(t) \/ send_return(t)

(* Sending changes neither the ARP cache nor what the service does. *)
LEMMA SendKeepsArp ==
    ASSUME OutputInv, NEW t \in Senders, SendStep(t)
    PROVE  UNCHANGED <<act, arp>> /\ ServiceShape' /\ ArpSound'
<1>1. UNCHANGED <<act, arp>>
  BY DEF SendStep, hf_uudp_send, send_copy, udp_out, netif_send, en_ll_output, send_return, KeepEndpoint
<1> QED
  BY <1>1 DEF OutputInv, ServiceShape, ArpSound, arp

(* The call takes the lock, fills the frame, sends it and gives the lock   *)
(* back; no other task is inside meanwhile.                                *)
LEMMA SendKeeps ==
    ASSUME OutputInv, NEW t \in Senders, SendStep(t)
    PROVE  OutputInv'
<1> SUFFICES OutputType' /\ LockInv' /\ SendsOwnPayload'
  BY SendKeepsArp DEF OutputInv
<1> USE DEF OutputInv
<1>0. /\ sending \in [Senders -> [pc : SendPlaces, tries : Nat, entry : Int, done : Nat]]
      /\ frame_out \in [payload : Senders \cup {Nobody}, ip : Address]
      /\ arp_cache' = arp_cache
      /\ HostOf[t] \in Address
  BY SendKeepsArp DEF OutputType, arp, Address, Hosts
<1>1. CASE hf_uudp_send(t)
  <2>1. sending' = [sending EXCEPT ![t].pc = "copy"] /\ uudplock' = TRUE /\ UNCHANGED <<frame_out, sent>>
        /\ ~uudplock
    BY <1>1 DEF hf_uudp_send, SendGoto
  <2>2. OutputType'
    BY <1>0, <2>1 DEF OutputType, SendPlaces
  <2>3. LockInv' /\ SendsOwnPayload'
    BY <1>0, <2>1 DEF LockInv, SendsOwnPayload
  <2> QED
    BY <2>2, <2>3
<1>2. CASE send_copy(t)
  <2>1. sending' = [sending EXCEPT ![t].pc = "out"] /\ sending[t].pc = "copy"
        /\ frame_out' = [frame_out EXCEPT !.payload = t] /\ UNCHANGED <<uudplock, sent>>
    BY <1>2 DEF send_copy, SendGoto, Sending
  <2>2. OutputType'
    BY <1>0, <2>1 DEF OutputType, SendPlaces
  <2>3. LockInv' /\ SendsOwnPayload'
    BY <1>0, <2>1 DEF LockInv, SendsOwnPayload
  <2> QED
    BY <2>2, <2>3
<1>3. CASE udp_out(t)
  <2>1. sending' = [sending EXCEPT ![t].pc = "check"] /\ sending[t].pc = "out"
        /\ frame_out' = [frame_out EXCEPT !.ip = HostOf[t]] /\ UNCHANGED <<uudplock, sent>>
    BY <1>3 DEF udp_out, ip_out, SendGoto, Sending
  <2>2. OutputType'
    BY <1>0, <2>1 DEF OutputType, SendPlaces
  <2>3. LockInv' /\ SendsOwnPayload'
    BY <1>0, <2>1 DEF LockInv, SendsOwnPayload
  <2> QED
    BY <2>2, <2>3
<1>4. CASE netif_send(t)
  <2>1. sending[t].pc = "check" /\ UNCHANGED <<uudplock, sent>>
    BY <1>4 DEF netif_send, Sending
  <2>2. \/ /\ \E i \in Entries : sending' = [sending EXCEPT ![t].pc = "mac", ![t].entry = i]
           /\ UNCHANGED frame_out
        \/ /\ frame_out' = [frame_out EXCEPT !.ip = Nobody]
           /\ \E pc \in {"out", "unlock"} :
                 sending' = [sending EXCEPT ![t].pc = pc, ![t].tries = sending[t].tries + 1]
    BY <1>4 DEF netif_send, arp_request
  <2>3. ASSUME NEW i \in Entries, sending' = [sending EXCEPT ![t].pc = "mac", ![t].entry = i],
               UNCHANGED frame_out
        PROVE  OutputType' /\ LockInv' /\ SendsOwnPayload'
    <3>0. i \in Int
      BY NetAssumption DEF Entries
    <3>1. OutputType'
      BY <1>0, <2>3, <3>0 DEF OutputType, SendPlaces
    <3>2. LockInv' /\ SendsOwnPayload'
      BY <1>0, <2>1, <2>3 DEF LockInv, SendsOwnPayload
    <3> QED
      BY <3>1, <3>2
  <2>4. ASSUME NEW pc \in {"out", "unlock"}, frame_out' = [frame_out EXCEPT !.ip = Nobody],
               sending' = [sending EXCEPT ![t].pc = pc, ![t].tries = sending[t].tries + 1]
        PROVE  OutputType' /\ LockInv' /\ SendsOwnPayload'
    <3>1. OutputType'
      BY <1>0, <2>4 DEF OutputType, SendPlaces, Address
    <3>2. LockInv' /\ SendsOwnPayload'
      BY <1>0, <2>1, <2>4 DEF LockInv, SendsOwnPayload
    <3> QED
      BY <3>1, <3>2
  <2> QED
    BY <2>2, <2>3, <2>4
<1>5. CASE en_ll_output(t)
  <2>1. sending' = [sending EXCEPT ![t].pc = "unlock"] /\ sending[t].pc = "mac"
        /\ UNCHANGED <<uudplock, frame_out>>
    BY <1>5 DEF en_ll_output, SendGoto, Sending
  <2>2. sent'.by = t /\ sent'.payload = frame_out.payload /\ sent'.ip = frame_out.ip
    BY <1>5 DEF en_ll_output
  <2>3. OutputType'
    BY <1>0, <2>1 DEF OutputType, SendPlaces
  <2>4. LockInv'
    BY <1>0, <2>1 DEF LockInv
  <2>5. SendsOwnPayload'
    BY <2>1, <2>2 DEF LockInv, SendsOwnPayload
  <2> QED
    BY <2>3, <2>4, <2>5
<1>6. CASE send_return(t)
  <2>1. sending' = [sending EXCEPT ![t] = [pc |-> "idle", tries |-> 0, entry |-> 0,
                                           done |-> sending[t].done + 1]]
        /\ sending[t].pc = "unlock" /\ UNCHANGED <<frame_out, sent>>
    BY <1>6 DEF send_return, Sending
  <2>2. OutputType'
    BY <1>0, <2>1 DEF OutputType, SendPlaces
  <2>3. LockInv' /\ SendsOwnPayload'
    BY <1>0, <2>1 DEF LockInv, SendsOwnPayload
  <2> QED
    BY <2>2, <2>3
<1> QED
  BY <1>1, <1>2, <1>3, <1>4, <1>5, <1>6 DEF SendStep

-----------------------------------------------------------------------------
(* The invariant is kept by every step. *)
LEMMA OutputNext == OutputInv /\ [Next]_vars => OutputInv'
<1> SUFFICES ASSUME OutputInv, [Next]_vars PROVE OutputInv'
  OBVIOUS
<1>1. CASE UNCHANGED vars
  <2>1. Apart /\ ServiceShape'
    BY <1>1 DEF vars, Apart, OutputInv, ServiceShape
  <2> QED
    BY <2>1, ApartKeeps
<1>2. CASE EndpointStep
  BY <1>2, EndpointApart, ApartKeeps DEF OutputInv
<1>3. CASE \E host \in Hosts : arp_update(host)
  BY <1>3, ArpUpdateKeeps
<1>4. CASE arp_mac
  BY <1>4, ArpMacKeeps
<1>5. CASE \E t \in Senders : SendStep(t)
  BY <1>5, SendKeeps
<1> QED
  BY <1>1, <1>2, <1>3, <1>4, <1>5 DEF Next, EndpointStep, SendStep

(* Whatever interleaving of the senders, the owner and the service: a      *)
(* datagram on the wire is the payload of one call with the address that   *)
(* call gave, and the ARP cache holds no host twice and no wrong address   *)
(* except in the entry being written (hf_uudp_send, netif_send,            *)
(* arp_update).                                                            *)
THEOREM NetOutputSound == Spec => []OutputSound
<1>1. OutputInv => OutputSound
  BY DEF OutputInv, OutputSound
<1> QED
  BY OutputInit, OutputNext, <1>1, PTL DEF Spec
=============================================================================
