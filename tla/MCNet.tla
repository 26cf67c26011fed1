-------------------------------- MODULE MCNet --------------------------------
(* Three hosts and two entries in the ARP cache, so that answers evict each *)
(* other.  Sending and receiving share nothing but the service task, which  *)
(* handles one frame at a time: a behaviour is followed until it does both. *)
EXTENDS Net, TLC

MCHostOf == "a" :> "hostA" @@ "b" :> "hostB" @@ "c" :> "hostC"

OneWay ==
    \/ life = "none" /\ arrived = 0
    \/ /\ \A i \in Entries : arp_cache[i].ip = Nobody
       /\ \A t \in Senders : sending[t].done = 0 /\ sending[t].pc = "idle"
=============================================================================
