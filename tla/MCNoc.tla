------------------------------- MODULE MCNoc --------------------------------
(* Two senders on cores of their own, each with its channel, and one       *)
(* receiver.                                                               *)
EXTENDS Noc

CONSTANTS s1, s2, r

MCTasks == {s1, s2, r}
MCCoreOf == [t \in MCTasks |-> CASE t = s1 -> 1 [] t = s2 -> 2 [] t = r -> 0]
MCPortOf == [t \in MCTasks |-> CASE t = s1 -> 11 [] t = s2 -> 12 [] t = r -> 10]
MCTargetOf == [t \in {s1, s2} |-> r]
MCChannelOf == [t \in {s1, s2} |-> IF t = s1 THEN 1 ELSE 2]
MCMessagesOf == [t \in {s1, s2} |-> IF t = s1 THEN 2 ELSE 1]
MCPacketsArg == [t \in MCTasks |-> CASE t = s1 -> 1 [] t = s2 -> 0 [] t = r -> 4]
MCReceives == [t \in {r} |-> <<1, 2>>]

(* The pools and the queues have the room that FlowControlled takes. *)
ASSUME RoomAssumption == PoolsSuffice /\ QueuesSuffice
=============================================================================
