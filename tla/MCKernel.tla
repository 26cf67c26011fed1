------------------------------ MODULE MCKernel ------------------------------
(* Scenarios for Kernel. *)
EXTENDS Kernel

(* Best effort tasks and real-time tasks of two periods. *)
SpawnArgs == {<<0, 0, 0>>, <<2, 1, 2>>, <<3, 1, 3>>}

(* Best effort tasks only. *)
BestEffortArgs == {<<0, 0, 0>>}

(* Best effort tasks and a real-time task that leaves them two thirds. *)
LightArgs == {<<0, 0, 0>>, <<3, 1, 3>>}

(* A real-time task with a deadline before the end of its period. *)
ShortDeadlineArgs == {<<4, 1, 2>>}
=============================================================================
