------------------------------- MODULE MCHeap -------------------------------
(* Arguments for Heap. *)
EXTENDS Heap

SmallArrays == {<<2, 5>>}
=============================================================================
