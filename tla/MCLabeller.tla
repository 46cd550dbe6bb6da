----------------------------- MODULE MCLabeller -----------------------------
(* Instances of Labeller for TLC. *)
EXTENDS Labeller

CONSTANTS a1, a2

TwoAddresses == {a1, a2}
Interchangeable == Permutations(Addrs)

(* A program on its heap, in several operations and images; what makes an   *)
(* object differs only in what is exported with it.                         *)
HeapTraffic == {"MALLOC", "REALLOC", "FREE", "NEXT", "PROCESS_START", "unseen", "fails"}

(* Marks among the steps that make and move objects. *)
MarkTraffic == {"MALLOC", "CALLOC", "MEMALIGN", "REALLOC", "NEXT", "END", "BUGGED", "TARGET"}
=============================================================================
