----------------------------- MODULE MCSplitter -----------------------------
(* Instances of Splitter for TLC. *)
EXTENDS Splitter

CONSTANTS p1, p2, p3

TwoProcesses == {p1, p2}
ThreeProcesses == {p1, p2, p3}
Interchangeable == Permutations(Procs)
=============================================================================
