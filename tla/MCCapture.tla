----------------------------- MODULE MCCapture -----------------------------
(* Instances of Capture for TLC. *)
EXTENDS Capture, TLC

CONSTANTS t1, t2, a1, l1, l2

TwoThreads == {t1, t2}
OneAddress == {a1}
OneLibrary == {l1}
TwoLibraries == {l1, l2}

Interchangeable ==
  Permutations(Threads) \cup Permutations(Libs)

AllCalls == CallKinds \cup {"mallopt"}
LiveCalls == {"malloc", "reallocarray", "mallopt", "fork"}

RareCalls == CallKinds \ {"malloc", "free", "fork"}

SomeLossy == {"EXTERNAL", "MALLOC"}
NoneLossy == {}
=============================================================================
