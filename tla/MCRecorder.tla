----------------------------- MODULE MCRecorder -----------------------------
(* Instances of Recorder for TLC. *)
EXTENDS Recorder

CONSTANTS p1, p2, p3, l1, l2, l3

OneProcess == {p1}
TwoProcesses == {p1, p2}
ThreeProcesses == {p1, p2, p3}
OneLibrary == {l1}
TwoLibraries == {l1, l2}
ThreeLibraries == {l1, l2, l3}

Interchangeable == Permutations(Procs) \cup Permutations(Libs)

(* One traced process and the console: operations, exports, memory that     *)
(* runs out, a file that cannot be opened, a manager that is killed.        *)
LogTraffic == {"NEWEXEC", "EXTERNAL", "FREE", "CUSTOM", "next", "set", "outfile",
               "save", "many", "KILL"}

(* Families of processes that load libraries, fork and exec, and somebody   *)
(* who types the words of the preload library at the console.               *)
ExecTraffic == {"NEWEXEC", "nomain", "EXTERNAL", "FORK", "TYPED", "bare"}

(* Few kinds of message, for the temporal properties.                       *)
LiveTraffic == {"NEWEXEC", "REALLOC", "digit", "FREE", "CUSTOM", "null", "next", "set",
                "outfile", "save", "#", "other", "QUIT", "EXIT"}

TableTraffic == {"next", "NEWEXEC", "MALLOC"}
=============================================================================
