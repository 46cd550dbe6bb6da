------------------------------ MODULE HeapLog ------------------------------
(***************************************************************************)
(* What the recorder promises whoever analyses its output: an append-only  *)
(* log of heap events, cut into operations, of which at worst all entries  *)
(* of the current operation get lost at once; and an export file that is   *)
(* at every moment a beginning of the log, and a copy of all of it when it *)
(* is closed with END.                                                     *)
(*                                                                         *)
(*   trace  one sequence of entries per operation ("init" is the first)    *)
(*   file   what is on disk of the log, <<>> when there is no export       *)
(*   whole  whether the file has its END                                   *)
(***************************************************************************)
EXTENDS Naturals, Sequences

VARIABLES trace, file, whole

vars == <<trace, file, whole>>

Init == trace = << <<>> >> /\ file = <<>> /\ whole = FALSE

(* The log as it is, or without the entries of the current operation. *)
Kept == {trace, [trace EXCEPT ![Len(trace)] = <<>>]}

(* The current operation gains exactly one entry, at its end; the finished *)
(* operations are never touched again.                                     *)
Log ==
  LET n == Len(trace) IN
  /\ Len(trace') = n
  /\ \A i \in 1..n-1 : trace'[i] = trace[i]
  /\ Len(trace'[n]) = Len(trace[n]) + 1
  /\ \A k \in 1..Len(trace[n]) : trace'[n][k] = trace[n][k]
  /\ UNCHANGED <<file, whole>>

Lose == trace' \in Kept /\ UNCHANGED <<file, whole>>

(* A new, empty operation becomes the current one. *)
Begin == (\E t \in Kept : trace' = Append(t, <<>>)) /\ UNCHANGED <<file, whole>>

(* An export first empties the file, ... *)
Truncate == trace' \in Kept /\ file' = <<>> /\ whole' = FALSE

(* ... then writes operation after operation, entry after entry, ... *)
Write ==
  /\ UNCHANGED <<trace, whole>>
  /\ LET n == Len(file) IN
     \/ /\ n < Len(trace) /\ (n # 0 => file[n] = trace[n])
        /\ file' = Append(file, <<>>)
     \/ /\ n # 0 /\ Len(file[n]) < Len(trace[n])
        /\ file' = [file EXCEPT ![n] = Append(@, trace[n][Len(@) + 1])]

(* ... and closes it when all of the log is there. *)
Close == file = trace /\ whole' = TRUE /\ UNCHANGED <<trace, file>>

Next == Log \/ Lose \/ Begin \/ Truncate \/ Write \/ Close

Spec == Init /\ [][Next]_vars

=============================================================================
