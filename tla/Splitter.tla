------------------------------ MODULE Splitter ------------------------------
(***************************************************************************)
(* src/refinery/split.py: one recording of several processes is split into *)
(* one file for each process. A line names the process it belongs to, or   *)
(* none (pid 0 or no " @ pid" at all: settings, and what the user added at *)
(* the console); a FORK line gives the child what its parent has done.     *)
(*                                                                         *)
(* The recording is one that the manager can have exported: the actions of *)
(* the section "The recording" stand for it. A program image that uses     *)
(* libraries is exported on several lines, of which only the last has the  *)
(* pid (export_newexec, followed by the " @ pid" of export).               *)
(*                                                                         *)
(* A definition named Faulty... is what the definition after it would be   *)
(* with a plausible bug in the code: no part of the specification.         *)
(***************************************************************************)
EXTENDS Naturals, Sequences, FiniteSets, SequencesExt

CONSTANTS
  Procs,      \* processes of the recording
  Nobody,     \* the pid 0
  MaxLibs,    \* bound: libraries of an image
  MaxLines    \* bound: lines in the recording

ASSUME SplitterAssumption ==
  Nobody \notin Procs /\ MaxLibs \in Nat /\ MaxLines \in Nat

VARIABLES
  recording,  \* the exported file
  born,       \* the processes there are
  unreported, \* the parent of each child whose FORK line is not there yet
  next,       \* the next line to split, 0 while recording
  split,      \* self.split: line numbers for the pids seen and for 0
  failed      \* an assertion has ended the splitter

vars == <<recording, born, unreported, next, split, failed>>

Pids == Procs \cup {Nobody}

(* pid: what the line says; owner: the process it is about (history);       *)
(* child: of a FORK line.                                                   *)
Line(kind, pid, owner, child) ==
  [kind |-> kind, pid |-> pid, owner |-> owner, child |-> child]

Lines == [kind : {"event", "image", "dynamic", "FORK"}, pid : Pids, owner : Pids, child : Pids]

(* Type correctness: what the splitter has given to a process are lines of  *)
(* the recording, and the entry for nobody is always there.                 *)
TypeOK ==
  /\ recording \in Seq(Lines)
  /\ born \subseteq Procs
  /\ DOMAIN unreported \subseteq born /\ Range(unreported) \subseteq born
  /\ next \in 0..(Len(recording) + 1)
  /\ Nobody \in DOMAIN split /\ DOMAIN split \subseteq Pids
  /\ \A p \in DOMAIN split : split[p] \in Seq(1..Len(recording))
  /\ failed \in BOOLEAN

-----------------------------------------------------------------------------
(* The recording. *)

Log(new) ==
  /\ next = 0 /\ Len(recording) + Len(new) <= MaxLines
  /\ recording' = recording \o new
  /\ UNCHANGED <<next, split, failed>>

(* A process in fork() does nothing before it has reported its child.       *)
Active(p) == p \in born /\ p \notin Range(unreported)

(* The records of some events have lost the pid (mgr_realloc, mgr_memalign, *)
(* mgr_custom).                                                             *)
Event(p) ==
  /\ Active(p)
  /\ \E pid \in {p, Nobody} : Log(<<Line("event", pid, p, Nobody)>>)
  /\ UNCHANGED <<born, unreported>>

Command ==
  /\ Log(<<Line("event", Nobody, Nobody, Nobody)>>)
  /\ UNCHANGED <<born, unreported>>

(* A program image: of a process there is, or of a new one. The last of its *)
(* lines has the pid of its record, which mgr_newexec does not set for a    *)
(* binary without main.                                                     *)
Image(p) ==
  /\ Active(p) \/ p \notin born
  /\ born' = born \cup {p}
  /\ \E libs \in 0..MaxLibs, pid \in {p, Nobody} :
       Log([i \in 1..(libs + 1) |->
              Line(IF i = 1 THEN "image" ELSE "dynamic",
                   IF i = libs + 1 THEN pid ELSE Nobody, p, Nobody)])
  /\ UNCHANGED unreported

(* The child runs at once; the parent's report may come after its events.   *)
Fork(p, c) ==
  /\ next = 0 /\ Active(p) /\ c \notin born
  /\ born' = born \cup {c}
  /\ unreported' = [q \in DOMAIN unreported \cup {c} |-> IF q = c THEN p ELSE unreported[q]]
  /\ UNCHANGED <<recording, next, split, failed>>

ReportFork(c) ==
  /\ c \in DOMAIN unreported
  /\ Log(<<Line("FORK", unreported[c], unreported[c], c)>>)
  /\ unreported' = [q \in DOMAIN unreported \ {c} |-> unreported[q]]
  /\ UNCHANGED born

Save ==
  /\ next = 0
  /\ next' = 1
  /\ UNCHANGED <<recording, born, unreported, split, failed>>

-----------------------------------------------------------------------------
(* The splitter. *)

FaultyWith(pid) == [p \in DOMAIN split \cup {pid} |-> IF p \in DOMAIN split THEN split[p] ELSE <<>>]

(* A pid seen for the first time starts with the lines for everybody.       *)
With(pid) ==
  [p \in DOMAIN split \cup {pid} |-> IF p \in DOMAIN split THEN split[p] ELSE split[Nobody]]

(* A line for one process. *)
Own(line) == [With(line.pid) EXCEPT ![line.pid] = Append(@, next)]

FaultyEverybody == [p \in DOMAIN split |-> Append(split[p], next + 1)]

(* A line without a pid, or with pid 0: for everybody seen so far.          *)
Everybody == [p \in DOMAIN split |-> Append(split[p], next)]

FaultyForked(line) == [p \in DOMAIN With(line.pid) \cup {line.child} |->
  IF p = line.child THEN With(line.child)[p] ELSE With(line.pid)[p]]

(* The child starts with what its parent has. *)
Forked(line) ==
  LET known == With(line.pid)
  IN [p \in DOMAIN known \cup {line.child} |->
        IF p = line.child THEN known[line.owner] ELSE known[p]]

FaultyFails(line) == line.child \in DOMAIN split \/ line.pid \notin DOMAIN split

(* assert(child not in self.split) *)
Fails(line) == line.child \in DOMAIN split

ParseLine ==
  /\ next \in 1..Len(recording) /\ ~failed
  /\ LET line == recording[next] IN
       \/ /\ line.kind = "FORK" /\ Fails(line)
          /\ failed' = TRUE
          /\ UNCHANGED <<split, next>>
       \/ /\ line.kind = "FORK" /\ ~Fails(line)
          /\ split' = Forked(line) /\ next' = next + 1
          /\ UNCHANGED failed
       \/ /\ line.kind # "FORK"
          /\ split' = IF line.pid = Nobody THEN Everybody ELSE Own(line)
          /\ next' = next + 1
          /\ UNCHANGED failed
  /\ UNCHANGED <<recording, born, unreported>>

Init ==
  /\ recording = <<>> /\ born = {} /\ unreported = <<>>
  /\ next = 0 /\ split = [p \in {Nobody} |-> <<>>] /\ failed = FALSE

Next ==
  \/ \E p \in Procs : Event(p) \/ Image(p) \/ ReportFork(p) \/ \E c \in Procs : Fork(p, c)
  \/ Command \/ Save \/ ParseLine

Spec == Init /\ [][Next]_vars

-----------------------------------------------------------------------------
(* Properties. *)

ForkLines(p) == {i \in 1..(next - 1) : recording[i].kind = "FORK" /\ recording[i].child = p}

Has(file, i) == \E k \in 1..Len(file) : file[k] = i

(* The lines of p are its own and what the user added; before its FORK line *)
(* p was its parent, and they are those its parent has.                     *)
Belongs(p, i) ==
  IF \A f \in ForkLines(p) : f < i
  THEN recording[i].kind # "FORK" /\ recording[i].owner \in {Nobody, p}
  ELSE \E f \in ForkLines(p) : Has(split[recording[f].owner], i)

(* Lines about a process that do not say about which. *)
Anonymous(i) == recording[i].owner # Nobody /\ recording[i].pid = Nobody

Seen == (UNION {{recording[i].pid, recording[i].child} : i \in 1..(next - 1)}) \ {Nobody}

(* At every line read, each process that did something or was forked has a  *)
(* file, and it holds its own lines, those of its ancestors up to each      *)
(* fork, and what the user added, in the order of the recording and each    *)
(* once; lines that should carry a pid and do not aside.                    *)
SplitByPid ==
  \A p \in Seen :
    /\ p \in DOMAIN split
    /\ \A k \in 1..Len(split[p]) : split[p][k] \in 1..(next - 1)
    /\ \A k, l \in 1..Len(split[p]) : k < l => split[p][k] < split[p][l]
    /\ \A i \in 1..(next - 1) : ~Anonymous(i) => (Has(split[p], i) <=> Belongs(p, i))

(* The assertion on a FORK line fails exactly where the child was heard of  *)
(* before its parent reported it: the splitter gets through every recording *)
(* in which that order was kept.                                            *)
FailsIfLate ==
  failed =>
    /\ recording[next].kind = "FORK"
    /\ \E i \in 1..(next - 1) : recording[i].pid = recording[next].child
=============================================================================
