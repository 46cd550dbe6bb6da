--------------------------- MODULE SplitterProofs ---------------------------
(***************************************************************************)
(* Theorems about Splitter, for any processes, libraries and recordings:   *)
(* type correctness, that the assertion of the splitter fails only where a *)
(* process was heard of before its parent reported it, and that each file  *)
(* holds the lines of its process.                                         *)
(***************************************************************************)
EXTENDS Splitter, SequenceTheorems, TLAPS

USE SplitterAssumption

IsFork(i) == recording[i].kind = "FORK"

(* A FORK line is about its sender, and its child has been reported by it.  *)
ForksReported ==
  \A i \in 1..Len(recording) : IsFork(i) =>
    /\ recording[i].pid = recording[i].owner /\ recording[i].pid \in Procs
    /\ recording[i].child \in born \ DOMAIN unreported

(* No process is reported as a child twice. *)
ForkedOnce ==
  \A i, j \in 1..Len(recording) :
    IsFork(i) /\ IsFork(j) /\ recording[i].child = recording[j].child => i = j

(* The splitter knows a process from a line it has read. *)
HeardOf(p) ==
  \E i \in 1..(next - 1) : recording[i].pid = p \/ (IsFork(i) /\ recording[i].child = p)

KnownFromLines == \A p \in DOMAIN split \ {Nobody} : HeardOf(p)

(* It begins with the entry for nobody, and stops at a FORK line of a       *)
(* process it knows.                                                        *)
StartsEmpty == next = 0 => split = [p \in {Nobody} |-> <<>>] /\ ~failed

StopsAtFork == failed => /\ next \in 1..Len(recording) /\ IsFork(next)
                         /\ Fails(recording[next])

IInv == /\ TypeOK /\ ForksReported /\ ForkedOnce
        /\ KnownFromLines /\ StartsEmpty /\ StopsAtFork

-----------------------------------------------------------------------------
(* The recording grows.                                                     *)

(* A sequence grows by an element of its type.                              *)
LEMMA AppendTyped ==
  ASSUME NEW S, NEW s \in Seq(S), NEW x \in S
  PROVE  Append(s, x) \in Seq(S)
OBVIOUS

(* What a longer recording is.                                              *)
LEMMA Longer ==
  ASSUME recording \in Seq(Lines), NEW new \in Seq(Lines), Log(new)
  PROVE  /\ recording' \in Seq(Lines) /\ Len(recording') = Len(recording) + Len(new)
         /\ \A i \in 1..Len(recording) : recording'[i] = recording[i]
         /\ \A i \in 1..Len(recording') \ 1..Len(recording) :
              i - Len(recording) \in 1..Len(new) /\ recording'[i] = new[i - Len(recording)]
         /\ next = 0 /\ next' = 0 /\ split' = split /\ failed' = failed
BY DEF Log

(* While it grows, the splitter has not begun.                              *)
LEMMA NotBegun ==
  ASSUME IInv, next = 0, next' = 0, split' = split, failed' = failed,
         recording' \in Seq(Lines)
  PROVE  /\ KnownFromLines' /\ StartsEmpty' /\ StopsAtFork'
         /\ next' \in 0..(Len(recording') + 1) /\ failed' \in BOOLEAN
         /\ Nobody \in DOMAIN split' /\ DOMAIN split' \subseteq Pids
         /\ \A p \in DOMAIN split' : split'[p] \in Seq(1..Len(recording'))
<1>1. split = [p \in {Nobody} |-> <<>>] /\ ~failed BY DEF IInv, StartsEmpty
<1>2. DOMAIN split' = {Nobody} /\ split'[Nobody] = <<>> BY <1>1
<1>3. Len(recording') \in Nat OBVIOUS
<1>4. <<>> \in Seq(1..Len(recording')) OBVIOUS
<1>5. KnownFromLines' BY <1>2 DEF KnownFromLines
<1>6. StartsEmpty' /\ StopsAtFork' BY <1>1 DEF StartsEmpty, StopsAtFork
<1>7. Nobody \in DOMAIN split' /\ DOMAIN split' \subseteq Pids BY <1>2 DEF Pids
<1>8. \A p \in DOMAIN split' : split'[p] \in Seq(1..Len(recording')) BY <1>2, <1>4
<1>9. next' \in 0..(Len(recording') + 1) BY <1>3
<1>10. failed' \in BOOLEAN BY DEF IInv, TypeOK
<1> QED BY <1>5, <1>6, <1>7, <1>8, <1>9, <1>10

(* Lines other than FORK lines.                                             *)
LEMMA OtherLines ==
  ASSUME IInv, NEW new \in Seq(Lines), Log(new),
         \A k \in 1..Len(new) : new[k].kind # "FORK",
         born \subseteq born', born' \subseteq Procs, unreported' = unreported
  PROVE  IInv'
<1>1. recording \in Seq(Lines) BY DEF IInv, TypeOK
<1>2. \A i \in 1..Len(recording') : recording'[i].kind = "FORK" =>
        i \in 1..Len(recording) /\ recording'[i] = recording[i]
  BY <1>1, Longer
<1>3. ForksReported'
  BY <1>2 DEF IInv, ForksReported, IsFork
<1>4. ForkedOnce'
  BY <1>2 DEF IInv, ForkedOnce, IsFork
<1>5. recording' \in Seq(Lines) /\ next = 0 /\ next' = 0 /\ split' = split /\ failed' = failed
  BY <1>1, Longer
<1>6. born' \subseteq Procs /\ DOMAIN unreported' \subseteq born' /\ Range(unreported') \subseteq born'
  BY DEF IInv, TypeOK
<1> QED BY <1>3, <1>4, <1>5, <1>6, NotBegun DEF IInv, TypeOK

(* A line is a line.                                                        *)
LEMMA LineTyped ==
  ASSUME NEW kind \in {"event", "image", "dynamic", "FORK"},
         NEW pid \in Pids, NEW owner \in Pids, NEW child \in Pids
  PROVE  Line(kind, pid, owner, child) \in Lines /\ Line(kind, pid, owner, child).kind = kind
BY DEF Line, Lines

LEMMA EventStep ==
  ASSUME IInv, NEW p \in Procs, Event(p)
  PROVE  IInv'
<1>1. PICK pid \in {p, Nobody} : Log(<<Line("event", pid, p, Nobody)>>) BY DEF Event
<1>2. Line("event", pid, p, Nobody) \in Lines /\ Line("event", pid, p, Nobody).kind # "FORK"
  BY LineTyped DEF Pids
<1>3. <<Line("event", pid, p, Nobody)>> \in Seq(Lines) BY <1>2
<1>4. \A k \in 1..Len(<<Line("event", pid, p, Nobody)>>) :
        <<Line("event", pid, p, Nobody)>>[k].kind # "FORK"
  BY <1>2
<1>5. born' = born /\ unreported' = unreported /\ born \subseteq Procs
  BY DEF Event, IInv, TypeOK
<1> QED BY <1>1, <1>3, <1>4, <1>5, OtherLines

LEMMA CommandStep ==
  ASSUME IInv, Command
  PROVE  IInv'
<1> DEFINE l == Line("event", Nobody, Nobody, Nobody)
<1>1. Log(<<l>>) BY DEF Command
<1>2. l \in Lines /\ l.kind # "FORK" BY LineTyped DEF Pids
<1> HIDE DEF l
<1>3. <<l>> \in Seq(Lines) /\ \A k \in 1..Len(<<l>>) : <<l>>[k].kind # "FORK" BY <1>2
<1>4. born' = born /\ unreported' = unreported /\ born \subseteq Procs
  BY DEF Command, IInv, TypeOK
<1> QED BY <1>1, <1>3, <1>4, OtherLines

LEMMA ImageStep ==
  ASSUME IInv, NEW p \in Procs, Image(p)
  PROVE  IInv'
<1>1. PICK libs \in 0..MaxLibs, pid \in {p, Nobody} :
        Log([i \in 1..(libs + 1) |->
              Line(IF i = 1 THEN "image" ELSE "dynamic",
                   IF i = libs + 1 THEN pid ELSE Nobody, p, Nobody)])
  BY DEF Image
<1> DEFINE l(i) == Line(IF i = 1 THEN "image" ELSE "dynamic",
                        IF i = libs + 1 THEN pid ELSE Nobody, p, Nobody)
           new == [i \in 1..(libs + 1) |-> l(i)]
<1>2. \A i \in 1..(libs + 1) : l(i) \in Lines /\ l(i).kind # "FORK"
  BY LineTyped DEF Pids
<1>3. libs + 1 \in Nat OBVIOUS
<1> HIDE DEF l
<1>4. new \in Seq(Lines) /\ Len(new) = libs + 1 BY <1>2, <1>3
<1>5. \A k \in 1..Len(new) : new[k].kind # "FORK" BY <1>2, <1>4
<1>6. born' = born \cup {p} /\ unreported' = unreported /\ born \subseteq Procs
  BY DEF Image, IInv, TypeOK
<1>7. Log(new) BY <1>1 DEF l
<1> HIDE DEF new
<1> QED BY <1>4, <1>5, <1>6, <1>7, OtherLines

(* A child is born unreported: no FORK line is about it.                    *)
LEMMA ForkStep ==
  ASSUME IInv, NEW p \in Procs, NEW c \in Procs, Fork(p, c)
  PROVE  IInv'
<1>1. /\ next = 0 /\ p \in born /\ c \notin born /\ born' = born \cup {c}
      /\ unreported' = [q \in DOMAIN unreported \cup {c} |-> IF q = c THEN p ELSE unreported[q]]
      /\ recording' = recording /\ next' = next /\ split' = split /\ failed' = failed
  BY DEF Fork, Active
<1>2. DOMAIN unreported' = DOMAIN unreported \cup {c} BY <1>1
<1>3. Range(unreported') \subseteq born'
  BY <1>1 DEF IInv, TypeOK, Range
<1>4. recording' \in Seq(Lines) BY <1>1 DEF IInv, TypeOK
<1>5. ForksReported' BY <1>1, <1>2 DEF IInv, ForksReported, IsFork
<1>6. ForkedOnce' BY <1>1 DEF IInv, ForkedOnce, IsFork
<1>7. born' \subseteq Procs /\ DOMAIN unreported' \subseteq born'
  BY <1>1, <1>2 DEF IInv, TypeOK
<1> QED BY <1>1, <1>3, <1>4, <1>5, <1>6, <1>7, NotBegun DEF IInv, TypeOK

(* Its FORK line is the only one, because it is unreported until then.      *)
LEMMA ReportForkStep ==
  ASSUME IInv, NEW c \in Procs, ReportFork(c)
  PROVE  IInv'
<1> DEFINE l == Line("FORK", unreported[c], unreported[c], c)
<1>1. /\ c \in DOMAIN unreported /\ Log(<<l>>) /\ born' = born
      /\ unreported' = [q \in DOMAIN unreported \ {c} |-> unreported[q]]
  BY DEF ReportFork
<1>2. unreported[c] \in born /\ c \in born /\ born \subseteq Procs
  BY <1>1 DEF IInv, TypeOK, Range
<1>3. l \in Lines /\ l.kind = "FORK" /\ l.child = c /\ l.pid = unreported[c] /\ l.owner = unreported[c]
  BY <1>2 DEF Line, Lines, Pids
<1> HIDE DEF l
<1>4. <<l>> \in Seq(Lines) /\ Len(<<l>>) = 1 /\ <<l>>[1] = l BY <1>3
<1>5. recording \in Seq(Lines) BY DEF IInv, TypeOK
<1>6. /\ recording' \in Seq(Lines) /\ Len(recording') = Len(recording) + 1
      /\ \A i \in 1..Len(recording) : recording'[i] = recording[i]
      /\ recording'[Len(recording) + 1] = l
      /\ next = 0 /\ next' = 0 /\ split' = split /\ failed' = failed
  <2> DEFINE new == <<l>>
  <2>1. new \in Seq(Lines) /\ Len(new) = 1 /\ new[1] = l /\ Log(new) BY <1>1, <1>4
  <2> HIDE DEF new
  <2>2. /\ recording' \in Seq(Lines) /\ Len(recording') = Len(recording) + Len(new)
        /\ \A i \in 1..Len(recording) : recording'[i] = recording[i]
        /\ \A i \in 1..Len(recording') \ 1..Len(recording) :
             i - Len(recording) \in 1..Len(new) /\ recording'[i] = new[i - Len(recording)]
        /\ next = 0 /\ next' = 0 /\ split' = split /\ failed' = failed
    BY <1>5, <2>1, Longer
  <2>3. Len(recording) \in Nat BY <1>5
  <2>4. Len(recording) + 1 \in 1..Len(recording') \ 1..Len(recording) BY <2>1, <2>2, <2>3
  <2>5. recording'[Len(recording) + 1] = new[1] BY <2>1, <2>2, <2>3, <2>4
  <2> QED BY <2>1, <2>2, <2>5
<1>7. DOMAIN unreported' = DOMAIN unreported \ {c} /\ Range(unreported') \subseteq born'
  BY <1>1 DEF IInv, TypeOK, Range
<1>8. \A i \in 1..Len(recording') : i \in 1..Len(recording) \/ i = Len(recording) + 1
  BY <1>5, <1>6
<1>9. ForksReported'
  BY <1>1, <1>2, <1>3, <1>6, <1>7, <1>8 DEF IInv, ForksReported, IsFork
<1>10. \A i \in 1..Len(recording) : IsFork(i) => recording[i].child # c
  BY <1>1 DEF IInv, ForksReported
<1>11. ForkedOnce'
  BY <1>3, <1>6, <1>8, <1>10 DEF IInv, ForkedOnce, IsFork
<1>12. born' \subseteq Procs /\ DOMAIN unreported' \subseteq born'
  BY <1>1, <1>2, <1>7 DEF IInv, TypeOK
<1> QED BY <1>6, <1>7, <1>9, <1>11, <1>12, NotBegun DEF IInv, TypeOK

LEMMA SaveStep ==
  ASSUME IInv, Save
  PROVE  IInv'
<1>1. /\ next = 0 /\ next' = 1 /\ recording' = recording /\ born' = born
      /\ unreported' = unreported /\ split' = split /\ failed' = failed
  BY DEF Save
<1>2. split = [p \in {Nobody} |-> <<>>] /\ ~failed BY <1>1 DEF IInv, StartsEmpty
<1>3. DOMAIN split = {Nobody} BY <1>2
<1>4. Len(recording) \in Nat BY DEF IInv, TypeOK
<1>5. KnownFromLines' /\ StartsEmpty' /\ StopsAtFork'
  BY <1>1, <1>2, <1>3 DEF KnownFromLines, StartsEmpty, StopsAtFork
<1>6. ForksReported' /\ ForkedOnce'
  BY <1>1 DEF IInv, ForksReported, ForkedOnce, IsFork
<1>7. TypeOK' BY <1>1, <1>4 DEF IInv, TypeOK
<1> QED BY <1>5, <1>6, <1>7 DEF IInv

-----------------------------------------------------------------------------
(* The splitter.                                                            *)

(* A process that is seen for the first time joins the others.              *)
LEMMA WithTyped ==
  ASSUME IInv, NEW pid \in Pids
  PROVE  /\ DOMAIN With(pid) = DOMAIN split \cup {pid}
         /\ \A p \in DOMAIN With(pid) : With(pid)[p] \in Seq(1..Len(recording))
BY DEF IInv, TypeOK, With

(* A line that is read: who is known after it was known before or is named  *)
(* by it.                                                                   *)
LEMMA LineRead ==
  ASSUME IInv, next \in 1..Len(recording), ~failed, next' = next + 1, failed' = failed,
         recording' = recording, born' = born, unreported' = unreported,
         DOMAIN split \subseteq DOMAIN split',
         \A p \in DOMAIN split' \ DOMAIN split :
           /\ p \in Pids
           /\ recording[next].pid = p \/ (IsFork(next) /\ recording[next].child = p),
         \A p \in DOMAIN split' : split'[p] \in Seq(1..Len(recording))
  PROVE  IInv'
<1>1. Len(recording) \in Nat /\ next \in Nat BY DEF IInv, TypeOK
<1>2. TypeOK'
  BY <1>1 DEF IInv, TypeOK
<1>3. ForksReported' /\ ForkedOnce'
  BY DEF IInv, ForksReported, ForkedOnce, IsFork
<1>4. KnownFromLines'
  <2> SUFFICES ASSUME NEW p \in DOMAIN split' \ {Nobody}
               PROVE  HeardOf(p)'
    BY DEF KnownFromLines
  <2>1. CASE p \in DOMAIN split
    <3>1. PICK i \in 1..(next - 1) : recording[i].pid = p \/ (IsFork(i) /\ recording[i].child = p)
      BY <2>1 DEF IInv, KnownFromLines, HeardOf
    <3>2. i \in 1..(next' - 1) BY <1>1
    <3> QED BY <3>1, <3>2 DEF HeardOf, IsFork
  <2>2. CASE p \notin DOMAIN split
    <3>1. next \in 1..(next' - 1) BY <1>1
    <3> QED BY <2>2, <3>1 DEF HeardOf, IsFork
  <2> QED BY <2>1, <2>2
<1>5. StartsEmpty' /\ StopsAtFork'
  BY <1>1 DEF StartsEmpty, StopsAtFork
<1> QED BY <1>2, <1>3, <1>4, <1>5 DEF IInv

LEMMA ParseStep ==
  ASSUME IInv, ParseLine
  PROVE  IInv'
<1> DEFINE line == recording[next]
<1>1. /\ next \in 1..Len(recording) /\ ~failed
      /\ recording' = recording /\ born' = born /\ unreported' = unreported
  BY DEF ParseLine
<1>2. line \in Lines BY <1>1 DEF IInv, TypeOK
<1>3. line.pid \in Pids /\ line.child \in Pids BY <1>2 DEF Lines
<1>4. Len(recording) \in Nat /\ next \in Nat BY DEF IInv, TypeOK
<1>5. CASE line.kind = "FORK" /\ Fails(line)
  <2>1. failed' /\ split' = split /\ next' = next /\ failed' \in BOOLEAN BY <1>5 DEF ParseLine
  <2>2. TypeOK' BY <1>1, <2>1 DEF IInv, TypeOK
  <2>3. ForksReported' /\ ForkedOnce'
    BY <1>1 DEF IInv, ForksReported, ForkedOnce, IsFork
  <2>4. KnownFromLines' BY <1>1, <2>1 DEF IInv, KnownFromLines, HeardOf, IsFork
  <2>5. StartsEmpty' BY <1>1, <1>4, <2>1 DEF StartsEmpty
  <2>6. StopsAtFork' BY <1>1, <1>5, <2>1 DEF StopsAtFork, IsFork, Fails
  <2> QED BY <2>2, <2>3, <2>4, <2>5, <2>6 DEF IInv
<1>6. CASE line.kind = "FORK" /\ ~Fails(line)
  <2>1. split' = Forked(line) /\ next' = next + 1 /\ failed' = failed BY <1>6 DEF ParseLine
  <2>2. line.owner = line.pid BY <1>1, <1>6 DEF IInv, ForksReported, IsFork
  <2>3. DOMAIN split' = DOMAIN split \cup {line.pid, line.child}
    BY <1>3, <2>1, WithTyped DEF Forked
  <2>4. \A p \in DOMAIN split' : split'[p] \in Seq(1..Len(recording))
    <3> SUFFICES ASSUME NEW p \in DOMAIN split' PROVE split'[p] \in Seq(1..Len(recording))
      OBVIOUS
    <3>1. split'[p] = IF p = line.child THEN With(line.pid)[line.owner] ELSE With(line.pid)[p]
      BY <1>3, <2>1, <2>3, WithTyped DEF Forked
    <3>2. line.owner \in DOMAIN With(line.pid) BY <1>3, <2>2, WithTyped
    <3>3. p # line.child => p \in DOMAIN With(line.pid) BY <1>3, <2>3, WithTyped
    <3> QED BY <1>3, <3>1, <3>2, <3>3, WithTyped
  <2> HIDE DEF line
  <2>5. \A p \in DOMAIN split' \ DOMAIN split :
          p \in Pids /\ (line.pid = p \/ (line.kind = "FORK" /\ line.child = p))
    BY <1>3, <1>6, <2>3
  <2> QED BY <1>1, <2>1, <2>3, <2>4, <2>5, LineRead DEF line, IsFork
<1>7. CASE line.kind # "FORK" /\ line.pid = Nobody
  <2>1. split' = Everybody /\ next' = next + 1 /\ failed' = failed BY <1>7 DEF ParseLine
  <2>2. DOMAIN split' = DOMAIN split BY <2>1 DEF Everybody
  <2>3. \A p \in DOMAIN split' : split'[p] \in Seq(1..Len(recording))
    BY <1>1, <2>1, <2>2 DEF Everybody, IInv, TypeOK
  <2> QED BY <1>1, <2>1, <2>2, <2>3, LineRead
<1>8. CASE line.kind # "FORK" /\ line.pid # Nobody
  <2>1. split' = Own(line) /\ next' = next + 1 /\ failed' = failed BY <1>8 DEF ParseLine
  <2>2. DOMAIN split' = DOMAIN split \cup {line.pid}
    BY <1>3, <2>1, WithTyped DEF Own
  <2>3. \A p \in DOMAIN split' : split'[p] \in Seq(1..Len(recording))
    <3> SUFFICES ASSUME NEW p \in DOMAIN split' PROVE split'[p] \in Seq(1..Len(recording))
      OBVIOUS
    <3>1. p \in DOMAIN With(line.pid) /\ With(line.pid)[p] \in Seq(1..Len(recording))
      BY <1>3, <2>2, WithTyped
    <3>2. split'[p] = IF p = line.pid THEN Append(With(line.pid)[p], next) ELSE With(line.pid)[p]
      BY <2>1, <3>1 DEF Own
    <3>3. Append(With(line.pid)[p], next) \in Seq(1..Len(recording))
      BY <1>1, <3>1, AppendTyped
    <3> QED BY <3>1, <3>2, <3>3
  <2>4. \A p \in DOMAIN split' \ DOMAIN split : p \in Pids /\ line.pid = p
    BY <1>3, <2>2
  <2> QED BY <1>1, <2>1, <2>2, <2>3, <2>4, LineRead
<1> QED BY <1>5, <1>6, <1>7, <1>8

-----------------------------------------------------------------------------
LEMMA InitIInv == Init => IInv
<1> SUFFICES ASSUME Init PROVE IInv
  OBVIOUS
<1>1. /\ recording = <<>> /\ born = {} /\ unreported = <<>> /\ next = 0
      /\ split = [p \in {Nobody} |-> <<>>] /\ ~failed /\ failed \in BOOLEAN
  BY DEF Init
<1>2. Len(recording) = 0 /\ recording \in Seq(Lines) BY <1>1
<1>3. DOMAIN unreported = {} /\ Range(unreported) = {} BY <1>1 DEF Range
<1>4. DOMAIN split = {Nobody} /\ split[Nobody] = <<>> BY <1>1
<1>5. \A p \in DOMAIN split : split[p] \in Seq(1..Len(recording)) BY <1>4
<1>6. next \in 0..(Len(recording) + 1) BY <1>1, <1>2
<1>7. TypeOK BY <1>1, <1>2, <1>3, <1>4, <1>5, <1>6 DEF TypeOK, Pids
<1>8. ForksReported /\ ForkedOnce BY <1>2 DEF ForksReported, ForkedOnce
<1>9. KnownFromLines /\ StartsEmpty /\ StopsAtFork
  BY <1>1, <1>4 DEF KnownFromLines, StartsEmpty, StopsAtFork
<1> QED BY <1>7, <1>8, <1>9 DEF IInv

LEMMA InvStep == IInv /\ [Next]_vars => IInv'
<1> SUFFICES ASSUME IInv, [Next]_vars PROVE IInv'
  OBVIOUS
<1>1. CASE UNCHANGED vars
  BY <1>1 DEF vars, IInv, TypeOK, ForksReported, ForkedOnce, KnownFromLines, HeardOf,
              StartsEmpty, StopsAtFork, IsFork, Fails
<1>2. ASSUME NEW p \in Procs, Event(p) PROVE IInv' BY <1>2, EventStep
<1>3. ASSUME NEW p \in Procs, Image(p) PROVE IInv' BY <1>3, ImageStep
<1>4. ASSUME NEW p \in Procs, ReportFork(p) PROVE IInv' BY <1>4, ReportForkStep
<1>5. ASSUME NEW p \in Procs, NEW c \in Procs, Fork(p, c) PROVE IInv' BY <1>5, ForkStep
<1>6. CASE Command BY <1>6, CommandStep
<1>7. CASE Save BY <1>7, SaveStep
<1>8. CASE ParseLine BY <1>8, ParseStep
<1> QED BY <1>1, <1>2, <1>3, <1>4, <1>5, <1>6, <1>7, <1>8 DEF Next

(* The inductive invariant.                                                 *)
THEOREM Invariant == Spec => []IInv
BY InitIInv, InvStep, PTL DEF Spec

(* Type correctness: every file holds line numbers of the recording, and    *)
(* the entry for nobody is always there.                                    *)
THEOREM TypeCorrect == Spec => []TypeOK
<1>1. IInv => TypeOK BY DEF IInv
<1> QED BY <1>1, Invariant, PTL

(* assert(child not in self.split) of split.py:43 fails only at a FORK line *)
(* of a process that an earlier line names as its own: whatever processes   *)
(* do, and however often.                                                   *)
THEOREM AssertionFailsIfLate == Spec => []FailsIfLate
<1>1. IInv => FailsIfLate
  <2> SUFFICES ASSUME IInv, failed PROVE FailsIfLate
    BY DEF FailsIfLate
  <2> DEFINE c == recording[next].child
  <2>1. next \in 1..Len(recording) /\ IsFork(next) /\ c \in DOMAIN split
    BY DEF IInv, StopsAtFork, Fails
  <2>2. c # Nobody BY <2>1 DEF IInv, ForksReported, TypeOK
  <2>3. PICK i \in 1..(next - 1) : recording[i].pid = c \/ (IsFork(i) /\ recording[i].child = c)
    BY <2>1, <2>2 DEF IInv, KnownFromLines, HeardOf
  <2>4. i \in 1..Len(recording) /\ i # next BY <2>1 DEF IInv, TypeOK
  <2>5. recording[i].pid = c BY <2>1, <2>3, <2>4 DEF IInv, ForkedOnce
  <2> QED BY <2>1, <2>5 DEF FailsIfLate, IsFork
<1> QED BY <1>1, Invariant, PTL
-----------------------------------------------------------------------------
(* The files. A line that has a pid has that of the process it is about, a  *)
(* FORK line is about another process than the child's.                     *)
Owned(line) ==
  /\ line.pid \in {line.owner, Nobody}
  /\ line.kind # "FORK" => line.child = Nobody
  /\ line.kind = "FORK" => line.child # line.owner

LinesOwned == \A i \in 1..Len(recording) : Owned(recording[i])

ParentsDiffer == \A c \in DOMAIN unreported : unreported[c] # c

(* A file with lines before line n, in their order and each once.           *)
Ordered(file, n) ==
  /\ \A k \in 1..Len(file) : file[k] \in 1..(n - 1)
  /\ \A k, l \in 1..Len(file) : k < l => file[k] < file[l]

FilesOrdered == \A p \in DOMAIN split : Ordered(split[p], next)

SeenKnown ==
  \A i \in 1..(next - 1) : recording[i].pid \in DOMAIN split /\ recording[i].child \in DOMAIN split

(* The entry for nobody, which a new process starts with, has the lines     *)
(* without a pid; the others have those that belong to the process.         *)
NobodysFile == \A i \in 1..(next - 1) : Has(split[Nobody], i) <=> recording[i].pid = Nobody

FileOf(p) ==
  \A i \in 1..(next - 1) : ~Anonymous(i) => (Has(split[p], i) <=> Belongs(p, i))

FilesRight == \A p \in DOMAIN split \ {Nobody} : FileOf(p)

LinesInv == LinesOwned /\ ParentsDiffer
FilesInv == FilesOrdered /\ SeenKnown /\ NobodysFile /\ FilesRight

(* New lines are owned.                                                     *)
LEMMA OwnedLonger ==
  ASSUME IInv, LinesOwned, NEW new \in Seq(Lines), Log(new),
         \A k \in 1..Len(new) : Owned(new[k])
  PROVE  LinesOwned'
<1>1. recording \in Seq(Lines) /\ Len(recording) \in Nat
  BY DEF IInv, TypeOK
<1> SUFFICES ASSUME NEW i \in 1..Len(recording') PROVE Owned(recording'[i])
  BY DEF LinesOwned, Owned
<1>2. CASE i \in 1..Len(recording)
  BY <1>1, <1>2, Longer DEF LinesOwned
<1>3. CASE i \notin 1..Len(recording)
  BY <1>1, <1>3, Longer
<1> QED BY <1>2, <1>3

LEMMA LinesStep == IInv /\ LinesInv /\ [Next]_vars => LinesInv'
<1> SUFFICES ASSUME IInv, LinesOwned, ParentsDiffer, [Next]_vars PROVE LinesOwned' /\ ParentsDiffer'
  BY DEF LinesInv
<1>0. born \subseteq Procs /\ Range(unreported) \subseteq born /\ DOMAIN unreported \subseteq born
  BY DEF IInv, TypeOK
<1>1. CASE UNCHANGED <<recording, unreported>>
  BY <1>1 DEF LinesOwned, Owned, ParentsDiffer
<1>2. CASE UNCHANGED vars
  BY <1>1, <1>2 DEF vars
<1>3. CASE Save \/ ParseLine
  BY <1>1, <1>3 DEF Save, ParseLine
<1>4. ASSUME NEW p \in Procs, Event(p)
      PROVE  LinesOwned' /\ ParentsDiffer'
  <2>1. PICK pid \in {p, Nobody} : Log(<<Line("event", pid, p, Nobody)>>)
    BY <1>4 DEF Event
  <2> DEFINE l == Line("event", pid, p, Nobody)
  <2>2. l \in Lines /\ Owned(l)
    BY DEF Line, Lines, Owned, Pids
  <2> HIDE DEF l
  <2>3. <<l>> \in Seq(Lines) /\ \A k \in 1..Len(<<l>>) : Owned(<<l>>[k])
    BY <2>2
  <2>4. LinesOwned'
    BY <2>1, <2>3, OwnedLonger DEF l
  <2> QED BY <1>4, <2>4 DEF Event, ParentsDiffer
<1>5. CASE Command
  <2> DEFINE l == Line("event", Nobody, Nobody, Nobody)
  <2>1. l \in Lines /\ Owned(l)
    BY DEF Line, Lines, Owned, Pids
  <2>2. Log(<<l>>)
    BY <1>5 DEF Command
  <2> HIDE DEF l
  <2>3. <<l>> \in Seq(Lines) /\ \A k \in 1..Len(<<l>>) : Owned(<<l>>[k])
    BY <2>1
  <2>4. LinesOwned'
    BY <2>2, <2>3, OwnedLonger
  <2> QED BY <1>5, <2>4 DEF Command, ParentsDiffer
<1>6. ASSUME NEW p \in Procs, Image(p)
      PROVE  LinesOwned' /\ ParentsDiffer'
  <2>1. PICK libs \in 0..MaxLibs, pid \in {p, Nobody} :
          Log([i \in 1..(libs + 1) |->
                Line(IF i = 1 THEN "image" ELSE "dynamic",
                     IF i = libs + 1 THEN pid ELSE Nobody, p, Nobody)])
    BY <1>6 DEF Image
  <2> DEFINE l(i) == Line(IF i = 1 THEN "image" ELSE "dynamic",
                          IF i = libs + 1 THEN pid ELSE Nobody, p, Nobody)
             new == [i \in 1..(libs + 1) |-> l(i)]
  <2>2. \A i \in 1..(libs + 1) : l(i) \in Lines /\ Owned(l(i))
    BY DEF Line, Lines, Owned, Pids
  <2>3. libs + 1 \in Nat /\ Log(new)
    BY <2>1
  <2> HIDE DEF l
  <2>4. new \in Seq(Lines) /\ Len(new) = libs + 1
    BY <2>2, <2>3
  <2>5. \A k \in 1..Len(new) : Owned(new[k])
    BY <2>2, <2>4
  <2> HIDE DEF new
  <2>6. LinesOwned'
    BY <2>3, <2>4, <2>5, OwnedLonger
  <2> QED BY <1>6, <2>6 DEF Image, ParentsDiffer
<1>7. ASSUME NEW p \in Procs, NEW c \in Procs, Fork(p, c)
      PROVE  LinesOwned' /\ ParentsDiffer'
  <2>1. /\ p \in born /\ c \notin born /\ recording' = recording
        /\ unreported' = [q \in DOMAIN unreported \cup {c} |-> IF q = c THEN p ELSE unreported[q]]
    BY <1>7 DEF Fork, Active
  <2>2. ParentsDiffer'
    BY <2>1 DEF ParentsDiffer
  <2> QED BY <2>1, <2>2 DEF LinesOwned, Owned
<1>8. ASSUME NEW c \in Procs, ReportFork(c)
      PROVE  LinesOwned' /\ ParentsDiffer'
  <2> DEFINE l == Line("FORK", unreported[c], unreported[c], c)
  <2>1. /\ c \in DOMAIN unreported /\ Log(<<l>>)
        /\ unreported' = [q \in DOMAIN unreported \ {c} |-> unreported[q]]
    BY <1>8 DEF ReportFork
  <2>2. unreported[c] \in Procs /\ unreported[c] # c
    BY <1>0, <2>1 DEF Range, ParentsDiffer
  <2>3. l \in Lines /\ Owned(l)
    BY <2>2 DEF Line, Lines, Owned, Pids
  <2> HIDE DEF l
  <2>4. <<l>> \in Seq(Lines) /\ \A k \in 1..Len(<<l>>) : Owned(<<l>>[k])
    BY <2>3
  <2>5. LinesOwned'
    BY <2>1, <2>4, OwnedLonger
  <2> QED BY <2>1, <2>5 DEF ParentsDiffer
<1> QED BY <1>2, <1>3, <1>4, <1>5, <1>6, <1>7, <1>8 DEF Next

(* A line joins the end of a file.                                          *)
LEMMA FileGrows ==
  ASSUME NEW N \in Nat, NEW file \in Seq(1..N), NEW n \in Nat \ {0}, Ordered(file, n)
  PROVE  /\ Ordered(Append(file, n), n + 1)
         /\ \A i : Has(Append(file, n), i) <=> Has(file, i) \/ i = n
<1> DEFINE longer == Append(file, n)
<1>1. /\ Len(file) \in Nat /\ Len(longer) = Len(file) + 1
      /\ longer[Len(file) + 1] = n
      /\ \A k \in 1..Len(file) : longer[k] = file[k]
  OBVIOUS
<1>2. \A k : k \in 1..(Len(file) + 1) <=> k \in 1..Len(file) \/ k = Len(file) + 1
  BY <1>1
<1> HIDE DEF longer
<1>3. \A i : Has(longer, i) <=> Has(file, i) \/ i = n
  BY <1>1, <1>2 DEF Has
<1>4. \A k \in 1..Len(longer) : longer[k] \in 1..n
  BY <1>1, <1>2 DEF Ordered
<1>5. ASSUME NEW k \in 1..Len(longer), NEW l \in 1..Len(longer), k < l
      PROVE  longer[k] < longer[l]
  <2>1. k \in 1..Len(file) /\ longer[k] = file[k] /\ file[k] \in 1..(n - 1)
    BY <1>1, <1>5 DEF Ordered
  <2>2. CASE l \in 1..Len(file)
    BY <1>1, <1>5, <2>1, <2>2 DEF Ordered
  <2>3. CASE l = Len(file) + 1
    BY <1>1, <2>1, <2>3
  <2> QED BY <1>1, <1>2, <2>2, <2>3
<1>6. n + 1 - 1 = n
  OBVIOUS
<1>7. Ordered(longer, n + 1)
  BY <1>4, <1>5, <1>6 DEF Ordered
<1> QED BY <1>3, <1>7 DEF longer

LEMMA OrderedLonger ==
  ASSUME NEW file, NEW n \in Nat, Ordered(file, n)
  PROVE  Ordered(file, n + 1) /\ ~Has(file, n)
BY DEF Ordered, Has

(* While the recording grows nothing has been split.                        *)
LEMMA FilesBefore ==
  ASSUME IInv, next = 0, next' \in {0, 1}, split' = split
  PROVE  FilesInv'
<1>1. DOMAIN split = {Nobody} /\ split[Nobody] = <<>>
  BY DEF IInv, StartsEmpty
<1>2. Len(split[Nobody]) = 0 /\ \A i : i \notin 1..(next' - 1)
  BY <1>1
<1>3. FilesOrdered'
  BY <1>1, <1>2 DEF FilesOrdered, Ordered
<1> QED BY <1>2, <1>3 DEF FilesInv, SeenKnown, NobodysFile, FilesRight, FileOf

(* What was known of earlier lines stays true of them.                      *)
LEMMA BelongsStill ==
  ASSUME IInv, LinesInv, FilesInv, next \in 1..Len(recording), next' = next + 1,
         recording' = recording,
         \A q \in DOMAIN split : \A i \in 1..(next - 1) :
           q \in DOMAIN split' /\ (Has(split'[q], i) <=> Has(split[q], i)),
         NEW p \in Pids, ~(IsFork(next) /\ recording[next].child = p),
         NEW i \in 1..(next - 1)
  PROVE  Belongs(p, i)' <=> Belongs(p, i)
<1>1. next \in Nat /\ Len(recording) \in Nat /\ recording \in Seq(Lines)
  BY DEF IInv, TypeOK
<1>2. ForkLines(p)' = ForkLines(p)
  <2>1. \A f : f \in 1..(next' - 1) <=> f \in 1..(next - 1) \/ f = next
    BY <1>1
  <2> QED BY <2>1 DEF ForkLines, IsFork
<1>3. ASSUME NEW f \in ForkLines(p)
      PROVE  Has(split'[recording[f].owner], i) <=> Has(split[recording[f].owner], i)
  <2>1. f \in 1..(next - 1) /\ f \in 1..Len(recording) /\ IsFork(f)
    BY <1>1 DEF ForkLines, IsFork
  <2>2. recording[f].owner \in DOMAIN split
    BY <2>1 DEF IInv, ForksReported, FilesInv, SeenKnown
  <2> QED BY <2>2
<1> QED BY <1>2, <1>3 DEF Belongs

(* A process that is seen for the first time starts with what belongs to it.*)
LEMMA WithFiles ==
  ASSUME IInv, LinesInv, FilesInv, next \in 1..Len(recording), NEW pid \in Procs
  PROVE  /\ \A p \in DOMAIN With(pid) : Ordered(With(pid)[p], next)
         /\ \A p \in DOMAIN split : With(pid)[p] = split[p]
         /\ \A p \in DOMAIN With(pid) \ {Nobody} : \A i \in 1..(next - 1) :
              ~Anonymous(i) => (Has(With(pid)[p], i) <=> Belongs(p, i))
<1>0. next \in Nat /\ Len(recording) \in Nat /\ recording \in Seq(Lines) /\ Nobody \in DOMAIN split
  BY DEF IInv, TypeOK
<1>1. /\ DOMAIN With(pid) = DOMAIN split \cup {pid}
      /\ \A p \in DOMAIN split : With(pid)[p] = split[p]
      /\ pid \notin DOMAIN split => With(pid)[pid] = split[Nobody]
  BY DEF With
<1>2. \A p \in DOMAIN With(pid) : Ordered(With(pid)[p], next)
  BY <1>0, <1>1 DEF FilesInv, FilesOrdered
<1>3. ASSUME NEW p \in DOMAIN split \ {Nobody}, NEW i \in 1..(next - 1), ~Anonymous(i)
      PROVE  Has(With(pid)[p], i) <=> Belongs(p, i)
  BY <1>1, <1>3 DEF FilesInv, FilesRight, FileOf
<1>4. ASSUME pid \notin DOMAIN split, NEW i \in 1..(next - 1), ~Anonymous(i)
      PROVE  Has(split[Nobody], i) <=> Belongs(pid, i)
  <2>1. i \in 1..Len(recording) /\ \A f \in 1..(next - 1) : f \in 1..Len(recording)
    BY <1>0
  <2>2. ForkLines(pid) = {} /\ recording[i].pid # pid
    BY <1>4 DEF ForkLines, FilesInv, SeenKnown
  <2>3. recording[i].pid \in {recording[i].owner, Nobody}
    BY <2>1 DEF LinesInv, LinesOwned, Owned
  <2>4. recording[i].kind = "FORK" => recording[i].pid \in Procs /\ recording[i].pid # Nobody
    BY <2>1 DEF IInv, ForksReported, IsFork
  <2>5. Has(split[Nobody], i) <=> recording[i].pid = Nobody
    BY DEF FilesInv, NobodysFile
  <2> QED BY <1>4, <2>2, <2>3, <2>4, <2>5 DEF Belongs, Anonymous
<1> QED BY <1>1, <1>2, <1>3, <1>4

LEMMA FilesParse ==
  ASSUME IInv, LinesInv, FilesInv, ParseLine
  PROVE  FilesInv'
<1> SUFFICES ASSUME NEW n, n = next, NEW line, line = recording[n]
             PROVE  FilesInv'
  OBVIOUS
<1>n. n = next /\ line = recording[n]
  OBVIOUS
<1>0. /\ next \in Nat \ {0} /\ Len(recording) \in Nat /\ recording \in Seq(Lines)
      /\ next \in 1..Len(recording) /\ recording' = recording
      /\ Nobody \in DOMAIN split /\ DOMAIN split \subseteq Pids
      /\ \A p \in DOMAIN split : split[p] \in Seq(1..Len(recording))
  BY DEF IInv, TypeOK, ParseLine
<1>1. line \in Lines /\ Owned(line) /\ line.pid \in Pids /\ line.child \in Pids
  <2>1. line = recording[next] /\ line \in Lines /\ Owned(line)
    BY <1>n, <1>0 DEF LinesInv, LinesOwned
  <2> QED BY <2>1 DEF Lines
<1>2. CASE line.kind = "FORK" /\ Fails(line)
  <2>1. split' = split /\ next' = next
    BY <1>2 DEF ParseLine
  <2> QED BY <1>0, <2>1 DEF FilesInv, FilesOrdered, SeenKnown, NobodysFile, FilesRight, FileOf,
            Belongs, ForkLines, Anonymous
<1> SUFFICES ASSUME ~(line.kind = "FORK" /\ Fails(line))
             PROVE  FilesInv'
  BY <1>2
<1>3. next' = next + 1 /\ \A i \in 1..(next' - 1) : i \in 1..(next - 1) \/ i = next
  BY <1>0 DEF ParseLine
<1>4. \A i \in 1..(next - 1) : i \in 1..Len(recording) /\ i # next
  BY <1>0
(* It suffices to look at the earlier lines and at the new one apart.       *)
<1>5. ASSUME DOMAIN split \subseteq DOMAIN split',
             \A p \in DOMAIN split' : Ordered(split'[p], next + 1),
             line.pid \in DOMAIN split', line.child \in DOMAIN split',
             \A q \in DOMAIN split : \A i \in 1..(next - 1) : Has(split'[q], i) <=> Has(split[q], i),
             Has(split'[Nobody], next) <=> line.pid = Nobody,
             \A p \in DOMAIN split' \ {Nobody} :
               /\ p \in Pids
               /\ \A i \in 1..(next - 1) : ~Anonymous(i) => (Has(split'[p], i) <=> Belongs(p, i)')
               /\ ~Anonymous(next) => (Has(split'[p], next) <=> Belongs(p, n)')
      PROVE  FilesInv'
  <2>1. FilesOrdered'
    BY <1>3, <1>5 DEF FilesOrdered
  <2>2. SeenKnown'
    BY <1>0, <1>3, <1>5 DEF FilesInv, SeenKnown
  <2>3. NobodysFile'
    BY <1>0, <1>3, <1>5 DEF FilesInv, NobodysFile
  <2>4. FilesRight'
    <3>1. \A i : Anonymous(i)' <=> Anonymous(i)
      BY <1>0 DEF Anonymous
    <3> SUFFICES ASSUME NEW p \in DOMAIN split' \ {Nobody}, NEW i \in 1..(next' - 1), ~Anonymous(i)
                 PROVE  Has(split'[p], i) <=> Belongs(p, i)'
      BY <3>1 DEF FilesRight, FileOf
    <3> QED BY <1>3, <1>5
  <2> QED BY <2>1, <2>2, <2>3, <2>4 DEF FilesInv
<1>6. ASSUME NEW p \in Pids, line.kind # "FORK"
      PROVE  Belongs(p, n)' <=> line.owner \in {Nobody, p}
  <2>1. \A f \in ForkLines(p)' : f \in 1..(next - 1)
    BY <1>0, <1>3, <1>6 DEF ForkLines
  <2>2. \A f \in ForkLines(p)' : f < next
    BY <1>0, <2>1
  <2> QED BY <1>0, <1>6, <2>2 DEF Belongs
<1>7. CASE line.kind # "FORK" /\ line.pid = Nobody
  <2>1. split' = Everybody
    BY <1>7 DEF ParseLine
  <2>2. DOMAIN split' = DOMAIN split /\ \A p \in DOMAIN split : split'[p] = Append(split[p], next)
    BY <2>1 DEF Everybody
  <2>3. ASSUME NEW p \in DOMAIN split
        PROVE  /\ Ordered(split'[p], next + 1)
               /\ \A i : Has(split'[p], i) <=> Has(split[p], i) \/ i = next
    <3>1. Ordered(split[p], next) /\ split[p] \in Seq(1..Len(recording))
      BY <1>0, <2>3 DEF FilesInv, FilesOrdered
    <3>2. /\ Ordered(Append(split[p], next), next + 1)
          /\ \A i : Has(Append(split[p], next), i) <=> Has(split[p], i) \/ i = next
      BY ONLY <1>0, <3>1, FileGrows
    <3> QED BY <2>2, <2>3, <3>2
  <2>4. ASSUME NEW p \in DOMAIN split \ {Nobody}, NEW i \in 1..(next - 1), ~Anonymous(i)
        PROVE  Has(split'[p], i) <=> Belongs(p, i)'
    <3>1. \A q \in DOMAIN split : \A j \in 1..(next - 1) :
            q \in DOMAIN split' /\ (Has(split'[q], j) <=> Has(split[q], j))
      BY <1>4, <2>2, <2>3
    <3>2. p \in Pids
      BY <1>0
    <3>3. Belongs(p, i)' <=> Belongs(p, i)
      BY <1>0, <1>3, <1>7, <3>1, <3>2, BelongsStill DEF IsFork
    <3> QED BY <2>2, <2>4, <3>1, <3>3 DEF FilesInv, FilesRight, FileOf
  <2>5. ASSUME NEW p \in DOMAIN split \ {Nobody}, ~Anonymous(next)
        PROVE  Has(split'[p], next) /\ Belongs(p, n)'
    BY <1>0, <1>6, <1>7, <2>3, <2>5 DEF Anonymous
  <2>6. line.child = Nobody
    BY <1>1, <1>7 DEF Owned
  <2> QED BY <1>0, <1>4, <1>5, <1>7, <2>2, <2>3, <2>4, <2>5, <2>6
<1>8. CASE line.kind # "FORK" /\ line.pid # Nobody
  <2>1. split' = Own(line) /\ line.pid \in Procs /\ line.owner = line.pid /\ line.child = Nobody
    BY <1>1, <1>8 DEF ParseLine, Owned, Pids
  <2>2. /\ DOMAIN split' = DOMAIN split \cup {line.pid}
        /\ \A p \in DOMAIN split' : split'[p] =
             IF p = line.pid THEN Append(With(line.pid)[p], next) ELSE With(line.pid)[p]
        /\ \A p \in DOMAIN split' : p \in DOMAIN With(line.pid)
                                    /\ With(line.pid)[p] \in Seq(1..Len(recording))
    <3>1. /\ DOMAIN With(line.pid) = DOMAIN split \cup {line.pid}
          /\ \A p \in DOMAIN With(line.pid) : With(line.pid)[p] \in Seq(1..Len(recording))
      BY <1>1, WithTyped
    <3> QED BY <2>1, <3>1 DEF Own
  <2>3. /\ \A p \in DOMAIN With(line.pid) : Ordered(With(line.pid)[p], next)
        /\ \A p \in DOMAIN split : With(line.pid)[p] = split[p]
        /\ \A p \in DOMAIN With(line.pid) \ {Nobody} : \A i \in 1..(next - 1) :
             ~Anonymous(i) => (Has(With(line.pid)[p], i) <=> Belongs(p, i))
    BY <1>0, <2>1, WithFiles
  <2>4. ASSUME NEW p \in DOMAIN split'
        PROVE  /\ Ordered(split'[p], next + 1)
               /\ \A i : Has(split'[p], i) <=>
                    Has(With(line.pid)[p], i) \/ (p = line.pid /\ i = next)
               /\ ~Has(With(line.pid)[p], next)
    <3>1. /\ With(line.pid)[p] \in Seq(1..Len(recording)) /\ Ordered(With(line.pid)[p], next)
      BY <2>2, <2>3
    <3>2. Ordered(With(line.pid)[p], next + 1) /\ ~Has(With(line.pid)[p], next)
      BY <1>0, <3>1, OrderedLonger
    <3>3. CASE p = line.pid
      BY <1>0, <2>2, <3>1, <3>2, <3>3, FileGrows
    <3>4. CASE p # line.pid
      BY <2>2, <3>2, <3>4
    <3> QED BY <3>3, <3>4
  <2>5. \A q \in DOMAIN split : \A j \in 1..(next - 1) :
          q \in DOMAIN split' /\ (Has(split'[q], j) <=> Has(split[q], j))
    BY <1>4, <2>2, <2>3, <2>4
  <2>6. ASSUME NEW p \in DOMAIN split' \ {Nobody}, NEW i \in 1..(next - 1), ~Anonymous(i)
        PROVE  Has(split'[p], i) <=> Belongs(p, i)'
    <3>1. p \in Pids
      BY <1>0, <1>1, <2>2
    <3>2. Belongs(p, i)' <=> Belongs(p, i)
      BY <1>0, <1>3, <1>8, <2>5, <3>1, BelongsStill DEF IsFork
    <3> QED BY <1>4, <2>2, <2>3, <2>4, <2>6, <3>2
  <2>7. ASSUME NEW p \in DOMAIN split' \ {Nobody}
        PROVE  p \in Pids /\ (Has(split'[p], next) <=> Belongs(p, n)')
    <3>1. p \in Pids
      BY <1>0, <1>1, <2>2
    <3>2. Belongs(p, n)' <=> p = line.pid
      BY <1>6, <1>8, <2>1, <3>1
    <3> QED BY <2>4, <3>1, <3>2
  <2>8. ~Has(split'[Nobody], next)
    BY <1>0, <1>8, <2>2, <2>4
  <2> QED BY <1>0, <1>5, <1>8, <2>1, <2>2, <2>4, <2>5, <2>6, <2>7, <2>8
<1>9. CASE line.kind = "FORK" /\ ~Fails(line)
  <2>1. /\ split' = Forked(line) /\ IsFork(next)
        /\ line.pid \in Procs /\ line.owner = line.pid /\ line.child # line.pid
        /\ line.child \notin DOMAIN split
    BY <1>0, <1>1, <1>9 DEF ParseLine, Owned, Fails, IInv, ForksReported, IsFork
  <2>2. /\ DOMAIN split' = DOMAIN split \cup {line.pid, line.child}
        /\ \A p \in DOMAIN split' : p # line.child =>
             p \in DOMAIN With(line.pid) /\ split'[p] = With(line.pid)[p]
        /\ split'[line.child] = With(line.pid)[line.pid] /\ line.pid \in DOMAIN With(line.pid)
    BY <1>1, <2>1, WithTyped DEF Forked
  <2>3. /\ \A p \in DOMAIN With(line.pid) : Ordered(With(line.pid)[p], next)
        /\ \A p \in DOMAIN split : With(line.pid)[p] = split[p]
        /\ \A p \in DOMAIN With(line.pid) \ {Nobody} : \A i \in 1..(next - 1) :
             ~Anonymous(i) => (Has(With(line.pid)[p], i) <=> Belongs(p, i))
    BY <1>0, <2>1, WithFiles
  <2>4. \A p \in DOMAIN split' : Ordered(split'[p], next + 1) /\ ~Has(split'[p], next)
    <3>1. \A p \in DOMAIN split' : Ordered(split'[p], next)
      BY <2>2, <2>3
    <3> QED BY <1>0, <3>1, OrderedLonger
  <2>5. \A q \in DOMAIN split : \A j \in 1..(next - 1) :
          q \in DOMAIN split' /\ (Has(split'[q], j) <=> Has(split[q], j))
    BY <2>1, <2>2, <2>3
  <2>6. ASSUME NEW p \in DOMAIN split' \ {Nobody}, p # line.child
        PROVE  /\ p \in Pids
               /\ \A i \in 1..(next - 1) : ~Anonymous(i) => (Has(split'[p], i) <=> Belongs(p, i)')
               /\ ~Belongs(p, n)'
    <3>1. p \in Pids
      BY <1>0, <1>1, <2>2
    <3>2. \A i \in 1..(next - 1) : Belongs(p, i)' <=> Belongs(p, i)
      BY <1>0, <1>3, <2>5, <2>6, <3>1, BelongsStill
    <3>3. \A i \in 1..(next - 1) : ~Anonymous(i) => (Has(split'[p], i) <=> Belongs(p, i)')
      BY <2>2, <2>3, <2>6, <3>2
    <3>4. \A f \in ForkLines(p)' : f < next
      <4>1. \A f \in ForkLines(p)' : f \in 1..(next - 1)
        BY <1>0, <1>3, <2>6 DEF ForkLines
      <4> QED BY <1>0, <4>1
    <3>5. ~Belongs(p, n)'
      BY <1>0, <1>9, <3>4 DEF Belongs
    <3> QED BY <3>1, <3>3, <3>5
  <2>7. ForkLines(line.child)' = {next}
    <3>1. \A f \in 1..(next - 1) : recording[f].child # line.child
      BY <2>1 DEF FilesInv, SeenKnown
    <3>2. next \in 1..(next' - 1)
      BY <1>0, <1>3
    <3> QED BY <1>0, <1>3, <1>9, <3>1, <3>2 DEF ForkLines
  <2>8. ASSUME NEW i \in 1..next
        PROVE  Belongs(line.child, i)' <=> Has(split'[line.pid], i)
    <3>1. ~(next < i) /\ recording'[next].owner = line.pid
      BY <1>0, <2>1, <2>8
    <3> QED BY <1>0, <2>7, <2>8, <3>1 DEF Belongs
  <2>9. split'[line.child] = split'[line.pid]
    BY <2>1, <2>2
  <2>10. line.child \in Pids /\ \A i \in 1..(next - 1) : i \in 1..next
    BY <1>0, <1>1
  <2>11. \A i \in 1..next : Has(split'[line.child], i) <=> Belongs(line.child, i)'
    BY <2>8, <2>9
  <2>12. next \in 1..next /\ Nobody # line.child /\ line.pid # Nobody /\ Nobody \in DOMAIN split'
    BY <1>0, <2>1, <2>2
  <2> QED BY <1>0, <1>5, <2>1, <2>2, <2>4, <2>5, <2>6, <2>10, <2>11, <2>12
<1> QED BY <1>7, <1>8, <1>9

LEMMA FilesStep == IInv /\ LinesInv /\ FilesInv /\ [Next]_vars => FilesInv'
<1> SUFFICES ASSUME IInv, LinesInv, FilesInv, [Next]_vars PROVE FilesInv'
  OBVIOUS
<1>1. CASE UNCHANGED vars
  BY <1>1 DEF vars, FilesInv, FilesOrdered, SeenKnown, NobodysFile, FilesRight, FileOf,
              Belongs, ForkLines, Anonymous
<1>2. CASE ParseLine
  BY <1>2, FilesParse
<1>3. CASE next = 0 /\ next' \in {0, 1} /\ split' = split
  BY <1>3, FilesBefore
<1> QED BY <1>1, <1>2, <1>3 DEF Next, Event, Image, ReportFork, Fork, Command, Save, Log

LEMMA FilesAreRight == IInv /\ FilesInv => SplitByPid
<1> SUFFICES ASSUME IInv, FilesInv, NEW p \in Seen
             PROVE  p \in DOMAIN split /\ Ordered(split[p], next) /\ FileOf(p)
  BY DEF SplitByPid, Ordered, FileOf
<1>1. p \in DOMAIN split /\ p # Nobody
  BY DEF Seen, FilesInv, SeenKnown
<1> QED BY <1>1 DEF FilesInv, FilesOrdered, FilesRight

(* For any processes and recordings: every process that did something or    *)
(* was forked has a file, with its own lines, those of its ancestors up to  *)
(* the forks and what the user added, in order and each once.               *)
THEOREM FilesSplitByPid == Spec => []SplitByPid
<1>1. Init => LinesInv /\ FilesInv
  <2> SUFFICES ASSUME Init PROVE LinesInv /\ FilesInv
    OBVIOUS
  <2>1. /\ recording = <<>> /\ unreported = <<>> /\ next = 0
        /\ split = [p \in {Nobody} |-> <<>>]
    BY DEF Init
  <2>2. Len(recording) = 0 /\ DOMAIN unreported = {}
    BY <2>1
  <2>3. LinesInv
    BY <2>2 DEF LinesInv, LinesOwned, ParentsDiffer
  <2>4. DOMAIN split = {Nobody} /\ split[Nobody] = <<>> /\ Len(split[Nobody]) = 0
    BY <2>1
  <2>5. \A i : i \notin 1..(next - 1)
    BY <2>1
  <2>6. FilesInv
    BY <2>4, <2>5 DEF FilesInv, FilesOrdered, Ordered, SeenKnown, NobodysFile, FilesRight, FileOf
  <2> QED BY <2>3, <2>6
<1> QED BY <1>1, Invariant, LinesStep, FilesStep, FilesAreRight, PTL DEF Spec

=============================================================================
