------------------------------ MODULE Labeller ------------------------------
(***************************************************************************)
(* From a recording to a puzzle: the parser (src/refinery/parser.py and    *)
(* the from_string methods of src/refinery/operation.py) turns the lines   *)
(* of one process into operations and steps; the manager                   *)
(* (src/refinery/manager.py) follows every pointer through the steps and   *)
(* gives all the steps of one object one tag. Then it may take what the    *)
(* start of the program made and kept out of the puzzle, and exports it.   *)
(*                                                                         *)
(* The recording itself is made by a target on a heap that works: the      *)
(* actions of the section "The target" stand for the program under the     *)
(* preload library and its allocator. They know which object a line is     *)
(* about (history, "obj"); the labeller sees addresses, and an address is  *)
(* used again once it is free.                                             *)
(*                                                                         *)
(* A definition named Faulty... is what the definition after it would be   *)
(* with a plausible bug in the code: no part of the specification.         *)
(***************************************************************************)
EXTENDS Integers, Sequences, FiniteSets, SequencesExt

CONSTANTS
  Addrs,       \* addresses the allocator gives out
  Null,        \* the address 0x0
  Traffic,     \* words a recording may have; "fails", "unseen": see the target
  MaxLines,    \* bound: lines in a recording
  MaxMarks     \* bound: how far ahead a BUGGED or TARGET line counts

ASSUME LabellerAssumption ==
  /\ Null \notin Addrs /\ IsFiniteSet(Addrs)
  /\ MaxLines \in Nat /\ MaxMarks \in Nat

VARIABLES
  lines,      \* the recording of one process
  heap,       \* the object at each address: 0 none, else its number
  objects,    \* objects made so far
  odd,        \* history: a realloc failed, an object was made unseen, ...
  phase,      \* "recording", "parsing", "labelling", "tracking", "done",
              \* "cleaned", "exported", or "failed" with an exception
  next,       \* the next line to parse
  ops,        \* mgr.ops, the last one being the parser's self.op
  marks,      \* _additional_attr
  cursor,     \* [op, step] of the outer loops of label()
  track,      \* [op, step] of the while loop in _track_ptr
  tags        \* tags given out by _tag_generator

recording == <<lines, heap, objects, odd>>
vars == <<recording, phase, next, ops, marks, cursor, track, tags>>

Births == {"MALLOC", "CALLOC", "MEMALIGN"}
HeapWords == Births \cup {"REALLOC", "FREE"}
(* "END" is an operation named end or bye. *)
Words == HeapWords \cup {"NEXT", "END", "PROCESS_START", "BUGGED", "TARGET"}

(* The number of a line is a size, or how far ahead a mark is for.          *)
Line(word, ptr, number, ret, obj) ==
  [word |-> word, ptr |-> ptr, number |-> number, ret |-> ret, obj |-> obj]

Unseen == MaxLines + 1    \* the object of memory whose birth is not recorded

(* Type correctness: every step of an operation comes from a line, has one  *)
(* of the three kinds that are tracked and a tag that was given out, and no *)
(* more tags are given out than there are lines.                            *)
TypeOK ==
  /\ lines \in Seq([word : Words, ptr : Addrs \cup {Null}, number : Nat,
                    ret : Addrs \cup {Null}, obj : 0..Unseen])
  /\ Len(lines) <= MaxLines
  /\ heap \in [Addrs -> 0..Unseen] /\ objects \in 0..MaxLines
  /\ odd \subseteq {"allocfails", "reallocfails", "unseen", "exec"}
  /\ phase \in {"recording", "parsing", "labelling", "tracking", "done",
                "cleaned", "exported", "failed"}
  /\ next \in 1..(MaxLines + 1)
  /\ \A i \in 1..Len(ops) :
       /\ ops[i].isInit \in BOOLEAN /\ ops[i].isEnd \in BOOLEAN
       /\ \A j \in 1..Len(ops[i].steps) :
            LET s == ops[i].steps[j] IN
            /\ s.opty \in {"N", "E", "D"} /\ s.line \in 1..Len(lines)
            /\ s.tag \in 0..tags \cup {Unseen} /\ s.bty \in {"R", "B", "T"}
  /\ tags \in 0..MaxLines

-----------------------------------------------------------------------------
(* The target. Addresses handed out are free ones; a free and a realloc are *)
(* of an object that is there. Bound: what is odd (a malloc or a realloc    *)
(* that fails, memory of unknown origin, an exec) happens once a recording. *)

Log(line) ==
  /\ phase = "recording" /\ Len(lines) < MaxLines /\ line.word \in Traffic
  /\ lines' = Append(lines, line)
  /\ UNCHANGED <<phase, next, ops, marks, cursor, track, tags>>

Fresh == objects + 1

(* malloc, calloc, memalign, or realloc(NULL, n). *)
Allocate(word, a) ==
  /\ heap[a] = 0
  /\ heap' = [heap EXCEPT ![a] = Fresh] /\ objects' = Fresh
  /\ Log(Line(word, Null, 1, a, Fresh))
  /\ UNCHANGED odd

AllocateFails(word) ==
  /\ "fails" \in Traffic /\ "allocfails" \notin odd
  /\ odd' = odd \cup {"allocfails"}
  /\ Log(Line(word, Null, 1, Null, 0))
  /\ UNCHANGED <<heap, objects>>

(* An object the library saw nothing of: made while preload_antirecursive   *)
(* was set, or by a function it does not wrap.                              *)
AllocateUnseen(a) ==
  /\ phase = "recording" /\ "unseen" \in Traffic \ odd /\ heap[a] = 0
  /\ heap' = [heap EXCEPT ![a] = Unseen]
  /\ odd' = odd \cup {"unseen"}
  /\ UNCHANGED <<lines, objects, phase, next, ops, marks, cursor, track, tags>>

Free(a) ==
  /\ heap[a] # 0
  /\ heap' = [heap EXCEPT ![a] = 0]
  /\ Log(Line("FREE", a, 0, Null, heap[a]))
  /\ UNCHANGED <<objects, odd>>

(* realloc moves the object or leaves it where it is. *)
Realloc(a, b) ==
  /\ heap[a] # 0 /\ (b = a \/ heap[b] = 0)
  /\ heap' = [heap EXCEPT ![a] = 0, ![b] = heap[a]]
  /\ Log(Line("REALLOC", a, 1, b, heap[a]))
  /\ UNCHANGED <<objects, odd>>

(* realloc(p, 0) is a free, and returns NULL. *)
ReallocZero(a) ==
  /\ heap[a] # 0
  /\ heap' = [heap EXCEPT ![a] = 0]
  /\ Log(Line("REALLOC", a, 0, Null, heap[a]))
  /\ UNCHANGED <<objects, odd>>

(* realloc without memory returns NULL and keeps the object. *)
ReallocFails(a) ==
  /\ heap[a] # 0 /\ "fails" \in Traffic /\ "reallocfails" \notin odd
  /\ odd' = odd \cup {"reallocfails"}
  /\ Log(Line("REALLOC", a, 1, Null, heap[a]))
  /\ UNCHANGED <<heap, objects>>

(* execve: another image, with a heap of its own at the same addresses.     *)
Exec ==
  /\ "exec" \notin odd
  /\ heap' = [a \in Addrs |-> 0]
  /\ odd' = odd \cup {"exec"}
  /\ \E main \in {0, 1} : Log(Line("PROCESS_START", Null, main, Null, 0))
  /\ UNCHANGED objects

(* What the user adds to the recording from the console. *)
Annotate ==
  /\ \/ \E word \in {"NEXT", "END"} : Log(Line(word, Null, 0, Null, 0))
     \/ \E word \in {"BUGGED", "TARGET"}, n \in 1..MaxMarks : Log(Line(word, Null, n, Null, 0))
  /\ UNCHANGED <<heap, objects, odd>>

(* A target of one thread, whose events are logged in the order they happen *)
(* and once each: no reallocarray, which the preload library reports twice. *)
Target ==
  \/ \E word \in Births : AllocateFails(word) \/ \E a \in Addrs : Allocate(word, a)
  \/ \E a \in Addrs :
       \/ Allocate("REALLOC", a) \/ AllocateUnseen(a)
       \/ Free(a) \/ ReallocZero(a) \/ ReallocFails(a)
       \/ \E b \in Addrs : Realloc(a, b)
  \/ Exec \/ Annotate

EndRecording ==
  /\ phase = "recording"
  /\ phase' = "parsing"
  /\ ops' = <<[isInit |-> TRUE, isEnd |-> FALSE, steps |-> <<>>]>>
  /\ UNCHANGED <<recording, next, marks, cursor, track, tags>>

-----------------------------------------------------------------------------
(* The parser.                                                              *)

(* A step's ptr and ret are sets of at most one address: empty when the key *)
(* is not in its values.                                                    *)
FaultyStepOf(line, i) ==
  [opty |-> IF line.word = "REALLOC" THEN "E" ELSE IF line.word = "FREE" THEN "D" ELSE "N",
   ptr |-> IF line.word \in {"REALLOC", "FREE"} THEN {line.ptr} ELSE {},
   ret |-> IF line.word = "FREE" THEN {} ELSE {line.ret},
   tag |-> 0, bty |-> "R", line |-> i]

(* from_string: a REALLOC of NULL is a new object, one to size 0 a free     *)
(* (with a returned pointer). No tag yet (0), and no mark ("R").            *)
StepOf(line, i) ==
  LET opty == CASE line.word \in Births -> "N"
                [] line.word = "FREE" -> "D"
                [] line.word = "REALLOC" /\ line.ptr = Null -> "N"
                [] line.word = "REALLOC" /\ line.ptr # Null /\ line.number = 0 -> "D"
                [] OTHER -> "E"
  IN [opty |-> opty,
      ptr  |-> IF opty = "N" THEN {} ELSE {line.ptr},
      ret  |-> IF line.word = "FREE" THEN {} ELSE {line.ret},
      tag  |-> 0, bty |-> "R", line |-> i]

Add(step) == [ops EXCEPT ![Len(ops)].steps = Append(@, step)]

(* A program image starts an operation "init", if main's address is known.  *)
NextOp(line) ==
  IF line.word = "PROCESS_START" /\ line.number = 0
  THEN ops
  ELSE Append(ops, [isInit |-> line.word = "PROCESS_START",
                    isEnd |-> line.word = "END", steps |-> <<>>])

(* The elements of a sequence at these places, in their order.              *)
Only(s, places) ==
  LET upTo[i \in 0..Len(s)] ==
        IF i = 0 THEN <<>> ELSE IF i \in places THEN Append(upTo[i - 1], s[i]) ELSE upTo[i - 1]
  IN upTo[Len(s)]

(* The marks of _additional_attr after a step: walked from the last to the  *)
(* first, each is taken out and put at the end unless its turn has come.    *)
FaultyDue(mark) == mark.count <= 0

Due(mark) == mark.count <= 1

Waiting ==
  LET rest == Reverse(Only(marks, {i \in 1..Len(marks) : ~Due(marks[i])}))
  IN [i \in 1..Len(rest) |-> [rest[i] EXCEPT !.count = @ - 1]]

(* Of several marks for one step the last one walked over stays.            *)
Marked(step) ==
  LET due == Only(marks, {i \in 1..Len(marks) : Due(marks[i])})
  IN IF due = <<>> THEN step ELSE [step EXCEPT !.bty = Head(due).bty]

Parse ==
  /\ phase = "parsing" /\ next <= Len(lines)
  /\ next' = next + 1
  /\ LET line == lines[next] IN
       \/ /\ line.word \in HeapWords
          /\ ops' = Add(Marked(StepOf(line, next)))
          /\ marks' = Waiting
       \/ /\ line.word \in {"NEXT", "END", "PROCESS_START"}
          /\ ops' = NextOp(line)
          /\ UNCHANGED marks
       \/ /\ line.word \in {"BUGGED", "TARGET"}
          /\ marks' = Append(marks, [count |-> line.number,
                                     bty |-> IF line.word = "BUGGED" THEN "B" ELSE "T"])
          /\ UNCHANGED ops
  /\ UNCHANGED <<recording, phase, cursor, track, tags>>

(* clean(): the empty operations go. *)
Clean(operations) ==
  Only(operations, {i \in 1..Len(operations) : operations[i].steps # <<>>})

EndParse ==
  /\ phase = "parsing" /\ next > Len(lines)
  /\ ops' = Clean(ops)
  /\ phase' = "labelling"
  /\ UNCHANGED <<recording, next, marks, cursor, track, tags>>

-----------------------------------------------------------------------------
(* The labeller.                                                            *)

Dangling == Unseen          \* the tag '-'

StepAt(at) == ops[at.op].steps[at.step]

Tagged(at, tag) == [ops EXCEPT ![at.op].steps[at.step].tag = tag]

(* The loops over opindex and stepindex. *)
Steps == UNION {{[op |-> i, step |-> j] : j \in 1..Len(ops[i].steps)} : i \in 1..Len(ops)}
Before(p, q) == p.op < q.op \/ (p.op = q.op /\ p.step < q.step)

After(at) ==
  IF [at EXCEPT !.step = @ + 1] \in Steps
  THEN [at EXCEPT !.step = @ + 1]
  ELSE [op |-> at.op + 1, step |-> 1]

(* _check_for_ptr: a step that takes this pointer. *)
Takes(step, ptr) == ptr \in step.ptr

FaultyUses(at, ptr) ==
  {p \in Steps : ~Before(p, at) /\ Takes(StepAt(p), ptr)}

(* Where _track_next looks: the rest of this operation, then the others.    *)
Uses(at, ptr) ==
  {p \in Steps : Before(at, p) /\ Takes(StepAt(p), ptr)}

First(places) == CHOOSE p \in places : \A q \in places : p = q \/ Before(p, q)

(* One step of label()'s first pair of loops.                               *)
Label ==
  /\ phase = "labelling" /\ cursor \in Steps
  /\ LET step == StepAt(cursor) IN
       \/ /\ step.tag # 0
          /\ cursor' = After(cursor)
          /\ UNCHANGED <<phase, ops, tags, track>>
       \/ /\ step.tag = 0 /\ step.opty = "N"
          /\ tags' = tags + 1
          /\ ops' = Tagged(cursor, tags')
          /\ track' = cursor /\ phase' = "tracking"
          /\ UNCHANGED cursor
       \/ /\ step.tag = 0 /\ step.opty # "N"
          /\ ops' = Tagged(cursor, Dangling)
          /\ cursor' = After(cursor)
          /\ UNCHANGED <<phase, tags, track>>
  /\ UNCHANGED <<recording, next, marks>>

FaultyRetag(at) == IF StepAt(at).tag = 0 THEN Tagged(at, tags) ELSE ops

FaultyTag(at) == Tagged(at, tags + 1)

(* A step on the way gets the tag whether or not it had one.                *)
Retag(at) == Tagged(at, tags)

(* One step of the while loop of _track_ptr, with its _track_next.          *)
Track ==
  /\ phase = "tracking"
  /\ LET uses == UNION {Uses(track, ptr) : ptr \in StepAt(track).ret}
     IN IF uses # {}
        THEN /\ track' = First(uses)
             /\ ops' = Retag(track')
             /\ UNCHANGED <<phase, cursor>>
        ELSE /\ phase' = "labelling"
             /\ cursor' = After(cursor)
             /\ UNCHANGED <<track, ops>>
  /\ UNCHANGED <<recording, next, marks, tags>>

FaultyKept(step) == step.tag # Dangling \/ step.opty = "E"

Kept(step) == step.tag # Dangling

(* The operations with these of their steps. *)
Thinned(kept) == [i \in 1..Len(ops) |->
  [ops[i] EXCEPT !.steps = Only(@, {j \in 1..Len(@) : [op |-> i, step |-> j] \in kept})]]

(* label()'s second pair of loops: the dangling steps go. *)
Sweep ==
  /\ phase = "labelling" /\ cursor \notin Steps
  /\ ops' = Thinned({p \in Steps : Kept(StepAt(p))})
  /\ phase' = "done"
  /\ UNCHANGED <<recording, next, marks, cursor, track, tags>>

-----------------------------------------------------------------------------
(* The cleanup of the init operations, and the export.                      *)

Tag(p) == StepAt(p).tag

(* is_eligible *)
Eligible(step) ==
  step.opty = "N" /\ step.bty = "R" /\ lines[step.line].word # "MEMALIGN"

(* The steps _init_stable looks at: it starts with the second step of an    *)
(* init operation and ends with the last but one.                           *)
Inner ==
  {p \in Steps : ops[p.op].isInit /\ p.step \in 2..(Len(ops[p.op].steps) - 1)}

FaultyStable ==
  {Tag(p) : p \in {q \in Inner : \A j \in -1..1 : Eligible(StepAt([q EXCEPT !.step = @ + j]))}}
    \ {Tag(p) : p \in {q \in Inner : StepAt(q).opty = "D"}}

(* _init_stable: objects made between two others, not freed at such a step, *)
(* and not used in another operation.                                       *)
Stable ==
  {Tag(p) : p \in {q \in Inner : \A j \in -1..1 : Eligible(StepAt([q EXCEPT !.step = @ + j]))}}
    \ ({Tag(p) : p \in {q \in Inner : StepAt(q).opty = "D"}}
         \cup {Tag(p) : p \in {q \in Steps : ~ops[q.op].isInit}})

(* With the option cleanup_init. An init operation of less than two steps   *)
(* is an IndexError.                                                        *)
Cleanup ==
  /\ phase = "done"
  /\ LET short == \E i \in 1..Len(ops) : ops[i].isInit /\ Len(ops[i].steps) < 2
         stable == Stable
     IN \/ short /\ phase' = "failed" /\ UNCHANGED ops
        \/ /\ ~short
           /\ phase' = "cleaned"
           /\ ops' = Clean(Thinned({p \in Steps : Tag(p) \notin stable}))
  /\ UNCHANGED <<recording, next, marks, cursor, track, tags>>

(* What export makes of the operations: one named end is left out when it   *)
(* is the last of those with steps. With no steps at all is_huge is a       *)
(* TypeError.                                                               *)
Export ==
  /\ phase \in {"done", "cleaned"}
  /\ LET full == Clean(ops)
     IN \/ full = <<>> /\ phase' = "failed" /\ UNCHANGED ops
        \/ /\ full # <<>>
           /\ phase' = "exported"
           /\ ops' = IF Last(full).isEnd THEN Front(full) ELSE full
  /\ UNCHANGED <<recording, next, marks, cursor, track, tags>>

-----------------------------------------------------------------------------
Init ==
  /\ lines = <<>> /\ heap = [a \in Addrs |-> 0] /\ objects = 0 /\ odd = {}
  /\ phase = "recording" /\ next = 1 /\ ops = <<>> /\ marks = <<>>
  /\ cursor = [op |-> 1, step |-> 1] /\ track = cursor /\ tags = 0

Refine == Parse \/ EndParse \/ Label \/ Track \/ Sweep \/ Cleanup \/ Export

Next == Target \/ EndRecording \/ Refine

Spec == Init /\ [][Next]_vars

FairSpec == Spec /\ WF_vars(Refine)
-----------------------------------------------------------------------------
(* Properties. *)

Object(p) == lines[StepAt(p).line].obj
Known == 1..objects

Finished == phase \in {"done", "cleaned", "exported"}

Traceable == "reallocfails" \notin odd /\ ~({"unseen", "exec"} \subseteq odd)

(* Two steps of the finished puzzle have the same tag exactly if they are   *)
(* about the same object, however often its address was used before and     *)
(* after, across operations, moves, frees by realloc and new program images *)
(* (_track_ptr follows addresses through all of that and writes over tags). *)
(* Not promised: when a realloc failed, and when memory of unknown origin   *)
(* turns up after an exec at the address of an object of the old image.     *)
SameObject ==
  Finished /\ Traceable =>
    \A p, q \in Steps :
      /\ Tag(p) = Tag(q) => Object(p) = Object(q)
      /\ Object(p) = Object(q) /\ Object(p) \in Known => Tag(p) = Tag(q)

(* No recorded step of a known object is thrown away as dangling.           *)
NothingLost ==
  phase = "done" /\ Traceable =>
    \A i \in 1..Len(lines) :
      lines[i].word \in HeapWords /\ lines[i].obj \in Known
        => \E p \in Steps : StepAt(p).line = i

(* Whatever was recorded, the puzzle can be played: every tag begins with   *)
(* the step that makes it, which is its only one of that type. So it is     *)
(* when the cleanup has taken objects out, and when an export has left out  *)
(* the operation at the end.                                                *)
Playable ==
  Finished =>
    \A p \in Steps :
      /\ \E q \in Steps : Tag(q) = Tag(p) /\ StepAt(q).opty = "N" /\ ~Before(p, q)
      /\ StepAt(p).opty = "N" =>
           \A q \in Steps : Tag(q) = Tag(p) /\ q # p => StepAt(q).opty # "N"

HeapLinesBetween(i, j) == Cardinality({k \in (i + 1)..j : lines[k].word \in HeapWords})

MarksFor(j) ==
  {i \in 1..(j - 1) : /\ lines[i].word \in {"BUGGED", "TARGET"}
                     /\ HeapLinesBetween(i, j) = lines[i].number}

(* A step is marked exactly if the user's BUGGED or TARGET lines counted to *)
(* it ("Marks the next heap operation", README.md:57), and with one of the  *)
(* marks that did, although the list of waiting marks is turned around at   *)
(* every step.                                                              *)
MarksLand ==
  phase = "labelling" =>
    \A p \in Steps :
      LET i == StepAt(p).line
          letters == {IF lines[m].word = "BUGGED" THEN "B" ELSE "T" : m \in MarksFor(i)}
      IN IF letters = {} THEN StepAt(p).bty = "R" ELSE StepAt(p).bty \in letters

(* The cleanup takes an object out with all of its steps or not at all, and *)
(* never one that an operation other than an init operation uses.           *)
CleanupSpares ==
  [][phase' = "cleaned" =>
       LET kept == {StepAt(p).line : p \in Steps}'
           gone == {p \in Steps : StepAt(p).line \notin kept}
       IN \A p \in gone, q \in Steps :
            Tag(p) = Tag(q) => q \in gone /\ ops[q.op].isInit]_vars

(* Every recording becomes a puzzle or an exception: no chain of pointers   *)
(* is followed for ever.                                                    *)
RefineEnds == phase = "parsing" ~> phase \in {"exported", "failed"}
=============================================================================
