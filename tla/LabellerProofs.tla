--------------------------- MODULE LabellerProofs ---------------------------
(***************************************************************************)
(* Theorems about Labeller, for any addresses and recordings of any length:*)
(* types, that every tag begins with the one step that makes it, that tags *)
(* are objects and none of a known object's steps is lost, that marks meet *)
(* their step, that the cleanup takes whole objects, and that every step   *)
(* of the programs leaves less to do.                                      *)
(***************************************************************************)
EXTENDS Labeller, SequenceTheorems, FiniteSetTheorems, WellFoundedInduction, TLAPS

-----------------------------------------------------------------------------
(* Numbers and sequences.                                                   *)

(* Every set of natural numbers has a least one. *)
LEMMA Least ==
  ASSUME NEW T \in SUBSET Nat, T # {}
  PROVE  \E m \in T : \A k \in T : m <= k
<1>1. PICK m \in T : \A k \in T : ~(<<k, m>> \in OpToRel(<, Nat))
  BY NatLessThanWellFounded, WFMin
<1>2. \A k \in T : ~(k < m)
  BY <1>1 DEF OpToRel
<1> QED BY <1>2

(* Induction up to a number: a set of numbers with 0 and, below n, with     *)
(* each number its successor. *)
LEMMA UpTo ==
  ASSUME NEW n \in Nat, NEW T, 0 \in T, \A i \in 1..n : i - 1 \in T => i \in T
  PROVE  0..n \subseteq T
<1> SUFFICES ASSUME ~(0..n \subseteq T) PROVE FALSE
  OBVIOUS
<1> DEFINE rest == (0..n) \ T
<1>1. rest \in SUBSET Nat /\ rest # {}
  OBVIOUS
<1>2. PICK m \in rest : \A k \in rest : m <= k
  BY <1>1, Least
<1>3. m # 0 /\ m - 1 \in 0..n /\ m \in 1..n /\ ~(m <= m - 1)
  BY <1>2
<1>4. m - 1 \in T
  BY <1>2, <1>3
<1> QED BY <1>2, <1>3, <1>4

(* The function of Only's definition has the values its equation says.      *)
LEMMA OnlyUnfolds ==
  ASSUME NEW S, NEW s \in Seq(S), NEW places
  PROVE  \E f : /\ Only(s, places) = f[Len(s)]
                /\ f[0] = <<>>
                /\ \A i \in 1..Len(s) :
                     f[i] = IF i \in places THEN Append(f[i - 1], s[i]) ELSE f[i - 1]
<1> DEFINE Step(f, i) == IF i = 0 THEN <<>>
                         ELSE IF i \in places THEN Append(f[i - 1], s[i]) ELSE f[i - 1]
           Fits(f, n) == f = [i \in 0..n |-> Step(f, i)]
           T == {n \in 0..Len(s) : \E f : Fits(f, n)}
           upTo == CHOOSE f : Fits(f, Len(s))
<1>1. Only(s, places) = upTo[Len(s)]
  BY DEF Only
<1>2. Len(s) \in Nat
  OBVIOUS
<1>3. 0 \in T
  <2> DEFINE g == [i \in 0..0 |-> <<>>]
  <2>1. g = [i \in 0..0 |-> Step(g, i)]
    OBVIOUS
  <2>2. Fits(g, 0)
    BY <2>1
  <2>3. \E f : Fits(f, 0)
    BY ONLY <2>2
  <2> HIDE DEF Fits
  <2> QED BY <1>2, <2>3
<1>4. ASSUME NEW n \in 1..Len(s), n - 1 \in T
      PROVE  n \in T
  <2>1. PICK f : Fits(f, n - 1)
    BY <1>4
  <2> DEFINE g == [i \in 0..n |-> IF i = n THEN Step(f, n) ELSE f[i]]
  <2>2. DOMAIN f = 0..(n - 1) /\ \A i \in 0..(n - 1) : f[i] = Step(f, i)
    BY <2>1
  <2>3. \A i \in 0..n : g[i] = IF i = n THEN Step(f, n) ELSE f[i]
    OBVIOUS
  <2>4. \A i \in 0..(n - 1) : g[i] = f[i]
    BY <1>2, <2>3
  <2>5. \A i \in 0..n : i # 0 => i - 1 \in 0..(n - 1)
    BY <1>2
  <2> HIDE DEF g
  <2>6. \A i \in 0..n : Step(g, i) = Step(f, i)
    BY <2>4, <2>5
  <2> HIDE DEF Step
  <2>7. \A i \in 0..n : g[i] = Step(g, i)
    BY <1>2, <2>2, <2>3, <2>6
  <2>8. g = [i \in 0..n |-> Step(g, i)]
    <3>1. g = [i \in 0..n |-> g[i]]
      BY DEF g
    <3> QED BY <2>7, <3>1
  <2>9. Fits(g, n)
    BY <2>8
  <2> QED BY <1>2, <2>9
<1> HIDE DEF Step
<1>5. Len(s) \in T
  <2> HIDE DEF T
  <2>1. 0..Len(s) \subseteq T
    BY <1>2, <1>3, <1>4, UpTo
  <2> QED BY <1>2, <2>1
<1>6. Fits(upTo, Len(s))
  BY <1>5
<1> HIDE DEF upTo
<1>7. \A i \in 0..Len(s) : upTo[i] = Step(upTo, i)
  BY <1>6
<1> QED BY <1>1, <1>2, <1>7 DEF Step

(* Induction over it: the places taken up to i, in their order.            *)
LEMMA OnlyPlaces ==
  ASSUME NEW S, NEW s \in Seq(S), NEW places \in SUBSET (1..Len(s))
  PROVE  /\ Only(s, places) \in Seq(S)
         /\ \E at \in [1..Len(Only(s, places)) -> places] :
              /\ \A k \in 1..Len(Only(s, places)) : Only(s, places)[k] = s[at[k]]
              /\ \A k, l \in 1..Len(Only(s, places)) : k < l => at[k] < at[l]
              /\ \A i \in places : \E k \in 1..Len(Only(s, places)) : at[k] = i
<1> DEFINE Right(t, at, n) ==
             /\ t \in Seq(S) /\ at \in Seq(Int) /\ Len(at) = Len(t)
             /\ \A k \in 1..Len(t) : at[k] \in places /\ at[k] \in 1..n /\ t[k] = s[at[k]]
             /\ \A k, l \in 1..Len(t) : k < l => at[k] < at[l]
             /\ \A i \in places : i <= n => \E k \in 1..Len(t) : at[k] = i
<1>0. Len(s) \in Nat
  OBVIOUS
<1>1. PICK f : /\ Only(s, places) = f[Len(s)]
               /\ f[0] = <<>>
               /\ \A i \in 1..Len(s) :
                    f[i] = IF i \in places THEN Append(f[i - 1], s[i]) ELSE f[i - 1]
  BY OnlyUnfolds
<1> DEFINE T == {n \in 0..Len(s) : \E at : Right(f[n], at, n)}
<1>2. 0 \in T
  <2>1. Right(<<>>, <<>>, 0)
    OBVIOUS
  <2> HIDE DEF Right
  <2> QED BY <1>0, <1>1, <2>1
<1>3. ASSUME NEW n \in 1..Len(s), n - 1 \in T
      PROVE  n \in T
  <2>1. PICK at : Right(f[n - 1], at, n - 1)
    BY <1>3
  <2>2. n \in Nat /\ n - 1 \in Nat /\ \A i : i \in 1..n <=> i \in 1..(n - 1) \/ i = n
    BY <1>0
  <2>3. CASE n \notin places
    <3>1. f[n] = f[n - 1]
      BY <1>1, <2>3
    <3>2. \A i \in places : i <= n <=> i <= n - 1
      BY <1>0, <2>2, <2>3
    <3>3. Right(f[n], at, n)
      BY <2>1, <2>2, <3>1, <3>2
    <3> HIDE DEF Right
    <3> QED BY <1>0, <3>3
  <2>4. CASE n \in places
    <3> DEFINE old == f[n - 1]
               new == Append(old, s[n])
               at2 == Append(at, n)
    <3>1. f[n] = new
      BY <1>1, <2>4
    <3>2. /\ old \in Seq(S) /\ at \in Seq(Int) /\ Len(at) = Len(old) /\ Len(old) \in Nat
          /\ \A k \in 1..Len(old) : at[k] \in places /\ at[k] \in 1..(n - 1) /\ old[k] = s[at[k]]
          /\ \A k, l \in 1..Len(old) : k < l => at[k] < at[l]
          /\ \A i \in places : i <= n - 1 => \E k \in 1..Len(old) : at[k] = i
      <4>1. Right(old, at, n - 1)
        BY <2>1
      <4> HIDE DEF old
      <4>2. old \in Seq(S)
        BY <4>1
      <4> QED BY <4>1, <4>2
    <3> HIDE DEF old
    <3>3. /\ new \in Seq(S) /\ at2 \in Seq(Int) /\ Len(new) = Len(old) + 1 /\ Len(at2) = Len(old) + 1
          /\ \A k \in 1..Len(old) : new[k] = old[k] /\ at2[k] = at[k]
          /\ new[Len(old) + 1] = s[n] /\ at2[Len(old) + 1] = n
      BY <2>2, <3>2
    <3> HIDE DEF new, at2
    <3>4. \A k : k \in 1..Len(new) <=> k \in 1..Len(old) \/ k = Len(old) + 1
      BY <3>2, <3>3
    <3>5. \A k \in 1..Len(new) : at2[k] \in places /\ at2[k] \in 1..n /\ new[k] = s[at2[k]]
      BY <2>2, <2>4, <3>2, <3>3, <3>4
    <3>6. ASSUME NEW k \in 1..Len(new), NEW l \in 1..Len(new), k < l
          PROVE  at2[k] < at2[l]
      <4>1. k \in 1..Len(old) /\ at2[k] \in 1..(n - 1) /\ at2[k] = at[k]
        <5>1. k # Len(old) + 1
          BY <3>2, <3>3, <3>6
        <5> QED BY <3>2, <3>3, <3>4, <5>1
      <4>2. CASE l \in 1..Len(old)
        BY <3>2, <3>3, <3>6, <4>1, <4>2
      <4>3. CASE l = Len(old) + 1
        BY <1>0, <3>3, <4>1, <4>3
      <4> QED BY <3>4, <4>2, <4>3
    <3>7. ASSUME NEW i \in places, i <= n
          PROVE  \E k \in 1..Len(new) : at2[k] = i
      <4>1. CASE i = n
        BY <3>3, <3>4, <4>1
      <4>2. CASE i # n
        <5>1. i <= n - 1
          BY <2>2, <3>7, <4>2
        <5>2. PICK k \in 1..Len(old) : at[k] = i
          BY <3>2, <5>1
        <5> QED BY <3>3, <3>4, <5>2
      <4> QED BY <4>1, <4>2
    <3>8. Right(new, at2, n)
      BY <3>3, <3>5, <3>6, <3>7
    <3> HIDE DEF Right
    <3> QED BY <1>0, <3>1, <3>8
  <2> QED BY <2>3, <2>4
<1>4. Len(s) \in T
  <2> HIDE DEF T
  <2>1. 0..Len(s) \subseteq T
    BY <1>0, <1>2, <1>3, UpTo
  <2> QED BY <1>0, <2>1
<1>5. PICK at : Right(Only(s, places), at, Len(s))
  <2> HIDE DEF Right
  <2> QED BY <1>1, <1>4
<1> DEFINE t == Only(s, places)
<1> HIDE DEF t
<1>6. at \in [1..Len(t) -> places]
  BY <1>5 DEF t
<1>7. \A i \in places : \E k \in 1..Len(t) : at[k] = i
  BY <1>0, <1>5 DEF t
<1> QED BY <1>5, <1>6, <1>7 DEF t

-----------------------------------------------------------------------------
(* The recording.                                                           *)

USE LabellerAssumption

LineRecords == [word : Words, ptr : Addrs \cup {Null}, number : Nat,
                ret : Addrs \cup {Null}, obj : 0..Unseen]

RecordingType ==
  /\ lines \in Seq(LineRecords) /\ Len(lines) <= MaxLines
  /\ heap \in [Addrs -> 0..Unseen] /\ objects \in 0..MaxLines
  /\ odd \subseteq {"allocfails", "reallocfails", "unseen", "exec"}

(* What a line is: the birth of an object (or of none, when there was no    *)
(* memory), or one that takes an address.                                   *)
IsHeap(i) == lines[i].word \in HeapWords
Birth(i) == lines[i].word \in Births \/ (lines[i].word = "REALLOC" /\ lines[i].ptr = Null)
TakesAt(i, a) == IsHeap(i) /\ ~Birth(i) /\ lines[i].ptr = a
About(i, o) == IsHeap(i) /\ lines[i].obj = o
NewImage(i) == lines[i].word = "PROCESS_START"

LineFits(i) ==
  /\ Birth(i) => \/ lines[i].obj \in Known /\ lines[i].ret \in Addrs
                 \/ lines[i].obj = 0 /\ lines[i].ret = Null
  /\ IsHeap(i) /\ ~Birth(i) => /\ lines[i].ptr \in Addrs
                               /\ lines[i].obj \in Known \cup {Unseen}
                               /\ lines[i].word \in {"REALLOC", "FREE"}
  /\ lines[i].word = "FREE" => lines[i].ret = Null
  /\ IsHeap(i) /\ lines[i].obj = Unseen => "unseen" \in odd
  /\ lines[i].word \in {"BUGGED", "TARGET"} => lines[i].number \in 1..MaxMarks
  /\ NewImage(i) => "exec" \in odd

LinesFit == \A i \in 1..Len(lines) : LineFits(i)

HeapFits ==
  /\ objects <= Len(lines)
  /\ \A a \in Addrs : heap[a] = 0 \/ heap[a] \in Known \/ (heap[a] = Unseen /\ "unseen" \in odd)
  /\ \A a, b \in Addrs : heap[a] = heap[b] /\ heap[a] \in Known => a = b

(* Every known object is born once, before anything else happens to it.     *)
BornAfter(o, i) == \E b \in 1..Len(lines) : i < b /\ Birth(b) /\ lines[b].obj = o

Born == \A o \in Known : BornAfter(o, 0)
BornOnce ==
  \A i, j \in 1..Len(lines) :
    Birth(i) /\ Birth(j) /\ lines[i].obj = lines[j].obj /\ lines[i].obj # 0 => i = j
BornFirst ==
  \A j \in 1..Len(lines) : IsHeap(j) /\ ~Birth(j) /\ lines[j].obj \in Known =>
    \E b \in 1..(j - 1) : Birth(b) /\ lines[b].obj = lines[j].obj

(* j is the first line after i that takes what i returns.                   *)
TakenFirst(i, j) ==
  /\ i < j /\ TakesAt(j, lines[i].ret)
  /\ \A k \in (i + 1)..(j - 1) : ~TakesAt(k, lines[i].ret)

(* j is the next line about the object of i. *)
Followed(i, j) ==
  /\ i < j /\ About(j, lines[i].obj)
  /\ \A k \in (i + 1)..(j - 1) : ~About(k, lines[i].obj)

LastOf(i, o, a) ==
  /\ About(i, o) /\ lines[i].ret = a
  /\ \A k \in (i + 1)..Len(lines) : ~About(k, o) /\ ~TakesAt(k, a)

Unbroken == "reallocfails" \notin odd

LastLines ==
  Unbroken => \A a \in Addrs : heap[a] \in Known => \E i \in 1..Len(lines) : LastOf(i, heap[a], a)
Succession ==
  Unbroken => \A i, j \in 1..Len(lines) :
                IsHeap(i) /\ lines[i].obj \in Known /\ Followed(i, j) => TakenFirst(i, j)

(* Where an address takes over from one object to another there is a new image. *)
SinceImage ==
  \A a \in Addrs : heap[a] \in Known =>
    \A x \in 1..Len(lines) : NewImage(x) => BornAfter(heap[a], x)
SinceTaken ==
  \A i \in 1..Len(lines) :
    /\ IsHeap(i) /\ lines[i].ret \in Addrs
    /\ \A k \in (i + 1)..Len(lines) : ~TakesAt(k, lines[i].ret)
    => heap[lines[i].ret] = lines[i].obj \/ \E x \in (i + 1)..Len(lines) : NewImage(x)
FirstTaker ==
  \A i, j \in 1..Len(lines) :
    IsHeap(i) /\ lines[i].ret \in Addrs /\ TakenFirst(i, j) =>
      \/ lines[j].obj = lines[i].obj
      \/ "exec" \in odd /\ (lines[j].obj \in Known => BornAfter(lines[j].obj, i))

RecordingInv ==
  /\ RecordingType /\ LinesFit /\ HeapFits /\ Born /\ BornOnce /\ BornFirst
  /\ LastLines /\ Succession /\ SinceImage /\ SinceTaken /\ FirstTaker

-----------------------------------------------------------------------------
(* One more line: what it is and what the earlier ones stay.                *)
Longer(line, n) ==
  /\ n = Len(lines) + 1 /\ Len(lines) \in Nat
  /\ lines' \in Seq(LineRecords) /\ Len(lines') = n
  /\ \A i \in 1..Len(lines) : lines'[i] = lines[i]
  /\ lines'[n] = line

LEMMA Logged ==
  ASSUME RecordingType, NEW line \in LineRecords, Log(line)
  PROVE  Longer(line, Len(lines) + 1) /\ Len(lines') <= MaxLines
BY DEF Log, RecordingType, Longer

LEMMA OldLine ==
  ASSUME NEW line, NEW n, Longer(line, n), NEW i \in 1..Len(lines)
  PROVE  /\ i \in 1..Len(lines') /\ i < n
         /\ IsHeap(i)' <=> IsHeap(i)
         /\ Birth(i)' <=> Birth(i)
         /\ NewImage(i)' <=> NewImage(i)
         /\ \A a : TakesAt(i, a)' <=> TakesAt(i, a)
         /\ \A o : About(i, o)' <=> About(i, o)
         /\ lines'[i] = lines[i]
BY DEF Longer, IsHeap, Birth, NewImage, TakesAt, About

LEMMA OldOrNew ==
  ASSUME NEW line, NEW n, Longer(line, n)
  PROVE  /\ \A i : i \in 1..Len(lines') <=> i \in 1..Len(lines) \/ i = n
         /\ \A i, k : i \in 1..Len(lines) /\ k \in (i + 1)..(n - 1) => k \in 1..Len(lines)
         /\ \A i, j, k : i \in 1..Len(lines) /\ j \in 1..Len(lines) /\ k \in (i + 1)..(j - 1)
                           => k \in 1..Len(lines)
         /\ n \notin 1..Len(lines) /\ n \in Nat \ {0} /\ n - 1 = Len(lines)
BY DEF Longer

LEMMA OldPair ==
  ASSUME NEW line, NEW n, Longer(line, n), NEW i \in 1..Len(lines), NEW j \in 1..Len(lines)
  PROVE  (TakenFirst(i, j)' <=> TakenFirst(i, j)) /\ (Followed(i, j)' <=> Followed(i, j))
<1>1. \A k \in (i + 1)..(j - 1) : k \in 1..Len(lines)
  BY OldOrNew
<1>2. \A k \in (i + 1)..(j - 1) :
        /\ \A a : TakesAt(k, a)' <=> TakesAt(k, a)
        /\ \A o : About(k, o)' <=> About(k, o)
  BY <1>1, OldLine
<1>3. /\ \A a : TakesAt(j, a)' <=> TakesAt(j, a)
      /\ \A o : About(j, o)' <=> About(j, o)
      /\ lines'[i] = lines[i]
  BY OldLine
<1> QED BY <1>2, <1>3 DEF TakenFirst, Followed

(* The new line after an old one. *)
LEMMA NewPair ==
  ASSUME NEW line, NEW n, Longer(line, n), NEW i \in 1..Len(lines)
  PROVE  /\ \A a : TakenFirst(i, n)' /\ a = lines[i].ret =>
              TakesAt(n, a)' /\ \A k \in (i + 1)..Len(lines) : ~TakesAt(k, a)
         /\ \A o : Followed(i, n)' /\ o = lines[i].obj =>
              About(n, o)' /\ \A k \in (i + 1)..Len(lines) : ~About(k, o)
<1>1. \A k \in (i + 1)..(n - 1) : k \in 1..Len(lines)
  BY OldOrNew
<1>2. \A k \in (i + 1)..(n - 1) :
        /\ \A a : TakesAt(k, a)' <=> TakesAt(k, a)
        /\ \A o : About(k, o)' <=> About(k, o)
  BY <1>1, OldLine
<1>3. n - 1 = Len(lines) /\ lines'[i] = lines[i]
  BY OldOrNew, OldLine
<1> QED BY <1>2, <1>3 DEF TakenFirst, Followed

LEMMA BornStill ==
  ASSUME NEW line, NEW n, Longer(line, n), NEW o, NEW i
  PROVE  /\ BornAfter(o, i) => BornAfter(o, i)'
         /\ Birth(n)' /\ line.obj = o /\ i < n => BornAfter(o, i)'
<1>1. ASSUME NEW b \in 1..Len(lines), i < b, Birth(b), lines[b].obj = o
      PROVE  b \in 1..Len(lines') /\ Birth(b)' /\ lines'[b].obj = o
  BY <1>1, OldLine
<1>2. n \in 1..Len(lines') /\ lines'[n] = line
  BY OldOrNew DEF Longer
<1> QED BY <1>1, <1>2 DEF BornAfter

(* What the target's lines say. *)
BirthLine(line) == line.word \in Births \/ (line.word = "REALLOC" /\ line.ptr = Null)
TargetLine(line) ==
  /\ line \in LineRecords /\ odd \subseteq odd'
  /\ \/ /\ BirthLine(line) /\ line.ptr = Null
        /\ line.obj = Fresh /\ line.ret \in Addrs /\ objects' = Fresh
     \/ /\ BirthLine(line) /\ line.ptr = Null
        /\ line.obj = 0 /\ line.ret = Null /\ objects' = objects
     \/ /\ line.word \in {"REALLOC", "FREE"} /\ line.ptr \in Addrs /\ objects' = objects
        /\ heap[line.ptr] # 0 /\ line.obj = heap[line.ptr]
        /\ line.word = "FREE" => line.ret = Null
     \/ /\ line.word \in Words \ HeapWords /\ objects' = objects
        /\ line.word \in {"BUGGED", "TARGET"} => line.number \in 1..MaxMarks
        /\ line.word = "PROCESS_START" => "exec" \in odd'

LEMMA NewLine ==
  ASSUME RecordingInv, NEW n, NEW line, Longer(line, n), TargetLine(line)
  PROVE  /\ lines'[n] = line /\ (IsHeap(n)' <=> line.word \in HeapWords)
         /\ Birth(n)' <=> BirthLine(line)
         /\ NewImage(n)' <=> line.word = "PROCESS_START"
         /\ \A a : TakesAt(n, a)' <=> line.word \in HeapWords /\ ~BirthLine(line) /\ line.ptr = a
         /\ \A o : About(n, o)' <=> line.word \in HeapWords /\ line.obj = o
BY DEF Longer, IsHeap, Birth, BirthLine, NewImage, TakesAt, About

LEMMA KnownGrows ==
  ASSUME RecordingInv, NEW line, TargetLine(line), Len(lines) < MaxLines
  PROVE  /\ Known' = Known \/ (Known' = Known \cup {Fresh} /\ BirthLine(line) /\ line.obj = Fresh)
         /\ Known \subseteq Known' /\ Fresh \notin Known /\ Fresh # Unseen /\ Fresh # 0
         /\ Unseen \notin Known' /\ 0 \notin Known' /\ Fresh \in 0..Unseen
<1>1. objects \in Nat /\ objects <= Len(lines) /\ Len(lines) \in Nat /\ MaxLines \in Nat
  BY DEF RecordingInv, RecordingType, HeapFits
<1>2. objects' = objects \/ (objects' = objects + 1 /\ BirthLine(line) /\ line.obj = Fresh)
  BY DEF TargetLine, Fresh
<1> QED BY <1>1, <1>2 DEF Known, Fresh, Unseen

LEMMA LinesFitStep ==
  ASSUME RecordingInv, NEW n, NEW line, Longer(line, n), TargetLine(line), Len(lines) < MaxLines
  PROVE  LinesFit'
<1>1. Known \subseteq Known' /\ odd \subseteq odd'
  BY KnownGrows DEF TargetLine
<1>2. ASSUME NEW i \in 1..Len(lines)
      PROVE  LineFits(i)'
  <2>1. LineFits(i)
    BY DEF RecordingInv, LinesFit
  <2>2. /\ IsHeap(i)' <=> IsHeap(i)
        /\ Birth(i)' <=> Birth(i)
        /\ NewImage(i)' <=> NewImage(i)
        /\ lines'[i] = lines[i]
    BY OldLine
  <2> HIDE DEF Known
  <2> QED BY <1>1, <2>1, <2>2 DEF LineFits
<1>3. LineFits(n)'
  <2>1. /\ lines'[n] = line /\ (IsHeap(n)' <=> line.word \in HeapWords)
        /\ Birth(n)' <=> BirthLine(line)
        /\ NewImage(n)' <=> line.word = "PROCESS_START"
    BY NewLine
  <2>2. Known \subseteq Known' /\ Unseen \notin Known' /\ 0 \notin Known' /\ Fresh # Unseen
        /\ (objects' = Fresh => Fresh \in Known')
    BY KnownGrows DEF RecordingInv, RecordingType, Fresh, Known
  <2>3. \A a \in Addrs : heap[a] = 0 \/ heap[a] \in Known \/ (heap[a] = Unseen /\ "unseen" \in odd)
    BY DEF RecordingInv, HeapFits
  <2>4. line.word \in HeapWords /\ ~BirthLine(line) => line.word \in {"REALLOC", "FREE"}
    BY DEF HeapWords, BirthLine
  <2>5. BirthLine(line) => line.word \in HeapWords /\ line.word \notin {"FREE", "BUGGED", "TARGET", "PROCESS_START"}
    BY DEF HeapWords, BirthLine, Births
  <2>6. line.word \in {"REALLOC", "FREE"} => line.word \in HeapWords
    BY DEF HeapWords
  <2>7. line.word \in {"REALLOC", "FREE"} /\ line.ptr \in Addrs => ~BirthLine(line)
    BY DEF BirthLine, Births
  <2>8. line.word \in HeapWords => line.word \notin {"BUGGED", "TARGET", "PROCESS_START"}
    BY DEF HeapWords, Births
  <2>9. Unseen # 0
    BY DEF Unseen
  <2> HIDE DEF Known
  <2>10. CASE BirthLine(line)
    BY <1>1, <2>1, <2>2, <2>5, <2>7, <2>9, <2>10 DEF LineFits, TargetLine
  <2>11. CASE line.word \in HeapWords /\ ~BirthLine(line)
    <3>1. line.ptr \in Addrs /\ heap[line.ptr] # 0 /\ line.obj = heap[line.ptr]
          /\ (line.word = "FREE" => line.ret = Null) /\ line.word \in {"REALLOC", "FREE"}
      BY <2>4, <2>11 DEF TargetLine
    <3>2. line.obj \in Known \/ (line.obj = Unseen /\ "unseen" \in odd)
      BY <2>3, <3>1
    <3> QED BY <1>1, <2>1, <2>2, <2>8, <2>11, <3>1, <3>2 DEF LineFits
  <2>12. CASE line.word \notin HeapWords
    BY <2>1, <2>5, <2>6, <2>12 DEF LineFits, TargetLine
  <2> QED BY <2>10, <2>11, <2>12
<1> QED BY <1>2, <1>3, OldOrNew DEF LinesFit

LEMMA BornStep ==
  ASSUME RecordingInv, NEW n, NEW line, Longer(line, n), TargetLine(line), Len(lines) < MaxLines
  PROVE  Born' /\ BornOnce' /\ BornFirst'
<1>1. /\ lines'[n] = line /\ (IsHeap(n)' <=> line.word \in HeapWords)
      /\ Birth(n)' <=> BirthLine(line)
  BY NewLine
<1>2. /\ Known' = Known \/ (Known' = Known \cup {Fresh} /\ BirthLine(line) /\ line.obj = Fresh)
      /\ Fresh \notin Known /\ Fresh # Unseen /\ Fresh # 0 /\ Unseen \notin Known'
  BY KnownGrows
<1>3. \A i : i \in 1..Len(lines') <=> i \in 1..Len(lines) \/ i = n
  BY OldOrNew
<1>4. n \in Nat \ {0} /\ n = Len(lines) + 1 /\ Len(lines) \in Nat
  BY OldOrNew DEF Longer
<1>5. \A i \in 1..Len(lines) : lines[i].obj # Fresh \/ ~IsHeap(i)
  BY <1>2 DEF RecordingInv, LinesFit, LineFits
<1>6. \A i : Birth(i) => IsHeap(i)
  BY DEF Birth, IsHeap, HeapWords
<1> HIDE DEF Known
<1>7. Born'
  <2> SUFFICES ASSUME NEW o \in Known' PROVE BornAfter(o, 0)'
    BY DEF Born
  <2>1. CASE o \in Known
    BY <2>1, BornStill DEF RecordingInv, Born
  <2>2. CASE o \notin Known
    BY <1>1, <1>2, <1>4, <2>2, BornStill
  <2> QED BY <2>1, <2>2
<1>8. BornOnce'
  <2>1. ASSUME NEW i \in 1..Len(lines), Birth(i)', Birth(n)', lines'[i].obj = line.obj, line.obj # 0
        PROVE  FALSE
    <3>1. Birth(i) /\ lines[i].obj = line.obj
      BY <2>1, OldLine
    <3>2. line.obj = Fresh
      BY <1>1, <2>1 DEF TargetLine, BirthLine, HeapWords, Births
    <3> QED BY <1>5, <1>6, <3>1, <3>2
  <2>2. ASSUME NEW i \in 1..Len(lines), NEW j \in 1..Len(lines),
               Birth(i)', Birth(j)', lines'[i].obj = lines'[j].obj, lines'[i].obj # 0
        PROVE  i = j
    BY <2>2, OldLine DEF RecordingInv, BornOnce
  <2> SUFFICES ASSUME NEW i \in 1..Len(lines'), NEW j \in 1..Len(lines'),
                      Birth(i)', Birth(j)', lines'[i].obj = lines'[j].obj, lines'[i].obj # 0
               PROVE  i = j
    BY DEF BornOnce
  <2> QED BY <1>1, <1>3, <2>1, <2>2
<1>9. BornFirst'
  <2> SUFFICES ASSUME NEW j \in 1..Len(lines'), IsHeap(j)', ~Birth(j)', lines'[j].obj \in Known'
               PROVE  \E b \in 1..(j - 1) : Birth(b)' /\ lines'[b].obj = lines'[j].obj
    BY DEF BornFirst
  <2>1. CASE j \in 1..Len(lines)
    <3>1. IsHeap(j) /\ ~Birth(j) /\ lines'[j] = lines[j]
      BY <2>1, OldLine
    <3>2. lines[j].obj \in Known
      BY <1>2, <1>5, <2>1, <3>1
    <3>3. PICK b \in 1..(j - 1) : Birth(b) /\ lines[b].obj = lines[j].obj
      BY <2>1, <3>1, <3>2 DEF RecordingInv, BornFirst
    <3>4. b \in 1..Len(lines)
      BY <1>4, <2>1
    <3> QED BY <3>1, <3>3, <3>4, OldLine
  <2>2. CASE j = n
    <3>1. line.ptr \in Addrs /\ heap[line.ptr] # 0 /\ line.obj = heap[line.ptr]
      BY <1>1, <2>2 DEF TargetLine
    <3>2. line.obj \in Known
      BY <1>1, <1>2, <2>2
    <3>3. PICK b \in 1..Len(lines) : Birth(b) /\ lines[b].obj = line.obj
      BY <3>2 DEF RecordingInv, Born, BornAfter
    <3>4. b \in 1..(n - 1)
      BY <1>4
    <3> QED BY <1>1, <2>2, <3>3, <3>4, OldLine
  <2> QED BY <1>3, <2>1, <2>2
<1> QED BY <1>7, <1>8, <1>9

(* The last line about an object was the one of its address, and nobody has *)
(* taken the address since.                                                 *)
LEMMA SuccessionStep ==
  ASSUME RecordingInv, NEW n, NEW line, Longer(line, n), TargetLine(line), Len(lines) < MaxLines
  PROVE  Succession'
<1> SUFFICES ASSUME Unbroken', NEW i \in 1..Len(lines'), NEW j \in 1..Len(lines'),
                    IsHeap(i)', lines'[i].obj \in Known', Followed(i, j)'
             PROVE  TakenFirst(i, j)'
  BY DEF Succession
<1>1. /\ lines'[n] = line /\ (IsHeap(n)' <=> line.word \in HeapWords)
      /\ \A a : TakesAt(n, a)' <=> line.word \in HeapWords /\ ~BirthLine(line) /\ line.ptr = a
      /\ \A o : About(n, o)' <=> line.word \in HeapWords /\ line.obj = o
  BY NewLine
<1>2. /\ Known' = Known \/ (Known' = Known \cup {Fresh} /\ BirthLine(line) /\ line.obj = Fresh)
      /\ Fresh \notin Known /\ Fresh # Unseen /\ Fresh # 0 /\ Unseen \notin Known' /\ 0 \notin Known'
  BY KnownGrows
<1>3. \A k : k \in 1..Len(lines') <=> k \in 1..Len(lines) \/ k = n
  BY OldOrNew
<1>4. n \in Nat \ {0} /\ n = Len(lines) + 1 /\ Len(lines) \in Nat
  BY OldOrNew DEF Longer
<1>5. i < j /\ Unbroken
  BY DEF Followed, Unbroken, TargetLine
<1>6. i \in 1..Len(lines) /\ IsHeap(i) /\ lines'[i] = lines[i]
  <2>1. i # n
    BY <1>3, <1>4, <1>5
  <2> QED BY <1>3, <2>1, OldLine
<1> HIDE DEF Known
<1>7. lines[i].obj \in Known
  BY <1>2, <1>6 DEF RecordingInv, LinesFit, LineFits
<1>8. CASE j \in 1..Len(lines)
  <2>1. Followed(i, j)
    BY <1>6, <1>8, OldPair
  <2>2. TakenFirst(i, j)
    BY <1>5, <1>6, <1>7, <1>8, <2>1 DEF RecordingInv, Succession
  <2> QED BY <1>6, <1>8, <2>2, OldPair
<1>9. CASE j = n
  <2>1. \A o : o = lines[i].obj => About(n, o)' /\ \A k \in (i + 1)..Len(lines) : ~About(k, o)
    BY <1>6, <1>9, NewPair
  <2>2. line.word \in HeapWords /\ line.obj = lines[i].obj /\ line.obj # Fresh /\ line.obj # 0
    BY <1>1, <1>2, <1>7, <2>1
  <2>3. ~BirthLine(line) /\ line.ptr \in Addrs /\ heap[line.ptr] = lines[i].obj
    BY <2>2 DEF TargetLine, BirthLine, Births
  <2>4. PICK l \in 1..Len(lines) : LastOf(l, lines[i].obj, line.ptr)
    BY <1>5, <1>7, <2>3 DEF RecordingInv, LastLines
  <2>5. l = i
    <3>1. About(l, lines[i].obj) /\ ~(i \in (l + 1)..Len(lines))
      BY <1>6, <2>4 DEF LastOf, About
    <3>2. ~(l \in (i + 1)..Len(lines))
      BY <2>1, <3>1
    <3> QED BY <1>4, <1>6, <3>1, <3>2
  <2>6. /\ lines[i].ret = line.ptr
        /\ \A k \in (i + 1)..(n - 1) : ~TakesAt(k, line.ptr)
    BY <1>4, <2>4, <2>5 DEF LastOf
  <2>7. \A k \in (i + 1)..(n - 1) : k \in 1..Len(lines)
    BY <1>4, <1>6
  <2>8. \A k \in (i + 1)..(n - 1) : ~TakesAt(k, line.ptr)'
    BY <2>6, <2>7, OldLine
  <2>9. TakesAt(n, line.ptr)'
    BY <1>1, <2>2, <2>3
  <2> QED BY <1>5, <1>6, <1>9, <2>6, <2>8, <2>9 DEF TakenFirst
<1> QED BY <1>3, <1>8, <1>9

LEMMA FirstTakerStep ==
  ASSUME RecordingInv, NEW n, NEW line, Longer(line, n), TargetLine(line), Len(lines) < MaxLines
  PROVE  FirstTaker'
<1> SUFFICES ASSUME NEW i \in 1..Len(lines'), NEW j \in 1..Len(lines'),
                    IsHeap(i)', lines'[i].ret \in Addrs, TakenFirst(i, j)',
                    NEW o, o = lines'[j].obj
             PROVE  o = lines'[i].obj \/ ("exec" \in odd' /\ (o \in Known' => BornAfter(o, i)'))
  BY DEF FirstTaker, BornAfter
<1>1. /\ lines'[n] = line
      /\ \A a : TakesAt(n, a)' <=> line.word \in HeapWords /\ ~BirthLine(line) /\ line.ptr = a
  BY NewLine
<1>2. /\ Known' = Known \/ (Known' = Known \cup {Fresh} /\ BirthLine(line) /\ line.obj = Fresh)
      /\ Fresh \notin Known /\ Fresh # Unseen /\ Fresh # 0
  BY KnownGrows
<1>3. \A k : k \in 1..Len(lines') <=> k \in 1..Len(lines) \/ k = n
  BY OldOrNew
<1>4. n \in Nat \ {0} /\ n = Len(lines) + 1 /\ Len(lines) \in Nat /\ odd \subseteq odd'
  BY OldOrNew DEF Longer, TargetLine
<1>5. i < j
  BY DEF TakenFirst
<1>6. i \in 1..Len(lines) /\ IsHeap(i) /\ lines'[i] = lines[i]
  <2>1. i # n
    BY <1>3, <1>4, <1>5
  <2> QED BY <1>3, <2>1, OldLine
<1> HIDE DEF Known
<1>7. CASE j \in 1..Len(lines)
  <2>1. TakenFirst(i, j) /\ lines'[j] = lines[j] /\ IsHeap(j)
    BY <1>6, <1>7, OldPair, OldLine DEF TakenFirst, TakesAt
  <2>2. \/ lines[j].obj = lines[i].obj
        \/ "exec" \in odd /\ (lines[j].obj \in Known => BornAfter(lines[j].obj, i))
    BY <1>6, <1>7, <2>1 DEF RecordingInv, FirstTaker
  <2>3. lines[j].obj # Fresh
    BY <1>2, <1>7, <2>1 DEF RecordingInv, LinesFit, LineFits
  <2>4. BornAfter(o, i) => BornAfter(o, i)'
    BY BornStill
  <2> QED BY <1>2, <1>4, <1>6, <2>1, <2>2, <2>3, <2>4
<1>8. CASE j = n
  <2>1. \A a : a = lines[i].ret => TakesAt(n, a)' /\ \A k \in (i + 1)..Len(lines) : ~TakesAt(k, a)
    BY <1>6, <1>8, NewPair
  <2>2. /\ line.ptr = lines[i].ret /\ line.ptr \in Addrs /\ line.obj = heap[line.ptr]
        /\ line.obj # 0 /\ ~BirthLine(line) /\ line.obj = o
    BY <1>1, <1>6, <1>8, <2>1 DEF TargetLine
  <2>3. heap[line.ptr] = lines[i].obj \/ \E x \in (i + 1)..Len(lines) : NewImage(x)
    BY <1>6, <2>1, <2>2 DEF RecordingInv, SinceTaken
  <2>4. CASE heap[line.ptr] = lines[i].obj
    BY <1>1, <1>6, <1>8, <2>2, <2>4
  <2>5. CASE \E x \in (i + 1)..Len(lines) : NewImage(x)
    <3>1. PICK x \in (i + 1)..Len(lines) : NewImage(x)
      BY <2>5
    <3>2. x \in 1..Len(lines) /\ i < x
      BY <1>4, <1>6
    <3>3. "exec" \in odd'
      BY <1>4, <3>1, <3>2 DEF RecordingInv, LinesFit, LineFits
    <3>4. line.obj \in Known => BornAfter(line.obj, x)
      BY <2>2, <3>1, <3>2 DEF RecordingInv, SinceImage
    <3>5. BornAfter(line.obj, x) => BornAfter(line.obj, i)
      BY <1>6, <3>2 DEF BornAfter
    <3>6. BornAfter(o, i) => BornAfter(o, i)'
      BY BornStill
    <3> QED BY <1>1, <1>2, <1>8, <2>2, <3>3, <3>4, <3>5, <3>6
  <2> QED BY <2>3, <2>4, <2>5
<1> QED BY <1>3, <1>7, <1>8

(* What a line does to the heap: an address stays as it was and the line is *)
(* not about it, or it is taken away, or what the line is about is put      *)
(* there, or all is gone with the image; a failed realloc changes nothing.  *)
Moves(line, a) ==
  \/ /\ heap'[a] = heap[a] /\ line.word # "PROCESS_START"
     /\ line.word \in HeapWords => line.ptr # a /\ (heap[a] \in Known => line.obj # heap[a])
  \/ heap'[a] = 0 /\ line.word \in {"REALLOC", "FREE"} /\ line.ptr = a
  \/ /\ line.word \in HeapWords /\ line.ret = a /\ heap'[a] = line.obj
     /\ heap[a] = 0 \/ line.ptr = a
  \/ heap'[a] = 0 /\ line.word = "PROCESS_START"
  \/ ~Unbroken' /\ heap'[a] = heap[a] /\ line.word = "REALLOC" /\ line.ptr = a /\ line.ret = Null

MovesAll(line) ==
  /\ heap' \in [Addrs -> 0..Unseen] /\ \A a \in Addrs : Moves(line, a)
  /\ line.word \in HeapWords /\ line.ret \in Addrs => heap'[line.ret] = line.obj

LEMMA HeapFitsStep ==
  ASSUME RecordingInv, NEW n, NEW line, Longer(line, n), TargetLine(line), Len(lines) < MaxLines,
         MovesAll(line)
  PROVE  HeapFits'
<1>1. /\ Known' = Known \/ (Known' = Known \cup {Fresh} /\ BirthLine(line) /\ line.obj = Fresh)
      /\ Fresh \notin Known /\ Fresh # Unseen /\ 0 \notin Known' /\ Unseen \notin Known'
      /\ Known \subseteq Known'
  BY KnownGrows
<1>2. objects' <= Len(lines')
  BY DEF RecordingInv, RecordingType, HeapFits, TargetLine, Fresh, Longer
<1>3. \A a \in Addrs : heap[a] = 0 \/ heap[a] \in Known \/ (heap[a] = Unseen /\ "unseen" \in odd)
  BY DEF RecordingInv, HeapFits
<1>4. \A a, b \in Addrs : heap[a] = heap[b] /\ heap[a] \in Known => a = b
  BY DEF RecordingInv, HeapFits
<1>5. odd \subseteq odd' /\ (objects' = Fresh => Fresh \in Known')
  BY DEF TargetLine, Known, Fresh, RecordingInv, RecordingType
<1> HIDE DEF Known
<1>6. line.word \in HeapWords => \/ line.obj = 0 \/ line.obj \in Known'
                                 \/ (line.obj = Unseen /\ "unseen" \in odd')
  BY <1>1, <1>3, <1>5 DEF TargetLine
<1>7. ASSUME NEW a \in Addrs
      PROVE  heap'[a] = 0 \/ heap'[a] \in Known' \/ (heap'[a] = Unseen /\ "unseen" \in odd')
  BY <1>1, <1>3, <1>5, <1>6 DEF MovesAll, Moves
<1>8. ASSUME NEW a \in Addrs, NEW b \in Addrs, heap'[a] = heap'[b], heap'[a] \in Known'
      PROVE  a = b
  <2>1. \A c \in Addrs : heap[c] \in Known \/ heap[c] \notin Known'
    BY <1>1, <1>3
  <2>2. \A c \in Addrs : heap'[c] = heap'[a] =>
          \/ heap'[c] = heap[c] /\ heap[c] \in Known /\ (line.word \in HeapWords => line.obj # heap[c])
          \/ line.word \in HeapWords /\ line.ret = c /\ heap'[c] = line.obj
          \/ /\ heap'[c] = heap[c] /\ heap[c] \in Known
             /\ line.word = "REALLOC" /\ line.ptr = c /\ line.ret = Null
    BY <1>1, <1>8, <2>1 DEF MovesAll, Moves
  <2>3. \A c \in Addrs : c # Null
    OBVIOUS
  <2>4. CASE heap'[a] = heap[a] /\ heap'[b] = heap[b] /\ heap[a] \in Known
    BY <1>4, <1>8, <2>4
  <2>5. CASE line.word \in HeapWords /\ line.ret = a /\ heap'[a] = line.obj
    BY <1>8, <2>2, <2>3, <2>5
  <2>6. CASE line.word \in HeapWords /\ line.ret = b /\ heap'[b] = line.obj
    BY <1>8, <2>2, <2>3, <2>6
  <2> QED BY <1>8, <2>2, <2>4, <2>5, <2>6
<1> QED BY <1>2, <1>7, <1>8 DEF HeapFits

LEMMA LastLinesStep ==
  ASSUME RecordingInv, NEW n, NEW line, Longer(line, n), TargetLine(line), Len(lines) < MaxLines,
         MovesAll(line)
  PROVE  LastLines'
<1> SUFFICES ASSUME Unbroken', NEW a \in Addrs, NEW o, o = heap'[a], o \in Known'
             PROVE  \E i \in 1..Len(lines') : LastOf(i, o, a)'
  BY DEF LastLines, LastOf, About
<1>1. /\ lines'[n] = line
      /\ \A x : TakesAt(n, x)' <=> line.word \in HeapWords /\ ~BirthLine(line) /\ line.ptr = x
      /\ \A x : About(n, x)' <=> line.word \in HeapWords /\ line.obj = x
  BY NewLine
<1>2. /\ Known' = Known \/ Known' = Known \cup {Fresh}
      /\ Fresh \notin Known /\ Fresh # Unseen /\ 0 \notin Known' /\ Unseen \notin Known'
  BY KnownGrows
<1>3. n \in Nat \ {0} /\ n = Len(lines) + 1 /\ Len(lines) \in Nat /\ Len(lines') = n
  BY OldOrNew DEF Longer
<1>4. Unbroken
  BY DEF Unbroken, TargetLine
<1> HIDE DEF Known
<1>5. CASE line.word \in HeapWords /\ line.ret = a /\ line.obj = o
  <2>1. About(n, o)' /\ lines'[n].ret = a
    BY <1>1, <1>5
  <2>2. \A k : k \notin (n + 1)..Len(lines')
    BY <1>3
  <2>3. LastOf(n, o, a)'
    BY <2>1, <2>2 DEF LastOf
  <2> QED BY <1>3, <2>3
<1>6. CASE heap[a] = o /\ (line.word \in HeapWords => line.ptr # a /\ line.obj # o)
  <2>1. o \in Known
    BY <1>2, <1>6 DEF RecordingInv, HeapFits
  <2>2. PICK i \in 1..Len(lines) : LastOf(i, o, a)
    BY <1>4, <1>6, <2>1 DEF RecordingInv, LastLines
  <2>3. About(i, o)' /\ lines'[i].ret = a
    BY <2>2, OldLine DEF LastOf
  <2>4. ASSUME NEW k \in (i + 1)..Len(lines')
        PROVE  ~About(k, o)' /\ ~TakesAt(k, a)'
    <3>1. CASE k \in 1..Len(lines)
      <4>1. ~About(k, o) /\ ~TakesAt(k, a)
        BY <1>3, <2>2, <3>1 DEF LastOf
      <4> QED BY <3>1, <4>1, OldLine
    <3>2. CASE k = n
      BY <1>1, <1>6, <3>2
    <3> QED BY <1>3, <3>1, <3>2
  <2>5. LastOf(i, o, a)'
    BY <2>3, <2>4 DEF LastOf
  <2> QED BY <1>3, <2>5
<1>7. heap[a] \in Known' => heap[a] \in Known
  BY <1>2 DEF RecordingInv, HeapFits
<1> QED BY <1>2, <1>5, <1>6, <1>7 DEF MovesAll, Moves

LEMMA SinceImageStep ==
  ASSUME RecordingInv, NEW n, NEW line, Longer(line, n), TargetLine(line), Len(lines) < MaxLines,
         MovesAll(line)
  PROVE  SinceImage'
<1> SUFFICES ASSUME NEW a \in Addrs, NEW o, o = heap'[a], o \in Known',
                    NEW x \in 1..Len(lines'), NewImage(x)'
             PROVE  BornAfter(o, x)'
  BY DEF SinceImage, BornAfter
<1>1. /\ Birth(n)' <=> BirthLine(line)
      /\ NewImage(n)' <=> line.word = "PROCESS_START"
  BY NewLine
<1>2. /\ Known' = Known \/ Known' = Known \cup {Fresh}
      /\ Fresh \notin Known /\ Fresh # Unseen /\ 0 \notin Known' /\ Unseen \notin Known'
  BY KnownGrows
<1>3. /\ n = Len(lines) + 1 /\ Len(lines) \in Nat
      /\ \A k : k \in 1..Len(lines') <=> k \in 1..Len(lines) \/ k = n
  BY OldOrNew DEF Longer
<1> HIDE DEF Known
<1>4. \A c \in Addrs : heap[c] \in Known' => heap[c] \in Known
  BY <1>2 DEF RecordingInv, HeapFits
<1>5. CASE line.word = "PROCESS_START"
  BY <1>2, <1>5 DEF MovesAll, Moves, HeapWords, Births
<1>6. CASE line.word # "PROCESS_START" /\ BirthLine(line) /\ line.obj = o
  <2>1. x \in 1..Len(lines)
    BY <1>1, <1>3, <1>6
  <2> QED BY <1>1, <1>3, <1>6, <2>1, BornStill
<1>7. CASE /\ line.word # "PROCESS_START"
           /\ \E c \in Addrs : heap[c] = o
  <2>1. x \in 1..Len(lines) /\ o \in Known
    BY <1>1, <1>3, <1>4, <1>7
  <2>2. NewImage(x)
    BY <2>1, OldLine
  <2>3. BornAfter(o, x)
    BY <1>7, <2>1, <2>2 DEF RecordingInv, SinceImage
  <2> QED BY <2>3, BornStill
<1>8. line.word # "PROCESS_START" => (BirthLine(line) /\ line.obj = o) \/ \E c \in Addrs : heap[c] = o
  <2>1. heap'[a] = heap[a] \/ (line.word \in HeapWords /\ line.obj = o) \/ line.word = "PROCESS_START"
    BY <1>2 DEF MovesAll, Moves
  <2>2. line.word \in HeapWords /\ ~BirthLine(line) => line.ptr \in Addrs /\ line.obj = heap[line.ptr]
    BY DEF TargetLine
  <2> QED BY <2>1, <2>2
<1> QED BY <1>5, <1>6, <1>7, <1>8

LEMMA SinceTakenStep ==
  ASSUME RecordingInv, NEW n, NEW line, Longer(line, n), TargetLine(line), Len(lines) < MaxLines,
         MovesAll(line)
  PROVE  SinceTaken'
<1> SUFFICES ASSUME NEW i \in 1..Len(lines'), NEW a \in Addrs, IsHeap(i)', lines'[i].ret = a,
                    \A k \in (i + 1)..Len(lines') : ~TakesAt(k, a)'
             PROVE  heap'[a] = lines'[i].obj \/ \E x \in (i + 1)..Len(lines') : NewImage(x)'
  BY DEF SinceTaken, TakesAt
<1>1. /\ lines'[n] = line /\ (IsHeap(n)' <=> line.word \in HeapWords)
      /\ NewImage(n)' <=> line.word = "PROCESS_START"
      /\ \A x : TakesAt(n, x)' <=> line.word \in HeapWords /\ ~BirthLine(line) /\ line.ptr = x
  BY NewLine
<1>2. /\ n = Len(lines) + 1 /\ Len(lines) \in Nat /\ Len(lines') = n
      /\ \A k : k \in 1..Len(lines') <=> k \in 1..Len(lines) \/ k = n
  BY OldOrNew DEF Longer
<1>3. CASE i = n
  BY <1>1, <1>3 DEF MovesAll
<1>4. CASE i \in 1..Len(lines)
  <2>1. IsHeap(i) /\ lines[i].ret = a /\ lines'[i] = lines[i]
    BY <1>4, OldLine
  <2>2. \A k \in (i + 1)..Len(lines) : ~TakesAt(k, a)
    <3>1. \A k \in (i + 1)..Len(lines) : k \in 1..Len(lines) /\ k \in (i + 1)..Len(lines')
      BY <1>2, <1>4
    <3> QED BY <3>1, OldLine
  <2>3. heap[a] = lines[i].obj \/ \E x \in (i + 1)..Len(lines) : NewImage(x)
    BY <1>4, <2>1, <2>2 DEF RecordingInv, SinceTaken
  <2>4. (\E x \in (i + 1)..Len(lines) : NewImage(x)) => \E x \in (i + 1)..Len(lines') : NewImage(x)'
    <3>1. \A k \in (i + 1)..Len(lines) : k \in 1..Len(lines) /\ k \in (i + 1)..Len(lines')
      BY <1>2, <1>4
    <3> QED BY <3>1, OldLine
  <2>5. n \in (i + 1)..Len(lines') /\ ~TakesAt(n, a)'
    BY <1>2, <1>4
  <2>6. lines[i].obj # 0
    <3>1. LineFits(i)
      BY <1>4 DEF RecordingInv, LinesFit
    <3>2. Unseen # 0 /\ 0 \notin Known
      BY DEF Unseen, Known
    <3>3. Null # a
      OBVIOUS
    <3> HIDE DEF Known
    <3> QED BY <2>1, <3>1, <3>2, <3>3 DEF LineFits
  <2>7. line.word \in {"REALLOC", "FREE"} /\ line.ptr = a => TakesAt(n, a)'
    BY <1>1 DEF HeapWords, BirthLine, Births
  <2>8. line.word \in HeapWords /\ line.ptr = a => TakesAt(n, a)'
    <3>1. line.ptr = a => line.ptr # Null
      OBVIOUS
    <3>2. line.word \in HeapWords /\ BirthLine(line) => line.ptr # a
      BY <3>1 DEF TargetLine, BirthLine, Births
    <3> QED BY <1>1, <3>2
  <2>9. ~(line.word \in HeapWords /\ line.ptr = a)
    BY <2>5, <2>8
  <2>10. "REALLOC" \in HeapWords /\ "FREE" \in HeapWords
    BY DEF HeapWords
  <2>11. heap'[a] = heap[a] \/ heap[a] = 0 \/ line.word = "PROCESS_START"
    BY <2>9, <2>10 DEF MovesAll, Moves
  <2>12. CASE line.word = "PROCESS_START"
    BY <1>1, <2>5, <2>12
  <2> QED BY <2>1, <2>3, <2>4, <2>6, <2>11, <2>12
<1> QED BY <1>2, <1>3, <1>4

(* Together: a line that says what happens to the heap. *)
LEMMA RecordedStep ==
  ASSUME RecordingInv, NEW line \in LineRecords, Log(line), TargetLine(line), MovesAll(line),
         odd' \subseteq {"allocfails", "reallocfails", "unseen", "exec"}
  PROVE  RecordingInv'
<1> DEFINE n == Len(lines) + 1
<1>1. Longer(line, n) /\ Len(lines') <= MaxLines /\ Len(lines) < MaxLines
  <2>1. Len(lines) < MaxLines
    BY DEF Log
  <2>2. RecordingType
    BY DEF RecordingInv
  <2> QED BY <2>1, <2>2, Logged
<1>2. objects' \in 0..MaxLines
  <2>1. objects \in 0..MaxLines /\ objects <= Len(lines) /\ Len(lines) \in Nat
    BY DEF RecordingInv, RecordingType, HeapFits
  <2>2. objects' = objects \/ objects' = objects + 1
    BY DEF TargetLine, Fresh
  <2> QED BY <1>1, <2>1, <2>2
<1>3. RecordingType'
  BY <1>1, <1>2 DEF RecordingType, Longer, MovesAll
<1> HIDE DEF n
<1>4. LinesFit' /\ Born' /\ BornOnce' /\ BornFirst'
  BY <1>1, LinesFitStep, BornStep
<1>5. Succession' /\ FirstTaker' /\ HeapFits'
  BY <1>1, SuccessionStep, FirstTakerStep, HeapFitsStep
<1>6. LastLines' /\ SinceImage' /\ SinceTaken'
  BY <1>1, LastLinesStep, SinceImageStep, SinceTakenStep
<1> QED BY <1>3, <1>4, <1>5, <1>6 DEF RecordingInv

LEMMA LineFields ==
  ASSUME NEW word, NEW ptr, NEW number, NEW ret, NEW obj
  PROVE  /\ Line(word, ptr, number, ret, obj).word = word
         /\ Line(word, ptr, number, ret, obj).ptr = ptr
         /\ Line(word, ptr, number, ret, obj).number = number
         /\ Line(word, ptr, number, ret, obj).ret = ret
         /\ Line(word, ptr, number, ret, obj).obj = obj
         /\ /\ word \in Words /\ ptr \in Addrs \cup {Null} /\ number \in Nat
            /\ ret \in Addrs \cup {Null} /\ obj \in 0..Unseen
            => Line(word, ptr, number, ret, obj) \in LineRecords
BY DEF Line, LineRecords

LEMMA AllocateStep ==
  ASSUME RecordingInv, NEW word \in Births \cup {"REALLOC"}, NEW a \in Addrs, Allocate(word, a)
  PROVE  RecordingInv'
<1> DEFINE line == Line(word, Null, 1, a, Fresh)
<1>1. Fresh \notin Known /\ Fresh \in 0..Unseen
  BY DEF RecordingInv, RecordingType, Known, Fresh, Unseen
<1>2. /\ line \in LineRecords /\ line.word = word /\ line.ptr = Null /\ line.ret = a
      /\ line.obj = Fresh
  BY <1>1, LineFields DEF Words, HeapWords
<1>3. Log(line) /\ objects' = Fresh /\ odd' = odd /\ heap[a] = 0
      /\ heap' = [heap EXCEPT ![a] = Fresh]
  BY DEF Allocate
<1> HIDE DEF line
<1>4. TargetLine(line)
  BY <1>2, <1>3 DEF TargetLine, BirthLine
<1>5. heap \in [Addrs -> 0..Unseen]
  BY DEF RecordingInv, RecordingType
<1>6. MovesAll(line)
  <2>1. heap' \in [Addrs -> 0..Unseen] /\ heap'[a] = Fresh
    BY <1>1, <1>3, <1>5
  <2>2. word \in HeapWords /\ word # "PROCESS_START"
    BY DEF HeapWords, Births
  <2>3. ASSUME NEW b \in Addrs PROVE Moves(line, b)
    <3>1. CASE b = a
      BY <1>2, <1>3, <2>1, <2>2, <3>1 DEF Moves
    <3>2. CASE b # a
      BY <1>1, <1>2, <1>3, <1>5, <2>2, <3>2 DEF Moves
    <3> QED BY <3>1, <3>2
  <2> QED BY <1>2, <2>1, <2>3 DEF MovesAll
<1>7. odd' \subseteq {"allocfails", "reallocfails", "unseen", "exec"}
  BY <1>3 DEF RecordingInv, RecordingType
<1> QED BY <1>2, <1>3, <1>4, <1>6, <1>7, RecordedStep

LEMMA AllocateFailsStep ==
  ASSUME RecordingInv, NEW word \in Births, AllocateFails(word)
  PROVE  RecordingInv'
<1> DEFINE line == Line(word, Null, 1, Null, 0)
<1>1. /\ line \in LineRecords /\ line.word = word /\ line.ptr = Null /\ line.ret = Null
      /\ line.obj = 0
  <2>1. 0 \in 0..Unseen
    BY DEF Unseen
  <2> QED BY <2>1, LineFields DEF Words, HeapWords
<1>2. Log(line) /\ objects' = objects /\ odd' = odd \cup {"allocfails"} /\ heap' = heap
  BY DEF AllocateFails
<1> HIDE DEF line
<1>3. TargetLine(line)
  BY <1>1, <1>2 DEF TargetLine, BirthLine
<1>4. MovesAll(line)
  <2>1. heap \in [Addrs -> 0..Unseen] /\ 0 \notin Known
    BY DEF RecordingInv, RecordingType, Known
  <2> HIDE DEF Known
  <2>2. word # "PROCESS_START"
    BY DEF Births
  <2> QED BY <1>1, <1>2, <2>1, <2>2 DEF MovesAll, Moves
<1>5. odd' \subseteq {"allocfails", "reallocfails", "unseen", "exec"}
  BY <1>2 DEF RecordingInv, RecordingType
<1> QED BY <1>1, <1>2, <1>3, <1>4, <1>5, RecordedStep

LEMMA TakeAwayStep ==
  ASSUME RecordingInv, NEW a \in Addrs, Free(a) \/ ReallocZero(a)
  PROVE  RecordingInv'
<1> DEFINE free == Line("FREE", a, 0, Null, heap[a])
           zero == Line("REALLOC", a, 0, Null, heap[a])
<1>1. heap \in [Addrs -> 0..Unseen] /\ heap[a] \in 0..Unseen
  BY DEF RecordingInv, RecordingType
<1>2. PICK line \in {free, zero} : Log(line)
  BY DEF Free, ReallocZero
<1>3. /\ line \in LineRecords /\ line.word \in {"REALLOC", "FREE"} /\ line.ptr = a
      /\ line.ret = Null /\ line.obj = heap[a]
  BY <1>1, LineFields DEF Words, HeapWords
<1> HIDE DEF free, zero
<1>4. objects' = objects /\ odd' = odd /\ heap[a] # 0 /\ heap' = [heap EXCEPT ![a] = 0]
  BY DEF Free, ReallocZero
<1>5. TargetLine(line)
  BY <1>3, <1>4 DEF TargetLine
<1>6. MovesAll(line)
  <2>1. heap' \in [Addrs -> 0..Unseen] /\ heap'[a] = 0
    BY <1>1, <1>4 DEF Unseen
  <2>2. ASSUME NEW b \in Addrs PROVE Moves(line, b)
    <3>1. CASE b = a
      BY <1>3, <2>1, <3>1 DEF Moves
    <3>2. CASE b # a
      <4>1. heap[b] \in Known => heap[a] # heap[b]
        BY <3>2 DEF RecordingInv, HeapFits
      <4> QED BY <1>1, <1>3, <1>4, <3>2, <4>1 DEF Moves
    <3> QED BY <3>1, <3>2
  <2> QED BY <1>3, <2>1, <2>2 DEF MovesAll
<1>7. odd' \subseteq {"allocfails", "reallocfails", "unseen", "exec"}
  BY <1>4 DEF RecordingInv, RecordingType
<1> QED BY <1>2, <1>3, <1>5, <1>6, <1>7, RecordedStep

LEMMA ReallocStep ==
  ASSUME RecordingInv, NEW a \in Addrs, NEW b \in Addrs, Realloc(a, b)
  PROVE  RecordingInv'
<1> DEFINE line == Line("REALLOC", a, 1, b, heap[a])
<1>1. heap \in [Addrs -> 0..Unseen] /\ heap[a] \in 0..Unseen
  BY DEF RecordingInv, RecordingType
<1>2. /\ line \in LineRecords /\ line.word = "REALLOC" /\ line.ptr = a
      /\ line.ret = b /\ line.obj = heap[a]
  BY <1>1, LineFields DEF Words, HeapWords
<1>3. Log(line) /\ objects' = objects /\ odd' = odd /\ heap[a] # 0 /\ (b = a \/ heap[b] = 0)
      /\ heap' = [heap EXCEPT ![a] = 0, ![b] = heap[a]]
  BY DEF Realloc
<1> HIDE DEF line
<1>4. TargetLine(line)
  BY <1>2, <1>3 DEF TargetLine
<1>5. MovesAll(line)
  <2>1. /\ heap' \in [Addrs -> 0..Unseen] /\ heap'[b] = heap[a] /\ (a # b => heap'[a] = 0)
        /\ \A c \in Addrs : c # a /\ c # b => heap'[c] = heap[c]
    BY <1>1, <1>3 DEF Unseen
  <2>2. ASSUME NEW c \in Addrs PROVE Moves(line, c)
    <3>1. CASE c = b
      BY <1>2, <1>3, <2>1, <3>1 DEF Moves, HeapWords
    <3>2. CASE c # b /\ c = a
      BY <1>2, <2>1, <3>2 DEF Moves
    <3>3. CASE c # b /\ c # a
      <4>1. heap[c] \in Known => heap[a] # heap[c]
        BY <3>3 DEF RecordingInv, HeapFits
      <4> QED BY <1>2, <2>1, <3>3, <4>1 DEF Moves
    <3> QED BY <3>1, <3>2, <3>3
  <2> QED BY <1>2, <2>1, <2>2 DEF MovesAll
<1>6. odd' \subseteq {"allocfails", "reallocfails", "unseen", "exec"}
  BY <1>3 DEF RecordingInv, RecordingType
<1> QED BY <1>2, <1>3, <1>4, <1>5, <1>6, RecordedStep

LEMMA ReallocFailsStep ==
  ASSUME RecordingInv, NEW a \in Addrs, ReallocFails(a)
  PROVE  RecordingInv'
<1> DEFINE line == Line("REALLOC", a, 1, Null, heap[a])
<1>1. heap \in [Addrs -> 0..Unseen] /\ heap[a] \in 0..Unseen
  BY DEF RecordingInv, RecordingType
<1>2. /\ line \in LineRecords /\ line.word = "REALLOC" /\ line.ptr = a
      /\ line.ret = Null /\ line.obj = heap[a]
  BY <1>1, LineFields DEF Words, HeapWords
<1>3. Log(line) /\ objects' = objects /\ heap[a] # 0 /\ heap' = heap
      /\ odd' = odd \cup {"reallocfails"}
  BY DEF ReallocFails
<1> HIDE DEF line
<1>4. TargetLine(line)
  BY <1>2, <1>3 DEF TargetLine
<1>5. MovesAll(line)
  <2>1. ASSUME NEW c \in Addrs PROVE Moves(line, c)
    <3>1. CASE c = a
      BY <1>2, <1>3, <3>1 DEF Moves, Unbroken
    <3>2. CASE c # a
      <4>1. heap[c] \in Known => heap[a] # heap[c]
        BY <3>2 DEF RecordingInv, HeapFits
      <4> QED BY <1>2, <1>3, <3>2, <4>1 DEF Moves
    <3> QED BY <3>1, <3>2
  <2> QED BY <1>1, <1>2, <1>3, <2>1 DEF MovesAll
<1>6. odd' \subseteq {"allocfails", "reallocfails", "unseen", "exec"}
  BY <1>3 DEF RecordingInv, RecordingType
<1> QED BY <1>2, <1>3, <1>4, <1>5, <1>6, RecordedStep

LEMMA ExecStep ==
  ASSUME RecordingInv, Exec
  PROVE  RecordingInv'
<1>1. PICK main \in {0, 1} : Log(Line("PROCESS_START", Null, main, Null, 0))
  BY DEF Exec
<1> DEFINE line == Line("PROCESS_START", Null, main, Null, 0)
<1>2. 0 \in 0..Unseen /\ main \in Nat
  BY DEF Unseen
<1>3. line \in LineRecords /\ line.word = "PROCESS_START"
  BY <1>2, LineFields DEF Words
<1>4. Log(line) /\ objects' = objects /\ heap' = [a \in Addrs |-> 0] /\ odd' = odd \cup {"exec"}
  BY <1>1 DEF Exec
<1> HIDE DEF line
<1>5. TargetLine(line)
  BY <1>3, <1>4 DEF TargetLine, Words, HeapWords, Births
<1>6. MovesAll(line)
  BY <1>2, <1>3, <1>4 DEF MovesAll, Moves, HeapWords, Births
<1>7. odd' \subseteq {"allocfails", "reallocfails", "unseen", "exec"}
  BY <1>4 DEF RecordingInv, RecordingType
<1> QED BY <1>3, <1>4, <1>5, <1>6, <1>7, RecordedStep

LEMMA AnnotateStep ==
  ASSUME RecordingInv, Annotate
  PROVE  RecordingInv'
<1>1. PICK word \in {"NEXT", "END", "BUGGED", "TARGET"}, n \in Nat :
        /\ Log(Line(word, Null, n, Null, 0))
        /\ word \in {"BUGGED", "TARGET"} => n \in 1..MaxMarks
  BY DEF Annotate
<1> DEFINE line == Line(word, Null, n, Null, 0)
<1>2. 0 \in 0..Unseen
  BY DEF Unseen
<1>3. line \in LineRecords /\ line.word = word /\ line.number = n
  BY <1>2, LineFields DEF Words
<1>4. Log(line) /\ objects' = objects /\ heap' = heap /\ odd' = odd
  BY <1>1 DEF Annotate
<1> HIDE DEF line
<1>5. TargetLine(line)
  BY <1>1, <1>3, <1>4 DEF TargetLine, Words, HeapWords, Births
<1>6. MovesAll(line)
  BY <1>2, <1>3, <1>4 DEF MovesAll, Moves, HeapWords, Births, RecordingInv, RecordingType
<1>7. odd' \subseteq {"allocfails", "reallocfails", "unseen", "exec"}
  BY <1>4 DEF RecordingInv, RecordingType
<1> QED BY <1>3, <1>4, <1>5, <1>6, <1>7, RecordedStep

LEMMA AllocateUnseenStep ==
  ASSUME RecordingInv, NEW a \in Addrs, AllocateUnseen(a)
  PROVE  RecordingInv'
<1>1. /\ lines' = lines /\ objects' = objects /\ odd' = odd \cup {"unseen"}
      /\ heap[a] = 0 /\ heap' = [heap EXCEPT ![a] = Unseen]
  BY DEF AllocateUnseen
<1>2. heap \in [Addrs -> 0..Unseen] /\ Unseen \notin Known /\ Unseen \in 0..Unseen /\ 0 \notin Known
  BY DEF RecordingInv, RecordingType, Known, Unseen
<1>3. /\ heap' \in [Addrs -> 0..Unseen] /\ heap'[a] = Unseen
      /\ \A b \in Addrs : b # a => heap'[b] = heap[b]
  BY <1>1, <1>2
<1>4. Known' = Known
  BY <1>1 DEF Known
<1> HIDE DEF Known
<1>5. RecordingType'
  BY <1>1, <1>3 DEF RecordingInv, RecordingType
<1>6. LinesFit'
  BY <1>1, <1>4 DEF RecordingInv, LinesFit, LineFits, Birth, IsHeap, NewImage
<1>7. HeapFits'
  BY <1>1, <1>2, <1>3, <1>4 DEF RecordingInv, HeapFits
<1>8. Born' /\ BornOnce' /\ BornFirst'
  BY <1>1, <1>4 DEF RecordingInv, Born, BornOnce, BornFirst, BornAfter, Birth, IsHeap
<1>9. LastLines' /\ Succession'
  <2>1. ASSUME NEW i, NEW o, NEW b PROVE LastOf(i, o, b)' <=> LastOf(i, o, b)
    BY <1>1 DEF LastOf, About, TakesAt, IsHeap, Birth
  <2>2. ASSUME NEW i, NEW j
        PROVE  (Followed(i, j)' <=> Followed(i, j)) /\ (TakenFirst(i, j)' <=> TakenFirst(i, j))
    BY <1>1 DEF Followed, TakenFirst, About, TakesAt, IsHeap, Birth
  <2>3. Unbroken' => Unbroken
    BY <1>1 DEF Unbroken
  <2>4. LastLines'
    <3> SUFFICES ASSUME Unbroken', NEW b \in Addrs, NEW o, o = heap'[b], o \in Known
                 PROVE  \E i \in 1..Len(lines) : LastOf(i, o, b)'
      BY <1>1, <1>4 DEF LastLines, LastOf, About
    <3>1. heap[b] = o
      BY <1>2, <1>3
    <3>2. PICK i \in 1..Len(lines) : LastOf(i, o, b)
      BY <2>3, <3>1 DEF RecordingInv, LastLines
    <3> QED BY <2>1, <3>2
  <2>5. Succession'
    <3>1. Unbroken => \A i, j \in 1..Len(lines) :
            IsHeap(i) /\ lines[i].obj \in Known /\ Followed(i, j) => TakenFirst(i, j)
      BY DEF RecordingInv, Succession
    <3> QED BY <1>1, <1>4, <2>2, <2>3, <3>1 DEF Succession, IsHeap
  <2> QED BY <2>4, <2>5
<1>10. SinceImage'
  <2> SUFFICES ASSUME NEW b \in Addrs, heap'[b] \in Known, NEW x \in 1..Len(lines), NewImage(x)
               PROVE  BornAfter(heap'[b], x)
    BY <1>1, <1>4 DEF SinceImage, NewImage, BornAfter, Birth
  <2> QED BY <1>2, <1>3 DEF RecordingInv, SinceImage
<1>11. SinceTaken'
  <2> SUFFICES ASSUME NEW i \in 1..Len(lines), IsHeap(i), lines[i].ret \in Addrs,
                      \A k \in (i + 1)..Len(lines) : ~TakesAt(k, lines[i].ret)
               PROVE  heap'[lines[i].ret] = lines[i].obj \/ \E x \in (i + 1)..Len(lines) : NewImage(x)
    BY <1>1 DEF SinceTaken, NewImage, TakesAt, IsHeap, Birth
  <2>1. heap[lines[i].ret] = lines[i].obj \/ \E x \in (i + 1)..Len(lines) : NewImage(x)
    BY DEF RecordingInv, SinceTaken
  <2>2. lines[i].obj # 0
    <3>1. LineFits(i)
      BY DEF RecordingInv, LinesFit
    <3>2. Unseen # 0 /\ \A b \in Addrs : b # Null
      BY DEF Unseen
    <3> QED BY <1>2, <3>1, <3>2 DEF LineFits
  <2> QED BY <1>1, <1>3, <2>1, <2>2
<1>12. FirstTaker'
  <2>1. ASSUME NEW i, NEW j
        PROVE  TakenFirst(i, j)' <=> TakenFirst(i, j)
    BY <1>1 DEF TakenFirst, TakesAt, IsHeap, Birth
  <2>2. ASSUME NEW o, NEW i
        PROVE  BornAfter(o, i)' <=> BornAfter(o, i)
    BY <1>1 DEF BornAfter, Birth
  <2> SUFFICES ASSUME NEW i \in 1..Len(lines), NEW j \in 1..Len(lines),
                      IsHeap(i), lines[i].ret \in Addrs, TakenFirst(i, j)
               PROVE  \/ lines[j].obj = lines[i].obj
                      \/ "exec" \in odd' /\ (lines[j].obj \in Known => BornAfter(lines[j].obj, i))
    BY <1>1, <1>4, <2>1, <2>2 DEF FirstTaker, IsHeap
  <2> QED BY <1>1 DEF RecordingInv, FirstTaker
<1> QED BY <1>5, <1>6, <1>7, <1>8, <1>9, <1>10, <1>11, <1>12 DEF RecordingInv

LEMMA TargetSteps ==
  ASSUME RecordingInv, Target
  PROVE  RecordingInv'
<1>1. ASSUME NEW word \in Births, AllocateFails(word)
      PROVE  RecordingInv'
  BY <1>1, AllocateFailsStep
<1>2. ASSUME NEW word \in Births \cup {"REALLOC"}, NEW a \in Addrs, Allocate(word, a)
      PROVE  RecordingInv'
  BY <1>2, AllocateStep
<1>3. ASSUME NEW a \in Addrs, AllocateUnseen(a)
      PROVE  RecordingInv'
  BY <1>3, AllocateUnseenStep
<1>4. ASSUME NEW a \in Addrs, Free(a) \/ ReallocZero(a)
      PROVE  RecordingInv'
  BY <1>4, TakeAwayStep
<1>5. ASSUME NEW a \in Addrs, ReallocFails(a)
      PROVE  RecordingInv'
  BY <1>5, ReallocFailsStep
<1>6. ASSUME NEW a \in Addrs, NEW b \in Addrs, Realloc(a, b)
      PROVE  RecordingInv'
  BY <1>6, ReallocStep
<1>7. Exec \/ Annotate => RecordingInv'
  BY ExecStep, AnnotateStep
<1>8. \/ \E word \in Births : AllocateFails(word) \/ \E a \in Addrs : Allocate(word, a)
      \/ \E a \in Addrs :
           \/ Allocate("REALLOC", a) \/ AllocateUnseen(a)
           \/ Free(a) \/ ReallocZero(a) \/ ReallocFails(a)
           \/ \E b \in Addrs : Realloc(a, b)
      \/ Exec \/ Annotate
  BY DEF Target
<1> QED BY <1>1, <1>2, <1>3, <1>4, <1>5, <1>6, <1>7, <1>8

LEMMA RecordingKept ==
  ASSUME RecordingInv, UNCHANGED recording
  PROVE  RecordingInv'
<1>1. lines' = lines /\ heap' = heap /\ objects' = objects /\ odd' = odd
  BY DEF recording
<1>2. Known' = Known
  BY <1>1 DEF Known
<1> HIDE DEF Known
<1>3. \A i : /\ IsHeap(i)' <=> IsHeap(i)
             /\ Birth(i)' <=> Birth(i)
             /\ NewImage(i)' <=> NewImage(i)
             /\ \A o : About(i, o)' <=> About(i, o)
             /\ \A o : BornAfter(o, i)' <=> BornAfter(o, i)
             /\ \A a : TakesAt(i, a)' <=> TakesAt(i, a)
  BY <1>1 DEF IsHeap, Birth, NewImage, About, BornAfter, TakesAt
<1>4. RecordingType' /\ LinesFit' /\ HeapFits'
  BY <1>1, <1>2, <1>3 DEF RecordingInv, RecordingType, LinesFit, LineFits, HeapFits
<1>5. Born' /\ BornOnce' /\ BornFirst'
  BY <1>1, <1>2, <1>3 DEF RecordingInv, Born, BornOnce, BornFirst
<1>6. \A i, j : (Followed(i, j)' <=> Followed(i, j)) /\ (TakenFirst(i, j)' <=> TakenFirst(i, j))
  BY <1>1, <1>3 DEF Followed, TakenFirst
<1>7. \A i, o, a : LastOf(i, o, a)' <=> LastOf(i, o, a)
  BY <1>1, <1>3 DEF LastOf
<1>8. LastLines' /\ Succession'
  BY <1>1, <1>2, <1>3, <1>6, <1>7 DEF RecordingInv, LastLines, Succession, Unbroken
<1>9. SinceImage' /\ SinceTaken' /\ FirstTaker'
  BY <1>1, <1>2, <1>3, <1>6 DEF RecordingInv, SinceImage, SinceTaken, FirstTaker
<1> QED BY <1>4, <1>5, <1>8, <1>9 DEF RecordingInv

LEMMA RecordingStep ==
  ASSUME RecordingInv, [Next]_vars
  PROVE  RecordingInv'
<1>1. Target => RecordingInv'
  BY TargetSteps
<1>2. ~Target => UNCHANGED recording
  BY DEF Next, EndRecording, Refine, Parse, EndParse, Label, Track, Sweep, Cleanup, Export, vars
<1> QED BY <1>1, <1>2, RecordingKept

LEMMA RecordingInit ==
  ASSUME Init
  PROVE  RecordingInv
<1>1. lines = <<>> /\ heap = [a \in Addrs |-> 0] /\ objects = 0 /\ odd = {}
  BY DEF Init
<1>2. 1..Len(lines) = {} /\ Known = {} /\ 0 \in 0..Unseen /\ 0 \in 0..MaxLines
  BY <1>1 DEF Known, Unseen
<1> HIDE DEF Known
<1>3. RecordingType
  BY <1>1, <1>2 DEF RecordingType
<1> QED BY <1>1, <1>2, <1>3
    DEF RecordingInv, LinesFit, HeapFits, Born, BornOnce, BornFirst, LastLines, Succession,
        SinceImage, SinceTaken, FirstTaker

-----------------------------------------------------------------------------
(* The places of steps in a sequence of operations, and which of the steps  *)
(* an operator on sequences keeps.                                          *)

StepRecords == [opty : {"N", "E", "D"}, ptr : SUBSET (Addrs \cup {Null}),
                ret : SUBSET (Addrs \cup {Null}), tag : Nat, bty : {"R", "B", "T"}, line : Nat]
OpRecords == [isInit : BOOLEAN, isEnd : BOOLEAN, steps : Seq(StepRecords)]
MarkRecords == [count : Int, bty : {"B", "T"}]

StepsOf(o) == UNION {{[op |-> i, step |-> j] : j \in 1..Len(o[i].steps)} : i \in 1..Len(o)}
At(o, p) == o[p.op].steps[p.step]
Rise(o) == \A p, q \in StepsOf(o) : Before(p, q) => At(o, p).line < At(o, q).line

(* r has, of the steps of o, those at the places kept, in their order. *)
Keeps(o, r, kept) ==
  /\ r \in Seq(OpRecords)
  /\ \A p \in StepsOf(r) : \E q \in kept : At(r, p) = At(o, q)
  /\ \A q \in kept : \E p \in StepsOf(r) : At(r, p) = At(o, q)
  /\ Rise(o) => Rise(r)

LEMMA Places ==
  ASSUME NEW o \in Seq(OpRecords)
  PROVE  /\ \A p \in StepsOf(o) :
              /\ p.op \in 1..Len(o) /\ p.step \in 1..Len(o[p.op].steps)
              /\ p = [op |-> p.op, step |-> p.step] /\ At(o, p) \in StepRecords
         /\ \A i \in 1..Len(o) : \A j \in 1..Len(o[i].steps) : [op |-> i, step |-> j] \in StepsOf(o)
         /\ \A i \in 1..Len(o) : o[i] \in OpRecords /\ o[i].steps \in Seq(StepRecords)
<1>1. \A i \in 1..Len(o) : o[i] \in OpRecords /\ o[i].steps \in Seq(StepRecords)
  <2>1. \A i \in 1..Len(o) : o[i] \in OpRecords
    OBVIOUS
  <2>2. \A op \in OpRecords : op.steps \in Seq(StepRecords)
    BY DEF OpRecords
  <2> QED BY <2>1, <2>2
<1>2. \A i \in 1..Len(o) : \A j \in 1..Len(o[i].steps) : [op |-> i, step |-> j] \in StepsOf(o)
  BY DEF StepsOf
<1>3. ASSUME NEW p \in StepsOf(o)
      PROVE  /\ p.op \in 1..Len(o) /\ p.step \in 1..Len(o[p.op].steps)
             /\ p = [op |-> p.op, step |-> p.step] /\ At(o, p) \in StepRecords
  <2>0. PICK i \in 1..Len(o) : \E j \in 1..Len(o[i].steps) : p = [op |-> i, step |-> j]
    BY DEF StepsOf
  <2>1. PICK j \in 1..Len(o[i].steps) : p = [op |-> i, step |-> j]
    BY <2>0
  <2>2. o[i].steps[j] \in StepRecords
    BY <1>1
  <2> QED BY <2>1, <2>2 DEF At
<1> QED BY <1>1, <1>2, <1>3

LEMMA Ordered ==
  ASSUME NEW o \in Seq(OpRecords), NEW p \in StepsOf(o), NEW q \in StepsOf(o)
  PROVE  /\ Before(p, q) \/ p = q \/ Before(q, p)
         /\ Before(p, q) => p # q /\ ~Before(q, p)
         /\ \A r \in StepsOf(o) : Before(p, q) /\ Before(q, r) => Before(p, r)
<1>1. \A r \in StepsOf(o) : r.op \in Nat /\ r.step \in Nat /\ r = [op |-> r.op, step |-> r.step]
  BY Places
<1> QED BY <1>1 DEF Before

LEMMA LineOrder ==
  ASSUME NEW o \in Seq(OpRecords), Rise(o), NEW p \in StepsOf(o), NEW q \in StepsOf(o)
  PROVE  /\ Before(p, q) <=> At(o, p).line < At(o, q).line
         /\ At(o, p).line = At(o, q).line => p = q
<1>1. At(o, p).line \in Nat /\ At(o, q).line \in Nat
  BY Places DEF StepRecords
<1>2. Before(p, q) => At(o, p).line < At(o, q).line
  BY DEF Rise
<1>3. Before(q, p) => At(o, q).line < At(o, p).line
  BY DEF Rise
<1>4. Before(p, q) \/ p = q \/ Before(q, p)
  BY Ordered
<1> QED BY <1>1, <1>2, <1>3, <1>4

LEMMA KeepsAll ==
  ASSUME NEW o, NEW r, NEW s, NEW kept, Keeps(o, r, kept), Keeps(r, s, StepsOf(r))
  PROVE  Keeps(o, s, kept)
BY DEF Keeps

LEMMA CleanKeeps ==
  ASSUME NEW o \in Seq(OpRecords)
  PROVE  /\ Keeps(o, Clean(o), StepsOf(o))
         /\ \A i \in 1..Len(Clean(o)) : Clean(o)[i].steps # <<>>
<1> DEFINE full == {i \in 1..Len(o) : o[i].steps # <<>>}
           r == Only(o, full)
<1>1. full \in SUBSET (1..Len(o)) /\ Clean(o) = r /\ Len(o) \in Nat
  BY DEF Clean
<1> HIDE DEF full
<1>2. PICK at \in [1..Len(r) -> full] :
        /\ \A k \in 1..Len(r) : r[k] = o[at[k]]
        /\ \A k, l \in 1..Len(r) : k < l => at[k] < at[l]
        /\ \A i \in full : \E k \in 1..Len(r) : at[k] = i
  BY <1>1, OnlyPlaces
<1>3. r \in Seq(OpRecords)
  BY <1>1, OnlyPlaces
<1> HIDE DEF r
<1>4. \A k \in 1..Len(r) : r[k].steps # <<>> /\ at[k] \in 1..Len(o) /\ at[k] \in full
  BY <1>2 DEF full
<1>5. ASSUME NEW p \in StepsOf(r)
      PROVE  /\ [op |-> at[p.op], step |-> p.step] \in StepsOf(o)
             /\ At(r, p) = At(o, [op |-> at[p.op], step |-> p.step])
  <2>1. p.op \in 1..Len(r) /\ p.step \in 1..Len(r[p.op].steps)
    BY <1>3, Places
  <2>2. r[p.op] = o[at[p.op]] /\ at[p.op] \in 1..Len(o)
    BY <1>2, <1>4, <2>1
  <2> QED BY <2>1, <2>2, Places DEF At
<1>6. ASSUME NEW q \in StepsOf(o)
      PROVE  \E p \in StepsOf(r) : At(r, p) = At(o, q)
  <2>1. q.op \in 1..Len(o) /\ q.step \in 1..Len(o[q.op].steps) /\ o[q.op].steps \in Seq(StepRecords)
    BY Places
  <2>2. q.op \in full
    BY <2>1 DEF full
  <2>3. PICK k \in 1..Len(r) : at[k] = q.op
    BY <1>2, <2>2
  <2>4. r[k] = o[q.op]
    BY <1>2, <2>3
  <2>5. [op |-> k, step |-> q.step] \in StepsOf(r)
    BY <1>3, <2>1, <2>4, Places
  <2> QED BY <2>4, <2>5 DEF At
<1>7. ASSUME Rise(o)
      PROVE  Rise(r)
  <2> SUFFICES ASSUME NEW p \in StepsOf(r), NEW q \in StepsOf(r), Before(p, q)
               PROVE  At(r, p).line < At(r, q).line
    BY DEF Rise
  <2>1. p.op \in 1..Len(r) /\ q.op \in 1..Len(r)
    BY <1>3, Places
  <2>2. Before([op |-> at[p.op], step |-> p.step], [op |-> at[q.op], step |-> q.step])
    BY <1>2, <2>1 DEF Before
  <2> QED BY <1>5, <1>7, <2>2 DEF Rise
<1>8. Keeps(o, r, StepsOf(o))
  BY <1>3, <1>5, <1>6, <1>7 DEF Keeps
<1> QED BY <1>1, <1>4, <1>8

LEMMA ThinnedKeeps ==
  ASSUME ops \in Seq(OpRecords), NEW kept \in SUBSET Steps
  PROVE  Keeps(ops, Thinned(kept), kept)
<1> DEFINE places(i) == {j \in 1..Len(ops[i].steps) : [op |-> i, step |-> j] \in kept}
           r == Thinned(kept)
<1>1. Steps = StepsOf(ops) /\ Len(ops) \in Nat
  BY DEF Steps, StepsOf
<1>2. \A i \in 1..Len(ops) : ops[i] \in OpRecords /\ ops[i].steps \in Seq(StepRecords)
  BY Places
<1>3. DOMAIN r = 1..Len(ops) /\ \A i \in 1..Len(ops) : r[i] = [ops[i] EXCEPT !.steps = Only(ops[i].steps, places(i))]
  BY DEF Thinned
<1>4. \A i \in 1..Len(ops) : r[i].steps = Only(ops[i].steps, places(i))
  BY <1>2, <1>3 DEF OpRecords
<1>5. ASSUME NEW i \in 1..Len(ops)
      PROVE  /\ r[i].steps \in Seq(StepRecords)
             /\ \E at \in [1..Len(r[i].steps) -> places(i)] :
                  /\ \A k \in 1..Len(r[i].steps) : r[i].steps[k] = ops[i].steps[at[k]]
                  /\ \A k, l \in 1..Len(r[i].steps) : k < l => at[k] < at[l]
                  /\ \A j \in places(i) : \E k \in 1..Len(r[i].steps) : at[k] = j
  <2>1. places(i) \in SUBSET (1..Len(ops[i].steps)) /\ ops[i].steps \in Seq(StepRecords)
    BY <1>2
  <2> HIDE DEF places, r
  <2> QED BY <1>4, <2>1, OnlyPlaces
<1>6. r \in Seq(OpRecords) /\ Len(r) = Len(ops)
  <2> HIDE DEF places
  <2>1. ASSUME NEW i \in 1..Len(ops)
        PROVE  r[i] \in OpRecords
    <3>1. \A op \in OpRecords, t \in Seq(StepRecords) : [op EXCEPT !.steps = t] \in OpRecords
      BY DEF OpRecords
    <3>2. Only(ops[i].steps, places(i)) \in Seq(StepRecords)
      BY <1>4, <1>5
    <3> QED BY <1>2, <1>3, <3>1, <3>2
  <2>2. r = [i \in 1..Len(ops) |-> r[i]]
    BY DEF Thinned
  <2> HIDE DEF r
  <2> QED BY <1>1, <2>1, <2>2
<1>7. ASSUME NEW i \in 1..Len(ops), NEW j
      PROVE  j \in places(i) <=> j \in 1..Len(ops[i].steps) /\ [op |-> i, step |-> j] \in kept
  OBVIOUS
<1> HIDE DEF places, r
<1>8. ASSUME NEW p \in StepsOf(r)
      PROVE  \E q \in kept : At(r, p) = At(ops, q)
  <2>1. p.op \in 1..Len(ops) /\ p.step \in 1..Len(r[p.op].steps)
    BY <1>6, Places
  <2>2. PICK at \in [1..Len(r[p.op].steps) -> places(p.op)] :
          \A k \in 1..Len(r[p.op].steps) : r[p.op].steps[k] = ops[p.op].steps[at[k]]
    BY <1>5, <2>1
  <2>3. [op |-> p.op, step |-> at[p.step]] \in kept
    BY <1>7, <2>1, <2>2
  <2> QED BY <2>1, <2>2, <2>3 DEF At
<1>9. ASSUME NEW q \in kept
      PROVE  \E p \in StepsOf(r) : At(r, p) = At(ops, q)
  <2>1. q.op \in 1..Len(ops) /\ q.step \in 1..Len(ops[q.op].steps) /\ q = [op |-> q.op, step |-> q.step]
    BY <1>1, Places
  <2>2. q.step \in places(q.op)
    BY <1>7, <2>1
  <2>3. PICK at \in [1..Len(r[q.op].steps) -> places(q.op)] :
          /\ \A k \in 1..Len(r[q.op].steps) : r[q.op].steps[k] = ops[q.op].steps[at[k]]
          /\ \A j \in places(q.op) : \E k \in 1..Len(r[q.op].steps) : at[k] = j
    BY <1>5, <2>1
  <2>4. PICK k \in 1..Len(r[q.op].steps) : at[k] = q.step
    BY <2>2, <2>3
  <2>5. [op |-> q.op, step |-> k] \in StepsOf(r)
    BY <1>6, <2>1, Places
  <2> QED BY <2>3, <2>4, <2>5 DEF At
<1>10. ASSUME Rise(ops)
       PROVE  Rise(r)
  <2> SUFFICES ASSUME NEW p \in StepsOf(r), NEW q \in StepsOf(r), Before(p, q)
               PROVE  At(r, p).line < At(r, q).line
    BY DEF Rise
  <2>1. /\ p.op \in 1..Len(ops) /\ p.step \in 1..Len(r[p.op].steps)
        /\ q.op \in 1..Len(ops) /\ q.step \in 1..Len(r[q.op].steps)
    BY <1>6, Places
  <2>2. PICK at \in [1..Len(r[p.op].steps) -> places(p.op)] :
          /\ \A k \in 1..Len(r[p.op].steps) : r[p.op].steps[k] = ops[p.op].steps[at[k]]
          /\ \A k, l \in 1..Len(r[p.op].steps) : k < l => at[k] < at[l]
    BY <1>5, <2>1
  <2>3. [op |-> p.op, step |-> at[p.step]] \in StepsOf(ops)
        /\ At(r, p) = At(ops, [op |-> p.op, step |-> at[p.step]])
    BY <1>7, <1>1, <2>1, <2>2 DEF At
  <2>4. CASE p.op = q.op
    <3>1. [op |-> q.op, step |-> at[q.step]] \in StepsOf(ops)
          /\ At(r, q) = At(ops, [op |-> q.op, step |-> at[q.step]])
      BY <1>7, <1>1, <2>1, <2>2, <2>4 DEF At
    <3>2. p.step < q.step
      BY <1>1, <2>1, <2>4 DEF Before
    <3>3. at[p.step] < at[q.step]
      BY <2>1, <2>2, <2>4, <3>2
    <3>4. Before([op |-> p.op, step |-> at[p.step]], [op |-> q.op, step |-> at[q.step]])
      BY <2>4, <3>3 DEF Before
    <3> QED BY <1>10, <2>3, <3>1, <3>4 DEF Rise
  <2>5. CASE p.op < q.op
    <3>1. PICK at2 \in [1..Len(r[q.op].steps) -> places(q.op)] :
            \A k \in 1..Len(r[q.op].steps) : r[q.op].steps[k] = ops[q.op].steps[at2[k]]
      BY <1>5, <2>1
    <3>2. [op |-> q.op, step |-> at2[q.step]] \in StepsOf(ops)
          /\ At(r, q) = At(ops, [op |-> q.op, step |-> at2[q.step]])
      BY <1>7, <1>1, <2>1, <3>1 DEF At
    <3>3. Before([op |-> p.op, step |-> at[p.step]], [op |-> q.op, step |-> at2[q.step]])
      BY <2>5 DEF Before
    <3> QED BY <1>10, <2>3, <3>2, <3>3 DEF Rise
  <2> QED BY <2>4, <2>5 DEF Before
<1> QED BY <1>6, <1>8, <1>9, <1>10 DEF Keeps, r

LEMMA FrontKeeps ==
  ASSUME NEW o \in Seq(OpRecords), o # <<>>
  PROVE  Keeps(o, Front(o), {p \in StepsOf(o) : p.op < Len(o)})
<1> DEFINE r == Front(o)
<1>1. Len(o) \in Nat \ {0}
  OBVIOUS
<1>2. r \in Seq(OpRecords) /\ Len(r) = Len(o) - 1 /\ \A i \in 1..Len(r) : r[i] = o[i]
  <2> DEFINE m == Len(o) - 1
  <2>1. m \in Int /\ \A i \in 1..m : o[i] \in OpRecords
    BY <1>1
  <2>2. r = SubSeq(o, 1, m)
    BY DEF Front
  <2> HIDE DEF m, r
  <2>3. /\ r \in Seq(OpRecords) /\ Len(r) = IF 1 <= m THEN m - 1 + 1 ELSE 0
        /\ \A i \in 1..(m - 1 + 1) : r[i] = o[1 + i - 1]
    <3>1. /\ SubSeq(o, 1, m) \in Seq(OpRecords)
          /\ Len(SubSeq(o, 1, m)) = IF 1 <= m THEN m - 1 + 1 ELSE 0
          /\ \A i \in 1..(m - 1 + 1) : SubSeq(o, 1, m)[i] = o[1 + i - 1]
      BY <2>1, SubSeqProperties
    <3> QED BY <2>2, <3>1
  <2>4. Len(r) = m /\ m \in Nat /\ m = Len(o) - 1
    <3>1. m \in Nat /\ m = Len(o) - 1
      BY <1>1 DEF m
    <3>2. (IF 1 <= m THEN m - 1 + 1 ELSE 0) = m
      BY <3>1
    <3> QED BY <2>3, <3>1, <3>2
  <2>5. \A i \in 1..Len(r) : r[i] = o[i]
    BY <2>3, <2>4
  <2> QED BY <2>3, <2>4, <2>5 DEF m
<1>3. \A i : i \in 1..Len(r) <=> i \in 1..Len(o) /\ i < Len(o)
  BY <1>1, <1>2
<1> HIDE DEF r
<1>4. ASSUME NEW p
      PROVE  /\ p \in StepsOf(r) <=> p \in StepsOf(o) /\ p.op < Len(o)
             /\ p \in StepsOf(r) => At(r, p) = At(o, p)
  <2>1. ASSUME p \in StepsOf(r)
        PROVE  p \in StepsOf(o) /\ p.op < Len(o) /\ At(r, p) = At(o, p)
    <3>1. p.op \in 1..Len(r) /\ p.step \in 1..Len(r[p.op].steps) /\ p = [op |-> p.op, step |-> p.step]
      BY <1>2, <2>1, Places
    <3>2. p.op \in 1..Len(o) /\ p.op < Len(o) /\ r[p.op] = o[p.op]
      BY <1>2, <1>3, <3>1
    <3> QED BY <3>1, <3>2, Places DEF At
  <2>2. ASSUME p \in StepsOf(o), p.op < Len(o)
        PROVE  p \in StepsOf(r)
    <3>1. p.op \in 1..Len(o) /\ p.step \in 1..Len(o[p.op].steps) /\ p = [op |-> p.op, step |-> p.step]
      BY <2>2, Places
    <3>2. p.op \in 1..Len(r) /\ r[p.op] = o[p.op]
      BY <1>2, <1>3, <2>2, <3>1
    <3> QED BY <1>2, <3>1, <3>2, Places
  <2> QED BY <2>1, <2>2
<1>5. Rise(o) => Rise(r)
  BY <1>4 DEF Rise
<1> QED BY <1>2, <1>4, <1>5 DEF Keeps, r

-----------------------------------------------------------------------------
(* What the parser and the labeller make of a recording.                    *)

LineOf(p) == StepAt(p).line
IsNew(p) == StepAt(p).opty = "N"

LabelType ==
  /\ ops \in Seq(OpRecords) /\ marks \in Seq(MarkRecords) /\ tags \in Nat
  /\ phase \in {"recording", "parsing", "labelling", "tracking", "done",
                "cleaned", "exported", "failed"}
  /\ next \in 1..(Len(lines) + 1)

(* A step is its line; steps are in the order of the lines, and until the   *)
(* dangling ones go there is one for every line about the heap.             *)
StepFits(p) ==
  /\ LineOf(p) \in 1..Len(lines) /\ LineOf(p) < next /\ IsHeap(LineOf(p))
  /\ IsNew(p) <=> Birth(LineOf(p))
  /\ StepAt(p).ptr = IF Birth(LineOf(p)) THEN {} ELSE {lines[LineOf(p)].ptr}
  /\ StepAt(p).ret = IF lines[LineOf(p)].word = "FREE" THEN {} ELSE {lines[LineOf(p)].ret}

StepsFit == \A p \in Steps : StepFits(p)
LinesRise == \A p, q \in Steps : Before(p, q) => LineOf(p) < LineOf(q)
Covered == \A i \in 1..(next - 1) : IsHeap(i) => \E p \in Steps : LineOf(p) = i

Stages ==
  /\ phase = "recording" => next = 1 /\ ops = <<>> /\ marks = <<>>
  /\ phase \in {"recording", "parsing"} =>
       tags = 0 /\ cursor = [op |-> 1, step |-> 1] /\ track = cursor
  /\ phase = "parsing" => ops # <<>> /\ \A p \in Steps : Tag(p) = 0
  /\ phase \notin {"recording", "parsing"} => next = Len(lines) + 1
  /\ phase \in {"parsing", "labelling", "tracking"} => Covered

Parsed == LabelType /\ StepsFit /\ LinesRise /\ Stages

(* A step is done when the outer loops have passed it or are tracking from  *)
(* it. Making steps have a tag of their own once they are done; another     *)
(* step has at most the tag of a making step before it.                     *)
Labelling == phase \in {"labelling", "tracking"}
Settled(p) == Before(p, cursor) \/ (phase = "tracking" /\ p = cursor)

PlaceFits ==
  Labelling =>
    /\ \A i \in 1..Len(ops) : ops[i].steps # <<>>
    /\ cursor \in [op : Nat \ {0}, step : Nat \ {0}]
    /\ cursor \in Steps \/ cursor.op = Len(ops) + 1
    /\ phase = "tracking" => /\ cursor \in Steps /\ IsNew(cursor) /\ Tag(cursor) = tags
                             /\ track \in Steps /\ ~Before(track, cursor)

NewTags ==
  Labelling => \A p \in Steps : IsNew(p) =>
    IF Settled(p) THEN Tag(p) \in 1..tags ELSE Tag(p) = 0
OneEach ==
  Labelling => \A p, q \in Steps :
    IsNew(p) /\ IsNew(q) /\ Settled(p) /\ Settled(q) /\ Tag(p) = Tag(q) => p = q
OldTags ==
  Labelling => \A p \in Steps : ~IsNew(p) =>
    /\ Tag(p) \in 0..tags \cup {Dangling}
    /\ Tag(p) \in 1..tags => \E q \in Steps : IsNew(q) /\ Tag(q) = Tag(p) /\ Before(q, p)
Visited == Labelling => \A p \in Steps : Before(p, cursor) => Tag(p) # 0
TagCount ==
  /\ Labelling /\ cursor \in Steps => tags <= LineOf(cursor)
  /\ phase = "labelling" /\ cursor \in Steps => tags < LineOf(cursor)
  /\ tags <= Len(lines)

FinalTags ==
  phase \in {"done", "cleaned", "exported", "failed"} =>
    /\ \A p \in Steps : /\ Tag(p) \in 1..tags
                        /\ \E q \in Steps : IsNew(q) /\ Tag(q) = Tag(p) /\ LineOf(q) <= LineOf(p)
    /\ \A p, q \in Steps : IsNew(p) /\ IsNew(q) /\ Tag(p) = Tag(q) => p = q

LabelInv ==
  Parsed /\ PlaceFits /\ NewTags /\ OneEach /\ OldTags /\ Visited /\ TagCount /\ FinalTags

-----------------------------------------------------------------------------
(* What the operators on operations do to the steps.                        *)

LEMMA TaggedSteps ==
  ASSUME ops \in Seq(OpRecords), NEW at \in Steps, NEW tag \in Nat
  PROVE  /\ Tagged(at, tag) \in Seq(OpRecords) /\ Len(Tagged(at, tag)) = Len(ops)
         /\ StepsOf(Tagged(at, tag)) = Steps
         /\ \A i \in 1..Len(ops) : ops[i].steps # <<>> => Tagged(at, tag)[i].steps # <<>>
         /\ \A p \in Steps : p # at => At(Tagged(at, tag), p) = StepAt(p)
         /\ At(Tagged(at, tag), at) = [StepAt(at) EXCEPT !.tag = tag]
<1> DEFINE r == Tagged(at, tag)
           changed == [StepAt(at) EXCEPT !.tag = tag]
<1>1. Steps = StepsOf(ops) /\ Len(ops) \in Nat
  BY DEF Steps, StepsOf
<1>2. /\ at.op \in 1..Len(ops) /\ at.step \in 1..Len(ops[at.op].steps)
      /\ StepAt(at) \in StepRecords /\ at = [op |-> at.op, step |-> at.step]
  BY <1>1, Places DEF StepAt, At
<1>3. \A i \in 1..Len(ops) : ops[i] \in OpRecords /\ ops[i].steps \in Seq(StepRecords)
  BY Places
<1>4. changed \in StepRecords
  BY <1>2 DEF StepRecords
<1>5. /\ DOMAIN r = 1..Len(ops) /\ \A i \in 1..Len(ops) : i # at.op => r[i] = ops[i]
      /\ r[at.op] = [ops[at.op] EXCEPT !.steps = [ops[at.op].steps EXCEPT ![at.step] = changed]]
  BY <1>2 DEF Tagged, StepAt
<1> HIDE DEF r, changed
<1>6. [ops[at.op].steps EXCEPT ![at.step] = changed] \in Seq(StepRecords)
  BY <1>2, <1>3, <1>4
<1>7. r[at.op] \in OpRecords /\ r[at.op].steps = [ops[at.op].steps EXCEPT ![at.step] = changed]
  <2>1. \A op \in OpRecords, t \in Seq(StepRecords) :
          [op EXCEPT !.steps = t] \in OpRecords /\ [op EXCEPT !.steps = t].steps = t
    BY DEF OpRecords
  <2> DEFINE t == [ops[at.op].steps EXCEPT ![at.step] = changed]
  <2>2. t \in Seq(StepRecords) /\ ops[at.op] \in OpRecords /\ r[at.op] = [ops[at.op] EXCEPT !.steps = t]
    BY <1>2, <1>3, <1>5, <1>6
  <2> HIDE DEF t
  <2>3. r[at.op] \in OpRecords /\ r[at.op].steps = t
    BY <2>1, <2>2
  <2> QED BY <2>3 DEF t
<1>8. r \in Seq(OpRecords) /\ Len(r) = Len(ops)
  <2>1. \A i \in 1..Len(ops) : r[i] \in OpRecords
    BY <1>3, <1>5, <1>7
  <2>2. r = [i \in 1..Len(ops) |-> r[i]]
    BY <1>5 DEF r, Tagged
  <2> QED BY <1>1, <2>1, <2>2
<1>9. ASSUME NEW i \in 1..Len(ops)
      PROVE  Len(r[i].steps) = Len(ops[i].steps)
  <2>1. CASE i = at.op
    BY <1>2, <1>3, <1>7, <2>1
  <2>2. CASE i # at.op
    BY <1>5, <2>2
  <2> QED BY <2>1, <2>2
<1>10. StepsOf(r) = Steps
  <2>1. ASSUME NEW p \in Steps PROVE p \in StepsOf(r)
    <3>1. /\ p.op \in 1..Len(ops) /\ p.step \in 1..Len(ops[p.op].steps)
          /\ p = [op |-> p.op, step |-> p.step]
      BY <1>1, Places
    <3> QED BY <1>8, <1>9, <3>1, Places
  <2>2. ASSUME NEW p \in StepsOf(r) PROVE p \in Steps
    <3>1. /\ p.op \in 1..Len(ops) /\ p.step \in 1..Len(r[p.op].steps)
          /\ p = [op |-> p.op, step |-> p.step]
      BY <1>8, Places
    <3>2. p.step \in 1..Len(ops[p.op].steps)
      BY <1>9, <3>1
    <3>3. p \in StepsOf(ops)
      BY <3>1, <3>2, Places
    <3> QED BY <1>1, <3>3
  <2> QED BY <2>1, <2>2
<1>11. \A i \in 1..Len(ops) : ops[i].steps # <<>> => r[i].steps # <<>>
  <2>1. ASSUME NEW i \in 1..Len(ops), ops[i].steps # <<>>
        PROVE  r[i].steps # <<>>
    <3>1. Len(ops[i].steps) # 0
      BY <1>3, <2>1, EmptySeq
    <3> QED BY <1>9, <3>1, EmptySeq
  <2> QED BY <2>1
<1>12. ASSUME NEW p \in Steps, p # at
       PROVE  At(r, p) = StepAt(p)
  <2>1. /\ p.op \in 1..Len(ops) /\ p.step \in 1..Len(ops[p.op].steps)
        /\ p = [op |-> p.op, step |-> p.step]
    BY <1>1, Places
  <2>2. CASE p.op # at.op
    BY <1>5, <2>1, <2>2 DEF At, StepAt
  <2>3. CASE p.op = at.op
    <3>1. p.step # at.step
      BY <1>2, <1>12, <2>1, <2>3
    <3>2. DOMAIN ops[at.op].steps = 1..Len(ops[at.op].steps)
      BY <1>2, <1>3
    <3>3. r[p.op].steps[p.step] = ops[p.op].steps[p.step]
      BY <1>7, <2>1, <2>3, <3>1, <3>2
    <3> QED BY <3>3 DEF At, StepAt
  <2> QED BY <2>2, <2>3
<1>13. At(r, at) = changed
  BY <1>2, <1>3, <1>7 DEF At
<1> QED BY <1>8, <1>10, <1>11, <1>12, <1>13 DEF r, changed

LEMMA AddSteps ==
  ASSUME ops \in Seq(OpRecords), ops # <<>>, NEW s \in StepRecords
  PROVE  /\ Add(s) \in Seq(OpRecords) /\ Add(s) # <<>>
         /\ \E at : /\ StepsOf(Add(s)) = Steps \cup {at} /\ At(Add(s), at) = s
                    /\ \A p \in Steps : At(Add(s), p) = StepAt(p) /\ Before(p, at) /\ ~Before(at, p)
                    /\ ~Before(at, at)
<1> DEFINE last == Len(ops)
           r == Add(s)
           steps == ops[last].steps
           at == [op |-> last, step |-> Len(steps) + 1]
<1>1. Steps = StepsOf(ops) /\ last \in Nat \ {0} /\ last \in 1..Len(ops)
  BY EmptySeq DEF Steps, StepsOf
<1>2. \A i \in 1..Len(ops) : ops[i] \in OpRecords /\ ops[i].steps \in Seq(StepRecords)
  BY Places
<1>3. steps \in Seq(StepRecords) /\ Len(steps) \in Nat
  BY <1>1, <1>2
<1> HIDE DEF steps
<1>4. /\ DOMAIN r = 1..Len(ops) /\ \A i \in 1..Len(ops) : i # last => r[i] = ops[i]
      /\ r[last] = [ops[last] EXCEPT !.steps = Append(steps, s)]
  BY <1>1 DEF Add, steps
<1>5. /\ Append(steps, s) \in Seq(StepRecords) /\ Len(Append(steps, s)) = Len(steps) + 1
      /\ Append(steps, s)[Len(steps) + 1] = s
      /\ \A j \in 1..Len(steps) : Append(steps, s)[j] = steps[j]
  BY <1>3
<1> DEFINE longer == Append(steps, s)
<1>6. r[last] \in OpRecords /\ r[last].steps = longer
  <2>1. \A op \in OpRecords, t \in Seq(StepRecords) :
          [op EXCEPT !.steps = t] \in OpRecords /\ [op EXCEPT !.steps = t].steps = t
    BY DEF OpRecords
  <2>2. longer \in Seq(StepRecords) /\ ops[last] \in OpRecords /\ r[last] = [ops[last] EXCEPT !.steps = longer]
    BY <1>1, <1>2, <1>4, <1>5
  <2> HIDE DEF longer, r
  <2> QED BY <2>1, <2>2
<1> HIDE DEF longer
<1>7. r \in Seq(OpRecords) /\ Len(r) = Len(ops)
  <2>1. \A i \in 1..Len(ops) : r[i] \in OpRecords
    BY <1>2, <1>4, <1>6
  <2>2. r = [i \in 1..Len(ops) |-> r[i]]
    BY <1>4 DEF Add
  <2> HIDE DEF r
  <2> QED BY <1>1, <2>1, <2>2
<1>8. /\ Len(longer) = Len(steps) + 1 /\ longer[Len(steps) + 1] = s
      /\ \A j \in 1..Len(steps) : longer[j] = steps[j]
  BY <1>5 DEF longer
<1> HIDE DEF r
<1>9. at \in StepsOf(r) /\ At(r, at) = s
  <2>1. at.op = last /\ at.step = Len(steps) + 1 /\ at.step \in 1..Len(r[last].steps)
    BY <1>3, <1>6, <1>8
  <2> QED BY <1>1, <1>6, <1>7, <1>8, <2>1, Places DEF At
<1>10. ASSUME NEW p \in Steps
       PROVE  p \in StepsOf(r) /\ At(r, p) = StepAt(p) /\ Before(p, at) /\ ~Before(at, p)
  <2>1. /\ p.op \in 1..Len(ops) /\ p.step \in 1..Len(ops[p.op].steps)
        /\ p = [op |-> p.op, step |-> p.step]
    BY <1>1, Places
  <2>2. CASE p.op # last
    <3>1. r[p.op] = ops[p.op]
      BY <1>4, <2>1, <2>2
    <3>2. p \in StepsOf(r) /\ At(r, p) = StepAt(p)
      BY <1>7, <2>1, <3>1, Places DEF At, StepAt
    <3>3. p.op < last /\ p.op \in Nat
      BY <1>1, <2>1, <2>2
    <3>4. Before(p, at) /\ ~Before(at, p)
      BY <1>1, <3>3 DEF Before
    <3> QED BY <3>2, <3>4
  <2>3. CASE p.op = last
    <3>1. p.step \in 1..Len(steps)
      BY <2>1, <2>3 DEF steps
    <3>2. p.step \in 1..Len(r[p.op].steps) /\ r[p.op].steps[p.step] = ops[p.op].steps[p.step]
      BY <1>3, <1>6, <1>8, <2>3, <3>1 DEF steps
    <3>3. p \in StepsOf(r) /\ At(r, p) = StepAt(p)
      BY <1>7, <2>1, <3>2, Places DEF At, StepAt
    <3>4. p.step < Len(steps) + 1
      BY <1>3, <3>1
    <3> QED BY <1>1, <1>3, <2>3, <3>1, <3>3, <3>4 DEF Before
  <2> QED BY <2>2, <2>3
<1>11. ASSUME NEW p \in StepsOf(r), p # at
       PROVE  p \in Steps
  <2>1. /\ p.op \in 1..Len(ops) /\ p.step \in 1..Len(r[p.op].steps)
        /\ p = [op |-> p.op, step |-> p.step]
    BY <1>7, Places
  <2>2. CASE p.op # last
    BY <1>1, <1>4, <2>1, <2>2, Places
  <2>3. CASE p.op = last
    <3>1. p.step \in 1..(Len(steps) + 1) /\ p.step # Len(steps) + 1
      BY <1>6, <1>8, <1>11, <2>1, <2>3
    <3>2. p.step \in 1..Len(ops[p.op].steps)
      BY <1>3, <2>3, <3>1 DEF steps
    <3> QED BY <1>1, <2>1, <3>2, Places
  <2> QED BY <2>2, <2>3
<1>12. ~Before(at, at)
  BY <1>1, <1>3 DEF Before
<1>13. r # <<>>
  BY <1>1, <1>7, EmptySeq
<1> HIDE DEF at
<1>14. StepsOf(r) = Steps \cup {at}
  BY <1>9, <1>10, <1>11
<1> QED BY <1>7, <1>9, <1>10, <1>12, <1>13, <1>14 DEF r

LEMMA NextOpSteps ==
  ASSUME ops \in Seq(OpRecords), ops # <<>>, NEW line
  PROVE  /\ NextOp(line) \in Seq(OpRecords) /\ NextOp(line) # <<>>
         /\ StepsOf(NextOp(line)) = Steps
         /\ \A p \in Steps : At(NextOp(line), p) = StepAt(p)
<1> DEFINE op == [isInit |-> line.word = "PROCESS_START", isEnd |-> line.word = "END", steps |-> <<>>]
           r == Append(ops, op)
<1>1. Steps = StepsOf(ops) /\ Len(ops) \in Nat
  BY DEF Steps, StepsOf
<1>2. op \in OpRecords /\ op.steps = <<>>
  <2>1. <<>> \in Seq(StepRecords)
    OBVIOUS
  <2> QED BY <2>1 DEF OpRecords
<1> HIDE DEF op
<1>3. /\ r \in Seq(OpRecords) /\ Len(r) = Len(ops) + 1 /\ r[Len(ops) + 1] = op
      /\ \A i \in 1..Len(ops) : r[i] = ops[i]
  BY <1>2
<1> HIDE DEF r
<1>4. r # <<>>
  BY <1>1, <1>3, EmptySeq
<1>5. Len(r[Len(ops) + 1].steps) = 0
  BY <1>2, <1>3
<1>6. ASSUME NEW p \in Steps
      PROVE  p \in StepsOf(r) /\ At(r, p) = StepAt(p)
  <2>1. /\ p.op \in 1..Len(ops) /\ p.step \in 1..Len(ops[p.op].steps)
        /\ p = [op |-> p.op, step |-> p.step]
    BY <1>1, Places
  <2>2. p.op \in 1..Len(r) /\ r[p.op] = ops[p.op]
    BY <1>1, <1>3, <2>1
  <2> QED BY <1>3, <2>1, <2>2, Places DEF At, StepAt
<1>7. ASSUME NEW p \in StepsOf(r)
      PROVE  p \in Steps
  <2>1. /\ p.op \in 1..Len(r) /\ p.step \in 1..Len(r[p.op].steps)
        /\ p = [op |-> p.op, step |-> p.step]
    BY <1>3, Places
  <2>2. p.op # Len(ops) + 1
    BY <1>5, <2>1
  <2>3. p.op \in 1..Len(ops) /\ r[p.op] = ops[p.op]
    BY <1>1, <1>3, <2>1, <2>2
  <2> QED BY <1>1, <2>1, <2>3, Places
<1>8. NextOp(line) \in {ops, r}
  BY DEF NextOp, r, op
<1> QED BY <1>1, <1>3, <1>4, <1>6, <1>7, <1>8 DEF At, StepAt

LEMMA AfterIs ==
  ASSUME LabelType, NEW at \in Steps, \A i \in 1..Len(ops) : ops[i].steps # <<>>
  PROVE  /\ After(at) \in [op : Nat \ {0}, step : Nat \ {0}]
         /\ After(at) \in Steps \/ After(at).op = Len(ops) + 1
         /\ \A p \in Steps : Before(p, After(at)) <=> Before(p, at) \/ p = at
<1>1. Steps = StepsOf(ops) /\ Len(ops) \in Nat /\ ops \in Seq(OpRecords)
  BY DEF Steps, StepsOf, LabelType
<1>2. PICK i \in 1..Len(ops) : \E j \in 1..Len(ops[i].steps) : at = [op |-> i, step |-> j]
  BY DEF Steps
<1>3. PICK j \in 1..Len(ops[i].steps) : at = [op |-> i, step |-> j]
  BY <1>2
<1>4. \A k \in 1..Len(ops) : ops[k].steps \in Seq(StepRecords) /\ Len(ops[k].steps) \in Nat
  BY <1>1, Places
<1>5. i \in Nat \ {0} /\ j \in Nat \ {0} /\ at.op = i /\ at.step = j
  BY <1>1, <1>3, <1>4
<1>6. [at EXCEPT !.step = @ + 1] = [op |-> i, step |-> j + 1]
  BY <1>3
<1>7. CASE [op |-> i, step |-> j + 1] \in Steps
  <2>1. After(at) = [op |-> i, step |-> j + 1]
    BY <1>6, <1>7 DEF After
  <2>2. ASSUME NEW p \in Steps
        PROVE  Before(p, After(at)) <=> Before(p, at) \/ p = at
    <3>1. p.op \in Nat /\ p.step \in Nat /\ p = [op |-> p.op, step |-> p.step]
      BY <1>1, Places
    <3> QED BY <1>3, <1>5, <2>1, <3>1 DEF Before
  <2> QED BY <1>5, <1>7, <2>1, <2>2
<1>8. CASE [op |-> i, step |-> j + 1] \notin Steps
  <2>1. After(at) = [op |-> i + 1, step |-> 1]
    BY <1>3, <1>5, <1>6, <1>8 DEF After
  <2>2. j + 1 \notin 1..Len(ops[i].steps)
    BY <1>1, <1>8, Places
  <2>3. j = Len(ops[i].steps)
    BY <1>4, <1>5, <2>2
  <2>4. ASSUME NEW p \in Steps
        PROVE  Before(p, After(at)) <=> Before(p, at) \/ p = at
    <3>1. /\ p.op \in Nat /\ p.step \in Nat \ {0} /\ p = [op |-> p.op, step |-> p.step]
          /\ p.step \in 1..Len(ops[p.op].steps)
      BY <1>1, Places
    <3>2. p.op = i => p.step <= j
      BY <1>4, <2>3, <3>1
    <3> QED BY <1>3, <1>5, <2>1, <3>1, <3>2 DEF Before
  <2>5. CASE i = Len(ops)
    BY <1>5, <2>1, <2>4, <2>5
  <2>6. CASE i # Len(ops)
    <3>1. i + 1 \in 1..Len(ops)
      BY <1>1, <1>5, <2>6
    <3>2. Len(ops[i + 1].steps) # 0
      BY <1>4, <3>1, EmptySeq
    <3>3. 1 \in 1..Len(ops[i + 1].steps)
      BY <1>4, <3>1, <3>2
    <3>4. After(at) \in Steps
      BY <1>1, <2>1, <3>1, <3>3, Places
    <3> QED BY <1>5, <2>1, <2>4, <3>4
  <2> QED BY <2>5, <2>6
<1> QED BY <1>7, <1>8

LEMMA FirstIs ==
  ASSUME LabelType, LinesRise, NEW places \in SUBSET Steps, places # {}
  PROVE  First(places) \in places /\ \A q \in places : First(places) = q \/ Before(First(places), q)
<1>1. Steps = StepsOf(ops) /\ ops \in Seq(OpRecords) /\ Rise(ops)
  BY DEF Steps, StepsOf, LabelType, LinesRise, Rise, LineOf, StepAt, At
<1>2. \A p \in Steps : LineOf(p) \in Nat
  BY <1>1, Places DEF LineOf, StepAt, At, StepRecords
<1>3. PICK p \in places : \A q \in places : LineOf(p) <= LineOf(q)
  <2> DEFINE T == {LineOf(p) : p \in places}
  <2>1. T \in SUBSET Nat /\ T # {}
    BY <1>2
  <2>2. \E m \in T : \A k \in T : m <= k
    <3> HIDE DEF T
    <3> QED BY <2>1, Least
  <2> QED BY <2>2
<1>4. \A q \in places : p = q \/ Before(p, q)
  <2>1. ASSUME NEW q \in places
        PROVE  p = q \/ Before(p, q)
    <3>1. p \in StepsOf(ops) /\ q \in StepsOf(ops) /\ At(ops, p).line <= At(ops, q).line
      BY <1>1, <1>3 DEF LineOf, StepAt, At
    <3>2. At(ops, p).line \in Nat /\ At(ops, q).line \in Nat
      BY <1>1, <1>2 DEF LineOf, StepAt, At
    <3> QED BY <1>1, <3>1, <3>2, LineOrder
  <2> QED BY <2>1
<1> QED BY <1>4 DEF First

-----------------------------------------------------------------------------
(* The labeller's steps keep LabelInv.                                      *)

SameSteps ==
  /\ ops' \in Seq(OpRecords) /\ Steps' = Steps /\ Len(ops') = Len(ops)
  /\ \A i \in 1..Len(ops) : ops[i].steps # <<>> => ops'[i].steps # <<>>
  /\ \A p \in Steps : /\ LineOf(p)' = LineOf(p) /\ (IsNew(p)' <=> IsNew(p))
                      /\ StepAt(p).ptr' = StepAt(p).ptr /\ StepAt(p).ret' = StepAt(p).ret
                      /\ StepAt(p).bty' = StepAt(p).bty

LEMMA StepsTyped ==
  ASSUME LabelType
  PROVE  /\ \A p \in Steps : /\ StepAt(p) \in StepRecords /\ LineOf(p) \in Nat /\ Tag(p) \in Nat
                             /\ p.op \in 1..Len(ops)
         /\ Steps = StepsOf(ops) /\ ops \in Seq(OpRecords) /\ Len(ops) \in Nat
         /\ \A p, q \in Steps : /\ Before(p, q) \/ p = q \/ Before(q, p)
                                /\ Before(p, q) => p # q /\ ~Before(q, p)
         /\ \A p, q, r \in Steps : Before(p, q) /\ Before(q, r) => Before(p, r)
<1>1. Steps = StepsOf(ops) /\ ops \in Seq(OpRecords) /\ Len(ops) \in Nat
  BY DEF Steps, StepsOf, LabelType
<1>2. \A p \in Steps : StepAt(p) \in StepRecords /\ p.op \in 1..Len(ops)
  BY <1>1, Places DEF StepAt, At
<1>3. \A p \in Steps : LineOf(p) \in Nat /\ Tag(p) \in Nat
  BY <1>2 DEF LineOf, Tag, StepRecords
<1>4. \A p, q \in Steps : /\ Before(p, q) \/ p = q \/ Before(q, p)
                          /\ Before(p, q) => p # q /\ ~Before(q, p)
  BY <1>1, Ordered
<1>5. \A p, q, r \in Steps : Before(p, q) /\ Before(q, r) => Before(p, r)
  BY <1>1, Ordered
<1> QED BY <1>1, <1>2, <1>3, <1>4, <1>5

LEMMA ByLine ==
  ASSUME LabelType, LinesRise, NEW p \in Steps, NEW q \in Steps
  PROVE  /\ Before(p, q) <=> LineOf(p) < LineOf(q)
         /\ LineOf(p) = LineOf(q) => p = q
<1>1. Before(p, q) => LineOf(p) < LineOf(q)
  BY DEF LinesRise
<1>2. Before(q, p) => LineOf(q) < LineOf(p)
  BY DEF LinesRise
<1>3. LineOf(p) \in Nat /\ LineOf(q) \in Nat /\ (Before(p, q) \/ p = q \/ Before(q, p))
  BY StepsTyped
<1> QED BY <1>1, <1>2, <1>3

LEMMA Retagged ==
  ASSUME LabelType, NEW at \in Steps, NEW tag \in Nat, ops' = Tagged(at, tag)
  PROVE  SameSteps /\ \A p \in Steps : Tag(p)' = IF p = at THEN tag ELSE Tag(p)
<1>1. ops \in Seq(OpRecords)
  BY DEF LabelType
<1>2. /\ ops' \in Seq(OpRecords) /\ Len(ops') = Len(ops) /\ StepsOf(ops') = Steps
      /\ \A i \in 1..Len(ops) : ops[i].steps # <<>> => ops'[i].steps # <<>>
      /\ \A p \in Steps : p # at => At(ops', p) = StepAt(p)
      /\ At(ops', at) = [StepAt(at) EXCEPT !.tag = tag]
  BY <1>1, TaggedSteps
<1>3. Steps' = Steps
  BY <1>2 DEF Steps, StepsOf
<1>4. \A p \in Steps : StepAt(p)' = IF p = at THEN [StepAt(p) EXCEPT !.tag = tag] ELSE StepAt(p)
  BY <1>2 DEF StepAt, At
<1>5. StepAt(at) \in StepRecords
  BY StepsTyped
<1>6. /\ [StepAt(at) EXCEPT !.tag = tag].line = StepAt(at).line
      /\ [StepAt(at) EXCEPT !.tag = tag].opty = StepAt(at).opty
      /\ [StepAt(at) EXCEPT !.tag = tag].ptr = StepAt(at).ptr
      /\ [StepAt(at) EXCEPT !.tag = tag].ret = StepAt(at).ret
      /\ [StepAt(at) EXCEPT !.tag = tag].bty = StepAt(at).bty
      /\ [StepAt(at) EXCEPT !.tag = tag].tag = tag
  BY <1>5 DEF StepRecords
<1> QED BY <1>2, <1>3, <1>4, <1>6 DEF SameSteps, LineOf, IsNew, Tag

LEMMA Untouched ==
  ASSUME LabelType, ops' = ops
  PROVE  SameSteps /\ \A p \in Steps : Tag(p)' = Tag(p)
<1>1. Steps' = Steps /\ \A p : StepAt(p)' = StepAt(p)
  BY DEF Steps, StepAt
<1> QED BY <1>1 DEF SameSteps, LabelType, LineOf, IsNew, Tag

LEMMA ParsedKept ==
  ASSUME Parsed, SameSteps, UNCHANGED <<recording, next, marks>>, tags' \in Nat,
         Labelling, Labelling'
  PROVE  Parsed'
<1>1. lines' = lines /\ next' = next /\ marks' = marks /\ LabelType /\ StepsFit /\ LinesRise /\ Stages
  BY DEF recording, Parsed
<1>2. LabelType'
  BY <1>1 DEF LabelType, SameSteps, Labelling
<1>3. \A i : (IsHeap(i)' <=> IsHeap(i)) /\ (Birth(i)' <=> Birth(i))
  BY <1>1 DEF IsHeap, Birth
<1>4. StepsFit'
  <2>1. ASSUME NEW p \in Steps, StepFits(p) PROVE StepFits(p)'
    BY <1>1, <1>3, <2>1 DEF StepFits, SameSteps
  <2> QED BY <1>1, <2>1 DEF StepsFit, SameSteps
<1>5. LinesRise'
  BY <1>1 DEF LinesRise, SameSteps
<1>6. Covered'
  BY <1>1, <1>3 DEF Stages, Labelling, Covered, SameSteps
<1>7. Stages'
  BY <1>1, <1>6 DEF Stages, Labelling
<1> QED BY <1>2, <1>4, <1>5, <1>7 DEF Parsed

LEMMA LabelStep ==
  ASSUME LabelInv, RecordingInv, Label
  PROVE  LabelInv'
<1>1. /\ phase = "labelling" /\ cursor \in Steps /\ UNCHANGED <<recording, next, marks>>
      /\ lines' = lines /\ Labelling
  BY DEF Label, recording, Labelling
<1>2. Parsed /\ LabelType /\ LinesRise /\ StepsFit
  BY DEF LabelInv, Parsed
<1>3. /\ \A i \in 1..Len(ops) : ops[i].steps # <<>>
      /\ cursor \in [op : Nat \ {0}, step : Nat \ {0}]
  BY <1>1 DEF LabelInv, PlaceFits
<1>4. \A p \in Steps : IsNew(p) => IF Before(p, cursor) THEN Tag(p) \in 1..tags ELSE Tag(p) = 0
  BY <1>1 DEF LabelInv, NewTags, Settled
<1>5. \A p, q \in Steps :
        IsNew(p) /\ IsNew(q) /\ Before(p, cursor) /\ Before(q, cursor) /\ Tag(p) = Tag(q) => p = q
  BY <1>1 DEF LabelInv, OneEach, Settled
<1>6. \A p \in Steps : ~IsNew(p) =>
        /\ Tag(p) \in 0..tags \cup {Dangling}
        /\ Tag(p) \in 1..tags => \E q \in Steps : IsNew(q) /\ Tag(q) = Tag(p) /\ Before(q, p)
  BY <1>1 DEF LabelInv, OldTags
<1>7. \A p \in Steps : Before(p, cursor) => Tag(p) # 0
  BY <1>1 DEF LabelInv, Visited
<1>8. tags < LineOf(cursor) /\ tags \in Nat /\ LineOf(cursor) \in 1..Len(lines) /\ Len(lines) \in Nat
      /\ Len(lines) <= MaxLines /\ Dangling = MaxLines + 1
  <2>1. tags < LineOf(cursor)
    BY <1>1 DEF LabelInv, TagCount
  <2>2. LineOf(cursor) \in 1..Len(lines) /\ tags \in Nat
    BY <1>1, <1>2 DEF StepsFit, StepFits, LabelType
  <2>3. Len(lines) \in Nat /\ Len(lines) <= MaxLines
    BY DEF RecordingInv, RecordingType
  <2> QED BY <2>1, <2>2, <2>3 DEF Dangling, Unseen
<1>9. \A p, q \in Steps : /\ Before(p, q) \/ p = q \/ Before(q, p)
                          /\ Before(p, q) => p # q /\ ~Before(q, p)
  BY <1>2, StepsTyped
<1>10. \A p \in Steps : Tag(p) \in Nat /\ LineOf(p) \in Nat
  BY <1>2, StepsTyped
<1>11. /\ After(cursor) \in [op : Nat \ {0}, step : Nat \ {0}]
       /\ After(cursor) \in Steps \/ After(cursor).op = Len(ops) + 1
       /\ \A p \in Steps : Before(p, After(cursor)) <=> Before(p, cursor) \/ p = cursor
  BY <1>1, <1>2, <1>3, AfterIs
<1>12. After(cursor) \in Steps => LineOf(cursor) < LineOf(After(cursor))
  BY <1>1, <1>2, <1>11, ByLine
(* The tag is there, or is the dangling one: to the next step. *)
<1>13. ASSUME cursor' = After(cursor), phase' = phase, tags' = tags, SameSteps, ~IsNew(cursor),
              NEW tag, tag \in 1..tags => tag = Tag(cursor), tag \in 0..tags \cup {Dangling}, tag # 0,
              \A p \in Steps : Tag(p)' = IF p = cursor THEN tag ELSE Tag(p)
       PROVE  LabelInv'
  <2>1. Steps' = Steps /\ Len(ops') = Len(ops) /\ phase' = "labelling" /\ Labelling'
        /\ \A p \in Steps : LineOf(p)' = LineOf(p) /\ (IsNew(p)' <=> IsNew(p))
    BY <1>1, <1>13 DEF SameSteps, Labelling
  <2>2. Parsed'
    BY <1>1, <1>2, <1>8, <1>13, <2>1, ParsedKept
  <2>3. \A p \in Steps : Settled(p)' <=> Before(p, cursor) \/ p = cursor
    BY <1>11, <1>13, <2>1 DEF Settled
  <2>4. PlaceFits'
    BY <1>3, <1>11, <1>13, <2>1 DEF PlaceFits, SameSteps
  <2>5. NewTags'
    BY <1>4, <1>13, <2>1, <2>3 DEF NewTags
  <2>6. OneEach'
    <3> SUFFICES ASSUME NEW p \in Steps, NEW q \in Steps, IsNew(p)', IsNew(q)', Settled(p)', Settled(q)',
                        Tag(p)' = Tag(q)'
                 PROVE  p = q
      BY <2>1 DEF OneEach
    <3> QED BY <1>5, <1>13, <2>1, <2>3
  <2>7. OldTags'
    <3> SUFFICES ASSUME NEW p \in Steps, ~IsNew(p)'
                 PROVE  /\ Tag(p)' \in 0..tags \cup {Dangling}
                        /\ Tag(p)' \in 1..tags =>
                             \E q \in Steps : IsNew(q)' /\ Tag(q)' = Tag(p)' /\ Before(q, p)
      BY <1>13, <2>1 DEF OldTags, Dangling
    <3>1. Tag(p)' \in 0..tags \cup {Dangling}
      BY <1>6, <1>13, <2>1
    <3>2. ASSUME Tag(p)' \in 1..tags
          PROVE  \E q \in Steps : IsNew(q)' /\ Tag(q)' = Tag(p)' /\ Before(q, p)
      <4>1. Tag(p)' = Tag(p) /\ Tag(p) \in 1..tags
        BY <1>13, <3>2
      <4>2. PICK q \in Steps : IsNew(q) /\ Tag(q) = Tag(p) /\ Before(q, p)
        BY <1>6, <2>1, <4>1
      <4>3. Tag(q)' = Tag(q)
        BY <1>13, <4>2
      <4> QED BY <2>1, <4>1, <4>2, <4>3
    <3> QED BY <3>1, <3>2
  <2>8. Visited'
    BY <1>7, <1>11, <1>13, <2>1 DEF Visited
  <2>9. TagCount'
    <3>1. cursor' \in Steps => LineOf(cursor') > LineOf(cursor)
      BY <1>10, <1>11, <1>12, <1>13
    <3>2. cursor' \in Steps => (LineOf(cursor))' = LineOf(cursor')
      BY <1>13, <2>1
    <3> QED BY <1>1, <1>8, <1>10, <1>13, <2>1, <3>1, <3>2 DEF TagCount
  <2>10. FinalTags'
    BY <2>1 DEF FinalTags
  <2> QED BY <2>2, <2>4, <2>5, <2>6, <2>7, <2>8, <2>9, <2>10 DEF LabelInv
<1>14. CASE StepAt(cursor).tag # 0 /\ cursor' = After(cursor) /\ UNCHANGED <<phase, ops, tags, track>>
  <2>1. SameSteps /\ \A p \in Steps : Tag(p)' = Tag(p)
    BY <1>2, <1>14, Untouched
  <2>2. Tag(cursor) # 0 /\ ~IsNew(cursor)
    BY <1>1, <1>4, <1>9, <1>14 DEF Tag
  <2>3. Tag(cursor) \in 0..tags \cup {Dangling}
    BY <1>1, <1>6, <2>2
  <2> QED BY <1>13, <1>14, <2>1, <2>2, <2>3
<1>15. CASE /\ StepAt(cursor).tag = 0 /\ StepAt(cursor).opty # "N"
            /\ ops' = Tagged(cursor, Dangling) /\ cursor' = After(cursor)
            /\ UNCHANGED <<phase, tags, track>>
  <2>1. Dangling \in Nat /\ Dangling \notin 1..tags /\ Dangling # 0
    BY <1>8
  <2>2. SameSteps /\ \A p \in Steps : Tag(p)' = IF p = cursor THEN Dangling ELSE Tag(p)
    BY <1>1, <1>2, <1>15, <2>1, Retagged
  <2>3. ~IsNew(cursor)
    BY <1>15 DEF IsNew
  <2> HIDE DEF Dangling
  <2> QED BY <1>13, <1>15, <2>1, <2>2, <2>3
<1>16. CASE /\ StepAt(cursor).tag = 0 /\ StepAt(cursor).opty = "N"
            /\ tags' = tags + 1 /\ ops' = Tagged(cursor, tags')
            /\ track' = cursor /\ phase' = "tracking" /\ UNCHANGED cursor
  <2>1. SameSteps /\ \A p \in Steps : Tag(p)' = IF p = cursor THEN tags + 1 ELSE Tag(p)
    BY <1>1, <1>2, <1>8, <1>16, Retagged
  <2>2. Steps' = Steps /\ Len(ops') = Len(ops) /\ Labelling' /\ cursor' = cursor
        /\ \A p \in Steps : LineOf(p)' = LineOf(p) /\ (IsNew(p)' <=> IsNew(p))
    BY <1>16, <2>1 DEF SameSteps, Labelling
  <2>3. Parsed'
    BY <1>1, <1>2, <1>8, <1>16, <2>1, <2>2, ParsedKept
  <2>4. \A p \in Steps : Settled(p)' <=> Before(p, cursor) \/ p = cursor
    BY <1>16, <2>2 DEF Settled
  <2>5. IsNew(cursor) /\ Tag(cursor)' = tags + 1
    BY <1>1, <1>16, <2>1 DEF IsNew
  <2>6. PlaceFits'
    <3>1. (IsNew(cursor))' /\ (Tag(cursor))' = tags'
      BY <1>1, <1>16, <2>2, <2>5
    <3>2. ~Before(cursor, cursor)
      BY <1>1, <1>9
    <3> QED BY <1>1, <1>3, <1>16, <2>1, <2>2, <3>1, <3>2 DEF PlaceFits, SameSteps
  <2>7. NewTags'
    <3> SUFFICES ASSUME NEW p \in Steps, IsNew(p)
                 PROVE  IF Settled(p)' THEN Tag(p)' \in 1..tags' ELSE Tag(p)' = 0
      BY <2>2 DEF NewTags
    <3> QED BY <1>4, <1>8, <1>16, <2>1, <2>4
  <2>8. OneEach'
    <3> SUFFICES ASSUME NEW p \in Steps, NEW q \in Steps, IsNew(p)', IsNew(q)', Settled(p)', Settled(q)',
                        Tag(p)' = Tag(q)'
                 PROVE  p = q
      BY <2>2 DEF OneEach
    <3>1. \A s \in {p, q} : s # cursor => Tag(s)' \in 1..tags
      BY <1>4, <2>1, <2>2, <2>4
    <3> QED BY <1>5, <1>8, <2>1, <2>2, <2>4, <3>1
  <2>9. OldTags'
    <3> SUFFICES ASSUME NEW p \in Steps, ~IsNew(p)
                 PROVE  /\ Tag(p)' \in 0..tags' \cup {Dangling}
                        /\ Tag(p)' \in 1..tags' =>
                             \E q \in Steps : IsNew(q)' /\ Tag(q)' = Tag(p)' /\ Before(q, p)
      BY <2>2 DEF OldTags, Dangling
    <3>1. Tag(p)' = Tag(p) /\ Tag(p) \in 0..tags \cup {Dangling}
      BY <1>6, <2>1, <2>5
    <3>2. Tag(p)' \in 0..tags' \cup {Dangling}
      BY <1>8, <1>16, <3>1
    <3>3. ASSUME Tag(p)' \in 1..tags'
          PROVE  \E q \in Steps : IsNew(q)' /\ Tag(q)' = Tag(p)' /\ Before(q, p)
      <4>1. Tag(p) \in 1..tags
        BY <1>8, <1>16, <3>1, <3>3
      <4>2. PICK q \in Steps : IsNew(q) /\ Tag(q) = Tag(p) /\ Before(q, p)
        BY <1>6, <4>1
      <4>3. q # cursor
        BY <1>1, <1>4, <1>9, <4>1, <4>2
      <4> QED BY <2>1, <2>2, <3>1, <4>2, <4>3
    <3> QED BY <3>2, <3>3
  <2>10. Visited'
    BY <1>7, <1>8, <2>1, <2>2 DEF Visited
  <2>11. TagCount'
    <3>1. (LineOf(cursor))' = LineOf(cursor)
      BY <1>1, <2>2
    <3> QED BY <1>1, <1>8, <1>16, <2>2, <3>1 DEF TagCount
  <2>12. FinalTags'
    BY <1>16 DEF FinalTags
  <2> QED BY <2>3, <2>6, <2>7, <2>8, <2>9, <2>10, <2>11, <2>12 DEF LabelInv
<1> QED BY <1>14, <1>15, <1>16 DEF Label

(* Where the loop of _track_ptr goes on: at the steps whose lines take what *)
(* the line of this one returned.                                           *)
NextUses == UNION {Uses(track, ptr) : ptr \in StepAt(track).ret}

LEMMA UsesAre ==
  ASSUME Parsed, RecordingInv, track \in Steps, NEW p
  PROVE  /\ p \in NextUses <=>
              p \in Steps /\ Before(track, p) /\ TakesAt(LineOf(p), lines[LineOf(track)].ret)
         /\ p \in NextUses => ~IsNew(p)
<1>1. StepFits(track) /\ LineFits(LineOf(track))
  BY DEF Parsed, StepsFit, StepFits, RecordingInv, LinesFit
<1>2. ASSUME p \in Steps
      PROVE  StepFits(p) /\ LineFits(LineOf(p))
  BY <1>2 DEF Parsed, StepsFit, StepFits, RecordingInv, LinesFit
<1>3. p \in NextUses <=>
        \E ptr \in StepAt(track).ret : p \in Steps /\ Before(track, p) /\ ptr \in StepAt(p).ptr
  BY DEF NextUses, Uses, Takes
<1>4. ASSUME p \in Steps, NEW ptr
      PROVE  ptr \in StepAt(p).ptr <=> TakesAt(LineOf(p), ptr)
  BY <1>2, <1>4 DEF StepFits, TakesAt
<1>5. lines[LineOf(track)].word = "FREE" =>
        lines[LineOf(track)].ret = Null /\ (p \in Steps => ~TakesAt(LineOf(p), Null))
  BY <1>1, <1>2 DEF LineFits, TakesAt
<1>6. p \in Steps => (TakesAt(LineOf(p), lines[LineOf(track)].ret) => ~IsNew(p))
  BY <1>2 DEF StepFits, TakesAt
<1>7. StepAt(track).ret = IF lines[LineOf(track)].word = "FREE" THEN {} ELSE {lines[LineOf(track)].ret}
  BY <1>1 DEF StepFits
<1>8. p \in NextUses <=>
        p \in Steps /\ Before(track, p) /\ TakesAt(LineOf(p), lines[LineOf(track)].ret)
  BY <1>3, <1>4, <1>5, <1>7
<1> QED BY <1>6, <1>8

(* What the loop does: the next use gets the tag, or the loop is over. *)
LEMMA TrackMoves ==
  ASSUME Parsed, RecordingInv, track \in Steps, Track, tags \in Nat
  PROVE  /\ UNCHANGED <<recording, next, marks, tags>> /\ phase = "tracking" /\ SameSteps
         /\ \/ /\ NextUses # {} /\ track' \in NextUses
               /\ \A q \in NextUses : track' = q \/ Before(track', q)
               /\ \A p \in Steps : Tag(p)' = IF p = track' THEN tags ELSE Tag(p)
               /\ phase' = "tracking" /\ cursor' = cursor
            \/ /\ NextUses = {} /\ phase' = "labelling" /\ cursor' = After(cursor)
               /\ track' = track /\ \A p \in Steps : Tag(p)' = Tag(p)
<1>1. UNCHANGED <<recording, next, marks, tags>> /\ phase = "tracking"
  BY DEF Track
<1>2. LabelType /\ LinesRise
  BY DEF Parsed
<1>3. CASE NextUses # {}
  <2>1. track' = First(NextUses) /\ ops' = Tagged(track', tags) /\ UNCHANGED <<phase, cursor>>
    BY <1>3 DEF Track, NextUses, Retag
  <2>2. NextUses \in SUBSET Steps
    BY DEF NextUses, Uses
  <2> HIDE DEF NextUses
  <2>3. First(NextUses) \in NextUses
        /\ \A q \in NextUses : First(NextUses) = q \/ Before(First(NextUses), q)
    BY <1>2, <1>3, <2>2, FirstIs
  <2> DEFINE at == First(NextUses)
  <2>4. at \in Steps /\ ops' = Tagged(at, tags)
    BY <2>1, <2>2, <2>3
  <2> HIDE DEF at
  <2>5. SameSteps /\ \A p \in Steps : Tag(p)' = IF p = at THEN tags ELSE Tag(p)
    BY <1>2, <2>4, Retagged
  <2> QED BY <1>1, <1>3, <2>1, <2>3, <2>5 DEF at
<1>4. CASE NextUses = {}
  <2>1. UNCHANGED <<track, ops>> /\ phase' = "labelling" /\ cursor' = After(cursor)
    BY <1>4 DEF Track, NextUses
  <2>2. SameSteps /\ \A p \in Steps : Tag(p)' = Tag(p)
    BY <1>2, <2>1, Untouched
  <2> QED BY <1>1, <1>4, <2>1, <2>2
<1> QED BY <1>3, <1>4

LEMMA TrackStep ==
  ASSUME LabelInv, RecordingInv, Track
  PROVE  LabelInv'
<1>1. phase = "tracking" /\ Labelling
  BY DEF Track, Labelling
<1>2. Parsed /\ LabelType /\ LinesRise /\ tags \in Nat
  BY DEF LabelInv, Parsed, LabelType
<1>3. /\ \A i \in 1..Len(ops) : ops[i].steps # <<>>
      /\ cursor \in [op : Nat \ {0}, step : Nat \ {0}]
      /\ cursor \in Steps /\ IsNew(cursor) /\ Tag(cursor) = tags
      /\ track \in Steps /\ ~Before(track, cursor)
  BY <1>1 DEF LabelInv, PlaceFits
<1>4. \A p \in Steps : Settled(p) <=> Before(p, cursor) \/ p = cursor
  BY <1>1 DEF Settled
<1>5. \A p \in Steps : IsNew(p) => IF Settled(p) THEN Tag(p) \in 1..tags ELSE Tag(p) = 0
  BY <1>1 DEF LabelInv, NewTags
<1>6. \A p, q \in Steps : IsNew(p) /\ IsNew(q) /\ Settled(p) /\ Settled(q) /\ Tag(p) = Tag(q) => p = q
  BY <1>1 DEF LabelInv, OneEach
<1>7. \A p \in Steps : ~IsNew(p) =>
        /\ Tag(p) \in 0..tags \cup {Dangling}
        /\ Tag(p) \in 1..tags => \E q \in Steps : IsNew(q) /\ Tag(q) = Tag(p) /\ Before(q, p)
  BY <1>1 DEF LabelInv, OldTags
<1>8. \A p \in Steps : Before(p, cursor) => Tag(p) # 0
  BY <1>1 DEF LabelInv, Visited
<1>9. tags <= LineOf(cursor) /\ tags <= Len(lines) /\ tags # 0
  <2>1. Tag(cursor) \in 1..tags
    BY <1>3, <1>4, <1>5
  <2> QED BY <1>1, <1>2, <1>3, <2>1 DEF LabelInv, TagCount
<1>10. /\ \A p, q \in Steps : /\ Before(p, q) \/ p = q \/ Before(q, p)
                              /\ Before(p, q) => p # q /\ ~Before(q, p)
       /\ \A p, q, r \in Steps : Before(p, q) /\ Before(q, r) => Before(p, r)
       /\ \A p \in Steps : Tag(p) \in Nat /\ LineOf(p) \in Nat
  BY <1>2, StepsTyped
<1>11. /\ UNCHANGED <<recording, next, marks, tags>> /\ SameSteps
       /\ \/ /\ NextUses # {} /\ track' \in NextUses
             /\ \A q \in NextUses : track' = q \/ Before(track', q)
             /\ \A p \in Steps : Tag(p)' = IF p = track' THEN tags ELSE Tag(p)
             /\ phase' = "tracking" /\ cursor' = cursor
          \/ /\ NextUses = {} /\ phase' = "labelling" /\ cursor' = After(cursor)
             /\ track' = track /\ \A p \in Steps : Tag(p)' = Tag(p)
  BY <1>2, <1>3, TrackMoves
<1>12. Labelling' /\ lines' = lines /\ tags' = tags
       /\ Steps' = Steps /\ Len(ops') = Len(ops)
       /\ \A p \in Steps : LineOf(p)' = LineOf(p) /\ (IsNew(p)' <=> IsNew(p))
  BY <1>11 DEF Labelling, recording, SameSteps
<1>13. Parsed'
  BY <1>1, <1>2, <1>11, <1>12, ParsedKept
<1>14. FinalTags'
  BY <1>11 DEF FinalTags
<1>15. CASE /\ NextUses # {} /\ track' \in NextUses
            /\ \A p \in Steps : Tag(p)' = IF p = track' THEN tags ELSE Tag(p)
            /\ phase' = "tracking" /\ cursor' = cursor
  <2> DEFINE at == track'
  <2>1. at \in Steps /\ Before(track, at) /\ ~IsNew(at)
    BY <1>2, <1>3, <1>15, UsesAre
  <2>2. Before(cursor, at) /\ at # cursor
    BY <1>3, <1>10, <2>1
  <2>3. \A p \in Steps : Tag(p)' = IF p = at THEN tags ELSE Tag(p)
    BY <1>15
  <2> HIDE DEF at
  <2>4. \A p \in Steps : Settled(p)' <=> Settled(p)
    BY <1>1, <1>12, <1>15 DEF Settled
  <2>5. PlaceFits'
    <3>1. (IsNew(cursor))' /\ (Tag(cursor))' = tags
      BY <1>3, <1>12, <1>15, <2>2, <2>3
    <3>2. ~Before(at, cursor)
      BY <1>3, <1>10, <2>1, <2>2
    <3> QED BY <1>3, <1>11, <1>12, <1>15, <2>1, <3>1, <3>2 DEF PlaceFits, SameSteps, at
  <2>6. NewTags'
    BY <1>5, <1>12, <2>1, <2>3, <2>4 DEF NewTags
  <2>7. OneEach'
    <3> SUFFICES ASSUME NEW p \in Steps, NEW q \in Steps, IsNew(p)', IsNew(q)', Settled(p)', Settled(q)',
                        Tag(p)' = Tag(q)'
                 PROVE  p = q
      BY <1>12 DEF OneEach
    <3> QED BY <1>6, <1>12, <2>1, <2>3, <2>4
  <2>8. OldTags'
    <3> SUFFICES ASSUME NEW p \in Steps, ~IsNew(p)
                 PROVE  /\ Tag(p)' \in 0..tags \cup {Dangling}
                        /\ Tag(p)' \in 1..tags =>
                             \E q \in Steps : IsNew(q)' /\ Tag(q)' = Tag(p)' /\ Before(q, p)
      BY <1>12 DEF OldTags, Dangling
    <3>1. CASE p = at
      <4>1. Tag(p)' = tags /\ tags \in 0..tags
        BY <1>2, <2>3, <3>1
      <4>2. \A q \in Steps : q = cursor => IsNew(q)' /\ Tag(q)' = tags /\ Before(q, p)
        BY <1>3, <1>12, <2>2, <2>3, <3>1
      <4> QED BY <1>3, <4>1, <4>2
    <3>2. CASE p # at
      <4>1. Tag(p)' = Tag(p)
        BY <2>3, <3>2
      <4>2. ASSUME Tag(p) \in 1..tags
            PROVE  \E q \in Steps : IsNew(q)' /\ Tag(q)' = Tag(p) /\ Before(q, p)
        <5>1. PICK q \in Steps : IsNew(q) /\ Tag(q) = Tag(p) /\ Before(q, p)
          BY <1>7, <4>2
        <5> QED BY <1>12, <2>1, <2>3, <5>1
      <4> QED BY <1>7, <4>1, <4>2
    <3> QED BY <3>1, <3>2
  <2>9. Visited'
    BY <1>8, <1>9, <1>12, <1>15, <2>3 DEF Visited
  <2>10. TagCount'
    <3>1. (LineOf(cursor))' = LineOf(cursor)
      BY <1>3, <1>12, <1>15
    <3> QED BY <1>9, <1>12, <1>15, <3>1 DEF TagCount
  <2> QED BY <1>13, <1>14, <2>5, <2>6, <2>7, <2>8, <2>9, <2>10 DEF LabelInv
<1>16. CASE /\ phase' = "labelling" /\ cursor' = After(cursor)
            /\ \A p \in Steps : Tag(p)' = Tag(p)
  <2>1. /\ After(cursor) \in [op : Nat \ {0}, step : Nat \ {0}]
        /\ After(cursor) \in Steps \/ After(cursor).op = Len(ops) + 1
        /\ \A p \in Steps : Before(p, After(cursor)) <=> Before(p, cursor) \/ p = cursor
    BY <1>2, <1>3, AfterIs
  <2>2. \A p \in Steps : Settled(p)' <=> Settled(p)
    BY <1>4, <1>16, <2>1 DEF Settled
  <2>3. PlaceFits'
    BY <1>3, <1>11, <1>12, <1>16, <2>1 DEF PlaceFits, SameSteps
  <2>4. NewTags'
    BY <1>5, <1>12, <1>16, <2>2 DEF NewTags
  <2>5. OneEach'
    <3> SUFFICES ASSUME NEW p \in Steps, NEW q \in Steps, IsNew(p)', IsNew(q)', Settled(p)', Settled(q)',
                        Tag(p)' = Tag(q)'
                 PROVE  p = q
      BY <1>12 DEF OneEach
    <3> QED BY <1>6, <1>12, <1>16, <2>2
  <2>6. OldTags'
    <3> SUFFICES ASSUME NEW p \in Steps, ~IsNew(p)
                 PROVE  /\ Tag(p)' \in 0..tags \cup {Dangling}
                        /\ Tag(p)' \in 1..tags =>
                             \E q \in Steps : IsNew(q)' /\ Tag(q)' = Tag(p)' /\ Before(q, p)
      BY <1>12 DEF OldTags, Dangling
    <3> QED BY <1>7, <1>12, <1>16
  <2>7. Visited'
    <3> SUFFICES ASSUME NEW p \in Steps, Before(p, cursor) \/ p = cursor
                 PROVE  Tag(p) # 0
      BY <1>12, <1>16, <2>1 DEF Visited
    <3> QED BY <1>3, <1>8, <1>9
  <2>8. TagCount'
    <3>1. After(cursor) \in Steps => LineOf(cursor) < LineOf(After(cursor))
      BY <1>2, <1>3, <2>1, ByLine
    <3>2. cursor' \in Steps => (LineOf(cursor))' = LineOf(cursor')
      BY <1>12, <1>16
    <3> QED BY <1>2, <1>3, <1>9, <1>10, <1>12, <1>16, <3>1, <3>2 DEF TagCount
  <2> QED BY <1>13, <1>14, <2>3, <2>4, <2>5, <2>6, <2>7, <2>8 DEF LabelInv
<1> QED BY <1>11, <1>15, <1>16

(* Where steps are taken out, what stays is still right if each tag that    *)
(* stays has its making step.                                               *)
Whole(kept) ==
  /\ \A p \in kept : /\ Tag(p) \in 1..tags
                     /\ \E q \in kept : IsNew(q) /\ Tag(q) = Tag(p) /\ LineOf(q) <= LineOf(p)
  /\ \A p, q \in kept : IsNew(p) /\ IsNew(q) /\ Tag(p) = Tag(q) => p = q

LEMMA KeepsSome ==
  ASSUME NEW o, NEW r, NEW s, NEW kept, NEW some \in SUBSET StepsOf(r),
         Keeps(o, r, kept), Keeps(r, s, some)
  PROVE  Keeps(o, s, {q \in kept : \E p \in some : At(r, p) = At(o, q)})
<1> DEFINE both == {q \in kept : \E p \in some : At(r, p) = At(o, q)}
<1>1. ASSUME NEW p \in StepsOf(s)
      PROVE  \E q \in both : At(s, p) = At(o, q)
  <2>1. PICK t \in some : At(s, p) = At(r, t)
    BY DEF Keeps
  <2>2. PICK q \in kept : At(r, t) = At(o, q)
    BY DEF Keeps
  <2> QED BY <2>1, <2>2
<1>2. ASSUME NEW q \in both
      PROVE  \E p \in StepsOf(s) : At(s, p) = At(o, q)
  BY DEF Keeps
<1> QED BY <1>1, <1>2 DEF Keeps

LEMMA KeepsSame ==
  ASSUME NEW o \in Seq(OpRecords)
  PROVE  Keeps(o, o, StepsOf(o))
BY DEF Keeps

LEMMA ThinStep ==
  ASSUME LabelInv, NEW kept \in SUBSET Steps, Keeps(ops, ops', kept), Whole(kept),
         UNCHANGED <<recording, next, marks, cursor, track, tags>>,
         phase \notin {"recording", "parsing"}, phase' \in {"done", "cleaned", "exported", "failed"}
  PROVE  LabelInv'
<1>1. LabelType /\ StepsFit /\ LinesRise /\ Stages /\ lines' = lines
  BY DEF LabelInv, Parsed, recording
<1>2. LabelType'
  BY <1>1 DEF LabelType, Keeps
<1>3. Steps' = StepsOf(ops') /\ Steps = StepsOf(ops)
  BY DEF Steps, StepsOf
<1>4. ASSUME NEW p \in Steps'
      PROVE  \E q \in kept : StepAt(p)' = StepAt(q)
  BY <1>3 DEF Keeps, StepAt, At
<1>5. ASSUME NEW q \in kept
      PROVE  \E p \in Steps' : StepAt(p)' = StepAt(q)
  BY <1>3 DEF Keeps, StepAt, At
<1>6. LinesRise'
  <2>1. Rise(ops)
    BY <1>1, <1>3 DEF LinesRise, Rise, LineOf, StepAt, At
  <2>2. Rise(ops')
    BY <2>1 DEF Keeps
  <2> QED BY <1>3, <2>2 DEF LinesRise, Rise, LineOf, StepAt, At
<1>7. StepsFit'
  <2> SUFFICES ASSUME NEW p \in Steps' PROVE StepFits(p)'
    BY DEF StepsFit
  <2>1. PICK q \in kept : StepAt(p)' = StepAt(q)
    BY <1>4
  <2>2. StepFits(q)
    BY <1>1 DEF StepsFit
  <2> QED BY <1>1, <2>1, <2>2 DEF StepFits, LineOf, IsNew, IsHeap, Birth
<1>8. Stages'
  BY <1>1 DEF Stages
<1>9. FinalTags'
  <2>1. ASSUME NEW p \in Steps'
        PROVE  /\ Tag(p)' \in 1..tags
               /\ \E q \in Steps' : IsNew(q)' /\ Tag(q)' = Tag(p)' /\ LineOf(q)' <= LineOf(p)'
    <3>1. PICK s \in kept : StepAt(p)' = StepAt(s)
      BY <1>4
    <3>2. PICK t \in kept : IsNew(t) /\ Tag(t) = Tag(s) /\ LineOf(t) <= LineOf(s)
      BY DEF Whole
    <3>3. PICK q \in Steps' : StepAt(q)' = StepAt(t)
      BY <1>5
    <3> QED BY <3>1, <3>2, <3>3 DEF Whole, Tag, IsNew, LineOf
  <2>2. ASSUME NEW p \in Steps', NEW q \in Steps', IsNew(p)', IsNew(q)', Tag(p)' = Tag(q)'
        PROVE  p = q
    <3>1. PICK s \in kept : StepAt(p)' = StepAt(s)
      BY <1>4
    <3>2. PICK t \in kept : StepAt(q)' = StepAt(t)
      BY <1>4
    <3>3. s = t
      BY <2>2, <3>1, <3>2 DEF Whole, Tag, IsNew
    <3>4. LineOf(p)' = LineOf(q)'
      BY <3>1, <3>2, <3>3 DEF LineOf
    <3>5. At(ops', p).line = At(ops', q).line /\ Rise(ops') /\ ops' \in Seq(OpRecords)
      BY <1>2, <1>3, <1>6, <3>4 DEF LineOf, StepAt, At, LinesRise, Rise, LabelType
    <3> QED BY <1>3, <3>5, LineOrder
  <2> QED BY <2>1, <2>2 DEF FinalTags
<1>10. PlaceFits' /\ NewTags' /\ OneEach' /\ OldTags' /\ Visited' /\ TagCount'
  BY <1>1 DEF LabelInv, PlaceFits, NewTags, OneEach, OldTags, Visited, TagCount, Labelling
<1> QED BY <1>2, <1>6, <1>7, <1>8, <1>9, <1>10 DEF LabelInv, Parsed

(* Once the outer loops are through, every step has been visited. *)
LEMMA AllVisited ==
  ASSUME LabelInv, phase = "labelling", cursor \notin Steps
  PROVE  /\ \A p \in Steps : Before(p, cursor) /\ Settled(p) /\ Tag(p) \in 1..tags \cup {Dangling}
         /\ \A p \in Steps : IsNew(p) => Tag(p) \in 1..tags
<1>1. LabelType /\ Labelling
  BY DEF LabelInv, Parsed, Labelling
<1>2. cursor.op = Len(ops) + 1
  BY <1>1 DEF LabelInv, PlaceFits
<1>3. \A p \in Steps : p.op \in 1..Len(ops) /\ Len(ops) \in Nat
  BY <1>1, StepsTyped
<1>4. \A p \in Steps : Before(p, cursor) /\ Settled(p)
  BY <1>2, <1>3 DEF Before, Settled
<1>5. \A p \in Steps : IsNew(p) => Tag(p) \in 1..tags
  BY <1>1, <1>4 DEF LabelInv, NewTags
<1>6. \A p \in Steps : Tag(p) # 0 /\ (~IsNew(p) => Tag(p) \in 0..tags \cup {Dangling})
  BY <1>1, <1>4 DEF LabelInv, Visited, OldTags
<1>7. \A p \in Steps : Tag(p) \in 0..tags /\ Tag(p) # 0 => Tag(p) \in 1..tags
  BY <1>1 DEF LabelType
<1> QED BY <1>4, <1>5, <1>6, <1>7

LEMMA SweepStep ==
  ASSUME LabelInv, RecordingInv, Sweep
  PROVE  LabelInv'
<1> DEFINE kept == {p \in Steps : Kept(StepAt(p))}
<1>1. /\ phase = "labelling" /\ cursor \notin Steps /\ phase' = "done"
      /\ ops' = Thinned(kept)
      /\ UNCHANGED <<recording, next, marks, cursor, track, tags>>
  BY DEF Sweep
<1>2. LabelType /\ LinesRise /\ ops \in Seq(OpRecords)
  BY DEF LabelInv, Parsed, LabelType
<1>3. Keeps(ops, ops', kept)
  BY <1>1, <1>2, ThinnedKeeps
<1>4. \A p \in kept : p \in Steps /\ Tag(p) # Dangling
  BY DEF Kept, Tag
<1>5. ASSUME NEW p \in Steps, Tag(p) # Dangling PROVE p \in kept
  BY <1>5 DEF Kept, Tag
<1> HIDE DEF kept
<1>6. \A p \in Steps : Tag(p) \in 1..tags \cup {Dangling} /\ (IsNew(p) => Tag(p) \in 1..tags) /\ Settled(p)
  BY <1>1, AllVisited
<1>7. Dangling \notin 1..tags
  <2>1. tags <= Len(lines) /\ Len(lines) <= MaxLines /\ tags \in Nat
    BY <1>2 DEF LabelInv, TagCount, LabelType, RecordingInv, RecordingType
  <2>2. Len(lines) \in Nat
    BY DEF RecordingInv, RecordingType
  <2> QED BY <2>1, <2>2 DEF Dangling, Unseen
<1>8. Whole(kept)
  <2>1. ASSUME NEW p \in kept
        PROVE  /\ Tag(p) \in 1..tags
               /\ \E q \in kept : IsNew(q) /\ Tag(q) = Tag(p) /\ LineOf(q) <= LineOf(p)
    <3>1. p \in Steps /\ Tag(p) \in 1..tags /\ LineOf(p) \in Nat
      BY <1>2, <1>4, <1>6, StepsTyped
    <3>2. CASE IsNew(p)
      BY <3>1, <3>2
    <3>3. CASE ~IsNew(p)
      <4>1. PICK q \in Steps : IsNew(q) /\ Tag(q) = Tag(p) /\ Before(q, p)
        BY <1>1, <3>1, <3>3 DEF LabelInv, OldTags, Labelling
      <4>2. q \in kept
        BY <1>5, <1>7, <3>1, <4>1
      <4>3. LineOf(q) < LineOf(p) /\ LineOf(q) \in Nat
        BY <1>2, <3>1, <4>1, ByLine, StepsTyped
      <4> QED BY <3>1, <4>1, <4>2, <4>3
    <3> QED BY <3>2, <3>3
  <2>2. ASSUME NEW p \in kept, NEW q \in kept, IsNew(p), IsNew(q), Tag(p) = Tag(q)
        PROVE  p = q
    BY <1>1, <1>4, <1>6, <2>2 DEF LabelInv, OneEach, Labelling
  <2> QED BY <2>1, <2>2 DEF Whole
<1>9. kept \in SUBSET Steps
  BY <1>4
<1> QED BY <1>1, <1>3, <1>8, <1>9, ThinStep

LEMMA WholeNow ==
  ASSUME LabelInv, phase \in {"done", "cleaned"}
  PROVE  Whole(Steps)
BY DEF LabelInv, FinalTags, Whole

(* What the cleanup keeps: the steps whose tag is not a stable one. *)
LEMMA CleanupKeeps ==
  ASSUME LabelInv, Cleanup, phase' = "cleaned"
  PROVE  phase = "done" /\ Keeps(ops, ops', {p \in Steps : Tag(p) \notin Stable})
<1> DEFINE kept == {p \in Steps : Tag(p) \notin Stable}
<1>1. ops' = Clean(Thinned(kept)) /\ phase = "done"
  BY DEF Cleanup
<1>2. ops \in Seq(OpRecords) /\ kept \in SUBSET Steps
  BY DEF LabelInv, Parsed, LabelType
<1> HIDE DEF kept
<1>3. Keeps(ops, Thinned(kept), kept)
  BY <1>2, ThinnedKeeps
<1>4. Thinned(kept) \in Seq(OpRecords)
  BY <1>3 DEF Keeps
<1>5. Keeps(Thinned(kept), Clean(Thinned(kept)), StepsOf(Thinned(kept)))
  BY <1>4, CleanKeeps
<1>6. Keeps(ops, ops', kept)
  BY <1>1, <1>3, <1>5, KeepsAll
<1> QED BY <1>1, <1>6 DEF kept

LEMMA CleanupStep ==
  ASSUME LabelInv, Cleanup
  PROVE  LabelInv'
<1>1. phase = "done" /\ UNCHANGED <<recording, next, marks, cursor, track, tags>>
  BY DEF Cleanup
<1>2. ops \in Seq(OpRecords) /\ Steps = StepsOf(ops)
  BY DEF LabelInv, Parsed, LabelType, Steps, StepsOf
<1>3. CASE phase' = "failed" /\ ops' = ops
  <2>1. Keeps(ops, ops', Steps) /\ Whole(Steps)
    BY <1>1, <1>2, <1>3, KeepsSame, WholeNow
  <2> QED BY <1>1, <1>3, <2>1, ThinStep
<1>4. CASE phase' = "cleaned"
  <2> DEFINE kept == {p \in Steps : Tag(p) \notin Stable}
  <2>1. Keeps(ops, ops', kept)
    BY <1>4, CleanupKeeps
  <2>2. Whole(kept)
    <3>1. Whole(Steps)
      BY <1>1, WholeNow
    <3> QED BY <3>1 DEF Whole
  <2>3. kept \in SUBSET Steps
    OBVIOUS
  <2> HIDE DEF kept
  <2> QED BY <1>1, <1>4, <2>1, <2>2, <2>3, ThinStep
<1> QED BY <1>3, <1>4 DEF Cleanup

LEMMA ExportStep ==
  ASSUME LabelInv, Export
  PROVE  LabelInv'
<1> DEFINE full == Clean(ops)
<1>1. phase \in {"done", "cleaned"} /\ UNCHANGED <<recording, next, marks, cursor, track, tags>>
  BY DEF Export
<1>2. ops \in Seq(OpRecords) /\ Steps = StepsOf(ops) /\ LabelType /\ LinesRise
  BY DEF LabelInv, Parsed, LabelType, Steps, StepsOf
<1>3. Whole(Steps)
  BY <1>1, WholeNow
<1>4. Keeps(ops, full, Steps)
  BY <1>2, CleanKeeps
<1>5. \/ phase' = "failed" /\ ops' = ops
      \/ phase' = "exported" /\ ops' = full
      \/ phase' = "exported" /\ ops' = Front(full) /\ full # <<>>
  BY DEF Export
<1> HIDE DEF full
<1>6. CASE phase' = "failed" /\ ops' = ops
  <2>1. Keeps(ops, ops', Steps)
    BY <1>2, <1>6, KeepsSame
  <2> QED BY <1>1, <1>3, <1>6, <2>1, ThinStep
<1>7. CASE phase' = "exported" /\ ops' = full
  BY <1>1, <1>3, <1>4, <1>7, ThinStep
<1>8. CASE phase' = "exported" /\ ops' = Front(full) /\ full # <<>>
  <2> DEFINE some == {p \in StepsOf(full) : p.op < Len(full)}
             kept == {q \in Steps : \E p \in some : At(full, p) = At(ops, q)}
  <2>1. full \in Seq(OpRecords) /\ Rise(full)
    <3>1. Rise(ops)
      BY <1>2 DEF LinesRise, Rise, LineOf, StepAt, At
    <3> QED BY <1>4, <3>1 DEF Keeps
  <2>2. Keeps(full, ops', some) /\ some \in SUBSET StepsOf(full)
    BY <1>8, <2>1, FrontKeeps
  <2>3. \A p \in StepsOf(full) : p \in some <=> p.op < Len(full)
    OBVIOUS
  <2> HIDE DEF some
  <2>4. Keeps(ops, ops', kept)
    BY <1>4, <2>2, KeepsSome
  <2>5. Whole(kept)
    <3>1. ASSUME NEW p \in kept
          PROVE  /\ Tag(p) \in 1..tags
                 /\ \E q \in kept : IsNew(q) /\ Tag(q) = Tag(p) /\ LineOf(q) <= LineOf(p)
      <4>1. PICK q \in Steps : IsNew(q) /\ Tag(q) = Tag(p) /\ LineOf(q) <= LineOf(p)
        BY <1>3 DEF Whole
      <4>2. PICK s \in some : At(full, s) = At(ops, p)
        OBVIOUS
      <4>3. PICK t \in StepsOf(full) : At(full, t) = At(ops, q)
        BY <1>4 DEF Keeps
      <4>4. At(full, t).line <= At(full, s).line /\ At(full, t).line \in Nat /\ At(full, s).line \in Nat
        <5>1. At(full, t).line = LineOf(q) /\ At(full, s).line = LineOf(p)
          BY <4>2, <4>3 DEF LineOf, StepAt, At
        <5> QED BY <1>2, <4>1, <5>1, StepsTyped
      <4>5. t = s \/ Before(t, s)
        <5>1. s \in StepsOf(full)
          BY <2>2
        <5> QED BY <2>1, <4>3, <4>4, <5>1, LineOrder
      <4>6. s.op < Len(full) /\ s.op \in Nat /\ t.op \in Nat
        BY <2>1, <2>2, <2>3, <4>2, <4>3, Places
      <4>7. t \in some
        <5>1. Len(full) \in Nat
          BY <2>1
        <5> QED BY <2>3, <4>3, <4>5, <4>6, <5>1 DEF Before
      <4>8. q \in kept
        BY <4>1, <4>3, <4>7
      <4> QED BY <1>3, <4>1, <4>8 DEF Whole
    <3>2. ASSUME NEW p \in kept, NEW q \in kept, IsNew(p), IsNew(q), Tag(p) = Tag(q)
          PROVE  p = q
      BY <1>3, <3>2 DEF Whole
    <3> QED BY <3>1, <3>2 DEF Whole
  <2>6. kept \in SUBSET Steps
    OBVIOUS
  <2> HIDE DEF kept
  <2> QED BY <1>1, <1>8, <2>4, <2>5, <2>6, ThinStep
<1> QED BY <1>5, <1>6, <1>7, <1>8

-----------------------------------------------------------------------------
(* The parser's steps keep LabelInv.                                        *)

LEMMA OnlyElements ==
  ASSUME NEW S, NEW s \in Seq(S), NEW places \in SUBSET (1..Len(s))
  PROVE  /\ Only(s, places) \in Seq(S)
         /\ \A k \in 1..Len(Only(s, places)) : \E i \in places : Only(s, places)[k] = s[i]
         /\ \A i \in places : \E k \in 1..Len(Only(s, places)) : Only(s, places)[k] = s[i]
<1> DEFINE t == Only(s, places)
<1>1. PICK at \in [1..Len(t) -> places] :
        /\ \A k \in 1..Len(t) : t[k] = s[at[k]]
        /\ \A i \in places : \E k \in 1..Len(t) : at[k] = i
  BY OnlyPlaces
<1>2. t \in Seq(S)
  BY OnlyPlaces
<1> HIDE DEF t
<1>3. \A k \in 1..Len(t) : \E i \in places : t[k] = s[i]
  BY <1>1
<1>4. ASSUME NEW i \in places
      PROVE  \E k \in 1..Len(t) : t[k] = s[i]
  <2>1. PICK k \in 1..Len(t) : at[k] = i
    BY <1>1
  <2>2. t[k] = s[at[k]]
    BY <1>1
  <2> QED BY <2>1, <2>2
<1> QED BY <1>2, <1>3, <1>4 DEF t

LEMMA WaitingIs ==
  ASSUME marks \in Seq(MarkRecords)
  PROVE  /\ Waiting \in Seq(MarkRecords)
         /\ \A k \in 1..Len(Waiting) : \E i \in 1..Len(marks) :
              /\ marks[i].count > 1
              /\ Waiting[k] = [count |-> marks[i].count - 1, bty |-> marks[i].bty]
         /\ \A i \in 1..Len(marks) : marks[i].count > 1 =>
              \E k \in 1..Len(Waiting) :
                Waiting[k] = [count |-> marks[i].count - 1, bty |-> marks[i].bty]
<1> DEFINE places == {i \in 1..Len(marks) : ~Due(marks[i])}
           s == Only(marks, places)
           rest == Reverse(s)
<1>1. \A i \in 1..Len(marks) : marks[i] \in MarkRecords
  OBVIOUS
<1>2. \A m \in MarkRecords :
        /\ m.count \in Int /\ (~Due(m) <=> m.count > 1)
        /\ [m EXCEPT !.count = @ - 1] = [count |-> m.count - 1, bty |-> m.bty]
        /\ [m EXCEPT !.count = @ - 1] \in MarkRecords
  BY DEF MarkRecords, Due
<1>3. Waiting = [i \in 1..Len(rest) |-> [rest[i] EXCEPT !.count = @ - 1]]
  BY DEF Waiting
<1>4. places \in SUBSET (1..Len(marks)) /\ \A i \in places : marks[i].count > 1
  BY <1>1, <1>2
<1>5. \A i \in 1..Len(marks) : marks[i].count > 1 => i \in places
  BY <1>1, <1>2
<1> HIDE DEF places
<1>6. /\ s \in Seq(MarkRecords)
      /\ \A k \in 1..Len(s) : \E i \in places : s[k] = marks[i]
      /\ \A i \in places : \E k \in 1..Len(s) : s[k] = marks[i]
  BY <1>4, OnlyElements
<1> HIDE DEF s
<1>7. /\ Len(rest) = Len(s) /\ Len(s) \in Nat
      /\ \A i \in 1..Len(s) : rest[i] = s[(Len(s) - i) + 1] /\ (Len(s) - i) + 1 \in 1..Len(s)
  BY <1>6 DEF Reverse
<1> HIDE DEF rest
<1>8. \A i \in 1..Len(rest) : rest[i] \in MarkRecords
  BY <1>6, <1>7
<1>9. Waiting \in Seq(MarkRecords) /\ Len(Waiting) = Len(s)
  <2>1. \A i \in 1..Len(rest) : [rest[i] EXCEPT !.count = @ - 1] \in MarkRecords
    BY <1>2, <1>8
  <2> QED BY <1>3, <1>7, <2>1
<1>10. \A k \in 1..Len(s) : Waiting[k] = [rest[k] EXCEPT !.count = @ - 1]
  BY <1>3, <1>7
<1>11. ASSUME NEW k \in 1..Len(s)
       PROVE  Waiting[k] = [count |-> rest[k].count - 1, bty |-> rest[k].bty]
  BY <1>2, <1>7, <1>8, <1>10
<1>12. ASSUME NEW k \in 1..Len(s)
       PROVE  \E i \in 1..Len(marks) :
                /\ marks[i].count > 1
                /\ Waiting[k] = [count |-> marks[i].count - 1, bty |-> marks[i].bty]
  <2> DEFINE m == (Len(s) - k) + 1
  <2>1. rest[k] = s[m] /\ m \in 1..Len(s)
    BY <1>7
  <2> HIDE DEF m
  <2>2. PICK i \in places : s[m] = marks[i]
    BY <1>6, <2>1
  <2> QED BY <1>4, <1>11, <2>1, <2>2
<1>13. ASSUME NEW i \in 1..Len(marks), marks[i].count > 1
       PROVE  \E k \in 1..Len(s) :
                Waiting[k] = [count |-> marks[i].count - 1, bty |-> marks[i].bty]
  <2>1. PICK k \in 1..Len(s) : s[k] = marks[i]
    BY <1>5, <1>6, <1>13
  <2>2. (Len(s) - k) + 1 \in 1..Len(s) /\ rest[(Len(s) - k) + 1] = s[k]
    <3>1. (Len(s) - k) + 1 \in 1..Len(s) /\ (Len(s) - ((Len(s) - k) + 1)) + 1 = k
      BY <1>7
    <3> QED BY <1>7, <3>1
  <2> QED BY <1>11, <2>1, <2>2
<1> QED BY <1>9, <1>12, <1>13

LEMMA MarkedIs ==
  ASSUME marks \in Seq(MarkRecords), NEW s \in StepRecords
  PROVE  /\ Marked(s) \in StepRecords
         /\ Marked(s).opty = s.opty /\ Marked(s).ptr = s.ptr /\ Marked(s).ret = s.ret
         /\ Marked(s).tag = s.tag /\ Marked(s).line = s.line
         /\ (\A i \in 1..Len(marks) : marks[i].count > 1) => Marked(s).bty = s.bty
         /\ (\E i \in 1..Len(marks) : marks[i].count <= 1) =>
              \E i \in 1..Len(marks) : marks[i].count <= 1 /\ Marked(s).bty = marks[i].bty
<1> DEFINE places == {i \in 1..Len(marks) : Due(marks[i])}
           due == Only(marks, places)
<1>1. \A i \in 1..Len(marks) : marks[i] \in MarkRecords
  OBVIOUS
<1>2. \A m \in MarkRecords : m.count \in Int /\ m.bty \in {"B", "T"} /\ (Due(m) <=> m.count <= 1)
  BY DEF MarkRecords, Due
<1>3. Marked(s) = IF due = <<>> THEN s ELSE [s EXCEPT !.bty = Head(due).bty]
  BY DEF Marked
<1>4. /\ places \in SUBSET (1..Len(marks))
      /\ \A i \in 1..Len(marks) : i \in places <=> marks[i].count <= 1
  BY <1>1, <1>2
<1> HIDE DEF places
<1>5. /\ due \in Seq(MarkRecords)
      /\ \A k \in 1..Len(due) : \E i \in places : due[k] = marks[i]
      /\ \A i \in places : \E k \in 1..Len(due) : due[k] = marks[i]
  BY <1>4, OnlyElements
<1> HIDE DEF due
<1>6. CASE due = <<>>
  <2>1. \A i \in 1..Len(marks) : i \notin places
    BY <1>5, <1>6
  <2>2. \A i \in 1..Len(marks) : marks[i].count > 1 /\ ~(marks[i].count <= 1)
    BY <1>1, <1>2, <1>4, <2>1
  <2> QED BY <1>3, <1>6, <2>2
<1>7. CASE due # <<>>
  <2>1. Head(due) = due[1] /\ 1 \in 1..Len(due)
    BY <1>5, <1>7, EmptySeq
  <2>2. PICK i \in places : Head(due) = marks[i]
    BY <1>5, <2>1
  <2>3. i \in 1..Len(marks) /\ marks[i].count <= 1 /\ ~(marks[i].count > 1) /\ marks[i].bty \in {"B", "T"}
    BY <1>1, <1>2, <1>4
  <2>4. Marked(s) = [s EXCEPT !.bty = marks[i].bty]
    BY <1>3, <1>7, <2>2
  <2>5. \A b \in {"B", "T"} :
          /\ [s EXCEPT !.bty = b] \in StepRecords /\ [s EXCEPT !.bty = b].bty = b
          /\ [s EXCEPT !.bty = b].opty = s.opty /\ [s EXCEPT !.bty = b].ptr = s.ptr
          /\ [s EXCEPT !.bty = b].ret = s.ret /\ [s EXCEPT !.bty = b].tag = s.tag
          /\ [s EXCEPT !.bty = b].line = s.line
    BY DEF StepRecords
  <2> HIDE DEF StepRecords
  <2> QED BY <2>3, <2>4, <2>5
<1> QED BY <1>6, <1>7

LEMMA StepOfIs ==
  ASSUME RecordingInv, NEW i \in 1..Len(lines), IsHeap(i)
  PROVE  /\ StepOf(lines[i], i) \in StepRecords
         /\ StepOf(lines[i], i).opty = "N" <=> Birth(i)
         /\ StepOf(lines[i], i).ptr = IF Birth(i) THEN {} ELSE {lines[i].ptr}
         /\ StepOf(lines[i], i).ret = IF lines[i].word = "FREE" THEN {} ELSE {lines[i].ret}
         /\ StepOf(lines[i], i).tag = 0 /\ StepOf(lines[i], i).bty = "R"
         /\ StepOf(lines[i], i).line = i
<1> DEFINE line == lines[i]
           opty == CASE line.word \in Births -> "N"
                     [] line.word = "FREE" -> "D"
                     [] line.word = "REALLOC" /\ line.ptr = Null -> "N"
                     [] line.word = "REALLOC" /\ line.ptr # Null /\ line.number = 0 -> "D"
                     [] OTHER -> "E"
<1>1. line \in LineRecords /\ Len(lines) \in Nat
  BY DEF RecordingInv, RecordingType
<1>2. line.word \in HeapWords /\ line.ptr \in Addrs \cup {Null} /\ line.ret \in Addrs \cup {Null}
  BY <1>1 DEF IsHeap, LineRecords
<1>3. line.word \in Births => line.word # "FREE" /\ line.word # "REALLOC"
  BY DEF Births
<1>4. opty \in {"N", "E", "D"}
  BY <1>2, <1>3 DEF HeapWords
<1>5. opty = "N" <=> Birth(i)
  BY <1>2, <1>3 DEF HeapWords, Birth
<1>6. StepOf(line, i) = [opty |-> opty,
                         ptr  |-> IF opty = "N" THEN {} ELSE {line.ptr},
                         ret  |-> IF line.word = "FREE" THEN {} ELSE {line.ret},
                         tag  |-> 0, bty |-> "R", line |-> i]
  BY DEF StepOf
<1> HIDE DEF opty, line
<1>7. StepOf(line, i) \in StepRecords
  BY <1>1, <1>2, <1>4, <1>6 DEF StepRecords
<1> QED BY <1>5, <1>6, <1>7 DEF line

LEMMA StepStillFits ==
  ASSUME NEW p, NEW q, StepFits(q), StepAt(p)' = StepAt(q), lines' = lines, Len(lines) \in Nat,
         next \in Nat, next' \in Nat, next <= next'
  PROVE  StepFits(p)'
<1>1. LineOf(p)' = LineOf(q) /\ (IsNew(p)' <=> IsNew(q))
  BY DEF LineOf, IsNew
<1>2. LineOf(q) \in 1..Len(lines) /\ LineOf(q) < next'
  BY DEF StepFits
<1> QED BY <1>1, <1>2 DEF StepFits, IsHeap, Birth

(* The step of a line about the heap comes after all others. *)
LEMMA HeapLineStep ==
  ASSUME RecordingInv, ops \in Seq(OpRecords), ops # <<>>, marks \in Seq(MarkRecords),
         next \in 1..Len(lines), IsHeap(next), ops' = Add(Marked(StepOf(lines[next], next)))
  PROVE  LET s == Marked(StepOf(lines[next], next)) IN
         /\ s \in StepRecords /\ (s.opty = "N" <=> Birth(next)) /\ s.tag = 0 /\ s.line = next
         /\ s.ptr = IF Birth(next) THEN {} ELSE {lines[next].ptr}
         /\ s.ret = IF lines[next].word = "FREE" THEN {} ELSE {lines[next].ret}
         /\ (\A i \in 1..Len(marks) : marks[i].count > 1) => s.bty = "R"
         /\ (\E i \in 1..Len(marks) : marks[i].count <= 1) =>
              \E i \in 1..Len(marks) : marks[i].count <= 1 /\ s.bty = marks[i].bty
         /\ ops' \in Seq(OpRecords) /\ ops' # <<>>
         /\ \E at : /\ Steps' = Steps \cup {at} /\ StepAt(at)' = s
                    /\ \A p \in Steps : StepAt(p)' = StepAt(p) /\ Before(p, at) /\ ~Before(at, p)
                    /\ ~Before(at, at)
<1> DEFINE plain == StepOf(lines[next], next)
           s == Marked(plain)
<1>1. /\ plain \in StepRecords /\ (plain.opty = "N" <=> Birth(next))
      /\ plain.ptr = IF Birth(next) THEN {} ELSE {lines[next].ptr}
      /\ plain.ret = IF lines[next].word = "FREE" THEN {} ELSE {lines[next].ret}
      /\ plain.tag = 0 /\ plain.line = next /\ plain.bty = "R"
  BY StepOfIs
<1>2. ops' = Add(s)
  OBVIOUS
<1> SUFFICES /\ s \in StepRecords /\ (s.opty = "N" <=> Birth(next)) /\ s.tag = 0 /\ s.line = next
             /\ s.ptr = IF Birth(next) THEN {} ELSE {lines[next].ptr}
             /\ s.ret = IF lines[next].word = "FREE" THEN {} ELSE {lines[next].ret}
             /\ (\A i \in 1..Len(marks) : marks[i].count > 1) => s.bty = "R"
             /\ (\E i \in 1..Len(marks) : marks[i].count <= 1) =>
                  \E i \in 1..Len(marks) : marks[i].count <= 1 /\ s.bty = marks[i].bty
             /\ ops' \in Seq(OpRecords) /\ ops' # <<>>
             /\ \E at : /\ Steps' = Steps \cup {at} /\ StepAt(at)' = s
                        /\ \A p \in Steps : StepAt(p)' = StepAt(p) /\ Before(p, at) /\ ~Before(at, p)
                        /\ ~Before(at, at)
  OBVIOUS
<1>3. s = Marked(plain)
  OBVIOUS
<1> HIDE DEF plain, s
<1>4. /\ Marked(plain) \in StepRecords /\ Marked(plain).opty = plain.opty
      /\ Marked(plain).ptr = plain.ptr /\ Marked(plain).ret = plain.ret
      /\ Marked(plain).tag = plain.tag /\ Marked(plain).line = plain.line
      /\ (\A i \in 1..Len(marks) : marks[i].count > 1) => Marked(plain).bty = plain.bty
      /\ (\E i \in 1..Len(marks) : marks[i].count <= 1) =>
           \E i \in 1..Len(marks) : marks[i].count <= 1 /\ Marked(plain).bty = marks[i].bty
  BY <1>1, MarkedIs
<1>5. /\ s \in StepRecords /\ (s.opty = "N" <=> Birth(next)) /\ s.tag = 0 /\ s.line = next
      /\ s.ptr = IF Birth(next) THEN {} ELSE {lines[next].ptr}
      /\ s.ret = IF lines[next].word = "FREE" THEN {} ELSE {lines[next].ret}
      /\ (\A i \in 1..Len(marks) : marks[i].count > 1) => s.bty = "R"
      /\ (\E i \in 1..Len(marks) : marks[i].count <= 1) =>
           \E i \in 1..Len(marks) : marks[i].count <= 1 /\ s.bty = marks[i].bty
  BY <1>1, <1>3, <1>4
<1>6. /\ ops' \in Seq(OpRecords) /\ ops' # <<>>
      /\ \E at : /\ StepsOf(ops') = Steps \cup {at} /\ At(ops', at) = s
                 /\ \A p \in Steps : At(ops', p) = StepAt(p) /\ Before(p, at) /\ ~Before(at, p)
                 /\ ~Before(at, at)
  BY <1>2, <1>5, AddSteps
<1>7. PICK at : /\ StepsOf(ops') = Steps \cup {at} /\ At(ops', at) = s
                /\ \A p \in Steps : At(ops', p) = StepAt(p) /\ Before(p, at) /\ ~Before(at, p)
                /\ ~Before(at, at)
  BY <1>6
<1>8. Steps' = Steps \cup {at} /\ StepAt(at)' = s /\ \A p \in Steps : StepAt(p)' = StepAt(p)
  BY <1>7 DEF Steps, StepsOf, StepAt, At
<1> QED BY <1>5, <1>6, <1>7, <1>8

LEMMA ParseStep ==
  ASSUME LabelInv, RecordingInv, Parse
  PROVE  LabelInv'
<1>1. /\ phase = "parsing" /\ next <= Len(lines) /\ next' = next + 1 /\ phase' = phase
      /\ lines' = lines /\ cursor' = cursor /\ track' = track /\ tags' = tags
  BY DEF Parse, recording
<1>2. LabelType /\ StepsFit /\ LinesRise /\ Stages /\ Covered
  BY <1>1 DEF LabelInv, Parsed, Stages
<1>3. /\ ops \in Seq(OpRecords) /\ ops # <<>> /\ marks \in Seq(MarkRecords) /\ next \in 1..Len(lines)
      /\ Len(lines) \in Nat /\ tags = 0 /\ \A p \in Steps : Tag(p) = 0
      /\ cursor = [op |-> 1, step |-> 1] /\ track = cursor
  <2>1. Len(lines) \in Nat
    BY DEF RecordingInv, RecordingType
  <2> QED BY <1>1, <1>2, <2>1 DEF LabelType, Stages
<1>4. \A i : (IsHeap(i)' <=> IsHeap(i)) /\ (Birth(i)' <=> Birth(i))
  BY <1>1 DEF IsHeap, Birth
<1>5. ~Labelling' /\ phase' \notin {"done", "cleaned", "exported", "failed"} /\ tags' <= Len(lines')
  BY <1>1, <1>3 DEF Labelling
<1>6. PlaceFits' /\ NewTags' /\ OneEach' /\ OldTags' /\ Visited' /\ TagCount' /\ FinalTags'
  BY <1>5 DEF PlaceFits, NewTags, OneEach, OldTags, Visited, TagCount, FinalTags, Labelling
<1> SUFFICES Parsed'
  BY <1>6 DEF LabelInv
<1>7. \A i : i \in 1..(next' - 1) <=> i \in 1..(next - 1) \/ i = next
  BY <1>1, <1>3
<1>8. CASE /\ lines[next].word \in HeapWords
           /\ ops' = Add(Marked(StepOf(lines[next], next))) /\ marks' = Waiting
  <2> DEFINE s == Marked(StepOf(lines[next], next))
  <2>1. IsHeap(next)
    BY <1>8 DEF IsHeap
  <2>2. /\ s \in StepRecords /\ (s.opty = "N" <=> Birth(next)) /\ s.tag = 0 /\ s.line = next
        /\ s.ptr = IF Birth(next) THEN {} ELSE {lines[next].ptr}
        /\ s.ret = IF lines[next].word = "FREE" THEN {} ELSE {lines[next].ret}
    BY <1>3, <1>8, <2>1, HeapLineStep
  <2>3. /\ ops' \in Seq(OpRecords) /\ ops' # <<>>
        /\ \E at : /\ Steps' = Steps \cup {at} /\ StepAt(at)' = s
                   /\ \A p \in Steps : StepAt(p)' = StepAt(p) /\ Before(p, at) /\ ~Before(at, p)
                   /\ ~Before(at, at)
    BY <1>3, <1>8, <2>1, HeapLineStep
  <2> HIDE DEF s
  <2>4. PICK at : /\ Steps' = Steps \cup {at} /\ StepAt(at)' = s
                  /\ \A p \in Steps : StepAt(p)' = StepAt(p) /\ Before(p, at) /\ ~Before(at, p)
                  /\ ~Before(at, at)
    BY <2>3
  <2>5. Steps' = Steps \cup {at} /\ StepAt(at)' = s /\ \A p \in Steps : StepAt(p)' = StepAt(p)
    BY <2>4
  <2>6. LabelType'
    <3>1. marks' \in Seq(MarkRecords)
      BY <1>3, <1>8, WaitingIs
    <3>2. next' \in 1..(Len(lines') + 1)
      BY <1>1, <1>3
    <3> QED BY <1>1, <1>2, <2>3, <3>1, <3>2 DEF LabelType
  <2>7. StepsFit'
    <3>1. ASSUME NEW p \in Steps PROVE StepFits(p)'
      <4>1. StepFits(p)
        BY <1>2 DEF StepsFit
      <4> QED BY <1>1, <1>3, <2>5, <4>1, StepStillFits
    <3>2. StepFits(at)'
      <4>1. LineOf(at)' = next /\ (IsNew(at)' <=> s.opty = "N")
        BY <2>2, <2>5 DEF LineOf, IsNew
      <4>2. next < next' /\ next \in 1..Len(lines')
        BY <1>1, <1>3
      <4> QED BY <1>1, <2>1, <2>2, <2>5, <4>1, <4>2 DEF StepFits, IsHeap, Birth
    <3> QED BY <2>5, <3>1, <3>2 DEF StepsFit
  <2>8. LinesRise'
    <3> SUFFICES ASSUME NEW p \in Steps', NEW q \in Steps', Before(p, q)
                 PROVE  LineOf(p)' < LineOf(q)'
      BY DEF LinesRise
    <3>1. p \in Steps
      BY <2>4, <2>5
    <3>2. CASE q \in Steps
      BY <1>2, <2>5, <3>1, <3>2 DEF LinesRise, LineOf
    <3>3. CASE q = at
      BY <1>2, <2>2, <2>5, <3>1, <3>3 DEF StepsFit, StepFits, LineOf
    <3> QED BY <2>5, <3>2, <3>3
  <2>9. Stages'
    <3>1. Covered'
      <4> SUFFICES ASSUME NEW i \in 1..(next' - 1), IsHeap(i)
                   PROVE  \E p \in Steps' : LineOf(p)' = i
        BY <1>4 DEF Covered
      <4>1. CASE i = next
        BY <2>2, <2>5, <4>1 DEF LineOf
      <4>2. CASE i \in 1..(next - 1)
        BY <1>2, <2>5, <4>2 DEF Covered, LineOf
      <4> QED BY <1>7, <4>1, <4>2
    <3>2. \A p \in Steps' : Tag(p)' = 0
      BY <1>3, <2>2, <2>5 DEF Tag
    <3> QED BY <1>1, <1>3, <2>3, <3>1, <3>2 DEF Stages
  <2> QED BY <2>6, <2>7, <2>8, <2>9 DEF Parsed
<1>9. CASE /\ lines[next].word \in {"NEXT", "END", "PROCESS_START", "BUGGED", "TARGET"}
           /\ ops' = ops \/ ops' = NextOp(lines[next])
           /\ marks' \in Seq(MarkRecords)
  <2>1. ~IsHeap(next)
    BY <1>9 DEF IsHeap, HeapWords, Births
  <2>2. /\ ops' \in Seq(OpRecords) /\ ops' # <<>> /\ StepsOf(ops') = Steps
        /\ \A p \in Steps : At(ops', p) = StepAt(p)
    <3>1. CASE ops' = ops
      BY <1>3, <3>1 DEF Steps, StepsOf, StepAt, At
    <3>2. CASE ops' = NextOp(lines[next])
      BY <1>3, <3>2, NextOpSteps
    <3> QED BY <1>9, <3>1, <3>2
  <2>3. Steps' = Steps /\ \A p \in Steps : StepAt(p)' = StepAt(p)
    BY <2>2 DEF Steps, StepsOf, StepAt, At
  <2>4. LabelType'
    <3>1. next' \in 1..(Len(lines') + 1)
      BY <1>1, <1>3
    <3> QED BY <1>1, <1>2, <1>9, <2>2, <3>1 DEF LabelType
  <2>5. StepsFit'
    <3>1. ASSUME NEW p \in Steps PROVE StepFits(p)'
      <4>1. StepFits(p)
        BY <1>2 DEF StepsFit
      <4> QED BY <1>1, <1>3, <2>3, <4>1, StepStillFits
    <3> QED BY <2>3, <3>1 DEF StepsFit
  <2>6. LinesRise'
    BY <1>2, <2>3 DEF LinesRise, LineOf
  <2>7. Covered'
    BY <1>2, <1>4, <1>7, <2>1, <2>3 DEF Covered, LineOf
  <2>8. Stages'
    BY <1>1, <1>3, <2>2, <2>3, <2>7 DEF Stages, Tag
  <2> QED BY <2>4, <2>5, <2>6, <2>8 DEF Parsed
<1>10. lines[next].word \in {"BUGGED", "TARGET"} /\ ops' = ops =>
         (marks' = Append(marks, [count |-> lines[next].number,
                                  bty |-> IF lines[next].word = "BUGGED" THEN "B" ELSE "T"])
            => marks' \in Seq(MarkRecords))
  <2>1. lines[next].number \in Nat
    <3>1. lines[next] \in LineRecords
      BY <1>3 DEF RecordingInv, RecordingType
    <3> QED BY <3>1 DEF LineRecords
  <2>2. [count |-> lines[next].number, bty |-> IF lines[next].word = "BUGGED" THEN "B" ELSE "T"]
          \in MarkRecords
    BY <2>1 DEF MarkRecords
  <2> QED BY <1>3, <2>2
<1> QED BY <1>3, <1>8, <1>9, <1>10 DEF Parse

LEMMA EndParseStep ==
  ASSUME LabelInv, RecordingInv, EndParse
  PROVE  LabelInv'
<1>1. /\ phase = "parsing" /\ next > Len(lines) /\ ops' = Clean(ops) /\ phase' = "labelling"
      /\ lines' = lines /\ next' = next /\ marks' = marks /\ cursor' = cursor /\ track' = track
      /\ tags' = tags
  BY DEF EndParse, recording
<1>2. LabelType /\ StepsFit /\ LinesRise /\ Stages /\ Covered
  BY <1>1 DEF LabelInv, Parsed, Stages
<1>3. /\ ops \in Seq(OpRecords) /\ tags = 0 /\ \A p \in Steps : Tag(p) = 0
      /\ cursor = [op |-> 1, step |-> 1] /\ Len(lines) \in Nat /\ next \in 1..(Len(lines) + 1)
  <2>1. Len(lines) \in Nat
    BY DEF RecordingInv, RecordingType
  <2> QED BY <1>1, <1>2, <2>1 DEF LabelType, Stages
<1>4. Steps' = StepsOf(ops') /\ Steps = StepsOf(ops)
  BY DEF Steps, StepsOf
<1>5. Keeps(ops, ops', Steps) /\ \A i \in 1..Len(ops') : ops'[i].steps # <<>>
  BY <1>1, <1>3, <1>4, CleanKeeps
<1>6. LabelType'
  BY <1>1, <1>2, <1>5 DEF LabelType, Keeps
<1>7. ASSUME NEW p \in Steps'
      PROVE  \E q \in Steps : StepAt(p)' = StepAt(q)
  BY <1>4, <1>5 DEF Keeps, StepAt, At
<1>8. ASSUME NEW q \in Steps
      PROVE  \E p \in Steps' : StepAt(p)' = StepAt(q)
  BY <1>4, <1>5 DEF Keeps, StepAt, At
<1>9. LinesRise'
  <2>1. Rise(ops)
    BY <1>2, <1>4 DEF LinesRise, Rise, LineOf, StepAt, At
  <2>2. Rise(ops')
    BY <1>5, <2>1 DEF Keeps
  <2> QED BY <1>4, <2>2 DEF LinesRise, Rise, LineOf, StepAt, At
<1>10. StepsFit'
  <2> SUFFICES ASSUME NEW p \in Steps' PROVE StepFits(p)'
    BY DEF StepsFit
  <2>1. PICK q \in Steps : StepAt(p)' = StepAt(q)
    BY <1>7
  <2>2. StepFits(q)
    BY <1>2 DEF StepsFit
  <2> QED BY <1>1, <2>1, <2>2 DEF StepFits, LineOf, IsNew, IsHeap, Birth
<1>11. next' = Len(lines') + 1
  BY <1>1, <1>3
<1>12. Covered'
  <2> SUFFICES ASSUME NEW i \in 1..(next - 1), IsHeap(i)
               PROVE  \E p \in Steps' : LineOf(p)' = i
    BY <1>1 DEF Covered, IsHeap
  <2>1. PICK q \in Steps : LineOf(q) = i
    BY <1>2 DEF Covered
  <2> QED BY <1>8, <2>1 DEF LineOf
<1>13. Stages'
  BY <1>1, <1>11, <1>12 DEF Stages
<1>14. Parsed'
  BY <1>6, <1>9, <1>10, <1>13 DEF Parsed
<1>15. ASSUME NEW p \in Steps'
       PROVE  /\ Tag(p)' = 0 /\ p.op \in Nat \ {0} /\ p.step \in Nat \ {0}
              /\ LineOf(p)' \in 1..Len(lines')
  <2>1. Tag(p)' = 0
    BY <1>3, <1>7 DEF Tag
  <2>2. p.op \in 1..Len(ops') /\ p.step \in 1..Len(ops'[p.op].steps)
    <3>1. ops' \in Seq(OpRecords)
      BY <1>6 DEF LabelType
    <3> QED BY <1>4, <3>1, Places
  <2>3. LineOf(p)' \in 1..Len(lines')
    BY <1>10 DEF StepsFit, StepFits
  <2> QED BY <2>1, <2>2, <2>3
<1>16. \A p \in Steps' : ~Settled(p)'
  BY <1>1, <1>3, <1>15 DEF Settled, Before
<1>17. PlaceFits'
  <2>1. ops' = <<>> => cursor'.op = Len(ops') + 1
    BY <1>1, <1>3
  <2>2. ops' # <<>> => cursor' \in Steps'
    <3> SUFFICES ASSUME ops' # <<>> PROVE [op |-> 1, step |-> 1] \in StepsOf(ops')
      BY <1>1, <1>3, <1>4
    <3>1. ops' \in Seq(OpRecords)
      BY <1>6 DEF LabelType
    <3>2. 1 \in 1..Len(ops')
      BY <3>1, EmptySeq
    <3>3. ops'[1].steps \in Seq(StepRecords) /\ ops'[1].steps # <<>>
      BY <1>5, <3>1, <3>2, Places
    <3>4. 1 \in 1..Len(ops'[1].steps)
      BY <3>3, EmptySeq
    <3> QED BY <3>1, <3>2, <3>4, Places
  <2> QED BY <1>1, <1>3, <1>5, <2>1, <2>2 DEF PlaceFits
<1>18. NewTags' /\ OneEach' /\ OldTags' /\ Visited' /\ FinalTags'
  BY <1>1, <1>3, <1>15, <1>16 DEF NewTags, OneEach, OldTags, Visited, FinalTags, Settled
<1>19. TagCount'
  <2>1. cursor' \in Steps' => (LineOf(cursor))' \in 1..Len(lines')
    BY <1>15
  <2> QED BY <1>1, <1>3, <2>1 DEF TagCount
<1> QED BY <1>14, <1>17, <1>18, <1>19 DEF LabelInv

LEMMA EndRecordingStep ==
  ASSUME LabelInv, RecordingInv, EndRecording
  PROVE  LabelInv'
<1> DEFINE op == [isInit |-> TRUE, isEnd |-> FALSE, steps |-> <<>>]
<1>1. /\ phase = "recording" /\ phase' = "parsing" /\ ops' = <<op>> /\ lines' = lines
      /\ next' = next /\ marks' = marks /\ cursor' = cursor /\ track' = track /\ tags' = tags
  BY DEF EndRecording, recording
<1>2. LabelType /\ Stages
  BY DEF LabelInv, Parsed
<1>3. /\ next = 1 /\ tags = 0 /\ cursor = [op |-> 1, step |-> 1] /\ track = cursor
      /\ Len(lines) \in Nat
  <2>1. Len(lines) \in Nat
    BY DEF RecordingInv, RecordingType
  <2> QED BY <1>1, <1>2, <2>1 DEF Stages
<1>4. op \in OpRecords /\ op.steps = <<>>
  <2>1. <<>> \in Seq(StepRecords)
    OBVIOUS
  <2> QED BY <2>1 DEF OpRecords
<1> HIDE DEF op
<1>5. ops' \in Seq(OpRecords) /\ Len(ops') = 1 /\ ops'[1] = op /\ ops' # <<>>
  BY <1>1, <1>4
<1>6. Steps' = {}
  <2>1. \A p \in StepsOf(ops') : FALSE
    <3> SUFFICES ASSUME NEW p \in StepsOf(ops') PROVE FALSE
      OBVIOUS
    <3>1. p.op \in 1..Len(ops') /\ p.step \in 1..Len(ops'[p.op].steps)
      BY <1>5, Places
    <3>2. ops'[p.op].steps = <<>>
      BY <1>4, <1>5, <3>1
    <3> QED BY <3>1, <3>2
  <2> QED BY <2>1 DEF Steps, StepsOf
<1>7. LabelType'
  BY <1>1, <1>2, <1>5 DEF LabelType
<1>8. Covered' /\ StepsFit' /\ LinesRise'
  BY <1>1, <1>3, <1>6 DEF Covered, StepsFit, LinesRise
<1>9. Stages'
  BY <1>1, <1>3, <1>5, <1>6, <1>8 DEF Stages
<1>10. TagCount'
  BY <1>1, <1>3 DEF TagCount, Labelling
<1> QED BY <1>1, <1>7, <1>8, <1>9, <1>10
    DEF LabelInv, Parsed, PlaceFits, NewTags, OneEach, OldTags, Visited, FinalTags, Labelling

(* While the target runs there are no operations. *)
LEMMA RecordingEmpty ==
  ASSUME LabelInv, phase = "recording", ops' = ops
  PROVE  Steps = {} /\ Steps' = {}
<1>1. ops = <<>>
  BY DEF LabelInv, Parsed, Stages
<1> QED BY <1>1 DEF Steps

LEMMA TargetLabelStep ==
  ASSUME LabelInv, RecordingInv, RecordingInv', Target
  PROVE  LabelInv'
<1>1. /\ phase = "recording" /\ phase' = phase /\ next' = next /\ ops' = ops /\ marks' = marks
      /\ cursor' = cursor /\ track' = track /\ tags' = tags
  BY DEF Target, Allocate, AllocateFails, AllocateUnseen, Free, Realloc, ReallocZero, ReallocFails,
         Exec, Annotate, Log
<1>2. LabelType /\ Stages
  BY DEF LabelInv, Parsed
<1>3. next = 1 /\ tags = 0 /\ Len(lines') \in Nat
  <2>1. Len(lines') \in Nat
    BY DEF RecordingInv, RecordingType
  <2> QED BY <1>1, <1>2, <2>1 DEF Stages
<1>4. LabelType'
  BY <1>1, <1>2, <1>3 DEF LabelType
<1>5. Steps' = {}
  BY <1>1, RecordingEmpty
<1>6. StepsFit' /\ LinesRise' /\ Stages'
  BY <1>1, <1>2, <1>5 DEF StepsFit, LinesRise, Stages
<1>7. TagCount'
  BY <1>1, <1>3 DEF TagCount, Labelling
<1> QED BY <1>1, <1>4, <1>6, <1>7
    DEF LabelInv, Parsed, PlaceFits, NewTags, OneEach, OldTags, Visited, FinalTags, Labelling

LEMMA LabelInit ==
  ASSUME Init
  PROVE  LabelInv
<1>1. /\ lines = <<>> /\ phase = "recording" /\ next = 1 /\ ops = <<>> /\ marks = <<>>
      /\ cursor = [op |-> 1, step |-> 1] /\ track = cursor /\ tags = 0
  BY DEF Init
<1>2. LabelType
  BY <1>1 DEF LabelType
<1>3. Steps = {}
  BY <1>1 DEF Steps
<1> QED BY <1>1, <1>2, <1>3
    DEF LabelInv, Parsed, StepsFit, LinesRise, Stages, PlaceFits, NewTags, OneEach, OldTags, Visited,
        TagCount, FinalTags, Labelling

LEMMA Unmoved ==
  ASSUME LabelInv, UNCHANGED vars
  PROVE  LabelInv'
<1>1. /\ lines' = lines /\ phase' = phase /\ next' = next /\ ops' = ops /\ marks' = marks
      /\ cursor' = cursor /\ track' = track /\ tags' = tags
  BY DEF vars, recording
<1>2. Steps' = Steps /\ \A p : StepAt(p)' = StepAt(p)
  BY <1>1 DEF Steps, StepAt
<1>3. \A p : LineOf(p)' = LineOf(p) /\ (IsNew(p)' <=> IsNew(p)) /\ Tag(p)' = Tag(p)
  BY <1>2 DEF LineOf, IsNew, Tag
<1>4. \A p : Settled(p)' <=> Settled(p)
  BY <1>1 DEF Settled
<1>5. \A i : (IsHeap(i)' <=> IsHeap(i)) /\ (Birth(i)' <=> Birth(i))
  BY <1>1 DEF IsHeap, Birth
<1>6. LabelType' /\ LinesRise'
  BY <1>1, <1>2, <1>3 DEF LabelInv, Parsed, LabelType, LinesRise
<1>7. StepsFit'
  <2>1. ASSUME NEW p, StepFits(p) PROVE StepFits(p)'
    BY <1>1, <1>2, <1>3, <1>5, <2>1 DEF StepFits
  <2> QED BY <1>2, <2>1 DEF LabelInv, Parsed, StepsFit
<1>8. Stages'
  BY <1>1, <1>2, <1>3, <1>5 DEF LabelInv, Parsed, Stages, Covered
<1>9. (Labelling' <=> Labelling) /\ Dangling' = Dangling
  BY <1>1 DEF Labelling, Dangling, Unseen
<1>10. PlaceFits'
  BY <1>1, <1>2, <1>9 DEF LabelInv, PlaceFits, IsNew, Tag
<1>11. NewTags' /\ OneEach' /\ OldTags' /\ Visited'
  BY <1>1, <1>2, <1>3, <1>4, <1>9 DEF LabelInv, NewTags, OneEach, OldTags, Visited
<1>12. TagCount'
  BY <1>1, <1>2, <1>9 DEF LabelInv, TagCount, LineOf
<1>13. FinalTags'
  BY <1>1, <1>2, <1>3 DEF LabelInv, FinalTags
<1> QED BY <1>6, <1>7, <1>8, <1>10, <1>11, <1>12, <1>13 DEF LabelInv, Parsed

LEMMA LabelInvStep ==
  ASSUME LabelInv, RecordingInv, RecordingInv', [Next]_vars
  PROVE  LabelInv'
<1>1. Target => LabelInv'
  BY TargetLabelStep
<1>2. EndRecording => LabelInv'
  BY EndRecordingStep
<1>3. Parse => LabelInv'
  BY ParseStep
<1>4. EndParse => LabelInv'
  BY EndParseStep
<1>5. Label => LabelInv'
  BY LabelStep
<1>6. Track => LabelInv'
  BY TrackStep
<1>7. Sweep => LabelInv'
  BY SweepStep
<1>8. Cleanup => LabelInv'
  BY CleanupStep
<1>9. Export => LabelInv'
  BY ExportStep
<1>10. UNCHANGED vars => LabelInv'
  BY Unmoved
<1> QED BY <1>1, <1>2, <1>3, <1>4, <1>5, <1>6, <1>7, <1>8, <1>9, <1>10 DEF Next, Refine

(* Whatever is recorded and however far the labeller is: the recording is   *)
(* one that a heap can give, steps are its lines in order, and tags are     *)
(* numbered by the outer loops of label(), one for each step that makes.    *)
THEOREM LabelInvariant == Spec => [](RecordingInv /\ LabelInv)
<1>1. Init => RecordingInv /\ LabelInv
  BY RecordingInit, LabelInit
<1>2. RecordingInv /\ LabelInv /\ [Next]_vars => RecordingInv' /\ LabelInv'
  BY RecordingStep, LabelInvStep
<1> QED BY <1>1, <1>2, PTL DEF Spec

-----------------------------------------------------------------------------
(* Types.                                                                   *)

LEMMA TypesHold ==
  ASSUME RecordingInv, LabelInv
  PROVE  TypeOK
<1>1. /\ lines \in Seq(LineRecords) /\ Len(lines) \in Nat /\ Len(lines) <= MaxLines
      /\ heap \in [Addrs -> 0..Unseen] /\ objects \in 0..MaxLines
      /\ odd \subseteq {"allocfails", "reallocfails", "unseen", "exec"}
  BY DEF RecordingInv, RecordingType
<1>2. /\ LabelType /\ StepsFit /\ tags \in Nat /\ tags <= Len(lines)
      /\ ops \in Seq(OpRecords) /\ next \in 1..(Len(lines) + 1) /\ Stages
  BY DEF LabelInv, Parsed, LabelType, TagCount
<1>3. tags \in 0..MaxLines /\ next \in 1..(MaxLines + 1)
  BY <1>1, <1>2
<1>4. \A p \in Steps : Tag(p) \in 0..tags \cup {Unseen}
  <2> SUFFICES ASSUME NEW p \in Steps PROVE Tag(p) \in 0..tags \cup {Unseen}
    OBVIOUS
  <2>1. CASE phase \in {"recording", "parsing"}
    <3>1. phase = "recording" => Steps = {}
      BY <1>2 DEF Stages, Steps
    <3>2. phase = "parsing" => Tag(p) = 0
      BY <1>2 DEF Stages
    <3> QED BY <1>2, <2>1, <3>1, <3>2
  <2>2. CASE phase \in {"labelling", "tracking"}
    <3>1. CASE IsNew(p)
      <4>1. Tag(p) \in 1..tags \/ Tag(p) = 0
        BY <2>2, <3>1 DEF LabelInv, NewTags, Labelling
      <4> QED BY <1>2, <4>1
    <3>2. CASE ~IsNew(p)
      BY <2>2, <3>2 DEF LabelInv, OldTags, Labelling, Dangling
    <3> QED BY <3>1, <3>2
  <2>3. CASE phase \in {"done", "cleaned", "exported", "failed"}
    <3>1. Tag(p) \in 1..tags
      BY <2>3 DEF LabelInv, FinalTags
    <3> QED BY <1>2, <3>1
  <2> QED BY <1>2, <2>1, <2>2, <2>3 DEF LabelType
<1>5. ASSUME NEW i \in 1..Len(ops)
      PROVE  /\ ops[i].isInit \in BOOLEAN /\ ops[i].isEnd \in BOOLEAN
             /\ \A j \in 1..Len(ops[i].steps) :
                  /\ ops[i].steps[j].opty \in {"N", "E", "D"} /\ ops[i].steps[j].line \in 1..Len(lines)
                  /\ ops[i].steps[j].tag \in 0..tags \cup {Unseen}
                  /\ ops[i].steps[j].bty \in {"R", "B", "T"}
  <2>1. ops[i] \in OpRecords
    BY <1>2
  <2>2. ops[i].isInit \in BOOLEAN /\ ops[i].isEnd \in BOOLEAN
    BY <2>1 DEF OpRecords
  <2>3. ASSUME NEW j \in 1..Len(ops[i].steps)
        PROVE  /\ ops[i].steps[j].opty \in {"N", "E", "D"} /\ ops[i].steps[j].line \in 1..Len(lines)
               /\ ops[i].steps[j].tag \in 0..tags \cup {Unseen}
               /\ ops[i].steps[j].bty \in {"R", "B", "T"}
    <3> DEFINE p == [op |-> i, step |-> j]
    <3>1. p \in Steps
      BY DEF Steps
    <3>2. StepAt(p) = ops[i].steps[j]
      BY DEF StepAt
    <3> HIDE DEF p
    <3>3. StepAt(p) \in StepRecords
      BY <1>2, <3>1, StepsTyped
    <3>4. StepAt(p).opty \in {"N", "E", "D"} /\ StepAt(p).bty \in {"R", "B", "T"}
      BY <3>3 DEF StepRecords
    <3>5. StepAt(p).line \in 1..Len(lines)
      BY <1>2, <3>1 DEF StepsFit, StepFits, LineOf
    <3>6. StepAt(p).tag \in 0..tags \cup {Unseen}
      BY <1>4, <3>1 DEF Tag
    <3> QED BY <3>2, <3>4, <3>5, <3>6
  <2> QED BY <2>2, <2>3
<1> QED BY <1>1, <1>2, <1>3, <1>5 DEF TypeOK, LabelType, LineRecords

(* For any recording: every step comes from a line and has a tag that was   *)
(* given out, and no more tags are given out than there are lines.          *)
THEOREM TypeCorrect == Spec => []TypeOK
<1>1. RecordingInv /\ LabelInv => TypeOK
  BY TypesHold
<1> QED BY <1>1, LabelInvariant, PTL

-----------------------------------------------------------------------------
(* Every puzzle can be played.                                              *)

LEMMA PlayableHolds ==
  ASSUME LabelInv
  PROVE  Playable
<1> SUFFICES ASSUME Finished, NEW p \in Steps
             PROVE  /\ \E q \in Steps : Tag(q) = Tag(p) /\ StepAt(q).opty = "N" /\ ~Before(p, q)
                    /\ StepAt(p).opty = "N" =>
                         \A q \in Steps : Tag(q) = Tag(p) /\ q # p => StepAt(q).opty # "N"
  BY DEF Playable
<1>1. LabelType /\ LinesRise
  BY DEF LabelInv, Parsed
<1>2. /\ \E q \in Steps : IsNew(q) /\ Tag(q) = Tag(p) /\ LineOf(q) <= LineOf(p)
      /\ \A q \in Steps : IsNew(p) /\ IsNew(q) /\ Tag(p) = Tag(q) => p = q
  BY DEF Finished, LabelInv, FinalTags
<1>3. PICK q \in Steps : IsNew(q) /\ Tag(q) = Tag(p) /\ LineOf(q) <= LineOf(p)
  BY <1>2
<1>4. ~Before(p, q)
  <2>1. LineOf(p) \in Nat /\ LineOf(q) \in Nat
    BY <1>1, StepsTyped
  <2>2. Before(p, q) => LineOf(p) < LineOf(q)
    BY <1>1 DEF LinesRise
  <2> QED BY <1>3, <2>1, <2>2
<1> QED BY <1>2, <1>3, <1>4 DEF IsNew

(* Whatever was recorded, every tag of the puzzle begins with the one step  *)
(* that makes it, in label()'s result, after the cleanup and in the export. *)
THEOREM AlwaysPlayable == Spec => []Playable
<1>1. LabelInv => Playable
  BY PlayableHolds
<1> QED BY <1>1, LabelInvariant, PTL

-----------------------------------------------------------------------------
(* The cleanup takes whole objects.                                         *)

LEMMA CleanupTakes ==
  ASSUME LabelInv, [Next]_vars, phase' = "cleaned", phase # "cleaned"
  PROVE  LET kept == {StepAt(p).line : p \in Steps}'
             gone == {p \in Steps : StepAt(p).line \notin kept}
         IN \A p \in gone, q \in Steps : Tag(p) = Tag(q) => q \in gone /\ ops[q.op].isInit
<1>1. Cleanup
  BY DEF Next, Target, Allocate, AllocateFails, AllocateUnseen, Free, Realloc, ReallocZero,
         ReallocFails, Exec, Annotate, Log, EndRecording, Refine, Parse, EndParse, Label, Track, Sweep,
         Cleanup, Export, vars
<1> DEFINE stays == {p \in Steps : Tag(p) \notin Stable}
           kept == {StepAt(p).line : p \in Steps}'
<1>2. Keeps(ops, ops', stays)
  BY <1>1, CleanupKeeps
<1>3. LabelType /\ LinesRise
  BY DEF LabelInv, Parsed
<1>4. Steps' = StepsOf(ops')
  BY DEF Steps, StepsOf
<1>5. ASSUME NEW p \in Steps
      PROVE  StepAt(p).line \in kept <=> p \in stays
  <2>1. ASSUME p \in stays PROVE StepAt(p).line \in kept
    <3>1. PICK q \in Steps' : StepAt(q)' = StepAt(p)
      BY <1>2, <1>4, <2>1 DEF Keeps, StepAt, At
    <3> QED BY <3>1
  <2>2. ASSUME StepAt(p).line \in kept PROVE p \in stays
    <3>1. PICK q \in Steps' : StepAt(p).line = StepAt(q)'.line
      BY <2>2
    <3>2. PICK s \in stays : StepAt(q)' = StepAt(s)
      BY <1>2, <1>4, <3>1 DEF Keeps, StepAt, At
    <3>3. LineOf(p) = LineOf(s) /\ s \in Steps
      BY <3>1, <3>2 DEF LineOf
    <3> QED BY <1>3, <3>2, <3>3, ByLine
  <2> QED BY <2>1, <2>2
<1>6. ASSUME NEW q \in Steps, Tag(q) \in Stable PROVE ops[q.op].isInit
  BY <1>6 DEF Stable
<1> HIDE DEF kept
<1>7. ASSUME NEW p \in Steps, NEW q \in Steps, StepAt(p).line \notin kept, Tag(p) = Tag(q)
      PROVE  StepAt(q).line \notin kept /\ ops[q.op].isInit
  BY <1>5, <1>6, <1>7
<1> QED BY <1>7 DEF kept

(* The cleanup takes an object out of the puzzle with all of its steps or   *)
(* not at all, and never one that an operation other than an init operation *)
(* uses.                                                                    *)
THEOREM CleanupIsWhole == Spec => CleanupSpares
<1>1. LabelInv /\ [Next]_vars =>
        [phase' = "cleaned" =>
           LET kept == {StepAt(p).line : p \in Steps}'
               gone == {p \in Steps : StepAt(p).line \notin kept}
           IN \A p \in gone, q \in Steps :
                Tag(p) = Tag(q) => q \in gone /\ ops[q.op].isInit]_vars
  <2> SUFFICES ASSUME LabelInv, [Next]_vars, vars' # vars, phase' = "cleaned"
               PROVE  LET kept == {StepAt(p).line : p \in Steps}'
                          gone == {p \in Steps : StepAt(p).line \notin kept}
                      IN \A p \in gone, q \in Steps :
                           Tag(p) = Tag(q) => q \in gone /\ ops[q.op].isInit
    OBVIOUS
  <2>1. phase # "cleaned"
    BY DEF Next, Target, Allocate, AllocateFails, AllocateUnseen, Free, Realloc, ReallocZero,
           ReallocFails, Exec, Annotate, Log, EndRecording, Refine, Parse, EndParse, Label, Track,
           Sweep, Cleanup, Export, vars
  <2> QED BY <2>1, CleanupTakes
<1> QED BY <1>1, LabelInvariant, PTL DEF Spec, CleanupSpares

-----------------------------------------------------------------------------
(* Tags are objects. Under way: a step of a known object has the tag of the *)
(* making step once that is settled, unless its object is the one being     *)
(* followed and the loop has not come to it; and the loop is at a step of   *)
(* that object, or has gone over, by an exec, to one that is not made yet,  *)
(* with no step of the object followed left ahead.                          *)

OwnTag ==
  Labelling /\ Traceable =>
    \A p, q \in Steps :
      /\ ~IsNew(p) /\ Object(p) \in Known /\ IsNew(q) /\ Object(q) = Object(p) /\ Settled(q)
      /\ ~(phase = "tracking" /\ q = cursor /\ Before(track, p))
      => Tag(p) = Tag(q)
KnownKept == Labelling /\ Traceable => \A p \in Steps : Object(p) \in Known => Tag(p) # Dangling
UnseenGone == Labelling /\ Traceable => \A p \in Steps : Object(p) = Unseen => Tag(p) \in {0, Dangling}

Ahead == \E p \in Steps : Object(p) = Object(cursor) /\ Before(track, p)
Elsewhere ==
  /\ Object(track) \in Known /\ ~Ahead
  /\ \A q \in Steps : IsNew(q) /\ Object(q) = Object(track) => ~Settled(q)
OnTrack == phase = "tracking" /\ Traceable => Object(track) = Object(cursor) \/ Elsewhere

FinalObjects ==
  phase \in {"done", "cleaned", "exported", "failed"} /\ Traceable =>
    \A p, q \in Steps : IsNew(q) /\ Tag(q) = Tag(p) => Object(q) = Object(p)

ObjectInv == OwnTag /\ KnownKept /\ UnseenGone /\ OnTrack /\ FinalObjects /\ NothingLost

LEMMA StepObjects ==
  ASSUME Parsed, RecordingInv
  PROVE  /\ \A p \in Steps : /\ LineOf(p) \in 1..Len(lines) /\ IsHeap(LineOf(p))
                             /\ IsNew(p) <=> Birth(LineOf(p))
                             /\ Object(p) = lines[LineOf(p)].obj
                             /\ IsNew(p) => Object(p) \in Known \cup {0}
                             /\ ~IsNew(p) => Object(p) \in Known \cup {Unseen}
                             /\ Object(p) = Unseen => "unseen" \in odd
         /\ \A p, q \in Steps : IsNew(p) /\ IsNew(q) /\ Object(p) = Object(q) /\ Object(p) # 0 => p = q
         /\ 0 \notin Known /\ Unseen \notin Known /\ Unseen # 0
<1>1. 0 \notin Known /\ Unseen \notin Known /\ Unseen # 0
  BY DEF Known, Unseen, RecordingInv, RecordingType
<1> HIDE DEF Known
<1>2. ASSUME NEW p \in Steps
      PROVE  /\ LineOf(p) \in 1..Len(lines) /\ IsHeap(LineOf(p))
             /\ IsNew(p) <=> Birth(LineOf(p))
             /\ Object(p) = lines[LineOf(p)].obj
             /\ LineFits(LineOf(p))
  <2>1. StepFits(p)
    BY DEF Parsed, StepsFit
  <2> QED BY <2>1 DEF StepFits, Object, LineOf, RecordingInv, LinesFit
<1>3. ASSUME NEW p \in Steps
      PROVE  /\ IsNew(p) => Object(p) \in Known \cup {0}
             /\ ~IsNew(p) => Object(p) \in Known \cup {Unseen}
             /\ Object(p) = Unseen => "unseen" \in odd
  BY <1>2 DEF LineFits
<1>4. ASSUME NEW p \in Steps, NEW q \in Steps, IsNew(p), IsNew(q), Object(p) = Object(q), Object(p) # 0
      PROVE  p = q
  <2>1. LineOf(p) = LineOf(q)
    BY <1>2, <1>4 DEF RecordingInv, BornOnce
  <2> QED BY <2>1, ByLine DEF Parsed
<1> QED BY <1>1, <1>2, <1>3, <1>4

(* While no step is gone, every line about the heap has one, and before any *)
(* other step of a known object comes the one that makes it.                *)
LEMMA StepsForAll ==
  ASSUME Parsed, RecordingInv, Labelling
  PROVE  /\ \A i \in 1..Len(lines) : IsHeap(i) => \E p \in Steps : LineOf(p) = i
         /\ \A p \in Steps : ~IsNew(p) /\ Object(p) \in Known =>
              \E q \in Steps : IsNew(q) /\ Object(q) = Object(p) /\ Before(q, p)
<1>1. ASSUME NEW i \in 1..Len(lines), IsHeap(i)
      PROVE  \E p \in Steps : LineOf(p) = i
  <2>1. next - 1 = Len(lines) /\ Covered
    <3>1. Len(lines) \in Nat
      BY DEF RecordingInv, RecordingType
    <3> QED BY <3>1 DEF Parsed, Stages, Labelling
  <2> QED BY <1>1, <2>1 DEF Covered
<1>2. ASSUME NEW p \in Steps, ~IsNew(p), Object(p) \in Known
      PROVE  \E q \in Steps : IsNew(q) /\ Object(q) = Object(p) /\ Before(q, p)
  <2>1. /\ LineOf(p) \in 1..Len(lines) /\ IsHeap(LineOf(p)) /\ ~Birth(LineOf(p))
        /\ Object(p) = lines[LineOf(p)].obj
    BY <1>2, StepObjects
  <2> HIDE DEF Known
  <2>2. PICK b \in 1..(LineOf(p) - 1) : Birth(b) /\ lines[b].obj = lines[LineOf(p)].obj
    BY <1>2, <2>1 DEF RecordingInv, BornFirst
  <2>3. b \in 1..Len(lines) /\ IsHeap(b) /\ b < LineOf(p)
    <3>1. Birth(b) => IsHeap(b)
      BY DEF Birth, IsHeap, HeapWords
    <3> QED BY <2>1, <2>2, <3>1
  <2>4. PICK q \in Steps : LineOf(q) = b
    BY <1>1, <2>3
  <2>5. IsNew(q) /\ Object(q) = Object(p)
    BY <2>1, <2>2, <2>4, StepObjects
  <2>6. Before(q, p)
    BY <2>3, <2>4, ByLine DEF Parsed
  <2> QED BY <2>5, <2>6
<1> QED BY <1>1, <1>2

(* The first use ahead is the first line that takes the pointer. *)
LEMMA FirstUse ==
  ASSUME Parsed, RecordingInv, Labelling, track \in Steps, NEW at \in NextUses,
         \A q \in NextUses : at = q \/ Before(at, q)
  PROVE  TakenFirst(LineOf(track), LineOf(at))
<1>1. /\ LineOf(track) \in 1..Len(lines) /\ at \in Steps /\ LineOf(at) \in 1..Len(lines)
      /\ LineOf(track) < LineOf(at) /\ TakesAt(LineOf(at), lines[LineOf(track)].ret)
  BY UsesAre, StepObjects, ByLine DEF Parsed
<1>2. ASSUME NEW k \in (LineOf(track) + 1)..(LineOf(at) - 1), TakesAt(k, lines[LineOf(track)].ret)
      PROVE  FALSE
  <2>1. k \in 1..Len(lines) /\ IsHeap(k)
    BY <1>1, <1>2 DEF TakesAt
  <2>2. PICK p \in Steps : LineOf(p) = k
    BY <2>1, StepsForAll
  <2>3. Before(track, p)
    BY <1>1, <2>2, ByLine DEF Parsed
  <2>4. p \in NextUses
    BY <1>2, <2>2, <2>3, UsesAre
  <2>5. LineOf(at) <= LineOf(p)
    <3>1. Before(at, p) => LineOf(at) < LineOf(p)
      BY <1>1, ByLine DEF Parsed
    <3> QED BY <1>1, <2>1, <2>2, <2>4, <3>1
  <2> QED BY <1>1, <2>2, <2>5
<1> QED BY <1>1, <1>2 DEF TakenFirst

(* If there is a step of the same known object ahead, the first use ahead   *)
(* is of that object, and there is one.                                     *)
LEMMA UseAhead ==
  ASSUME Parsed, RecordingInv, Labelling, Unbroken, track \in Steps, Object(track) \in Known,
         NEW p \in Steps, Before(track, p), Object(p) = Object(track)
  PROVE  \E u \in NextUses : /\ TakenFirst(LineOf(track), LineOf(u)) /\ Object(u) = Object(track)
                             /\ ~Before(p, u)
<1> DEFINE i == LineOf(track)
           T == {k \in 1..Len(lines) : i < k /\ About(k, lines[i].obj)}
<1>1. /\ i \in 1..Len(lines) /\ IsHeap(i) /\ Object(track) = lines[i].obj
      /\ LineOf(p) \in 1..Len(lines) /\ IsHeap(LineOf(p)) /\ Object(p) = lines[LineOf(p)].obj
  BY StepObjects
<1>2. i < LineOf(p)
  BY ByLine DEF Parsed
<1> HIDE DEF i
<1>3. LineOf(p) \in T /\ T \in SUBSET Nat
  BY <1>1, <1>2 DEF About
<1>4. PICK j \in T : \A k \in T : j <= k
  <2> HIDE DEF T
  <2> QED BY <1>3, Least
<1>5. j \in 1..Len(lines) /\ i < j /\ About(j, lines[i].obj) /\ j <= LineOf(p)
  BY <1>3, <1>4
<1>6. \A k \in (i + 1)..(j - 1) : ~About(k, lines[i].obj)
  <2> SUFFICES ASSUME NEW k \in (i + 1)..(j - 1), About(k, lines[i].obj) PROVE FALSE
    OBVIOUS
  <2>1. k \in T /\ ~(j <= k)
    BY <1>1, <1>5
  <2> QED BY <1>4, <2>1
<1>7. Followed(i, j)
  BY <1>5, <1>6 DEF Followed
<1> HIDE DEF Known
<1>8. TakenFirst(i, j)
  BY <1>1, <1>5, <1>7 DEF RecordingInv, Succession
<1>9. PICK u \in Steps : LineOf(u) = j
  BY <1>5, StepsForAll DEF About
<1>10. Before(track, u) /\ ~Before(p, u)
  <2>1. Before(track, u) <=> LineOf(track) < LineOf(u)
    BY ByLine DEF Parsed
  <2>2. Before(p, u) <=> LineOf(p) < LineOf(u)
    BY ByLine DEF Parsed
  <2> QED BY <1>1, <1>5, <1>9, <2>1, <2>2 DEF i
<1>11. u \in NextUses
  BY <1>8, <1>9, <1>10, UsesAre DEF TakenFirst, i
<1>12. Object(u) = Object(track)
  BY <1>1, <1>5, <1>9, StepObjects DEF About
<1> QED BY <1>8, <1>9, <1>10, <1>11, <1>12 DEF i

LEMMA OneFirst ==
  ASSUME Parsed, RecordingInv, track \in Steps, NEW at \in Steps, NEW u \in Steps,
         TakenFirst(LineOf(track), LineOf(at)), TakenFirst(LineOf(track), LineOf(u))
  PROVE  at = u
<1>1. /\ LineOf(track) \in Nat /\ LineOf(at) \in Nat /\ LineOf(u) \in Nat
      /\ LineOf(at) = LineOf(u) => at = u
  BY StepsTyped, ByLine DEF Parsed
<1>2. ~(LineOf(at) \in (LineOf(track) + 1)..(LineOf(u) - 1))
  BY DEF TakenFirst
<1>3. ~(LineOf(u) \in (LineOf(track) + 1)..(LineOf(at) - 1))
  BY DEF TakenFirst
<1>4. LineOf(track) < LineOf(at) /\ LineOf(track) < LineOf(u)
  BY DEF TakenFirst
<1> QED BY <1>1, <1>2, <1>3, <1>4

(* Where the first use is of another object there has been an exec, and the *)
(* other object is born after this step.                                    *)
LEMMA OtherObject ==
  ASSUME Parsed, RecordingInv, Labelling, Traceable, track \in Steps, NEW at \in Steps,
         TakenFirst(LineOf(track), LineOf(at)), Object(at) # Object(track)
  PROVE  /\ Object(at) \in Known
         /\ \A q \in Steps : IsNew(q) /\ Object(q) = Object(at) => Before(track, q)
<1>1. /\ LineOf(track) \in 1..Len(lines) /\ IsHeap(LineOf(track))
      /\ Object(track) = lines[LineOf(track)].obj
      /\ LineOf(at) \in 1..Len(lines) /\ IsHeap(LineOf(at)) /\ Object(at) = lines[LineOf(at)].obj
  BY StepObjects
<1>2. TakesAt(LineOf(at), lines[LineOf(track)].ret)
  BY DEF TakenFirst
<1>3. ~IsNew(at) /\ lines[LineOf(track)].ret \in Addrs
  <2>1. LineFits(LineOf(at))
    BY <1>1 DEF RecordingInv, LinesFit
  <2> QED BY <1>1, <1>2, <2>1, StepObjects DEF LineFits, TakesAt
<1> HIDE DEF Known
<1>4. "exec" \in odd /\ (lines[LineOf(at)].obj \in Known => BornAfter(lines[LineOf(at)].obj, LineOf(track)))
  BY <1>1, <1>3 DEF RecordingInv, FirstTaker
<1>5. Object(at) \in Known
  <2>1. "unseen" \notin odd
    BY <1>4 DEF Traceable
  <2> QED BY <1>3, <2>1, StepObjects
<1>6. ASSUME NEW q \in Steps, IsNew(q), Object(q) = Object(at)
      PROVE  Before(track, q)
  <2>1. PICK b \in 1..Len(lines) : LineOf(track) < b /\ Birth(b) /\ lines[b].obj = lines[LineOf(at)].obj
    BY <1>1, <1>4, <1>5 DEF BornAfter
  <2>2. Object(at) # 0 /\ Birth(LineOf(q)) /\ lines[LineOf(q)].obj = Object(at)
        /\ LineOf(q) \in 1..Len(lines)
    BY <1>5, <1>6, StepObjects
  <2>3. LineOf(q) = b
    BY <1>1, <2>1, <2>2 DEF RecordingInv, BornOnce
  <2> QED BY <2>1, <2>3, ByLine DEF Parsed
<1> QED BY <1>5, <1>6

LEMMA SameObjects ==
  ASSUME SameSteps, recording' = recording
  PROVE  /\ \A p \in Steps : Object(p)' = Object(p)
         /\ Known' = Known /\ (Traceable' <=> Traceable) /\ Steps' = Steps
         /\ Unseen' = Unseen /\ Dangling' = Dangling
         /\ \A p \in Steps : IsNew(p)' <=> IsNew(p)
<1>1. lines' = lines /\ objects' = objects /\ odd' = odd
  BY DEF recording
<1>2. \A p \in Steps : Object(p)' = Object(p)
  BY <1>1 DEF SameSteps, LineOf, Object
<1> QED BY <1>1, <1>2 DEF SameSteps, Known, Traceable, Unseen, Dangling

(* Where _track_ptr goes: to the next step of the object it follows, or of  *)
(* one that is not made yet, and then it has passed the last of the first.  *)
LEMMA OnTheWay ==
  ASSUME LabelInv, RecordingInv, ObjectInv, phase = "tracking", Traceable, NEW at \in NextUses,
         \A q \in NextUses : at = q \/ Before(at, q)
  PROVE  /\ Object(at) \in Known
         /\ \/ Object(at) = Object(cursor)
            \/ /\ \A q \in Steps : IsNew(q) /\ Object(q) = Object(at) => ~Settled(q)
               /\ \A p \in Steps : Object(p) = Object(cursor) => ~Before(at, p)
         /\ Object(cursor) \in Known =>
              \A p \in Steps : Object(p) = Object(cursor) /\ Before(track, p) => p = at \/ Before(at, p)
<1>1. Labelling /\ Unbroken /\ Parsed /\ LabelType
  BY DEF Labelling, Traceable, Unbroken, LabelInv, Parsed
<1>2. cursor \in Steps /\ IsNew(cursor) /\ track \in Steps /\ ~Before(track, cursor)
  BY <1>1 DEF LabelInv, PlaceFits
<1>3. at \in Steps /\ Before(track, at) /\ ~IsNew(at)
  BY <1>1, <1>2, UsesAre
<1>4. TakenFirst(LineOf(track), LineOf(at))
  BY <1>1, <1>2, FirstUse
<1>5. Object(track) = Object(cursor) \/ Elsewhere
  BY DEF ObjectInv, OnTrack
<1>6. /\ \A p, q \in Steps : /\ Before(p, q) \/ p = q \/ Before(q, p)
                             /\ Before(p, q) => p # q /\ ~Before(q, p)
      /\ \A p, q, r \in Steps : Before(p, q) /\ Before(q, r) => Before(p, r)
  BY <1>1, StepsTyped
<1>7. \A q \in Steps : Before(track, q) => ~Settled(q)
  BY <1>2, <1>6 DEF Settled
<1> HIDE DEF Known
<1>8. Object(track) \in Known
  <2>1. /\ LineOf(track) \in 1..Len(lines) /\ IsHeap(LineOf(track))
        /\ IsNew(track) <=> Birth(LineOf(track))
        /\ Object(track) = lines[LineOf(track)].obj /\ 0 \notin Known /\ Unseen # 0
        /\ ~IsNew(track) => Object(track) \in Known \cup {Unseen}
        /\ Object(cursor) \in Known \cup {0}
    BY <1>1, <1>2, StepObjects
  <2>2. LineOf(at) \in 1..Len(lines) /\ TakesAt(LineOf(at), lines[LineOf(track)].ret)
    BY <1>1, <1>3, <1>4, StepObjects DEF TakenFirst
  <2>3. lines[LineOf(track)].ret \in Addrs
    <3>1. LineFits(LineOf(at))
      BY <2>2 DEF RecordingInv, LinesFit
    <3> QED BY <2>2, <3>1 DEF LineFits, TakesAt
  <2>4. IsNew(track) => Object(track) \in Known
    <3>1. LineFits(LineOf(track))
      BY <2>1 DEF RecordingInv, LinesFit
    <3> QED BY <2>1, <2>3, <3>1, LabellerAssumption DEF LineFits
  <2>5. Object(track) \in Known \cup {0}
    BY <1>5, <2>1 DEF Elsewhere
  <2>6. Unseen \notin Known
    BY <1>1, StepObjects
  <2>7. Object(track) = Unseen => FALSE
    BY <2>1, <2>5, <2>6
  <2> QED BY <2>1, <2>4, <2>7
<1>9. ASSUME NEW p \in Steps, Object(p) = Object(track), Before(track, p)
      PROVE  Object(at) = Object(track) /\ (p = at \/ Before(at, p))
  <2>1. PICK u \in NextUses : /\ TakenFirst(LineOf(track), LineOf(u)) /\ Object(u) = Object(track)
                              /\ ~Before(p, u)
    BY <1>1, <1>2, <1>8, <1>9, UseAhead
  <2>2. u \in Steps
    BY <1>1, <1>2, <2>1, UsesAre
  <2>3. at = u
    BY <1>1, <1>2, <1>3, <1>4, <2>1, <2>2, OneFirst
  <2> QED BY <1>3, <1>6, <2>1, <2>3
<1>10. Object(at) # Object(track) =>
         /\ Object(at) \in Known
         /\ \A q \in Steps : IsNew(q) /\ Object(q) = Object(at) => ~Settled(q)
  BY <1>1, <1>2, <1>3, <1>4, <1>7, OtherObject
<1>11. Elsewhere => \A p \in Steps : Object(p) = Object(cursor) => ~Before(track, p)
  BY DEF Elsewhere, Ahead
<1>12. Object(at) \in Known
  BY <1>8, <1>10
<1>13. \/ Object(at) = Object(cursor)
       \/ /\ \A q \in Steps : IsNew(q) /\ Object(q) = Object(at) => ~Settled(q)
          /\ \A p \in Steps : Object(p) = Object(cursor) => ~Before(at, p)
  <2>1. CASE Object(track) = Object(cursor)
    <3>1. ASSUME Object(at) # Object(cursor), NEW p \in Steps, Object(p) = Object(cursor)
          PROVE  ~Before(at, p)
      BY <1>2, <1>3, <1>6, <1>9, <2>1, <3>1
    <3> QED BY <1>10, <2>1, <3>1
  <2>2. CASE Elsewhere
    <3>1. \A p \in Steps : Object(p) = Object(cursor) => ~Before(at, p)
      BY <1>2, <1>3, <1>6, <1>11, <2>2
    <3>2. \A q \in Steps : IsNew(q) /\ Object(q) = Object(at) => ~Settled(q)
      BY <1>10, <2>2 DEF Elsewhere
    <3> QED BY <3>1, <3>2
  <2> QED BY <1>5, <2>1, <2>2
<1>14. \A p \in Steps : Object(p) = Object(cursor) /\ Before(track, p) => p = at \/ Before(at, p)
  BY <1>5, <1>9, <1>11
<1> QED BY <1>12, <1>13, <1>14

LEMMA TrackObjects ==
  ASSUME LabelInv, RecordingInv, ObjectInv, Track
  PROVE  ObjectInv'
<1>1. phase = "tracking" /\ Labelling /\ Parsed /\ LabelType /\ tags \in Nat
  BY DEF Track, Labelling, LabelInv, Parsed, LabelType
<1>2. cursor \in Steps /\ IsNew(cursor) /\ Tag(cursor) = tags /\ track \in Steps /\ ~Before(track, cursor)
  BY <1>1 DEF LabelInv, PlaceFits
<1>3. /\ UNCHANGED <<recording, next, marks, tags>> /\ SameSteps
      /\ \/ /\ NextUses # {} /\ track' \in NextUses
            /\ \A q \in NextUses : track' = q \/ Before(track', q)
            /\ \A p \in Steps : Tag(p)' = IF p = track' THEN tags ELSE Tag(p)
            /\ phase' = "tracking" /\ cursor' = cursor
         \/ /\ NextUses = {} /\ phase' = "labelling" /\ cursor' = After(cursor)
            /\ track' = track /\ \A p \in Steps : Tag(p)' = Tag(p)
  BY <1>1, <1>2, TrackMoves
<1>4. /\ \A p \in Steps : Object(p)' = Object(p)
      /\ Known' = Known /\ (Traceable' <=> Traceable) /\ Steps' = Steps
      /\ Unseen' = Unseen /\ Dangling' = Dangling
      /\ \A p \in Steps : IsNew(p)' <=> IsNew(p)
  <2>1. recording' = recording
    BY <1>3
  <2> QED BY <1>3, <2>1, SameObjects
<1>5. phase' # "done" /\ phase' \notin {"done", "cleaned", "exported", "failed"}
  BY <1>3
<1>6. FinalObjects' /\ NothingLost'
  BY <1>5 DEF FinalObjects, NothingLost
<1>7. CASE ~Traceable
  BY <1>4, <1>6, <1>7 DEF ObjectInv, OwnTag, KnownKept, UnseenGone, OnTrack
<1>8. CASE Traceable
  <2>1. /\ \A p, q \in Steps :
             /\ ~IsNew(p) /\ Object(p) \in Known /\ IsNew(q) /\ Object(q) = Object(p) /\ Settled(q)
             /\ ~(q = cursor /\ Before(track, p))
             => Tag(p) = Tag(q)
        /\ \A p \in Steps : Object(p) \in Known => Tag(p) # Dangling
        /\ \A p \in Steps : Object(p) = Unseen => Tag(p) \in {0, Dangling}
    BY <1>1, <1>8 DEF ObjectInv, OwnTag, KnownKept, UnseenGone
  <2>2. /\ \A p \in Steps : IsNew(p) => Object(p) \in Known \cup {0}
        /\ \A p, q \in Steps : IsNew(p) /\ IsNew(q) /\ Object(p) = Object(q) /\ Object(p) # 0 => p = q
        /\ 0 \notin Known /\ Unseen \notin Known /\ Unseen # 0
    BY <1>1, StepObjects
  <2>3. /\ \A p, q \in Steps : /\ Before(p, q) \/ p = q \/ Before(q, p)
                               /\ Before(p, q) => p # q /\ ~Before(q, p)
        /\ \A p, q, r \in Steps : Before(p, q) /\ Before(q, r) => Before(p, r)
    BY <1>1, StepsTyped
  <2>4. tags # Dangling
    <3>1. tags <= Len(lines) /\ Len(lines) \in Nat /\ Len(lines) <= MaxLines
      BY DEF LabelInv, TagCount, RecordingInv, RecordingType
    <3> QED BY <1>1, <3>1 DEF Dangling, Unseen
  <2> HIDE DEF Known, Dangling, Unseen
  <2>5. CASE /\ track' \in NextUses /\ \A q \in NextUses : track' = q \/ Before(track', q)
             /\ \A p \in Steps : Tag(p)' = IF p = track' THEN tags ELSE Tag(p)
             /\ phase' = "tracking" /\ cursor' = cursor
    <3> DEFINE at == track'
    <3>1. at \in Steps /\ Before(track, at) /\ ~IsNew(at)
      BY <1>1, <1>2, <2>5, UsesAre
    <3>2. /\ Object(at) \in Known
          /\ \/ Object(at) = Object(cursor)
             \/ /\ \A q \in Steps : IsNew(q) /\ Object(q) = Object(at) => ~Settled(q)
                /\ \A p \in Steps : Object(p) = Object(cursor) => ~Before(at, p)
          /\ Object(cursor) \in Known =>
               \A p \in Steps : Object(p) = Object(cursor) /\ Before(track, p) => p = at \/ Before(at, p)
      <4>1. at \in NextUses /\ \A q \in NextUses : at = q \/ Before(at, q)
        BY <2>5
      <4> HIDE DEF at
      <4> QED BY <1>1, <1>8, <4>1, OnTheWay
    <3>3. track' = at /\ \A p \in Steps : Tag(p)' = IF p = at THEN tags ELSE Tag(p)
      BY <2>5
    <3> HIDE DEF at
    <3>4. \A p \in Steps : Settled(p)' <=> Settled(p)
      BY <1>1, <2>5 DEF Settled
    <3>5. OwnTag'
      <4> SUFFICES ASSUME NEW p \in Steps, NEW q \in Steps, ~IsNew(p), Object(p) \in Known, IsNew(q),
                          Object(q) = Object(p), Settled(q), ~(q = cursor /\ Before(at, p))
                   PROVE  Tag(p)' = Tag(q)'
        BY <1>4, <2>5, <3>3, <3>4 DEF OwnTag
      <4>1. Tag(q)' = Tag(q)
        BY <3>1, <3>3
      <4>2. CASE p = at
        <5>1. Object(at) = Object(cursor)
          BY <3>2, <4>2
        <5>2. q = cursor
          BY <1>2, <2>2, <3>2, <4>2, <5>1
        <5> QED BY <1>2, <3>3, <4>1, <4>2, <5>2
      <4>3. CASE p # at
        <5>1. ~(q = cursor /\ Before(track, p))
          BY <3>2, <4>3
        <5> QED BY <2>1, <3>3, <4>1, <4>3, <5>1
      <4> QED BY <4>2, <4>3
    <3>6. KnownKept'
      <4> SUFFICES ASSUME NEW p \in Steps, Object(p) \in Known PROVE Tag(p)' # Dangling
        BY <1>4 DEF KnownKept
      <4> QED BY <2>1, <2>4, <3>3
    <3>7. UnseenGone'
      <4> SUFFICES ASSUME NEW p \in Steps, Object(p) = Unseen PROVE Tag(p)' \in {0, Dangling}
        BY <1>4 DEF UnseenGone
      <4>1. p # at
        BY <2>2, <3>2
      <4> QED BY <2>1, <3>3, <4>1
    <3>8. OnTrack'
      <4>1. (Object(track))' = Object(at) /\ (Object(cursor))' = Object(cursor)
        BY <1>2, <1>4, <2>5, <3>1, <3>3
      <4>2. CASE Object(at) = Object(cursor)
        BY <4>1, <4>2 DEF OnTrack
      <4>3. CASE /\ \A q \in Steps : IsNew(q) /\ Object(q) = Object(at) => ~Settled(q)
                 /\ \A p \in Steps : Object(p) = Object(cursor) => ~Before(at, p)
        <5>1. Elsewhere'
          BY <1>4, <3>2, <3>3, <3>4, <4>1, <4>3 DEF Elsewhere, Ahead
        <5> QED BY <5>1 DEF OnTrack
      <4> QED BY <3>2, <4>2, <4>3
    <3> QED BY <1>6, <3>5, <3>6, <3>7, <3>8 DEF ObjectInv
  <2>6. CASE /\ NextUses = {} /\ phase' = "labelling" /\ cursor' = After(cursor)
             /\ \A p \in Steps : Tag(p)' = Tag(p)
    <3>1. \A p \in Steps : Before(p, After(cursor)) <=> Before(p, cursor) \/ p = cursor
      <4>1. \A i \in 1..Len(ops) : ops[i].steps # <<>>
        BY <1>1 DEF LabelInv, PlaceFits
      <4> QED BY <1>1, <1>2, <4>1, AfterIs
    <3>2. \A p \in Steps : Settled(p)' <=> Settled(p)
      BY <1>1, <2>6, <3>1 DEF Settled
    <3>3. OwnTag'
      <4> SUFFICES ASSUME NEW p \in Steps, NEW q \in Steps, ~IsNew(p), Object(p) \in Known, IsNew(q),
                          Object(q) = Object(p), Settled(q)
                   PROVE  Tag(p) = Tag(q)
        BY <1>4, <2>6, <3>2 DEF OwnTag
      <4>1. ASSUME q = cursor, Before(track, p) PROVE FALSE
        <5>1. Object(p) = Object(cursor) /\ Unbroken
          BY <1>8, <4>1 DEF Traceable, Unbroken
        <5>2. Object(track) = Object(cursor)
          BY <1>1, <1>8, <4>1, <5>1 DEF ObjectInv, OnTrack, Elsewhere, Ahead
        <5>3. Object(track) \in Known /\ Object(p) = Object(track)
          BY <5>1, <5>2
        <5>4. \E u \in NextUses : TRUE
          BY <1>1, <1>2, <4>1, <5>1, <5>3, UseAhead
        <5> QED BY <2>6, <5>4
      <4> QED BY <2>1, <4>1
    <3>4. KnownKept' /\ UnseenGone'
      BY <1>4, <2>1, <2>6 DEF KnownKept, UnseenGone
    <3>5. OnTrack'
      BY <2>6 DEF OnTrack
    <3> QED BY <1>6, <3>3, <3>4, <3>5 DEF ObjectInv
  <2> QED BY <1>3, <2>5, <2>6
<1> QED BY <1>7, <1>8

LEMMA LabelObjects ==
  ASSUME LabelInv, RecordingInv, ObjectInv, Label
  PROVE  ObjectInv'
<1>1. /\ phase = "labelling" /\ cursor \in Steps /\ recording' = recording
      /\ Labelling /\ Parsed /\ LabelType
  BY DEF Label, Labelling, LabelInv, Parsed
<1>2. \A p \in Steps : IsNew(p) => IF Before(p, cursor) THEN Tag(p) \in 1..tags ELSE Tag(p) = 0
  BY <1>1 DEF LabelInv, NewTags, Settled
<1>3. \A p \in Steps : Before(p, After(cursor)) <=> Before(p, cursor) \/ p = cursor
  <2>1. \A i \in 1..Len(ops) : ops[i].steps # <<>>
    BY <1>1 DEF LabelInv, PlaceFits
  <2> QED BY <1>1, <2>1, AfterIs
<1>4. \A p, q \in Steps : /\ Before(p, q) \/ p = q \/ Before(q, p)
                          /\ Before(p, q) => p # q /\ ~Before(q, p)
  BY <1>1, StepsTyped
<1>5. /\ \A p \in Steps : IsNew(p) => Object(p) \in Known \cup {0}
      /\ \A p \in Steps : ~IsNew(p) => Object(p) \in Known \cup {Unseen}
      /\ \A p, q \in Steps : IsNew(p) /\ IsNew(q) /\ Object(p) = Object(q) /\ Object(p) # 0 => p = q
      /\ 0 \notin Known /\ Unseen \notin Known /\ Unseen # 0
  BY <1>1, StepObjects
<1>6. \A p \in Steps : ~IsNew(p) /\ Object(p) \in Known =>
        \E q \in Steps : IsNew(q) /\ Object(q) = Object(p) /\ Before(q, p)
  BY <1>1, StepsForAll
<1>7. phase' \in {"labelling", "tracking"}
  BY <1>1 DEF Label
<1>8. FinalObjects' /\ NothingLost'
  BY <1>7 DEF FinalObjects, NothingLost
<1>9. Dangling \in Nat /\ tags + 1 # Dangling /\ tags + 1 \in Nat /\ Dangling # 0
  <2>1. tags < LineOf(cursor) /\ tags \in Nat
    BY <1>1 DEF LabelInv, TagCount, LabelType
  <2>2. LineOf(cursor) \in 1..Len(lines) /\ Len(lines) \in Nat /\ Len(lines) <= MaxLines
    BY <1>1, StepObjects DEF RecordingInv, RecordingType
  <2> QED BY <2>1, <2>2 DEF Dangling, Unseen
<1> HIDE DEF Known, Dangling, Unseen
<1>10. ASSUME SameSteps
       PROVE  /\ \A p \in Steps : Object(p)' = Object(p)
              /\ Known' = Known /\ (Traceable' <=> Traceable) /\ Steps' = Steps
              /\ Unseen' = Unseen /\ Dangling' = Dangling
              /\ \A p \in Steps : IsNew(p)' <=> IsNew(p)
  BY <1>1, <1>10, SameObjects
<1>11. Traceable =>
         /\ \A p, q \in Steps :
              ~IsNew(p) /\ Object(p) \in Known /\ IsNew(q) /\ Object(q) = Object(p) /\ Before(q, cursor)
                => Tag(p) = Tag(q)
         /\ \A p \in Steps : Object(p) \in Known => Tag(p) # Dangling
         /\ \A p \in Steps : Object(p) = Unseen => Tag(p) \in {0, Dangling}
  BY <1>1 DEF ObjectInv, OwnTag, KnownKept, UnseenGone, Settled
<1>12. CASE StepAt(cursor).tag # 0 /\ cursor' = After(cursor) /\ UNCHANGED <<phase, ops, tags, track>>
  <2>1. SameSteps /\ \A p \in Steps : Tag(p)' = Tag(p)
    BY <1>1, <1>12, Untouched
  <2>2. ~IsNew(cursor) /\ phase' = "labelling"
    BY <1>1, <1>2, <1>4, <1>12 DEF Tag
  <2>3. \A q \in Steps : IsNew(q) => (Settled(q)' <=> Before(q, cursor))
    BY <1>3, <1>12, <2>2 DEF Settled
  <2>4. OwnTag'
    BY <1>10, <1>11, <2>1, <2>3 DEF OwnTag
  <2>5. KnownKept' /\ UnseenGone' /\ OnTrack'
    BY <1>10, <1>11, <2>1, <2>2 DEF KnownKept, UnseenGone, OnTrack
  <2> QED BY <1>8, <2>4, <2>5 DEF ObjectInv
<1>13. CASE /\ StepAt(cursor).tag = 0 /\ StepAt(cursor).opty # "N"
            /\ ops' = Tagged(cursor, Dangling) /\ cursor' = After(cursor)
            /\ UNCHANGED <<phase, tags, track>>
  <2>1. SameSteps /\ \A p \in Steps : Tag(p)' = IF p = cursor THEN Dangling ELSE Tag(p)
    BY <1>1, <1>9, <1>13, Retagged
  <2>2. ~IsNew(cursor) /\ phase' = "labelling" /\ Tag(cursor) = 0
    BY <1>1, <1>13 DEF IsNew, Tag
  <2>3. \A q \in Steps : IsNew(q) => (Settled(q)' <=> Before(q, cursor))
    BY <1>3, <1>13, <2>2 DEF Settled
  <2>4. Traceable => Object(cursor) \notin Known
    <3> SUFFICES ASSUME Traceable, Object(cursor) \in Known PROVE FALSE
      OBVIOUS
    <3>1. PICK q \in Steps : IsNew(q) /\ Object(q) = Object(cursor) /\ Before(q, cursor)
      BY <1>1, <1>6, <2>2
    <3>2. Tag(q) \in 1..tags /\ Tag(cursor) = Tag(q)
      BY <1>1, <1>2, <1>11, <2>2, <3>1
    <3> QED BY <2>2, <3>2
  <2>5. OwnTag'
    <3> SUFFICES ASSUME Traceable, NEW p \in Steps, NEW q \in Steps, ~IsNew(p), Object(p) \in Known,
                        IsNew(q), Object(q) = Object(p), Before(q, cursor)
                 PROVE  Tag(p)' = Tag(q)'
      BY <1>10, <2>1, <2>2, <2>3 DEF OwnTag
    <3> QED BY <1>11, <2>1, <2>2, <2>4
  <2>6. KnownKept'
    BY <1>10, <1>11, <2>1, <2>4 DEF KnownKept
  <2>7. UnseenGone'
    BY <1>10, <1>11, <2>1 DEF UnseenGone
  <2>8. OnTrack'
    BY <2>2 DEF OnTrack
  <2> QED BY <1>8, <2>5, <2>6, <2>7, <2>8 DEF ObjectInv
<1>14. CASE /\ StepAt(cursor).tag = 0 /\ StepAt(cursor).opty = "N"
            /\ tags' = tags + 1 /\ ops' = Tagged(cursor, tags')
            /\ track' = cursor /\ phase' = "tracking" /\ UNCHANGED cursor
  <2>1. SameSteps /\ \A p \in Steps : Tag(p)' = IF p = cursor THEN tags + 1 ELSE Tag(p)
    BY <1>1, <1>9, <1>14, Retagged
  <2>2. IsNew(cursor)
    BY <1>14 DEF IsNew
  <2>3. \A q \in Steps : Settled(q)' <=> Before(q, cursor) \/ q = cursor
    BY <1>14 DEF Settled
  <2>4. OwnTag'
    <3> SUFFICES ASSUME Traceable, NEW p \in Steps, NEW q \in Steps, ~IsNew(p), Object(p) \in Known,
                        IsNew(q), Object(q) = Object(p), Before(q, cursor) \/ q = cursor,
                        ~(q = cursor /\ Before(cursor, p))
                 PROVE  Tag(p)' = Tag(q)'
      BY <1>10, <1>14, <2>1, <2>3 DEF OwnTag
    <3>1. q # cursor
      <4>1. PICK r \in Steps : IsNew(r) /\ Object(r) = Object(p) /\ Before(r, p)
        BY <1>6
      <4>2. r = q
        BY <1>5, <4>1
      <4> QED BY <4>1, <4>2
    <3>2. p # cursor
      BY <2>2
    <3> QED BY <1>11, <2>1, <3>1, <3>2
  <2>5. KnownKept'
    BY <1>9, <1>10, <1>11, <2>1 DEF KnownKept
  <2>6. UnseenGone'
    <3> SUFFICES ASSUME Traceable, NEW p \in Steps, Object(p) = Unseen PROVE Tag(p)' \in {0, Dangling}
      BY <1>10, <2>1 DEF UnseenGone
    <3>1. p # cursor
      BY <1>5, <2>2
    <3> QED BY <1>11, <2>1, <3>1
  <2>7. OnTrack'
    BY <1>14 DEF OnTrack, Object, StepAt
  <2> QED BY <1>8, <2>4, <2>5, <2>6, <2>7 DEF ObjectInv
<1> QED BY <1>12, <1>13, <1>14 DEF Label

(* Where steps are taken out nothing else is changed. *)
LEMMA ThinObjects ==
  ASSUME NEW kept \in SUBSET Steps, Keeps(ops, ops', kept), UNCHANGED <<recording, next, marks>>
  PROVE  /\ \A p \in Steps' : \E q \in kept : /\ Tag(p)' = Tag(q) /\ Object(p)' = Object(q)
                                              /\ IsNew(p)' <=> IsNew(q)
         /\ \A q \in kept : \E p \in Steps' : LineOf(p)' = LineOf(q)
         /\ Known' = Known /\ (Traceable' <=> Traceable)
<1>1. lines' = lines /\ objects' = objects /\ odd' = odd
  BY DEF recording
<1>2. Steps' = StepsOf(ops') /\ Steps = StepsOf(ops)
  BY DEF Steps, StepsOf
<1>3. ASSUME NEW p \in Steps'
      PROVE  \E q \in kept : /\ Tag(p)' = Tag(q) /\ Object(p)' = Object(q) /\ (IsNew(p)' <=> IsNew(q))
  <2>1. PICK q \in kept : StepAt(p)' = StepAt(q)
    BY <1>2 DEF Keeps, StepAt, At
  <2> QED BY <1>1, <2>1 DEF Tag, Object, IsNew
<1>4. ASSUME NEW q \in kept
      PROVE  \E p \in Steps' : LineOf(p)' = LineOf(q)
  <2>1. PICK p \in Steps' : StepAt(p)' = StepAt(q)
    BY <1>2 DEF Keeps, StepAt, At
  <2> QED BY <2>1 DEF LineOf
<1> QED BY <1>1, <1>3, <1>4 DEF Known, Traceable

LEMMA SweepObjects ==
  ASSUME LabelInv, RecordingInv, ObjectInv, Sweep
  PROVE  ObjectInv'
<1> DEFINE kept == {p \in Steps : Kept(StepAt(p))}
<1>1. /\ phase = "labelling" /\ cursor \notin Steps /\ phase' = "done" /\ ops' = Thinned(kept)
      /\ UNCHANGED <<recording, next, marks>> /\ lines' = lines
      /\ Labelling /\ Parsed /\ LabelType /\ ops \in Seq(OpRecords)
  BY DEF Sweep, Labelling, LabelInv, Parsed, LabelType, recording
<1>2. Keeps(ops, ops', kept)
  BY <1>1, ThinnedKeeps
<1>3. \A p \in Steps : p \in kept <=> Tag(p) # Dangling
  BY DEF Kept, Tag
<1>4. kept \in SUBSET Steps
  OBVIOUS
<1> HIDE DEF kept
<1>5. /\ \A p \in Steps' : \E q \in kept : /\ Tag(p)' = Tag(q) /\ Object(p)' = Object(q)
                                           /\ IsNew(p)' <=> IsNew(q)
      /\ \A q \in kept : \E p \in Steps' : LineOf(p)' = LineOf(q)
      /\ Known' = Known /\ (Traceable' <=> Traceable)
  BY <1>1, <1>2, <1>4, ThinObjects
<1>6. /\ \A p \in Steps : Settled(p) /\ Tag(p) \in 1..tags \cup {Dangling}
      /\ \A p \in Steps : IsNew(p) => Tag(p) \in 1..tags
  BY <1>1, AllVisited
<1>7. OwnTag' /\ KnownKept' /\ UnseenGone' /\ OnTrack'
  BY <1>1 DEF OwnTag, KnownKept, UnseenGone, OnTrack, Labelling
<1>8. /\ \A p \in Steps : IsNew(p) => Object(p) \in Known \cup {0}
      /\ \A p \in Steps : ~IsNew(p) => Object(p) \in Known \cup {Unseen}
      /\ 0 \notin Known /\ Unseen \notin Known /\ Unseen # 0
      /\ \A p \in Steps : Object(p) = lines[LineOf(p)].obj
  BY <1>1, StepObjects
<1>9. Traceable =>
        /\ \A p, q \in Steps :
             ~IsNew(p) /\ Object(p) \in Known /\ IsNew(q) /\ Object(q) = Object(p) => Tag(p) = Tag(q)
        /\ \A p \in Steps : Object(p) \in Known => Tag(p) # Dangling
        /\ \A p \in Steps : Object(p) = Unseen => Tag(p) \in {0, Dangling}
  BY <1>1, <1>6 DEF ObjectInv, OwnTag, KnownKept, UnseenGone
<1>10. /\ \A p \in Steps : ~IsNew(p) /\ Object(p) \in Known =>
            \E q \in Steps : IsNew(q) /\ Object(q) = Object(p) /\ Before(q, p)
       /\ \A i \in 1..Len(lines) : IsHeap(i) => \E p \in Steps : LineOf(p) = i
  BY <1>1, StepsForAll
<1>11. 0 \notin 1..tags
  OBVIOUS
<1> HIDE DEF Known, Unseen, Dangling
<1>12. ASSUME Traceable, NEW p \in kept, NEW q \in kept, IsNew(q), Tag(q) = Tag(p)
       PROVE  Object(q) = Object(p)
  <2>1. p \in Steps /\ q \in Steps /\ Tag(p) # Dangling /\ Tag(p) \in 1..tags
    BY <1>3, <1>4, <1>6
  <2>2. CASE IsNew(p)
    BY <1>1, <1>6, <1>12, <2>1, <2>2 DEF LabelInv, OneEach
  <2>3. CASE ~IsNew(p)
    <3>1. Object(p) \in Known
      BY <1>8, <1>9, <1>11, <1>12, <2>1, <2>3
    <3>2. PICK r \in Steps : IsNew(r) /\ Object(r) = Object(p)
      BY <1>10, <2>1, <2>3, <3>1
    <3>3. Tag(r) = Tag(q)
      BY <1>9, <1>12, <2>1, <2>3, <3>1, <3>2
    <3>4. r = q
      BY <1>1, <1>6, <1>12, <2>1, <3>2, <3>3 DEF LabelInv, OneEach
    <3> QED BY <3>2, <3>4
  <2> QED BY <2>2, <2>3
<1>13. FinalObjects'
  <2> SUFFICES ASSUME Traceable, NEW p \in Steps', NEW q \in Steps', IsNew(q)', Tag(q)' = Tag(p)'
               PROVE  Object(q)' = Object(p)'
    BY <1>5 DEF FinalObjects
  <2>1. PICK r \in kept : Tag(p)' = Tag(r) /\ Object(p)' = Object(r)
    BY <1>5
  <2>2. PICK s \in kept : Tag(q)' = Tag(s) /\ Object(q)' = Object(s) /\ (IsNew(q)' <=> IsNew(s))
    BY <1>5
  <2> QED BY <1>12, <2>1, <2>2
<1>14. NothingLost'
  <2> SUFFICES ASSUME Traceable, NEW i \in 1..Len(lines), IsHeap(i), lines[i].obj \in Known
               PROVE  \E p \in Steps' : LineOf(p)' = i
    BY <1>1, <1>5 DEF NothingLost, IsHeap, LineOf
  <2>1. PICK q \in Steps : LineOf(q) = i
    BY <1>10
  <2>2. q \in kept
    BY <1>3, <1>8, <1>9, <2>1
  <2> QED BY <1>5, <2>1, <2>2
<1> QED BY <1>7, <1>13, <1>14 DEF ObjectInv

(* After that the tags stay with their objects. *)
LEMMA LaterObjects ==
  ASSUME ObjectInv, NEW kept \in SUBSET Steps, Keeps(ops, ops', kept),
         UNCHANGED <<recording, next, marks>>, phase \in {"done", "cleaned"},
         phase' \in {"cleaned", "exported", "failed"}
  PROVE  ObjectInv'
<1>1. /\ \A p \in Steps' : \E q \in kept : /\ Tag(p)' = Tag(q) /\ Object(p)' = Object(q)
                                           /\ IsNew(p)' <=> IsNew(q)
      /\ Traceable' <=> Traceable
  BY ThinObjects
<1>2. FinalObjects'
  <2> SUFFICES ASSUME Traceable, NEW p \in Steps', NEW q \in Steps', IsNew(q)', Tag(q)' = Tag(p)'
               PROVE  Object(q)' = Object(p)'
    BY <1>1 DEF FinalObjects
  <2>1. PICK r \in kept : Tag(p)' = Tag(r) /\ Object(p)' = Object(r)
    BY <1>1
  <2>2. PICK s \in kept : Tag(q)' = Tag(s) /\ Object(q)' = Object(s) /\ (IsNew(q)' <=> IsNew(s))
    BY <1>1
  <2> QED BY <2>1, <2>2 DEF ObjectInv, FinalObjects
<1> QED BY <1>2 DEF ObjectInv, OwnTag, KnownKept, UnseenGone, OnTrack, NothingLost, Labelling

LEMMA CleanupObjects ==
  ASSUME LabelInv, ObjectInv, Cleanup
  PROVE  ObjectInv'
<1>1. phase = "done" /\ UNCHANGED <<recording, next, marks>>
  BY DEF Cleanup
<1>2. ops \in Seq(OpRecords) /\ Steps = StepsOf(ops)
  BY DEF LabelInv, Parsed, LabelType, Steps, StepsOf
<1>3. CASE phase' = "failed" /\ ops' = ops
  <2>1. Keeps(ops, ops', Steps)
    BY <1>2, <1>3, KeepsSame
  <2> QED BY <1>1, <1>3, <2>1, LaterObjects
<1>4. CASE phase' = "cleaned"
  <2> DEFINE kept == {p \in Steps : Tag(p) \notin Stable}
  <2>1. Keeps(ops, ops', kept) /\ kept \in SUBSET Steps
    BY <1>4, CleanupKeeps
  <2> HIDE DEF kept
  <2> QED BY <1>1, <1>4, <2>1, LaterObjects
<1> QED BY <1>3, <1>4 DEF Cleanup

LEMMA ExportObjects ==
  ASSUME LabelInv, ObjectInv, Export
  PROVE  ObjectInv'
<1> DEFINE full == Clean(ops)
<1>1. phase \in {"done", "cleaned"} /\ UNCHANGED <<recording, next, marks>>
  BY DEF Export
<1>2. ops \in Seq(OpRecords) /\ Steps = StepsOf(ops)
  BY DEF LabelInv, Parsed, LabelType, Steps, StepsOf
<1>3. Keeps(ops, full, Steps)
  BY <1>2, CleanKeeps
<1>4. \/ phase' = "failed" /\ ops' = ops
      \/ phase' = "exported" /\ ops' = full
      \/ phase' = "exported" /\ ops' = Front(full) /\ full # <<>>
  BY DEF Export
<1> HIDE DEF full
<1>5. CASE phase' = "failed" /\ ops' = ops
  <2>1. Keeps(ops, ops', Steps)
    BY <1>2, <1>5, KeepsSame
  <2> QED BY <1>1, <1>5, <2>1, LaterObjects
<1>6. CASE phase' = "exported" /\ ops' = full
  BY <1>1, <1>3, <1>6, LaterObjects
<1>7. CASE phase' = "exported" /\ ops' = Front(full) /\ full # <<>>
  <2> DEFINE some == {p \in StepsOf(full) : p.op < Len(full)}
             kept == {q \in Steps : \E p \in some : At(full, p) = At(ops, q)}
  <2>1. full \in Seq(OpRecords)
    BY <1>3 DEF Keeps
  <2>2. Keeps(full, ops', some) /\ some \in SUBSET StepsOf(full)
    BY <1>7, <2>1, FrontKeeps
  <2> HIDE DEF some
  <2>3. Keeps(ops, ops', kept)
    BY <1>3, <2>2, KeepsSome
  <2>4. kept \in SUBSET Steps
    OBVIOUS
  <2> HIDE DEF kept
  <2> QED BY <1>1, <1>7, <2>3, <2>4, LaterObjects
<1> QED BY <1>4, <1>5, <1>6, <1>7

(* The labeller starts with nothing settled. *)
LEMMA EndParseObjects ==
  ASSUME LabelInv, RecordingInv, EndParse
  PROVE  ObjectInv'
<1>1. /\ phase = "parsing" /\ phase' = "labelling" /\ ops' = Clean(ops) /\ cursor' = cursor
      /\ UNCHANGED <<recording, next, marks>>
  BY DEF EndParse
<1>2. /\ ops \in Seq(OpRecords) /\ Steps = StepsOf(ops) /\ Steps' = StepsOf(ops')
      /\ cursor = [op |-> 1, step |-> 1] /\ \A p \in Steps : Tag(p) = 0
  BY <1>1 DEF LabelInv, Parsed, LabelType, Stages, Steps, StepsOf
<1>3. Keeps(ops, ops', Steps)
  BY <1>1, <1>2, CleanKeeps
<1>4. \A p \in Steps' : Tag(p)' = 0
  <2>1. \A p \in Steps' : \E q \in Steps : Tag(p)' = Tag(q)
    BY <1>1, <1>3, ThinObjects
  <2> QED BY <1>2, <2>1
<1>5. \A p \in Steps' : ~Settled(p)'
  <2>1. ops' \in Seq(OpRecords)
    BY <1>3 DEF Keeps
  <2>2. \A p \in Steps' : p.op \in 1..Len(ops') /\ p.step \in 1..Len(ops'[p.op].steps)
    BY <1>2, <2>1, Places
  <2> QED BY <1>1, <1>2, <2>2 DEF Settled, Before
<1>6. Dangling' # 0
  <2>1. MaxLines + 1 # 0
    BY LabellerAssumption
  <2> QED BY <2>1 DEF Dangling, Unseen
<1>7. KnownKept' /\ UnseenGone'
  BY <1>4, <1>6 DEF KnownKept, UnseenGone
<1> QED BY <1>1, <1>5, <1>7 DEF ObjectInv, OwnTag, OnTrack, FinalObjects, NothingLost

(* Before there are tags there is nothing to say. *)
LEMMA EarlyObjects ==
  ASSUME phase' \in {"recording", "parsing"}
  PROVE  ObjectInv'
BY DEF ObjectInv, OwnTag, KnownKept, UnseenGone, OnTrack, FinalObjects, NothingLost, Labelling

LEMMA ObjectsUnmoved ==
  ASSUME ObjectInv, UNCHANGED vars
  PROVE  ObjectInv'
<1>1. /\ lines' = lines /\ objects' = objects /\ odd' = odd /\ phase' = phase /\ ops' = ops
      /\ cursor' = cursor /\ track' = track /\ tags' = tags
  BY DEF vars, recording
<1>2. Steps' = Steps /\ \A p : StepAt(p)' = StepAt(p)
  BY <1>1 DEF Steps, StepAt
<1>3. \A p : /\ LineOf(p)' = LineOf(p) /\ (IsNew(p)' <=> IsNew(p)) /\ Tag(p)' = Tag(p)
             /\ Object(p)' = Object(p)
  BY <1>1, <1>2 DEF LineOf, IsNew, Tag, Object
<1>4. /\ \A p : Settled(p)' <=> Settled(p)
      /\ Known' = Known /\ (Traceable' <=> Traceable) /\ (Labelling' <=> Labelling)
      /\ Dangling' = Dangling /\ Unseen' = Unseen
  BY <1>1 DEF Settled, Known, Traceable, Labelling, Dangling, Unseen
<1>5. OwnTag' /\ KnownKept' /\ UnseenGone'
  BY <1>1, <1>2, <1>3, <1>4 DEF ObjectInv, OwnTag, KnownKept, UnseenGone
<1>6. (Object(track))' = Object(track) /\ (Object(cursor))' = Object(cursor)
  BY <1>1, <1>2 DEF Object
<1>7. OnTrack'
  BY <1>1, <1>2, <1>3, <1>4, <1>6 DEF ObjectInv, OnTrack, Elsewhere, Ahead
<1>8. FinalObjects'
  BY <1>1, <1>2, <1>3, <1>4 DEF ObjectInv, FinalObjects
<1>9. NothingLost'
  BY <1>1, <1>2, <1>4 DEF ObjectInv, NothingLost
<1> QED BY <1>5, <1>7, <1>8, <1>9 DEF ObjectInv

LEMMA ObjectInvStep ==
  ASSUME LabelInv, RecordingInv, ObjectInv, [Next]_vars
  PROVE  ObjectInv'
<1>1. Target \/ EndRecording \/ Parse => phase' \in {"recording", "parsing"}
  BY DEF Target, Allocate, AllocateFails, AllocateUnseen, Free, Realloc, ReallocZero, ReallocFails,
         Exec, Annotate, Log, EndRecording, Parse
<1>2. Target \/ EndRecording \/ Parse => ObjectInv'
  BY <1>1, EarlyObjects
<1>3. EndParse => ObjectInv'
  BY EndParseObjects
<1>4. Label => ObjectInv'
  BY LabelObjects
<1>5. Track => ObjectInv'
  BY TrackObjects
<1>6. Sweep => ObjectInv'
  BY SweepObjects
<1>7. Cleanup => ObjectInv'
  BY CleanupObjects
<1>8. Export => ObjectInv'
  BY ExportObjects
<1>9. UNCHANGED vars => ObjectInv'
  BY ObjectsUnmoved
<1> QED BY <1>2, <1>3, <1>4, <1>5, <1>6, <1>7, <1>8, <1>9 DEF Next, Refine

(* The tags follow the objects at every step of label(), however often an   *)
(* address is used again, moves, is freed by a realloc or starts anew in    *)
(* another image.                                                           *)
LEMMA ObjectInvariant == Spec => []ObjectInv
<1>1. Init => ObjectInv
  BY DEF Init, ObjectInv, OwnTag, KnownKept, UnseenGone, OnTrack, FinalObjects, NothingLost, Labelling
<1>2. RecordingInv /\ LabelInv /\ ObjectInv /\ [Next]_vars => ObjectInv'
  BY ObjectInvStep
<1> QED BY <1>1, <1>2, LabelInvariant, PTL DEF Spec

LEMMA SameObjectHolds ==
  ASSUME LabelInv, RecordingInv, ObjectInv
  PROVE  SameObject
<1> SUFFICES ASSUME Finished, Traceable, NEW p \in Steps, NEW q \in Steps
             PROVE  /\ Tag(p) = Tag(q) => Object(p) = Object(q)
                    /\ Object(p) = Object(q) /\ Object(p) \in Known => Tag(p) = Tag(q)
  BY DEF SameObject
<1>1. phase \in {"done", "cleaned", "exported", "failed"} /\ Parsed
  BY DEF Finished, LabelInv
<1>2. /\ \A s \in Steps : \E r \in Steps : IsNew(r) /\ Tag(r) = Tag(s)
      /\ \A r, s \in Steps : IsNew(r) /\ IsNew(s) /\ Tag(r) = Tag(s) => r = s
  BY <1>1 DEF LabelInv, FinalTags
<1>3. \A r, s \in Steps : IsNew(r) /\ Tag(r) = Tag(s) => Object(r) = Object(s)
  BY <1>1 DEF ObjectInv, FinalObjects
<1>4. PICK r \in Steps : IsNew(r) /\ Tag(r) = Tag(p)
  BY <1>2
<1>5. PICK s \in Steps : IsNew(s) /\ Tag(s) = Tag(q)
  BY <1>2
<1>6. Object(r) = Object(p) /\ Object(s) = Object(q)
  BY <1>3, <1>4, <1>5
<1>7. ASSUME Tag(p) = Tag(q) PROVE Object(p) = Object(q)
  BY <1>2, <1>4, <1>5, <1>6, <1>7
<1>8. ASSUME Object(p) = Object(q), Object(p) \in Known PROVE Tag(p) = Tag(q)
  <2>1. Object(r) # 0 /\ Object(r) = Object(s)
    BY <1>1, <1>6, <1>8, StepObjects
  <2>2. r = s
    BY <1>1, <1>4, <1>5, <2>1, StepObjects
  <2> QED BY <1>4, <1>5, <2>2
<1> QED BY <1>7, <1>8

(* Two steps of the finished puzzle have the same tag exactly if they are   *)
(* about the same object, in the recordings of SameObject.                  *)
THEOREM ObjectsKeepTags == Spec => []SameObject
<1>1. RecordingInv /\ LabelInv /\ ObjectInv => SameObject
  BY SameObjectHolds
<1> QED BY <1>1, LabelInvariant, ObjectInvariant, PTL

(* No step of an object whose birth is recorded is thrown away as dangling. *)
THEOREM NothingIsLost == Spec => []NothingLost
<1>1. ObjectInv => NothingLost
  BY DEF ObjectInv
<1> QED BY <1>1, ObjectInvariant, PTL

-----------------------------------------------------------------------------
(* Marks. While the parser reads, the marks that wait are those of the mark *)
(* lines so far that there have not been enough lines about the heap for    *)
(* yet, each with what it still has to wait; and every step so far is       *)
(* marked as it should be.                                                  *)

IsMark(m) == lines[m].word \in {"BUGGED", "TARGET"}
Letter(m) == IF lines[m].word = "BUGGED" THEN "B" ELSE "T"
Left(m) == lines[m].number - HeapLinesBetween(m, next - 1)
MarkOf(m) == [count |-> Left(m), bty |-> Letter(m)]

MarksWait ==
  phase = "parsing" =>
    /\ \A k \in 1..Len(marks) :
         \E m \in 1..(next - 1) : IsMark(m) /\ Left(m) > 0 /\ marks[k] = MarkOf(m)
    /\ \A m \in 1..(next - 1) :
         IsMark(m) /\ Left(m) > 0 => \E k \in 1..Len(marks) : marks[k] = MarkOf(m)

MarkRight(i, bty) ==
  LET letters == {Letter(m) : m \in MarksFor(i)}
  IN IF letters = {} THEN bty = "R" ELSE bty \in letters

MarksRight ==
  phase \in {"parsing", "labelling", "tracking"} =>
    \A p \in Steps : MarkRight(LineOf(p), StepAt(p).bty)

MarkInv == MarksWait /\ MarksRight

LEMMA Between ==
  ASSUME NEW i \in Nat, NEW j \in Nat, i <= j
  PROVE  /\ HeapLinesBetween(i, j) \in Nat /\ HeapLinesBetween(j, j) = 0
         /\ HeapLinesBetween(i, j + 1) = HeapLinesBetween(i, j) + IF IsHeap(j + 1) THEN 1 ELSE 0
<1> DEFINE T(n) == {k \in (i + 1)..n : lines[k].word \in HeapWords}
<1>1. IsFiniteSet(T(j)) /\ Cardinality(T(j)) \in Nat
  <2>1. IsFiniteSet((i + 1)..j)
    BY FS_Interval
  <2>2. T(j) \in SUBSET ((i + 1)..j)
    OBVIOUS
  <2> HIDE DEF T
  <2>3. IsFiniteSet(T(j))
    BY <2>1, <2>2, FS_Subset
  <2> QED BY <2>3, FS_CardinalityType
<1>2. HeapLinesBetween(j, j) = 0
  <2>1. {k \in (j + 1)..j : lines[k].word \in HeapWords} = {}
    OBVIOUS
  <2> QED BY <2>1, FS_EmptySet DEF HeapLinesBetween
<1>3. HeapLinesBetween(i, j) = Cardinality(T(j)) /\ HeapLinesBetween(i, j + 1) = Cardinality(T(j + 1))
  BY DEF HeapLinesBetween
<1>4. j + 1 \notin T(j) /\ T(j + 1) = IF IsHeap(j + 1) THEN T(j) \cup {j + 1} ELSE T(j)
  <2>1. (i + 1)..(j + 1) = ((i + 1)..j) \cup {j + 1} /\ j + 1 \notin (i + 1)..j
    OBVIOUS
  <2> QED BY <2>1 DEF IsHeap
<1> HIDE DEF T
<1>5. Cardinality(T(j) \cup {j + 1}) = Cardinality(T(j)) + 1
  BY <1>1, <1>4, FS_AddElement
<1> QED BY <1>1, <1>2, <1>3, <1>4, <1>5

(* What a line does to what is left to wait. *)
LEMMA LeftStep ==
  ASSUME RecordingInv, next \in 1..Len(lines), next' = next + 1, lines' = lines,
         NEW m \in 1..next, IsMark(m)
  PROVE  /\ m < next => /\ Left(m) \in Int /\ Left(m)' = Left(m) - IF IsHeap(next) THEN 1 ELSE 0
                        /\ IsHeap(next) => (m \in MarksFor(next) <=> Left(m) = 1)
         /\ m = next => Left(m)' = lines[m].number /\ lines[m].number > 0
         /\ (IsMark(m))' /\ Letter(m)' = Letter(m) /\ Letter(m) \in {"B", "T"}
<1>1. Len(lines) \in Nat /\ m \in 1..Len(lines) /\ next \in Nat /\ m \in Nat
  BY DEF RecordingInv, RecordingType
<1>2. lines[m].number \in Nat /\ lines[m].number > 0
  <2>1. LineFits(m)
    BY <1>1 DEF RecordingInv, LinesFit
  <2>2. lines[m].number \in 1..MaxMarks
    BY <2>1 DEF LineFits, IsMark
  <2> QED BY <2>2, LabellerAssumption
<1>3. (IsMark(m))' /\ Letter(m)' = Letter(m) /\ Letter(m) \in {"B", "T"}
  BY DEF IsMark, Letter
<1>4. Left(m)' = lines[m].number - HeapLinesBetween(m, next)
  <2>1. next' - 1 = next
    BY <1>1
  <2> QED BY <2>1 DEF Left, HeapLinesBetween
<1>5. CASE m = next
  <2>1. HeapLinesBetween(m, next) = 0
    BY <1>1, <1>5, Between
  <2> QED BY <1>2, <1>3, <1>4, <1>5, <2>1
<1>6. CASE m < next
  <2>1. next - 1 \in Nat /\ m <= next - 1 /\ (next - 1) + 1 = next
    BY <1>1, <1>6
  <2>2. /\ HeapLinesBetween(m, next - 1) \in Nat
        /\ HeapLinesBetween(m, next) = HeapLinesBetween(m, next - 1) + IF IsHeap(next) THEN 1 ELSE 0
    <3> DEFINE j == next - 1
    <3>1. j \in Nat /\ m <= j /\ j + 1 = next
      BY <2>1
    <3> HIDE DEF j
    <3>2. /\ HeapLinesBetween(m, j) \in Nat
          /\ HeapLinesBetween(m, j + 1) = HeapLinesBetween(m, j) + IF IsHeap(j + 1) THEN 1 ELSE 0
      BY <1>1, <3>1, Between
    <3> QED BY <3>1, <3>2 DEF j
  <2>3. m \in MarksFor(next) <=> HeapLinesBetween(m, next) = lines[m].number
    BY <1>1, <1>6 DEF MarksFor, IsMark
  <2>4. Left(m) = lines[m].number - HeapLinesBetween(m, next - 1)
    BY DEF Left
  <2>5. Left(m) \in Int /\ Left(m)' = Left(m) - IF IsHeap(next) THEN 1 ELSE 0
    BY <1>2, <1>4, <2>2, <2>4
  <2>6. IsHeap(next) => (m \in MarksFor(next) <=> Left(m) = 1)
    <3> HIDE DEF IsHeap
    <3> QED BY <1>2, <2>2, <2>3, <2>4
  <2> QED BY <1>1, <1>3, <1>6, <2>5, <2>6
<1> QED BY <1>1, <1>5, <1>6

(* A line about the heap: the marks whose turn has come go to its step.     *)
LEMMA HeapLineMarks ==
  ASSUME LabelInv, RecordingInv, MarkInv, Parse, IsHeap(next)
  PROVE  MarkInv'
<1> DEFINE s == Marked(StepOf(lines[next], next))
<1>1. /\ phase = "parsing" /\ phase' = phase /\ next' = next + 1 /\ lines' = lines
      /\ ops' = Add(s) /\ marks' = Waiting /\ next <= Len(lines)
  BY DEF Parse, IsHeap, recording, HeapWords, Births
<1>2. ops \in Seq(OpRecords) /\ ops # <<>> /\ marks \in Seq(MarkRecords) /\ next \in 1..Len(lines)
      /\ Len(lines) \in Nat
  <2>1. Len(lines) \in Nat
    BY DEF RecordingInv, RecordingType
  <2> QED BY <1>1, <2>1 DEF LabelInv, Parsed, LabelType, Stages
<1>3. \A i \in 1..Len(marks) : marks[i].count \in Int /\ (marks[i].count > 1 \/ marks[i].count <= 1)
  <2>1. \A i \in 1..Len(marks) : marks[i] \in MarkRecords
    BY <1>2
  <2> QED BY <2>1 DEF MarkRecords
<1>4. /\ \A k \in 1..Len(marks) :
           \E m \in 1..(next - 1) : IsMark(m) /\ Left(m) > 0 /\ marks[k] = MarkOf(m)
      /\ \A m \in 1..(next - 1) :
           IsMark(m) /\ Left(m) > 0 => \E k \in 1..Len(marks) : marks[k] = MarkOf(m)
      /\ \A p \in Steps : MarkRight(LineOf(p), StepAt(p).bty)
  BY <1>1 DEF MarkInv, MarksWait, MarksRight
<1>5. /\ \A k \in 1..Len(marks') : \E i \in 1..Len(marks) :
           /\ marks[i].count > 1
           /\ marks'[k] = [count |-> marks[i].count - 1, bty |-> marks[i].bty]
      /\ \A i \in 1..Len(marks) : marks[i].count > 1 =>
           \E k \in 1..Len(marks') : marks'[k] = [count |-> marks[i].count - 1, bty |-> marks[i].bty]
  BY <1>1, <1>2, WaitingIs
<1>6. ~IsMark(next)
  BY DEF IsMark, IsHeap, HeapWords, Births
<1>7. ASSUME NEW m \in 1..(next - 1), IsMark(m)
      PROVE  /\ Left(m) \in Int /\ Left(m)' = Left(m) - 1 /\ (m \in MarksFor(next) <=> Left(m) = 1)
             /\ (IsMark(m))' /\ MarkOf(m)' = [count |-> Left(m) - 1, bty |-> Letter(m)]
             /\ MarkOf(m).count = Left(m) /\ MarkOf(m).bty = Letter(m)
  <2>1. m \in 1..next /\ m < next
    BY <1>2
  <2>2. /\ Left(m) \in Int /\ Left(m)' = Left(m) - 1 /\ (m \in MarksFor(next) <=> Left(m) = 1)
        /\ (IsMark(m))' /\ Letter(m)' = Letter(m)
    <3>1. next' = next + 1 /\ lines' = lines /\ next \in 1..Len(lines) /\ IsMark(m)
      BY <1>1, <1>2, <1>7
    <3> QED BY <2>1, <3>1, LeftStep
  <2> QED BY <2>2 DEF MarkOf
<1>8. next' - 1 = next
  BY <1>1, <1>2
<1>9. MarksWait'
  <2>1. ASSUME NEW k \in 1..Len(marks')
        PROVE  \E m \in 1..(next' - 1) : (IsMark(m) /\ Left(m) > 0 /\ marks[k] = MarkOf(m))'
    <3>1. PICK i \in 1..Len(marks) : /\ marks[i].count > 1
                                     /\ marks'[k] = [count |-> marks[i].count - 1, bty |-> marks[i].bty]
      BY <1>5
    <3>2. PICK m \in 1..(next - 1) : IsMark(m) /\ Left(m) > 0 /\ marks[i] = MarkOf(m)
      BY <1>4
    <3>3. m \in 1..(next' - 1) /\ Left(m) > 1 /\ Left(m) \in Int
      BY <1>2, <1>7, <1>8, <3>1, <3>2
    <3>4. Left(m)' > 0
      BY <1>7, <3>2, <3>3
    <3>5. marks'[k] = MarkOf(m)'
      BY <1>7, <3>1, <3>2
    <3> QED BY <1>7, <3>2, <3>3, <3>4, <3>5
  <2>2. ASSUME NEW m \in 1..(next' - 1), (IsMark(m))', Left(m)' > 0
        PROVE  \E k \in 1..Len(marks') : marks'[k] = MarkOf(m)'
    <3>1. IsMark(m)
      BY <1>1, <2>2 DEF IsMark
    <3>2. m \in 1..(next - 1)
      BY <1>2, <1>6, <1>8, <3>1
    <3>3. Left(m) > 1 /\ Left(m) > 0
      BY <1>7, <2>2, <3>1, <3>2
    <3>4. PICK i \in 1..Len(marks) : marks[i] = MarkOf(m)
      BY <1>4, <3>1, <3>2, <3>3
    <3>5. marks[i].count > 1 /\ marks[i].count = Left(m) /\ marks[i].bty = Letter(m)
      BY <1>7, <3>1, <3>2, <3>3, <3>4
    <3> QED BY <1>5, <1>7, <3>1, <3>2, <3>5
  <2> QED BY <2>1, <2>2 DEF MarksWait
<1>10. MarkRight(next, s.bty)
  <2>1. /\ (\A i \in 1..Len(marks) : marks[i].count > 1) => s.bty = "R"
        /\ (\E i \in 1..Len(marks) : marks[i].count <= 1) =>
             \E i \in 1..Len(marks) : marks[i].count <= 1 /\ s.bty = marks[i].bty
    BY <1>1, <1>2, HeapLineStep
  <2> HIDE DEF s
  <2>2. ASSUME NEW i \in 1..Len(marks), marks[i].count <= 1
        PROVE  \E m \in MarksFor(next) : marks[i].bty = Letter(m)
    <3>1. PICK m \in 1..(next - 1) : IsMark(m) /\ Left(m) > 0 /\ marks[i] = MarkOf(m)
      BY <1>4
    <3>2. Left(m) = 1
      BY <1>7, <2>2, <3>1
    <3> QED BY <1>7, <3>1, <3>2
  <2>3. ASSUME NEW m \in MarksFor(next)
        PROVE  \E i \in 1..Len(marks) : marks[i].count <= 1
    <3>1. m \in 1..(next - 1) /\ IsMark(m)
      BY DEF MarksFor, IsMark
    <3>2. Left(m) = 1
      BY <1>7, <3>1
    <3>3. PICK k \in 1..Len(marks) : marks[k] = MarkOf(m)
      BY <1>4, <3>1, <3>2
    <3> QED BY <1>7, <3>1, <3>2, <3>3
  <2>4. CASE MarksFor(next) = {}
    <3>1. \A i \in 1..Len(marks) : marks[i].count > 1
      BY <1>3, <2>2, <2>4
    <3> QED BY <2>1, <2>4, <3>1 DEF MarkRight
  <2>5. CASE MarksFor(next) # {}
    <3>1. PICK i \in 1..Len(marks) : marks[i].count <= 1 /\ s.bty = marks[i].bty
      BY <2>1, <2>3, <2>5
    <3>2. PICK m \in MarksFor(next) : s.bty = Letter(m)
      BY <2>2, <3>1
    <3> QED BY <2>5, <3>2 DEF MarkRight
  <2> QED BY <2>4, <2>5
<1>11. MarksRight'
  <2>1. /\ s.line = next
        /\ \E at : Steps' = Steps \cup {at} /\ StepAt(at)' = s /\ \A p \in Steps : StepAt(p)' = StepAt(p)
    BY <1>1, <1>2, HeapLineStep
  <2> HIDE DEF s
  <2>2. PICK at : Steps' = Steps \cup {at} /\ StepAt(at)' = s /\ \A p \in Steps : StepAt(p)' = StepAt(p)
    BY <2>1
  <2>3. ASSUME NEW i, NEW b, MarkRight(i, b)
        PROVE  MarkRight(i, b)'
    BY <1>1, <2>3 DEF MarkRight, Letter, MarksFor, HeapLinesBetween
  <2>4. ASSUME NEW p \in Steps'
        PROVE  \E i, b : LineOf(p)' = i /\ StepAt(p).bty' = b /\ MarkRight(i, b)
    BY <1>4, <1>10, <2>1, <2>2 DEF LineOf
  <2>5. ASSUME NEW p \in Steps'
        PROVE  MarkRight(LineOf(p), StepAt(p).bty)'
    BY <2>3, <2>4 DEF MarkRight
  <2> QED BY <2>5 DEF MarksRight
<1> QED BY <1>9, <1>11 DEF MarkInv

(* Any other line: a mark line makes a mark that waits for its number.      *)
LEMMA OtherLineMarks ==
  ASSUME LabelInv, RecordingInv, MarkInv, Parse, ~IsHeap(next)
  PROVE  MarkInv'
<1>1. /\ phase = "parsing" /\ phase' = phase /\ next' = next + 1 /\ lines' = lines
      /\ next <= Len(lines) /\ (ops' = ops \/ ops' = NextOp(lines[next]))
      /\ IsMark(next) => marks' = Append(marks, [count |-> lines[next].number, bty |-> Letter(next)])
      /\ ~IsMark(next) => marks' = marks
  BY DEF Parse, IsHeap, IsMark, Letter, recording
<1>2. ops \in Seq(OpRecords) /\ ops # <<>> /\ marks \in Seq(MarkRecords) /\ next \in 1..Len(lines)
      /\ Len(lines) \in Nat
  <2>1. Len(lines) \in Nat
    BY DEF RecordingInv, RecordingType
  <2> QED BY <1>1, <2>1 DEF LabelInv, Parsed, LabelType, Stages
<1>3. /\ \A k \in 1..Len(marks) :
           \E m \in 1..(next - 1) : IsMark(m) /\ Left(m) > 0 /\ marks[k] = MarkOf(m)
      /\ \A m \in 1..(next - 1) :
           IsMark(m) /\ Left(m) > 0 => \E k \in 1..Len(marks) : marks[k] = MarkOf(m)
      /\ \A p \in Steps : MarkRight(LineOf(p), StepAt(p).bty)
  BY <1>1 DEF MarkInv, MarksWait, MarksRight
<1>4. next' - 1 = next /\ \A m \in 1..next : m \in 1..(next - 1) \/ m = next
  BY <1>1, <1>2
<1>5. ASSUME NEW m \in 1..(next - 1), IsMark(m)
      PROVE  Left(m)' = Left(m) /\ (IsMark(m))' /\ MarkOf(m)' = MarkOf(m)
  <2>1. m \in 1..next /\ m < next
    BY <1>2
  <2>2. Left(m) \in Int /\ Left(m)' = Left(m) - 0 /\ (IsMark(m))' /\ Letter(m)' = Letter(m)
    <3>1. next' = next + 1 /\ lines' = lines /\ next \in 1..Len(lines) /\ IsMark(m)
      BY <1>1, <1>2, <1>5
    <3> QED BY <2>1, <3>1, LeftStep
  <2> QED BY <2>2 DEF MarkOf
<1>6. ASSUME NEW m, m = next, IsMark(m)
      PROVE  /\ Left(m)' = lines[m].number /\ Left(m)' > 0 /\ (IsMark(m))'
             /\ MarkOf(m)' = [count |-> lines[m].number, bty |-> Letter(m)]
  <2>1. m \in 1..next
    BY <1>2, <1>6
  <2>2. Left(m)' = lines[m].number /\ lines[m].number > 0 /\ (IsMark(m))' /\ Letter(m)' = Letter(m)
    <3>1. next' = next + 1 /\ lines' = lines /\ next \in 1..Len(lines) /\ IsMark(m)
      BY <1>1, <1>2, <1>6
    <3> QED BY <1>6, <2>1, <3>1, LeftStep
  <2> QED BY <2>2 DEF MarkOf
<1>7. MarksWait'
  <2>1. /\ \A k \in 1..Len(marks) : k \in 1..Len(marks') /\ marks'[k] = marks[k]
        /\ \A k \in 1..Len(marks') :
             \/ k \in 1..Len(marks)
             \/ IsMark(next) /\ marks'[k] = [count |-> lines[next].number, bty |-> Letter(next)]
        /\ IsMark(next) => \E k \in 1..Len(marks') :
             marks'[k] = [count |-> lines[next].number, bty |-> Letter(next)]
    <3> DEFINE mark == [count |-> lines[next].number, bty |-> Letter(next)]
    <3>1. \/ marks' = marks /\ ~IsMark(next)
          \/ marks' = Append(marks, mark) /\ IsMark(next)
      BY <1>1
    <3> HIDE DEF mark
    <3>2. ASSUME marks' = Append(marks, mark)
          PROVE  /\ \A k \in 1..Len(marks) : k \in 1..Len(marks') /\ marks'[k] = marks[k]
                 /\ \A k \in 1..Len(marks') : k \in 1..Len(marks) \/ marks'[k] = mark
                 /\ Len(marks) + 1 \in 1..Len(marks') /\ marks'[Len(marks) + 1] = mark
      <4>1. marks \in Seq(MarkRecords \cup {mark}) /\ mark \in MarkRecords \cup {mark}
        BY <1>2
      <4> HIDE DEF MarkRecords
      <4>2. Len(marks') = Len(marks) + 1 /\ Len(marks) \in Nat /\ marks'[Len(marks) + 1] = mark
            /\ \A k \in 1..Len(marks) : marks'[k] = marks[k]
        BY <3>2, <4>1
      <4>3. \A k \in 1..Len(marks') : k \in 1..Len(marks) \/ k = Len(marks) + 1
        BY <4>2
      <4> QED BY <4>2, <4>3
    <3> QED BY <3>1, <3>2 DEF mark
  <2>2. ASSUME NEW k \in 1..Len(marks')
        PROVE  \E m \in 1..(next' - 1) : (IsMark(m) /\ Left(m) > 0 /\ marks[k] = MarkOf(m))'
    <3>1. CASE k \in 1..Len(marks)
      <4>1. PICK m \in 1..(next - 1) : IsMark(m) /\ Left(m) > 0 /\ marks[k] = MarkOf(m)
        BY <1>3, <3>1
      <4>2. m \in 1..(next' - 1)
        BY <1>2, <1>4
      <4>3. (IsMark(m))' /\ Left(m)' > 0 /\ marks'[k] = MarkOf(m)'
        BY <1>5, <2>1, <3>1, <4>1
      <4> QED BY <4>2, <4>3
    <3>2. CASE IsMark(next) /\ marks'[k] = [count |-> lines[next].number, bty |-> Letter(next)]
      <4>1. PICK m \in 1..(next' - 1) : m = next
        BY <1>2, <1>4
      <4>2. IsMark(m) /\ marks'[k] = [count |-> lines[m].number, bty |-> Letter(m)]
        BY <3>2, <4>1
      <4> QED BY <1>6, <4>1, <4>2
    <3> QED BY <2>1, <3>1, <3>2
  <2>3. ASSUME NEW m \in 1..(next' - 1), (IsMark(m))', Left(m)' > 0
        PROVE  \E k \in 1..Len(marks') : marks'[k] = MarkOf(m)'
    <3>1. IsMark(m)
      BY <1>1, <2>3 DEF IsMark
    <3>2. CASE m \in 1..(next - 1)
      <4>1. PICK k \in 1..Len(marks) : marks[k] = MarkOf(m)
        BY <1>3, <1>5, <2>3, <3>1, <3>2
      <4> QED BY <1>5, <2>1, <3>1, <3>2, <4>1
    <3>3. CASE m = next
      <4>1. MarkOf(m)' = [count |-> lines[m].number, bty |-> Letter(m)]
        BY <1>6, <3>1, <3>3
      <4> QED BY <2>1, <3>1, <3>3, <4>1
    <3> QED BY <1>4, <3>2, <3>3
  <2> QED BY <2>2, <2>3 DEF MarksWait
<1>8. MarksRight'
  <2>1. Steps' = Steps /\ \A p \in Steps : StepAt(p)' = StepAt(p)
    <3>1. CASE ops' = ops
      BY <3>1 DEF Steps, StepAt
    <3>2. CASE ops' = NextOp(lines[next])
      <4>1. StepsOf(ops') = Steps /\ \A p \in Steps : At(ops', p) = StepAt(p)
        BY <1>2, <3>2, NextOpSteps
      <4> QED BY <4>1 DEF Steps, StepsOf, StepAt, At
    <3> QED BY <1>1, <3>1, <3>2
  <2>2. ASSUME NEW i, NEW b, MarkRight(i, b)
        PROVE  MarkRight(i, b)'
    BY <1>1, <2>2 DEF MarkRight, Letter, MarksFor, HeapLinesBetween
  <2>3. ASSUME NEW p \in Steps'
        PROVE  \E i, b : LineOf(p)' = i /\ StepAt(p).bty' = b /\ MarkRight(i, b)
    BY <1>3, <2>1 DEF LineOf
  <2>4. ASSUME NEW p \in Steps'
        PROVE  MarkRight(LineOf(p), StepAt(p).bty)'
    BY <2>2, <2>3 DEF MarkRight
  <2> QED BY <2>4 DEF MarksRight
<1> QED BY <1>7, <1>8 DEF MarkInv

(* The labeller leaves the marks of the steps alone. *)
LEMMA MarksStay ==
  ASSUME MarksRight, lines' = lines, phase \in {"parsing", "labelling", "tracking"}, phase' # "parsing",
         \A p \in Steps' : \E q \in Steps : LineOf(p)' = LineOf(q) /\ StepAt(p).bty' = StepAt(q).bty
  PROVE  MarkInv'
<1>1. ASSUME NEW i, NEW b, MarkRight(i, b)
      PROVE  MarkRight(i, b)'
  BY <1>1 DEF MarkRight, Letter, MarksFor, HeapLinesBetween
<1>2. ASSUME NEW p \in Steps'
      PROVE  \E i, b : LineOf(p)' = i /\ StepAt(p).bty' = b /\ MarkRight(i, b)
  BY DEF MarksRight
<1>3. ASSUME NEW p \in Steps'
      PROVE  MarkRight(LineOf(p), StepAt(p).bty)'
  BY <1>1, <1>2 DEF MarkRight
<1> QED BY <1>3 DEF MarkInv, MarksWait, MarksRight

LEMMA MarkInvStep ==
  ASSUME LabelInv, LabelInv', RecordingInv, MarkInv, [Next]_vars
  PROVE  MarkInv'
<1>1. CASE Target \/ Sweep \/ Cleanup \/ Export
  <2>1. phase' \notin {"parsing", "labelling", "tracking"}
    BY <1>1 DEF Target, Allocate, AllocateFails, AllocateUnseen, Free, Realloc, ReallocZero,
                ReallocFails, Exec, Annotate, Log, Sweep, Cleanup, Export
  <2> QED BY <2>1 DEF MarkInv, MarksWait, MarksRight
<1>2. CASE EndRecording
  <2>1. next' = 1 /\ marks' = <<>>
    BY <1>2 DEF EndRecording, LabelInv, Parsed, Stages
  <2>2. Steps' = {}
    <3>1. ASSUME NEW p \in Steps' PROVE FALSE
      <4>1. StepFits(p)'
        BY DEF LabelInv, Parsed, StepsFit
      <4> QED BY <2>1, <4>1 DEF StepFits
    <3> QED BY <3>1
  <2> QED BY <2>1, <2>2 DEF MarkInv, MarksWait, MarksRight
<1>3. CASE Parse
  BY <1>3, HeapLineMarks, OtherLineMarks
<1>4. CASE EndParse
  <2>1. phase = "parsing" /\ phase' = "labelling" /\ ops' = Clean(ops) /\ lines' = lines
    BY <1>4 DEF EndParse, recording
  <2>2. ops \in Seq(OpRecords) /\ Steps = StepsOf(ops) /\ Steps' = StepsOf(ops')
    BY DEF LabelInv, Parsed, LabelType, Steps, StepsOf
  <2>3. Keeps(ops, ops', Steps)
    BY <2>1, <2>2, CleanKeeps
  <2>4. ASSUME NEW p \in Steps'
        PROVE  \E q \in Steps : LineOf(p)' = LineOf(q) /\ StepAt(p).bty' = StepAt(q).bty
    <3>1. PICK q \in Steps : StepAt(p)' = StepAt(q)
      BY <2>2, <2>3 DEF Keeps, StepAt, At
    <3> QED BY <3>1 DEF LineOf
  <2> QED BY <2>1, <2>4, MarksStay DEF MarkInv
<1>5. CASE Label
  <2>1. /\ phase = "labelling" /\ phase' # "parsing" /\ lines' = lines /\ cursor \in Steps
        /\ LabelType /\ tags + 1 \in Nat /\ Dangling \in Nat
    BY <1>5, LabellerAssumption DEF Label, recording, LabelInv, Parsed, LabelType, Dangling, Unseen
  <2>2. ops' = ops \/ ops' = Tagged(cursor, Dangling) \/ ops' = Tagged(cursor, tags + 1)
    BY <1>5 DEF Label
  <2> HIDE DEF Dangling
  <2>3. SameSteps
    BY <2>1, <2>2, Retagged, Untouched
  <2> QED BY <2>1, <2>3, MarksStay DEF MarkInv, SameSteps
<1>6. CASE Track
  <2>1. phase = "tracking" /\ Labelling /\ Parsed /\ tags \in Nat
    BY <1>6 DEF Track, Labelling, LabelInv, Parsed, LabelType
  <2>2. track \in Steps
    BY <2>1 DEF LabelInv, PlaceFits
  <2>3. SameSteps /\ phase' # "parsing" /\ lines' = lines
    BY <1>6, <2>1, <2>2, TrackMoves DEF recording
  <2> QED BY <2>1, <2>3, MarksStay DEF MarkInv, SameSteps
<1>7. CASE UNCHANGED vars
  <2>1. lines' = lines /\ phase' = phase /\ next' = next /\ ops' = ops /\ marks' = marks
    BY <1>7 DEF vars, recording
  <2>2. /\ \A i, j : HeapLinesBetween(i, j)' = HeapLinesBetween(i, j)
        /\ \A m : (IsMark(m)' <=> IsMark(m)) /\ Letter(m)' = Letter(m)
        /\ Steps' = Steps /\ \A p : StepAt(p)' = StepAt(p)
    BY <2>1 DEF IsMark, Letter, HeapLinesBetween, Steps, StepAt
  <2>3. \A m : Left(m)' = Left(m)
    <3>1. \A m : HeapLinesBetween(m, next - 1)' = HeapLinesBetween(m, next - 1)
      BY <2>1 DEF HeapLinesBetween
    <3> QED BY <2>1, <3>1 DEF Left
  <2>4. \A m : MarkOf(m)' = MarkOf(m)
    BY <2>2, <2>3 DEF MarkOf
  <2>5. MarksWait'
    BY <2>1, <2>2, <2>3, <2>4 DEF MarkInv, MarksWait
  <2>6. ASSUME NEW i, NEW b, MarkRight(i, b)
        PROVE  MarkRight(i, b)'
    BY <2>1, <2>6 DEF MarkRight, Letter, MarksFor, HeapLinesBetween
  <2>7. ASSUME phase \in {"parsing", "labelling", "tracking"}, NEW p \in Steps'
        PROVE  \E i, b : LineOf(p)' = i /\ StepAt(p).bty' = b /\ MarkRight(i, b)
    BY <2>2, <2>7 DEF LineOf, MarkInv, MarksRight
  <2>8. ASSUME phase \in {"parsing", "labelling", "tracking"}, NEW p \in Steps'
        PROVE  MarkRight(LineOf(p), StepAt(p).bty)'
    BY <2>6, <2>7, <2>8 DEF MarkRight
  <2>9. MarksRight'
    BY <2>1, <2>8 DEF MarksRight
  <2> QED BY <2>5, <2>9 DEF MarkInv
<1> QED BY <1>1, <1>2, <1>3, <1>4, <1>5, <1>6, <1>7 DEF Next, Refine

(* A step is marked exactly if the user's lines counted to it, and with one *)
(* of those that did, whatever order the waiting marks have come to be in.  *)
THEOREM MarksMeetSteps == Spec => []MarksLand
<1>1. Init => MarkInv
  <2>1. Init => phase = "recording"
    BY DEF Init
  <2> QED BY <2>1 DEF MarkInv, MarksWait, MarksRight
<1>2. RecordingInv /\ LabelInv /\ LabelInv' /\ MarkInv /\ [Next]_vars => MarkInv'
  BY MarkInvStep
<1>3. MarkInv => MarksLand
  BY DEF MarkInv, MarksRight, MarksLand, MarkRight, Letter, LineOf
<1> QED BY <1>1, <1>2, <1>3, LabelInvariant, PTL DEF Spec

-----------------------------------------------------------------------------
(* The end. What is left to do, as a number: the lines to parse, the steps  *)
(* the outer loop has not visited, and the lines behind the one where       *)
(* _track_ptr is.                                                           *)

Ends == Len(lines) + 1

(* A row of the two loops: one step of the outer, all lines of the inner.   *)
Row(n, k) == n * (k + 2)

ToVisit == IF cursor \in Steps THEN Ends - LineOf(cursor) ELSE 0
Loops == Row(ToVisit, Ends) + (IF phase = "tracking" THEN Ends - LineOf(track) ELSE Ends)

Work ==
  CASE phase = "parsing" -> 3 + Row(Ends, Ends) + Ends + (Ends - next)
    [] Labelling         -> 3 + Loops
    [] phase = "done"    -> 2
    [] phase = "cleaned" -> 1
    [] OTHER             -> 0

LEMMA Rows ==
  ASSUME NEW m \in Nat, NEW n \in Nat, NEW k \in Nat
  PROVE  /\ Row(m, k) \in Nat
         /\ m < n => Row(m, k) + k + 2 <= Row(n, k)
<1> DEFINE w == k + 2
<1>0. w \in Nat
  OBVIOUS
<1> HIDE DEF w
<1>1. m * w \in Nat /\ n * w \in Nat
  BY <1>0
<1>2. ASSUME m < n PROVE m * w + w <= n * w
  <2>1. PICK d \in Nat : n = m + 1 + d
    <3>1. n - m - 1 \in Nat /\ n = m + 1 + (n - m - 1)
      BY <1>2
    <3> QED BY <3>1
  <2>2. n * w = m * w + w + d * w
    BY <1>0, <2>1
  <2>3. d * w \in Nat
    BY <1>0
  <2> QED BY <1>0, <1>1, <2>2, <2>3
<1>3. Row(m, k) = m * w /\ Row(n, k) = n * w
  BY DEF Row, w
<1>4. m < n => Row(m, k) + w <= Row(n, k)
  BY <1>2, <1>3
<1>5. Row(m, k) + w = Row(m, k) + k + 2
  BY <1>1, <1>3 DEF w
<1> QED BY <1>1, <1>3, <1>4, <1>5

(* While there are steps to visit, these numbers are natural.               *)
WorkFits ==
  /\ Ends \in Nat /\ next \in 1..Ends /\ LabelType /\ LinesRise
  /\ \A p \in Steps : LineOf(p) \in Nat /\ 1 <= LineOf(p) /\ LineOf(p) < Ends
  /\ ToVisit \in Nat /\ ToVisit < Ends
  /\ Labelling => Loops \in Nat
  /\ phase = "tracking" => cursor \in Steps /\ track \in Steps

LEMMA WorkTyped == LabelInv => WorkFits
<1> SUFFICES ASSUME LabelInv PROVE WorkFits
  OBVIOUS
<1>1. LabelType /\ LinesRise /\ StepsFit
  BY DEF LabelInv, Parsed
<1>2. Ends \in Nat /\ next \in 1..Ends /\ Len(lines) \in Nat
  BY <1>1 DEF LabelType, Ends
<1>3. \A p \in Steps : LineOf(p) \in Nat /\ 1 <= LineOf(p) /\ LineOf(p) < Ends
  <2>1. ASSUME NEW p \in Steps PROVE LineOf(p) \in 1..Len(lines)
    BY <1>1 DEF StepsFit, StepFits
  <2> QED BY <1>2, <2>1 DEF Ends
<1>4. ToVisit \in Nat /\ ToVisit < Ends
  <2>1. 0 < Ends
    BY <1>2 DEF Ends
  <2> QED BY <1>2, <1>3, <2>1 DEF ToVisit
<1>6. phase = "tracking" => cursor \in Steps /\ track \in Steps
  BY DEF LabelInv, PlaceFits, Labelling
<1>5. ASSUME Labelling PROVE Loops \in Nat
  <2>1. phase = "tracking" => track \in Steps
    BY <1>6
  <2>2. (IF phase = "tracking" THEN Ends - LineOf(track) ELSE Ends) \in Nat
    BY <1>2, <1>3, <2>1
  <2>3. Row(ToVisit, Ends) \in Nat
    BY <1>2, <1>4, Rows
  <2> QED BY <2>2, <2>3 DEF Loops
<1> QED BY <1>1, <1>2, <1>3, <1>4, <1>5, <1>6 DEF WorkFits

LEMMA WorkNatural == WorkFits => Work \in Nat
<1> SUFFICES ASSUME WorkFits PROVE Work \in Nat
  OBVIOUS
<1>1. Ends \in Nat /\ next \in 1..Ends /\ (Labelling => Loops \in Nat)
  BY DEF WorkFits
<1>2. Row(Ends, Ends) \in Nat
  BY <1>1, Rows
<1> HIDE DEF Loops
<1> QED BY <1>1, <1>2 DEF Work, Labelling

(* The steps the outer loop has to visit become fewer when it goes on.      *)
LEMMA VisitsOn ==
  ASSUME LabelInv, WorkFits, WorkFits', Labelling, cursor \in Steps, SameSteps, lines' = lines,
         cursor' = After(cursor)
  PROVE  ToVisit' < ToVisit /\ Ends' = Ends
<1>1. Ends' = Ends /\ Steps' = Steps /\ \A p \in Steps : LineOf(p)' = LineOf(p)
  BY DEF Ends, SameSteps
<1>2. \A i \in 1..Len(ops) : ops[i].steps # <<>>
  BY DEF LabelInv, PlaceFits
<1>3. /\ Ends \in Nat /\ LabelType /\ LinesRise
      /\ \A p \in Steps : LineOf(p) \in Nat /\ 1 <= LineOf(p) /\ LineOf(p) < Ends
  BY DEF WorkFits
<1>4. ToVisit = Ends - LineOf(cursor) /\ ToVisit > 0
  BY <1>3 DEF ToVisit
<1>5. CASE cursor' \notin Steps
  <2>1. ToVisit' = 0
    BY <1>1, <1>5 DEF ToVisit
  <2> QED BY <1>1, <1>4, <2>1
<1>6. CASE cursor' \in Steps
  <2>1. PICK at \in Steps : at = cursor'
    BY <1>6
  <2>2. Before(cursor, at)
    <3>1. \A p \in Steps : Before(p, After(cursor)) <=> Before(p, cursor) \/ p = cursor
      BY <1>2, <1>3, AfterIs
    <3> QED BY <2>1, <3>1
  <2>3. LineOf(cursor) < LineOf(at)
    BY <1>3, <2>2, ByLine
  <2>4. LineOf(cursor)' = LineOf(at)
    BY <1>1, <2>1 DEF LineOf, StepAt
  <2>5. ToVisit' = Ends - LineOf(at)
    BY <1>1, <1>6, <2>4 DEF ToVisit
  <2> HIDE DEF ToVisit
  <2> QED BY <1>1, <1>3, <1>4, <2>3, <2>5
<1> QED BY <1>5, <1>6

(* One row of the loops costs less than the outer loop's step gives back.   *)
LEMMA LoopsOn ==
  ASSUME WorkFits, WorkFits', Labelling, phase' = "labelling", ToVisit' < ToVisit, Ends' = Ends
  PROVE  Loops' < Loops
<1>1. /\ Ends \in Nat /\ ToVisit \in Nat /\ ToVisit' \in Nat
      /\ \A p \in Steps : LineOf(p) \in Nat /\ LineOf(p) < Ends
      /\ phase = "tracking" => track \in Steps
  BY DEF WorkFits
<1>2. Loops' = Row(ToVisit', Ends) + Ends
  BY DEF Loops
<1> DEFINE rest == IF phase = "tracking" THEN Ends - LineOf(track) ELSE Ends
<1>3. Loops = Row(ToVisit, Ends) + rest
  BY DEF Loops
<1>4. rest \in Nat
  BY <1>1
<1>5. Row(ToVisit', Ends) + Ends + 2 <= Row(ToVisit, Ends)
  BY <1>1, Rows
<1>6. Row(ToVisit', Ends) \in Nat /\ Row(ToVisit, Ends) \in Nat
  BY <1>1, Rows
<1> HIDE DEF rest, ToVisit, Ends, Loops
<1> QED BY <1>1, <1>2, <1>3, <1>4, <1>5, <1>6

LEMMA LabelWorks ==
  ASSUME LabelInv, WorkFits, WorkFits', Label
  PROVE  Work' < Work
<1>1. /\ phase = "labelling" /\ Labelling /\ cursor \in Steps /\ lines' = lines
      /\ UNCHANGED <<recording, next, marks>>
  BY DEF Label, Labelling, recording
<1>2. /\ Ends \in Nat /\ LabelType /\ ToVisit \in Nat /\ Loops \in Nat
      /\ LineOf(cursor) \in Nat /\ 1 <= LineOf(cursor) /\ LineOf(cursor) < Ends
  BY <1>1 DEF WorkFits
<1>3. Work = 3 + Loops
  BY <1>1 DEF Work
<1>4. ASSUME cursor' = After(cursor), phase' = phase, SameSteps PROVE Work' < Work
  <2>1. ToVisit' < ToVisit /\ Ends' = Ends
    BY <1>1, <1>4, VisitsOn
  <2>2. Loops' < Loops
    BY <1>1, <1>4, <2>1, LoopsOn
  <2>3. Work' = 3 + Loops' /\ Loops' \in Nat
    BY <1>1, <1>4 DEF Work, Labelling, WorkFits
  <2>4. Loops \in Nat /\ Work = 3 + Loops
    BY <1>2, <1>3
  <2>5. \A a, b \in Nat : a < b => 3 + a < 3 + b
    OBVIOUS
  <2> QED BY <2>2, <2>3, <2>4, <2>5
<1>5. CASE ops' = ops /\ cursor' = After(cursor) /\ phase' = phase
  BY <1>2, <1>4, <1>5, Untouched
<1>6. CASE ops' = Tagged(cursor, Dangling) /\ cursor' = After(cursor) /\ phase' = phase
  <2>1. Dangling \in Nat
    BY LabellerAssumption DEF Dangling, Unseen
  <2>2. SameSteps
    BY <1>1, <1>2, <1>6, <2>1, Retagged
  <2> QED BY <1>4, <1>6, <2>2
<1>7. CASE /\ ops' = Tagged(cursor, tags + 1) /\ track' = cursor /\ phase' = "tracking"
           /\ cursor' = cursor
  <2>1. tags + 1 \in Nat
    BY <1>2 DEF LabelType
  <2>2. SameSteps
    BY <1>1, <1>2, <1>7, <2>1, Retagged
  <2>3. Steps' = Steps /\ Ends' = Ends /\ \A p \in Steps : LineOf(p)' = LineOf(p)
    BY <1>1, <2>2 DEF SameSteps, Ends
  <2>4. LineOf(track)' = LineOf(cursor) /\ ToVisit' = ToVisit
    <3>1. PICK at \in Steps : at = cursor
      BY <1>1
    <3>2. LineOf(track)' = LineOf(at) /\ LineOf(cursor)' = LineOf(at)
      BY <1>7, <2>3, <3>1 DEF LineOf, StepAt
    <3> QED BY <1>1, <1>7, <2>3, <3>1, <3>2 DEF ToVisit
  <2>5. Loops' = Row(ToVisit, Ends) + (Ends - LineOf(cursor))
    BY <1>7, <2>3, <2>4 DEF Loops
  <2>6. Loops = Row(ToVisit, Ends) + Ends
    BY <1>1 DEF Loops
  <2>7. Work' = 3 + Loops'
    BY <1>7 DEF Work, Labelling
  <2>8. Row(ToVisit, Ends) \in Nat
    BY <1>2, Rows
  <2> HIDE DEF ToVisit, Loops, Ends
  <2> QED BY <1>1, <1>2, <1>3, <2>5, <2>6, <2>7, <2>8
<1> QED BY <1>5, <1>6, <1>7 DEF Label

LEMMA TrackWorks ==
  ASSUME LabelInv, WorkFits, WorkFits', RecordingInv, Track
  PROVE  Work' < Work
<1>1. phase = "tracking" /\ Labelling /\ Parsed /\ tags \in Nat
  BY DEF Track, Labelling, LabelInv, Parsed, LabelType
<1>2. cursor \in Steps /\ track \in Steps
  BY <1>1 DEF WorkFits
<1>3. /\ Ends \in Nat /\ LabelType /\ LinesRise /\ ToVisit \in Nat /\ Loops \in Nat
      /\ \A p \in Steps : LineOf(p) \in Nat /\ LineOf(p) < Ends
  BY <1>1 DEF WorkFits
<1>4. Work = 3 + Loops
  BY <1>1 DEF Work
<1>5. /\ lines' = lines /\ SameSteps
      /\ \/ track' \in NextUses /\ phase' = "tracking" /\ cursor' = cursor
         \/ phase' = "labelling" /\ cursor' = After(cursor)
  BY <1>1, <1>2, TrackMoves DEF recording
<1>6. CASE phase' = "labelling" /\ cursor' = After(cursor)
  <2>1. ToVisit' < ToVisit /\ Ends' = Ends
    BY <1>1, <1>2, <1>5, <1>6, VisitsOn
  <2>2. Loops' < Loops
    BY <1>1, <1>6, <2>1, LoopsOn
  <2>3. Work' = 3 + Loops' /\ Loops' \in Nat
    BY <1>6 DEF Work, Labelling, WorkFits
  <2>4. Loops \in Nat /\ Work = 3 + Loops
    BY <1>3, <1>4
  <2>5. \A a, b \in Nat : a < b => 3 + a < 3 + b
    OBVIOUS
  <2> QED BY <2>2, <2>3, <2>4, <2>5
<1>7. CASE track' \in NextUses /\ phase' = "tracking" /\ cursor' = cursor
  <2>1. PICK at \in Steps : at = track' /\ Before(track, at)
    BY <1>1, <1>2, <1>7, UsesAre
  <2>2. LineOf(track) < LineOf(at) /\ LineOf(at) < Ends
    BY <1>2, <1>3, <2>1, ByLine
  <2>3. Steps' = Steps /\ Ends' = Ends /\ \A p \in Steps : LineOf(p)' = LineOf(p)
    BY <1>5 DEF SameSteps, Ends
  <2>4. LineOf(track)' = LineOf(at)
    BY <2>1, <2>3 DEF LineOf, StepAt
  <2>5. ToVisit' = ToVisit
    <3>1. PICK c \in Steps : c = cursor
      BY <1>2
    <3>2. LineOf(cursor)' = LineOf(c)
      BY <1>7, <2>3, <3>1 DEF LineOf, StepAt
    <3> QED BY <1>2, <1>7, <2>3, <3>1, <3>2 DEF ToVisit
  <2>6. Loops' = Row(ToVisit, Ends) + (Ends - LineOf(at))
    BY <1>7, <2>3, <2>4, <2>5 DEF Loops
  <2>7. Loops = Row(ToVisit, Ends) + (Ends - LineOf(track))
    BY <1>1 DEF Loops
  <2>8. Work' = 3 + Loops'
    BY <1>7 DEF Work, Labelling
  <2>9. Row(ToVisit, Ends) \in Nat /\ LineOf(track) \in Nat /\ LineOf(at) \in Nat
    BY <1>2, <1>3, Rows
  <2> HIDE DEF ToVisit, Loops, Ends
  <2> QED BY <1>3, <1>4, <2>2, <2>6, <2>7, <2>8, <2>9
<1> QED BY <1>5, <1>6, <1>7

LEMMA ParsingWorks ==
  ASSUME WorkFits, WorkFits', Parse \/ EndParse
  PROVE  Work' < Work
<1>1. phase = "parsing" /\ lines' = lines /\ Ends' = Ends
  BY DEF Parse, EndParse, recording, Ends
<1>2. /\ Ends \in Nat /\ next \in 1..Ends
      /\ ToVisit' \in Nat /\ ToVisit' < Ends'
  BY DEF WorkFits
<1>3. Work = 3 + Row(Ends, Ends) + Ends + (Ends - next) /\ Row(Ends, Ends) \in Nat
  BY <1>1, <1>2, Rows DEF Work, Labelling
<1>4. CASE Parse
  <2>1. next' = next + 1 /\ phase' = "parsing"
    BY <1>1, <1>4 DEF Parse
  <2>2. Work' = 3 + Row(Ends, Ends) + Ends + (Ends - (next + 1))
    BY <1>1, <2>1 DEF Work, Labelling
  <2> HIDE DEF Ends
  <2> QED BY <1>2, <1>3, <2>2
<1>5. CASE EndParse
  <2>1. phase' = "labelling"
    BY <1>5 DEF EndParse
  <2>2. Loops' = Row(ToVisit', Ends) + Ends /\ Work' = 3 + Loops'
    BY <1>1, <2>1 DEF Loops, Work, Labelling
  <2>3. ToVisit' \in Nat /\ ToVisit' < Ends
    BY <1>1, <1>2
  <2>4. Row(ToVisit', Ends) \in Nat /\ Row(ToVisit', Ends) + Ends + 2 <= Row(Ends, Ends)
    BY <1>2, <2>3, Rows
  <2> HIDE DEF Ends, Loops, ToVisit
  <2> QED BY <1>2, <1>3, <2>2, <2>4
<1> QED BY <1>4, <1>5

LEMMA EndingWorks ==
  ASSUME WorkFits, Sweep \/ Cleanup \/ Export
  PROVE  Work' < Work
<1>1. CASE Sweep
  <2>1. Work = 3 + Loops /\ Loops \in Nat
    BY <1>1 DEF Sweep, Work, Labelling, WorkFits
  <2>2. Work' = 2
    BY <1>1 DEF Sweep, Work, Labelling
  <2> HIDE DEF Loops
  <2> QED BY <2>1, <2>2
<1>2. CASE Cleanup
  <2>1. phase = "done" /\ phase' \in {"failed", "cleaned"}
    BY <1>2 DEF Cleanup
  <2>2. Work = 2 /\ Work' \in {0, 1}
    BY <2>1 DEF Work, Labelling
  <2> QED BY <2>2
<1>3. CASE Export
  <2>1. phase \in {"done", "cleaned"} /\ phase' \in {"failed", "exported"}
    BY <1>3 DEF Export
  <2>2. Work \in {1, 2} /\ Work' = 0
    BY <2>1 DEF Work, Labelling
  <2> QED BY <2>2
<1> QED BY <1>1, <1>2, <1>3

(* The safety part of RefineEnds, for every recording: each step of the     *)
(* parser, of label() and its loops, of _track_ptr, of the cleanup and the  *)
(* export lowers a natural number that is at most quadratic in the lines.   *)
(* No chain of pointers is followed in a circle, whatever addresses return. *)
THEOREM RefiningRunsOut == Spec => [](Work \in Nat) /\ [][Refine => Work' < Work]_vars
<1>1. LabelInv => WorkFits
  BY WorkTyped
<1>2. RecordingInv /\ LabelInv /\ WorkFits /\ WorkFits' /\ [Next]_vars => [Refine => Work' < Work]_vars
  <2> SUFFICES ASSUME RecordingInv, LabelInv, WorkFits, WorkFits', Refine PROVE Work' < Work
    OBVIOUS
  <2> QED BY ParsingWorks, LabelWorks, TrackWorks, EndingWorks DEF Refine
<1>3. WorkFits => Work \in Nat
  BY WorkNatural
<1> QED BY <1>1, <1>2, <1>3, LabelInvariant, PTL DEF Spec

=============================================================================
