--------------------------- MODULE RecorderProofs ---------------------------
(***************************************************************************)
(* Theorems about Recorder, for every value of its constants: the memory   *)
(* the manager writes to is the memory it allocated, what is on disk of an *)
(* export is a prefix of what the manager holds, no library is listed      *)
(* twice, and the recorder implements HeapLog.                             *)
(***************************************************************************)
EXTENDS Recorder, SequenceTheorems, TLAPS

(* An array has its slots, with room for one more after the growth check; a *)
(* NULL one never grows again, because nothing can be stored in it.         *)
Fits(op) ==
  /\ op.size <= op.max_size
  /\ op.slots = 0 => op.size < op.max_size
  /\ \/ op.slots = op.max_size /\ Len(op.recs) = op.size
     \/ op.slots = 0 /\ op.recs = <<>>

(* The exec references of an operation when there are n exec records.       *)
RefersTo(op, n) ==
  \A k \in 1..Len(op.recs) :
    /\ op.recs[k].exec \in 0..n
    /\ op.recs[k].kind = "NEWEXEC" => op.recs[k].exec # 0

(* An export under way has operations 0..op_ctr ahead of it and those before *)
(* the last one in the file behind it.                                      *)
WhileSaving ==
  mgr = "saving" =>
    InTable /\ ~file.end /\ \A i \in 1..Len(file.ops) : i # Len(file.ops) => Complete(i)

(* The inductive invariant. A handler stores into operations[op_ctr]: that  *)
(* it exists is TableFollows, that it has room is Fits, and that an export  *)
(* stays a prefix needs both, with the exec references for the library      *)
(* lists.                                                                   *)
IInv ==
  /\ TypeOK
  /\ \A i \in 1..Len(ops) : Fits(ops[i])
  /\ TableFollows /\ ExecRefs /\ FilePrefix /\ WhileSaving

-----------------------------------------------------------------------------
(* Facts about sequences.                                                   *)

(* A sequence is a prefix of itself (an export copies what is in memory).   *)
LEMMA PrefixOfItself ==
  ASSUME NEW S, NEW s \in Seq(S)
  PROVE  IsPrefix(s, s)
BY DEF IsPrefix

LEMMA PrefixEmpty ==
  ASSUME NEW S, NEW t \in Seq(S)
  PROVE  IsPrefix(<<>>, t)
BY DEF IsPrefix

(* Appending keeps what was there (records and library lists only grow).    *)
LEMMA PrefixOfAppend ==
  ASSUME NEW S, NEW s \in Seq(S), NEW e \in S
  PROVE  IsPrefix(s, Append(s, e))
BY DEF IsPrefix

(* A prefix, element by element.                                            *)
LEMMA PrefixElements ==
  ASSUME NEW S, NEW s \in Seq(S), NEW t \in Seq(S)
  PROVE  IsPrefix(s, t) <=>
           Len(s) <= Len(t) /\ \A k \in 1..Len(s) : s[k] = t[k]
BY DEF IsPrefix

(* What an older export shows stays a prefix while memory grows.            *)
LEMMA PrefixTransitive ==
  ASSUME NEW S, NEW s \in Seq(S), NEW t \in Seq(S), NEW u \in Seq(S),
         IsPrefix(s, t), IsPrefix(t, u)
  PROVE  IsPrefix(s, u)
BY PrefixElements

(* Replacing one element by another of the same type keeps the type and the *)
(* length of a sequence.                                                    *)
LEMMA ReplaceElement ==
  ASSUME NEW S, NEW s \in Seq(S), NEW i \in 1..Len(s), NEW e \in S
  PROVE  /\ [s EXCEPT ![i] = e] \in Seq(S)
         /\ Len([s EXCEPT ![i] = e]) = Len(s)
         /\ [s EXCEPT ![i] = e][i] = e
         /\ \A j \in 1..Len(s) : j # i => [s EXCEPT ![i] = e][j] = s[j]
OBVIOUS

-----------------------------------------------------------------------------
(* The current operation.                                                   *)

(* What an operation_record is made of.                                     *)
LEMMA OpRecordType ==
  ASSUME NEW recs \in Seq(Records), NEW size \in Nat, NEW max_size \in Nat, NEW slots \in Nat
  PROVE  [recs |-> recs, size |-> size, max_size |-> max_size, slots |-> slots] \in OpRecords
BY DEF OpRecords

LEMMA OpRecordFields ==
  ASSUME NEW op \in OpRecords
  PROVE  /\ op.recs \in Seq(Records) /\ op.size \in Nat /\ op.max_size \in Nat
         /\ op.slots \in Nat
         /\ op = [recs |-> op.recs, size |-> op.size, max_size |-> op.max_size, slots |-> op.slots]
BY DEF OpRecords

(* A growth that is not needed, that works, or that fails.                  *)
LEMMA GrownRoom ==
  ASSUME ops[op_ctr + 1] \in OpRecords, Fits(ops[op_ctr + 1]), NEW g \in Grown
  PROVE  /\ g \in OpRecords /\ Fits(g)
         /\ g.size < g.max_size
         /\ \/ g.slots # 0 /\ ops[op_ctr + 1].slots # 0 /\ g.recs = ops[op_ctr + 1].recs
            \/ g.slots = 0 /\ g.recs = <<>>
<1> DEFINE op == ops[op_ctr + 1]
           bigger == [op EXCEPT !.max_size = @ + StepSize, !.slots = op.max_size + StepSize]
           none == [op EXCEPT !.max_size = @ + StepSize, !.slots = 0, !.recs = <<>>]
<1>1. /\ op.recs \in Seq(Records) /\ op.size \in Nat /\ op.max_size \in Nat /\ op.slots \in Nat
      /\ op = [recs |-> op.recs, size |-> op.size, max_size |-> op.max_size, slots |-> op.slots]
      /\ StepSize \in Nat \ {0} /\ op.max_size + StepSize \in Nat
  BY SizesAssumption, OpRecordFields
<1>2. CASE op.size < op.max_size /\ g = op
  BY <1>2 DEF Fits
<1>3. CASE ~(op.size < op.max_size) /\ g = bigger
  <2>0. g = [recs |-> op.recs, size |-> op.size, max_size |-> op.max_size + StepSize,
             slots |-> op.max_size + StepSize]
    BY <1>1, <1>3
  <2>1. g \in OpRecords /\ g.slots = g.max_size /\ g.max_size = op.max_size + StepSize
        /\ g.recs = op.recs /\ g.size = op.size
    BY <1>1, <2>0, OpRecordType
  <2>2. op.size = op.max_size /\ op.slots # 0 /\ Len(op.recs) = op.size
    BY <1>1, <1>3 DEF Fits
  <2> HIDE DEF op, bigger
  <2> QED BY <1>1, <2>1, <2>2 DEF Fits, op
<1>4. CASE ~(op.size < op.max_size) /\ g = none
  <2>1. <<>> \in Seq(Records)
    OBVIOUS
  <2>0. g = [recs |-> <<>>, size |-> op.size, max_size |-> op.max_size + StepSize, slots |-> 0]
    BY <1>1, <1>4
  <2>2. g \in OpRecords /\ g.slots = 0 /\ g.max_size = op.max_size + StepSize
        /\ g.recs = <<>> /\ g.size = op.size
    BY <1>1, <2>0, <2>1, OpRecordType
  <2>3. op.size = op.max_size
    BY <1>1, <1>4 DEF Fits
  <2> HIDE DEF op, none
  <2> QED BY <1>1, <2>2, <2>3 DEF Fits
<1>5. \/ op.size < op.max_size /\ g = op
      \/ ~(op.size < op.max_size) /\ (g = bigger \/ g = none)
  BY DEF Grown
<1> QED BY <1>2, <1>3, <1>4, <1>5

(* Storing a record into an operation with a free slot.                     *)
LEMMA AddedFits ==
  ASSUME NEW op \in OpRecords, NEW r \in Records, Fits(op), op.size < op.max_size,
         op.slots # 0
  PROVE  /\ Added(op, r) \in OpRecords
         /\ Added(op, r).recs = Append(op.recs, r)
         /\ Added(op, r).slots # 0
         /\ Fits(Added(op, r))
<1>1. /\ op.recs \in Seq(Records) /\ op.size \in Nat /\ op.max_size \in Nat /\ op.slots \in Nat
      /\ op = [recs |-> op.recs, size |-> op.size, max_size |-> op.max_size, slots |-> op.slots]
      /\ Append(op.recs, r) \in Seq(Records)
  BY OpRecordFields
<1>0. Added(op, r) = [recs |-> Append(op.recs, r), size |-> op.size + 1,
                      max_size |-> op.max_size, slots |-> op.slots]
  <2> DEFINE recs == Append(op.recs, r)
             size == op.size + 1
  <2>1. Added(op, r) = [op EXCEPT !.recs = recs, !.size = size]
    BY DEF Added
  <2> HIDE DEF recs, size
  <2>2. Added(op, r) = [recs |-> recs, size |-> size, max_size |-> op.max_size, slots |-> op.slots]
    BY <1>1, <2>1
  <2> QED BY <2>2 DEF recs, size
<1>2. /\ Added(op, r) \in OpRecords
      /\ Added(op, r).recs = Append(op.recs, r) /\ Added(op, r).size = op.size + 1
      /\ Added(op, r).slots = op.slots /\ Added(op, r).max_size = op.max_size
  <2>1. op.size + 1 \in Nat
    BY <1>1
  <2>2. Added(op, r) \in OpRecords
    BY <1>0, <1>1, <2>1, OpRecordType
  <2> QED BY <1>0, <2>2
<1>3. op.slots = op.max_size /\ Len(op.recs) = op.size
  BY DEF Fits
<1>4. Len(Append(op.recs, r)) = Len(op.recs) + 1
  BY <1>1
<1> QED BY <1>1, <1>2, <1>3, <1>4 DEF Fits

(* An operation fresh from mgr_init or mgr_next is empty.                   *)
LEMMA NewOperationType ==
  ASSUME NEW new \in NewOperations
  PROVE  new \in OpRecords /\ new.recs = <<>> /\ Len(new.recs) = 0 /\ Fits(new)
<1>1. <<>> \in Seq(Records) /\ StepSize \in Nat \ {0}
  BY SizesAssumption
<1>2. \E n \in {0, StepSize} :
        new = [recs |-> <<>>, size |-> 0, max_size |-> StepSize, slots |-> n]
  BY DEF NewOperations, NewOperation
<1>3. PICK n \in {0, StepSize} :
        new = [recs |-> <<>>, size |-> 0, max_size |-> StepSize, slots |-> n]
  BY <1>2
<1>4. new \in OpRecords
  <2>1. n \in Nat /\ 0 \in Nat
    BY <1>1
  <2> QED BY <1>1, <1>3, <2>1, OpRecordType
<1>5. new.recs = <<>> /\ new.size = 0 /\ new.max_size = StepSize /\ new.slots = n
  BY <1>3
<1>6. Len(new.recs) = 0
  BY <1>5
<1> QED BY <1>1, <1>3, <1>4, <1>5, <1>6 DEF Fits

(* While op_ctr is inside the table, operations[op_ctr] is the last one     *)
(* allocated.                                                               *)
LEMMA CurrentExists ==
  ASSUME IInv, InTable
  PROVE  /\ op_ctr + 1 \in 1..Len(ops)
         /\ op_ctr + 1 = Len(ops)
         /\ ops \in Seq(OpRecords)
         /\ ops[op_ctr + 1] \in OpRecords
         /\ Fits(ops[op_ctr + 1])
BY SizesAssumption DEF IInv, TypeOK, TableType, TableFollows, InTable

(* What a handler may do to an operation: extend it, or lose all of it.     *)
OpStep(old, new) ==
  new.slots = 0 \/ (old.slots # 0 /\ IsPrefix(old.recs, new.recs))

(* The table after a handler.                                               *)
TableStep ==
  /\ ops' \in Seq(OpRecords)
  /\ Len(ops) <= Len(ops')
  /\ \A i \in 1..Len(ops) : OpStep(ops[i], ops'[i])
  /\ \A i \in 1..Len(ops') : Fits(ops'[i]) /\ RefersTo(ops'[i], Len(execs'))

(* An operation that nobody touches takes such a step too.                  *)
LEMMA OpKept ==
  ASSUME NEW op \in OpRecords
  PROVE  OpStep(op, op)
<1>1. op.recs \in Seq(Records)
  BY DEF OpRecords
<1> QED BY <1>1, PrefixOfItself DEF OpStep

(* Exec references stay valid while exec records are added.                 *)
LEMMA RefersOn ==
  ASSUME IInv, NEW i \in 1..Len(ops), NEW n \in Nat, Len(execs) <= n
  PROVE  RefersTo(ops[i], n)
<1>1. execs \in Seq(ExecRecords)
  BY DEF IInv, TypeOK, TableType
<1> QED BY <1>1 DEF IInv, ExecRefs, RefersTo

(* A handler that replaces the current operation.                           *)
LEMMA ReplaceCurrent ==
  ASSUME IInv, InTable, NEW op \in OpRecords, Fits(op),
         OpStep(ops[op_ctr + 1], op), RefersTo(op, Len(execs')),
         execs' \in Seq(ExecRecords), Len(execs) <= Len(execs'),
         ops' = WithCurrent(op)
  PROVE  /\ TableStep /\ Len(ops') = Len(ops) /\ ops'[op_ctr + 1] = op
         /\ \A j \in 1..Len(ops) : j # op_ctr + 1 => ops'[j] = ops[j]
<1> DEFINE c == op_ctr + 1
<1>1. c \in 1..Len(ops) /\ ops \in Seq(OpRecords)
  BY CurrentExists
<1>2. /\ ops' \in Seq(OpRecords) /\ Len(ops') = Len(ops) /\ ops'[c] = op
      /\ \A j \in 1..Len(ops) : j # c => ops'[j] = ops[j]
  BY <1>1, ReplaceElement DEF WithCurrent
<1>3. ASSUME NEW i \in 1..Len(ops)
      PROVE  OpStep(ops[i], ops'[i]) /\ Fits(ops'[i]) /\ RefersTo(ops'[i], Len(execs'))
  <2>1. CASE i = c
    BY <2>1, <1>2
  <2>2. CASE i # c
    <3>1. ops'[i] = ops[i] /\ ops[i] \in OpRecords
      BY <2>2, <1>1, <1>2
    <3>2. Len(execs') \in Nat
      OBVIOUS
    <3>3. RefersTo(ops[i], Len(execs')) /\ Fits(ops[i])
      BY <3>2, RefersOn DEF IInv
    <3> QED BY <3>1, <3>3, OpKept
  <2> QED BY <2>1, <2>2
<1>4. Len(ops) <= Len(ops')
  BY <1>1, <1>2
<1> QED BY <1>2, <1>3, <1>4 DEF TableStep

(* A handler that stores nothing, and one that stores r.                    *)
StoresNone == \E g \in Grown : ops' = WithCurrent(g)
StoresOne(r) == \E g \in Grown : g.slots # 0 /\ ops' = WithCurrent(Added(g, r))

LEMMA HandlerTable ==
  ASSUME IInv, InTable, execs' \in Seq(ExecRecords), Len(execs) <= Len(execs'),
         \/ StoresNone
         \/ \E r \in Records : /\ r.exec \in 0..Len(execs')
                               /\ r.kind = "NEWEXEC" => r.exec # 0
                               /\ StoresOne(r)
  PROVE  TableStep /\ Len(ops') = Len(ops)
<1> DEFINE old == ops[op_ctr + 1]
<1>1. old \in OpRecords /\ Fits(old) /\ op_ctr + 1 \in 1..Len(ops)
  BY CurrentExists
<1>2. old.recs \in Seq(Records)
  BY <1>1 DEF OpRecords
<1>3. RefersTo(old, Len(execs'))
  <2>1. Len(execs') \in Nat
    OBVIOUS
  <2> QED BY <1>1, <2>1, RefersOn
<1>4. ASSUME NEW g \in Grown
      PROVE  /\ g \in OpRecords /\ Fits(g) /\ g.size < g.max_size
             /\ OpStep(old, g) /\ RefersTo(g, Len(execs'))
             /\ g.slots # 0 => old.slots # 0 /\ g.recs = old.recs
  <2>1. /\ g \in OpRecords /\ Fits(g) /\ g.size < g.max_size
        /\ \/ g.slots # 0 /\ old.slots # 0 /\ g.recs = old.recs
           \/ g.slots = 0 /\ g.recs = <<>>
    BY <1>1, GrownRoom
  <2>2. IsPrefix(old.recs, old.recs)
    BY <1>2, PrefixOfItself
  <2>3. OpStep(old, g)
    BY <2>1, <2>2 DEF OpStep
  <2>4. RefersTo(g, Len(execs'))
    BY <1>3, <2>1 DEF RefersTo
  <2> QED BY <2>1, <2>3, <2>4
<1>5. CASE StoresNone
  <2>1. PICK g \in Grown : ops' = WithCurrent(g)
    BY <1>5 DEF StoresNone
  <2> QED BY <1>4, <2>1, ReplaceCurrent
<1>6. ASSUME NEW r \in Records, r.exec \in 0..Len(execs'),
             r.kind = "NEWEXEC" => r.exec # 0, StoresOne(r)
      PROVE  TableStep /\ Len(ops') = Len(ops)
  <2>1. PICK g \in Grown : g.slots # 0 /\ ops' = WithCurrent(Added(g, r))
    BY <1>6 DEF StoresOne
  <2> DEFINE new == Added(g, r)
  <2>2. /\ g \in OpRecords /\ Fits(g) /\ g.size < g.max_size /\ old.slots # 0
        /\ g.recs = old.recs
    BY <1>4, <2>1
  <2>3. new \in OpRecords /\ new.recs = Append(old.recs, r) /\ Fits(new)
    BY <2>1, <2>2, AddedFits
  <2> HIDE DEF new
  <2>4. OpStep(old, new)
    BY <1>2, <2>2, <2>3, PrefixOfAppend DEF OpStep
  <2>5. RefersTo(new, Len(execs'))
    <3> HIDE DEF old
    <3> QED BY <1>2, <1>3, <1>6, <2>3 DEF RefersTo
  <2> QED BY <2>1, <2>3, <2>4, <2>5, ReplaceCurrent DEF new
<1> QED BY <1>5, <1>6

-----------------------------------------------------------------------------
(* The file.                                                                *)

(* Exec records are kept, and their library lists only grow.                *)
ExecStep ==
  /\ execs' \in Seq(ExecRecords)
  /\ Len(execs) <= Len(execs')
  /\ \A i \in 1..Len(execs) : IsPrefix(execs[i].libs, execs'[i].libs)

(* The library list of an exec record.                                      *)
LEMMA LibsType ==
  ASSUME NEW s \in Seq(ExecRecords), NEW i \in 1..Len(s)
  PROVE  s[i].libs \in Seq(LibEntries)
<1>1. s[i] \in ExecRecords
  OBVIOUS
<1> QED BY <1>1 DEF ExecRecords

(* The library list below record r when es are the exec records.            *)
LibsBelow(r, es) == IF r.kind = "NEWEXEC" THEN es[r.exec].libs ELSE <<>>

SameEvent(line, r) ==
  line.kind = r.kind /\ line.pid = r.pid /\ line.from = r.from /\ line.arg = r.arg

(* A line shows a record if it is the same event with fewer libraries.      *)
LEMMA ShownMeans ==
  ASSUME NEW line \in Lines, NEW r \in Records
  PROVE  ShownBy(line, r) <=> SameEvent(line, r) /\ IsPrefix(line.libs, LibsBelow(r, execs))
<1> DEFINE libs == LibsBelow(r, execs)
<1>1. LineOf(r) = [kind |-> r.kind, pid |-> r.pid, from |-> r.from, arg |-> r.arg, libs |-> libs]
  BY DEF LineOf, LibsBelow
<1> HIDE DEF libs
<1>2. line = [kind |-> line.kind, pid |-> line.pid, from |-> line.from, arg |-> line.arg,
              libs |-> line.libs]
  BY DEF Lines
<1>3. [line EXCEPT !.libs = libs] =
        [kind |-> line.kind, pid |-> line.pid, from |-> line.from, arg |-> line.arg,
         libs |-> libs]
  BY <1>2
<1>4. LineOf(r).libs = libs
  BY <1>1
<1>5. [line EXCEPT !.libs = libs] = LineOf(r) <=> SameEvent(line, r)
  <2>1. ASSUME SameEvent(line, r) PROVE [line EXCEPT !.libs = libs] = LineOf(r)
    BY <1>1, <1>3, <2>1 DEF SameEvent
  <2>2. ASSUME [line EXCEPT !.libs = libs] = LineOf(r) PROVE SameEvent(line, r)
    <3>1. [kind |-> line.kind, pid |-> line.pid, from |-> line.from, arg |-> line.arg,
           libs |-> libs] =
          [kind |-> r.kind, pid |-> r.pid, from |-> r.from, arg |-> r.arg, libs |-> libs]
      BY <1>1, <1>3, <2>2
    <3> QED BY <3>1 DEF SameEvent
  <2> QED BY <2>1, <2>2
<1> QED BY <1>4, <1>5 DEF ShownBy, libs

(* Prefixed: what the file has of operation op.                             *)
Prefixed(lines, op, es) ==
  \/ op.slots = 0
  \/ /\ Len(lines) <= Len(op.recs)
     /\ \A k \in 1..Len(lines) : /\ SameEvent(lines[k], op.recs[k])
                                 /\ IsPrefix(lines[k].libs, LibsBelow(op.recs[k], es))

FileShows ==
  /\ Len(file.ops) <= Len(ops)
  /\ \A i \in 1..Len(file.ops) : Prefixed(file.ops[i], ops[i], execs)
  /\ IsPrefix(file.settings, exportsettings)

FileTyped == file.ops \in Seq(Seq(Lines)) /\ ops \in Seq(OpRecords)

LEMMA FilePrefixMeans == FileTyped => (FilePrefix <=> FileShows)
<1> SUFFICES ASSUME FileTyped PROVE FilePrefix <=> FileShows
  OBVIOUS
<1> USE DEF FileTyped
<1>1. ASSUME NEW i \in 1..Len(file.ops), Len(file.ops) <= Len(ops)
      PROVE  Prefixed(file.ops[i], ops[i], execs) <=>
               \/ ops[i].slots = 0
               \/ /\ Len(file.ops[i]) <= Len(ops[i].recs)
                  /\ \A k \in 1..Len(file.ops[i]) : ShownBy(file.ops[i][k], ops[i].recs[k])
  <2>1. file.ops[i] \in Seq(Lines) /\ ops[i] \in OpRecords
    BY <1>1
  <2>2. ops[i].recs \in Seq(Records)
    BY <2>1 DEF OpRecords
  <2>3. ASSUME Len(file.ops[i]) <= Len(ops[i].recs), NEW k \in 1..Len(file.ops[i])
        PROVE  file.ops[i][k] \in Lines /\ ops[i].recs[k] \in Records
    BY <2>1, <2>2, <2>3
  <2> QED BY <2>3, ShownMeans DEF Prefixed
<1> QED BY <1>1 DEF FilePrefix, FileShows

(* While memory only grows, or is lost an operation at a time, an untouched *)
(* or emptied file stays a prefix of it.                                    *)
LEMMA FileStaysPrefix ==
  ASSUME IInv, TypeOK', TableStep, ExecStep, file' = file \/ file' = NoFile,
         IsPrefix(exportsettings, exportsettings')
  PROVE  FilePrefix'
<1>0. /\ file.ops \in Seq(Seq(Lines)) /\ file.settings \in Seq(SetKeys)
      /\ file'.ops \in Seq(Seq(Lines)) /\ file'.settings \in Seq(SetKeys)
      /\ exportsettings \in Seq(SetKeys) /\ exportsettings' \in Seq(SetKeys)
      /\ ops \in Seq(OpRecords) /\ execs \in Seq(ExecRecords)
      /\ ops' \in Seq(OpRecords) /\ execs' \in Seq(ExecRecords)
  BY DEF IInv, TypeOK, FileType, TableType, OptionType
<1>1. CASE file' = NoFile
  <2>1. Len(file'.ops) = 0 /\ file'.settings = <<>>
    BY <1>1 DEF NoFile
  <2>2. IsPrefix(<<>>, exportsettings')
    BY <1>0, PrefixEmpty
  <2> QED BY <1>0, <2>1, <2>2 DEF FilePrefix
<1>2. CASE file' = file
  <2>1. /\ Len(file.ops) <= Len(ops)
        /\ \A i \in 1..Len(file.ops) : Prefixed(file.ops[i], ops[i], execs)
        /\ IsPrefix(file.settings, exportsettings)
    BY <1>0, FilePrefixMeans DEF IInv, FileShows, FileTyped
  <2>2. ASSUME NEW i \in 1..Len(file.ops)
        PROVE  Prefixed(file.ops[i], ops'[i], execs')
    <3>1. i \in 1..Len(ops) /\ i \in 1..Len(ops')
      BY <1>0, <2>1 DEF TableStep
    <3>2. OpStep(ops[i], ops'[i]) /\ Prefixed(file.ops[i], ops[i], execs)
      BY <2>1, <3>1 DEF TableStep
    <3>3. ops[i] \in OpRecords /\ ops'[i] \in OpRecords /\ file.ops[i] \in Seq(Lines)
      BY <1>0, <3>1
    <3>4. ops[i].recs \in Seq(Records) /\ ops'[i].recs \in Seq(Records)
      BY <3>3 DEF OpRecords
    <3>5. CASE ops'[i].slots = 0
      BY <3>5 DEF Prefixed
    <3>6. CASE ops'[i].slots # 0
      <4>1. IsPrefix(ops[i].recs, ops'[i].recs) /\ ops[i].slots # 0
        BY <3>2, <3>6 DEF OpStep
      <4>2. /\ Len(ops[i].recs) <= Len(ops'[i].recs)
            /\ \A k \in 1..Len(ops[i].recs) : ops'[i].recs[k] = ops[i].recs[k]
        BY <3>4, <4>1, PrefixElements
      <4>3. /\ Len(file.ops[i]) <= Len(ops[i].recs)
            /\ \A k \in 1..Len(file.ops[i]) :
                 /\ SameEvent(file.ops[i][k], ops[i].recs[k])
                 /\ IsPrefix(file.ops[i][k].libs, LibsBelow(ops[i].recs[k], execs))
        BY <3>2, <4>1 DEF Prefixed
      <4>4. ASSUME NEW k \in 1..Len(file.ops[i])
            PROVE  /\ SameEvent(file.ops[i][k], ops'[i].recs[k])
                   /\ IsPrefix(file.ops[i][k].libs, LibsBelow(ops'[i].recs[k], execs'))
        <5> DEFINE r == ops[i].recs[k]
                   line == file.ops[i][k]
        <5>1. k \in 1..Len(ops[i].recs) /\ ops'[i].recs[k] = r
          BY <3>3, <3>4, <4>2, <4>3
        <5>2. r \in Records /\ line \in Lines
          BY <3>3, <3>4, <5>1
        <5>3. line.libs \in Seq(LibEntries)
          BY <5>2 DEF Lines
        <5>4. IsPrefix(line.libs, LibsBelow(r, execs))
          BY <4>3
        <5>5. CASE r.kind # "NEWEXEC"
          BY <5>1, <5>4, <5>5, <4>3 DEF LibsBelow
        <5>6. CASE r.kind = "NEWEXEC"
          <6>1. r.exec \in 0..Len(execs) /\ r.exec # 0
            BY <3>1, <5>1, <5>6 DEF IInv, ExecRefs
          <6>2. r.exec \in 1..Len(execs) /\ r.exec \in 1..Len(execs')
            <7>1. Len(execs) \in Nat /\ Len(execs') \in Nat /\ Len(execs) <= Len(execs')
              BY <1>0 DEF ExecStep
            <7> HIDE DEF r
            <7> QED BY <6>1, <7>1
          <6>3. execs[r.exec].libs \in Seq(LibEntries) /\ execs'[r.exec].libs \in Seq(LibEntries)
            BY <1>0, <6>2, LibsType
          <6>4. IsPrefix(execs[r.exec].libs, execs'[r.exec].libs)
            BY <6>2 DEF ExecStep
          <6>5. IsPrefix(line.libs, execs'[r.exec].libs)
            <7> HIDE DEF line, r
            <7> QED BY <5>3, <5>4, <5>6, <6>3, <6>4, PrefixTransitive DEF LibsBelow
          <6> QED BY <4>3, <5>1, <5>6, <6>5 DEF LibsBelow
        <5> QED BY <5>5, <5>6
      <4>5. Len(file.ops[i]) <= Len(ops'[i].recs)
        BY <3>3, <3>4, <4>2, <4>3
      <4> QED BY <4>4, <4>5 DEF Prefixed
    <3> QED BY <3>5, <3>6
  <2>3. Len(file.ops) <= Len(ops')
    BY <1>0, <2>1 DEF TableStep
  <2>4. IsPrefix(file.settings, exportsettings')
    BY <1>0, <2>1, PrefixTransitive
  <2>5. FileTyped'
    BY <1>0 DEF FileTyped
  <2>6. FilePrefix' <=> FileShows'
    BY <2>5, FilePrefixMeans, PTL
  <2> QED BY <1>2, <2>2, <2>3, <2>4, <2>6 DEF FileShows
<1> QED BY <1>1, <1>2

-----------------------------------------------------------------------------
(* Steps.                                                                   *)

(* Exec records that no handler touched.                                    *)
LEMMA ExecsKept ==
  ASSUME IInv, UNCHANGED execs
  PROVE  ExecStep
<1>1. execs \in Seq(ExecRecords)
  BY DEF IInv, TypeOK, TableType
<1>2. ASSUME NEW i \in 1..Len(execs)
      PROVE  IsPrefix(execs[i].libs, execs'[i].libs)
  BY <1>1, LibsType, PrefixOfItself
<1> QED BY <1>1, <1>2 DEF ExecStep

(* A table that no handler touched.                                         *)
LEMMA TableKept ==
  ASSUME IInv, UNCHANGED memoryVars
  PROVE  /\ TableStep /\ ExecStep /\ TableFollows' /\ current_exec' = Len(execs')
         /\ IsPrefix(exportsettings, exportsettings')
<1>1. /\ ops \in Seq(OpRecords) /\ ops' = ops /\ execs' = execs /\ op_ctr' = op_ctr
      /\ current_exec' = current_exec /\ exportsettings' = exportsettings
      /\ execs \in Seq(ExecRecords) /\ exportsettings \in Seq(SetKeys)
  BY DEF IInv, TypeOK, TableType, OptionType, memoryVars, execVars, optionVars
<1>2. ASSUME NEW i \in 1..Len(ops)
      PROVE  OpStep(ops[i], ops'[i]) /\ Fits(ops'[i]) /\ RefersTo(ops'[i], Len(execs'))
  <2>1. ops[i] \in OpRecords
    BY <1>1
  <2>2. RefersTo(ops[i], Len(execs))
    BY <1>1, RefersOn
  <2> QED BY <1>1, <2>1, <2>2, OpKept DEF IInv
<1>3. TableStep
  BY <1>1, <1>2 DEF TableStep
<1> QED BY <1>1, <1>3, ExecsKept, PrefixOfItself DEF IInv, TableFollows, ExecRefs

(* What has to be shown of a step for the invariant to survive it.          *)
LEMMA InvariantStep ==
  ASSUME IInv, TypeOK', TableStep, ExecStep, TableFollows', WhileSaving',
         current_exec' = Len(execs'), file' = file \/ file' = NoFile,
         IsPrefix(exportsettings, exportsettings')
  PROVE  IInv'
<1>1. FilePrefix'
  BY FileStaysPrefix
<1>2. (\A i \in 1..Len(ops) : Fits(ops[i]))'
  BY DEF TableStep
<1>3. ExecRefs'
  BY DEF TableStep, RefersTo, ExecRefs
<1> QED BY <1>1, <1>2, <1>3 DEF IInv

(* An emptied file has the type of a file.                                  *)
LEMMA NoFileType ==
  NoFile \in [ops : Seq(Seq(Lines)), settings : Seq(SetKeys), program : BOOLEAN, end : BOOLEAN]
<1>1. <<>> \in Seq(Seq(Lines)) /\ <<>> \in Seq(SetKeys)
  OBVIOUS
<1> QED BY <1>1 DEF NoFile

(* A step that leaves the memory and the file alone: of the processes and   *)
(* the console, or one that ends the manager.                               *)
LEMMA OutsideStep ==
  ASSUME IInv, QueueType', SenderType', UNCHANGED <<memoryVars, file>>,
         mgr' \in {mgr, "killed", "crashed"}
  PROVE  IInv'
<1>1. TypeOK'
  BY DEF IInv, TypeOK, TableType, OptionType, FileType, memoryVars, execVars, optionVars
<1>2. WhileSaving'
  BY DEF IInv, WhileSaving, InTable, Complete, Readable, memoryVars
<1> QED BY <1>1, <1>2, TableKept, InvariantStep

(* The message a handler works on.                                          *)
LEMMA ReceiveStep ==
  ASSUME IInv, NEW K, Receive(K)
  PROVE  /\ Head(queue) \in Messages /\ Head(queue).kind \in K
         /\ queue' \in Seq(Messages) /\ sent' \in Seq(Messages) /\ SenderType'
         /\ Handled \in Int /\ mgr = "running"
BY DEF Receive, IInv, TypeOK, QueueType, SenderType, senderVars, Handled

(* The record made of it.                                                   *)
LEMMA RecordType ==
  ASSUME NEW m \in Messages, m.kind \in RecordKinds, NEW pid \in Pids, NEW exec \in Nat
  PROVE  /\ RecordOf(m, pid, exec) \in Records
         /\ RecordOf(m, pid, exec).exec = exec /\ RecordOf(m, pid, exec).kind = m.kind
BY DEF RecordOf, Records, Messages

(* The messages forgotten with an array are numbers of messages.            *)
LEMMA ForgottenType ==
  ASSUME Handled \in Int, NEW g
  PROVE  Forgotten(g) \subseteq Int
BY DEF Forgotten, Recorded

(* What handlers do to the current operation.                               *)
LEMMA StoresDo ==
  ASSUME Handled \in Int, lost \subseteq Int
  PROVE  /\ NothingStored => StoresNone /\ lost' \subseteq Int
         /\ Dropped => StoresNone /\ lost' \subseteq Int
         /\ \A r : Stored(r) => StoresOne(r) /\ lost' \subseteq Int
<1>1. \A g : Forgotten(g) \subseteq Int
  BY ForgottenType
<1>2. Handled + 1 \in Int
  OBVIOUS
<1> QED BY <1>1, <1>2 DEF NothingStored, Dropped, Stored, Keep, StoresNone, StoresOne

(* A handler that leaves op_ctr and the exec records alone: an event is     *)
(* stored, or only the growth check runs.                                   *)
LEMMA HandlerStep ==
  ASSUME IInv, NEW K, Receive(K), InTable,
         \/ StoresNone
         \/ \E r \in Records : r.exec = 0 /\ r.kind # "NEWEXEC" /\ StoresOne(r),
         mgr' \in {"running", "saving", "exited", "crashed", "killed"},
         UNCHANGED <<op_ctr, execVars>>, OptionType',
         IsPrefix(exportsettings, exportsettings'),
         (file' = file /\ mgr' # "saving") \/ file' = NoFile
  PROVE  IInv'
<1>1. ExecStep /\ execs' = execs /\ execs \in Seq(ExecRecords) /\ current_exec' = current_exec
  BY ExecsKept DEF IInv, TypeOK, TableType, execVars
<1>2. TableStep /\ Len(ops') = Len(ops)
  <2>1. Len(execs) \in Nat /\ Len(execs) <= Len(execs')
    BY <1>1
  <2>2. 0 \in 0..Len(execs')
    BY <1>1, <2>1
  <2>3. \/ StoresNone
        \/ \E r \in Records : /\ r.exec \in 0..Len(execs')
                              /\ r.kind = "NEWEXEC" => r.exec # 0
                              /\ StoresOne(r)
    BY <2>2
  <2> QED BY <1>1, <2>1, <2>3, HandlerTable
<1>3. FileType'
  BY NoFileType DEF IInv, TypeOK, FileType
<1>4. TypeOK'
  <2>1. QueueType' /\ SenderType'
    BY ReceiveStep DEF QueueType
  <2>2. TableType'
    BY <1>1, <1>2 DEF IInv, TypeOK, TableType, TableStep
  <2> QED BY <1>3, <2>1, <2>2 DEF TypeOK
<1>5. TableFollows' /\ current_exec' = Len(execs')
  BY <1>1, <1>2 DEF IInv, TableFollows, ExecRefs
<1>6. WhileSaving'
  BY DEF WhileSaving, NoFile, InTable
<1> QED BY <1>1, <1>2, <1>4, <1>5, <1>6, InvariantStep

-----------------------------------------------------------------------------
(* The handlers.                                                            *)

(* A handler that keeps an event, or finds it worth no record.              *)
LEMMA EventStep ==
  ASSUME IInv, NEW K, Receive(K), InTable, K \subseteq RecordKinds \ {"NEWEXEC"},
         NEW pid \in Pids, NothingStored \/ Stored(RecordOf(Head(queue), pid, 0)),
         UNCHANGED <<mgr, op_ctr, execVars, optionVars, file>>
  PROVE  IInv'
<1> DEFINE r == RecordOf(Head(queue), pid, 0)
<1>1. /\ Head(queue) \in Messages /\ Head(queue).kind \in RecordKinds
      /\ Head(queue).kind # "NEWEXEC" /\ Handled \in Int /\ mgr = "running"
  BY ReceiveStep
<1>2. r \in Records /\ r.exec = 0 /\ r.kind # "NEWEXEC"
  <2>1. 0 \in Nat
    OBVIOUS
  <2> QED BY <1>1, <2>1, RecordType
<1> HIDE DEF r
<1>3. lost \subseteq Int /\ OptionType
  BY DEF IInv, TypeOK, OptionType
<1>4. (StoresNone \/ StoresOne(r)) /\ lost' \subseteq Int
  BY <1>1, <1>3, StoresDo DEF r
<1>5. OptionType' /\ exportsettings' = exportsettings /\ exportsettings \in Seq(SetKeys)
  BY <1>3, <1>4 DEF OptionType, optionVars
<1>6. IsPrefix(exportsettings, exportsettings')
  BY <1>5, PrefixOfItself
<1>7. mgr' \in {"running", "saving", "exited", "crashed", "killed"} /\ mgr' # "saving"
  BY <1>1
<1> QED BY <1>2, <1>4, <1>5, <1>6, <1>7, HandlerStep

(* mgr_malloc and its like: one record, no exec reference.                  *)
LEMMA HeapEventStep == IInv /\ HandleHeapEvent => IInv'
<1> SUFFICES ASSUME IInv, HandleHeapEvent PROVE IInv'
  OBVIOUS
<1> DEFINE pid == IF Head(queue).arg = "digit" THEN Console ELSE Head(queue).pid
<1>1. Receive(HeapKinds) /\ HeapKinds \subseteq RecordKinds \ {"NEWEXEC"}
  BY DEF HandleHeapEvent, RecordKinds, HeapKinds
<1>2. pid \in Pids
  BY <1>1, ReceiveStep DEF Messages, Pids
<1>3. Stored(RecordOf(Head(queue), pid, 0))
  BY DEF HandleHeapEvent
<1> HIDE DEF pid
<1> QED BY <1>1, <1>2, <1>3, EventStep DEF HandleHeapEvent

(* mgr_free, mgr_custom, mgr_add_fork: one record or none.                  *)
LEMMA FreeStep == IInv /\ HandleFree => IInv'
<1> SUFFICES ASSUME IInv, HandleFree PROVE IInv'
  OBVIOUS
<1>1. Receive({"FREE"}) /\ {"FREE"} \subseteq RecordKinds \ {"NEWEXEC"}
  BY DEF HandleFree, RecordKinds
<1>2. Head(queue).pid \in Pids
  BY <1>1, ReceiveStep DEF Messages
<1> QED BY <1>1, <1>2, EventStep DEF HandleFree

LEMMA CustomStep == IInv /\ HandleCustom => IInv'
<1> SUFFICES ASSUME IInv, HandleCustom PROVE IInv'
  OBVIOUS
<1> DEFINE pid == IF Head(queue).arg \in {"long", "many"} THEN Console ELSE Head(queue).pid
<1>1. Receive({"CUSTOM"}) /\ {"CUSTOM"} \subseteq RecordKinds \ {"NEWEXEC"}
  BY DEF HandleCustom, RecordKinds
<1>2. pid \in Pids
  BY <1>1, ReceiveStep DEF Messages, Pids
<1>3. NothingStored \/ Stored(RecordOf(Head(queue), pid, 0))
  BY DEF HandleCustom
<1> HIDE DEF pid
<1> QED BY <1>1, <1>2, <1>3, EventStep DEF HandleCustom

LEMMA ForkStep == IInv /\ HandleFork => IInv'
<1> SUFFICES ASSUME IInv, HandleFork PROVE IInv'
  OBVIOUS
<1>1. Receive({"FORK"}) /\ {"FORK"} \subseteq RecordKinds \ {"NEWEXEC"}
  BY DEF HandleFork, RecordKinds
<1>2. Head(queue).pid \in Pids
  BY <1>1, ReceiveStep DEF Messages
<1> QED BY <1>1, <1>2, EventStep DEF HandleFork

(* A handler that stores nothing and leaves the export alone: it gives up   *)
(* on the message, crashes over it, or knows nothing of it.                 *)
LEMMA NoRecordStep ==
  ASSUME IInv, NEW K, Receive(K), InTable, StoresNone, lost' \subseteq Int,
         mgr' \in {mgr, "crashed", "exited"},
         UNCHANGED <<op_ctr, execVars, optionVars, file>>
  PROVE  IInv'
<1>1. mgr = "running" /\ OptionType
  BY ReceiveStep DEF IInv, TypeOK
<1>2. OptionType' /\ exportsettings' = exportsettings /\ exportsettings \in Seq(SetKeys)
  BY <1>1 DEF OptionType, optionVars
<1>3. IsPrefix(exportsettings, exportsettings')
  BY <1>2, PrefixOfItself
<1> QED BY <1>1, <1>2, <1>3, HandlerStep

LEMMA GivenUpStep ==
  ASSUME IInv,
         \/ HandleWithoutArray \/ HandleMalformed \/ HandleOverrun \/ HandleOutOfMemory
         \/ HandleOther \/ HandleQuit
  PROVE  IInv'
<1>0. lost \subseteq Int
  BY DEF IInv, TypeOK, OptionType
<1>1. CASE HandleWithoutArray
  <2>1. Receive(RecordKinds) /\ InTable /\ mgr' = "crashed"
        /\ UNCHANGED <<op_ctr, execVars, optionVars, file>>
    BY <1>1 DEF HandleWithoutArray
  <2>2. NothingStored
    BY <1>1 DEF HandleWithoutArray, NothingStored
  <2>3. StoresNone /\ lost' \subseteq Int
    BY <1>0, <2>1, <2>2, ReceiveStep, StoresDo
  <2> QED BY <2>1, <2>3, NoRecordStep
<1>2. CASE HandleMalformed
  <2>1. Receive(Kinds) /\ InTable /\ mgr' = "crashed" /\ NothingStored
        /\ UNCHANGED <<op_ctr, execVars, optionVars, file>>
    BY <1>2 DEF HandleMalformed
  <2>2. StoresNone /\ lost' \subseteq Int
    BY <1>0, <2>1, ReceiveStep, StoresDo
  <2> QED BY <2>1, <2>2, NoRecordStep
<1>3. CASE HandleOverrun \/ HandleOutOfMemory
  <2>1. PICK K : Receive(K)
    BY <1>3 DEF HandleOverrun, HandleOutOfMemory
  <2>2. InTable /\ mgr' \in {mgr, "crashed"} /\ Dropped
        /\ UNCHANGED <<op_ctr, execVars, optionVars, file>>
    BY <1>3 DEF HandleOverrun, HandleOutOfMemory
  <2>3. StoresNone /\ lost' \subseteq Int
    BY <1>0, <2>1, <2>2, ReceiveStep, StoresDo
  <2> QED BY <2>1, <2>2, <2>3, NoRecordStep
<1>4. CASE HandleOther \/ HandleQuit
  <2>1. PICK K : Receive(K)
    BY <1>4 DEF HandleOther, HandleQuit
  <2>2. InTable /\ mgr' \in {mgr, "exited"} /\ NothingStored
        /\ UNCHANGED <<op_ctr, execVars, optionVars, file>>
    BY <1>4 DEF HandleOther, HandleQuit
  <2>3. StoresNone /\ lost' \subseteq Int
    BY <1>0, <2>1, <2>2, ReceiveStep, StoresDo
  <2> QED BY <2>1, <2>2, <2>3, NoRecordStep
<1> QED BY <1>1, <1>2, <1>3, <1>4

(* mgr_set, and mgr_export up to fopen.                                     *)
LEMMA SetStep == IInv /\ HandleSet => IInv'
<1> SUFFICES ASSUME IInv, HandleSet PROVE IInv'
  OBVIOUS
<1>1. Receive({"set"}) /\ InTable /\ NothingStored
      /\ UNCHANGED <<mgr, op_ctr, execVars, file>>
  BY DEF HandleSet
<1>2. OptionType /\ lost \subseteq Int /\ Handled \in Int /\ mgr = "running"
  BY <1>1, ReceiveStep DEF IInv, TypeOK, OptionType
<1>3. StoresNone /\ lost' \subseteq Int
  BY <1>1, <1>2, StoresDo
<1>4. exportsettings \in Seq(SetKeys) /\ "export" \in SetKeys
  BY <1>2 DEF OptionType, SetKeys
<1>5. exportsettings' = exportsettings \/ exportsettings' = Append(exportsettings, "export")
  BY DEF HandleSet
<1>6. exportsettings' \in Seq(SetKeys) /\ IsPrefix(exportsettings, exportsettings')
  <2>1. CASE exportsettings' = exportsettings
    BY <1>4, <2>1, PrefixOfItself
  <2>2. CASE exportsettings' = Append(exportsettings, "export")
    <3>1. IsPrefix(exportsettings, Append(exportsettings, "export"))
      BY <1>4, PrefixOfAppend
    <3> QED BY <1>4, <2>2, <3>1
  <2> QED BY <1>5, <2>1, <2>2
<1>7. OptionType'
  BY <1>2, <1>3, <1>6 DEF OptionType, HandleSet
<1> QED BY <1>1, <1>2, <1>3, <1>6, <1>7, HandlerStep

LEMMA SaveStep == IInv /\ HandleSave => IInv'
<1> SUFFICES ASSUME IInv, HandleSave PROVE IInv'
  OBVIOUS
<1>1. Receive({"save"}) /\ InTable /\ NothingStored
      /\ UNCHANGED <<op_ctr, execVars, optionVars>>
  BY DEF HandleSave
<1>2. OptionType /\ lost \subseteq Int /\ Handled \in Int /\ mgr = "running"
  BY <1>1, ReceiveStep DEF IInv, TypeOK, OptionType
<1>3. StoresNone /\ lost' \subseteq Int
  BY <1>1, <1>2, StoresDo
<1>4. OptionType' /\ exportsettings' = exportsettings /\ exportsettings \in Seq(SetKeys)
  BY <1>1, <1>2, <1>3 DEF OptionType, optionVars
<1>5. IsPrefix(exportsettings, exportsettings')
  BY <1>4, PrefixOfItself
<1>6. \/ file' = file /\ mgr' = mgr
      \/ file' = NoFile /\ mgr' = "saving"
  BY DEF HandleSave
<1> QED BY <1>1, <1>2, <1>3, <1>4, <1>5, <1>6, HandlerStep

(* Steps that leave the memory and the file alone: a comment, a message for *)
(* an operation past the table, a signal.                                   *)
LEMMA NoTableStep == IInv /\ (HandleComment \/ HandlePastTable \/ Killed) => IInv'
<1> SUFFICES ASSUME IInv, HandleComment \/ HandlePastTable \/ Killed PROVE IInv'
  OBVIOUS
<1>1. UNCHANGED <<memoryVars, file>> /\ mgr' \in {mgr, "killed", "crashed"}
  BY DEF HandleComment, HandlePastTable, Killed
<1>2. QueueType' /\ SenderType'
  <2>1. CASE HandleComment
    BY <2>1, ReceiveStep DEF HandleComment, IInv, TypeOK, QueueType
  <2>2. CASE HandlePastTable
    BY <2>2, ReceiveStep DEF HandlePastTable, QueueType
  <2>3. CASE Killed
    BY <2>3 DEF Killed, IInv, TypeOK, QueueType, SenderType, senderVars
  <2> QED BY <2>1, <2>2, <2>3
<1> QED BY <1>1, <1>2, OutsideStep

(* mgr_newexec: the record points to the exec record appended with it.      *)
LEMMA NewExecStep == IInv /\ HandleNewExec => IInv'
<1> SUFFICES ASSUME IInv, HandleNewExec PROVE IInv'
  OBVIOUS
<1> DEFINE m == Head(queue)
           pid == IF m.arg = "nomain" THEN Console ELSE m.pid
           r == RecordOf(m, pid, Len(execs) + 1)
<1>1. /\ Receive({"NEWEXEC"}) /\ InTable
      /\ UNCHANGED <<mgr, op_ctr, optionVars, file>>
      /\ execs' = Append(execs, NewExecRecord(m)) /\ current_exec' = Len(execs) + 1
      /\ Stored(r)
  BY DEF HandleNewExec
<1>2. m \in Messages /\ m.kind = "NEWEXEC" /\ Handled \in Int /\ mgr = "running"
  BY <1>1, ReceiveStep
<1>3. m.kind \in RecordKinds /\ pid \in Pids
  BY <1>2 DEF Messages, RecordKinds, Pids
<1>4. execs \in Seq(ExecRecords) /\ Len(execs) + 1 \in Nat
  BY DEF IInv, TypeOK, TableType
<1>5. NewExecRecord(m) \in ExecRecords
  <2>1. <<>> \in Seq(LibEntries)
    OBVIOUS
  <2> QED BY <1>2, <2>1 DEF NewExecRecord, ExecRecords, Messages
<1>7. /\ execs' \in Seq(ExecRecords) /\ Len(execs') = Len(execs) + 1
      /\ \A i \in 1..Len(execs) : execs'[i] = execs[i]
  <2> HIDE DEF m
  <2> QED BY <1>1, <1>4, <1>5
<1>8. ExecStep
  <2>1. ASSUME NEW i \in 1..Len(execs)
        PROVE  IsPrefix(execs[i].libs, execs'[i].libs)
    BY <1>4, <1>7, LibsType, PrefixOfItself
  <2> QED BY <1>4, <1>7, <2>1 DEF ExecStep
<1>9. r \in Records /\ r.exec = Len(execs) + 1 /\ r.exec # 0
  <2> HIDE DEF m, pid
  <2> QED BY <1>2, <1>3, <1>4, RecordType
<1> HIDE DEF m, pid, r
<1>10. lost \subseteq Int
  BY DEF IInv, TypeOK, OptionType
<1>11. StoresOne(r) /\ lost' \subseteq Int
  BY <1>1, <1>2, <1>10, StoresDo
<1>12. TableStep /\ Len(ops') = Len(ops)
  <2>1. r.exec \in 0..Len(execs') /\ Len(execs) <= Len(execs')
    BY <1>4, <1>7, <1>9
  <2> QED BY <1>1, <1>7, <1>9, <1>11, <2>1, HandlerTable
<1>13. TypeOK'
  <2>1. QueueType' /\ SenderType'
    BY <1>1, ReceiveStep DEF IInv, TypeOK, QueueType
  <2>2. TableType'
    <3>1. op_ctr' \in 0..MaxOps /\ current_exec' \in Nat
      BY <1>1, <1>4 DEF IInv, TypeOK, TableType
    <3> QED BY <1>7, <1>12, <3>1 DEF TableType, TableStep
  <2>3. OptionType' /\ FileType'
    BY <1>1, <1>11 DEF IInv, TypeOK, OptionType, FileType, optionVars
  <2> QED BY <2>1, <2>2, <2>3 DEF TypeOK
<1>14. TableFollows' /\ WhileSaving'
  BY <1>1, <1>2, <1>12 DEF IInv, TableFollows, WhileSaving
<1>15. IsPrefix(exportsettings, exportsettings')
  <2>1. exportsettings \in Seq(SetKeys) /\ exportsettings' = exportsettings
    BY <1>1 DEF IInv, TypeOK, OptionType, optionVars
  <2> QED BY <2>1, PrefixOfItself
<1> QED BY <1>1, <1>7, <1>8, <1>12, <1>13, <1>14, <1>15, InvariantStep

(* mgr_add_external: at most one library list gains one entry, at its end.  *)
LEMMA ExternalExecs ==
  ASSUME IInv, HandleExternal
  PROVE  ExecStep /\ Len(execs') = Len(execs)
<1> DEFINE m == Head(queue)
           entry == [lib |-> m.arg, img |-> m.img, from |-> m.pid]
           old == execs[current_exec]
           new == [old EXCEPT !.libs = Append(@, entry)]
<1>1. execs \in Seq(ExecRecords) /\ current_exec = Len(execs)
  BY DEF IInv, TypeOK, TableType, ExecRefs
<1>2. CASE execs' = execs
  BY <1>1, <1>2, ExecsKept
<1>3. CASE execs' = [execs EXCEPT ![current_exec] = new]
  <2>1. m \in Messages /\ m.kind = "EXTERNAL" /\ ~Malformed(m)
    BY ReceiveStep DEF HandleExternal
  <2>2. entry \in LibEntries
    BY <2>1 DEF Messages, LibEntries
  <2>3. current_exec \in 1..Len(execs) /\ old \in ExecRecords
    BY <1>1, <2>1 DEF Malformed
  <2>4. old.libs \in Seq(LibEntries) /\ new.libs = Append(old.libs, entry)
    BY <2>3 DEF ExecRecords
  <2>5. new \in ExecRecords
    <3>1. Append(old.libs, entry) \in Seq(LibEntries)
      <4> HIDE DEF entry, old
      <4> QED BY <2>2, <2>4
    <3> QED BY <2>3, <3>1 DEF ExecRecords
  <2>6. IsPrefix(old.libs, new.libs)
    <3> HIDE DEF entry, old, new
    <3> QED BY <2>2, <2>4, PrefixOfAppend
  <2>7. /\ execs' \in Seq(ExecRecords) /\ Len(execs') = Len(execs)
        /\ execs'[current_exec] = new
        /\ \A j \in 1..Len(execs) : j # current_exec => execs'[j] = execs[j]
    <3> HIDE DEF new
    <3> QED BY <1>1, <1>3, <2>3, <2>5, ReplaceElement
  <2>8. ASSUME NEW i \in 1..Len(execs)
        PROVE  IsPrefix(execs[i].libs, execs'[i].libs)
    <3>1. execs[i].libs \in Seq(LibEntries)
      BY <1>1, LibsType
    <3> HIDE DEF new
    <3>2. i # current_exec => IsPrefix(execs[i].libs, execs'[i].libs)
      BY <2>7, <3>1, PrefixOfItself
    <3> QED BY <2>6, <2>7, <3>2
  <2> QED BY <1>1, <2>7, <2>8 DEF ExecStep
<1>4. execs' = execs \/ execs' = [execs EXCEPT ![current_exec] = new]
  BY DEF HandleExternal
<1> QED BY <1>2, <1>3, <1>4

LEMMA ExternalStep == IInv /\ HandleExternal => IInv'
<1> SUFFICES ASSUME IInv, HandleExternal PROVE IInv'
  OBVIOUS
<1>1. /\ Receive({"EXTERNAL"}) /\ InTable /\ NothingStored
      /\ UNCHANGED <<mgr, op_ctr, current_exec, optionVars, file>>
  BY DEF HandleExternal
<1>2. ExecStep /\ Len(execs') = Len(execs) /\ execs' \in Seq(ExecRecords)
      /\ Len(execs) <= Len(execs')
  BY ExternalExecs DEF ExecStep
<1>3. lost \subseteq Int /\ Handled \in Int /\ mgr = "running"
  BY <1>1, ReceiveStep DEF IInv, TypeOK, OptionType
<1>4. StoresNone /\ lost' \subseteq Int
  BY <1>1, <1>3, StoresDo
<1>5. TableStep /\ Len(ops') = Len(ops)
  BY <1>1, <1>2, <1>4, HandlerTable
<1>6. TypeOK'
  <2>1. QueueType' /\ SenderType'
    BY <1>1, ReceiveStep DEF IInv, TypeOK, QueueType
  <2>2. TableType'
    BY <1>1, <1>2, <1>5 DEF IInv, TypeOK, TableType, TableStep
  <2>3. OptionType' /\ FileType'
    BY <1>1, <1>4 DEF IInv, TypeOK, OptionType, FileType, optionVars
  <2> QED BY <2>1, <2>2, <2>3 DEF TypeOK
<1>7. TableFollows' /\ current_exec' = Len(execs') /\ WhileSaving'
  BY <1>1, <1>2, <1>3, <1>5 DEF IInv, TableFollows, ExecRefs, WhileSaving
<1>8. IsPrefix(exportsettings, exportsettings')
  <2>1. exportsettings \in Seq(SetKeys) /\ exportsettings' = exportsettings
    BY <1>1 DEF IInv, TypeOK, OptionType, optionVars
  <2> QED BY <2>1, PrefixOfItself
<1> QED BY <1>1, <1>2, <1>5, <1>6, <1>7, <1>8, InvariantStep

(* mgr_next: the finished operation grows, fails to, or stays as it is, and *)
(* an empty one follows it unless the table is full.                        *)
LEMMA NextTable ==
  ASSUME IInv, HandleNext
  PROVE  /\ TableStep /\ TableFollows' /\ op_ctr' \in 0..MaxOps
         /\ \E g \in Grown, new \in NewOperations :
              /\ Len(WithCurrent(g)) = Len(ops) /\ WithCurrent(g) \in Seq(OpRecords)
              /\ WithCurrent(g)[op_ctr + 1] = g
              /\ \A j \in 1..Len(ops) : j # op_ctr + 1 => WithCurrent(g)[j] = ops[j]
              /\ ops' = IF op_ctr + 1 < MaxOps THEN Append(WithCurrent(g), new)
                        ELSE WithCurrent(g)
<1> DEFINE c == op_ctr + 1
           old == ops[c]
<1>1. /\ InTable /\ op_ctr' = op_ctr + 1 /\ execs' = execs
      /\ execs \in Seq(ExecRecords) /\ op_ctr \in 0..MaxOps
  BY DEF HandleNext, execVars, IInv, TypeOK, TableType
<1>2. ops \in Seq(OpRecords) /\ c \in 1..Len(ops) /\ c = Len(ops) /\ old \in OpRecords /\ Fits(old)
  BY <1>1, CurrentExists
<1>3. PICK g \in Grown, new \in NewOperations :
        ops' = IF op_ctr + 1 < MaxOps THEN Append(WithCurrent(g), new) ELSE WithCurrent(g)
  BY DEF HandleNext
<1> DEFINE w == WithCurrent(g)
<1>4. /\ g \in OpRecords /\ Fits(g)
      /\ \/ g.slots # 0 /\ old.slots # 0 /\ g.recs = old.recs
         \/ g.slots = 0 /\ g.recs = <<>>
  BY <1>2, GrownRoom
<1>5. /\ w \in Seq(OpRecords) /\ Len(w) = Len(ops) /\ w[c] = g
      /\ \A j \in 1..Len(ops) : j # c => w[j] = ops[j]
  BY <1>2, <1>4, ReplaceElement DEF WithCurrent
<1>6. new \in OpRecords /\ Fits(new) /\ new.recs = <<>> /\ Len(new.recs) = 0
  BY NewOperationType
<1> HIDE DEF w
<1>7. /\ ops' \in Seq(OpRecords) /\ Len(ops) <= Len(ops')
      /\ \A i \in 1..Len(ops) : ops'[i] = w[i]
      /\ \A i \in 1..Len(ops') : i \in 1..Len(ops) \/ ops'[i] = new
  <2>1. CASE ops' = w
    BY <1>2, <1>5, <2>1
  <2>2. CASE ops' = Append(w, new)
    BY <1>2, <1>5, <1>6, <2>2, AppendProperties
  <2> QED BY <1>3, <2>1, <2>2 DEF w
<1>8. \A i \in 1..Len(ops) : RefersTo(ops[i], Len(execs'))
  <2>1. Len(execs') \in Nat /\ Len(execs) <= Len(execs')
    BY <1>1
  <2> QED BY <2>1, RefersOn
<1>9. ASSUME NEW i \in 1..Len(ops)
      PROVE  OpStep(ops[i], ops'[i]) /\ Fits(ops'[i]) /\ RefersTo(ops'[i], Len(execs'))
  <2>1. CASE i = c
    <3>1. ops'[i] = g /\ ops[i] = old
      BY <2>1, <1>5, <1>7
    <3>2. OpStep(old, g)
      <4>1. old.recs \in Seq(Records)
        BY <1>2 DEF OpRecords
      <4> QED BY <1>4, <4>1, PrefixOfItself DEF OpStep
    <3>3. RefersTo(old, Len(execs'))
      BY <1>8, <2>1
    <3>4. RefersTo(g, Len(execs'))
      BY <1>4, <3>3 DEF RefersTo
    <3> QED BY <1>4, <3>1, <3>2, <3>4
  <2>2. CASE i # c
    <3>1. ops'[i] = ops[i] /\ ops[i] \in OpRecords
      BY <2>2, <1>2, <1>5, <1>7
    <3> QED BY <3>1, <1>8, OpKept DEF IInv
  <2> QED BY <2>1, <2>2
<1>10. Fits(new) /\ RefersTo(new, Len(execs'))
  BY <1>6 DEF RefersTo
<1>11. TableStep
  BY <1>7, <1>9, <1>10 DEF TableStep
<1>12. Len(ops') = IF op_ctr + 1 < MaxOps THEN Len(ops) + 1 ELSE Len(ops)
  BY <1>2, <1>3, <1>5, <1>6, AppendProperties DEF w
<1>13. TableFollows' /\ op_ctr' \in 0..MaxOps
  BY <1>1, <1>2, <1>12, SizesAssumption DEF TableFollows, InTable
<1> QED BY <1>3, <1>5, <1>11, <1>13 DEF w

LEMMA NextStep == IInv /\ HandleNext => IInv'
<1> SUFFICES ASSUME IInv, HandleNext PROVE IInv'
  OBVIOUS
<1>1. /\ Receive({"next"}) /\ UNCHANGED <<mgr, execVars, optionVars, file>>
      /\ lost \subseteq Int
  BY DEF HandleNext, IInv, TypeOK, OptionType
<1>2. TableStep /\ TableFollows' /\ op_ctr' \in 0..MaxOps
  BY NextTable
<1>3. Handled \in Int /\ mgr = "running"
  BY <1>1, ReceiveStep
<1>4. lost' \subseteq Int
  BY <1>1, <1>3, ForgottenType DEF HandleNext
<1>5. TypeOK'
  <2>1. QueueType' /\ SenderType'
    BY <1>1, ReceiveStep DEF IInv, TypeOK, QueueType
  <2>2. TableType'
    BY <1>1, <1>2 DEF IInv, TypeOK, TableType, TableStep, execVars
  <2>3. OptionType' /\ FileType'
    BY <1>1, <1>4 DEF IInv, TypeOK, OptionType, FileType, optionVars
  <2> QED BY <2>1, <2>2, <2>3 DEF TypeOK
<1>6. ExecStep /\ current_exec' = Len(execs') /\ WhileSaving'
  BY <1>1, <1>3, ExecsKept DEF execVars, IInv, ExecRefs, WhileSaving
<1>7. IsPrefix(exportsettings, exportsettings')
  <2>1. exportsettings \in Seq(SetKeys) /\ exportsettings' = exportsettings
    BY <1>1 DEF IInv, TypeOK, OptionType, optionVars
  <2> QED BY <2>1, PrefixOfItself
<1> QED BY <1>1, <1>2, <1>5, <1>6, <1>7, InvariantStep

-----------------------------------------------------------------------------
(* The export.                                                              *)

(* What has to be shown of a step of export().                              *)
LEMMA ExportStep ==
  ASSUME IInv, Exporting, mgr' \in {"running", "saving", "crashed"},
         FileType', FileShows', WhileSaving'
  PROVE  IInv'
<1>1. UNCHANGED <<queue, sent, senderVars, memoryVars>>
  BY DEF Exporting
<1>2. TypeOK'
  BY <1>1 DEF IInv, TypeOK, QueueType, TableType, OptionType, SenderType,
              memoryVars, execVars, optionVars, senderVars
<1>3. (\A i \in 1..Len(ops) : Fits(ops[i]))' /\ TableFollows' /\ ExecRefs'
  BY <1>1 DEF IInv, TableFollows, ExecRefs, memoryVars, execVars
<1>4. FilePrefix'
  <2>1. FileTyped'
    BY <1>2 DEF FileTyped, TypeOK, FileType, TableType
  <2> QED BY <2>1, FilePrefixMeans, PTL
<1> QED BY <1>2, <1>3, <1>4 DEF IInv

(* What an export finds.                                                    *)
LEMMA ExportFinds ==
  ASSUME IInv, Exporting
  PROVE  /\ InTable /\ ~file.end /\ op_ctr + 1 = Len(ops)
         /\ ops \in Seq(OpRecords) /\ file.ops \in Seq(Seq(Lines))
         /\ execs \in Seq(ExecRecords)
         /\ UNCHANGED <<ops, op_ctr, execs, exportsettings, program>>
         /\ exportsettings \in Seq(SetKeys) /\ program \in BOOLEAN
         /\ file = [ops |-> file.ops, settings |-> file.settings,
                    program |-> file.program, end |-> file.end]
         /\ file.settings \in Seq(SetKeys) /\ file.program \in BOOLEAN
         /\ FileShows
         /\ \A i \in 1..Len(file.ops) : i # Len(file.ops) => Complete(i)
<1>1. InTable /\ mgr = "saving"
  BY DEF IInv, WhileSaving, Exporting
<1>2. op_ctr + 1 = Len(ops)
  BY <1>1, CurrentExists
<1>3. FileShows
  BY FilePrefixMeans DEF FileTyped, IInv, TypeOK, FileType, TableType
<1> QED BY <1>1, <1>2, <1>3 DEF Exporting, IInv, WhileSaving, TypeOK, FileType, TableType,
           OptionType, memoryVars, execVars, optionVars

LEMMA ExportNextStep == IInv /\ ExportNext => IInv'
<1> SUFFICES ASSUME IInv, ExportNext PROVE IInv'
  OBVIOUS
<1> DEFINE n == Len(file.ops)
<1>1. /\ Exporting /\ mgr' = "saving" /\ n < op_ctr + 1 /\ (n # 0 => Complete(n))
      /\ file' = [ops |-> Append(file.ops, <<>>), settings |-> exportsettings,
                  program |-> program, end |-> FALSE]
  BY DEF ExportNext, Exporting
<1>2. /\ InTable /\ op_ctr + 1 = Len(ops)
      /\ ops \in Seq(OpRecords) /\ file.ops \in Seq(Seq(Lines))
      /\ UNCHANGED <<ops, op_ctr, execs, exportsettings, program>>
      /\ exportsettings \in Seq(SetKeys) /\ program \in BOOLEAN
      /\ FileShows
      /\ \A i \in 1..n : i # n => Complete(i)
  BY <1>1, ExportFinds
<1>3. /\ file'.ops \in Seq(Seq(Lines)) /\ Len(file'.ops) = n + 1
      /\ file'.ops[n + 1] = <<>> /\ \A i \in 1..n : file'.ops[i] = file.ops[i]
      /\ file'.settings = exportsettings /\ file'.program = program /\ file'.end = FALSE
  <2>1. <<>> \in Seq(Lines)
    OBVIOUS
  <2> QED BY <1>1, <1>2, <2>1
<1>4. FileType'
  BY <1>1, <1>2, <1>3 DEF FileType
<1>5. FileShows'
  <2>1. Len(file'.ops) <= Len(ops)
    BY <1>1, <1>2, <1>3
  <2>2. ASSUME NEW i \in 1..Len(file'.ops)
        PROVE  Prefixed(file'.ops[i], ops[i], execs)
    <3>1. CASE i \in 1..n
      BY <1>2, <1>3, <3>1 DEF FileShows
    <3>2. CASE i = n + 1
      <4>1. ops[i] \in OpRecords
        BY <1>2, <2>1
      <4>2. Len(ops[i].recs) \in Nat
        BY <4>1 DEF OpRecords
      <4> QED BY <1>3, <3>2, <4>2 DEF Prefixed
    <3> QED BY <1>2, <1>3, <3>1, <3>2
  <2>3. IsPrefix(exportsettings, exportsettings)
    BY <1>2, PrefixOfItself
  <2> QED BY <1>2, <1>3, <2>1, <2>2, <2>3 DEF FileShows
<1>6. WhileSaving'
  <2>1. ASSUME NEW i \in 1..n
        PROVE  Complete(i)'
    <3>1. Complete(i)
      BY <1>1, <1>2
    <3> QED BY <1>2, <1>3, <3>1 DEF Complete, Readable
  <2> QED BY <1>2, <1>3, <2>1 DEF WhileSaving, InTable
<1> QED BY <1>1, <1>4, <1>5, <1>6, ExportStep

(* A line is written for a record that is there, with the libraries of its  *)
(* exec at that moment.                                                     *)
LEMMA LineType ==
  ASSUME IInv, NEW i \in 1..Len(ops), NEW k \in 1..Len(ops[i].recs)
  PROVE  /\ LineOf(ops[i].recs[k]) \in Lines
         /\ SameEvent(LineOf(ops[i].recs[k]), ops[i].recs[k])
         /\ IsPrefix(LineOf(ops[i].recs[k]).libs, LibsBelow(ops[i].recs[k], execs))
<1> DEFINE r == ops[i].recs[k]
<1>1. ops \in Seq(OpRecords) /\ execs \in Seq(ExecRecords)
  BY DEF IInv, TypeOK, TableType
<1>2. ops[i] \in OpRecords
  BY <1>1
<1>3. r \in Records
  BY <1>2 DEF OpRecords
<1>4. LibsBelow(r, execs) \in Seq(LibEntries)
  <2>1. CASE r.kind = "NEWEXEC"
    <3>1. r.exec \in 0..Len(execs) /\ r.exec # 0
      BY <2>1 DEF IInv, ExecRefs
    <3>2. r.exec \in 1..Len(execs)
      <4> HIDE DEF r
      <4> QED BY <1>1, <3>1
    <3> HIDE DEF r
    <3> QED BY <1>1, <2>1, <3>2, LibsType DEF LibsBelow
  <2>2. CASE r.kind # "NEWEXEC"
    BY <2>2 DEF LibsBelow
  <2> QED BY <2>1, <2>2
<1> HIDE DEF r
<1>5. LineOf(r) = [kind |-> r.kind, pid |-> r.pid, from |-> r.from, arg |-> r.arg,
                   libs |-> LibsBelow(r, execs)]
  BY DEF LineOf, LibsBelow
<1>6. LineOf(r) \in Lines /\ SameEvent(LineOf(r), r)
  BY <1>3, <1>4, <1>5 DEF Lines, Records, SameEvent
<1>7. IsPrefix(LineOf(r).libs, LibsBelow(r, execs))
  BY <1>4, <1>5, PrefixOfItself
<1> QED BY <1>6, <1>7 DEF r

LEMMA ExportRecordStep == IInv /\ ExportRecord => IInv'
<1> SUFFICES ASSUME IInv, ExportRecord PROVE IInv'
  OBVIOUS
<1> DEFINE n == Len(file.ops)
           old == file.ops[n]
           k == Len(old) + 1
           line == LineOf(ops[n].recs[k])
<1>1. /\ Exporting /\ mgr' = "saving" /\ n # 0 /\ Readable(ops[n]) /\ Len(old) < ops[n].size
      /\ file' = [file EXCEPT !.ops = [file.ops EXCEPT ![n] = Append(old, line)]]
  BY DEF ExportRecord, Exporting
<1>2. /\ InTable /\ op_ctr + 1 = Len(ops) /\ ~file.end
      /\ ops \in Seq(OpRecords) /\ file.ops \in Seq(Seq(Lines))
      /\ UNCHANGED <<ops, op_ctr, execs, exportsettings, program>>
      /\ file = [ops |-> file.ops, settings |-> file.settings,
                 program |-> file.program, end |-> file.end]
      /\ file.settings \in Seq(SetKeys) /\ file.program \in BOOLEAN
      /\ FileShows
      /\ \A i \in 1..n : i # n => Complete(i)
  BY <1>1, ExportFinds
<1>3. n \in 1..Len(file.ops) /\ n \in 1..Len(ops) /\ old \in Seq(Lines) /\ ops[n] \in OpRecords
  BY <1>1, <1>2 DEF FileShows
<1>4. /\ ops[n].slots # 0 /\ Len(ops[n].recs) = ops[n].size /\ ops[n].size \in Nat
      /\ ops[n].recs \in Seq(Records)
  <2>1. ops[n].recs \in Seq(Records) /\ ops[n].size \in Nat /\ ops[n].slots \in Nat /\ Len(old) \in Nat
    BY <1>3 DEF OpRecords
  <2>2. ops[n].slots # 0 /\ Fits(ops[n])
    BY <1>1, <1>3, <2>1 DEF Readable, IInv
  <2> QED BY <2>1, <2>2 DEF Fits
<1>5. k \in 1..Len(ops[n].recs)
  BY <1>1, <1>3, <1>4
<1>6. /\ line \in Lines /\ SameEvent(line, ops[n].recs[k])
      /\ IsPrefix(line.libs, LibsBelow(ops[n].recs[k], execs))
  BY <1>3, <1>5, LineType
<1>7. Append(old, line) \in Seq(Lines) /\ Len(Append(old, line)) = k
      /\ Append(old, line)[k] = line /\ \A j \in 1..Len(old) : Append(old, line)[j] = old[j]
  <2> HIDE DEF line, old
  <2> QED BY <1>3, <1>6 DEF k
<1> HIDE DEF line
<1>8. /\ file'.ops \in Seq(Seq(Lines)) /\ Len(file'.ops) = n
      /\ file'.ops[n] = Append(old, line)
      /\ \A i \in 1..n : i # n => file'.ops[i] = file.ops[i]
      /\ file'.settings = file.settings /\ file'.program = file.program /\ file'.end = file.end
      /\ file' = [ops |-> file'.ops, settings |-> file.settings,
                  program |-> file.program, end |-> file.end]
  <2> DEFINE new == [file.ops EXCEPT ![n] = Append(old, line)]
  <2>1. /\ new \in Seq(Seq(Lines)) /\ Len(new) = n /\ new[n] = Append(old, line)
        /\ \A i \in 1..n : i # n => new[i] = file.ops[i]
    <3> HIDE DEF old
    <3> QED BY <1>2, <1>3, <1>7, ReplaceElement
  <2> HIDE DEF new
  <2>2. file' = [ops |-> new, settings |-> file.settings,
                 program |-> file.program, end |-> file.end]
    BY <1>1, <1>2 DEF new
  <2> QED BY <2>1, <2>2
<1>9. FileType'
  BY <1>2, <1>8 DEF FileType, IInv, TypeOK
<1>10. FileShows'
  <2>1. ASSUME NEW i \in 1..n
        PROVE  Prefixed(file'.ops[i], ops[i], execs)
    <3>1. Prefixed(file.ops[i], ops[i], execs)
      BY <1>2 DEF FileShows
    <3>2. CASE i # n
      BY <1>8, <3>1, <3>2
    <3>3. CASE i = n
      <4>1. /\ Len(old) <= Len(ops[n].recs)
            /\ \A j \in 1..Len(old) : /\ SameEvent(old[j], ops[n].recs[j])
                                      /\ IsPrefix(old[j].libs, LibsBelow(ops[n].recs[j], execs))
        BY <1>4, <3>1, <3>3 DEF Prefixed
      <4>2. Len(Append(old, line)) <= Len(ops[n].recs)
        BY <1>5, <1>7
      <4>3. ASSUME NEW j \in 1..Len(Append(old, line))
            PROVE  /\ SameEvent(Append(old, line)[j], ops[n].recs[j])
                   /\ IsPrefix(Append(old, line)[j].libs, LibsBelow(ops[n].recs[j], execs))
        <5>1. j \in 1..Len(old) \/ j = k
          BY <1>3, <1>7
        <5> QED BY <1>6, <1>7, <4>1, <5>1
      <4> QED BY <1>8, <3>3, <4>2, <4>3 DEF Prefixed
    <3> QED BY <3>2, <3>3
  <2> QED BY <1>2, <1>8, <2>1 DEF FileShows
<1>11. WhileSaving'
  <2>1. ASSUME NEW i \in 1..n, i # n
        PROVE  Complete(i)'
    BY <1>2, <1>8, <2>1 DEF Complete, Readable
  <2> QED BY <1>2, <1>8, <2>1 DEF WhileSaving, InTable
<1> QED BY <1>1, <1>9, <1>10, <1>11, ExportStep

(* END, or a crash over an array that is out of reach.                      *)
LEMMA ExportOverStep == IInv /\ (ExportEnd \/ ExportCrash) => IInv'
<1> SUFFICES ASSUME IInv, ExportEnd \/ ExportCrash PROVE IInv'
  OBVIOUS
<1>1. /\ Exporting /\ mgr' \in {"running", "crashed"}
      /\ file' = file \/ file' = [file EXCEPT !.end = TRUE]
  BY DEF ExportEnd, ExportCrash
<1>2. /\ UNCHANGED <<ops, execs, exportsettings>> /\ FileShows
      /\ file = [ops |-> file.ops, settings |-> file.settings,
                 program |-> file.program, end |-> file.end]
  BY <1>1, ExportFinds
<1>3. FileType /\ FileType'
  BY <1>1 DEF IInv, TypeOK, FileType
<1>4. file'.ops = file.ops /\ file'.settings = file.settings
  BY <1>1, <1>2
<1>5. FileShows'
  BY <1>2, <1>4 DEF FileShows
<1>6. WhileSaving'
  BY <1>1 DEF WhileSaving
<1> QED BY <1>1, <1>3, <1>5, <1>6, ExportStep

-----------------------------------------------------------------------------
(* The processes and the console.                                           *)

(* What they put on the queue is a message.                                 *)
LEMMA MsgType ==
  ASSUME NEW k \in Kinds, NEW p \in Pids, NEW a \in Args, NEW i \in Nat
  PROVE  Msg(k, p, a, i) \in Messages
BY DEF Msg, Messages

(* Every step of theirs puts one message on the queue or touches nothing    *)
(* but the processes. A NEWEXEC is numbered by its place and says all it    *)
(* has to, and only what is typed can be too bare.                          *)
Meant(m) ==
  /\ m.kind = "NEWEXEC" => m.arg \in {"", "nomain"} /\ m.img = Len(sent) + 1
  /\ m.arg = "bare" => m.pid = Console

Silent == UNCHANGED <<queue, mgr, memoryVars, file, sent>>

LEMMA SendersDo ==
  ASSUME IInv, Senders
  PROVE  SenderType' /\ ((\E m \in Messages : Post(m) /\ Meant(m)) \/ Silent)
<1> DEFINE Goal == SenderType' /\ ((\E m \in Messages : Post(m) /\ Meant(m)) \/ Silent)
<1>1. SenderType /\ sent \in Seq(Messages)
  BY DEF IInv, TypeOK, QueueType
<1>2. Procs \subseteq Pids /\ Console \in Pids /\ Procs \subseteq Args /\ Libs \subseteq Args
      /\ {"", "null", "digit", "long", "many", "bare", "nomain"} \subseteq Args
      /\ SetKeys \subseteq Args
      /\ Procs \cap {"bare"} = {} /\ Libs \cap {"bare"} = {} /\ SetKeys \cap {"bare"} = {}
  BY NamesAssumption DEF Pids, Args, Words, SetKeys
<1>3. Kinds = HeapKinds \cup {"FREE", "NEWEXEC", "CUSTOM", "FORK",
                              "EXTERNAL", "next", "set", "save", "#", "other", "QUIT"}
  BY DEF Kinds, RecordKinds
<1>4. ASSUME NEW p \in Procs, NEW exported \in BOOLEAN, Announce(p, exported) PROVE Goal
  <2> DEFINE a == IF exported THEN "" ELSE "nomain"
             m == Msg("NEWEXEC", p, a, Len(sent) + 1)
  <2>1. m \in Messages
    <3>1. a \in Args
      BY <1>2
    <3>2. "NEWEXEC" \in Kinds
      BY <1>3
    <3>3. p \in Pids
      BY <1>2
    <3>4. Len(sent) + 1 \in Nat
      BY <1>1
    <3> HIDE DEF a
    <3> QED BY <3>1, <3>2, <3>3, <3>4, MsgType
  <2>2. SenderType'
    <3>1. Len(sent) + 1 \in Nat
      BY <1>1
    <3> HIDE DEF a, m
    <3> QED BY <1>1, <1>4, <3>1 DEF Announce, NewImage, SenderType
  <2>3. Post(m) /\ Meant(m)
    BY <1>4 DEF Announce, Meant, Msg
  <2> HIDE DEF m
  <2> QED BY <2>1, <2>2, <2>3
<1>5. ASSUME NEW p \in Procs, NEW c \in Procs, Fork(p, c) PROVE Goal
  <2>1. SenderType'
    BY <1>1, <1>2, <1>5 DEF Fork, SenderType
  <2> QED BY <1>5, <2>1 DEF Fork, Silent
<1>6. ASSUME NEW p \in Procs, ReportFork(p) PROVE Goal
  <2>1. forking[p] \in Procs /\ image[p] \in Nat
    BY <1>1, <1>6 DEF ReportFork, SenderType, Pids
  <2>2. Msg("FORK", p, forking[p], image[p]) \in Messages
    BY <1>2, <1>3, <2>1, MsgType
  <2>3. SenderType'
    BY <1>1, <1>2, <1>6 DEF ReportFork, SenderType
  <2>4. Meant(Msg("FORK", p, forking[p], image[p]))
    BY <1>2, <2>1 DEF Meant, Msg
  <2> QED BY <1>6, <2>2, <2>3, <2>4 DEF ReportFork
<1>7. ASSUME NEW p \in Procs, NEW l \in Libs, ReportLibrary(p, l) PROVE Goal
  <2>1. image[p] \in Nat
    BY <1>1 DEF SenderType
  <2>2. Msg("EXTERNAL", p, l, image[p]) \in Messages
    BY <1>2, <1>3, <2>1, MsgType
  <2>3. SenderType'
    BY <1>1, <1>7 DEF ReportLibrary, SenderType
  <2>4. Meant(Msg("EXTERNAL", p, l, image[p]))
    BY <1>2 DEF Meant, Msg
  <2> QED BY <1>7, <2>2, <2>3, <2>4 DEF ReportLibrary
<1>8. ASSUME NEW p \in Procs, Report(p) PROVE Goal
  <2>1. SenderType' /\ image[p] \in Nat
    BY <1>1, <1>8 DEF Report, SenderType, senderVars
  <2>2. {"REALLOC", "MEMALIGN"} \subseteq Kinds /\ "NEWEXEC" \notin HeapKinds
    BY <1>3 DEF HeapKinds
  <2>3. PICK k \in Kinds, a \in Args :
          Post(Msg(k, p, a, image[p])) /\ k # "NEWEXEC" /\ a # "bare"
    BY <1>2, <1>3, <1>8, <2>2 DEF Report
  <2>4. Msg(k, p, a, image[p]) \in Messages
    BY <1>2, <2>1, MsgType
  <2>5. Meant(Msg(k, p, a, image[p]))
    BY <2>3 DEF Meant, Msg
  <2> QED BY <2>1, <2>3, <2>4, <2>5
<1>9. ASSUME NEW p \in Procs, Leave(p) PROVE Goal
  <2>1. SenderType'
    BY <1>1, <1>9 DEF Leave, SenderType
  <2> QED BY <1>9, <2>1 DEF Leave, Silent
<1>10. ASSUME Command PROVE Goal
  <2>1. SenderType'
    BY <1>1, <1>10 DEF Command, SenderType, senderVars
  <2>2. PICK k \in Kinds, a \in Args : Post(Msg(k, Console, a, 0)) /\ k # "NEWEXEC"
    BY <1>2, <1>3, <1>10 DEF Command
  <2>3. Msg(k, Console, a, 0) \in Messages
    BY <1>2, MsgType
  <2>4. Meant(Msg(k, Console, a, 0))
    BY <2>2 DEF Meant, Msg
  <2> QED BY <2>1, <2>2, <2>3, <2>4
<1>11. ASSUME Typed PROVE Goal
  <2>0. UNCHANGED senderVars /\ Len(sent) + 1 \in Nat
    <3>1. UNCHANGED senderVars
      BY ONLY <1>11, Zenon DEF Typed
    <3>2. Len(sent) + 1 \in Nat
      BY <1>1
    <3> QED BY <3>1, <3>2
  <2>1. SenderType' /\ Len(sent) + 1 \in Nat
    BY <1>1, <2>0 DEF SenderType, senderVars
  <2>2. HeapKinds \cup {"FREE", "EXTERNAL", "FORK", "NEWEXEC"} \subseteq Kinds
        /\ "NEWEXEC" \notin HeapKinds
    BY <1>3 DEF HeapKinds
  <2>3. CASE Post(Msg("NEWEXEC", Console, "nomain", Len(sent) + 1))
    <3>1. Msg("NEWEXEC", Console, "nomain", Len(sent) + 1) \in Messages
      BY <1>2, <2>1, <2>2, MsgType
    <3>2. Meant(Msg("NEWEXEC", Console, "nomain", Len(sent) + 1))
      BY DEF Meant, Msg
    <3> QED BY <2>1, <2>3, <3>1, <3>2
  <2>4. CASE \E k \in Kinds, a \in Args : Post(Msg(k, Console, a, 0)) /\ k # "NEWEXEC"
    <3>1. PICK k \in Kinds, a \in Args : Post(Msg(k, Console, a, 0)) /\ k # "NEWEXEC"
      BY <2>4
    <3>2. Msg(k, Console, a, 0) \in Messages
      BY <1>2, MsgType
    <3>3. Meant(Msg(k, Console, a, 0))
      BY <3>1 DEF Meant, Msg
    <3> QED BY <2>1, <3>1, <3>2, <3>3
  <2>5. \/ Post(Msg("NEWEXEC", Console, "nomain", Len(sent) + 1))
        \/ \E k \in Kinds, a \in Args : Post(Msg(k, Console, a, 0)) /\ k # "NEWEXEC"
    BY <1>2, <1>11, <2>2 DEF Typed
  <2> QED BY <2>3, <2>4, <2>5
<1> QED BY <1>4, <1>5, <1>6, <1>7, <1>8, <1>9, <1>10, <1>11 DEF Senders

LEMMA SenderStep == IInv /\ Senders => IInv'
<1> SUFFICES ASSUME IInv, Senders PROVE IInv'
  OBVIOUS
<1>1. SenderType' /\ ((\E m \in Messages : Post(m)) \/ Silent)
  BY SendersDo
<1>0. QueueType
  BY DEF IInv, TypeOK
<1>2. UNCHANGED <<mgr, memoryVars, file>> /\ QueueType'
  <2>1. CASE Silent
    BY <1>0, <2>1 DEF Silent, QueueType
  <2>2. CASE \E m \in Messages : Post(m)
    <3>1. PICK m \in Messages : Post(m)
      BY <2>2
    <3>2. Append(queue, m) \in Seq(Messages) /\ Append(sent, m) \in Seq(Messages)
      BY <1>0 DEF QueueType
    <3> QED BY <1>0, <3>1, <3>2 DEF Post, QueueType
  <2> QED BY <1>1, <2>1, <2>2
<1> QED BY <1>1, <1>2, OutsideStep

-----------------------------------------------------------------------------
(* The invariant.                                                           *)

LEMMA InvariantInit == Init => IInv
<1> SUFFICES ASSUME Init PROVE IInv
  OBVIOUS
<1>1. QueueType /\ OptionType /\ FileType
  <2>1. <<>> \in Seq(Messages) /\ <<>> \in Seq(SetKeys)
    OBVIOUS
  <2>2. QueueType /\ OptionType
    BY <2>1 DEF Init, QueueType, OptionType
  <2> QED BY <2>2, NoFileType DEF Init, FileType
<1>2. PICK new \in NewOperations : ops = <<new>>
  BY DEF Init
<1>3. new \in OpRecords /\ new.recs = <<>> /\ Len(new.recs) = 0 /\ Fits(new)
  BY NewOperationType
<1>4. TableType
  <2>1. <<>> \in Seq(ExecRecords)
    OBVIOUS
  <2> QED BY <1>2, <1>3, <2>1, SizesAssumption DEF Init, TableType
<1>5. SenderType
  BY DEF Init, SenderType, Pids
<1>6. (\A i \in 1..Len(ops) : Fits(ops[i])) /\ TableFollows /\ ExecRefs
  BY <1>2, <1>3, SizesAssumption DEF Init, TableFollows, ExecRefs
<1>7. FilePrefix
  <2>1. IsPrefix(<<>>, exportsettings)
    BY <1>1, PrefixEmpty DEF OptionType
  <2> QED BY <1>2, <2>1 DEF Init, NoFile, FilePrefix
<1>8. WhileSaving
  BY DEF Init, WhileSaving
<1> QED BY <1>1, <1>4, <1>5, <1>6, <1>7, <1>8 DEF IInv, TypeOK

LEMMA InvariantNext == IInv /\ [Next]_vars => IInv'
<1> SUFFICES ASSUME IInv, [Next]_vars PROVE IInv'
  OBVIOUS
<1>1. CASE Senders
  BY <1>1, SenderStep
<1>2. CASE Manager
  BY <1>2, HeapEventStep, FreeStep, CustomStep, ForkStep, GivenUpStep, SetStep, SaveStep,
     NoTableStep, NewExecStep, ExternalStep, NextStep, ExportNextStep, ExportRecordStep,
     ExportOverStep DEF Manager
<1>3. CASE Killed
  BY <1>3, NoTableStep
<1>4. CASE UNCHANGED vars
  <2>1. UNCHANGED <<memoryVars, file>> /\ mgr' = mgr /\ QueueType' /\ SenderType'
    BY <1>4 DEF vars, senderVars, IInv, TypeOK, QueueType, SenderType
  <2> QED BY <2>1, OutsideStep
<1> QED BY <1>1, <1>2, <1>3, <1>4 DEF Next

(* The state of the recorder is always well formed.                         *)
THEOREM Invariant == Spec => []IInv
BY InvariantInit, InvariantNext, PTL DEF Spec

(* Type correctness, for every number of processes, libraries and messages. *)
THEOREM TypeCorrect == Spec => []TypeOK
<1>1. IInv => TypeOK
  BY DEF IInv
<1> QED BY <1>1, Invariant, PTL

(* No handler of manager.c stores past the end of the array behind an       *)
(* operation's pointer, whenever growing it fails: an array has the slots   *)
(* max_size says, and a pointer that failed is NULL.                        *)
THEOREM NoOverrun == Spec => []RecordsFit
<1>1. IInv => RecordsFit
  BY DEF IInv, Fits, RecordsFit
<1> QED BY <1>1, Invariant, PTL

(* Whatever is on disk of an export, whole or torn off anywhere, stays a    *)
(* prefix of what the manager holds of each operation it has not lost.      *)
THEOREM ExportIsPrefix == Spec => []FilePrefix
<1>1. IInv => FilePrefix
  BY DEF IInv
<1> QED BY <1>1, Invariant, PTL

-----------------------------------------------------------------------------
(* Library lists.                                                           *)

(* Only two handlers touch exec records.                                    *)
LEMMA ExecsUntouched ==
  ASSUME [Next]_vars, ~HandleNewExec, ~HandleExternal
  PROVE  UNCHANGED execVars
<1>1. CASE Senders
  BY <1>1 DEF Senders, Announce, NewImage, Fork, ReportFork, ReportLibrary, Report, Leave,
              Command, Typed, Post, memoryVars
<1>2. CASE Manager
  BY <1>2 DEF Manager, HandleComment, HandlePastTable, HandleWithoutArray, HandleMalformed,
              HandleOverrun, HandleOutOfMemory, HandleHeapEvent, HandleFree, HandleCustom,
              HandleFork, HandleNext, HandleSet, HandleSave, HandleOther, HandleQuit,
              ExportNext, ExportRecord, ExportEnd, ExportCrash, Exporting, memoryVars
<1>3. CASE Killed \/ UNCHANGED vars
  BY <1>3 DEF Killed, vars, memoryVars
<1> QED BY <1>1, <1>2, <1>3 DEF Next

(* mgr_add_external appends a library only if the list does not have it.    *)
LEMMA LibsOnceExternal == IInv /\ LibsOnce /\ HandleExternal => LibsOnce'
<1> SUFFICES ASSUME IInv, LibsOnce, HandleExternal PROVE LibsOnce'
  OBVIOUS
<1> DEFINE m == Head(queue)
           entry == [lib |-> m.arg, img |-> m.img, from |-> m.pid]
           old == execs[current_exec]
           new == [old EXCEPT !.libs = Append(@, entry)]
<1>1. execs \in Seq(ExecRecords) /\ current_exec = Len(execs)
  BY DEF IInv, TypeOK, TableType, ExecRefs
<1>2. CASE execs' = execs
  BY <1>2 DEF LibsOnce
<1>3. CASE /\ ~HasLib(old, m.arg)
           /\ execs' = [execs EXCEPT ![current_exec] = new]
  <2>0. m \in Messages /\ m.kind = "EXTERNAL" /\ ~Malformed(m)
    BY ReceiveStep DEF HandleExternal
  <2>1. current_exec \in 1..Len(execs) /\ old \in ExecRecords
    BY <1>1, <2>0 DEF Malformed
  <2>2. old.libs \in Seq(LibEntries) /\ new.libs = Append(old.libs, entry)
    BY <2>1 DEF ExecRecords
  <2>3. \A i \in 1..Len(old.libs) : old.libs[i].lib # entry.lib
    BY <1>3 DEF HasLib
  <2>4. \A i, j \in 1..Len(old.libs) : old.libs[i].lib = old.libs[j].lib => i = j
    BY <2>1 DEF LibsOnce
  <2>5. \A i, j \in 1..Len(new.libs) : new.libs[i].lib = new.libs[j].lib => i = j
    <3> HIDE DEF entry, old, new
    <3> QED BY <2>2, <2>3, <2>4
  <2>6. Len(execs') = Len(execs) /\ execs'[current_exec] = new
        /\ \A e \in 1..Len(execs) : e # current_exec => execs'[e] = execs[e]
    <3> HIDE DEF new
    <3> QED BY <1>1, <1>3, <2>1
  <2> HIDE DEF new
  <2> QED BY <2>1, <2>5, <2>6 DEF LibsOnce
<1>4. \/ execs' = execs
      \/ /\ ~HasLib(old, m.arg)
         /\ execs' = [execs EXCEPT ![current_exec] = new]
  BY DEF HandleExternal, TakesLib
<1> QED BY <1>2, <1>3, <1>4

(* A new exec record has an empty list.                                     *)
LEMMA LibsOnceNewExec == IInv /\ LibsOnce /\ HandleNewExec => LibsOnce'
<1> SUFFICES ASSUME IInv, LibsOnce, HandleNewExec PROVE LibsOnce'
  OBVIOUS
<1> DEFINE rec == NewExecRecord(Head(queue))
<1>1. execs \in Seq(ExecRecords) /\ execs' = Append(execs, rec)
  BY DEF IInv, TypeOK, TableType, HandleNewExec
<1>2. rec.libs = <<>>
  BY DEF NewExecRecord
<1> HIDE DEF rec
<1>3. \A e \in 1..Len(execs') : (e \in 1..Len(execs) /\ execs'[e] = execs[e]) \/ execs'[e] = rec
  BY <1>1
<1> QED BY <1>2, <1>3 DEF LibsOnce

(* The processes of a family all report the libraries they use; the manager *)
(* lists each one once per exec.                                            *)
THEOREM EachLibraryOnce == Spec => []LibsOnce
<1>1. Init => LibsOnce
  BY DEF Init, LibsOnce
<1>2. IInv /\ LibsOnce /\ [Next]_vars => LibsOnce'
  <2> SUFFICES ASSUME IInv, LibsOnce, [Next]_vars PROVE LibsOnce'
    OBVIOUS
  <2>1. CASE HandleNewExec
    BY <2>1, LibsOnceNewExec
  <2>2. CASE HandleExternal
    BY <2>2, LibsOnceExternal
  <2>3. CASE ~HandleNewExec /\ ~HandleExternal
    BY <2>3, ExecsUntouched DEF LibsOnce, execVars
  <2> QED BY <2>1, <2>2, <2>3
<1> QED BY <1>1, <1>2, Invariant, PTL DEF Spec

-----------------------------------------------------------------------------
(* Refinement: the entries of the operations are the abstract trace, those  *)
(* of the file's lines the abstract file.                                   *)

Entry(e) == [kind |-> e.kind, pid |-> e.pid, from |-> e.from, arg |-> e.arg]

Trace == [i \in 1..Len(ops) |-> Entries(ops[i].recs)]

OnDisk == [i \in 1..Len(file.ops) |-> Entries(file.ops[i])]

(* One entry for each record or line.                                       *)
LEMMA EntriesOf ==
  ASSUME NEW S, NEW s \in Seq(S)
  PROVE  /\ Len(Entries(s)) = Len(s)
         /\ \A k \in 1..Len(s) : Entries(s)[k] = Entry(s[k])
         /\ Entries(s) \in Seq({Entry(e) : e \in S})
BY DEF Entries, Entry

LEMMA EntriesAppend ==
  ASSUME NEW S, NEW s \in Seq(S), NEW e \in S
  PROVE  Entries(Append(s, e)) = Append(Entries(s), Entry(e))
<1> DEFINE E == {Entry(x) : x \in S}
           t == Append(s, e)
<1>1. t \in Seq(S) /\ Len(t) = Len(s) + 1 /\ t[Len(s) + 1] = e
      /\ \A k \in 1..Len(s) : t[k] = s[k]
  OBVIOUS
<1>2. Entry(e) \in E
  OBVIOUS
<1>3. /\ Len(Entries(s)) = Len(s) /\ Entries(s) \in Seq(E)
      /\ \A k \in 1..Len(s) : Entries(s)[k] = Entry(s[k])
  BY EntriesOf
<1> HIDE DEF t
<1>4. /\ Len(Entries(t)) = Len(t) /\ Entries(t) \in Seq(E)
      /\ \A k \in 1..Len(t) : Entries(t)[k] = Entry(t[k])
  BY <1>1, EntriesOf
<1> HIDE DEF E
<1>5. /\ Append(Entries(s), Entry(e)) \in Seq(E)
      /\ Len(Append(Entries(s), Entry(e))) = Len(s) + 1
      /\ Append(Entries(s), Entry(e))[Len(s) + 1] = Entry(e)
      /\ \A k \in 1..Len(s) : Append(Entries(s), Entry(e))[k] = Entry(s[k])
  BY <1>2, <1>3
<1>6. \A k \in 1..Len(s)+1 : Entries(t)[k] = Append(Entries(s), Entry(e))[k]
  <2> TAKE k \in 1..Len(s)+1
  <2>1. CASE k = Len(s) + 1
    BY <1>1, <1>4, <1>5, <2>1
  <2>2. CASE k # Len(s) + 1
    <3>1. k \in 1..Len(s)
      BY <2>2
    <3> QED BY <1>1, <1>4, <1>5, <3>1
  <2> QED BY <2>1, <2>2
<1>7. Len(Entries(t)) = Len(Append(Entries(s), Entry(e)))
  BY <1>1, <1>4, <1>5
<1> QED BY <1>1, <1>4, <1>5, <1>6, <1>7, SeqEqual DEF t

LEMMA EntriesNone == Entries(<<>>) = <<>>
BY DEF Entries

(* All entries there are.                                                   *)
Logged == {Entry(e) : e \in Records \cup Lines}

(* The trace of a table.                                                    *)
LEMMA TraceType ==
  ASSUME NEW t \in Seq(OpRecords)
  PROVE  /\ [i \in 1..Len(t) |-> Entries(t[i].recs)] \in Seq(Seq(Logged))
         /\ Len([i \in 1..Len(t) |-> Entries(t[i].recs)]) = Len(t)
         /\ \A i \in 1..Len(t) :
              [j \in 1..Len(t) |-> Entries(t[j].recs)][i] = Entries(t[i].recs)
<1>1. \A i \in 1..Len(t) : Entries(t[i].recs) \in Seq(Logged)
  <2> TAKE i \in 1..Len(t)
  <2>1. t[i] \in OpRecords
    OBVIOUS
  <2>2. t[i].recs \in Seq(Records \cup Lines)
    BY <2>1 DEF OpRecords
  <2> QED BY <2>2, EntriesOf DEF Logged
<1> QED BY <1>1

(* A handler that stores nothing leaves the trace, but for what a failed    *)
(* realloc loses.                                                           *)
LEMMA TraceKept ==
  ASSUME IInv, InTable, NEW g \in Grown
  PROVE  /\ Trace \in Seq(Seq(Logged)) /\ Len(Trace) = Len(ops) /\ Len(ops) \in Nat \ {0}
         /\ WithCurrent(g) \in Seq(OpRecords) /\ Len(WithCurrent(g)) = Len(ops)
         /\ [i \in 1..Len(ops) |-> Entries(WithCurrent(g)[i].recs)] \in Abstract!Kept
<1> DEFINE c == op_ctr + 1
           w == WithCurrent(g)
           new == [i \in 1..Len(ops) |-> Entries(w[i].recs)]
<1>1. ops \in Seq(OpRecords) /\ c \in 1..Len(ops) /\ c = Len(ops) /\ ops[c] \in OpRecords
      /\ Fits(ops[c])
  BY CurrentExists
<1>2. g \in OpRecords /\ (g.recs = ops[c].recs \/ g.recs = <<>>)
  BY <1>1, GrownRoom
<1>3. w \in Seq(OpRecords) /\ Len(w) = Len(ops) /\ w[c] = g
      /\ \A j \in 1..Len(ops) : j # c => w[j] = ops[j]
  BY <1>1, <1>2, ReplaceElement DEF WithCurrent
<1>4. /\ Trace \in Seq(Seq(Logged)) /\ Len(Trace) = Len(ops)
      /\ \A i \in 1..Len(ops) : Trace[i] = Entries(ops[i].recs)
  BY <1>1, TraceType DEF Trace
<1> HIDE DEF w
<1>5. new \in Seq(Seq(Logged)) /\ Len(new) = Len(ops)
      /\ \A i \in 1..Len(ops) : new[i] = Entries(w[i].recs)
  BY <1>3, TraceType
<1> HIDE DEF new
<1>6. \A j \in 1..Len(ops) : j # c => new[j] = Trace[j]
  BY <1>3, <1>4, <1>5
<1>7. CASE g.recs = ops[c].recs
  <2>1. new[c] = Trace[c]
    BY <1>1, <1>3, <1>4, <1>5, <1>7
  <2>2. new = Trace
    BY <1>4, <1>5, <1>6, <2>1, SeqEqual
  <2> QED BY <1>1, <1>3, <1>4, <2>2 DEF Abstract!Kept, Trace, new, w
<1>8. CASE g.recs = <<>>
  <2>1. new[c] = <<>>
    BY <1>1, <1>3, <1>5, <1>8, EntriesNone
  <2> DEFINE none == [Trace EXCEPT ![Len(Trace)] = <<>>]
  <2>2. none \in Seq(Seq(Logged)) /\ Len(none) = Len(ops) /\ none[c] = <<>>
        /\ \A j \in 1..Len(ops) : j # c => none[j] = Trace[j]
    <3>1. <<>> \in Seq(Logged) /\ Len(Trace) = c
      BY <1>1, <1>4
    <3> QED BY <1>1, <1>4, <3>1, ReplaceElement
  <2> HIDE DEF none
  <2>3. new = none
    <3>1. \A j \in 1..Len(ops) : new[j] = none[j]
      BY <1>6, <2>1, <2>2
    <3> QED BY <1>5, <2>2, <3>1, SeqEqual
  <2>4. Abstract!Kept = {Trace, none}
    BY DEF Abstract!Kept, Trace, none
  <2>5. new \in Abstract!Kept
    BY <2>3, <2>4
  <2> QED BY <1>1, <1>3, <1>4, <2>5 DEF new, w
<1> QED BY <1>2, <1>7, <1>8

LEMMA TraceLost ==
  ASSUME IInv, InTable, StoresNone
  PROVE  Trace' \in Abstract!Kept
<1>1. PICK g \in Grown : ops' = WithCurrent(g)
  BY DEF StoresNone
<1>2. Len(ops') = Len(ops) /\ [i \in 1..Len(ops) |-> Entries(ops'[i].recs)] \in Abstract!Kept
  BY <1>1, TraceKept
<1> QED BY <1>2 DEF Trace

(* A handler that stores a record appends its entry to the last operation.  *)
LEMMA TraceExtended ==
  ASSUME IInv, InTable, UNCHANGED file, NEW r \in Records, StoresOne(r)
  PROVE  Abstract!Log
<1> DEFINE c == op_ctr + 1
<1>1. ops \in Seq(OpRecords) /\ c \in 1..Len(ops) /\ c = Len(ops) /\ ops[c] \in OpRecords
      /\ Fits(ops[c])
  BY CurrentExists
<1>2. PICK g \in Grown : g.slots # 0 /\ ops' = WithCurrent(Added(g, r))
  BY DEF StoresOne
<1> DEFINE new == Added(g, r)
<1>3. g \in OpRecords /\ Fits(g) /\ g.size < g.max_size /\ g.recs = ops[c].recs
  BY <1>1, <1>2, GrownRoom
<1>4. new \in OpRecords /\ new.recs = Append(ops[c].recs, r)
  BY <1>2, <1>3, AddedFits
<1> HIDE DEF new
<1>5. ops' \in Seq(OpRecords) /\ Len(ops') = Len(ops) /\ ops'[c] = new
      /\ \A j \in 1..Len(ops) : j # c => ops'[j] = ops[j]
  BY <1>1, <1>2, <1>4, ReplaceElement DEF WithCurrent, new
<1>6. /\ Len(Trace) = Len(ops) /\ Len(Trace') = Len(ops)
      /\ \A j \in 1..Len(ops) : Trace[j] = Entries(ops[j].recs)
      /\ \A j \in 1..Len(ops) : Trace'[j] = Entries(ops'[j].recs)
  BY <1>1, <1>5, TraceType DEF Trace
<1>7. Trace'[c] = Append(Trace[c], Entry(r)) /\ Trace[c] \in Seq(Logged)
  <2>1. ops[c].recs \in Seq(Records)
    BY <1>1 DEF OpRecords
  <2>2. Entries(Append(ops[c].recs, r)) = Append(Entries(ops[c].recs), Entry(r))
    BY <2>1, EntriesAppend
  <2>3. Entries(ops[c].recs) \in Seq(Logged)
    <3>1. ops[c].recs \in Seq(Records \cup Lines)
      BY <2>1
    <3> QED BY <3>1, EntriesOf DEF Logged
  <2> QED BY <1>1, <1>4, <1>5, <1>6, <2>2, <2>3
<1>8. /\ Len(Trace'[c]) = Len(Trace[c]) + 1
      /\ \A k \in 1..Len(Trace[c]) : Trace'[c][k] = Trace[c][k]
  BY <1>7
<1>9. \A i \in 1..c-1 : Trace'[i] = Trace[i]
  <2>1. \A i \in 1..c-1 : i \in 1..Len(ops) /\ i # c
    BY <1>1
  <2> QED BY <1>5, <1>6, <2>1
<1>10. /\ Len(Trace') = Len(Trace)
       /\ \A i \in 1..Len(Trace)-1 : Trace'[i] = Trace[i]
       /\ Len(Trace'[Len(Trace)]) = Len(Trace[Len(Trace)]) + 1
       /\ \A k \in 1..Len(Trace[Len(Trace)]) :
            Trace'[Len(Trace)][k] = Trace[Len(Trace)][k]
  BY <1>1, <1>6, <1>8, <1>9
<1> QED BY <1>10 DEF Abstract!Log, Trace

(* "next" opens an operation, or only reports that the table is full.       *)
LEMMA TraceBegun ==
  ASSUME IInv, HandleNext
  PROVE  Abstract!Begin \/ Abstract!Lose
<1>1. InTable /\ UNCHANGED file
  BY DEF HandleNext
<1>2. ops \in Seq(OpRecords)
  BY DEF IInv, TypeOK, TableType
<1>3. PICK g \in Grown, new \in NewOperations :
        ops' = IF op_ctr + 1 < MaxOps THEN Append(WithCurrent(g), new) ELSE WithCurrent(g)
  BY DEF HandleNext
<1> DEFINE w == WithCurrent(g)
           t == [i \in 1..Len(ops) |-> Entries(w[i].recs)]
<1>4. w \in Seq(OpRecords) /\ Len(w) = Len(ops) /\ t \in Abstract!Kept /\ Len(ops) \in Nat \ {0}
  BY <1>1, TraceKept
<1>5. new \in OpRecords /\ new.recs = <<>>
  BY NewOperationType
<1> HIDE DEF w
<1>6. CASE ops' = w
  <2>1. Trace' = t
    BY <1>4, <1>6 DEF Trace
  <2> QED BY <1>1, <1>4, <2>1 DEF Abstract!Lose, Trace
<1>7. CASE ops' = Append(w, new)
  <2>1. /\ ops' \in Seq(OpRecords) /\ Len(ops') = Len(ops) + 1 /\ ops'[Len(ops) + 1] = new
        /\ \A j \in 1..Len(ops) : ops'[j] = w[j]
    BY <1>4, <1>5, <1>7, AppendProperties
  <2>2. /\ Trace' \in Seq(Seq(Logged)) /\ Len(Trace') = Len(ops) + 1
        /\ \A j \in 1..Len(ops)+1 : Trace'[j] = Entries(ops'[j].recs)
    BY <2>1, TraceType DEF Trace
  <2>3. t \in Seq(Seq(Logged)) /\ Len(t) = Len(ops)
        /\ \A j \in 1..Len(ops) : t[j] = Entries(w[j].recs)
    BY <1>4, TraceType
  <2> HIDE DEF t
  <2>4. /\ Append(t, <<>>) \in Seq(Seq(Logged)) /\ Len(Append(t, <<>>)) = Len(ops) + 1
        /\ Append(t, <<>>)[Len(ops) + 1] = <<>>
        /\ \A j \in 1..Len(ops) : Append(t, <<>>)[j] = t[j]
    <3>1. <<>> \in Seq(Logged)
      OBVIOUS
    <3> QED BY <2>3, <3>1, AppendProperties
  <2>5. ASSUME NEW j \in 1..Len(ops)+1
        PROVE  Trace'[j] = Append(t, <<>>)[j]
    <3>1. CASE j = Len(ops) + 1
      BY <1>5, <2>1, <2>2, <2>4, <3>1, EntriesNone
    <3>2. CASE j # Len(ops) + 1
      <4>1. j \in 1..Len(ops)
        BY <1>4, <3>2
      <4> QED BY <2>1, <2>2, <2>3, <2>4, <4>1
    <3> QED BY <3>1, <3>2
  <2>6. Trace' = Append(t, <<>>)
    BY <2>2, <2>4, <2>5, SeqEqual
  <2> QED BY <1>1, <1>4, <2>6 DEF Abstract!Begin, Trace
<1> QED BY <1>3, <1>6, <1>7 DEF w

(* An operation that is completely in the file has the same entries there.  *)
LEMMA CompleteEqual ==
  ASSUME IInv, FileShows, NEW i \in 1..Len(file.ops), Complete(i)
  PROVE  Entries(file.ops[i]) = Entries(ops[i].recs)
<1>1. /\ ops \in Seq(OpRecords) /\ file.ops \in Seq(Seq(Lines)) /\ Len(file.ops) <= Len(ops)
  BY DEF IInv, TypeOK, TableType, FileType, FileShows
<1>2. ops[i] \in OpRecords /\ file.ops[i] \in Seq(Lines) /\ Fits(ops[i])
  BY <1>1 DEF IInv
<1>3. /\ ops[i].recs \in Seq(Records) /\ ops[i].size \in Nat
      /\ Len(file.ops[i]) = ops[i].size /\ (ops[i].size = 0 \/ ops[i].slots # 0)
      /\ Prefixed(file.ops[i], ops[i], execs)
  BY <1>2 DEF OpRecords, Complete, Readable, FileShows
<1>4. CASE ops[i].slots = 0
  <2>1. file.ops[i] = <<>> /\ ops[i].recs = <<>>
    <3>1. ops[i].recs = <<>>
      BY <1>2, <1>3, <1>4 DEF Fits
    <3>2. Len(file.ops[i]) = 0
      BY <1>3, <1>4
    <3> QED BY <1>2, <3>1, <3>2
  <2> QED BY <2>1
<1>5. CASE ops[i].slots # 0
  <2> DEFINE lines == file.ops[i]
             recs == ops[i].recs
  <2>1. Len(recs) = Len(lines)
    BY <1>2, <1>3, <1>5 DEF Fits
  <2>2. \A k \in 1..Len(lines) : SameEvent(lines[k], recs[k])
    BY <1>3, <1>5 DEF Prefixed
  <2>3. /\ Entries(lines) \in Seq(Logged) /\ Len(Entries(lines)) = Len(lines)
        /\ \A k \in 1..Len(lines) : Entries(lines)[k] = Entry(lines[k])
    <3>1. lines \in Seq(Records \cup Lines)
      BY <1>2
    <3> HIDE DEF lines
    <3> QED BY <3>1, EntriesOf DEF Logged
  <2>4. /\ Entries(recs) \in Seq(Logged) /\ Len(Entries(recs)) = Len(recs)
        /\ \A k \in 1..Len(recs) : Entries(recs)[k] = Entry(recs[k])
    <3>1. recs \in Seq(Records \cup Lines)
      BY <1>3
    <3> HIDE DEF recs
    <3> QED BY <3>1, EntriesOf DEF Logged
  <2>5. \A k \in 1..Len(lines) : Entry(lines[k]) = Entry(recs[k])
    BY <2>2 DEF Entry, SameEvent
  <2> HIDE DEF lines, recs
  <2>6. Entries(lines) = Entries(recs)
    BY <2>1, <2>3, <2>4, <2>5, SeqEqual
  <2> QED BY <2>6 DEF lines, recs
<1> QED BY <1>4, <1>5

(* The file's entries.                                                      *)
LEMMA OnDiskType ==
  ASSUME NEW f \in Seq(Seq(Lines))
  PROVE  /\ [i \in 1..Len(f) |-> Entries(f[i])] \in Seq(Seq(Logged))
         /\ Len([i \in 1..Len(f) |-> Entries(f[i])]) = Len(f)
         /\ \A i \in 1..Len(f) : [j \in 1..Len(f) |-> Entries(f[j])][i] = Entries(f[i])
<1>1. \A i \in 1..Len(f) : Entries(f[i]) \in Seq(Logged)
  <2> TAKE i \in 1..Len(f)
  <2>1. f[i] \in Seq(Lines)
    OBVIOUS
  <2>2. f[i] \in Seq(Records \cup Lines)
    BY <2>1
  <2> QED BY <2>2, EntriesOf DEF Logged
<1> QED BY <1>1

(* The export's steps write the trace line by line and close the file when  *)
(* all of it is there.                                                      *)
LEMMA OperationWritten ==
  ASSUME IInv, ExportNext
  PROVE  Abstract!Write
<1> DEFINE n == Len(file.ops)
<1>1. /\ Exporting /\ n < op_ctr + 1 /\ (n # 0 => Complete(n))
      /\ file' = [ops |-> Append(file.ops, <<>>), settings |-> exportsettings,
                  program |-> program, end |-> FALSE]
  BY DEF ExportNext
<1>2. /\ op_ctr + 1 = Len(ops) /\ ~file.end /\ UNCHANGED ops
      /\ ops \in Seq(OpRecords) /\ file.ops \in Seq(Seq(Lines)) /\ FileShows
  BY <1>1, ExportFinds
<1>3. file'.ops = Append(file.ops, <<>>) /\ file'.end = file.end
  <2>1. file.end \in BOOLEAN
    BY DEF IInv, TypeOK, FileType
  <2> QED BY <1>1, <1>2, <2>1
<1>4. /\ OnDisk \in Seq(Seq(Logged)) /\ Len(OnDisk) = n
      /\ \A i \in 1..n : OnDisk[i] = Entries(file.ops[i])
  BY <1>2, OnDiskType DEF OnDisk
<1>5. /\ Len(Trace) = Len(ops) /\ \A i \in 1..Len(ops) : Trace[i] = Entries(ops[i].recs)
      /\ Trace' = Trace
  BY <1>2, TraceType DEF Trace
<1>6. n # 0 => OnDisk[n] = Trace[n]
  <2> SUFFICES ASSUME n # 0 PROVE OnDisk[n] = Trace[n]
    OBVIOUS
  <2>1. n \in 1..Len(file.ops) /\ n \in 1..Len(ops)
    BY <1>2 DEF FileShows
  <2> QED BY <1>1, <1>2, <1>4, <1>5, <2>1, CompleteEqual
<1>7. OnDisk' = Append(OnDisk, <<>>)
  <2>1. <<>> \in Seq(Lines) /\ <<>> \in Seq(Logged)
    OBVIOUS
  <2>2. /\ file'.ops \in Seq(Seq(Lines)) /\ Len(file'.ops) = n + 1
        /\ file'.ops[n + 1] = <<>> /\ \A i \in 1..n : file'.ops[i] = file.ops[i]
    BY <1>2, <1>3, <2>1, AppendProperties
  <2>3. /\ OnDisk' \in Seq(Seq(Logged)) /\ Len(OnDisk') = n + 1
        /\ \A i \in 1..n+1 : OnDisk'[i] = Entries(file'.ops[i])
    BY <2>2, OnDiskType DEF OnDisk
  <2>4. /\ Append(OnDisk, <<>>) \in Seq(Seq(Logged)) /\ Len(Append(OnDisk, <<>>)) = n + 1
        /\ Append(OnDisk, <<>>)[n + 1] = <<>>
        /\ \A i \in 1..n : Append(OnDisk, <<>>)[i] = OnDisk[i]
    BY <1>4, <2>1, AppendProperties
  <2>5. \A i \in 1..n+1 : OnDisk'[i] = Append(OnDisk, <<>>)[i]
    <3> TAKE i \in 1..n+1
    <3>1. CASE i = n + 1
      BY <2>2, <2>3, <2>4, <3>1, EntriesNone
    <3>2. CASE i # n + 1
      <4>1. i \in 1..n
        BY <1>2, <3>2
      <4> QED BY <1>4, <2>2, <2>3, <2>4, <4>1
    <3> QED BY <3>1, <3>2
  <2> QED BY <2>3, <2>4, <2>5, SeqEqual
<1>8. n < Len(Trace)
  BY <1>1, <1>2, <1>5
<1> QED BY <1>3, <1>4, <1>5, <1>6, <1>7, <1>8 DEF Abstract!Write, Trace, OnDisk

LEMMA LineWritten ==
  ASSUME IInv, ExportRecord
  PROVE  Abstract!Write
<1> DEFINE n == Len(file.ops)
           old == file.ops[n]
           k == Len(old) + 1
           r == ops[n].recs[k]
           line == LineOf(r)
<1>1. /\ Exporting /\ n # 0 /\ Readable(ops[n]) /\ Len(old) < ops[n].size
      /\ file' = [file EXCEPT !.ops = [file.ops EXCEPT ![n] = Append(old, line)]]
  BY DEF ExportRecord
<1>2. /\ UNCHANGED ops /\ FileShows
      /\ ops \in Seq(OpRecords) /\ file.ops \in Seq(Seq(Lines))
      /\ file = [ops |-> file.ops, settings |-> file.settings,
                 program |-> file.program, end |-> file.end]
  BY <1>1, ExportFinds
<1>3. n \in 1..Len(file.ops) /\ n \in 1..Len(ops) /\ old \in Seq(Lines) /\ ops[n] \in OpRecords
  BY <1>1, <1>2 DEF FileShows
<1>4. Len(ops[n].recs) = ops[n].size /\ ops[n].size \in Nat /\ ops[n].recs \in Seq(Records)
  <2>1. /\ ops[n].recs \in Seq(Records) /\ ops[n].size \in Nat /\ ops[n].slots \in Nat
        /\ Len(old) \in Nat
    BY <1>3 DEF OpRecords
  <2>2. ops[n].slots # 0 /\ Fits(ops[n])
    BY <1>1, <1>3, <2>1 DEF Readable, IInv
  <2> QED BY <2>1, <2>2 DEF Fits
<1>5. k \in 1..Len(ops[n].recs)
  BY <1>1, <1>3, <1>4
<1>6. line \in Lines /\ Entry(line) = Entry(r)
  BY <1>3, <1>5, LineType DEF SameEvent, Entry
<1>7. /\ Len(Trace) = Len(ops) /\ Trace' = Trace
      /\ Trace[n] = Entries(ops[n].recs)
      /\ Len(Trace[n]) = Len(ops[n].recs) /\ Trace[n][k] = Entry(r)
  <2>1. Len(Trace) = Len(ops) /\ Trace' = Trace /\ Trace[n] = Entries(ops[n].recs)
    BY <1>2, <1>3, TraceType DEF Trace
  <2>2. Len(Entries(ops[n].recs)) = Len(ops[n].recs)
        /\ Entries(ops[n].recs)[k] = Entry(ops[n].recs[k])
    BY <1>4, <1>5, EntriesOf
  <2> QED BY <2>1, <2>2
<1> HIDE DEF r, line
<1>8. /\ OnDisk \in Seq(Seq(Logged)) /\ Len(OnDisk) = n
      /\ \A i \in 1..n : OnDisk[i] = Entries(file.ops[i])
      /\ Len(OnDisk[n]) = Len(old) /\ OnDisk[n] \in Seq(Logged)
  <2>1. /\ OnDisk \in Seq(Seq(Logged)) /\ Len(OnDisk) = n
        /\ \A i \in 1..n : OnDisk[i] = Entries(file.ops[i])
    BY <1>2, OnDiskType DEF OnDisk
  <2>2. Len(Entries(old)) = Len(old)
    BY <1>3, EntriesOf
  <2> QED BY <1>3, <2>1, <2>2
<1> DEFINE new == [file.ops EXCEPT ![n] = Append(old, line)]
<1>9. new \in Seq(Seq(Lines)) /\ Len(new) = n /\ new[n] = Append(old, line)
      /\ \A i \in 1..n : i # n => new[i] = file.ops[i]
  <2>1. Append(old, line) \in Seq(Lines)
    BY <1>3, <1>6
  <2> HIDE DEF old
  <2> QED BY <1>2, <1>3, <2>1, ReplaceElement
<1> HIDE DEF new
<1>10. file'.ops = new /\ file'.end = file.end
  <2>1. file' = [ops |-> new, settings |-> file.settings,
                 program |-> file.program, end |-> file.end]
    BY <1>1, <1>2 DEF new
  <2> QED BY <2>1
<1>11. /\ OnDisk' \in Seq(Seq(Logged)) /\ Len(OnDisk') = n
       /\ \A i \in 1..n : OnDisk'[i] = Entries(new[i])
  BY <1>9, <1>10, OnDiskType DEF OnDisk
<1>12. Entries(new[n]) = Append(OnDisk[n], Entry(r))
  <2>1. Entries(Append(old, line)) = Append(Entries(old), Entry(line))
    <3> HIDE DEF old
    <3> QED BY <1>3, <1>6, EntriesAppend
  <2>2. OnDisk[n] = Entries(old)
    BY <1>3, <1>8
  <2> QED BY <1>6, <1>9, <2>1, <2>2
<1> DEFINE more == [OnDisk EXCEPT ![n] = Append(OnDisk[n], Trace[n][Len(OnDisk[n]) + 1])]
<1>13. /\ more \in Seq(Seq(Logged)) /\ Len(more) = n
       /\ more[n] = Append(OnDisk[n], Entry(r))
       /\ \A i \in 1..n : i # n => more[i] = OnDisk[i]
  <2>1. Trace[n][Len(OnDisk[n]) + 1] = Entry(r) /\ Entry(r) \in Logged
    <3>1. Entry(r) \in Logged
      BY <1>6 DEF Logged
    <3> QED BY <1>7, <1>8, <3>1
  <2>2. Append(OnDisk[n], Entry(r)) \in Seq(Logged)
    BY <1>8, <2>1
  <2>3. more = [OnDisk EXCEPT ![n] = Append(OnDisk[n], Entry(r))]
    BY <2>1
  <2> HIDE DEF more
  <2> QED BY <1>3, <1>8, <2>2, <2>3, ReplaceElement
<1> HIDE DEF more
<1>14. OnDisk' = more
  <2>1. \A i \in 1..n : OnDisk'[i] = more[i]
    BY <1>8, <1>9, <1>11, <1>12, <1>13
  <2> QED BY <1>11, <1>13, <2>1, SeqEqual
<1>15. Len(OnDisk) # 0 /\ Len(OnDisk[Len(OnDisk)]) < Len(Trace[Len(OnDisk)])
  BY <1>1, <1>4, <1>7, <1>8
<1>16. OnDisk' = [OnDisk EXCEPT ![Len(OnDisk)] =
                    Append(@, Trace[Len(OnDisk)][Len(@) + 1])]
  BY <1>8, <1>14 DEF more
<1> QED BY <1>7, <1>10, <1>15, <1>16 DEF Abstract!Write, Trace, OnDisk

LEMMA FileClosed ==
  ASSUME IInv, ExportEnd
  PROVE  Abstract!Close
<1> DEFINE n == Len(file.ops)
<1>1. Exporting /\ n = op_ctr + 1 /\ Complete(n) /\ file' = [file EXCEPT !.end = TRUE]
  BY DEF ExportEnd
<1>2. /\ op_ctr + 1 = Len(ops) /\ UNCHANGED ops /\ FileShows
      /\ ops \in Seq(OpRecords) /\ file.ops \in Seq(Seq(Lines))
      /\ file = [ops |-> file.ops, settings |-> file.settings,
                 program |-> file.program, end |-> file.end]
      /\ \A i \in 1..n : i # n => Complete(i)
  BY <1>1, ExportFinds
<1>3. file'.ops = file.ops /\ file'.end = TRUE
  BY <1>1, <1>2
<1>4. \A i \in 1..n : Entries(file.ops[i]) = Entries(ops[i].recs)
  BY <1>1, <1>2, CompleteEqual
<1>5. OnDisk = Trace
  BY <1>1, <1>2, <1>4 DEF OnDisk, Trace
<1> QED BY <1>2, <1>3, <1>5 DEF Abstract!Close, OnDisk, Trace

(* Every step of the recorder is a step of the log, or invisible in it.     *)
LEMMA LogStepOrStutter ==
  IInv /\ [Next]_vars => [Abstract!Next]_Abstract!vars
<1> SUFFICES ASSUME IInv, [Next]_vars
             PROVE  Abstract!Next \/ UNCHANGED Abstract!vars
  OBVIOUS
<1>0. lost \subseteq Int
  BY DEF IInv, TypeOK, OptionType
<1>1. CASE Senders \/ HandleComment \/ HandlePastTable \/ Killed \/ ExportCrash \/ UNCHANGED vars
  <2>1. ops' = ops /\ file' = file
    BY <1>1 DEF Senders, Announce, NewImage, Fork, ReportFork, ReportLibrary, Report, Leave,
       Command, Typed, Post, HandleComment, HandlePastTable, Killed, ExportCrash, Exporting,
       vars, memoryVars
  <2> QED BY <2>1 DEF Abstract!vars
<1>2. ASSUME NEW K, Receive(K), InTable, NothingStored \/ Dropped, UNCHANGED file
      PROVE  Abstract!Next
  <2>1. StoresNone
    BY <1>0, <1>2, ReceiveStep, StoresDo
  <2>2. Trace' \in Abstract!Kept
    BY <1>2, <2>1, TraceLost
  <2> QED BY <1>2, <2>2 DEF Abstract!Next, Abstract!Lose, Trace
<1>3. CASE \/ HandleWithoutArray \/ HandleMalformed \/ HandleOverrun \/ HandleOutOfMemory
           \/ HandleExternal \/ HandleSet \/ HandleOther \/ HandleQuit
  <2>1. InTable /\ (NothingStored \/ Dropped) /\ UNCHANGED file
    BY <1>3 DEF HandleWithoutArray, HandleMalformed, HandleOverrun, HandleOutOfMemory,
       HandleExternal, HandleSet, HandleOther, HandleQuit, NothingStored
  <2>2. PICK K : Receive(K)
    BY <1>3 DEF HandleWithoutArray, HandleMalformed, HandleOverrun, HandleOutOfMemory,
       HandleExternal, HandleSet, HandleOther, HandleQuit
  <2> QED BY <1>2, <2>1, <2>2
<1>4. CASE HandleSave
  <2>1. InTable /\ NothingStored /\ Receive({"save"})
    BY <1>4 DEF HandleSave
  <2>2. CASE file' = file
    BY <1>2, <2>1, <2>2
  <2>3. CASE file' = NoFile
    <3>1. file'.ops = <<>> /\ file'.end = FALSE
      BY <2>3 DEF NoFile
    <3>2. StoresNone
      BY <1>0, <2>1, ReceiveStep, StoresDo
    <3>3. Trace' \in Abstract!Kept
      BY <2>1, <3>2, TraceLost
    <3>4. [i \in 1..Len(file'.ops) |-> Entries(file'.ops[i])] = <<>>
      BY <3>1
    <3> QED BY <3>1, <3>3, <3>4 DEF Abstract!Next, Abstract!Truncate, Trace
  <2> QED BY <1>4, <2>2, <2>3 DEF HandleSave
<1>5. ASSUME NEW K, Receive(K), InTable, UNCHANGED file, K \subseteq RecordKinds,
             NEW pid \in Pids, NEW n \in Nat,
             NothingStored \/ Stored(RecordOf(Head(queue), pid, n))
      PROVE  Abstract!Next
  <2>1. Head(queue) \in Messages /\ Head(queue).kind \in RecordKinds /\ Handled \in Int
    BY <1>5, ReceiveStep
  <2>2. RecordOf(Head(queue), pid, n) \in Records
    BY <2>1, RecordType
  <2>3. CASE NothingStored
    BY <1>2, <1>5, <2>3
  <2>4. CASE Stored(RecordOf(Head(queue), pid, n))
    <3>1. StoresOne(RecordOf(Head(queue), pid, n))
      BY <1>0, <2>1, <2>4, StoresDo
    <3> QED BY <1>5, <2>2, <3>1, TraceExtended DEF Abstract!Next
  <2> QED BY <1>5, <2>3, <2>4
<1>6. CASE HandleHeapEvent \/ HandleFree \/ HandleFork \/ HandleCustom \/ HandleNewExec
  <2> DEFINE m == Head(queue)
  <2>1. InTable /\ UNCHANGED file
    BY <1>6 DEF HandleHeapEvent, HandleFree, HandleFork, HandleCustom, HandleNewExec
  <2>2. PICK K : Receive(K) /\ K \subseteq RecordKinds
    BY <1>6 DEF RecordKinds, HandleHeapEvent, HandleFree, HandleFork, HandleCustom,
       HandleNewExec
  <2>3. m.pid \in Pids /\ Console \in Pids
    BY <2>2, ReceiveStep DEF Messages, Pids
  <2>4. Len(execs) + 1 \in Nat /\ 0 \in Nat
    BY DEF IInv, TypeOK, TableType
  <2>5. NothingStored \/ \E pid \in Pids, n \in Nat : Stored(RecordOf(m, pid, n))
    BY <1>6, <2>3, <2>4 DEF HandleHeapEvent, HandleFree, HandleFork, HandleCustom,
       HandleNewExec
  <2> HIDE DEF m
  <2>6. PICK pid \in Pids, n \in Nat : NothingStored \/ Stored(RecordOf(m, pid, n))
    BY <2>3, <2>4, <2>5
  <2> QED BY <1>5, <2>1, <2>2, <2>6 DEF m
<1>7. CASE HandleNext
  BY <1>7, TraceBegun DEF Abstract!Next
<1>8. CASE ExportNext \/ ExportRecord \/ ExportEnd
  BY <1>8, OperationWritten, LineWritten, FileClosed DEF Abstract!Next
<1> QED BY <1>1, <1>3, <1>4, <1>6, <1>7, <1>8 DEF Next, Manager

(* The recorder implements the append-only log: whatever the messages, the  *)
(* failures and the signals, an entry once logged keeps its operation and   *)
(* its place unless its whole operation is lost at once, the file is at     *)
(* every moment a beginning of the log as it was at the save, and is closed *)
(* only as a copy of all of it.                                             *)
THEOREM RecorderImplementsLog == Spec => ImplementsLog
<1>1. Init => Abstract!Init
  <2> SUFFICES ASSUME Init PROVE Abstract!Init
    OBVIOUS
  <2>1. PICK new \in NewOperations : ops = <<new>>
    BY DEF Init
  <2>2. new.recs = <<>> /\ file.ops = <<>> /\ file.end = FALSE
    BY NewOperationType DEF Init, NoFile
  <2>3. [i \in 1..Len(ops) |-> Entries(ops[i].recs)] = << <<>> >>
    BY <2>1, <2>2, EntriesNone
  <2>4. [i \in 1..Len(file.ops) |-> Entries(file.ops[i])] = <<>>
    BY <2>2
  <2> QED BY <2>2, <2>3, <2>4 DEF Abstract!Init
<1> QED BY <1>1, LogStepOrStutter, Invariant, PTL DEF Spec, ImplementsLog, Abstract!Spec
=============================================================================
