----------------------- MODULE RecorderHistoryProofs -----------------------
(***************************************************************************)
(* Theorems about Recorder that follow the messages from the senders       *)
(* through the queue into the table, for every value of its constants:     *)
(* memory is exactly what the messages said, every crash of the manager    *)
(* has one of the causes named, and a library goes to a wrong exec only    *)
(* when another process has announced one since.                           *)
(***************************************************************************)
EXTENDS RecorderProofs, FiniteSetTheorems

(* The queue holds what was sent and is not handled yet, in that order. All *)
(* invariants of this module are about sent[1..Handled] on the manager's    *)
(* side and about sent on the senders' side; this one connects them.        *)
QueueIsRest ==
  /\ Len(queue) <= Len(sent)
  /\ \A i \in 1..Len(queue) : queue[i] = sent[Handled + i]

(* A message is sent: it joins the end of sent, and nothing is handled.     *)
LEMMA Posted ==
  ASSUME IInv, QueueIsRest, NEW m \in Messages, Post(m)
  PROVE  /\ QueueIsRest' /\ Handled' = Handled
         /\ sent' = Append(sent, m) /\ Len(sent') = Len(sent) + 1 /\ sent'[Len(sent) + 1] = m
         /\ \A i \in 1..Len(sent) : sent'[i] = sent[i]
         /\ Handled \in 0..Len(sent)
<1>1. queue \in Seq(Messages) /\ sent \in Seq(Messages) BY DEF IInv, TypeOK, QueueType
<1>2. queue' = Append(queue, m) /\ sent' = Append(sent, m) BY DEF Post
<1>3. /\ Len(queue') = Len(queue) + 1 /\ queue'[Len(queue) + 1] = m
      /\ \A i \in 1..Len(queue) : queue'[i] = queue[i]
  BY <1>1, <1>2
<1>4. /\ Len(sent') = Len(sent) + 1 /\ sent'[Len(sent) + 1] = m
      /\ \A i \in 1..Len(sent) : sent'[i] = sent[i]
  BY <1>1, <1>2
<1>5. Len(queue) \in Nat /\ Len(sent) \in Nat /\ Len(queue) <= Len(sent)
  BY <1>1 DEF QueueIsRest
<1>6. Handled' = Handled /\ Handled \in 0..Len(sent) /\ Handled = Len(sent) - Len(queue)
  BY <1>3, <1>4, <1>5 DEF Handled
<1>7. ASSUME NEW i \in 1..Len(queue') PROVE queue'[i] = sent'[Handled' + i]
  <2>1. CASE i \in 1..Len(queue)
    <3>1. queue[i] = sent[Handled + i] BY <2>1 DEF QueueIsRest
    <3>2. Handled + i \in 1..Len(sent) BY <1>5, <1>6, <2>1
    <3> QED BY <1>3, <1>4, <1>6, <2>1, <3>1, <3>2
  <2>2. CASE i = Len(queue) + 1
    <3>1. Handled + i = Len(sent) + 1 BY <1>5, <1>6, <2>2
    <3> QED BY <1>3, <1>4, <1>6, <2>2, <3>1
  <2> QED BY <1>3, <1>5, <2>1, <2>2
<1>8. QueueIsRest'
  <2>1. Len(queue') <= Len(sent') BY <1>3, <1>4, <1>5
  <2> QED BY <1>7, <2>1 DEF QueueIsRest
<1> QED BY <1>2, <1>4, <1>6, <1>8

(* A message is taken: it is the next one of sent.                          *)
LEMMA Received ==
  ASSUME IInv, QueueIsRest, NEW K, Receive(K)
  PROVE  /\ QueueIsRest' /\ Handled' = Handled + 1 /\ sent' = sent
         /\ Handled \in Nat /\ Handled + 1 \in 1..Len(sent)
         /\ Head(queue) = sent[Handled + 1]
         /\ Head(queue) \in Messages /\ Head(queue).kind \in K
<1>1. queue \in Seq(Messages) /\ sent \in Seq(Messages) BY DEF IInv, TypeOK, QueueType
<1>2. queue # <<>> /\ queue' = Tail(queue) /\ sent' = sent /\ Head(queue).kind \in K
  BY DEF Receive
<1>3. /\ Len(queue) \in Nat /\ Len(queue) # 0 /\ Len(sent) \in Nat /\ Len(queue) <= Len(sent)
      /\ Head(queue) = queue[1] /\ Head(queue) \in Messages
  BY <1>1, <1>2 DEF QueueIsRest
<1>4. /\ Len(queue') = Len(queue) - 1
      /\ \A i \in 1..Len(queue') : queue'[i] = queue[i + 1]
  BY <1>1, <1>2
<1>5. /\ Handled = Len(sent) - Len(queue) /\ Handled' = Handled + 1
      /\ Handled \in Nat /\ Handled + 1 \in 1..Len(sent)
  BY <1>2, <1>3, <1>4 DEF Handled
<1>6. Head(queue) = sent[Handled + 1]
  <2>1. 1 \in 1..Len(queue) BY <1>3
  <2> QED BY <1>3, <2>1 DEF QueueIsRest
<1>7. ASSUME NEW i \in 1..Len(queue') PROVE queue'[i] = sent'[Handled' + i]
  <2>1. i + 1 \in 1..Len(queue) /\ i \in Nat BY <1>3, <1>4
  <2>2. queue[i + 1] = sent[Handled + (i + 1)] BY <2>1 DEF QueueIsRest
  <2>3. Handled + (i + 1) = Handled' + i BY <1>5, <2>1
  <2> QED BY <1>2, <1>4, <2>2, <2>3
<1> QED BY <1>2, <1>3, <1>4, <1>5, <1>6, <1>7 DEF QueueIsRest

(* Nothing moves.                                                           *)
LEMMA NothingMoved ==
  ASSUME QueueIsRest, UNCHANGED <<queue, sent>>
  PROVE  QueueIsRest' /\ Handled' = Handled
BY DEF QueueIsRest, Handled

-----------------------------------------------------------------------------
(* The log a list of messages should give.                                  *)

(* Its counts are natural numbers, and no operation lies past the table.    *)
LEMMA NextsCount ==
  ASSUME NEW msgs, NEW n \in Nat, NEW w
  PROVE  /\ IsFiniteSet(Nexts(msgs, n, w)) /\ Cardinality(Nexts(msgs, n, w)) \in Nat
         /\ OperationAt(msgs, n, w) \in 1..MaxOps
<1>1. Nexts(msgs, n, w) \in SUBSET (1..n)
  BY DEF Nexts
<1>2. IsFiniteSet(Nexts(msgs, n, w))
  BY <1>1, FS_Interval, FS_Subset
<1>3. Cardinality(Nexts(msgs, n, w)) \in Nat
  BY <1>2, FS_CardinalityType
<1>4. OperationAt(msgs, n, w) \in 1..MaxOps
  BY <1>3, SizesAssumption DEF OperationAt
<1> QED BY <1>2, <1>3, <1>4

LEMMA RecordedCount ==
  ASSUME NEW msgs, NEW n \in Nat, NEW w, NEW op
  PROVE  /\ IsFiniteSet(Recorded(op, msgs, n, w))
         /\ Cardinality(Recorded(op, msgs, n, w)) \in Nat
<1>1. Recorded(op, msgs, n, w) \in SUBSET (1..n)
  BY DEF Recorded
<1>2. IsFiniteSet(Recorded(op, msgs, n, w))
  BY <1>1, FS_Interval, FS_Subset
<1> QED BY <1>2, FS_CardinalityType

(* Two lists say the same up to message n.                                  *)
Agree(msgs, more, n, w, v) == \A i \in 1..n : msgs[i] = more[i] /\ (i \in w <=> i \in v)

LEMMA AgreeBefore ==
  ASSUME NEW msgs, NEW more, NEW n \in Nat, NEW w, NEW v, Agree(msgs, more, n, w, v),
         NEW i \in 1..n
  PROVE  i \in Nat /\ Agree(msgs, more, i, w, v) /\ msgs[i] = more[i]
BY DEF Agree

(* The counts depend only on the messages they are made of.                 *)
LEMMA OperationLocal ==
  ASSUME NEW msgs, NEW more, NEW n \in Nat, NEW w, NEW v, Agree(msgs, more, n, w, v)
  PROVE  Nexts(msgs, n, w) = Nexts(more, n, v) /\ OperationAt(msgs, n, w) = OperationAt(more, n, v)
<1>1. Nexts(msgs, n, w) = Nexts(more, n, v)
  BY DEF Nexts, Agree
<1> QED BY <1>1 DEF OperationAt

LEMMA RecordedLocal ==
  ASSUME NEW msgs, NEW more, NEW n \in Nat, NEW w, NEW v, Agree(msgs, more, n, w, v), NEW op
  PROVE  Recorded(op, msgs, n, w) = Recorded(op, more, n, v)
<1>1. \A i \in 1..n : OperationAt(msgs, i, w) = OperationAt(more, i, v)
  BY AgreeBefore, OperationLocal
<1> QED BY <1>1 DEF Recorded, Agree

(* So does whether a log is the right one.                                  *)
LEMMA IsLogLocal ==
  ASSUME NEW log, NEW msgs, NEW more, NEW n \in Nat, NEW w, NEW v,
         Agree(msgs, more, n, w, v), IsLog(log, msgs, n, w)
  PROVE  IsLog(log, more, n, v)
<1>1. Len(log) = OperationAt(more, n, v)
  BY OperationLocal DEF IsLog
<1>2. ASSUME NEW op \in 1..Len(log)
      PROVE  /\ Len(log[op]) = Cardinality(Recorded(op, more, n, v))
             /\ \A i \in Recorded(op, more, n, v) :
                  Shows(log[op][Cardinality(Recorded(op, more, i, v))], more[i])
  <2>1. Recorded(op, msgs, n, w) = Recorded(op, more, n, v)
    BY RecordedLocal
  <2>2. Len(log[op]) = Cardinality(Recorded(op, more, n, v))
    BY <2>1 DEF IsLog
  <2>3. ASSUME NEW i \in Recorded(op, more, n, v)
        PROVE  Shows(log[op][Cardinality(Recorded(op, more, i, v))], more[i])
    <3>1. i \in 1..n
      BY DEF Recorded
    <3>2. i \in Nat /\ Agree(msgs, more, i, w, v) /\ msgs[i] = more[i]
      BY <3>1, AgreeBefore
    <3>3. Recorded(op, msgs, i, w) = Recorded(op, more, i, v)
      BY <3>2, RecordedLocal
    <3>4. Shows(log[op][Cardinality(Recorded(op, msgs, i, w))], msgs[i])
      BY <2>1 DEF IsLog
    <3> QED BY <3>2, <3>3, <3>4
  <2> QED BY <2>2, <2>3
<1> QED BY <1>1, <1>2 DEF IsLog

(* One message more: it begins an operation, joins one, or does neither.    *)
Begins(msgs, n, w) == msgs[n].kind = "next" /\ n \notin w
Joins(msgs, n, w) == IsRecorded(msgs[n]) /\ n \notin w

LEMMA OneMore ==
  ASSUME NEW n \in Nat
  PROVE  /\ \A i : i \in 1..n+1 <=> (i \in 1..n \/ i = n + 1)
         /\ n + 1 \notin 1..n
OBVIOUS

(* A message that begins no operation leaves the current one current.       *)
LEMMA SameOperation ==
  ASSUME NEW msgs, NEW n \in Nat, NEW w, ~Begins(msgs, n + 1, w)
  PROVE  /\ Nexts(msgs, n + 1, w) = Nexts(msgs, n, w)
         /\ OperationAt(msgs, n + 1, w) = OperationAt(msgs, n, w)
<1>1. Nexts(msgs, n + 1, w) = Nexts(msgs, n, w)
  BY OneMore DEF Begins, Nexts
<1> QED BY <1>1 DEF OperationAt

LEMMA NextOperation ==
  ASSUME NEW msgs, NEW n \in Nat, NEW w, Begins(msgs, n + 1, w)
  PROVE  Cardinality(Nexts(msgs, n + 1, w)) = Cardinality(Nexts(msgs, n, w)) + 1
<1>1. Nexts(msgs, n + 1, w) = Nexts(msgs, n, w) \cup {n + 1} /\ n + 1 \notin Nexts(msgs, n, w)
  BY OneMore DEF Begins, Nexts
<1> QED BY <1>1, NextsCount, FS_AddElement

(* A message that is not recorded leaves the records alone.                 *)
LEMMA SameRecords ==
  ASSUME NEW msgs, NEW n \in Nat, NEW w, NEW op,
         Joins(msgs, n + 1, w) => OperationAt(msgs, n + 1, w) # op
  PROVE  Recorded(op, msgs, n + 1, w) = Recorded(op, msgs, n, w)
BY OneMore DEF Joins, Recorded

LEMMA NextRecord ==
  ASSUME NEW msgs, NEW n \in Nat, NEW w, NEW op,
         Joins(msgs, n + 1, w), OperationAt(msgs, n + 1, w) = op
  PROVE  /\ \A i : i \in Recorded(op, msgs, n + 1, w) <=> (i \in Recorded(op, msgs, n, w) \/ i = n + 1)
         /\ Cardinality(Recorded(op, msgs, n + 1, w)) = Cardinality(Recorded(op, msgs, n, w)) + 1
<1>1. /\ Recorded(op, msgs, n + 1, w) = Recorded(op, msgs, n, w) \cup {n + 1}
      /\ n + 1 \notin Recorded(op, msgs, n, w)
  BY OneMore DEF Joins, Recorded
<1>2. Cardinality(Recorded(op, msgs, n + 1, w)) = Cardinality(Recorded(op, msgs, n, w)) + 1
  BY <1>1, RecordedCount, FS_AddElement
<1> QED BY <1>1, <1>2

(* The messages that joined an operation before one of them did.            *)
LEMMA EarlierRecords ==
  ASSUME NEW msgs, NEW n \in Nat, NEW w, NEW op, NEW i \in Recorded(op, msgs, n, w)
  PROVE  /\ i \in 1..n /\ Cardinality(Recorded(op, msgs, i, w)) \in Nat \ {0}
         /\ Cardinality(Recorded(op, msgs, i, w)) <= Cardinality(Recorded(op, msgs, n, w))
<1>1. i \in 1..n /\ i \in Nat /\ i \in Recorded(op, msgs, i, w)
  BY DEF Recorded
<1>2. Recorded(op, msgs, i, w) \in SUBSET Recorded(op, msgs, n, w)
  BY <1>1 DEF Recorded
<1>3. IsFiniteSet(Recorded(op, msgs, n, w)) /\ IsFiniteSet(Recorded(op, msgs, i, w))
      /\ Cardinality(Recorded(op, msgs, i, w)) \in Nat
  BY <1>1, RecordedCount
<1>4. Cardinality(Recorded(op, msgs, i, w)) <= Cardinality(Recorded(op, msgs, n, w))
  BY <1>2, <1>3, FS_Subset
<1>5. Cardinality(Recorded(op, msgs, i, w)) # 0
  BY <1>1, <1>3, FS_EmptySet
<1> QED BY <1>1, <1>3, <1>4, <1>5

(* A message that says nothing leaves the log as it is.                     *)
LEMMA LogSkips ==
  ASSUME NEW log, NEW msgs, NEW n \in Nat, NEW w, IsLog(log, msgs, n, w),
         ~Begins(msgs, n + 1, w), ~Joins(msgs, n + 1, w)
  PROVE  IsLog(log, msgs, n + 1, w)
<1>1. OperationAt(msgs, n + 1, w) = OperationAt(msgs, n, w)
  BY SameOperation
<1>2. \A op : Recorded(op, msgs, n + 1, w) = Recorded(op, msgs, n, w)
  BY SameRecords
<1> QED BY <1>1, <1>2 DEF IsLog

(* A recorded message makes the last operation one record longer.           *)
LEMMA LogGrows ==
  ASSUME NEW log \in Seq(Seq(Records)), NEW longer \in Seq(Seq(Records)),
         NEW msgs, NEW n \in Nat, NEW w, IsLog(log, msgs, n, w),
         Joins(msgs, n + 1, w),
         NEW r \in Records, Shows(r, msgs[n + 1]),
         Len(longer) = Len(log), longer[Len(log)] = Append(log[Len(log)], r),
         \A op \in 1..Len(log) : op # Len(log) => longer[op] = log[op]
  PROVE  IsLog(longer, msgs, n + 1, w)
<1> DEFINE R(op, i) == Recorded(op, msgs, i, w)
<1>1. ~Begins(msgs, n + 1, w)
  BY DEF Begins, Joins, IsRecorded, RecordKinds, HeapKinds
<1>2. Len(log) = OperationAt(msgs, n + 1, w)
  BY <1>1, SameOperation DEF IsLog
<1>3. ASSUME NEW op \in 1..Len(log)
      PROVE  /\ Len(longer[op]) = Cardinality(R(op, n + 1))
             /\ \A i \in R(op, n + 1) : Shows(longer[op][Cardinality(R(op, i))], msgs[i])
  <2>1. /\ Len(log[op]) = Cardinality(R(op, n))
        /\ \A i \in R(op, n) : Shows(log[op][Cardinality(R(op, i))], msgs[i])
    BY DEF IsLog
  <2>2. CASE op # Len(log)
    <3>1. R(op, n + 1) = R(op, n)
      BY <1>2, <2>2, SameRecords
    <3>2. longer[op] = log[op]
      BY <2>2
    <3> QED BY <2>1, <3>1, <3>2
  <2>3. CASE op = Len(log)
    <3>1. /\ \A i : i \in R(op, n + 1) <=> (i \in R(op, n) \/ i = n + 1)
          /\ Cardinality(R(op, n + 1)) = Cardinality(R(op, n)) + 1
      <4>1. OperationAt(msgs, n + 1, w) = op
        BY <1>2, <2>3
      <4>2. Joins(msgs, n + 1, w) /\ n \in Nat
        OBVIOUS
      <4>3. Cardinality(R(op, n + 1)) = Cardinality(R(op, n)) + 1
        BY ONLY <4>1, <4>2, NextRecord
      <4>4. ASSUME NEW i PROVE i \in R(op, n + 1) <=> (i \in R(op, n) \/ i = n + 1)
        BY ONLY <4>1, <4>2, NextRecord
      <4> QED BY <4>3, <4>4
    <3>2. log[op] \in Seq(Records) /\ longer[op] = Append(log[op], r)
      BY <2>3
    <3>3. /\ Len(longer[op]) = Len(log[op]) + 1
          /\ longer[op][Len(log[op]) + 1] = r
          /\ \A k \in 1..Len(log[op]) : longer[op][k] = log[op][k]
      <4> DEFINE old == log[op]
                 new == longer[op]
      <4>1. old \in Seq(Records) /\ new = Append(old, r)
        BY <3>2
      <4> HIDE DEF old, new
      <4>2. /\ Len(new) = Len(old) + 1 /\ new[Len(old) + 1] = r
            /\ \A k \in 1..Len(old) : new[k] = old[k]
        BY <4>1, AppendProperties
      <4> QED BY <4>2 DEF old, new
    <3>4. ASSUME NEW i \in R(op, n + 1)
          PROVE  Shows(longer[op][Cardinality(R(op, i))], msgs[i])
      <4>1. CASE i = n + 1
        <5>1. longer[op][Cardinality(R(op, i))] = r
          BY <2>1, <3>1, <3>3, <4>1
        <5> QED BY <4>1, <5>1
      <4>2. CASE i \in R(op, n)
        <5>1. /\ Cardinality(R(op, i)) \in Nat \ {0}
              /\ Cardinality(R(op, i)) <= Cardinality(R(op, n))
          BY <4>2, EarlierRecords
        <5>2. Cardinality(R(op, i)) \in 1..Len(log[op])
          BY <2>1, <3>2, <5>1
        <5>3. Shows(log[op][Cardinality(R(op, i))], msgs[i])
          BY <2>1, <4>2
        <5> QED BY <3>3, <5>2, <5>3
      <4> QED BY <3>1, <4>1, <4>2
    <3> QED BY <2>1, <3>1, <3>3, <3>4
  <2> QED BY <2>2, <2>3
<1> QED BY <1>2, <1>3 DEF IsLog

(* A "next" begins an empty operation while there is room for one.          *)
LEMMA LogBegins ==
  ASSUME NEW log \in Seq(Seq(Records)), NEW longer \in Seq(Seq(Records)),
         NEW msgs, NEW n \in Nat, NEW w, IsLog(log, msgs, n, w),
         Begins(msgs, n + 1, w),
         longer = IF Len(log) < MaxOps THEN Append(log, <<>>) ELSE log
  PROVE  IsLog(longer, msgs, n + 1, w)
<1> DEFINE R(op, i) == Recorded(op, msgs, i, w)
           begun == Cardinality(Nexts(msgs, n, w))
<1>1. ~Joins(msgs, n + 1, w)
  BY DEF Begins, Joins, IsRecorded, RecordKinds, HeapKinds
<1>2. ASSUME NEW op PROVE R(op, n + 1) = R(op, n)
  BY <1>1, SameRecords
<1>3. begun \in Nat /\ Cardinality(Nexts(msgs, n + 1, w)) = begun + 1
  BY NextsCount, NextOperation
<1>4. Len(log) = IF 1 + begun < MaxOps THEN 1 + begun ELSE MaxOps
  BY DEF IsLog, OperationAt
<1>5. OperationAt(msgs, n + 1, w) = IF Len(log) < MaxOps THEN Len(log) + 1 ELSE Len(log)
  <2>1. OperationAt(msgs, n + 1, w) = IF 1 + (begun + 1) < MaxOps THEN 1 + (begun + 1) ELSE MaxOps
    <3> HIDE DEF begun
    <3> QED BY <1>3 DEF OperationAt
  <2> HIDE DEF begun
  <2> QED BY <1>3, <1>4, <2>1, SizesAssumption
<1>6. \A op \in 1..Len(log) :
        /\ Len(log[op]) = Cardinality(R(op, n + 1))
        /\ \A i \in R(op, n + 1) : Shows(log[op][Cardinality(R(op, i))], msgs[i])
  BY <1>2 DEF IsLog
<1>7. CASE ~(Len(log) < MaxOps)
  BY <1>5, <1>6, <1>7 DEF IsLog
<1>8. CASE Len(log) < MaxOps
  <2> DEFINE c == Len(log) + 1
  <2>1. /\ Len(longer) = c /\ longer[c] = <<>>
        /\ \A op \in 1..Len(log) : longer[op] = log[op]
    BY <1>8
  <2>2. R(c, n + 1) = {}
    <3>1. SUFFICES ASSUME NEW i \in R(c, n) PROVE FALSE
      BY <1>2
    <3>2. i \in 1..n /\ i \in Nat /\ OperationAt(msgs, i, w) = c
      BY DEF Recorded
    <3>3. Nexts(msgs, i, w) \in SUBSET Nexts(msgs, n, w)
      BY <3>2 DEF Nexts
    <3>4. IsFiniteSet(Nexts(msgs, n, w)) /\ Cardinality(Nexts(msgs, i, w)) \in Nat
      BY <3>2, NextsCount
    <3>5. Cardinality(Nexts(msgs, i, w)) <= begun
      BY <3>3, <3>4, FS_Subset
    <3>6. OperationAt(msgs, i, w) <= OperationAt(msgs, n, w)
      BY <1>3, <3>4, <3>5, SizesAssumption DEF OperationAt
    <3>7. OperationAt(msgs, n, w) = Len(log)
      BY DEF IsLog
    <3> QED BY <3>2, <3>6, <3>7
  <2>3. Cardinality(R(c, n + 1)) = 0 /\ Len(longer[c]) = 0
    BY <2>1, <2>2, FS_EmptySet
  <2>4. ASSUME NEW op \in 1..c
        PROVE  /\ Len(longer[op]) = Cardinality(R(op, n + 1))
               /\ \A i \in R(op, n + 1) : Shows(longer[op][Cardinality(R(op, i))], msgs[i])
    <3>1. CASE op = c
      BY <2>2, <2>3, <3>1
    <3>2. CASE op \in 1..Len(log)
      BY <1>6, <2>1, <3>2
    <3> QED BY <3>1, <3>2
  <2> QED BY <1>5, <1>8, <2>1, <2>4 DEF IsLog
<1> QED BY <1>7, <1>8

(* The records of an operation are all forgotten: a message that was in one *)
(* of them says nothing any more.                                           *)
LEMMA LogForgets ==
  ASSUME NEW log, NEW shorter, NEW msgs, NEW n \in Nat, NEW w, NEW v,
         IsLog(log, msgs, n, w), NEW c \in 1..Len(log),
         v = w \cup Recorded(c, msgs, n, w),
         Len(shorter) = Len(log), shorter[c] = <<>>,
         \A op \in 1..Len(log) : op # c => shorter[op] = log[op]
  PROVE  IsLog(shorter, msgs, n, v) /\ Nexts(msgs, n, v) = Nexts(msgs, n, w)
<1> DEFINE F == Recorded(c, msgs, n, w)
<1>1. \A i \in F : i \in 1..n /\ IsRecorded(msgs[i]) /\ OperationAt(msgs, i, w) = c
  BY DEF Recorded
<1>2. \A i \in F : msgs[i].kind # "next"
  BY <1>1 DEF IsRecorded, RecordKinds, HeapKinds
<1>3. \A i : Nexts(msgs, i, v) = Nexts(msgs, i, w)
  <2> HIDE DEF F
  <2>1. v = w \cup F
    BY DEF F
  <2> QED BY <1>2, <2>1 DEF Nexts
<1>4. \A i : OperationAt(msgs, i, v) = OperationAt(msgs, i, w)
  BY <1>3 DEF OperationAt
<1>5. ASSUME NEW op, op # c, NEW i PROVE Recorded(op, msgs, i, v) = Recorded(op, msgs, i, w)
  <2> HIDE DEF F
  <2>1. v = w \cup F
    BY DEF F
  <2> QED BY <1>1, <1>4, <1>5, <2>1 DEF Recorded
<1>6. Recorded(c, msgs, n, v) = {}
  BY <1>4 DEF Recorded
<1>7. ASSUME NEW op \in 1..Len(shorter)
      PROVE  /\ Len(shorter[op]) = Cardinality(Recorded(op, msgs, n, v))
             /\ \A i \in Recorded(op, msgs, n, v) :
                  Shows(shorter[op][Cardinality(Recorded(op, msgs, i, v))], msgs[i])
  <2>1. CASE op = c
    BY <1>6, <2>1, FS_EmptySet
  <2>2. CASE op # c
    <3>1. \A i : Recorded(op, msgs, i, v) = Recorded(op, msgs, i, w)
      BY <1>5, <2>2
    <3>2. shorter[op] = log[op] /\ op \in 1..Len(log)
      BY <2>2
    <3> QED BY <3>1, <3>2 DEF IsLog
  <2> QED BY <2>1, <2>2
<1> QED BY <1>3, <1>4, <1>7 DEF IsLog

-----------------------------------------------------------------------------
(* Memory is what the messages said.                                        *)

Recs == [i \in 1..Len(ops) |-> ops[i].recs]

LostHandled == lost \subseteq 1..Handled

(* op_ctr counts the "next" commands handled. The number of operations is   *)
(* that count cut off at MaxOps, so HistoryExact alone would not tell which *)
(* of two full tables has room for the next handler.                        *)
NextsCounted == mgr # "crashed" => op_ctr = Cardinality(Nexts(sent, Handled, lost))

(* Every NEWEXEC is worth a record and carries an image of its own; words   *)
(* are missing only in what was typed.                                      *)
AllMeant ==
  \A i \in 1..Len(sent) :
    /\ sent[i].kind = "NEWEXEC" => sent[i].arg \in {"", "nomain"} /\ sent[i].img = i
    /\ sent[i].arg = "bare" => sent[i].pid = Console

HInv == QueueIsRest /\ AllMeant /\ LostHandled /\ NextsCounted /\ HistoryExact

(* The records of a table.                                                  *)
LEMMA RecsType ==
  ASSUME NEW t \in Seq(OpRecords)
  PROVE  /\ [i \in 1..Len(t) |-> t[i].recs] \in Seq(Seq(Records))
         /\ Len([i \in 1..Len(t) |-> t[i].recs]) = Len(t)
         /\ \A i \in 1..Len(t) : [j \in 1..Len(t) |-> t[j].recs][i] = t[i].recs
<1>1. ASSUME NEW i \in 1..Len(t) PROVE t[i].recs \in Seq(Records)
  <2>1. t[i] \in OpRecords
    OBVIOUS
  <2> QED BY <2>1, OpRecordFields
<1> QED BY <1>1

(* Nothing is handled: what was sent so far still says the same.            *)
LEMMA HistoryKept ==
  ASSUME IInv, HInv, QueueIsRest', AllMeant', Handled' = Handled, Handled \in Nat,
         \A i \in 1..Handled : sent'[i] = sent[i],
         UNCHANGED memoryVars, mgr' = "crashed" \/ mgr # "crashed"
  PROVE  HInv'
<1>1. ops' = ops /\ op_ctr' = op_ctr /\ lost' = lost
  BY DEF memoryVars
<1>2. LostHandled'
  BY <1>1 DEF HInv, LostHandled
<1>3. Agree(sent, sent', Handled, lost, lost')
  BY <1>1 DEF Agree
<1>4. CASE mgr' = "crashed"
  BY <1>2, <1>4 DEF HInv, NextsCounted, HistoryExact
<1>5. CASE mgr # "crashed"
  <2>1. Nexts(sent, Handled, lost) = Nexts(sent', Handled, lost')
    BY <1>3, OperationLocal
  <2>2. IsLog(Recs, sent, Handled, lost)
    BY <1>5 DEF HInv, HistoryExact, Recs
  <2>3. IsLog(Recs, sent', Handled, lost')
    BY <1>3, <2>2, IsLogLocal
  <2>4. HistoryExact'
    BY <1>1, <2>3 DEF HistoryExact, Recs
  <2>5. NextsCounted'
    BY <1>1, <1>5, <2>1 DEF HInv, NextsCounted, Nexts
  <2> QED BY <1>2, <2>4, <2>5 DEF HInv
<1> QED BY <1>4, <1>5

(* What a handler has to do for memory to stay what the messages said.      *)
LEMMA HandlerHistory ==
  ASSUME IInv, HInv, NEW K, Receive(K), lost' \subseteq 1..(Handled + 1),
         op_ctr' = Cardinality(Nexts(sent, Handled + 1, lost')),
         IsLog(Recs', sent, Handled + 1, lost')
  PROVE  HInv'
<1>1. QueueIsRest' /\ Handled' = Handled + 1 /\ sent' = sent /\ Handled \in Nat
  BY Received DEF HInv
<1>2. LostHandled'
  BY <1>1 DEF LostHandled
<1>3. HistoryExact'
  BY <1>1 DEF HistoryExact, Recs
<1>4. NextsCounted'
  BY <1>1 DEF NextsCounted
<1>5. AllMeant'
  BY <1>1 DEF HInv, AllMeant
<1> QED BY <1>1, <1>2, <1>3, <1>4, <1>5 DEF HInv

(* The table after the growth check, before anything else: either as it was *)
(* or with a current operation that is forgotten, and then lost says so.    *)
After(g) == [i \in 1..Len(ops) |-> WithCurrent(g)[i].recs]
LostAfter(g) == lost \cup Forgotten(g)

LEMMA AfterGrowth ==
  ASSUME IInv, HInv, NEW K, Receive(K), InTable, NEW g \in Grown
  PROVE  /\ WithCurrent(g) \in Seq(OpRecords) /\ Len(WithCurrent(g)) = Len(ops)
         /\ g \in OpRecords /\ op_ctr + 1 = Len(ops) /\ Len(ops) \in Nat \ {0}
         /\ After(g) \in Seq(Seq(Records)) /\ Len(After(g)) = Len(ops)
         /\ After(g)[Len(ops)] = g.recs
         /\ LostAfter(g) \subseteq 1..Handled
         /\ IsLog(After(g), sent, Handled, LostAfter(g))
         /\ op_ctr = Cardinality(Nexts(sent, Handled, LostAfter(g)))
<1> DEFINE c == op_ctr + 1
           w == WithCurrent(g)
<1>1. ops \in Seq(OpRecords) /\ c \in 1..Len(ops) /\ c = Len(ops) /\ ops[c] \in OpRecords
      /\ Fits(ops[c])
  BY CurrentExists
<1>2. /\ g \in OpRecords
      /\ \/ g.slots # 0 /\ g.recs = ops[c].recs
         \/ g.slots = 0 /\ g.recs = <<>>
  BY <1>1, GrownRoom
<1>3. w \in Seq(OpRecords) /\ Len(w) = Len(ops) /\ w[c] = g
      /\ \A j \in 1..Len(ops) : j # c => w[j] = ops[j]
  BY <1>1, <1>2, ReplaceElement DEF WithCurrent
<1> HIDE DEF w
<1>4. /\ Recs \in Seq(Seq(Records)) /\ Len(Recs) = Len(ops)
      /\ \A i \in 1..Len(ops) : Recs[i] = ops[i].recs
  BY <1>1, RecsType DEF Recs
<1>5. /\ After(g) \in Seq(Seq(Records)) /\ Len(After(g)) = Len(ops)
      /\ \A i \in 1..Len(ops) : After(g)[i] = w[i].recs
  <2>1. After(g) = [i \in 1..Len(w) |-> w[i].recs]
    BY <1>3 DEF After, w
  <2> QED BY <1>3, <2>1, RecsType
<1>6. After(g)[c] = g.recs /\ \A j \in 1..Len(ops) : j # c => After(g)[j] = Recs[j]
  BY <1>1, <1>3, <1>4, <1>5
<1>7. Handled \in Nat /\ mgr # "crashed" /\ lost \subseteq 1..Handled
  BY Received DEF HInv, LostHandled, Receive
<1>8. IsLog(Recs, sent, Handled, lost) /\ op_ctr = Cardinality(Nexts(sent, Handled, lost))
  BY <1>7 DEF HInv, HistoryExact, NextsCounted, Recs
<1>9. CASE g.slots # 0 /\ g.recs = ops[c].recs
  <2>1. LostAfter(g) = lost
    BY <1>9 DEF LostAfter, Forgotten
  <2>2. After(g) = Recs
    <3>1. \A j \in 1..Len(ops) : After(g)[j] = Recs[j]
      BY <1>1, <1>4, <1>6, <1>9
    <3> QED BY <1>4, <1>5, <3>1, SeqEqual
  <2> QED BY <1>1, <1>2, <1>3, <1>5, <1>6, <1>7, <1>8, <2>1, <2>2 DEF w
<1>10. CASE g.slots = 0 /\ g.recs = <<>>
  <2>1. LostAfter(g) = lost \cup Recorded(c, sent, Handled, lost)
    BY <1>10 DEF LostAfter, Forgotten
  <2>2. LostAfter(g) \subseteq 1..Handled
    BY <1>7, <2>1 DEF Recorded
  <2>3. IsLog(After(g), sent, Handled, LostAfter(g))
        /\ Nexts(sent, Handled, LostAfter(g)) = Nexts(sent, Handled, lost)
    <3>1. c \in 1..Len(Recs)
      BY <1>1, <1>4
    <3>2. Len(After(g)) = Len(Recs) /\ After(g)[c] = <<>>
          /\ \A op \in 1..Len(Recs) : op # c => After(g)[op] = Recs[op]
      BY <1>4, <1>5, <1>6, <1>10
    <3> HIDE DEF c
    <3> QED BY <1>7, <1>8, <2>1, <3>1, <3>2, LogForgets
  <2> QED BY <1>1, <1>2, <1>3, <1>5, <1>6, <1>8, <2>2, <2>3 DEF w
<1> QED BY <1>2, <1>9, <1>10

(* A message that is handled without a record.                              *)
LEMMA SkipHistory ==
  ASSUME IInv, HInv, NEW K, Receive(K), InTable, NEW g \in Grown,
         ops' = WithCurrent(g), op_ctr' = op_ctr,
         \/ /\ lost' = LostAfter(g)
            /\ Head(queue).kind # "next" /\ ~IsRecorded(Head(queue))
         \/ lost' = LostAfter(g) \cup {Handled + 1}
  PROVE  HInv'
<1>1. Handled \in Nat /\ Head(queue) = sent[Handled + 1]
  BY Received DEF HInv
<1>2. /\ WithCurrent(g) \in Seq(OpRecords) /\ Len(WithCurrent(g)) = Len(ops)
      /\ LostAfter(g) \subseteq 1..Handled
      /\ IsLog(After(g), sent, Handled, LostAfter(g))
      /\ op_ctr = Cardinality(Nexts(sent, Handled, LostAfter(g)))
  BY AfterGrowth
<1>3. Recs' = After(g)
  BY <1>2 DEF Recs, After
<1>4. Handled + 1 \notin 1..Handled /\ 1..Handled \subseteq 1..(Handled + 1)
      /\ Handled + 1 \in 1..(Handled + 1)
  BY <1>1
<1>5. lost' \subseteq 1..(Handled + 1)
  BY <1>2, <1>4
<1>6. Agree(sent, sent, Handled, LostAfter(g), lost')
  BY <1>2, <1>4 DEF Agree
<1>7. ~Begins(sent, Handled + 1, lost') /\ ~Joins(sent, Handled + 1, lost')
  BY <1>1 DEF Begins, Joins
<1>8. IsLog(After(g), sent, Handled, lost')
      /\ Nexts(sent, Handled, LostAfter(g)) = Nexts(sent, Handled, lost')
  BY <1>1, <1>2, <1>6, IsLogLocal, OperationLocal
<1>9. IsLog(Recs', sent, Handled + 1, lost')
  BY <1>1, <1>3, <1>7, <1>8, LogSkips
<1>10. Nexts(sent, Handled + 1, lost') = Nexts(sent, Handled, lost')
  BY <1>1, <1>7, SameOperation
<1> QED BY <1>2, <1>5, <1>8, <1>9, <1>10, HandlerHistory

(* Handlers that store a record of the message.                             *)
LEMMA StoreHistory ==
  ASSUME IInv, HInv, NEW K, Receive(K), InTable, op_ctr' = op_ctr,
         IsRecorded(Head(queue)), NEW pid \in Pids, NEW exec \in Nat,
         Stored(RecordOf(Head(queue), pid, exec))
  PROVE  HInv'
<1> DEFINE m == Head(queue)
           r == RecordOf(m, pid, exec)
<1>1. Handled \in Nat /\ m = sent[Handled + 1] /\ m \in Messages
  BY Received DEF HInv
<1>2. r \in Records
  BY <1>1, RecordType DEF IsRecorded
<1>3. Shows(r, sent[Handled + 1])
  BY <1>1 DEF Shows, RecordOf
<1> HIDE DEF m, r
<1>4. PICK g \in Grown : g.slots # 0 /\ Keep(Added(g, r))
  BY DEF Stored, r, m
<1> DEFINE new == Added(g, r)
<1>5. /\ WithCurrent(g) \in Seq(OpRecords) /\ Len(WithCurrent(g)) = Len(ops)
      /\ g \in OpRecords /\ op_ctr + 1 = Len(ops) /\ Len(ops) \in Nat \ {0}
      /\ After(g) \in Seq(Seq(Records)) /\ Len(After(g)) = Len(ops)
      /\ After(g)[Len(ops)] = g.recs
      /\ LostAfter(g) \subseteq 1..Handled
      /\ IsLog(After(g), sent, Handled, LostAfter(g))
      /\ op_ctr = Cardinality(Nexts(sent, Handled, LostAfter(g)))
  BY AfterGrowth
<1>6. ops \in Seq(OpRecords) /\ ops[op_ctr + 1] \in OpRecords /\ Fits(ops[op_ctr + 1])
  BY CurrentExists
<1>7. Fits(g) /\ g.size < g.max_size
  BY <1>6, GrownRoom
<1>8. new \in OpRecords /\ new.recs = Append(g.recs, r) /\ new.slots # 0
  BY <1>2, <1>4, <1>5, <1>7, AddedFits
<1>9. g.slots # 0 /\ new.slots = g.slots
  BY <1>4, <1>5 DEF Added, OpRecords
<1>10. ops' = WithCurrent(new) /\ lost' = LostAfter(g)
  BY <1>4, <1>8, <1>9 DEF Keep, Forgotten, LostAfter
<1> HIDE DEF new
<1>11. /\ WithCurrent(new) \in Seq(OpRecords) /\ Len(WithCurrent(new)) = Len(ops)
       /\ WithCurrent(new)[Len(ops)] = new
       /\ \A j \in 1..Len(ops) : j # Len(ops) => WithCurrent(new)[j] = WithCurrent(g)[j]
  <2> DEFINE c == op_ctr + 1
  <2>1. c = Len(ops) /\ c \in 1..Len(ops)
    BY <1>5
  <2>2. /\ WithCurrent(new) \in Seq(OpRecords) /\ Len(WithCurrent(new)) = Len(ops)
        /\ WithCurrent(new)[c] = new
        /\ \A j \in 1..Len(ops) : j # c => WithCurrent(new)[j] = ops[j]
    BY <1>6, <1>8, <2>1, ReplaceElement DEF WithCurrent
  <2>3. \A j \in 1..Len(ops) : j # c => WithCurrent(g)[j] = ops[j]
    BY <1>5, <1>6, <2>1, ReplaceElement DEF WithCurrent
  <2> HIDE DEF c
  <2> QED BY <2>1, <2>2, <2>3
<1>12. /\ Recs' \in Seq(Seq(Records)) /\ Len(Recs') = Len(ops)
       /\ \A j \in 1..Len(ops) : Recs'[j] = WithCurrent(new)[j].recs
  <2>1. Recs' = [i \in 1..Len(WithCurrent(new)) |-> WithCurrent(new)[i].recs]
    BY <1>10 DEF Recs
  <2> QED BY <1>11, <2>1, RecsType
<1>13. \A j \in 1..Len(ops) : After(g)[j] = WithCurrent(g)[j].recs
  BY DEF After
<1>14. /\ Recs'[Len(ops)] = Append(After(g)[Len(ops)], r)
       /\ \A j \in 1..Len(ops) : j # Len(ops) => Recs'[j] = After(g)[j]
  <2>1. Len(ops) \in 1..Len(ops)
    BY <1>5
  <2>2. Recs'[Len(ops)] = new.recs
    BY <1>11, <1>12, <2>1
  <2>3. ASSUME NEW j \in 1..Len(ops), j # Len(ops) PROVE Recs'[j] = After(g)[j]
    BY <1>11, <1>12, <1>13, <2>3
  <2> QED BY <1>5, <1>8, <2>2, <2>3
<1>15. Handled + 1 \notin lost' /\ lost' \subseteq 1..(Handled + 1)
  <2>1. Handled + 1 \notin 1..Handled /\ 1..Handled \subseteq 1..(Handled + 1)
    BY <1>1
  <2> QED BY <1>5, <1>10, <2>1
<1>16. Joins(sent, Handled + 1, lost')
  BY <1>1, <1>15 DEF Joins, m
<1>17. ~Begins(sent, Handled + 1, lost')
  BY <1>16 DEF Begins, Joins, IsRecorded, RecordKinds, HeapKinds
<1>18. IsLog(Recs', sent, Handled + 1, lost')
  BY <1>1, <1>2, <1>3, <1>5, <1>10, <1>12, <1>14, <1>16, LogGrows
<1>19. Nexts(sent, Handled + 1, lost') = Nexts(sent, Handled, lost')
  BY <1>1, <1>17, SameOperation
<1> QED BY <1>5, <1>10, <1>15, <1>18, <1>19, HandlerHistory

(* mgr_next                                                                 *)
LEMMA NextHistory ==
  ASSUME IInv, HInv, HandleNext
  PROVE  HInv'
<1>1. Receive({"next"}) /\ op_ctr' = op_ctr + 1 /\ InTable
  BY DEF HandleNext
<1>2. Handled \in Nat /\ sent[Handled + 1].kind = "next"
  BY <1>1, Received DEF HInv
<1>3. PICK g \in Grown, new \in NewOperations :
        /\ ops' = IF op_ctr + 1 < MaxOps THEN Append(WithCurrent(g), new) ELSE WithCurrent(g)
        /\ lost' = LostAfter(g)
  BY DEF HandleNext, LostAfter
<1>4. /\ WithCurrent(g) \in Seq(OpRecords) /\ Len(WithCurrent(g)) = Len(ops)
      /\ op_ctr + 1 = Len(ops) /\ Len(ops) \in Nat \ {0}
      /\ After(g) \in Seq(Seq(Records)) /\ Len(After(g)) = Len(ops)
      /\ LostAfter(g) \subseteq 1..Handled
      /\ IsLog(After(g), sent, Handled, LostAfter(g))
      /\ op_ctr = Cardinality(Nexts(sent, Handled, LostAfter(g)))
  BY <1>1, AfterGrowth
<1>5. new \in OpRecords /\ new.recs = <<>>
  BY NewOperationType
<1>6. \A j \in 1..Len(ops) : After(g)[j] = WithCurrent(g)[j].recs
  BY DEF After
<1>7. Recs' \in Seq(Seq(Records))
      /\ Recs' = IF Len(After(g)) < MaxOps THEN Append(After(g), <<>>) ELSE After(g)
  <2> DEFINE w == WithCurrent(g)
  <2>1. CASE op_ctr + 1 < MaxOps
    <3> HIDE DEF w
    <3>1. /\ ops' \in Seq(OpRecords) /\ Len(ops') = Len(ops) + 1 /\ ops'[Len(ops) + 1] = new
          /\ \A j \in 1..Len(ops) : ops'[j] = w[j]
      BY <1>3, <1>4, <1>5, <2>1, AppendProperties DEF w
    <3>2. /\ Recs' \in Seq(Seq(Records)) /\ Len(Recs') = Len(ops) + 1
          /\ \A j \in 1..Len(ops)+1 : Recs'[j] = ops'[j].recs
      BY <3>1, RecsType DEF Recs
    <3> DEFINE more == Append(After(g), <<>>)
    <3>3. more \in Seq(Seq(Records)) /\ Len(more) = Len(ops) + 1 /\ more[Len(ops) + 1] = <<>>
          /\ \A j \in 1..Len(ops) : more[j] = After(g)[j]
      <4>1. <<>> \in Seq(Records)
        OBVIOUS
      <4> QED BY <1>4, <4>1, AppendProperties
    <3> HIDE DEF more
    <3>4. ASSUME NEW j \in 1..Len(ops)+1 PROVE Recs'[j] = more[j]
      <4>1. CASE j = Len(ops) + 1
        BY <1>5, <3>1, <3>2, <3>3, <4>1
      <4>2. CASE j # Len(ops) + 1
        <5>1. j \in 1..Len(ops)
          BY <1>4, <4>2
        <5> QED BY <1>6, <3>1, <3>2, <3>3, <5>1 DEF w
      <4> QED BY <4>1, <4>2
    <3>5. Recs' = more
      BY <3>2, <3>3, <3>4, SeqEqual
    <3> QED BY <1>4, <2>1, <3>2, <3>5 DEF more
  <2>2. CASE ~(op_ctr + 1 < MaxOps)
    <3>1. ops' = w
      BY <1>3, <2>2
    <3>2. Recs' = After(g)
      BY <1>4, <3>1 DEF Recs, After
    <3> QED BY <1>4, <2>2, <3>2
  <2> QED BY <2>1, <2>2
<1>8. Handled + 1 \notin lost' /\ lost' \subseteq 1..(Handled + 1)
  <2>1. Handled + 1 \notin 1..Handled /\ 1..Handled \subseteq 1..(Handled + 1)
    BY <1>2
  <2> QED BY <1>3, <1>4, <2>1
<1>9. Begins(sent, Handled + 1, lost')
  BY <1>2, <1>8 DEF Begins
<1>10. op_ctr' = Cardinality(Nexts(sent, Handled + 1, lost'))
  BY <1>1, <1>2, <1>3, <1>4, <1>9, NextOperation
<1>11. IsLog(Recs', sent, Handled + 1, lost')
  BY <1>2, <1>3, <1>4, <1>7, <1>9, LogBegins
<1> QED BY <1>1, <1>8, <1>10, <1>11, HandlerHistory

(* The handlers that run the growth check and store nothing.                *)
LEMMA QuietHistory ==
  ASSUME IInv, HInv, NEW K, Receive(K), InTable, op_ctr' = op_ctr, NothingStored,
         Head(queue).kind # "next", ~IsRecorded(Head(queue))
  PROVE  HInv'
<1>1. PICK g \in Grown : ops' = WithCurrent(g) /\ lost' = LostAfter(g)
  BY DEF NothingStored, Keep, LostAfter
<1> QED BY <1>1, SkipHistory

(* A message whose handler gives up, for want of memory or because of too   *)
(* many words: it is one of the lost ones.                                  *)
LEMMA DroppedHistory ==
  ASSUME IInv, HInv, NEW K, Receive(K), InTable, op_ctr' = op_ctr, Dropped
  PROVE  HInv'
<1>1. PICK g \in Grown : ops' = WithCurrent(g) /\ lost' = LostAfter(g) \cup {Handled + 1}
  BY DEF Dropped, LostAfter
<1> QED BY <1>1, SkipHistory

LEMMA CommentHistory ==
  ASSUME IInv, HInv, HandleComment
  PROVE  HInv'
<1>1. Receive({"#"}) /\ ops' = ops /\ op_ctr' = op_ctr /\ lost' = lost
  BY DEF HandleComment, memoryVars
<1>2. Handled \in Nat /\ sent[Handled + 1].kind = "#" /\ mgr # "crashed"
  BY <1>1, Received DEF HInv, Receive
<1>3. ~Begins(sent, Handled + 1, lost) /\ ~Joins(sent, Handled + 1, lost)
  BY <1>2 DEF Begins, Joins, IsRecorded, RecordKinds, HeapKinds
<1>4. IsLog(Recs, sent, Handled, lost) /\ op_ctr = Cardinality(Nexts(sent, Handled, lost))
  BY <1>2 DEF HInv, HistoryExact, NextsCounted, Recs
<1>5. Recs' = Recs
  BY <1>1 DEF Recs
<1>6. IsLog(Recs', sent, Handled + 1, lost')
  BY <1>1, <1>2, <1>3, <1>4, <1>5, LogSkips
<1>7. op_ctr' = Cardinality(Nexts(sent, Handled + 1, lost'))
  BY <1>1, <1>2, <1>3, <1>4, SameOperation
<1>8. lost' \subseteq 1..(Handled + 1)
  BY <1>1, <1>2 DEF HInv, LostHandled
<1> QED BY <1>1, <1>6, <1>7, <1>8, HandlerHistory

LEMMA QuietHandlers ==
  ASSUME IInv, HInv,
         HandleExternal \/ HandleSet \/ HandleSave \/ HandleOther \/ HandleQuit
  PROVE  HInv'
<1> DEFINE K == {"EXTERNAL", "set", "save", "other", "QUIT"}
<1>1. \E J \in SUBSET K : Receive(J)
  BY DEF HandleExternal, HandleSet, HandleSave, HandleOther, HandleQuit
<1>2. PICK J \in SUBSET K : Receive(J)
  BY <1>1
<1>3. Head(queue).kind \in K
  BY <1>2 DEF Receive
<1>4. Head(queue).kind # "next" /\ ~IsRecorded(Head(queue))
  BY <1>3 DEF IsRecorded, RecordKinds, HeapKinds
<1>5. op_ctr' = op_ctr /\ NothingStored /\ InTable
  BY DEF HandleExternal, HandleSet, HandleSave, HandleOther, HandleQuit
<1> QED BY <1>2, <1>4, <1>5, QuietHistory

(* The handlers that store a record, but for free(0x0) and a custom command *)
(* without text.                                                            *)
LEMMA StoringHandlers ==
  ASSUME IInv, HInv,
         HandleHeapEvent \/ HandleFree \/ HandleNewExec \/ HandleCustom \/ HandleFork
  PROVE  HInv'
<1> DEFINE m == Head(queue)
<1>1. PICK K \in SUBSET RecordKinds : Receive(K)
  BY DEF HandleHeapEvent, HandleFree, HandleNewExec, HandleCustom, HandleFork, RecordKinds
<1>2. m \in Messages /\ m.kind \in RecordKinds
  BY <1>1, Received DEF HInv
<1>3. InTable /\ op_ctr' = op_ctr
  BY DEF HandleHeapEvent, HandleFree, HandleNewExec, HandleCustom, HandleFork
<1>4. m.pid \in Pids /\ Console \in Pids /\ Len(execs) + 1 \in Nat /\ 0 \in Nat
  BY <1>2 DEF Messages, Pids, IInv, TypeOK, TableType
<1>5. CASE m.arg = "null" /\ NothingStored
  <2>1. m.kind # "next" /\ ~IsRecorded(m)
    BY <1>2, <1>5 DEF IsRecorded, RecordKinds, HeapKinds
  <2> QED BY <1>1, <1>3, <1>5, <2>1, QuietHistory
<1>6. CASE IsRecorded(m) /\ \E pid \in Pids, exec \in Nat : Stored(RecordOf(m, pid, exec))
  BY <1>1, <1>3, <1>6, StoreHistory
<1>7. m.kind = "NEWEXEC" => IsRecorded(m)
  <2>1. m = sent[Handled + 1] /\ Handled + 1 \in 1..Len(sent)
    BY <1>1, Received DEF HInv
  <2> QED BY <1>2, <2>1 DEF HInv, AllMeant, IsRecorded
<1>8. CASE HandleFree \/ HandleCustom
  BY <1>4, <1>5, <1>6, <1>8 DEF HandleFree, HandleCustom
<1>9. CASE HandleHeapEvent \/ HandleFork
  BY <1>4, <1>6, <1>9 DEF HandleHeapEvent, HandleFork
<1>10. CASE HandleNewExec
  <2>1. m.kind = "NEWEXEC"
    BY <1>10 DEF HandleNewExec, Receive
  <2>2. \E pid \in Pids, exec \in Nat : Stored(RecordOf(m, pid, exec))
    BY <1>4, <1>10 DEF HandleNewExec
  <2> QED BY <1>6, <1>7, <2>1, <2>2
<1> QED BY <1>8, <1>9, <1>10

LEMMA DroppingHandlers ==
  ASSUME IInv, HInv, HandleOutOfMemory \/ HandleOverrun
  PROVE  HInv'
BY DroppedHistory DEF HandleOutOfMemory, HandleOverrun

(* A message the manager dies over: nothing is claimed of a crashed manager *)
(* but what it has lost.                                                    *)
LEMMA CrashHistory ==
  ASSUME IInv, HInv, HandlePastTable \/ HandleWithoutArray \/ HandleMalformed
  PROVE  HInv'
<1>1. PICK K : Receive(K)
  BY DEF HandlePastTable, HandleWithoutArray, HandleMalformed
<1>2. mgr' = "crashed" /\ (lost' = lost \/ \E g \in Grown : lost' = lost \cup Forgotten(g))
  BY DEF HandlePastTable, HandleWithoutArray, HandleMalformed, NothingStored, Keep, memoryVars
<1>3. QueueIsRest' /\ Handled' = Handled + 1 /\ Handled \in Nat /\ sent' = sent
  BY <1>1, Received DEF HInv
<1>4. \A g : Forgotten(g) \subseteq 1..Handled
  BY DEF Forgotten, Recorded
<1>5. lost \subseteq 1..Handled /\ 1..Handled \subseteq 1..(Handled + 1)
  BY <1>3 DEF HInv, LostHandled
<1>6. LostHandled'
  BY <1>2, <1>3, <1>4, <1>5 DEF LostHandled
<1>7. AllMeant'
  BY <1>3 DEF HInv, AllMeant
<1> QED BY <1>2, <1>3, <1>6, <1>7 DEF HInv, NextsCounted, HistoryExact

Exports == ExportNext \/ ExportRecord \/ ExportEnd \/ ExportCrash

LEMMA HistoryNext == IInv /\ HInv /\ [Next]_vars => HInv'
<1> SUFFICES ASSUME IInv, HInv, [Next]_vars PROVE HInv'
  OBVIOUS
<1>1. ASSUME UNCHANGED <<queue, sent, memoryVars>>, mgr' = "crashed" \/ mgr # "crashed" \/ mgr' = mgr
      PROVE  HInv'
  <2>1. Len(sent) \in Nat /\ Len(queue) \in Nat
    BY DEF IInv, TypeOK, QueueType
  <2>2. QueueIsRest' /\ Handled' = Handled /\ Handled \in Nat
    BY <1>1, <2>1, NothingMoved DEF HInv, QueueIsRest, Handled
  <2>3. mgr' = "crashed" \/ mgr # "crashed"
    BY <1>1
  <2>4. AllMeant'
    BY <1>1 DEF HInv, AllMeant
  <2> QED BY <1>1, <2>2, <2>3, <2>4, HistoryKept
<1>2. ASSUME NEW m \in Messages, Post(m), Meant(m) PROVE HInv'
  <2>1. /\ QueueIsRest' /\ Handled' = Handled /\ Handled \in 0..Len(sent)
        /\ \A i \in 1..Len(sent) : sent'[i] = sent[i]
        /\ Len(sent') = Len(sent) + 1 /\ sent'[Len(sent) + 1] = m
    BY <1>2, Posted DEF HInv
  <2>2. Len(sent) \in Nat
    BY DEF IInv, TypeOK, QueueType
  <2>3. Handled \in Nat /\ \A i \in 1..Handled : sent'[i] = sent[i]
    BY <2>1, <2>2
  <2>4. UNCHANGED memoryVars /\ (mgr' = "crashed" \/ mgr # "crashed")
    BY <1>2 DEF Post
  <2>5. AllMeant'
    <3>1. \A i \in 1..Len(sent') : i \in 1..Len(sent) \/ i = Len(sent) + 1
      BY <2>1, <2>2
    <3> QED BY <1>2, <2>1, <3>1 DEF HInv, AllMeant, Meant
  <2> QED BY <2>1, <2>3, <2>4, <2>5, HistoryKept
<1>3. CASE Senders
  BY <1>1, <1>2, <1>3, SendersDo DEF Silent
<1>4. CASE Killed \/ Exports \/ UNCHANGED vars
  <2>1. UNCHANGED <<queue, sent, memoryVars>>
    BY <1>4 DEF Killed, Exports, ExportNext, ExportRecord, ExportEnd, ExportCrash, Exporting, vars
  <2>2. mgr' = "crashed" \/ mgr # "crashed" \/ mgr' = mgr
    BY <1>4 DEF Killed, Exports, ExportNext, ExportRecord, ExportEnd, ExportCrash, Exporting, vars
  <2> QED BY <1>1, <2>1, <2>2
<1>5. CASE Manager /\ ~Exports
  BY <1>5, CommentHistory, QuietHandlers, StoringHandlers, DroppingHandlers, CrashHistory, NextHistory
     DEF Manager, Exports
<1> QED BY <1>3, <1>4, <1>5 DEF Next

LEMMA HistoryInit == Init => HInv
<1> SUFFICES ASSUME Init PROVE HInv
  OBVIOUS
<1>1. queue = <<>> /\ sent = <<>> /\ lost = {} /\ op_ctr = 0 /\ Handled = 0
  BY DEF Init, Handled
<1>2. PICK new \in NewOperations : ops = <<new>> /\ new.recs = <<>>
  BY NewOperationType DEF Init
<1>3. Nexts(sent, 0, lost) = {} /\ \A op : Recorded(op, sent, 0, lost) = {}
  BY DEF Nexts, Recorded
<1>4. Cardinality({}) = 0
  BY FS_EmptySet
<1>5. OperationAt(sent, 0, lost) = 1
  BY <1>3, <1>4, SizesAssumption DEF OperationAt
<1>6. Len(Recs) = 1 /\ Recs[1] = <<>>
  BY <1>2 DEF Recs
<1>7. IsLog(Recs, sent, 0, lost)
  <2>1. \A op \in 1..Len(Recs) : op = 1
    BY <1>6
  <2>2. Len(Recs[1]) = 0
    BY <1>6
  <2> QED BY <1>3, <1>4, <1>5, <1>6, <2>1, <2>2 DEF IsLog
<1>8. HistoryExact
  BY <1>1, <1>7 DEF HistoryExact, Recs
<1>9. QueueIsRest /\ AllMeant /\ LostHandled /\ NextsCounted
  BY <1>1, <1>3, <1>4 DEF QueueIsRest, AllMeant, LostHandled, NextsCounted
<1> QED BY <1>8, <1>9 DEF HInv

(* In every state the queue is the part of what was sent that no handler    *)
(* has taken, op_ctr counts the next commands handled, and memory is the    *)
(* log of the handled messages.                                             *)
THEOREM HistoryInvariant == Spec => []HInv
BY HistoryInit, HistoryNext, Invariant, PTL DEF Spec

(* Whatever is sent or typed, whichever malloc or realloc fails: what the   *)
(* manager holds is what the messages it took off the queue said, in their  *)
(* order and in the operation that was current, but for those its handler   *)
(* gave up and those of an array that could not grow.                       *)
THEOREM MemoryIsHistory == Spec => []HistoryExact
<1>1. HInv => HistoryExact
  BY DEF HInv
<1> QED BY <1>1, HistoryInvariant, PTL

-----------------------------------------------------------------------------
(* Images. After msgs[1..n], process p maps the image announced as message  *)
(* img, its own or that of a parent, and has announced none since.          *)
Announces(msgs, i, p) == msgs[i].kind = "NEWEXEC" /\ msgs[i].pid = p

Mapped(msgs, n, p, img) ==
  /\ img \in 1..n /\ msgs[img].kind = "NEWEXEC"
  /\ \A k \in (img + 1)..n : ~Announces(msgs, k, p)

LEMMA MappedLater ==
  ASSUME NEW msgs, NEW more, NEW n \in Nat, NEW p, NEW img, Mapped(msgs, n, p, img),
         \A i \in 1..n : more[i] = msgs[i], ~Announces(more, n + 1, p)
  PROVE  Mapped(more, n + 1, p, img)
<1>1. img \in 1..(n + 1) /\ more[img].kind = "NEWEXEC"
  BY DEF Mapped
<1>2. \A k \in (img + 1)..(n + 1) : (k \in (img + 1)..n /\ k \in 1..n) \/ k = n + 1
  BY DEF Mapped
<1> QED BY <1>1, <1>2 DEF Mapped, Announces

(* What a process maps and reports, and the exec record its libraries go    *)
(* to, on both ends of the queue.                                           *)
UpMapped == \A p \in Procs : phase[p] = "up" => Mapped(sent, Len(sent), p, image[p])

UnbornSilent ==
  \A p \in Procs : phase[p] = "unborn" => \A i \in 1..Len(sent) : ~Announces(sent, i, p)

ExternalMapped ==
  \A i \in 1..Len(sent) :
    sent[i].kind = "EXTERNAL" /\ sent[i].pid # Console =>
      Mapped(sent, i, sent[i].pid, sent[i].img)

(* The image of the current exec record is the one announced last.          *)
Latest(msgs, n, img) ==
  /\ img \in 1..n /\ msgs[img].kind = "NEWEXEC"
  /\ \A k \in (img + 1)..n : msgs[k].kind # "NEWEXEC"

CurrentLatest ==
  mgr # "crashed" =>
    IF current_exec = 0 THEN \A k \in 1..Handled : sent[k].kind # "NEWEXEC"
    ELSE /\ Latest(sent, Handled, execs[current_exec].img)
         /\ sent[execs[current_exec].img].pid = execs[current_exec].from

NextsBounded == NextsSent <= MaxNext /\ op_ctr <= NextsSent

MInv == UpMapped /\ UnbornSilent /\ ExternalMapped /\ CurrentLatest /\ NextsBounded

(* What a sender's message says of its image, and how many "next" there are. *)
Honest(m) ==
  /\ m.kind = "EXTERNAL" =>
       m.pid = Console \/ (m.pid \in Procs /\ phase[m.pid] = "up" /\ m.img = image[m.pid])
  /\ m.kind = "NEWEXEC" => m.img = Len(sent) + 1
  /\ m.kind = "next" => NextsSent < MaxNext
  /\ m.pid = Console /\ "TYPED" \notin Traffic => m.arg # "bare" /\ m.kind # "EXTERNAL"

(* The image a process runs after a step of the senders: announced with     *)
(* this step, or its own as before, or, in a child, its parent's.           *)
ImageAfter(q, k, p) ==
  \/ k = "NEWEXEC" /\ p = q /\ image'[q] = Len(sent) + 1
  \/ ~(k = "NEWEXEC" /\ p = q) /\ phase[q] = "up" /\ image'[q] = image[q]
  \/ k # "NEWEXEC" /\ phase[q] = "unborn" /\ \E r \in Procs : phase[r] = "up" /\ image'[q] = image[r]

(* A process that is unborn after a step was so before and announced none.  *)
PhaseAfter(q, k, p) ==
  /\ phase'[q] = "up" => ImageAfter(q, k, p)
  /\ phase'[q] = "unborn" => phase[q] = "unborn" /\ ~(k = "NEWEXEC" /\ p = q)

LEMMA SendersHonest ==
  ASSUME IInv, Senders
  PROVE  \/ /\ Silent
            /\ \A q \in Procs : PhaseAfter(q, "", Console)
         \/ \E m \in Messages :
              /\ Post(m) /\ Honest(m) /\ Meant(m)
              /\ \A q \in Procs : PhaseAfter(q, m.kind, m.pid)
<1> DEFINE Quiet == Silent /\ \A q \in Procs : PhaseAfter(q, "", Console)
           Posts(m) == /\ Post(m) /\ Honest(m)
                       /\ \A q \in Procs : PhaseAfter(q, m.kind, m.pid)
           Goal == Quiet \/ \E m : Posts(m)
<1>1. phase \in [Procs -> {"unborn", "up", "gone"}] /\ image \in [Procs -> Nat]
  BY DEF IInv, TypeOK, SenderType
<1>0. Console \notin Procs
  BY NamesAssumption
<1>2. ASSUME NEW p \in Procs, NEW exported \in BOOLEAN, Announce(p, exported) PROVE Goal
  <2> DEFINE m == Msg("NEWEXEC", p, IF exported THEN "" ELSE "nomain", Len(sent) + 1)
  <2>1. Post(m) /\ m.kind = "NEWEXEC" /\ m.pid = p /\ Honest(m)
    BY <1>0, <1>2 DEF Announce, Honest, Msg
  <2>2. /\ phase' = [phase EXCEPT ![p] = "up"] /\ image' = [image EXCEPT ![p] = Len(sent) + 1]
    BY <1>2 DEF Announce, NewImage
  <2> HIDE DEF m
  <2>3. ASSUME NEW q \in Procs PROVE PhaseAfter(q, "NEWEXEC", p)
    BY <1>1, <2>2 DEF PhaseAfter, ImageAfter
  <2> QED BY <2>1, <2>3
<1>3. ASSUME NEW p \in Procs, NEW c \in Procs, Fork(p, c) PROVE Goal
  <2>1. Silent
    BY <1>3 DEF Fork, Silent
  <2>2. ASSUME NEW q \in Procs PROVE PhaseAfter(q, "", Console)
    BY <1>1, <1>3 DEF Fork, Active, PhaseAfter, ImageAfter
  <2> QED BY <2>1, <2>2
<1>4. ASSUME UNCHANGED <<phase, image>>, NEW m, Post(m), Honest(m),
             m.kind = "NEWEXEC" => m.pid = Console
      PROVE  Goal
  <2>1. ASSUME NEW q \in Procs PROVE PhaseAfter(q, m.kind, m.pid)
    BY <1>0, <1>4 DEF PhaseAfter, ImageAfter
  <2> QED BY <1>4, <2>1
<1>5. ASSUME NEW p \in Procs, ReportFork(p) PROVE Goal
  <2>1. Honest(Msg("FORK", p, forking[p], image[p]))
    BY <1>0 DEF Honest, Msg
  <2> QED BY <1>4, <1>5, <2>1 DEF ReportFork, Msg
<1>6. ASSUME NEW p \in Procs, NEW l \in Libs, ReportLibrary(p, l) PROVE Goal
  <2>1. Honest(Msg("EXTERNAL", p, l, image[p]))
    BY <1>0, <1>6 DEF Honest, Msg, ReportLibrary, Active
  <2> QED BY <1>4, <1>6, <2>1 DEF ReportLibrary, Msg
<1>7. ASSUME NEW p \in Procs, Report(p) PROVE Goal
  <2>1. PICK k \in HeapKinds \cup {"#", "other", "FREE", "CUSTOM"}, a \in Words :
          Post(Msg(k, p, a, image[p]))
    BY <1>7 DEF Report, HeapKinds, Words
  <2>2. Honest(Msg(k, p, a, image[p])) /\ Msg(k, p, a, image[p]).kind # "NEWEXEC"
    BY <1>0 DEF Honest, Msg, HeapKinds
  <2> QED BY <1>4, <1>7, <2>1, <2>2 DEF Report, senderVars
<1>8. ASSUME NEW p \in Procs, Leave(p) PROVE Goal
  <2>1. Silent
    BY <1>8 DEF Leave, Silent
  <2>2. ASSUME NEW q \in Procs PROVE PhaseAfter(q, "", Console)
    BY <1>1, <1>8 DEF Leave, PhaseAfter, ImageAfter
  <2> QED BY <2>1, <2>2
<1>9. ASSUME Command PROVE Goal
  <2>1. PICK k \in {"save", "other", "QUIT", "next", "CUSTOM", "set"}, a \in Words \ {"bare"} :
          Post(Msg(k, Console, a, 0)) /\ (k = "next" => NextsSent < MaxNext)
    BY <1>9 DEF Command, Words, SetKeys
  <2>2. Honest(Msg(k, Console, a, 0)) /\ Msg(k, Console, a, 0).kind # "NEWEXEC"
    BY <2>1 DEF Honest, Msg
  <2> QED BY <1>4, <1>9, <2>1, <2>2 DEF Command, senderVars
<1>10. ASSUME Typed PROVE Goal
  <2>t. "TYPED" \in Traffic
    BY ONLY <1>10, Zenon DEF Typed
  <2>0. UNCHANGED <<phase, image>>
    <3>1. UNCHANGED senderVars
      BY ONLY <1>10, Zenon DEF Typed
    <3> QED BY <3>1 DEF senderVars
  <2>1. CASE Post(Msg("NEWEXEC", Console, "nomain", Len(sent) + 1))
    <3>1. /\ Honest(Msg("NEWEXEC", Console, "nomain", Len(sent) + 1))
          /\ Msg("NEWEXEC", Console, "nomain", Len(sent) + 1).pid = Console
      BY <2>t DEF Honest, Msg
    <3> QED BY <1>4, <2>0, <2>1, <3>1
  <2>2. CASE \E k \in Kinds \ {"NEWEXEC", "next"}, a \in Args : Post(Msg(k, Console, a, 0))
    <3>1. PICK k \in Kinds \ {"NEWEXEC", "next"}, a \in Args : Post(Msg(k, Console, a, 0))
      BY <2>2
    <3>2. Honest(Msg(k, Console, a, 0)) /\ Msg(k, Console, a, 0).pid = Console
      BY <2>t, <3>1 DEF Honest, Msg
    <3> QED BY <1>4, <2>0, <3>1, <3>2
  <2>3. HeapKinds \cup {"FREE", "EXTERNAL", "FORK"} \subseteq Kinds \ {"NEWEXEC", "next"}
        /\ {"", "bare"} \subseteq Args /\ Libs \subseteq Args
    BY DEF Kinds, RecordKinds, HeapKinds, Args, Words
  <2>4. \/ Post(Msg("NEWEXEC", Console, "nomain", Len(sent) + 1))
        \/ \E k \in Kinds \ {"NEWEXEC", "next"}, a \in Args : Post(Msg(k, Console, a, 0))
    BY <1>10, <2>3 DEF Typed
  <2> QED BY <2>1, <2>2, <2>4
<1>11. Goal
  BY <1>2, <1>3, <1>5, <1>6, <1>7, <1>8, <1>9, <1>10 DEF Senders
<1>12. CASE Quiet
  BY <1>12
<1>13. CASE \E m : Posts(m)
  <2>1. PICK m : Posts(m)
    BY <1>13
  <2>2. sent \in Seq(Messages) /\ sent' = Append(sent, m)
    BY <2>1 DEF IInv, TypeOK, QueueType, Post
  <2>3. Len(sent') = Len(sent) + 1 /\ sent'[Len(sent) + 1] = m /\ sent' # sent
    <3>1. m \in Messages \cup {m} /\ sent \in Seq(Messages \cup {m})
      BY <2>2
    <3> HIDE DEF Posts
    <3> QED BY <2>2, <3>1, AppendProperties
  <2>4. PICK o \in Messages : Post(o) /\ Meant(o)
    BY <2>3, SendersDo DEF Silent
  <2>5. sent'[Len(sent) + 1] = o
    <3>1. sent' = Append(sent, o)
      BY <2>4 DEF Post
    <3>2. o \in Messages /\ sent \in Seq(Messages)
      BY <2>2, <2>4
    <3> QED BY ONLY <3>1, <3>2, AppendProperties
  <2> QED BY <2>1, <2>3, <2>4, <2>5
<1> QED BY <1>11, <1>12, <1>13

(* The senders' side of the images.                                         *)
LEMMA NextsSentAre == NextsSent = Cardinality(Nexts(sent, Len(sent), {}))
BY DEF NextsSent, Nexts

LEMMA SilentMapped ==
  ASSUME IInv, HInv, MInv, Silent, \A q \in Procs : PhaseAfter(q, "", Console)
  PROVE  MInv'
<1>1. UNCHANGED <<sent, queue, mgr, execs, current_exec, op_ctr>>
  BY DEF Silent, memoryVars, execVars
<1>2. UpMapped'
  <2> SUFFICES ASSUME NEW q \in Procs, phase'[q] = "up"
               PROVE  Mapped(sent, Len(sent), q, image'[q])
    BY <1>1 DEF UpMapped
  <2>1. ImageAfter(q, "", Console)
    BY DEF PhaseAfter
  <2>2. CASE phase[q] = "up" /\ image'[q] = image[q]
    BY <2>2 DEF MInv, UpMapped
  <2>3. CASE phase[q] = "unborn" /\ \E r \in Procs : phase[r] = "up" /\ image'[q] = image[r]
    <3>1. PICK r \in Procs : phase[r] = "up" /\ image'[q] = image[r]
      BY <2>3
    <3>2. Mapped(sent, Len(sent), r, image[r])
      BY <3>1 DEF MInv, UpMapped
    <3>3. \A i \in 1..Len(sent) : ~Announces(sent, i, q)
      BY <2>3 DEF MInv, UnbornSilent
    <3>4. \A k \in (image[r] + 1)..Len(sent) : k \in 1..Len(sent)
      <4>1. image[r] \in 1..Len(sent)
        BY <3>2 DEF Mapped
      <4> QED BY ONLY <4>1
    <3> QED BY <3>1, <3>2, <3>3, <3>4 DEF Mapped
  <2> QED BY <2>1, <2>2, <2>3 DEF ImageAfter
<1>3. UnbornSilent'
  BY <1>1 DEF MInv, UnbornSilent, PhaseAfter
<1>4. ExternalMapped' /\ NextsBounded'
  BY <1>1 DEF MInv, ExternalMapped, NextsBounded, NextsSent
<1>5. CurrentLatest'
  BY <1>1 DEF MInv, CurrentLatest, Handled
<1> QED BY <1>2, <1>3, <1>4, <1>5 DEF MInv

LEMMA PostMapped ==
  ASSUME IInv, HInv, MInv, NEW m \in Messages, Post(m), Honest(m),
         \A q \in Procs : PhaseAfter(q, m.kind, m.pid)
  PROVE  MInv'
<1> DEFINE n == Len(sent)
<1>1. /\ Handled' = Handled /\ Handled \in 0..n
      /\ Len(sent') = n + 1 /\ sent'[n + 1] = m
      /\ \A i \in 1..n : sent'[i] = sent[i]
  BY Posted DEF HInv
<1>2. n \in Nat
  BY DEF IInv, TypeOK, QueueType
<1> HIDE DEF n
<1>3. ASSUME NEW q \in Procs, phase[q] = "up", ~(m.kind = "NEWEXEC" /\ m.pid = q)
      PROVE  Mapped(sent', n + 1, q, image[q])
  <2>1. Mapped(sent, n, q, image[q])
    BY <1>3 DEF MInv, UpMapped, n
  <2>2. ~Announces(sent', n + 1, q)
    BY <1>1, <1>3 DEF Announces
  <2> QED BY <1>1, <1>2, <2>1, <2>2, MappedLater
<1>4. UnbornSilent'
  <2> SUFFICES ASSUME NEW q \in Procs, phase'[q] = "unborn", NEW i \in 1..(n + 1)
               PROVE  ~Announces(sent', i, q)
    BY <1>1 DEF UnbornSilent
  <2>1. phase[q] = "unborn" /\ ~(m.kind = "NEWEXEC" /\ m.pid = q)
    BY DEF PhaseAfter
  <2>2. CASE i = n + 1
    BY <1>1, <2>1, <2>2 DEF Announces
  <2>3. CASE i \in 1..n
    BY <1>1, <2>1, <2>3 DEF MInv, UnbornSilent, Announces, n
  <2> QED BY <1>2, <2>2, <2>3
<1>5. UpMapped'
  <2> SUFFICES ASSUME NEW q \in Procs, phase'[q] = "up"
               PROVE  Mapped(sent', n + 1, q, image'[q])
    BY <1>1 DEF UpMapped
  <2>1. ImageAfter(q, m.kind, m.pid)
    BY DEF PhaseAfter
  <2>2. CASE m.kind = "NEWEXEC" /\ m.pid = q /\ image'[q] = n + 1
    <3>1. n + 1 \in 1..(n + 1) /\ \A k \in (n + 1 + 1)..(n + 1) : FALSE
      BY <1>2
    <3> QED BY <1>1, <2>2, <3>1 DEF Mapped
  <2>3. CASE ~(m.kind = "NEWEXEC" /\ m.pid = q) /\ phase[q] = "up" /\ image'[q] = image[q]
    BY <1>3, <2>3
  <2>4. CASE /\ m.kind # "NEWEXEC" /\ phase[q] = "unborn"
             /\ \E r \in Procs : phase[r] = "up" /\ image'[q] = image[r]
    <3>1. PICK r \in Procs : phase[r] = "up" /\ image'[q] = image[r]
      BY <2>4
    <3>2. Mapped(sent', n + 1, r, image[r])
      BY <1>3, <2>4, <3>1
    <3>3. ASSUME NEW i \in 1..(n + 1) PROVE ~Announces(sent', i, q)
      <4>1. CASE i = n + 1
        BY <1>1, <2>4, <4>1 DEF Announces
      <4>2. CASE i \in 1..n
        BY <1>1, <2>4, <4>2 DEF MInv, UnbornSilent, Announces, n
      <4> QED BY <1>2, <4>1, <4>2
    <3>4. \A k \in (image[r] + 1)..(n + 1) : k \in 1..(n + 1)
      BY <3>2 DEF Mapped
    <3> QED BY <3>1, <3>2, <3>3, <3>4 DEF Mapped
  <2> QED BY <2>1, <2>2, <2>3, <2>4 DEF ImageAfter, n
<1>6. ExternalMapped'
  <2> SUFFICES ASSUME NEW i \in 1..(n + 1), sent'[i].kind = "EXTERNAL", sent'[i].pid # Console
               PROVE  Mapped(sent', i, sent'[i].pid, sent'[i].img)
    BY <1>1 DEF ExternalMapped
  <2>1. CASE i = n + 1
    <3>1. m.pid \in Procs /\ phase[m.pid] = "up" /\ m.img = image[m.pid] /\ m.kind # "NEWEXEC"
      BY <1>1, <2>1 DEF Honest
    <3> QED BY <1>1, <1>3, <2>1, <3>1
  <2>2. CASE i \in 1..n
    <3>1. sent'[i] = sent[i]
      BY <1>1, <2>2
    <3>2. Mapped(sent, i, sent[i].pid, sent[i].img)
      BY <2>2, <3>1 DEF MInv, ExternalMapped, n
    <3>3. \A k \in 1..i : sent'[k] = sent[k]
      BY <1>1, <1>2, <2>2
    <3>4. \A k \in (sent[i].img + 1)..i : k \in 1..i
      BY <3>2 DEF Mapped
    <3> QED BY <3>1, <3>2, <3>3, <3>4 DEF Mapped, Announces
  <2> QED BY <1>2, <2>1, <2>2
<1>7. CurrentLatest'
  <2>1. mgr' = mgr /\ current_exec' = current_exec /\ execs' = execs
    BY DEF Post, memoryVars, execVars
  <2>2. \A k \in 1..Handled : sent'[k] = sent[k]
    BY <1>1, <1>2
  <2>3. ASSUME NEW img, Latest(sent, Handled, img)
        PROVE  Latest(sent', Handled, img) /\ sent'[img] = sent[img]
    <3>1. \A k \in (img + 1)..Handled : k \in 1..Handled
      BY <1>1, <1>2, <2>3 DEF Latest
    <3> QED BY <2>2, <2>3, <3>1 DEF Latest
  <2> QED BY <1>1, <2>1, <2>2, <2>3 DEF MInv, CurrentLatest
<1>8. NextsBounded'
  <2>1. Nexts(sent', n, {}) = Nexts(sent, n, {})
    BY <1>1 DEF Nexts
  <2>2. NextsSent = Cardinality(Nexts(sent, n, {})) /\ NextsSent \in Nat
    BY <1>2, NextsSentAre, NextsCount DEF n
  <2>3. NextsSent' = Cardinality(Nexts(sent', n + 1, {}))
    BY <1>1 DEF NextsSent, Nexts
  <2>4. op_ctr' = op_ctr /\ op_ctr \in Nat
    <3>1. op_ctr' = op_ctr
      BY DEF Post, memoryVars
    <3>2. op_ctr \in 0..MaxOps
      BY DEF IInv, TypeOK, TableType
    <3> QED BY <3>1, <3>2
  <2>5. CASE m.kind = "next"
    <3>1. Begins(sent', n + 1, {})
      BY <1>1, <2>5 DEF Begins
    <3>2. NextsSent' = NextsSent + 1
      BY <1>2, <2>1, <2>2, <2>3, <3>1, NextOperation
    <3>3. NextsSent < MaxNext
      BY <2>5 DEF Honest
    <3> QED BY <2>2, <2>4, <3>2, <3>3, SizesAssumption DEF MInv, NextsBounded
  <2>6. CASE m.kind # "next"
    <3>1. ~Begins(sent', n + 1, {})
      BY <1>1, <2>6 DEF Begins
    <3>2. NextsSent' = NextsSent
      BY <1>2, <2>1, <2>2, <2>3, <3>1, SameOperation
    <3> QED BY <2>4, <3>2 DEF MInv, NextsBounded
  <2> QED BY <2>5, <2>6
<1> QED BY <1>4, <1>5, <1>6, <1>7, <1>8 DEF MInv

LEMMA SendersMapped == IInv /\ HInv /\ MInv /\ Senders => MInv'
BY SendersHonest, SilentMapped, PostMapped

(* The manager's side: the record the next library goes to.                 *)
LEMMA SameExec ==
  ASSUME IInv, HInv, MInv, NEW K, Receive(K), Head(queue).kind # "NEWEXEC",
         current_exec' = current_exec,
         current_exec # 0 =>
           /\ execs'[current_exec].img = execs[current_exec].img
           /\ execs'[current_exec].from = execs[current_exec].from
  PROVE  CurrentLatest'
<1>1. /\ sent' = sent /\ Handled' = Handled + 1 /\ Handled \in Nat
      /\ sent[Handled + 1].kind # "NEWEXEC"
  BY Received DEF HInv
<1>2. mgr # "crashed"
  BY DEF Receive
<1>3. CASE current_exec = 0
  <2>1. \A k \in 1..Handled : sent[k].kind # "NEWEXEC"
    BY <1>2, <1>3 DEF MInv, CurrentLatest
  <2>2. \A k \in 1..(Handled + 1) : k \in 1..Handled \/ k = Handled + 1
    BY <1>1
  <2> QED BY <1>1, <1>3, <2>1, <2>2 DEF CurrentLatest
<1>4. CASE current_exec # 0
  <2> DEFINE img == execs[current_exec].img
  <2>1. Latest(sent, Handled, img) /\ sent[img].pid = execs[current_exec].from
    BY <1>2, <1>4 DEF MInv, CurrentLatest
  <2>2. \A k \in (img + 1)..(Handled + 1) : k \in (img + 1)..Handled \/ k = Handled + 1
    BY <1>1, <2>1 DEF Latest
  <2>3. img \in 1..(Handled + 1)
    BY <1>1, <2>1 DEF Latest
  <2>4. Latest(sent, Handled + 1, img)
    BY <1>1, <2>1, <2>2, <2>3 DEF Latest
  <2> QED BY <1>1, <1>4, <2>1, <2>4 DEF CurrentLatest
<1> QED BY <1>3, <1>4

LEMMA NewExecLatest ==
  ASSUME IInv, HInv, HandleNewExec
  PROVE  CurrentLatest'
<1> DEFINE m == Head(queue)
<1>1. Receive({"NEWEXEC"}) /\ execs' = Append(execs, NewExecRecord(m))
      /\ current_exec' = Len(execs) + 1
  BY DEF HandleNewExec
<1>2. /\ sent' = sent /\ Handled' = Handled + 1 /\ Handled \in Nat
      /\ Handled + 1 \in 1..Len(sent)
      /\ m = sent[Handled + 1] /\ m.kind \in {"NEWEXEC"} /\ m \in Messages
  BY <1>1, Received DEF HInv
<1>3. NewExecRecord(m) \in ExecRecords /\ NewExecRecord(m).img = m.img
      /\ NewExecRecord(m).from = m.pid
  <2>1. <<>> \in Seq(LibEntries)
    OBVIOUS
  <2> QED BY <1>2, <2>1 DEF NewExecRecord, ExecRecords, Messages
<1>4. m.img = Handled + 1
  BY <1>2 DEF HInv, AllMeant
<1> HIDE DEF m
<1>5. execs \in Seq(ExecRecords) /\ Len(execs) + 1 # 0
  BY DEF IInv, TypeOK, TableType
<1>6. execs'[current_exec'].img = m.img /\ execs'[current_exec'].from = m.pid
  BY <1>1, <1>3, <1>5, AppendProperties
<1>7. Handled + 1 \in 1..(Handled + 1) /\ \A k \in (Handled + 1 + 1)..(Handled + 1) : FALSE
  BY <1>2
<1>8. Latest(sent, Handled + 1, m.img)
  BY <1>2, <1>4, <1>7 DEF Latest
<1> QED BY <1>1, <1>2, <1>4, <1>5, <1>6, <1>8 DEF CurrentLatest

(* mgr_add_external changes no image.                                       *)
ExecWith(m) ==
  [execs[current_exec] EXCEPT !.libs = Append(@, [lib |-> m.arg, img |-> m.img, from |-> m.pid])]

LEMMA ExternalDoes ==
  ASSUME IInv, HandleExternal
  PROVE  /\ execs \in Seq(ExecRecords) /\ current_exec = Len(execs)
         /\ \/ execs' = execs
            \/ /\ current_exec \in 1..Len(execs) /\ Len(execs') = Len(execs)
               /\ execs' \in Seq(ExecRecords)
               /\ execs'[current_exec] = ExecWith(Head(queue))
               /\ \A e \in 1..Len(execs) : e # current_exec => execs'[e] = execs[e]
<1>1. execs \in Seq(ExecRecords) /\ current_exec = Len(execs)
  BY DEF IInv, TypeOK, TableType, ExecRefs
<1>2. current_exec # 0 /\ Head(queue) \in Messages
  <2>1. Head(queue).kind = "EXTERNAL"
    BY DEF HandleExternal, Receive
  <2> QED BY <2>1, ReceiveStep DEF HandleExternal, Malformed
<1>3. execs' = execs \/ execs' = [execs EXCEPT ![current_exec] = ExecWith(Head(queue))]
  BY DEF HandleExternal, ExecWith
<1>4. current_exec \in 1..Len(execs) /\ execs[current_exec] \in ExecRecords
  BY <1>1, <1>2
<1>5. ExecWith(Head(queue)) \in ExecRecords
  <2> DEFINE l == [lib |-> Head(queue).arg, img |-> Head(queue).img, from |-> Head(queue).pid]
             old == execs[current_exec]
  <2>1. l \in LibEntries /\ old.libs \in Seq(LibEntries)
    BY <1>2, <1>4 DEF LibEntries, Messages, ExecRecords
  <2>2. Append(old.libs, l) \in Seq(LibEntries)
    <3> HIDE DEF l, old
    <3> QED BY <2>1
  <2>3. ExecWith(Head(queue)) = [old EXCEPT !.libs = Append(@, l)]
    BY DEF ExecWith
  <2> HIDE DEF l
  <2>4. old \in ExecRecords
    BY <1>4
  <2> HIDE DEF old
  <2>5. [old EXCEPT !.libs = Append(@, l)] \in ExecRecords
    BY <2>2, <2>4 DEF ExecRecords
  <2> QED BY <2>3, <2>5
<1> QED BY <1>1, <1>3, <1>4, <1>5, ReplaceElement

LEMMA ExecWithFields ==
  ASSUME execs[current_exec] \in ExecRecords, NEW m \in Messages
  PROVE  /\ ExecWith(m).img = execs[current_exec].img
         /\ ExecWith(m).from = execs[current_exec].from
         /\ ExecWith(m).libs = Append(execs[current_exec].libs,
                                      [lib |-> m.arg, img |-> m.img, from |-> m.pid])
         /\ execs[current_exec].libs \in Seq(LibEntries)
         /\ [lib |-> m.arg, img |-> m.img, from |-> m.pid] \in LibEntries
BY DEF ExecWith, ExecRecords, LibEntries, Messages

LEMMA ExternalLatest ==
  ASSUME IInv, HInv, MInv, HandleExternal
  PROVE  CurrentLatest'
<1>1. Receive({"EXTERNAL"}) /\ current_exec' = current_exec
  BY DEF HandleExternal
<1>2. Head(queue).kind # "NEWEXEC" /\ Head(queue) \in Messages
  BY <1>1, ReceiveStep DEF Receive
<1>3. current_exec # 0 =>
        /\ execs'[current_exec].img = execs[current_exec].img
        /\ execs'[current_exec].from = execs[current_exec].from
  <2> SUFFICES ASSUME current_exec # 0
               PROVE  /\ execs'[current_exec].img = execs[current_exec].img
                      /\ execs'[current_exec].from = execs[current_exec].from
    OBVIOUS
  <2>1. /\ execs \in Seq(ExecRecords) /\ current_exec = Len(execs)
        /\ execs' = execs \/ execs'[current_exec] = ExecWith(Head(queue))
    BY ExternalDoes
  <2>2. execs[current_exec] \in ExecRecords
    BY <2>1
  <2> QED BY <1>2, <2>1, <2>2, ExecWithFields
<1> QED BY <1>1, <1>2, <1>3, SameExec

(* op_ctr never gets ahead of the "next" commands sent.                     *)
LEMMA CounterStep ==
  ASSUME IInv, HInv, HInv', MInv, NEW K, Receive(K), op_ctr' = op_ctr \/ mgr' # "crashed"
  PROVE  NextsBounded'
<1>1. sent' = sent /\ Handled' = Handled + 1 /\ Handled \in Nat /\ Handled + 1 \in 1..Len(sent)
  BY Received DEF HInv
<1>2. NextsSent' = NextsSent
  BY <1>1 DEF NextsSent
<1>3. CASE op_ctr' = op_ctr
  BY <1>2, <1>3 DEF MInv, NextsBounded
<1>4. CASE mgr' # "crashed"
  <2>1. op_ctr' = Cardinality(Nexts(sent, Handled + 1, lost'))
    BY <1>1, <1>4 DEF HInv, NextsCounted, Nexts
  <2>2. Len(sent) \in Nat /\ Handled + 1 \in Nat /\ Handled + 1 <= Len(sent)
    BY <1>1 DEF IInv, TypeOK, QueueType
  <2>3. Nexts(sent, Handled + 1, lost') \in SUBSET Nexts(sent, Len(sent), {})
    BY <2>2 DEF Nexts
  <2>4. IsFiniteSet(Nexts(sent, Len(sent), {}))
    BY <2>2, NextsCount
  <2>5. Cardinality(Nexts(sent, Handled + 1, lost')) <= Cardinality(Nexts(sent, Len(sent), {}))
    BY <2>3, <2>4, FS_Subset
  <2> QED BY <1>2, <2>1, <2>5, NextsSentAre DEF MInv, NextsBounded
<1> QED BY <1>3, <1>4

LEMMA HandlerMapped ==
  ASSUME IInv, HInv, HInv', MInv, Manager, ~Exports
  PROVE  MInv'
<1>1. PICK K : Receive(K)
  BY DEF Manager, Exports, HandleComment, HandlePastTable, HandleWithoutArray, HandleMalformed,
         HandleOverrun, HandleOutOfMemory, HandleHeapEvent, HandleFree, HandleNewExec,
         HandleCustom, HandleFork, HandleExternal, HandleNext, HandleSet, HandleSave,
         HandleOther, HandleQuit
<1>2. sent' = sent /\ phase' = phase /\ image' = image
  BY <1>1 DEF Receive, senderVars
<1>3. UpMapped' /\ UnbornSilent' /\ ExternalMapped'
  BY <1>2 DEF MInv, UpMapped, UnbornSilent, ExternalMapped
<1>4. op_ctr' = op_ctr \/ mgr' # "crashed"
  <2>1. HandleNext => mgr' # "crashed"
    BY DEF HandleNext, Receive
  <2> QED BY <2>1 DEF Manager, Exports, HandleComment, HandlePastTable, HandleWithoutArray,
         HandleMalformed, HandleOverrun, HandleOutOfMemory, HandleHeapEvent, HandleFree,
         HandleNewExec, HandleCustom, HandleFork, HandleExternal, HandleSet, HandleSave,
         HandleOther, HandleQuit, memoryVars
<1>5. NextsBounded'
  BY <1>1, <1>4, CounterStep
<1>6. CurrentLatest'
  <2>1. CASE mgr' = "crashed"
    BY <2>1 DEF CurrentLatest
  <2>2. CASE HandleNewExec
    BY <2>2, NewExecLatest
  <2>3. CASE HandleExternal
    BY <2>3, ExternalLatest
  <2>4. CASE mgr' # "crashed" /\ ~HandleNewExec /\ ~HandleExternal
    <3>1. UNCHANGED execVars
      BY <2>4, ExecsUntouched DEF Next
    <3>2. \E J : Receive(J) /\ Head(queue).kind # "NEWEXEC"
      BY <2>4 DEF Manager, Exports, HandleComment, HandlePastTable, HandleWithoutArray,
         HandleMalformed, HandleOverrun, HandleOutOfMemory, HandleHeapEvent, HandleFree,
         HandleCustom, HandleFork, HandleNext, HandleSet, HandleSave,
         HandleOther, HandleQuit, ChecksMalloc, HeapKinds, Receive
    <3> QED BY <3>1, <3>2, SameExec DEF execVars
  <2> QED BY <2>1, <2>2, <2>3, <2>4
<1> QED BY <1>3, <1>5, <1>6 DEF MInv

LEMMA MappedNext == IInv /\ HInv /\ HInv' /\ MInv /\ [Next]_vars => MInv'
<1> SUFFICES ASSUME IInv, HInv, HInv', MInv, [Next]_vars PROVE MInv'
  OBVIOUS
<1>1. CASE Senders
  BY <1>1, SendersMapped
<1>2. CASE Manager /\ ~Exports
  BY <1>2, HandlerMapped
<1>3. CASE Exports \/ Killed \/ UNCHANGED vars
  <2>1. /\ UNCHANGED <<queue, sent, execs, current_exec, op_ctr, phase, image>>
        /\ mgr' = mgr \/ mgr # "crashed"
    BY <1>3 DEF Exports, ExportNext, ExportRecord, ExportEnd, ExportCrash, Exporting, Killed,
                vars, memoryVars, execVars, senderVars
  <2> QED BY <2>1 DEF MInv, UpMapped, UnbornSilent, ExternalMapped, CurrentLatest, NextsBounded,
                      NextsSent, Handled
<1> QED BY <1>1, <1>2, <1>3 DEF Next

LEMMA MappedInit == Init => MInv
<1> SUFFICES ASSUME Init PROVE MInv
  OBVIOUS
<1>1. sent = <<>> /\ Handled = 0 /\ current_exec = 0 /\ Len(sent) = 0 /\ op_ctr = 0
  BY DEF Init, Handled
<1>2. UpMapped /\ UnbornSilent /\ ExternalMapped /\ CurrentLatest
  BY <1>1 DEF Init, UpMapped, UnbornSilent, ExternalMapped, CurrentLatest
<1>3. NextsSent = 0
  <2>1. {i \in 1..Len(sent) : sent[i].kind = "next"} = {}
    BY <1>1
  <2> QED BY <2>1, FS_EmptySet DEF NextsSent
<1> QED BY <1>1, <1>2, <1>3, SizesAssumption DEF MInv, NextsBounded

LEMMA MappedInvariant == Spec => []MInv
BY MappedNext, MappedInit, Invariant, HistoryInvariant, PTL DEF Spec

-----------------------------------------------------------------------------
(* Crashes. An EXTERNAL of a process never finds the table of execs empty:  *)
(* the image it comes from was announced in an earlier message.             *)
LEMMA ExecThere ==
  ASSUME IInv, HInv, MInv, Receive({"EXTERNAL"}), Head(queue).pid # Console
  PROVE  /\ current_exec # 0
         /\ Mapped(sent, Handled + 1, Head(queue).pid, Head(queue).img)
         /\ Latest(sent, Handled, execs[current_exec].img)
         /\ sent[execs[current_exec].img].pid = execs[current_exec].from
         /\ Head(queue).img \in 1..Handled
<1>1. /\ Handled \in Nat /\ Handled + 1 \in 1..Len(sent)
      /\ Head(queue) = sent[Handled + 1] /\ Head(queue).kind \in {"EXTERNAL"}
  BY Received DEF HInv
<1>2. Mapped(sent, Handled + 1, Head(queue).pid, Head(queue).img)
  BY <1>1 DEF MInv, ExternalMapped
<1>3. Head(queue).img # Handled + 1
  BY <1>1, <1>2 DEF Mapped
<1>4. Head(queue).img \in 1..Handled
  BY <1>1, <1>2, <1>3 DEF Mapped
<1>5. mgr # "crashed"
  BY DEF Receive
<1>6. current_exec # 0
  BY <1>2, <1>4, <1>5 DEF MInv, CurrentLatest, Mapped
<1> QED BY <1>2, <1>4, <1>5, <1>6 DEF MInv, CurrentLatest

LEMMA CrashStays ==
  ASSUME IInv, HInv, [Next]_vars, mgr = "crashed"
  PROVE  /\ Handled' = Handled /\ lost' = lost /\ op_ctr' = op_ctr /\ ops' = ops
         /\ \A i \in 1..Len(sent) : sent'[i] = sent[i]
         /\ Len(sent) \in Nat /\ Len(sent') \in Nat /\ Len(sent) <= Len(sent')
<1>0. Len(sent) \in Nat
  BY DEF IInv, TypeOK, QueueType
<1>1. ~Manager /\ ~Killed
  BY DEF Manager, HandleComment, HandlePastTable, HandleWithoutArray, HandleMalformed,
         HandleOverrun, HandleOutOfMemory, HandleHeapEvent, HandleFree, HandleNewExec,
         HandleCustom, HandleFork, HandleExternal, HandleNext, HandleSet, HandleSave,
         HandleOther, HandleQuit, ExportNext, ExportRecord, ExportEnd, ExportCrash, Exporting,
         Receive, Killed
<1>2. CASE Silent \/ UNCHANGED vars
  BY <1>0, <1>2 DEF Silent, vars, memoryVars, Handled
<1>3. ASSUME NEW m \in Messages, Post(m)
      PROVE  /\ Handled' = Handled /\ lost' = lost /\ op_ctr' = op_ctr /\ ops' = ops
             /\ \A i \in 1..Len(sent) : sent'[i] = sent[i]
             /\ Len(sent') \in Nat /\ Len(sent) <= Len(sent')
  <2>1. Handled' = Handled /\ \A i \in 1..Len(sent) : sent'[i] = sent[i]
        /\ Len(sent') = Len(sent) + 1
    BY <1>3, Posted DEF HInv
  <2>2. lost' = lost /\ op_ctr' = op_ctr /\ ops' = ops
    BY <1>3 DEF Post, memoryVars
  <2>3. Len(sent') \in Nat /\ Len(sent) <= Len(sent')
    BY <1>0, <2>1
  <2> QED BY <2>1, <2>2, <2>3
<1>4. Senders => Silent \/ \E m \in Messages : Post(m)
  BY SendersDo
<1> QED BY <1>0, <1>1, <1>2, <1>3, <1>4 DEF Next

(* A crashed manager died over a message it had taken.                      *)
TakenBefore == mgr = "crashed" => Handled \in 1..Len(sent) \/ \E i \in 1..Len(ops) : ops[i].slots = 0

CInv == CrashCause /\ TakenBefore

LEMMA CrashCauseNext == IInv /\ HInv /\ MInv /\ CInv /\ [Next]_vars => CInv'
<1> DEFINE Without == \E i \in 1..Len(ops) : ops[i].slots = 0
           Cause(m) == \/ m.arg = "many"
                       \/ m.pid = Console /\ (m.arg = "bare" \/ m.kind = "EXTERNAL")
<1> SUFFICES ASSUME IInv, HInv, MInv, CInv, [Next]_vars, mgr' = "crashed"
             PROVE  /\ Handled' \in 1..Len(sent') \/ Without'
                    /\ \/ op_ctr' = MaxOps \/ Handled' \in lost' \/ Without'
                       \/ Cause(sent'[Handled'])
  BY DEF CInv, CrashCause, TakenBefore
<1>1. CASE mgr = "crashed"
  <2>1. /\ Handled' = Handled /\ lost' = lost /\ op_ctr' = op_ctr /\ ops' = ops
        /\ \A i \in 1..Len(sent) : sent'[i] = sent[i]
        /\ Len(sent) \in Nat /\ Len(sent') \in Nat /\ Len(sent) <= Len(sent')
    BY <1>1, CrashStays
  <2>2. CASE Without
    BY <2>1, <2>2
  <2>3. CASE Handled \in 1..Len(sent) /\ ~Without
    <3>1. sent'[Handled] = sent[Handled]
      BY <2>1, <2>3
    <3>2. Handled' \in 1..Len(sent')
      BY <2>1, <2>3
    <3>3. op_ctr = MaxOps \/ Handled \in lost \/ Cause(sent[Handled])
      BY <1>1, <2>3 DEF CInv, CrashCause
    <3> QED BY <2>1, <3>1, <3>2, <3>3
  <2> QED BY <1>1, <2>2, <2>3 DEF CInv, TakenBefore
<1>2. CASE mgr # "crashed"
  <2>1. ASSUME NEW K, Receive(K)
        PROVE  /\ Handled' \in 1..Len(sent') /\ sent'[Handled'] = Head(queue)
               /\ Handled' = Handled + 1 /\ Handled + 1 \in 1..Len(sent)
               /\ Head(queue) = sent[Handled + 1]
    BY <2>1, Received DEF HInv
  <2>2. CASE HandlePastTable
    <3>1. Receive(Kinds \ {"#"}) /\ op_ctr' = op_ctr /\ ~InTable
      BY <2>2 DEF HandlePastTable, memoryVars
    <3>2. op_ctr = MaxOps
      BY <3>1, SizesAssumption DEF InTable, IInv, TypeOK, TableType
    <3> QED BY <2>1, <3>1, <3>2
  <2>3. CASE HandleOutOfMemory \/ HandleOverrun
    <3>1. PICK K : Receive(K)
      BY <2>3 DEF HandleOutOfMemory, HandleOverrun
    <3>2. Handled + 1 \in lost'
      BY <2>3 DEF HandleOutOfMemory, HandleOverrun, Dropped
    <3> QED BY <2>1, <3>1, <3>2
  <2>4. CASE HandleWithoutArray
    <3>1. Receive(RecordKinds) /\ InTable
      BY <2>4 DEF HandleWithoutArray
    <3>2. PICK g \in Grown : g.slots = 0 /\ ops' = WithCurrent(g)
      BY <2>4 DEF HandleWithoutArray, Keep
    <3>3. ops \in Seq(OpRecords) /\ op_ctr + 1 \in 1..Len(ops)
      BY <3>1, CurrentExists
    <3>4. op_ctr + 1 \in 1..Len(ops') /\ ops'[op_ctr + 1].slots = 0
      BY <3>2, <3>3 DEF WithCurrent
    <3> QED BY <2>1, <3>1, <3>4
  <2>5. CASE HandleMalformed
    <3>1. Receive(Kinds) /\ Malformed(Head(queue))
      BY <2>5 DEF HandleMalformed
    <3>2. Cause(Head(queue))
      <4>1. CASE Head(queue).arg = "many"
        BY <4>1
      <4>2. CASE Head(queue).arg = "bare"
        BY <2>1, <3>1, <4>2 DEF HInv, AllMeant
      <4>3. CASE Head(queue).kind = "EXTERNAL" /\ current_exec = 0
        <5>1. Receive({"EXTERNAL"})
          BY <3>1, <4>3 DEF Receive
        <5> QED BY <4>3, <5>1, ExecThere
      <4> QED BY <3>1, <4>1, <4>2, <4>3 DEF Malformed
    <3> QED BY <2>1, <3>1, <3>2
  <2>6. CASE ExportCrash
    <3>1. PICK n \in 1..Len(ops) : ops[n].slots = 0
      BY <2>6 DEF ExportCrash, Readable
    <3>2. ops' = ops
      BY <2>6 DEF ExportCrash, Exporting, memoryVars
    <3> QED BY <3>1, <3>2
  <2>7. CASE Senders \/ Killed \/ UNCHANGED vars
    <3>1. Silent \/ (\E m \in Messages : Post(m)) => mgr' = mgr
      BY DEF Silent, Post
    <3> QED BY <1>2, <2>7, <3>1, SendersDo DEF Killed, vars
  <2>8. CASE Manager /\ ~(\/ HandlePastTable \/ HandleOutOfMemory \/ HandleOverrun
                          \/ HandleWithoutArray \/ HandleMalformed \/ ExportCrash)
    BY <1>2, <2>8 DEF Manager, HandleComment, HandleHeapEvent, HandleFree, HandleNewExec,
      HandleCustom, HandleFork, HandleExternal, HandleNext, HandleSet, HandleSave,
      HandleOther, HandleQuit, ExportNext, ExportRecord, ExportEnd, Exporting, Receive
  <2> QED BY <2>2, <2>3, <2>4, <2>5, <2>6, <2>7, <2>8 DEF Next
<1> QED BY <1>1, <1>2

(* Whatever the processes send and the console takes, in whatever order:    *)
(* the manager crashes only behind the end of its table, for want of        *)
(* memory, over a text of too many words or over a message that was typed   *)
(* with words missing or before any exec.                                   *)
THEOREM CrashesExplained == Spec => []CrashCause
<1>1. Init => CInv
  BY DEF Init, CInv, CrashCause, TakenBefore
<1>2. CInv => CrashCause
  BY DEF CInv
<1> QED BY <1>1, <1>2, CrashCauseNext, Invariant, HistoryInvariant, MappedInvariant, PTL DEF Spec

-----------------------------------------------------------------------------
(* A manager whose mallocs succeed, whose console asks for fewer operations *)
(* than the table has, and to whom nobody sends a text of too many words or *)
(* types a message of the preload library.                                  *)
Polite ==
  /\ \A i \in 1..Len(sent) :
       /\ sent[i].arg # "many"
       /\ sent[i].pid = Console => sent[i].arg # "bare" /\ sent[i].kind # "EXTERNAL"
  /\ lost = {} /\ \A i \in 1..Len(ops) : ops[i].slots # 0

LEMMA GrownKeeps ==
  ASSUME AllocMayFail = FALSE, IInv, Polite, InTable, NEW g \in Grown
  PROVE  g.slots # 0
<1>1. ops[op_ctr + 1] \in OpRecords /\ ops[op_ctr + 1].slots # 0 /\ Fits(ops[op_ctr + 1])
  BY CurrentExists DEF Polite
<1>2. \/ g = ops[op_ctr + 1]
      \/ g = [ops[op_ctr + 1] EXCEPT !.max_size = @ + StepSize, !.slots = ops[op_ctr + 1].max_size + StepSize]
  BY DEF Grown
<1>3. ops[op_ctr + 1].max_size \in Nat
  BY <1>1 DEF OpRecords
<1>4. CASE g # ops[op_ctr + 1]
  <2>1. g.slots = ops[op_ctr + 1].max_size + StepSize
    BY <1>1, <1>2, <1>4 DEF OpRecords
  <2> QED BY <1>3, <2>1, SizesAssumption
<1> QED BY <1>1, <1>4

LEMMA PoliteTable ==
  ASSUME AllocMayFail = FALSE, IInv, Polite, InTable,
         NothingStored \/ \E r : Stored(r) \/ HandleNext
  PROVE  lost' = {} /\ \A i \in 1..Len(ops') : ops'[i].slots # 0
<1>1. \A g \in Grown : g.slots # 0
  BY GrownKeeps
<1>2. ops \in Seq(OpRecords) /\ op_ctr + 1 \in 1..Len(ops)
  BY CurrentExists
<1>3. ASSUME NEW op, op.slots # 0
      PROVE  /\ Forgotten(op) = {} /\ Len(WithCurrent(op)) = Len(ops)
             /\ \A i \in 1..Len(WithCurrent(op)) : WithCurrent(op)[i].slots # 0
  BY <1>2, <1>3 DEF Forgotten, WithCurrent, Polite
<1>4. CASE NothingStored
  BY <1>1, <1>3, <1>4 DEF NothingStored, Keep, Polite
<1>5. ASSUME NEW r, Stored(r)
      PROVE  lost' = {} /\ \A i \in 1..Len(ops') : ops'[i].slots # 0
  <2>1. PICK g \in Grown : Keep(Added(g, r))
    BY <1>5 DEF Stored
  <2>2. g \in OpRecords
    BY CurrentExists, GrownRoom
  <2>3. Added(g, r).slots # 0
    BY <1>1, <2>2 DEF Added, OpRecords
  <2> QED BY <1>3, <2>1, <2>3 DEF Keep, Polite
<1>6. CASE HandleNext
  <2>1. PICK g \in Grown, new \in NewOperations :
          /\ ops' = IF op_ctr + 1 < MaxOps THEN Append(WithCurrent(g), new) ELSE WithCurrent(g)
          /\ lost' = lost \cup Forgotten(g)
    BY <1>6 DEF HandleNext
  <2>2. g \in OpRecords /\ new \in OpRecords
    BY CurrentExists, GrownRoom, NewOperationType
  <2>3. new.slots # 0
    BY SizesAssumption DEF NewOperations, NewOperation
  <2>4. WithCurrent(g) \in Seq(OpRecords)
    BY <1>2, <2>2, ReplaceElement DEF WithCurrent
  <2> DEFINE w == WithCurrent(g)
  <2>5. w \in Seq(OpRecords) /\ \A i \in 1..Len(w) : w[i].slots # 0
    BY <1>1, <1>3, <2>4
  <2> HIDE DEF w
  <2>6. CASE ops' = Append(w, new)
    <3>1. Len(ops') = Len(w) + 1 /\ ops'[Len(w) + 1] = new
          /\ \A i \in 1..Len(w) : ops'[i] = w[i]
      BY <2>2, <2>5, <2>6, AppendProperties
    <3>2. \A i \in 1..Len(ops') : i \in 1..Len(w) \/ i = Len(w) + 1
      BY <2>5, <3>1
    <3>3. lost' = {}
      BY <1>1, <1>3, <2>1 DEF Polite
    <3> QED BY <2>3, <2>5, <3>1, <3>2, <3>3
  <2>7. CASE ops' = w
    BY <1>1, <1>3, <2>1, <2>5, <2>7 DEF Polite
  <2> QED BY <2>1, <2>6, <2>7 DEF w
<1> QED BY <1>4, <1>5, <1>6

THEOREM NeverCrashes ==
  ASSUME AllocMayFail = FALSE, MaxNext < MaxOps, Traffic \cap {"TYPED", "many"} = {}
  PROVE  Spec => []NoCrash
<1>1. Init => Polite
  <2> SUFFICES ASSUME Init PROVE Polite
    OBVIOUS
  <2>1. sent = <<>> /\ lost = {} /\ ops = <<NewOperation>>
    BY DEF Init, NewOperations
  <2>2. NewOperation.slots # 0
    BY SizesAssumption DEF NewOperation
  <2> QED BY <2>1, <2>2 DEF Polite
<1>2. IInv /\ HInv /\ MInv /\ Polite /\ [Next]_vars => Polite'
  <2> SUFFICES ASSUME IInv, HInv, MInv, Polite, [Next]_vars PROVE Polite'
    OBVIOUS
  <2>1. ASSUME UNCHANGED <<sent, memoryVars>> PROVE Polite'
    BY <2>1 DEF Polite, memoryVars
  <2>2. CASE Silent \/ Killed \/ Exports \/ UNCHANGED vars \/ HandleComment
    <3>1. UNCHANGED <<sent, memoryVars>>
      BY <2>2 DEF Silent, Killed, Exports, ExportNext, ExportRecord, ExportEnd, ExportCrash,
                  Exporting, vars, HandleComment, Receive
    <3> QED BY <2>1, <3>1
  <2>3. ASSUME NEW m \in Messages, Post(m), Honest(m)
        PROVE  Polite'
    <3>1. Len(sent') = Len(sent) + 1 /\ sent'[Len(sent) + 1] = m
          /\ \A i \in 1..Len(sent) : sent'[i] = sent[i]
      BY <2>3, Posted DEF HInv
    <3>2. Len(sent) \in Nat
      BY DEF IInv, TypeOK, QueueType
    <3>3. m.arg # "many"
      BY <2>3, NamesAssumption DEF Post, Words
    <3>4. ops' = ops /\ lost' = lost
      BY <2>3 DEF Post, memoryVars
    <3>5. \A i \in 1..Len(sent') : i \in 1..Len(sent) \/ i = Len(sent) + 1
      BY <3>1, <3>2
    <3>6. m.pid = Console => m.arg # "bare" /\ m.kind # "EXTERNAL"
      BY <2>3 DEF Honest
    <3> QED BY <3>1, <3>3, <3>4, <3>5, <3>6 DEF Polite
  <2>4. CASE Senders
    BY <2>2, <2>3, <2>4, SendersHonest
  <2>5. CASE Manager /\ ~Exports /\ ~HandleComment
    <3>1. PICK K : Receive(K)
      BY <2>5 DEF Manager, Exports, HandlePastTable, HandleWithoutArray, HandleMalformed,
         HandleOverrun, HandleOutOfMemory, HandleHeapEvent, HandleFree, HandleNewExec,
         HandleCustom, HandleFork, HandleExternal, HandleNext, HandleSet, HandleSave,
         HandleOther, HandleQuit
    <3>2. sent' = sent /\ Head(queue) = sent[Handled + 1] /\ Handled + 1 \in 1..Len(sent)
      BY <3>1, Received DEF HInv
    <3>3. InTable
      <4>1. op_ctr <= MaxNext /\ op_ctr \in Nat /\ NextsSent \in Nat
        <5>1. Len(sent) \in Nat
          BY DEF IInv, TypeOK, QueueType
        <5>2. NextsSent \in Nat
          BY <5>1, NextsSentAre, NextsCount
        <5>3. op_ctr \in 0..MaxOps
          BY DEF IInv, TypeOK, TableType
        <5> QED BY <5>2, <5>3, SizesAssumption DEF MInv, NextsBounded
      <4> QED BY <4>1, SizesAssumption DEF InTable
    <3>4. ~HandlePastTable /\ ~HandleOutOfMemory
      BY <3>3 DEF HandlePastTable, HandleOutOfMemory
    <3>5. ~HandleOverrun
      BY <3>2 DEF HandleOverrun, Polite
    <3>6. ~HandleWithoutArray
      <4>1. \A g \in Grown : g.slots # 0
        BY <3>3, GrownKeeps
      <4> QED BY <4>1 DEF HandleWithoutArray
    <3>7. NothingStored \/ \E r : Stored(r) \/ HandleNext
      BY <2>5, <3>4, <3>5, <3>6 DEF Manager, Exports, HandleMalformed, HandleHeapEvent, HandleFree,
         HandleNewExec, HandleCustom, HandleFork, HandleExternal, HandleSet, HandleSave,
         HandleOther, HandleQuit
    <3>8. lost' = {} /\ \A i \in 1..Len(ops') : ops'[i].slots # 0
      BY <3>3, <3>7, PoliteTable
    <3> QED BY <3>2, <3>8 DEF Polite
  <2> QED BY <2>2, <2>4, <2>5 DEF Next
<1>3. IInv /\ HInv /\ MInv /\ CInv /\ Polite => NoCrash
  <2> SUFFICES ASSUME IInv, HInv, MInv, CInv, Polite, mgr = "crashed" PROVE FALSE
    BY DEF NoCrash
  <2>1. op_ctr # MaxOps
    <3>1. Len(sent) \in Nat
      BY DEF IInv, TypeOK, QueueType
    <3>2. NextsSent \in Nat
      BY <3>1, NextsSentAre, NextsCount
    <3> QED BY <3>2, SizesAssumption DEF MInv, NextsBounded
  <2>2. Handled \in 1..Len(sent)
    BY DEF CInv, TakenBefore, Polite
  <2> QED BY <2>1, <2>2 DEF CInv, CrashCause, Polite
<1>4. Init => CInv
  BY DEF Init, CInv, CrashCause, TakenBefore
<1> QED BY <1>1, <1>2, <1>3, <1>4, CrashCauseNext, Invariant, HistoryInvariant, MappedInvariant, PTL DEF Spec

-----------------------------------------------------------------------------
(* Libraries. What mgr_add_external lists under an image that another one   *)
(* has replaced as the current one comes from an older image, and not from  *)
(* the process that announced the current one.                              *)
Attributed(e, l) == l.from # Console /\ l.img # e.img => l.img < e.img /\ l.from # e.from

LEMMA AttributedExternal ==
  ASSUME IInv, HInv, MInv, LibsAttributed, HandleExternal
  PROVE  LibsAttributed'
<1> DEFINE m == Head(queue)
           old == execs[current_exec]
           lib == [lib |-> m.arg, img |-> m.img, from |-> m.pid]
           new == ExecWith(m)
<1>1. Receive({"EXTERNAL"})
  BY DEF HandleExternal
<1>2. m \in Messages /\ Handled \in Nat
  BY <1>1, Received DEF HInv
<1>3. execs \in Seq(ExecRecords) /\ current_exec = Len(execs)
  BY ExternalDoes
<1>4. CASE execs' = execs
  BY <1>4 DEF LibsAttributed
<1>5. CASE /\ current_exec \in 1..Len(execs) /\ Len(execs') = Len(execs)
           /\ execs'[current_exec] = new
           /\ \A e \in 1..Len(execs) : e # current_exec => execs'[e] = execs[e]
  <2>1. old \in ExecRecords
    BY <1>3, <1>5
  <2>2. /\ new.img = old.img /\ new.from = old.from
        /\ new.libs = Append(old.libs, lib) /\ old.libs \in Seq(LibEntries) /\ lib \in LibEntries
    BY <1>2, <2>1, ExecWithFields
  <2>3. Attributed(new, lib)
    <3> SUFFICES ASSUME m.pid # Console, m.img # old.img
                 PROVE  m.img < old.img /\ m.pid # old.from
      BY <2>2 DEF Attributed
    <3>1. /\ Mapped(sent, Handled + 1, m.pid, m.img) /\ m.img \in 1..Handled
          /\ Latest(sent, Handled, old.img) /\ sent[old.img].pid = old.from
      BY <1>1, ExecThere
    <3>2. sent[m.img].kind = "NEWEXEC" /\ old.img \in 1..Handled
      BY <3>1 DEF Mapped, Latest
    <3>3. m.img < old.img
      <4>1. m.img \notin (old.img + 1)..Handled
        BY <3>1, <3>2 DEF Latest
      <4> QED BY <1>2, <3>1, <3>2, <4>1
    <3>4. old.img \in (m.img + 1)..(Handled + 1)
      BY <1>2, <3>1, <3>2, <3>3
    <3>5. ~Announces(sent, old.img, m.pid) /\ sent[old.img].kind = "NEWEXEC"
      BY <3>1, <3>4 DEF Mapped, Latest
    <3> QED BY <3>1, <3>3, <3>5 DEF Announces
  <2> HIDE DEF new, lib
  <2>4. \A i \in 1..Len(new.libs) : new.libs[i] = lib \/ (i \in 1..Len(old.libs) /\ new.libs[i] = old.libs[i])
    BY <2>2, AppendProperties
  <2>5. \A i \in 1..Len(old.libs) : Attributed(old, old.libs[i])
    BY <1>5 DEF LibsAttributed, Attributed
  <2>6. \A i \in 1..Len(new.libs) : Attributed(new, new.libs[i])
    BY <2>2, <2>3, <2>4, <2>5 DEF Attributed
  <2>7. \A e \in 1..Len(execs) : e # current_exec =>
          \A i \in 1..Len(execs[e].libs) : Attributed(execs[e], execs[e].libs[i])
    BY DEF LibsAttributed, Attributed
  <2> HIDE DEF old
  <2>8. \A e \in 1..Len(execs') : \A i \in 1..Len(execs'[e].libs) : Attributed(execs'[e], execs'[e].libs[i])
    BY <1>5, <2>6, <2>7
  <2> QED BY <2>8 DEF LibsAttributed, Attributed
<1> QED BY <1>4, <1>5, ExternalDoes

(* However the processes fork, exec and load: a library goes to a wrong     *)
(* exec only if another process announced that one after the library's own. *)
THEOREM LibrariesAttributed == Spec => []LibsAttributed
<1>1. Init => LibsAttributed
  BY DEF Init, LibsAttributed
<1>2. IInv /\ HInv /\ MInv /\ LibsAttributed /\ [Next]_vars => LibsAttributed'
  <2> SUFFICES ASSUME IInv, HInv, MInv, LibsAttributed, [Next]_vars PROVE LibsAttributed'
    OBVIOUS
  <2>1. CASE HandleExternal
    BY <2>1, AttributedExternal
  <2>2. CASE HandleNewExec
    <3>1. execs \in Seq(ExecRecords)
      BY DEF IInv, TypeOK, TableType
    <3> DEFINE r == NewExecRecord(Head(queue))
    <3>2. execs' = Append(execs, r) /\ r.libs = <<>>
      BY <2>2 DEF HandleNewExec, NewExecRecord
    <3> HIDE DEF r
    <3>3. \A e \in 1..Len(execs') : execs'[e] = r \/ (e \in 1..Len(execs) /\ execs'[e] = execs[e])
      BY <3>1, <3>2, AppendProperties
    <3>4. Len(<<>>) = 0
      OBVIOUS
    <3> QED BY <3>2, <3>3, <3>4 DEF LibsAttributed
  <2>3. CASE ~HandleExternal /\ ~HandleNewExec
    BY <2>3, ExecsUntouched DEF LibsAttributed, execVars
  <2> QED BY <2>1, <2>2, <2>3
<1> QED BY <1>1, <1>2, Invariant, HistoryInvariant, MappedInvariant, PTL DEF Spec

=============================================================================
