--------------------------- MODULE CaptureProofs ---------------------------
(***************************************************************************)
(* Theorems about Capture, for any number of threads, addresses, libraries *)
(* and places of dyn_libs: type correctness, the flag is only set while a  *)
(* thread is about to clear it, and every report is about a call that took *)
(* place and is made once.                                                 *)
(***************************************************************************)
EXTENDS Capture, SequenceTheorems, TLAPS

USE NamesAssumption, SizesAssumption

(* A history grows by elements of its type.                                 *)
LEMMA AppendTyped ==
  ASSUME NEW S, NEW s \in Seq(S), NEW x \in S
  PROVE  Append(s, x) \in Seq(S) /\ Len(Append(s, x)) = Len(s) + 1
OBVIOUS

(* The result of a call is a pointer.                                       *)
LEMMA ResultsArePointers ==
  ASSUME NEW p \in Procs, NEW kind \in CallKinds, NEW old \in Pointers
  PROVE  Results(p, kind, old) \subseteq Pointers
BY DEF Results, Pointers

(* What a report tells is a pointer, and the result unless it is one of     *)
(* posix_memalign.                                                          *)
LEMMA TellingsArePointers ==
  ASSUME NEW kind \in CallKinds, NEW new \in Pointers, NEW told \in Tellings(kind, new)
  PROVE  told \in Pointers /\ (told = new \/ kind = "posix_memalign")
BY DEF Tellings

(* Every kind of call has a word of its own.                                *)
LEMMA WordsOfCalls ==
  ASSUME NEW kind \in CallKinds
  PROVE  Word(kind) \in CallWords
BY DEF Word, CallWords, CallKinds, Guarded, Unguarded

(* A report is a message.                                                   *)
LEMMA ReportIsMessage ==
  ASSUME TypeOK, NEW t \in AllThreads
  PROVE  Report(t) \in Messages /\ Report(t).word = Word(call[t].kind)
<1>1. call[t] \in CallRecords BY DEF TypeOK
<1>2. Word(call[t].kind) \in CallWords BY <1>1, WordsOfCalls DEF CallRecords
<1> QED BY <1>1, <1>2 DEF Report, Messages, Words, CallRecords, Proc, Procs

(* An announcement is a message.                                            *)
LEMMA AnnouncementIsMessage ==
  ASSUME NEW word \in {"NEWEXEC", "EXTERNAL"}, NEW p \in Procs, NEW lib \in Callers
  PROVE  /\ Announcement(word, p, lib) \in Messages
         /\ Announcement(word, p, lib).word \notin CallWords
BY DEF Announcement, Messages, Words, CallWords, Pointers

(* What msgsnd leaves: the recording with the message, or without it.       *)
LEMMA SendTypes ==
  ASSUME TypeOK, NEW m \in Messages, Send(m)
  PROVE  /\ recording' \in Seq(Messages)
         /\ trouble' \in [Procs -> SUBSET {"overlap", "interrupted", "full", "deaf"}]
<1>1. recording \in Seq(Messages) BY DEF TypeOK
<1>2. CASE recording' = Append(recording, m) /\ trouble' = trouble
  <2>1. recording' \in Seq(Messages) BY <1>1, <1>2
  <2> QED BY <1>2, <2>1 DEF TypeOK
<1>3. CASE Notice(m.pid, {"interrupted"}) /\ recording' = recording
  BY <1>1, <1>3 DEF Notice, TypeOK
<1> QED BY <1>2, <1>3 DEF Send

(* Every thread belongs to a process.                                       *)
LEMMA ProcOfThread ==
  ASSUME NEW t \in AllThreads
  PROVE  Proc(t) \in Procs /\ t \in ThreadsOf(Proc(t))
BY DEF Proc, Procs, ThreadsOf

PCs == {"idle", "init", "test", "set", "look", "store", "terminate",
        "announce", "send", "clear"}

(* The end of a wrapper keeps the types.                                    *)
LEMMA ReturnTypes ==
  ASSUME TypeOK, NEW t \in AllThreads, Return(t)
  PROVE  /\ pc' \in [AllThreads -> PCs]
         /\ call' \in [AllThreads -> CallRecords]
         /\ held' \in [Procs -> SUBSET Addrs]
         /\ \A u \in AllThreads : u # t => pc'[u] = pc[u] /\ call'[u] = call[u]
         /\ pc'[t] \in {"look", "idle"}
         /\ \/ pc'[t] = "idle"
            \/ /\ call[t].nested
               /\ call'[t] = [call[t] EXCEPT !.nested = FALSE, !.again = TRUE]
<1>1. call[t] \in CallRecords BY DEF TypeOK
<1>2. CASE call[t].nested
  <2>1. [call[t] EXCEPT !.nested = FALSE, !.again = TRUE] \in CallRecords
    BY <1>1 DEF CallRecords
  <2>2. call' = [call EXCEPT ![t] = [call[t] EXCEPT !.nested = FALSE, !.again = TRUE]]
    BY <1>2 DEF Return
  <2> QED BY <1>2, <2>1, <2>2 DEF Return, Goto, TypeOK, PCs
<1>3. CASE ~call[t].nested
  <2>1. {call[t].new} \ {Null} \subseteq Addrs BY <1>1 DEF CallRecords, Pointers
  <2>2. held \in [Procs -> SUBSET Addrs] /\ Proc(t) \in Procs
    BY ProcOfThread DEF TypeOK
  <2>3. held' = [held EXCEPT ![Proc(t)] = held[Proc(t)] \cup ({call[t].new} \ {Null})]
    BY <1>3 DEF Return
  <2>4. held' \in [Procs -> SUBSET Addrs]
    BY <2>1, <2>2, <2>3
  <2> QED BY <1>3, <2>4 DEF Return, Goto, TypeOK, PCs
<1> QED BY <1>2, <1>3

(* The beginning of a call keeps the types.                                 *)
LEMMA BeginTypes ==
  ASSUME TypeOK, NEW t \in AllThreads, NEW c \in CallRecords, Begin(t, c)
  PROVE  /\ heap' \in [Procs -> SUBSET Addrs]
         /\ held' \in [Procs -> SUBSET Addrs]
         /\ calls' \in [Procs -> Seq([kind : CallKinds, old : Pointers, new : Pointers])]
         /\ call' \in [AllThreads -> CallRecords]
         /\ pc' \in [AllThreads -> PCs]
         /\ pc'[t] \in {"test", "send", "look"}
<1> DEFINE e == [kind |-> c.kind, old |-> c.old, new |-> c.new]
<1>1. e \in [kind : CallKinds, old : Pointers, new : Pointers] BY DEF CallRecords
<1>2. Proc(t) \in Procs BY ProcOfThread
<1>3. {c.new} \ {Null} \subseteq Addrs BY DEF CallRecords, Pointers
<1>4. FirstStep(c.kind, c.nested) \in {"test", "send", "look"} BY DEF FirstStep
<1>5. heap \in [Procs -> SUBSET Addrs] /\ held \in [Procs -> SUBSET Addrs] BY DEF TypeOK
<1>6. heap' \in [Procs -> SUBSET Addrs] /\ held' \in [Procs -> SUBSET Addrs]
  BY <1>2, <1>3, <1>5 DEF Begin
<1>7. calls \in [Procs -> Seq([kind : CallKinds, old : Pointers, new : Pointers])]
  BY DEF TypeOK
<1>8. Append(calls[Proc(t)], e) \in Seq([kind : CallKinds, old : Pointers, new : Pointers])
  <2>1. calls[Proc(t)] \in Seq([kind : CallKinds, old : Pointers, new : Pointers])
    BY <1>2, <1>7
  <2> HIDE DEF e
  <2> QED BY ONLY <1>1, <2>1, AppendTyped
<1>9. calls' = [calls EXCEPT ![Proc(t)] = Append(calls[Proc(t)], e)] BY DEF Begin
<1>10. calls' \in [Procs -> Seq([kind : CallKinds, old : Pointers, new : Pointers])]
  BY <1>2, <1>7, <1>8, <1>9
<1>11. /\ call' \in [AllThreads -> CallRecords]
       /\ pc' \in [AllThreads -> PCs]
       /\ pc'[t] \in {"test", "send", "look"}
  BY <1>4 DEF Begin, Goto, TypeOK, PCs
<1> QED BY <1>6, <1>10, <1>11
-----------------------------------------------------------------------------
(* Type correctness, one step per action.                                   *)

(* The first call of a process and its announcement.                        *)
LEMMA InitTypes ==
  ASSUME TypeOK, NEW t \in AllThreads, PreloadInit(t) \/ AnnounceImage(t)
  PROVE  TypeOK'
<1>1. Proc(t) \in Procs BY ProcOfThread
<1>2. CASE PreloadInit(t)
  <2>1. [i \in 1..DynMax+1 |-> NoLib] \in [1..DynMax+1 -> Callers] BY DEF Callers
  <2>2. dyn' \in [Procs -> [1..DynMax+1 -> Callers]] /\ flag' \in [Procs -> BOOLEAN]
    BY <1>1, <1>2, <2>1 DEF PreloadInit, TypeOK
  <2>3. pc' \in [AllThreads -> PCs] /\ \A u \in AllThreads : pc'[u] # pc[u] => pc'[u] = "init"
    BY <1>2 DEF PreloadInit, Goto, TypeOK, PCs
  <2> QED BY <1>2, <2>2, <2>3 DEF PreloadInit, TypeOK, PCs, historyVars
<1>3. CASE AnnounceImage(t)
  <2>1. Send(Announcement("NEWEXEC", Proc(t), NoLib)) BY <1>3 DEF AnnounceImage
  <2>2. /\ recording' \in Seq(Messages)
        /\ trouble' \in [Procs -> SUBSET {"overlap", "interrupted", "full", "deaf"}]
    BY <1>1, <2>1, SendTypes, AnnouncementIsMessage DEF Callers
  <2>3. stage' \in [Procs -> {"unborn", "fresh", "ready", "dead"}] /\ flag' \in [Procs -> BOOLEAN]
    BY <1>1, <1>3 DEF AnnounceImage, TypeOK
  <2>4. pc' \in [AllThreads -> PCs] /\ \A u \in AllThreads : pc'[u] # pc[u] => pc'[u] = "idle"
    BY <1>3 DEF AnnounceImage, Goto, TypeOK, PCs
  <2> QED BY <1>3, <2>2, <2>3, <2>4 DEF AnnounceImage, TypeOK, PCs
<1> QED BY <1>2, <1>3

(* What the program calls is a call.                                        *)
LEMMA CallBegins ==
  ASSUME TypeOK, NEW t \in AllThreads, Call(t)
  PROVE  \E c \in CallRecords :
           /\ Begin(t, c)
           /\ c.no = Len(calls[Proc(t)]) + 1 /\ ~c.again
           /\ c.told = c.new \/ c.kind = "posix_memalign"
           /\ c.old = Null \/ c.old \in held[Proc(t)]
           /\ \/ c.new = Null \/ c.new \notin heap[Proc(t)]
              \/ c.new = c.old /\ Given(c.kind, c.old, c.new) = {c.old}
           /\ c.kind \in NoCaller => c.lib = NoLib
<1>0. Proc(t) \in Procs BY ProcOfThread
<1> DEFINE C(kind, old, lib, nested, new, told) ==
      [kind |-> kind, old |-> old, new |-> new, told |-> told, lib |-> lib,
       nested |-> nested, again |-> FALSE, no |-> Len(calls[Proc(t)]) + 1]
<1>1. PICK kind \in CallKinds \ {"fork"} :
        \E old \in Arguments(Proc(t), kind), lib \in CallersOf(kind),
           nested \in IF kind = "reallocarray" THEN BOOLEAN ELSE {FALSE} :
        \E new \in Results(Proc(t), kind, old) :
        \E told \in Tellings(kind, new) : Begin(t, C(kind, old, lib, nested, new, told))
  BY DEF Call
<1>2. PICK old \in Arguments(Proc(t), kind), lib \in CallersOf(kind),
           nested \in IF kind = "reallocarray" THEN BOOLEAN ELSE {FALSE} :
        \E new \in Results(Proc(t), kind, old) :
        \E told \in Tellings(kind, new) : Begin(t, C(kind, old, lib, nested, new, told))
  BY <1>1
<1>3. PICK new \in Results(Proc(t), kind, old) :
        \E told \in Tellings(kind, new) : Begin(t, C(kind, old, lib, nested, new, told))
  BY <1>2
<1>4. PICK told \in Tellings(kind, new) : Begin(t, C(kind, old, lib, nested, new, told))
  BY <1>3
<1>5. old \in Pointers BY <1>0 DEF Arguments, Pointers, TypeOK
<1>6. new \in Pointers BY <1>0, <1>5, ResultsArePointers
<1>7. told \in Pointers /\ (told = new \/ kind = "posix_memalign")
  BY <1>6, TellingsArePointers
<1>8. lib \in Callers /\ (kind \in NoCaller => lib = NoLib) BY DEF CallersOf, Callers
<1>9. nested \in BOOLEAN OBVIOUS
<1>10. Len(calls[Proc(t)]) + 1 \in Nat BY <1>0 DEF TypeOK
<1>11. /\ C(kind, old, lib, nested, new, told) \in CallRecords
       /\ C(kind, old, lib, nested, new, told).no = Len(calls[Proc(t)]) + 1
       /\ ~C(kind, old, lib, nested, new, told).again
       /\ C(kind, old, lib, nested, new, told).told = C(kind, old, lib, nested, new, told).new
          \/ C(kind, old, lib, nested, new, told).kind = "posix_memalign"
  BY <1>5, <1>6, <1>7, <1>8, <1>9, <1>10 DEF CallRecords
<1>12. old = Null \/ old \in held[Proc(t)] BY DEF Arguments
<1>13. \/ new = Null \/ new \notin heap[Proc(t)]
       \/ new = old /\ Given(kind, old, new) = {old}
  BY DEF Results, Given, NoCaller
<1>14. /\ C(kind, old, lib, nested, new, told).old = old
       /\ C(kind, old, lib, nested, new, told).new = new
       /\ C(kind, old, lib, nested, new, told).kind = kind
      /\ C(kind, old, lib, nested, new, told).lib = lib
  OBVIOUS
<1> HIDE DEF C
<1> QED BY <1>4, <1>8, <1>11, <1>12, <1>13, <1>14

(* A call, or a fork, begins.                                               *)
LEMMA CallTypes ==
  ASSUME TypeOK, NEW t \in AllThreads, Call(t)
  PROVE  TypeOK'
<1>1. Proc(t) \in Procs BY ProcOfThread
<1>2. PICK c \in CallRecords : Begin(t, c) BY CallBegins
<1>3. trouble' \in [Procs -> SUBSET {"overlap", "interrupted", "full", "deaf"}]
  BY <1>1 DEF Call, Notice, Meets, TypeOK
<1>4. \A u \in AllThreads : pc'[u] # pc[u] => pc'[u] \in {"test", "send", "look"}
  BY <1>2, BeginTypes DEF Begin, Goto, TypeOK
<1> QED BY <1>2, <1>3, <1>4, BeginTypes DEF Call, TypeOK, PCs

LEMMA ForkTypes ==
  ASSUME TypeOK, NEW t \in AllThreads, Fork(t)
  PROVE  TypeOK'
<1>1. Parent \in Procs /\ Child \in Procs BY DEF Procs
<1>2. /\ stage' \in [Procs -> {"unborn", "fresh", "ready", "dead"}]
      /\ flag' \in [Procs -> BOOLEAN]
      /\ dyn' \in [Procs -> [1..DynMax+1 -> Callers]]
  BY <1>1 DEF Fork, TypeOK
<1>3. heap' \in [Procs -> SUBSET Addrs] /\ held' \in [Procs -> SUBSET Addrs]
  BY <1>1 DEF Fork, TypeOK
<1>4. trouble' \in [Procs -> SUBSET {"overlap", "interrupted", "full", "deaf"}]
  BY <1>1 DEF Fork, Meets, TypeOK
<1>5. calls' \in [Procs -> Seq([kind : CallKinds, old : Pointers, new : Pointers])]
  <2> DEFINE e == [kind |-> "fork", old |-> Null, new |-> Null]
  <2>1. e \in [kind : CallKinds, old : Pointers, new : Pointers]
    BY DEF CallKinds, Unguarded, Pointers
  <2>2. calls[Parent] \in Seq([kind : CallKinds, old : Pointers, new : Pointers])
    BY <1>1 DEF TypeOK
  <2>3. calls' = [calls EXCEPT ![Parent] = Append(calls[Parent], e)] BY DEF Fork
  <2> HIDE DEF e
  <2>4. Append(calls[Parent], e) \in Seq([kind : CallKinds, old : Pointers, new : Pointers])
    BY ONLY <2>1, <2>2, AppendTyped
  <2> QED BY <1>1, <2>3, <2>4 DEF TypeOK
<1>6. call' \in [AllThreads -> CallRecords]
  <2>1. Len(calls[Parent]) + 1 \in Nat BY <1>1 DEF TypeOK
  <2>2. [NoCall EXCEPT !.kind = "fork", !.no = Len(calls[Parent]) + 1] \in CallRecords
    BY <2>1 DEF NoCall, CallRecords, CallKinds, Unguarded, Pointers, Callers
  <2> QED BY <2>2 DEF Fork, TypeOK
<1>7. pc' \in [AllThreads -> PCs] /\ \A u \in AllThreads : pc'[u] # pc[u] => pc'[u] = "send"
  BY DEF Fork, Goto, TypeOK, PCs
<1> QED BY <1>2, <1>3, <1>4, <1>5, <1>6, <1>7 DEF Fork, TypeOK, PCs

(* The test, the setting and the clearing of the flag.                      *)
LEMMA FlagTypes ==
  ASSUME TypeOK, NEW t \in AllThreads, TestFlag(t) \/ SetFlag(t) \/ ClearFlag(t)
  PROVE  TypeOK'
<1>1. Proc(t) \in Procs BY ProcOfThread
<1>2. CASE TestFlag(t) /\ Return(t)
  BY <1>2, ReturnTypes DEF TestFlag, TypeOK, PCs, historyVars
<1>3. CASE TestFlag(t) /\ ~flag[Proc(t)]
  <2>1. pc' \in [AllThreads -> PCs] /\ \A u \in AllThreads : pc'[u] # pc[u] => pc'[u] = "set"
    BY <1>3 DEF TestFlag, Goto, TypeOK, PCs
  <2> QED BY <1>3, <2>1 DEF TestFlag, TypeOK, PCs, historyVars
<1>4. CASE SetFlag(t)
  <2>1. flag' \in [Procs -> BOOLEAN] BY <1>1, <1>4 DEF SetFlag, TypeOK
  <2>2. pc' \in [AllThreads -> PCs]
        /\ \A u \in AllThreads : pc'[u] # pc[u] => pc'[u] \in {"send", "look"}
    BY <1>4 DEF SetFlag, Goto, TypeOK, PCs
  <2> QED BY <1>4, <2>1, <2>2 DEF SetFlag, TypeOK, PCs, historyVars
<1>5. CASE ClearFlag(t)
  <2>1. flag' \in [Procs -> BOOLEAN] BY <1>1, <1>5 DEF ClearFlag, TypeOK
  <2>2. Return(t) BY <1>5 DEF ClearFlag
  <2> QED BY <1>5, <2>1, <2>2, ReturnTypes DEF ClearFlag, TypeOK, PCs, historyVars
<1> QED BY <1>2, <1>3, <1>4, <1>5 DEF TestFlag

(* The table of libraries: the places stored to exist.                      *)
LEMMA TableTypes ==
  ASSUME TypeOK, NEW t \in AllThreads, LookUp(t) \/ Store(t) \/ Terminate(t)
  PROVE  TypeOK'
<1>1. Proc(t) \in Procs BY ProcOfThread
<1>2. CASE LookUp(t)
  <2>1. PICK n \in 0..DynMax :
          \/ Goto(t, "send") /\ UNCHANGED slot
             /\ (UNCHANGED trouble \/ Notice(Proc(t), {"full"}))
          \/ n < DynMax /\ slot' = [slot EXCEPT ![t] = n + 1] /\ Goto(t, "store")
             /\ UNCHANGED trouble
    BY <1>2 DEF LookUp
  <2>2. trouble' \in [Procs -> SUBSET {"overlap", "interrupted", "full", "deaf"}]
    <3>1. trouble \in [Procs -> SUBSET {"overlap", "interrupted", "full", "deaf"}]
      BY DEF TypeOK
    <3> QED BY <1>1, <2>1, <3>1 DEF Notice
  <2>3. CASE Goto(t, "send") /\ UNCHANGED slot
    BY <1>2, <2>2, <2>3 DEF LookUp, Goto, TypeOK, processVars
  <2>4. CASE n < DynMax /\ slot' = [slot EXCEPT ![t] = n + 1] /\ Goto(t, "store")
    <3>1. n + 1 \in 0..DynMax /\ n + 1 # 0 BY <2>4
    <3>2. /\ pc' \in [AllThreads -> PCs] /\ slot' \in [AllThreads -> 0..DynMax]
          /\ \A u \in AllThreads : pc'[u] \in {"store", "terminate"} => slot'[u] # 0
      BY <2>4, <3>1 DEF Goto, TypeOK, PCs
    <3> QED BY <1>2, <2>2, <3>2 DEF LookUp, TypeOK, PCs, processVars
  <2> QED BY <2>1, <2>3, <2>4
<1>3. CASE Store(t)
  <2>1. slot[t] \in 0..DynMax /\ slot[t] # 0 BY <1>3 DEF Store, At, TypeOK
  <2>2. slot[t] \in 1..DynMax+1 BY <2>1
  <2>3. call[t].lib \in Callers
    <3>1. call[t] \in CallRecords BY DEF TypeOK
    <3> QED BY <3>1 DEF CallRecords
  <2>4. [dyn[Proc(t)] EXCEPT ![slot[t]] = call[t].lib] \in [1..DynMax+1 -> Callers]
    BY <1>1, <2>2, <2>3 DEF TypeOK
  <2>5. dyn' \in [Procs -> [1..DynMax+1 -> Callers]]
    BY <1>1, <1>3, <2>4 DEF Store, TypeOK
  <2>6. /\ pc' \in [AllThreads -> PCs]
        /\ \A u \in AllThreads : pc'[u] \in {"store", "terminate"} => slot'[u] # 0
    BY <1>3 DEF Store, At, Goto, TypeOK, PCs
  <2> QED BY <1>3, <2>5, <2>6 DEF Store, TypeOK, PCs, historyVars
<1>4. CASE Terminate(t)
  <2>1. slot[t] + 1 \in 1..DynMax+1
    BY <1>4 DEF Terminate, At, TypeOK
  <2>2. dyn' \in [Procs -> [1..DynMax+1 -> Callers]]
    BY <1>1, <1>4, <2>1 DEF Terminate, TypeOK, Callers
  <2>3. /\ pc' \in [AllThreads -> PCs]
        /\ \A u \in AllThreads : pc'[u] \in {"store", "terminate"} => slot'[u] # 0
    BY <1>4 DEF Terminate, At, Goto, TypeOK, PCs
  <2> QED BY <1>4, <2>2, <2>3 DEF Terminate, TypeOK, PCs, historyVars
<1> QED BY <1>2, <1>3, <1>4

(* The messages about a library and about a call.                           *)
LEMMA MessageTypes ==
  ASSUME TypeOK, NEW t \in AllThreads, AnnounceLibrary(t) \/ SendReport(t)
  PROVE  TypeOK'
<1>1. Proc(t) \in Procs BY ProcOfThread
<1>2. call[t] \in CallRecords BY DEF TypeOK
<1>3. CASE AnnounceLibrary(t)
  <2>1. Send(Announcement("EXTERNAL", Proc(t), call[t].lib)) BY <1>3 DEF AnnounceLibrary
  <2>2. Announcement("EXTERNAL", Proc(t), call[t].lib) \in Messages
    BY <1>1, <1>2, AnnouncementIsMessage DEF CallRecords
  <2>3. /\ recording' \in Seq(Messages)
        /\ trouble' \in [Procs -> SUBSET {"overlap", "interrupted", "full", "deaf"}]
    BY <2>1, <2>2, SendTypes
  <2>4. pc' \in [AllThreads -> PCs] /\ \A u \in AllThreads : pc'[u] # pc[u] => pc'[u] = "send"
    BY <1>3 DEF AnnounceLibrary, Goto, TypeOK, PCs
  <2> QED BY <1>3, <2>3, <2>4 DEF AnnounceLibrary, TypeOK, PCs, processVars
<1>4. CASE SendReport(t)
  <2>1. Send(Report(t)) BY <1>4 DEF SendReport
  <2>2. Report(t) \in Messages BY ReportIsMessage
  <2>3. /\ recording' \in Seq(Messages)
        /\ trouble' \in [Procs -> SUBSET {"overlap", "interrupted", "full", "deaf"}]
    BY <2>1, <2>2, SendTypes
  <2>4. CASE Return(t)
    BY <1>4, <2>3, <2>4, ReturnTypes DEF SendReport, TypeOK, PCs
  <2>5. CASE Goto(t, "clear") /\ UNCHANGED <<call, held>>
    <3>1. pc' \in [AllThreads -> PCs] /\ \A u \in AllThreads : pc'[u] # pc[u] => pc'[u] = "clear"
      BY <2>5 DEF Goto, TypeOK, PCs
    <3> QED BY <1>4, <2>3, <2>5, <3>1 DEF SendReport, TypeOK, PCs
  <2> QED BY <1>4, <2>4, <2>5 DEF SendReport
<1> QED BY <1>3, <1>4

(* A call of mallopt ends the process.                                      *)
LEMMA MalloptTypes ==
  ASSUME TypeOK, NEW t \in AllThreads, Mallopt(t)
  PROVE  TypeOK'
<1>1. Proc(t) \in Procs BY ProcOfThread
<1>2. stage' \in [Procs -> {"unborn", "fresh", "ready", "dead"}] BY <1>1 DEF Mallopt, TypeOK
<1> QED BY <1>2 DEF Mallopt, TypeOK, threadVars, historyVars

LEMMA TypeInit == Init => TypeOK
BY DEF Init, TypeOK, NoCall, CallRecords, CallKinds, Unguarded, Pointers, Callers, Procs

LEMMA TypeStep == TypeOK /\ [Next]_vars => TypeOK'
<1> SUFFICES ASSUME TypeOK, [Next]_vars PROVE TypeOK' OBVIOUS
<1>1. CASE UNCHANGED vars
  BY <1>1 DEF TypeOK, vars, processVars, threadVars, historyVars
<1>2. CASE Next
  <2>1. PICK t \in AllThreads : Enter(t) \/ Step(t) BY <1>2 DEF Next
  <2> QED BY <2>1, InitTypes, CallTypes, ForkTypes, FlagTypes, TableTypes, MessageTypes,
             MalloptTypes DEF Enter, Step
<1> QED BY <1>1, <1>2

(* Type correctness: no place behind the end of dyn_libs is written.        *)
THEOREM TypeCorrect == Spec => []TypeOK
BY TypeInit, TypeStep, PTL DEF Spec
-----------------------------------------------------------------------------
(* The flag. A thread that is about to set it is in a guarded call: with    *)
(* that, FlagHeld is inductive.                                             *)

SetUnder == \A t \in AllThreads : pc[t] \in {"test", "set"} => UnderFlag(t)

FlagInv == SetUnder /\ FlagHeld

(* The threads that do not move are where they were.                        *)
LEMMA OthersInside ==
  ASSUME NEW t, NEW u, pc'[u] = pc[u], call'[u] = call[u]
  PROVE  Inside(u)' = Inside(u) /\ UnderFlag(u)' = UnderFlag(u)
BY DEF Inside, UnderFlag

(* A step that sets no flag, and that no thread leaves the guarded part     *)
(* with.                                                                    *)
LEMMA FlagKept ==
  ASSUME TypeOK, FlagHeld,
         \A p \in Procs : flag'[p] => flag[p] /\ trouble[p] \subseteq trouble'[p],
         \A p \in Procs : \A u \in ThreadsOf(p) : flag'[p] /\ Inside(u) => Inside(u)'
  PROVE  FlagHeld'
BY DEF FlagHeld, ThreadsOf

(* What happens to a process is not forgotten.                              *)
LEMMA TroubleGrows ==
  ASSUME TypeOK, NEW p \in Procs, NEW w, trouble' = trouble \/ Notice(p, w)
  PROVE  \A q \in Procs : trouble[q] \subseteq trouble'[q]
<1>1. CASE trouble' = trouble
  BY <1>1
<1>2. CASE Notice(p, w)
  <2>1. \A q \in Procs :
          trouble'[q] = IF q = p THEN trouble[p] \cup w ELSE trouble[q]
    BY <1>2 DEF Notice, TypeOK
  <2> QED BY <2>1
<1> QED BY <1>1, <1>2

LEMMA EndOfWrapper ==
  ASSUME TypeOK, SetUnder, NEW t \in AllThreads, Return(t)
  PROVE  SetUnder'
<1>1. \A u \in AllThreads : u # t => pc'[u] = pc[u] /\ call'[u] = call[u]
  BY ReturnTypes
<1>2. pc'[t] \in {"look", "idle"} BY ReturnTypes
<1> QED BY <1>1, <1>2 DEF SetUnder, UnderFlag

LEMMA SetUnderStep == TypeOK /\ SetUnder /\ [Next]_vars => SetUnder'
<1> SUFFICES ASSUME TypeOK, SetUnder, [Next]_vars PROVE SetUnder' OBVIOUS
<1>1. CASE UNCHANGED vars
  BY <1>1 DEF SetUnder, UnderFlag, vars, threadVars
<1>2. ASSUME NEW t \in AllThreads, Call(t) PROVE SetUnder'
  <2>1. PICK c \in CallRecords : Begin(t, c)
    BY <1>2, CallBegins
  <2>2. pc' = [pc EXCEPT ![t] = FirstStep(c.kind, c.nested)] /\ call' = [call EXCEPT ![t] = c]
    BY <2>1 DEF Begin, Goto
  <2>3. FirstStep(c.kind, c.nested) \in {"test", "set"} => c.kind \in Guarded \/ c.nested
    BY DEF FirstStep
  <2> QED BY <2>2, <2>3 DEF SetUnder, UnderFlag, TypeOK
<1>3. ASSUME NEW t \in AllThreads, TestFlag(t) PROVE SetUnder'
  <2>1. CASE Return(t) BY <2>1, EndOfWrapper
  <2>2. CASE Goto(t, "set") /\ UNCHANGED <<call, held>>
    BY <1>3, <2>2 DEF TestFlag, At, Goto, SetUnder, UnderFlag, TypeOK
  <2> QED BY <1>3, <2>1, <2>2 DEF TestFlag
<1>4. ASSUME NEW t \in AllThreads, SendReport(t) PROVE SetUnder'
  <2>1. CASE Return(t) BY <2>1, EndOfWrapper
  <2>2. CASE Goto(t, "clear") /\ UNCHANGED <<call, held>>
    BY <2>2 DEF Goto, SetUnder, UnderFlag, TypeOK
  <2> QED BY <1>4, <2>1, <2>2 DEF SendReport
<1>5. ASSUME NEW t \in AllThreads, ClearFlag(t) PROVE SetUnder'
  BY <1>5, EndOfWrapper DEF ClearFlag
<1>6. ASSUME NEW t \in AllThreads, Fork(t) PROVE SetUnder'
  BY <1>6 DEF Fork, Goto, SetUnder, UnderFlag, TypeOK
<1>7. ASSUME NEW t \in AllThreads, NEW where \in {"init", "idle", "send", "look", "store",
                                                  "terminate", "announce"},
             Goto(t, where), call' = call
      PROVE  SetUnder'
  BY <1>7 DEF Goto, SetUnder, UnderFlag, TypeOK
<1>8. ASSUME NEW t \in AllThreads, Mallopt(t) PROVE SetUnder'
  BY <1>8 DEF Mallopt, SetUnder, UnderFlag, threadVars
<1>9. ASSUME NEW t \in AllThreads,
             PreloadInit(t) \/ AnnounceImage(t) \/ SetFlag(t) \/ LookUp(t) \/ Store(t)
               \/ Terminate(t) \/ AnnounceLibrary(t)
      PROVE  SetUnder'
  BY <1>7, <1>9 DEF PreloadInit, AnnounceImage, SetFlag, LookUp, Store, Terminate, AnnounceLibrary
<1> QED BY <1>1, <1>2, <1>3, <1>4, <1>5, <1>6, <1>8, <1>9 DEF Next, Enter, Step

LEMMA FlagStep == TypeOK /\ SetUnder /\ FlagHeld /\ [Next]_vars => FlagHeld'
<1> SUFFICES ASSUME TypeOK, SetUnder, FlagHeld, [Next]_vars PROVE FlagHeld' OBVIOUS
<1>1. CASE UNCHANGED vars
  BY <1>1 DEF FlagHeld, Inside, UnderFlag, vars, threadVars, processVars, historyVars
<1>2. ASSUME NEW t \in AllThreads, PreloadInit(t) \/ SetFlag(t) PROVE FlagHeld'
  <2>1. Proc(t) \in Procs /\ t \in ThreadsOf(Proc(t)) BY ProcOfThread
  <2>2. Inside(t)'
    <3>1. CASE PreloadInit(t) BY <3>1 DEF PreloadInit, Goto, Inside, TypeOK
    <3>2. CASE SetFlag(t)
      BY <3>2 DEF SetFlag, At, Goto, Inside, UnderFlag, SetUnder, TypeOK
    <3> QED BY <1>2, <3>1, <3>2
  <2>3. /\ \A u \in AllThreads : u # t => pc'[u] = pc[u] /\ call'[u] = call[u]
        /\ \A p \in Procs : p # Proc(t) => flag'[p] = flag[p]
        /\ trouble' = trouble
    BY <1>2 DEF PreloadInit, SetFlag, Goto, TypeOK, historyVars
  <2>4. \A u \in AllThreads : Inside(u) => Inside(u)'
    BY <2>2, <2>3, OthersInside
  <2> QED BY <2>1, <2>2, <2>3, <2>4 DEF FlagHeld, ThreadsOf
<1>3. ASSUME NEW t \in AllThreads, AnnounceImage(t) \/ ClearFlag(t) PROVE FlagHeld'
  <2>1. Proc(t) \in Procs /\ t \in ThreadsOf(Proc(t)) BY ProcOfThread
  <2>2. /\ flag' = [flag EXCEPT ![Proc(t)] = FALSE]
        /\ trouble' = trouble \/ Notice(Proc(t), {"interrupted"})
    BY <1>3 DEF AnnounceImage, ClearFlag, Send, Announcement, historyVars
  <2>3. \A u \in AllThreads : u # t => pc'[u] = pc[u] /\ call'[u] = call[u]
    BY <1>3, ReturnTypes DEF AnnounceImage, ClearFlag, Goto, TypeOK
  <2>4. \A p \in Procs : flag'[p] => flag[p] /\ p # Proc(t)
    BY <2>1, <2>2 DEF TypeOK
  <2>5. \A p \in Procs : \A u \in ThreadsOf(p) : flag'[p] /\ Inside(u) => Inside(u)'
    BY <2>3, <2>4, OthersInside DEF ThreadsOf
  <2> QED BY <2>1, <2>2, <2>4, <2>5, FlagKept, TroubleGrows
<1>4. ASSUME NEW t \in AllThreads, Call(t) \/ TestFlag(t) PROVE FlagHeld'
  <2>1. Proc(t) \in Procs BY ProcOfThread
  <2>2. ~Inside(t) BY <1>4 DEF Call, TestFlag, At, Inside
  <2>3. flag' = flag /\ (trouble' = trouble \/ Notice(Proc(t), Meets(t)))
    BY <1>4 DEF Call, TestFlag, historyVars
  <2>4. \A u \in AllThreads : u # t => pc'[u] = pc[u] /\ call'[u] = call[u]
    <3>1. CASE Call(t)
      <4>1. PICK c \in CallRecords : Begin(t, c) BY <3>1, CallBegins
      <4> QED BY <4>1 DEF Begin, Goto, TypeOK
    <3>2. CASE TestFlag(t)
      BY <3>2, ReturnTypes DEF TestFlag, Goto, TypeOK
    <3> QED BY <1>4, <3>1, <3>2
  <2>5. \A u \in AllThreads : Inside(u) => Inside(u)'
    BY <2>2, <2>4, OthersInside
  <2> QED BY <2>1, <2>3, <2>5, FlagKept, TroubleGrows DEF ThreadsOf
<1>5. ASSUME NEW t \in AllThreads, LookUp(t) \/ Store(t) \/ Terminate(t) \/ AnnounceLibrary(t)
      PROVE  FlagHeld'
  <2>1. Proc(t) \in Procs BY ProcOfThread
  <2>2. /\ flag' = flag /\ call' = call
        /\ \/ trouble' = trouble
           \/ Notice(Proc(t), {"interrupted"}) \/ Notice(Proc(t), {"full"})
    BY <1>5 DEF LookUp, Store, Terminate, AnnounceLibrary, Send, Announcement, processVars,
               historyVars
  <2>3. PICK where \in {"send", "store", "terminate", "announce"} : Goto(t, where)
    BY <1>5 DEF LookUp, Store, Terminate, AnnounceLibrary
  <2>4. pc[t] # "init" BY <1>5 DEF LookUp, Store, Terminate, AnnounceLibrary, At
  <2>5. \A u \in AllThreads : Inside(u) => Inside(u)'
    BY <2>2, <2>3, <2>4 DEF Goto, Inside, UnderFlag, TypeOK
  <2> QED BY <2>1, <2>2, <2>5, FlagKept, TroubleGrows DEF ThreadsOf
<1>6. ASSUME NEW t \in AllThreads, SendReport(t) PROVE FlagHeld'
  <2>1. Proc(t) \in Procs BY ProcOfThread
  <2>2. flag' = flag /\ (trouble' = trouble \/ Notice(Proc(t), {"interrupted"}))
    BY <1>6 DEF SendReport, Send, Report
  <2>3. CASE UnderFlag(t)
    <3>1. Goto(t, "clear") /\ call' = call BY <1>6, <2>3 DEF SendReport
    <3>2. \A u \in AllThreads : Inside(u) => Inside(u)'
      BY <2>3, <3>1 DEF Goto, Inside, UnderFlag, TypeOK
    <3> QED BY <2>1, <2>2, <3>2, FlagKept, TroubleGrows DEF ThreadsOf
  <2>4. CASE ~UnderFlag(t)
    <3>1. ~Inside(t) BY <1>6, <2>4 DEF SendReport, At, Inside
    <3>2. \A u \in AllThreads : u # t => pc'[u] = pc[u] /\ call'[u] = call[u]
      BY <1>6, <2>4, ReturnTypes DEF SendReport
    <3>3. \A u \in AllThreads : Inside(u) => Inside(u)'
      BY <3>1, <3>2, OthersInside
    <3> QED BY <2>1, <2>2, <3>3, FlagKept, TroubleGrows DEF ThreadsOf
  <2> QED BY <2>3, <2>4
<1>7. ASSUME NEW t \in AllThreads, Fork(t) PROVE FlagHeld'
  <2>1. /\ pc[t] = "idle" /\ Parent \in Procs /\ Child \in Procs
        /\ flag' = [flag EXCEPT ![Child] = flag[Parent]]
        /\ trouble' = [trouble EXCEPT ![Parent] = trouble[Parent] \cup Meets(t),
                                      ![Child] = IF flag[Parent] THEN {"deaf"} ELSE {}]
    BY <1>7 DEF Fork, At, Procs
  <2>2. \A u \in AllThreads : u # t => pc'[u] = pc[u] /\ call'[u] = call[u]
    BY <1>7 DEF Fork, Goto, TypeOK
  <2>3. \A u \in AllThreads : Inside(u) => Inside(u)'
    BY <2>1, <2>2, OthersInside DEF Inside
  <2>4. flag'[Child] => "deaf" \in trouble'[Child]
    BY <2>1 DEF TypeOK
  <2>5. flag'[Parent] => "deaf" \in trouble'[Parent] \/ \E u \in ThreadsOf(Parent) : Inside(u)'
    <3>1. flag'[Parent] = flag[Parent] /\ trouble[Parent] \subseteq trouble'[Parent]
      BY <2>1, NamesAssumption DEF TypeOK
    <3> QED BY <2>1, <2>3, <3>1 DEF FlagHeld, ThreadsOf
  <2> QED BY <2>4, <2>5 DEF FlagHeld, Procs, ThreadsOf
<1>8. ASSUME NEW t \in AllThreads, Mallopt(t) PROVE FlagHeld'
  BY <1>8 DEF Mallopt, FlagHeld, Inside, UnderFlag, threadVars, historyVars
<1> QED BY <1>1, <1>2, <1>3, <1>4, <1>5, <1>6, <1>7, <1>8 DEF Next, Enter, Step

(* A process stops being recorded only for as long as a thread of it is on  *)
(* its way to clear the flag, or because it was forked with the flag set.   *)
THEOREM FlagIsHeld == Spec => []FlagHeld
<1>1. Init => FlagInv BY DEF Init, FlagInv, SetUnder, FlagHeld
<1>2. TypeOK /\ FlagInv /\ [Next]_vars => FlagInv'
  BY SetUnderStep, FlagStep DEF FlagInv
<1>3. FlagInv => FlagHeld BY DEF FlagInv
<1> QED BY <1>1, <1>2, <1>3, TypeCorrect, PTL DEF Spec
-----------------------------------------------------------------------------
(* The reports. What a thread is about to report is a call of the history,  *)
(* no two threads are about to report the same one, and none that is        *)
(* already in the recording.                                                *)

Reporting(t) == pc[t] \notin {"idle", "init"}

(* Call c, made in process p, is in the history.                            *)
Happened(p, c) ==
  /\ c.no \in 1..Len(calls[p])
  /\ calls[p][c.no] = [kind |-> c.kind, old |-> c.old, new |-> c.new]
  /\ c.told = c.new \/ c.kind = "posix_memalign"

CallsHappened == \A t \in AllThreads : Reporting(t) => Happened(Proc(t), call[t])

OwnCalls ==
  \A t, u \in AllThreads :
    t # u /\ Proc(t) = Proc(u) /\ Reporting(t) /\ Reporting(u) => call[t].no # call[u].no

(* No report of the n-th call of process p is in the recording.             *)
Untold(p, n) ==
  \A i \in 1..Len(recording) :
    recording[i].word \in CallWords => ~(recording[i].pid = p /\ recording[i].no = n)

ToTell(t) == Reporting(t) /\ pc[t] # "clear" /\ ~call[t].again

NotYetTold == \A t \in AllThreads : ToTell(t) => Untold(Proc(t), call[t].no)

(* What TrueReports says of message i of a recording.                       *)
TrueAt(rec, cs, i) ==
  LET m == rec[i] IN
    /\ m.no \in 1..Len(cs[m.pid])
    /\ LET c == cs[m.pid][m.no] IN
         /\ m.word = Word(c.kind) /\ m.old = c.old
         /\ m.new = c.new \/ c.kind = "posix_memalign"
    /\ ~m.again => \A j \in 1..i-1 :
         rec[j].word \in CallWords =>
           <<rec[j].pid, rec[j].no>> # <<m.pid, m.no>>

ReportInv == CallsHappened /\ OwnCalls /\ NotYetTold /\ TrueReports

LEMMA TrueReportsAre ==
  /\ TrueReports <=> \A i \in 1..Len(recording) :
       recording[i].word \in CallWords => TrueAt(recording, calls, i)
  /\ TrueReports' <=> \A i \in 1..Len(recording') :
       recording'[i].word \in CallWords => TrueAt(recording', calls', i)
BY DEF TrueReports, TrueAt

(* A step that reports no call and makes none: the threads in a wrapper     *)
(* keep their calls, or note that a nested wrapper is over.                 *)
LEMMA NothingReported ==
  ASSUME TypeOK, TypeOK', ReportInv, calls' = calls,
         \/ recording' = recording
         \/ \E m \in Messages : m.word \notin CallWords /\ recording' = Append(recording, m),
         \A u \in AllThreads : Reporting(u)' =>
           /\ Reporting(u)
           /\ \A f \in {"kind", "old", "new", "told", "no"} : call'[u][f] = call[u][f],
         \A u \in AllThreads : ToTell(u)' => ToTell(u)
  PROVE  ReportInv'
<1>0. recording \in Seq(Messages) /\ Len(recording) \in Nat BY DEF TypeOK
<1>1. \A i \in 1..Len(recording') : recording'[i].word \in CallWords =>
        i \in 1..Len(recording) /\ recording'[i] = recording[i]
  BY <1>0
<1>2. \A i \in 1..Len(recording) : recording'[i] = recording[i] /\ i \in 1..Len(recording')
  BY <1>0
<1>3. \A u \in AllThreads : Reporting(u)' =>
        /\ Reporting(u) /\ call'[u].kind = call[u].kind /\ call'[u].old = call[u].old
        /\ call'[u].new = call[u].new /\ call'[u].told = call[u].told
        /\ call'[u].no = call[u].no
  OBVIOUS
<1>4. CallsHappened' BY <1>3 DEF ReportInv, CallsHappened, Happened
<1>5. OwnCalls' BY <1>3 DEF ReportInv, OwnCalls
<1>6. NotYetTold'
  <2> SUFFICES ASSUME NEW u \in AllThreads, ToTell(u)'
               PROVE  Untold(Proc(u), call[u].no)'
    BY DEF NotYetTold
  <2>1. Untold(Proc(u), call[u].no) BY DEF ReportInv, NotYetTold
  <2>2. call'[u].no = call[u].no BY <1>3 DEF ToTell
  <2> QED BY <1>1, <2>1, <2>2 DEF Untold
<1>7. TrueReports'
  <2> SUFFICES ASSUME NEW i \in 1..Len(recording'), recording'[i].word \in CallWords
               PROVE  TrueAt(recording', calls', i)
    BY TrueReportsAre
  <2>1. i \in 1..Len(recording) /\ recording'[i] = recording[i] BY <1>1
  <2>2. \A j \in 1..i-1 : recording'[j] = recording[j] BY <1>0, <1>2, <2>1
  <2>3. TrueAt(recording, calls, i) BY <2>1, TrueReportsAre DEF ReportInv
  <2> QED BY <2>1, <2>2, <2>3 DEF TrueAt
<1> QED BY <1>4, <1>5, <1>6, <1>7 DEF ReportInv

(* A call that begins joins the history, as the last one of its process.    *)
LEMMA CallJoins ==
  ASSUME TypeOK, TypeOK', ReportInv, NEW t \in AllThreads, NEW c \in CallRecords, NEW where,
         c.no = Len(calls[Proc(t)]) + 1, c.told = c.new \/ c.kind = "posix_memalign",
         calls' = [calls EXCEPT ![Proc(t)] = Append(calls[Proc(t)],
                     [kind |-> c.kind, old |-> c.old, new |-> c.new])],
         call' = [call EXCEPT ![t] = c],
         pc' = [pc EXCEPT ![t] = where],
         recording' = recording
  PROVE  ReportInv'
<1> DEFINE p == Proc(t)
           e == [kind |-> c.kind, old |-> c.old, new |-> c.new]
<1>0. p \in Procs BY ProcOfThread
<1>1. /\ calls[p] \in Seq([kind : CallKinds, old : Pointers, new : Pointers])
      /\ e \in [kind : CallKinds, old : Pointers, new : Pointers]
      /\ calls' = [calls EXCEPT ![p] = Append(calls[p], e)]
      /\ calls'[p] = Append(calls[p], e)
  BY <1>0 DEF TypeOK, CallRecords
<1> HIDE DEF e
<1>2. /\ Len(calls'[p]) = Len(calls[p]) + 1
      /\ calls'[p][Len(calls[p]) + 1] = e
      /\ \A n \in 1..Len(calls[p]) : calls'[p][n] = calls[p][n]
      /\ Len(calls[p]) \in Nat
  BY <1>1
<1>3. \A q \in Procs : q # p => calls'[q] = calls[q]
  BY <1>0, <1>1 DEF TypeOK
<1>4. \A q \in Procs : \A n \in 1..Len(calls[q]) :
        n \in 1..Len(calls'[q]) /\ calls'[q][n] = calls[q][n]
  BY <1>2, <1>3
<1>5. call'[t] = c /\ \A u \in AllThreads : u # t => pc'[u] = pc[u] /\ call'[u] = call[u]
  BY DEF TypeOK
<1>6. CallsHappened'
  <2> SUFFICES ASSUME NEW u \in AllThreads, Reporting(u)'
               PROVE  Happened(Proc(u), call[u])'
    BY DEF CallsHappened
  <2>1. CASE u = t BY <1>2, <1>5, <2>1 DEF Happened, e
  <2>2. CASE u # t
    <3>1. Happened(Proc(u), call[u]) BY <1>5, <2>2 DEF ReportInv, CallsHappened, Reporting
    <3>2. Proc(u) \in Procs BY ProcOfThread
    <3> QED BY <1>4, <1>5, <2>2, <3>1, <3>2 DEF Happened
  <2> QED BY <2>1, <2>2
<1>7. \A u \in AllThreads : u # t /\ Proc(u) = p /\ Reporting(u) => call[u].no < c.no
  <2> SUFFICES ASSUME NEW u \in AllThreads, u # t, Proc(u) = p, Reporting(u)
               PROVE  call[u].no < c.no
    OBVIOUS
  <2>1. call[u].no \in 1..Len(calls[Proc(u)]) BY DEF ReportInv, CallsHappened, Happened
  <2>2. call[u].no \in 1..Len(calls[p]) BY <2>1
  <2>3. c.no = Len(calls[p]) + 1 OBVIOUS
  <2> QED BY <1>2, <2>2, <2>3
<1>8. OwnCalls'
  <2> SUFFICES ASSUME NEW u \in AllThreads, NEW v \in AllThreads, u # v, Proc(u) = Proc(v),
                      Reporting(u)', Reporting(v)'
               PROVE  call'[u].no # call'[v].no
    BY DEF OwnCalls
  <2>1. CASE u # t /\ v # t BY <1>5, <2>1 DEF ReportInv, OwnCalls, Reporting
  <2>2. CASE u = t BY <1>2, <1>5, <1>7, <2>2 DEF Reporting
  <2>3. CASE v = t BY <1>2, <1>5, <1>7, <2>3 DEF Reporting
  <2> QED BY <2>1, <2>2, <2>3
<1>9. \A q \in Procs, n \in Nat : Untold(q, n) => Untold(q, n)' BY DEF Untold
<1>10. Untold(p, c.no)
  BY <1>2 DEF ReportInv, TrueReports, Untold
<1>11. NotYetTold'
  <2> SUFFICES ASSUME NEW u \in AllThreads, ToTell(u)'
               PROVE  Untold(Proc(u), call[u].no)'
    BY DEF NotYetTold
  <2>1. CASE u = t BY <1>5, <1>10, <2>1 DEF Untold
  <2>2. CASE u # t
    <3>1. ToTell(u) BY <1>5, <2>2 DEF ToTell, Reporting
    <3> QED BY <1>5, <2>2, <3>1 DEF ReportInv, NotYetTold, Untold
  <2> QED BY <2>1, <2>2
<1>12. TrueReports'
  <2> SUFFICES ASSUME NEW i \in 1..Len(recording), recording[i].word \in CallWords
               PROVE  TrueAt(recording, calls', i)
    BY TrueReportsAre
  <2>1. recording[i].pid \in Procs
    <3>1. recording[i] \in Messages BY DEF TypeOK
    <3> QED BY <3>1 DEF Messages
  <2>2. TrueAt(recording, calls, i) BY TrueReportsAre DEF ReportInv
  <2>3. recording[i].no \in 1..Len(calls[recording[i].pid]) BY <2>2 DEF TrueAt
  <2>4. /\ recording[i].no \in 1..Len(calls'[recording[i].pid])
        /\ calls'[recording[i].pid][recording[i].no]
             = calls[recording[i].pid][recording[i].no]
    BY <1>4, <2>1, <2>3
  <2> QED BY <2>2, <2>4 DEF TrueAt
<1> QED BY <1>6, <1>8, <1>11, <1>12 DEF ReportInv

(* A report tells a call of the history that has not been told.             *)
LEMMA ReportTells ==
  ASSUME TypeOK, TypeOK', ReportInv, NEW t \in AllThreads, Reporting(t), pc[t] # "clear",
         calls' = calls, recording' = Append(recording, Report(t)),
         \A u \in AllThreads : u # t => pc'[u] = pc[u] /\ call'[u] = call[u],
         Reporting(t)' =>
           \A f \in {"kind", "old", "new", "told", "no"} : call'[t][f] = call[t][f],
         ~ToTell(t)'
  PROVE  ReportInv'
<1> DEFINE m == Report(t)
<1>0. recording \in Seq(Messages) /\ Len(recording) \in Nat BY DEF TypeOK
<1>1. /\ m.pid = Proc(t) /\ m.no = call[t].no /\ m.again = call[t].again
      /\ m.word = Word(call[t].kind) /\ m.old = call[t].old /\ m.new = call[t].told
  BY DEF Report
<1>2. Happened(Proc(t), call[t]) BY DEF ReportInv, CallsHappened
<1>3. m \in Messages BY ReportIsMessage
<1> HIDE DEF m
<1>4. /\ Len(recording') = Len(recording) + 1
      /\ recording'[Len(recording) + 1] = m
      /\ \A i \in 1..Len(recording) : recording'[i] = recording[i]
  BY <1>0, <1>3 DEF m
<1>5. \A u \in AllThreads : Reporting(u)' =>
        /\ Reporting(u) /\ call'[u].kind = call[u].kind /\ call'[u].old = call[u].old
        /\ call'[u].new = call[u].new /\ call'[u].told = call[u].told
        /\ call'[u].no = call[u].no
  BY DEF Reporting
<1>6. CallsHappened' BY <1>5 DEF ReportInv, CallsHappened, Happened
<1>7. OwnCalls' BY <1>5 DEF ReportInv, OwnCalls
<1>8. NotYetTold'
  <2> SUFFICES ASSUME NEW u \in AllThreads, ToTell(u)'
               PROVE  Untold(Proc(u), call[u].no)'
    BY DEF NotYetTold
  <2>1. u # t OBVIOUS
  <2>2. ToTell(u) /\ Reporting(u) BY <2>1 DEF ToTell, Reporting
  <2>3. Untold(Proc(u), call[u].no) BY <2>2 DEF ReportInv, NotYetTold
  <2>4. ~(m.pid = Proc(u) /\ m.no = call[u].no)
    BY <1>1, <2>1, <2>2 DEF ReportInv, OwnCalls
  <2>5. call'[u] = call[u] BY <2>1
  <2> QED BY <1>0, <1>4, <2>3, <2>4, <2>5 DEF Untold
<1>9. TrueReports'
  <2> SUFFICES ASSUME NEW i \in 1..Len(recording'), recording'[i].word \in CallWords
               PROVE  TrueAt(recording', calls', i)
    BY TrueReportsAre
  <2>1. CASE i \in 1..Len(recording)
    <3>1. recording'[i] = recording[i] /\ \A j \in 1..i-1 : recording'[j] = recording[j]
      BY <1>0, <1>4, <2>1
    <3>2. TrueAt(recording, calls, i) BY <2>1, <3>1, TrueReportsAre DEF ReportInv
    <3> QED BY <3>1, <3>2 DEF TrueAt
  <2>2. CASE i = Len(recording) + 1
    <3>1. recording'[i] = m BY <1>4, <2>2
    <3>2. /\ m.no \in 1..Len(calls'[m.pid])
          /\ m.word = Word(calls'[m.pid][m.no].kind)
          /\ m.old = calls'[m.pid][m.no].old
          /\ m.new = calls'[m.pid][m.no].new \/ calls'[m.pid][m.no].kind = "posix_memalign"
      BY <1>1, <1>2 DEF Happened
    <3>3. ~m.again => Untold(m.pid, m.no)
      BY <1>1 DEF ReportInv, NotYetTold, ToTell
    <3>4. ~m.again => \A j \in 1..i-1 : recording'[j].word \in CallWords =>
             <<recording'[j].pid, recording'[j].no>> # <<m.pid, m.no>>
      BY <1>0, <1>4, <2>2, <3>3 DEF Untold
    <3> QED BY <3>1, <3>2, <3>4 DEF TrueAt
  <2> QED BY <1>0, <1>4, <2>1, <2>2
<1> QED BY <1>6, <1>7, <1>8, <1>9 DEF ReportInv

(* The steps that only move a thread on: it was in a wrapper, and stays in  *)
(* it before its report.                                                    *)
LEMMA MovesOn ==
  ASSUME TypeOK, TypeOK', ReportInv, NEW t \in AllThreads, NEW where,
         Goto(t, where), call' = call, calls' = calls,
         \/ recording' = recording
         \/ \E m \in Messages : m.word \notin CallWords /\ recording' = Append(recording, m),
         where \in {"idle", "init", "clear"} \/ (Reporting(t) /\ pc[t] # "clear"),
         where = "clear" => Reporting(t)
  PROVE  ReportInv'
<1>1. pc' = [pc EXCEPT ![t] = where] BY DEF Goto
<1>2. \A u \in AllThreads : Reporting(u)' => Reporting(u)
  BY <1>1 DEF Reporting, TypeOK
<1>3. \A u \in AllThreads : ToTell(u)' => ToTell(u)
  BY <1>1 DEF ToTell, Reporting, TypeOK
<1> QED BY <1>2, <1>3, NothingReported

(* An announcement is no report of a call.                                  *)
LEMMA AnnouncementsTellNothing ==
  ASSUME NEW w \in {"NEWEXEC", "EXTERNAL"}, NEW p \in Procs, NEW lib \in Callers,
         Send(Announcement(w, p, lib))
  PROVE  \/ recording' = recording
         \/ \E m \in Messages : m.word \notin CallWords /\ recording' = Append(recording, m)
BY AnnouncementIsMessage DEF Send

(* The end of a wrapper tells nothing new.                                  *)
LEMMA EndTellsNothing ==
  ASSUME TypeOK, NEW t \in AllThreads, Reporting(t), Return(t)
  PROVE  /\ \A u \in AllThreads : u # t => pc'[u] = pc[u] /\ call'[u] = call[u]
         /\ \A u \in AllThreads : Reporting(u)' =>
              /\ Reporting(u)
              /\ \A f \in {"kind", "old", "new", "told", "no"} : call'[u][f] = call[u][f]
         /\ ~ToTell(t)'
<1>1. call[t] \in CallRecords BY DEF TypeOK
<1>2. \/ pc'[t] = "idle"
      \/ call'[t] = [call[t] EXCEPT !.nested = FALSE, !.again = TRUE]
  BY ReturnTypes
<1>3. \A u \in AllThreads : u # t => pc'[u] = pc[u] /\ call'[u] = call[u] BY ReturnTypes
<1>4. ~ToTell(t)' BY <1>1, <1>2 DEF ToTell, Reporting, CallRecords
<1>5. Reporting(t)' =>
        \A f \in {"kind", "old", "new", "told", "no"} : call'[t][f] = call[t][f]
  BY <1>1, <1>2 DEF Reporting, CallRecords
<1> QED BY <1>3, <1>4, <1>5 DEF Reporting

LEMMA ReportStep == TypeOK /\ TypeOK' /\ ReportInv /\ [Next]_vars => ReportInv'
<1> SUFFICES ASSUME TypeOK, TypeOK', ReportInv, [Next]_vars PROVE ReportInv' OBVIOUS
<1>1. ASSUME pc' = pc, call' = call, calls' = calls, recording' = recording PROVE ReportInv'
  BY <1>1, NothingReported DEF Reporting, ToTell
<1>2. CASE UNCHANGED vars BY <1>1, <1>2 DEF vars, threadVars, historyVars
<1>3. ASSUME NEW t \in AllThreads, PreloadInit(t) \/ AnnounceImage(t) PROVE ReportInv'
  <2>1. CASE PreloadInit(t) BY <2>1, MovesOn DEF PreloadInit, historyVars
  <2>2. CASE AnnounceImage(t)
    BY <2>2, MovesOn, AnnouncementsTellNothing, ProcOfThread DEF AnnounceImage, Callers
  <2> QED BY <1>3, <2>1, <2>2
<1>4. ASSUME NEW t \in AllThreads, Call(t) PROVE ReportInv'
  <2>1. PICK c \in CallRecords : Begin(t, c) /\ c.no = Len(calls[Proc(t)]) + 1
          /\ (c.told = c.new \/ c.kind = "posix_memalign")
    BY <1>4, CallBegins
  <2>2. recording' = recording BY <1>4 DEF Call
  <2> QED BY <2>1, <2>2, CallJoins DEF Begin, Goto
<1>5. ASSUME NEW t \in AllThreads, Fork(t) PROVE ReportInv'
  <2> DEFINE c == [NoCall EXCEPT !.kind = "fork", !.no = Len(calls[Parent]) + 1]
  <2>1. Len(calls[Parent]) + 1 \in Nat BY DEF TypeOK, Procs
  <2>2. /\ c.no = Len(calls[Parent]) + 1 /\ c.told = c.new
        /\ c.kind = "fork" /\ c.old = Null /\ c.new = Null
    BY DEF NoCall
  <2>3. c \in CallRecords
    BY <2>1 DEF NoCall, CallRecords, CallKinds, Unguarded, Pointers, Callers
  <2>4. /\ Proc(t) = Parent /\ call' = [call EXCEPT ![t] = c] /\ recording' = recording
        /\ calls' = [calls EXCEPT ![Parent] =
                       Append(calls[Parent], [kind |-> "fork", old |-> Null, new |-> Null])]
        /\ pc' = [pc EXCEPT ![t] = "send"]
    BY <1>5 DEF Fork, Goto
  <2> HIDE DEF c
  <2> QED BY <2>2, <2>3, <2>4, CallJoins
<1>6. ASSUME NEW t \in AllThreads, TestFlag(t) \/ ClearFlag(t), Return(t) PROVE ReportInv'
  <2>1. Reporting(t) BY <1>6 DEF TestFlag, ClearFlag, At, Reporting
  <2>2. calls' = calls /\ recording' = recording
    BY <1>6 DEF TestFlag, ClearFlag, historyVars
  <2>3. \A u \in AllThreads : ToTell(u)' => ToTell(u)
    BY <1>6, <2>1, EndTellsNothing DEF ToTell, Reporting
  <2> QED BY <1>6, <2>1, <2>2, <2>3, EndTellsNothing, NothingReported
<1>7. ASSUME NEW t \in AllThreads,
             (TestFlag(t) /\ ~flag[Proc(t)]) \/ SetFlag(t) \/ LookUp(t) \/ Store(t) \/ Terminate(t)
      PROVE  ReportInv'
  <2>1. Reporting(t) /\ pc[t] # "clear"
    BY <1>7 DEF TestFlag, SetFlag, LookUp, Store, Terminate, At, Reporting
  <2>2. call' = call /\ calls' = calls /\ recording' = recording
    BY <1>7 DEF TestFlag, SetFlag, LookUp, Store, Terminate, processVars, historyVars
  <2>3. \E where \in {"set", "send", "look", "store", "terminate", "announce"} : Goto(t, where)
    BY <1>7 DEF TestFlag, SetFlag, LookUp, Store, Terminate
  <2> QED BY <2>1, <2>2, <2>3, MovesOn
<1>8. ASSUME NEW t \in AllThreads, AnnounceLibrary(t) PROVE ReportInv'
  <2>1. Reporting(t) /\ pc[t] # "clear" BY <1>8 DEF AnnounceLibrary, At, Reporting
  <2>2. call[t].lib \in Callers
    <3>1. call[t] \in CallRecords BY DEF TypeOK
    <3> QED BY <3>1 DEF CallRecords
  <2>3. \/ recording' = recording
        \/ \E m \in Messages : m.word \notin CallWords /\ recording' = Append(recording, m)
    BY <1>8, <2>2, ProcOfThread, AnnouncementsTellNothing DEF AnnounceLibrary
  <2>4. Goto(t, "send") /\ call' = call /\ calls' = calls BY <1>8 DEF AnnounceLibrary
  <2> QED BY <2>1, <2>3, <2>4, MovesOn
<1>9. ASSUME NEW t \in AllThreads, SendReport(t) PROVE ReportInv'
  <2>1. /\ Reporting(t) /\ pc[t] = "send" /\ pc[t] # "clear" /\ calls' = calls
    BY <1>9 DEF SendReport, At, Reporting
  <2>2. /\ \A u \in AllThreads : u # t => pc'[u] = pc[u] /\ call'[u] = call[u]
        /\ \A u \in AllThreads : Reporting(u)' =>
             /\ Reporting(u)
             /\ \A f \in {"kind", "old", "new", "told", "no"} : call'[u][f] = call[u][f]
        /\ ~ToTell(t)'
    <3>1. CASE Return(t) BY <2>1, <3>1, EndTellsNothing
    <3>2. CASE Goto(t, "clear") /\ call' = call
      BY <2>1, <3>2 DEF Goto, Reporting, ToTell, TypeOK
    <3> QED BY <1>9, <3>1, <3>2 DEF SendReport
  <2>3. CASE recording' = recording
    <3>1. \A u \in AllThreads : ToTell(u)' => ToTell(u)
      BY <2>2 DEF ToTell, Reporting
    <3> QED BY <2>1, <2>2, <2>3, <3>1, NothingReported
  <2>4. CASE recording' = Append(recording, Report(t))
    BY <2>1, <2>2, <2>4, ReportTells
  <2> QED BY <1>9, <2>3, <2>4 DEF SendReport, Send
<1>10. ASSUME NEW t \in AllThreads, Mallopt(t) PROVE ReportInv'
  BY <1>1, <1>10 DEF Mallopt, threadVars, historyVars
<1> QED BY <1>2, <1>3, <1>4, <1>5, <1>6, <1>7, <1>8, <1>9, <1>10
        DEF Next, Enter, Step, TestFlag, ClearFlag

(* Whatever threads, signals and forks do, the recording tells of calls     *)
(* that took place, as they took place, and of none twice but by a nested   *)
(* wrapper.                                                                 *)
THEOREM ReportsAreTrue == Spec => []TrueReports
<1>1. Init => ReportInv
  BY DEF Init, ReportInv, CallsHappened, OwnCalls, NotYetTold, TrueReports, Reporting, ToTell
<1>2. ReportInv => TrueReports BY DEF ReportInv
<1> QED BY <1>1, <1>2, ReportStep, TypeCorrect, PTL DEF Spec
-----------------------------------------------------------------------------
(* Who has which memory. What a thread in a wrapper has got is in the heap, *)
(* and nobody else's: not the program's, and not another wrapper's.         *)

HeldInHeap == \A p \in Procs : held[p] \subseteq heap[p]

Got(t) == Reporting(t) /\ call[t].new # Null

GotIsKept == \A t \in AllThreads : Got(t) => call[t].new \in heap[Proc(t)] \ held[Proc(t)]

GotOnce ==
  \A t, u \in AllThreads :
    t # u /\ Proc(t) = Proc(u) /\ Got(t) /\ Got(u) => call[t].new # call[u].new

UnbornIdle == stage[Child] = "unborn" => ~Reporting(ChildThread)

(* When memory is used as an argument, the wrappers of all earlier calls    *)
(* that made it are over.                                                   *)
DoneBeforeUse ==
  \A p \in Procs : \A n \in 1..Len(calls[p]) : \A k \in 1..n-1 :
    calls[p][n].old # Null /\ calls[p][k].new = calls[p][n].old
      => \A t \in ThreadsOf(p) : Reporting(t) => call[t].no # k

MemoryInv == HeldInHeap /\ GotIsKept /\ GotOnce /\ UnbornIdle

(* Steps that change neither the heap nor the threads' calls.               *)
LEMMA MemoryKept ==
  ASSUME MemoryInv, heap' = heap, held' = held, stage'[Child] = "unborn" => stage[Child] = "unborn",
         \A u \in AllThreads : Reporting(u)' => Reporting(u) /\ call'[u].new = call[u].new
  PROVE  MemoryInv'
<1>1. \A u \in AllThreads : Got(u)' => Got(u) /\ call'[u].new = call[u].new BY DEF Got
<1>2. HeldInHeap' /\ GotIsKept' /\ GotOnce'
  BY <1>1 DEF MemoryInv, HeldInHeap, GotIsKept, GotOnce
<1>3. UnbornIdle' BY DEF MemoryInv, UnbornIdle, AllThreads
<1> QED BY <1>2, <1>3 DEF MemoryInv

(* A call takes memory from the program, and gets memory of nobody.         *)
LEMMA MemoryTaken ==
  ASSUME TypeOK, MemoryInv, NEW t \in AllThreads, Call(t)
  PROVE  MemoryInv'
<1> DEFINE p == Proc(t)
<1>0. p \in Procs BY ProcOfThread
<1>1. PICK c \in CallRecords :
        /\ Begin(t, c)
        /\ c.old = Null \/ c.old \in held[p]
        /\ \/ c.new = Null \/ c.new \notin heap[p]
           \/ c.new = c.old /\ Given(c.kind, c.old, c.new) = {c.old}
  BY CallBegins
<1>2. Given(c.kind, c.old, c.new) \subseteq {c.old} BY DEF Given
<1>3. /\ heap'[p] = (heap[p] \ Given(c.kind, c.old, c.new)) \cup ({c.new} \ {Null})
      /\ held'[p] = held[p] \ Given(c.kind, c.old, c.new)
      /\ \A q \in Procs : q # p => heap'[q] = heap[q] /\ held'[q] = held[q]
  BY <1>0, <1>1 DEF Begin, TypeOK
<1>4. /\ call'[t] = c
      /\ \A u \in AllThreads : u # t => pc'[u] = pc[u] /\ call'[u] = call[u]
  BY <1>1 DEF Begin, Goto, TypeOK
<1> HIDE DEF p
<1>5. \A u \in AllThreads : u # t => (Got(u)' <=> Got(u)) BY <1>4 DEF Got, Reporting
<1>6. Null \notin held[p] BY <1>0 DEF TypeOK
<1>7. HeldInHeap' BY <1>3 DEF MemoryInv, HeldInHeap
(* the others keep what they got *)
<1>8. ASSUME NEW u \in AllThreads, u # t, Got(u)
      PROVE  /\ call[u].new \in heap'[Proc(u)] \ held'[Proc(u)]
             /\ Proc(u) = p /\ c.new # Null => call[u].new # c.new
  <2>1. call[u].new \in heap[Proc(u)] \ held[Proc(u)] BY <1>8 DEF MemoryInv, GotIsKept
  <2>2. Proc(u) \in Procs /\ call[u].new # Null BY <1>8, ProcOfThread DEF Got
  <2>3. CASE Proc(u) # p BY <1>3, <2>1, <2>2, <2>3
  <2>4. CASE Proc(u) = p
    <3>1. call[u].new # c.old BY <1>1, <2>1, <2>2, <2>4
    <3>2. call[u].new \in heap'[p] \ held'[p] BY <1>2, <1>3, <2>1, <2>4, <3>1
    <3>3. call[u].new # c.new \/ c.new = Null BY <1>1, <2>1, <2>4, <3>1
    <3> QED BY <2>4, <3>2, <3>3
  <2> QED BY <2>3, <2>4
<1>9. c.new # Null => c.new \in heap'[p] \ held'[p]
  BY <1>0, <1>1, <1>3 DEF MemoryInv, HeldInHeap
<1>10. GotIsKept'
  <2> SUFFICES ASSUME NEW u \in AllThreads, Got(u)'
               PROVE  call'[u].new \in heap'[Proc(u)] \ held'[Proc(u)]
    BY DEF GotIsKept
  <2>1. CASE u = t BY <1>4, <1>9, <2>1 DEF Got, p
  <2>2. CASE u # t BY <1>4, <1>5, <1>8, <2>2
  <2> QED BY <2>1, <2>2
<1>11. GotOnce'
  <2> SUFFICES ASSUME NEW u \in AllThreads, NEW v \in AllThreads, u # v, Proc(u) = Proc(v),
                      Got(u)', Got(v)'
               PROVE  call'[u].new # call'[v].new
    BY DEF GotOnce
  <2>1. CASE u # t /\ v # t BY <1>4, <1>5, <2>1 DEF MemoryInv, GotOnce
  <2>2. CASE u = t
    <3>1. v # t /\ Got(v) /\ Proc(v) = p /\ c.new # Null BY <1>4, <1>5, <2>2 DEF Got, p
    <3> QED BY <1>4, <1>8, <2>2, <3>1
  <2>3. CASE v = t
    <3>1. u # t /\ Got(u) /\ Proc(u) = p /\ c.new # Null BY <1>4, <1>5, <2>3 DEF Got, p
    <3> QED BY <1>4, <1>8, <2>3, <3>1
  <2> QED BY <2>1, <2>2, <2>3
<1>12. UnbornIdle'
  <2>1. stage' = stage /\ stage[p] = "ready" BY DEF Call, p
  <2>2. CASE t = ChildThread BY <2>1, <2>2 DEF UnbornIdle, Proc, p
  <2>3. CASE t # ChildThread
    BY <1>4, <2>1, <2>3 DEF MemoryInv, UnbornIdle, Reporting, AllThreads
  <2> QED BY <2>2, <2>3
<1> QED BY <1>7, <1>10, <1>11, <1>12 DEF MemoryInv

(* A child has its parent's memory, and no thread in a wrapper.             *)
LEMMA MemoryForked ==
  ASSUME TypeOK, MemoryInv, NEW t \in AllThreads, Fork(t)
  PROVE  MemoryInv'
<1>1. /\ stage[Child] = "unborn" /\ Proc(t) = Parent /\ t # ChildThread
      /\ Parent \in Procs /\ Child \in Procs /\ Parent # Child
  BY DEF Fork, Proc, Procs
<1>2. /\ heap'[Child] = heap[Parent] /\ held'[Child] = held[Parent]
      /\ heap'[Parent] = heap[Parent] /\ held'[Parent] = held[Parent]
      /\ stage'[Child] = "ready"
  BY <1>1 DEF Fork, TypeOK
<1>3. /\ call'[t].new = Null
      /\ \A u \in AllThreads : u # t => pc'[u] = pc[u] /\ call'[u] = call[u]
  BY DEF Fork, Goto, TypeOK, NoCall
<1>4. ~Reporting(ChildThread) /\ ~Got(ChildThread)'
  BY <1>1, <1>3 DEF MemoryInv, UnbornIdle, Got, Reporting, AllThreads
<1>5. \A u \in AllThreads : Got(u)' =>
        Got(u) /\ u # t /\ u # ChildThread /\ Proc(u) = Parent /\ call'[u] = call[u]
  BY <1>3, <1>4 DEF Got, Reporting, Proc
<1>6. HeldInHeap' BY <1>1, <1>2 DEF MemoryInv, HeldInHeap, Procs
<1>7. GotIsKept' BY <1>2, <1>5 DEF MemoryInv, GotIsKept
<1>8. GotOnce' BY <1>5 DEF MemoryInv, GotOnce
<1>9. UnbornIdle' BY <1>2 DEF UnbornIdle
<1> QED BY <1>6, <1>7, <1>8, <1>9 DEF MemoryInv

(* The end of a wrapper gives the program what it got.                      *)
LEMMA MemoryReturned ==
  ASSUME TypeOK, MemoryInv, NEW t \in AllThreads, Reporting(t), Return(t),
         heap' = heap, stage' = stage
  PROVE  MemoryInv'
<1>1. /\ \A u \in AllThreads : Reporting(u)' => Reporting(u) /\ call'[u].new = call[u].new
  BY EndTellsNothing
<1>2. CASE call[t].nested
  <2>1. held' = held BY <1>2 DEF Return
  <2> QED BY <1>1, <2>1, MemoryKept
<1>3. CASE ~call[t].nested
  <2>1. /\ Proc(t) \in Procs
        /\ held'[Proc(t)] = held[Proc(t)] \cup ({call[t].new} \ {Null})
        /\ \A q \in Procs : q # Proc(t) => held'[q] = held[q]
        /\ pc'[t] = "idle"
    BY <1>3, ProcOfThread DEF Return, Goto, TypeOK
  <2>2. call[t].new # Null => Got(t) /\ call[t].new \in heap[Proc(t)]
    BY DEF MemoryInv, GotIsKept, Got
  <2>3. \A u \in AllThreads : Got(u)' => Got(u) /\ u # t /\ call'[u].new = call[u].new
    BY <1>1, <2>1 DEF Got, Reporting
  <2>4. HeldInHeap' BY <2>1, <2>2 DEF MemoryInv, HeldInHeap
  <2>5. GotIsKept'
    <3> SUFFICES ASSUME NEW u \in AllThreads, Got(u)'
                 PROVE  call[u].new \in heap[Proc(u)] \ held'[Proc(u)]
      BY <2>3 DEF GotIsKept
    <3>1. Got(u) /\ u # t /\ Proc(u) \in Procs BY <2>3, ProcOfThread
    <3>2. call[u].new \in heap[Proc(u)] \ held[Proc(u)] BY <3>1 DEF MemoryInv, GotIsKept
    <3>3. Proc(u) = Proc(t) /\ call[t].new # Null => call[u].new # call[t].new
      BY <2>2, <3>1 DEF MemoryInv, GotOnce
    <3> QED BY <2>1, <3>1, <3>2, <3>3
  <2>6. GotOnce' BY <2>3 DEF MemoryInv, GotOnce
  <2>7. UnbornIdle' BY <1>1 DEF MemoryInv, UnbornIdle, AllThreads
  <2> QED BY <2>4, <2>5, <2>6, <2>7 DEF MemoryInv
<1> QED BY <1>2, <1>3

(* Steps that make no call: the threads in a wrapper keep theirs.           *)
LEMMA CallsKept ==
  ASSUME TypeOK, NEW t \in AllThreads, Step(t) \/ PreloadInit(t) \/ Mallopt(t)
  PROVE  /\ calls' = calls /\ heap' = heap /\ (stage'[Child] = "unborn" => stage[Child] = "unborn")
         /\ \A u \in AllThreads : Reporting(u)' =>
              Reporting(u) /\ call'[u].new = call[u].new /\ call'[u].no = call[u].no
         /\ held' = held \/ (Reporting(t) /\ Return(t) /\ stage' = stage)
<1> USE DEF historyVars, processVars, threadVars
<1>1. CASE PreloadInit(t) BY <1>1 DEF PreloadInit, Goto, Reporting, TypeOK
<1>2. CASE AnnounceImage(t)
  <2>1. /\ calls' = calls /\ heap' = heap /\ held' = held /\ call' = call
        /\ pc' = [pc EXCEPT ![t] = "idle"] /\ stage' = [stage EXCEPT ![Proc(t)] = "ready"]
    BY <1>2 DEF AnnounceImage, Goto
  <2>2. stage'[Child] = "unborn" => stage[Child] = "unborn"
    BY <2>1, ProcOfThread DEF TypeOK, Procs
  <2> QED BY <2>1, <2>2 DEF Reporting, TypeOK
<1>3. CASE Mallopt(t)
  <2>1. stage'[Child] = "unborn" => stage[Child] = "unborn"
    BY <1>3, ProcOfThread DEF Mallopt, TypeOK, Procs
  <2> QED BY <1>3, <2>1 DEF Mallopt, Reporting
<1>4. CASE TestFlag(t) \/ ClearFlag(t) \/ SendReport(t)
  <2>1. Reporting(t) /\ calls' = calls /\ heap' = heap /\ stage' = stage
    BY <1>4 DEF TestFlag, ClearFlag, SendReport, At, Reporting
  <2>2. CASE Return(t) BY <2>1, <2>2, EndTellsNothing
  <2>3. CASE ~Return(t)
    <3>1. call' = call /\ held' = held /\ \E where \in {"set", "clear"} : Goto(t, where)
      BY <1>4, <2>3 DEF TestFlag, ClearFlag, SendReport
    <3> QED BY <2>1, <3>1 DEF Goto, Reporting, TypeOK
  <2> QED BY <2>2, <2>3
<1>5. CASE SetFlag(t) \/ LookUp(t) \/ Store(t) \/ Terminate(t) \/ AnnounceLibrary(t)
  <2>1. Reporting(t) /\ calls' = calls /\ heap' = heap /\ held' = held /\ stage' = stage
        /\ call' = call
    BY <1>5 DEF SetFlag, LookUp, Store, Terminate, AnnounceLibrary, At, Reporting
  <2>2. \E where \in {"send", "look", "store", "terminate", "announce"} : Goto(t, where)
    BY <1>5 DEF SetFlag, LookUp, Store, Terminate, AnnounceLibrary
  <2> QED BY <2>1, <2>2 DEF Goto, Reporting, TypeOK
<1> QED BY <1>1, <1>2, <1>3, <1>4, <1>5 DEF Step

LEMMA MemoryStep == TypeOK /\ MemoryInv /\ [Next]_vars => MemoryInv'
<1> SUFFICES ASSUME TypeOK, MemoryInv, [Next]_vars PROVE MemoryInv' OBVIOUS
<1>1. ASSUME NEW t \in AllThreads, Step(t) \/ PreloadInit(t) \/ Mallopt(t) PROVE MemoryInv'
  BY <1>1, CallsKept, MemoryKept, MemoryReturned
<1>2. CASE UNCHANGED vars BY <1>2, MemoryKept DEF vars, processVars, threadVars, Reporting
<1> QED BY <1>1, <1>2, MemoryTaken, MemoryForked DEF Next, Enter

(* A call that begins uses memory whose wrappers are over.                  *)
LEMMA DoneStep ==
  TypeOK /\ TypeOK' /\ ReportInv /\ MemoryInv /\ DoneBeforeUse /\ [Next]_vars => DoneBeforeUse'
<1> SUFFICES ASSUME TypeOK, TypeOK', ReportInv, MemoryInv, DoneBeforeUse, [Next]_vars
             PROVE  DoneBeforeUse'
  OBVIOUS
<1>1. ASSUME calls' = calls,
             \A u \in AllThreads : Reporting(u)' => Reporting(u) /\ call'[u].no = call[u].no
      PROVE  DoneBeforeUse'
  BY <1>1 DEF DoneBeforeUse, ThreadsOf
<1>2. ASSUME NEW t \in AllThreads, NEW c \in CallRecords, c.no = Len(calls[Proc(t)]) + 1,
             c.old = Null \/ c.old \in held[Proc(t)],
             calls' = [calls EXCEPT ![Proc(t)] = Append(calls[Proc(t)],
                         [kind |-> c.kind, old |-> c.old, new |-> c.new])],
             call' = [call EXCEPT ![t] = c],
             \A u \in AllThreads : u # t => pc'[u] = pc[u]
      PROVE  DoneBeforeUse'
  <2> DEFINE p == Proc(t)
             e == [kind |-> c.kind, old |-> c.old, new |-> c.new]
  <2>0. p \in Procs BY ProcOfThread
  <2>1. /\ calls[p] \in Seq([kind : CallKinds, old : Pointers, new : Pointers])
        /\ e \in [kind : CallKinds, old : Pointers, new : Pointers]
        /\ calls'[p] = Append(calls[p], e) /\ e.old = c.old
    BY <1>2, <2>0 DEF TypeOK, CallRecords
  <2>2. \A q \in Procs : q # p => calls'[q] = calls[q] BY <1>2 DEF TypeOK
  <2> HIDE DEF e, p
  <2>3. /\ Len(calls[p]) \in Nat /\ Len(calls'[p]) = Len(calls[p]) + 1
        /\ calls'[p][Len(calls[p]) + 1] = e
        /\ \A n \in 1..Len(calls[p]) : calls'[p][n] = calls[p][n]
    BY <2>1
  <2>4. /\ call'[t] = c
        /\ \A u \in AllThreads : u # t => call'[u] = call[u] /\ (Reporting(u)' <=> Reporting(u))
    BY <1>2 DEF TypeOK, Reporting
  <2>5. Null \notin held[p] BY <2>0 DEF TypeOK
  <2> SUFFICES ASSUME NEW q \in Procs, NEW n \in 1..Len(calls'[q]), NEW k \in 1..n-1,
                      calls'[q][n].old # Null, calls'[q][k].new = calls'[q][n].old,
                      NEW u \in ThreadsOf(q), Reporting(u)'
               PROVE  call'[u].no # k
    BY DEF DoneBeforeUse, ThreadsOf
  <2>6. u \in AllThreads /\ Proc(u) = q BY DEF ThreadsOf
  <2>7. CASE q # p
    <3>1. u # t BY <2>6, <2>7 DEF p
    <3>2. calls'[q] = calls[q] BY <2>2, <2>7
    <3> QED BY <2>4, <2>6, <3>1, <3>2 DEF DoneBeforeUse
  <2>8. CASE q = p /\ u = t
    <3>1. call'[u].no = Len(calls[p]) + 1 BY <1>2, <2>4, <2>8 DEF p
    <3>2. n \in 1..Len(calls[p]) + 1 BY <2>3, <2>8
    <3> QED BY <2>3, <3>1, <3>2
  <2>9. CASE q = p /\ u # t /\ n \in 1..Len(calls[p])
    <3>1. k \in 1..Len(calls[p]) BY <2>3, <2>9
    <3>2. calls'[p][n] = calls[p][n] /\ calls'[p][k] = calls[p][k] BY <2>3, <2>9, <3>1
    <3> QED BY <2>4, <2>6, <2>9, <3>2 DEF DoneBeforeUse
  <2>10. CASE q = p /\ u # t /\ n = Len(calls[p]) + 1
    <3> SUFFICES ASSUME call[u].no = k PROVE FALSE
      BY <2>4, <2>6, <2>10
    <3>1. k \in 1..Len(calls[p]) /\ calls'[p][k] = calls[p][k] BY <2>3, <2>10
    <3>2. calls[p][k].new = c.old /\ c.old # Null BY <2>1, <2>3, <2>10, <3>1
    <3>3. Reporting(u) BY <2>4, <2>6, <2>10
    <3>4. call[u].new = calls[p][k].new
      <4>1. Happened(Proc(u), call[u]) BY <2>6, <3>3 DEF ReportInv, CallsHappened
      <4>2. calls[p][k] = [kind |-> call[u].kind, old |-> call[u].old, new |-> call[u].new]
        BY <2>6, <2>10, <4>1 DEF Happened
      <4> QED BY <4>2
    <3>5. call[u].new \notin held[p]
      BY <2>6, <2>10, <3>2, <3>3, <3>4 DEF MemoryInv, GotIsKept, Got
    <3> QED BY <1>2, <3>2, <3>4, <3>5 DEF p
  <2> QED BY <2>3, <2>7, <2>8, <2>9, <2>10
<1>3. ASSUME NEW t \in AllThreads, Step(t) \/ PreloadInit(t) \/ Mallopt(t) PROVE DoneBeforeUse'
  BY <1>1, <1>3, CallsKept
<1>4. CASE UNCHANGED vars BY <1>1, <1>4 DEF vars, threadVars, historyVars, Reporting
<1>5. ASSUME NEW t \in AllThreads, Call(t) PROVE DoneBeforeUse'
  <2>1. PICK c \in CallRecords :
          /\ Begin(t, c) /\ c.no = Len(calls[Proc(t)]) + 1
          /\ c.old = Null \/ c.old \in held[Proc(t)]
    BY <1>5, CallBegins
  <2>2. \A u \in AllThreads : u # t => pc'[u] = pc[u] BY <2>1 DEF Begin, Goto, TypeOK
  <2> QED BY <1>2, <2>1, <2>2 DEF Begin
<1>6. ASSUME NEW t \in AllThreads, Fork(t) PROVE DoneBeforeUse'
  <2> DEFINE c == [NoCall EXCEPT !.kind = "fork", !.no = Len(calls[Parent]) + 1]
  <2>1. Len(calls[Parent]) + 1 \in Nat BY DEF TypeOK, Procs
  <2>2. /\ c.no = Len(calls[Parent]) + 1 /\ c.kind = "fork" /\ c.old = Null /\ c.new = Null
    BY DEF NoCall
  <2>3. c \in CallRecords
    BY <2>1 DEF NoCall, CallRecords, CallKinds, Unguarded, Pointers, Callers
  <2>4. /\ Proc(t) = Parent /\ call' = [call EXCEPT ![t] = c]
        /\ calls' = [calls EXCEPT ![Parent] =
                       Append(calls[Parent], [kind |-> "fork", old |-> Null, new |-> Null])]
        /\ \A u \in AllThreads : u # t => pc'[u] = pc[u]
    BY <1>6 DEF Fork, Goto, TypeOK
  <2> HIDE DEF c
  <2> QED BY <1>2, <2>2, <2>3, <2>4
<1> QED BY <1>3, <1>4, <1>5, <1>6 DEF Next, Enter

(* A report behind the one of a free is of a later call or of other memory. *)
LEMMA FreedStep ==
  TypeOK /\ TypeOK' /\ ReportInv /\ DoneBeforeUse /\ AllocatedBeforeFreed /\ [Next]_vars
    => AllocatedBeforeFreed'
<1> SUFFICES ASSUME TypeOK, TypeOK', ReportInv, DoneBeforeUse, AllocatedBeforeFreed, [Next]_vars
             PROVE  AllocatedBeforeFreed'
  OBVIOUS
<1>0. recording \in Seq(Messages) /\ Len(recording) \in Nat BY DEF TypeOK
<1>1. \A p \in Procs : \A n \in 1..Len(calls[p]) : calls'[p][n] = calls[p][n]
  <2>1. ASSUME NEW t \in AllThreads, Step(t) \/ PreloadInit(t) \/ Mallopt(t) PROVE calls' = calls
    BY <2>1, CallsKept
  <2>2. ASSUME NEW q \in Procs, NEW e \in [kind : CallKinds, old : Pointers, new : Pointers],
               calls' = [calls EXCEPT ![q] = Append(calls[q], e)]
        PROVE  \A p \in Procs : \A n \in 1..Len(calls[p]) : calls'[p][n] = calls[p][n]
    BY <2>2 DEF TypeOK
  <2>3. ASSUME NEW t \in AllThreads, Call(t)
        PROVE  \A p \in Procs : \A n \in 1..Len(calls[p]) : calls'[p][n] = calls[p][n]
    <3>1. PICK c \in CallRecords : Begin(t, c) BY <2>3, CallBegins
    <3>2. /\ [kind |-> c.kind, old |-> c.old, new |-> c.new]
               \in [kind : CallKinds, old : Pointers, new : Pointers]
          /\ calls' = [calls EXCEPT ![Proc(t)] = Append(calls[Proc(t)],
                         [kind |-> c.kind, old |-> c.old, new |-> c.new])]
      BY <3>1 DEF Begin, CallRecords
    <3> QED BY <2>2, <3>2, ProcOfThread
  <2>4. ASSUME NEW t \in AllThreads, Fork(t)
        PROVE  \A p \in Procs : \A n \in 1..Len(calls[p]) : calls'[p][n] = calls[p][n]
    <3>1. /\ [kind |-> "fork", old |-> Null, new |-> Null]
               \in [kind : CallKinds, old : Pointers, new : Pointers]
          /\ Parent \in Procs
      BY DEF CallKinds, Unguarded, Pointers, Procs
    <3>2. calls' = [calls EXCEPT ![Parent] =
                      Append(calls[Parent], [kind |-> "fork", old |-> Null, new |-> Null])]
      BY <2>4 DEF Fork
    <3> QED BY <2>2, <3>1, <3>2
  <2> QED BY <2>1, <2>3, <2>4 DEF Next, Enter, vars, historyVars
<1>2. \/ recording' = recording
      \/ \E m \in Messages : m.word \notin CallWords /\ recording' = Append(recording, m)
      \/ /\ calls' = calls
         /\ \E t \in AllThreads : Reporting(t) /\ recording' = Append(recording, Report(t))
  <2>1. ASSUME NEW t \in AllThreads, SendReport(t)
        PROVE  recording' = recording
               \/ (calls' = calls /\ Reporting(t) /\ recording' = Append(recording, Report(t)))
    BY <2>1 DEF SendReport, Send, At, Reporting
  <2>2. ASSUME NEW t \in AllThreads, AnnounceImage(t) \/ AnnounceLibrary(t)
        PROVE  \/ recording' = recording
               \/ \E m \in Messages : m.word \notin CallWords /\ recording' = Append(recording, m)
    <3>1. call[t].lib \in Callers /\ NoLib \in Callers
      <4>1. call[t] \in CallRecords BY DEF TypeOK
      <4> QED BY <4>1 DEF CallRecords, Callers
    <3> QED BY <2>2, <3>1, ProcOfThread, AnnouncementsTellNothing
            DEF AnnounceImage, AnnounceLibrary
  <2>3. ASSUME NEW t \in AllThreads,
               \/ PreloadInit(t) \/ Call(t) \/ Mallopt(t) \/ Fork(t) \/ TestFlag(t)
               \/ SetFlag(t) \/ LookUp(t) \/ Store(t) \/ Terminate(t) \/ ClearFlag(t)
        PROVE  recording' = recording
    BY <2>3 DEF PreloadInit, Call, Mallopt, Fork, TestFlag, SetFlag, LookUp, Store, Terminate,
                ClearFlag
  <2> QED BY <2>1, <2>2, <2>3 DEF Next, Enter, Step, vars
<1> SUFFICES ASSUME NEW i \in 1..Len(recording'), NEW j \in 1..Len(recording'), i < j,
                    recording'[i].pid = recording'[j].pid, recording'[j].word \in CallWords,
                    recording'[i].word \in {"FREE", "REALLOC"}, recording'[i].old # Null,
                    recording'[j].no < recording'[i].no
             PROVE  calls'[recording'[i].pid][recording'[j].no].new # recording'[i].old
  BY DEF AllocatedBeforeFreed
<1>3. /\ i \in 1..Len(recording) /\ recording'[i] = recording[i]
      /\ j \in 1..Len(recording) => recording'[j] = recording[j]
  BY <1>0, <1>2, ReportIsMessage
<1>4. CASE j \in 1..Len(recording)
  <2>1. recording[j].no \in 1..Len(calls[recording[j].pid]) /\ recording[j].pid \in Procs
    <3>1. recording[j] \in Messages BY <1>0, <1>4
    <3>2. recording[j].word \in CallWords BY <1>3, <1>4
    <3>3. TrueAt(recording, calls, j) BY <1>4, <3>2, TrueReportsAre DEF ReportInv
    <3> QED BY <3>1, <3>3 DEF TrueAt, Messages
  <2>2. calls[recording[i].pid][recording[j].no].new # recording[i].old
    BY <1>3, <1>4 DEF AllocatedBeforeFreed
  <2>3. calls'[recording[i].pid][recording[j].no] = calls[recording[i].pid][recording[j].no]
    BY <1>1, <1>3, <1>4, <2>1
  <2> QED BY <1>3, <1>4, <2>2, <2>3
<1>5. CASE j \notin 1..Len(recording)
  <2>1. PICK t \in AllThreads :
          calls' = calls /\ Reporting(t) /\ recording' = Append(recording, Report(t))
    <3>1. recording' # recording BY <1>5
    <3>2. ASSUME NEW m \in Messages, m.word \notin CallWords, recording' = Append(recording, m)
          PROVE  FALSE
      <4>1. recording'[j] = m BY <1>0, <1>5, <3>2
      <4> QED BY <3>2, <4>1
    <3> QED BY <1>2, <3>1, <3>2
  <2>2. recording'[j] = Report(t)
    <3>1. Report(t) \in Messages BY ReportIsMessage
    <3> QED BY <1>0, <1>5, <2>1, <3>1
  <2>3. recording'[j].pid = Proc(t) /\ recording'[j].no = call[t].no BY <2>2 DEF Report
  <2>4. /\ recording[i].no \in 1..Len(calls[Proc(t)])
        /\ recording[i].old = calls[Proc(t)][recording[i].no].old
    <3>1. recording[i].word \in CallWords /\ recording[i].pid = Proc(t)
      BY <1>3, <2>3 DEF CallWords
    <3>2. TrueAt(recording, calls, i) BY <1>3, <3>1, TrueReportsAre DEF ReportInv
    <3> QED BY <3>1, <3>2 DEF TrueAt
  <2>5. call[t].no \in 1..Len(calls[Proc(t)])
    BY <2>1 DEF ReportInv, CallsHappened, Happened
  <2>6. Proc(t) \in Procs /\ t \in ThreadsOf(Proc(t)) BY ProcOfThread
  <2>7. Len(calls[Proc(t)]) \in Nat BY <2>6 DEF TypeOK
  <2>8. call[t].no \in 1..recording[i].no - 1 BY <1>3, <2>3, <2>4, <2>5, <2>7
  <2>9. recording[i].old # Null /\ recording[i].pid = Proc(t) BY <1>3, <2>3
  <2>10. calls[Proc(t)][call[t].no].new # calls[Proc(t)][recording[i].no].old
    BY <2>1, <2>4, <2>6, <2>8, <2>9 DEF DoneBeforeUse
  <2> QED BY <1>3, <2>1, <2>3, <2>4, <2>9, <2>10
<1> QED BY <1>4, <1>5

(* A wrapper reports before it returns, and until then nobody has what it   *)
(* got: no allocation is reported behind its own free or realloc, whoever   *)
(* makes that.                                                              *)
THEOREM FreedAfterAllocated == Spec => []AllocatedBeforeFreed
<1> DEFINE Inv == ReportInv /\ MemoryInv /\ DoneBeforeUse /\ AllocatedBeforeFreed
<1>1. Init => Inv
  <2>1. Init => ReportInv
    BY DEF Init, ReportInv, CallsHappened, OwnCalls, NotYetTold, TrueReports, Reporting, ToTell
  <2>2. Init => MemoryInv
    BY DEF Init, MemoryInv, HeldInHeap, GotIsKept, GotOnce, UnbornIdle, Got, Reporting, AllThreads
  <2>3. Init => DoneBeforeUse /\ AllocatedBeforeFreed
    BY DEF Init, DoneBeforeUse, AllocatedBeforeFreed
  <2> QED BY <2>1, <2>2, <2>3
<1>2. TypeOK /\ TypeOK' /\ Inv /\ [Next]_vars => Inv'
  BY ReportStep, MemoryStep, DoneStep, FreedStep
<1> QED BY <1>1, <1>2, TypeCorrect, PTL DEF Spec
=============================================================================
