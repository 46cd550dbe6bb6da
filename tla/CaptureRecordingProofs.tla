---------------------- MODULE CaptureRecordingProofs ----------------------
(***************************************************************************)
(* Theorems about Capture that follow the recording as a whole, for any    *)
(* number of threads, addresses, libraries and places of dyn_libs: where   *)
(* threads do not meet, a process is recorded completely and in order,     *)
(* announces each library once, and does so before it reports a call from  *)
(* it.                                                                     *)
(***************************************************************************)
EXTENDS CaptureProofs

USE NamesAssumption, SizesAssumption

(* A message put on the queue joins the end of the recording.               *)
LEMMA Appended ==
  ASSUME TypeOK, NEW m \in Messages, recording' = Append(recording, m)
  PROVE  /\ Len(recording) \in Nat /\ Len(recording') = Len(recording) + 1
         /\ recording'[Len(recording) + 1] = m
         /\ \A i \in 1..Len(recording) : recording'[i] = recording[i]
<1>1. recording \in Seq(Messages)
  BY DEF TypeOK
<1> QED BY <1>1

(* A step of a thread moves no other thread.                                *)
LEMMA OthersStay ==
  ASSUME TypeOK, NEW t \in AllThreads, Enter(t) \/ Step(t), NEW u \in AllThreads, u # t
  PROVE  pc'[u] = pc[u] /\ call'[u] = call[u] /\ slot'[u] = slot[u]
<1>1. CASE Call(t)
  <2>1. PICK c \in CallRecords : Begin(t, c)
    BY <1>1, CallBegins
  <2> QED BY <1>1, <2>1 DEF Call, Begin, Goto, TypeOK
<1>2. CASE Fork(t) \/ PreloadInit(t) \/ AnnounceImage(t) \/ Mallopt(t)
  BY <1>2 DEF Fork, PreloadInit, AnnounceImage, Mallopt, Goto, TypeOK, threadVars
<1>3. CASE TestFlag(t) \/ ClearFlag(t) \/ SendReport(t)
  BY <1>3, ReturnTypes DEF TestFlag, ClearFlag, SendReport, Goto, TypeOK
<1>4. CASE SetFlag(t) \/ LookUp(t) \/ Store(t) \/ Terminate(t) \/ AnnounceLibrary(t)
  BY <1>4 DEF SetFlag, LookUp, Store, Terminate, AnnounceLibrary, Goto, TypeOK
<1> QED BY <1>1, <1>2, <1>3, <1>4 DEF Enter, Step

(* It records at most one message, of its own process.                      *)
LEMMA RecordsOwn ==
  ASSUME TypeOK, NEW t \in AllThreads, Enter(t) \/ Step(t), recording' # recording
  PROVE  \E m \in Messages :
           /\ m.pid = Proc(t) /\ recording' = Append(recording, m)
           /\ \/ m.word = "NEWEXEC" /\ m.lib = NoLib
              \/ AnnounceLibrary(t) /\ m.word = "EXTERNAL" /\ m.lib = call[t].lib
              \/ SendReport(t) /\ m = Report(t)
<1>1. Proc(t) \in Procs /\ call[t] \in CallRecords
  BY ProcOfThread DEF TypeOK
<1>2. call[t].lib \in Callers /\ NoLib \in Callers
  BY <1>1 DEF CallRecords, Callers
<1>3. CASE AnnounceImage(t)
  <2> DEFINE m == Announcement("NEWEXEC", Proc(t), NoLib)
  <2>1. m \in Messages /\ m.pid = Proc(t) /\ m.word = "NEWEXEC" /\ m.lib = NoLib
    BY <1>1, <1>2, AnnouncementIsMessage DEF Announcement
  <2>2. recording' = Append(recording, m)
    BY <1>3 DEF AnnounceImage, Send
  <2> QED BY <2>1, <2>2
<1>4. CASE AnnounceLibrary(t)
  <2> DEFINE m == Announcement("EXTERNAL", Proc(t), call[t].lib)
  <2>1. m \in Messages /\ m.pid = Proc(t) /\ m.word = "EXTERNAL" /\ m.lib = call[t].lib
    BY <1>1, <1>2, AnnouncementIsMessage DEF Announcement
  <2>2. recording' = Append(recording, m)
    BY <1>4 DEF AnnounceLibrary, Send
  <2> QED BY <1>4, <2>1, <2>2
<1>5. CASE SendReport(t)
  <2>1. Report(t) \in Messages /\ Report(t).pid = Proc(t)
    BY ReportIsMessage DEF Report
  <2>2. recording' = Append(recording, Report(t))
    BY <1>5 DEF SendReport, Send
  <2> QED BY <1>5, <2>1, <2>2
<1> QED
  BY <1>3, <1>4, <1>5 DEF Enter, Step, PreloadInit, Call, Mallopt, Fork, TestFlag, SetFlag,
    LookUp, Store, Terminate, ClearFlag

(* Only a live process acts.                                                *)
LEMMA ActsAlive ==
  ASSUME NEW t \in AllThreads, Enter(t) \/ Step(t)
  PROVE  stage[Proc(t)] \in {"fresh", "ready"}
BY DEF Enter, Step, PreloadInit, AnnounceImage, Call, Mallopt, Fork, TestFlag, SetFlag,
       LookUp, Store, Terminate, AnnounceLibrary, SendReport, ClearFlag, At

(* What a process has, its threads apart, changes by its own threads and by *)
(* the fork that makes it.                                                  *)
LEMMA OthersKeep ==
  ASSUME TypeOK, NEW t \in AllThreads, Enter(t) \/ Step(t),
         NEW q \in Procs, q # Proc(t), ~Fork(t)
  PROVE  /\ stage'[q] = stage[q] /\ calls'[q] = calls[q]
         /\ dyn'[q] = dyn[q] /\ trouble'[q] = trouble[q]
<1> USE DEF TypeOK, processVars, historyVars
<1>1. CASE Call(t)
  <2>1. PICK c \in CallRecords : Begin(t, c)
    BY <1>1, CallBegins
  <2> QED BY <1>1, <2>1 DEF Call, Begin, Notice
<1>2. CASE PreloadInit(t) \/ Mallopt(t) \/ TestFlag(t) \/ SetFlag(t) \/ ClearFlag(t)
  BY <1>2 DEF PreloadInit, Mallopt, TestFlag, SetFlag, ClearFlag
<1>3. CASE LookUp(t) \/ Store(t) \/ Terminate(t)
  BY <1>3 DEF LookUp, Store, Terminate, Notice
<1>4. CASE AnnounceImage(t) \/ AnnounceLibrary(t) \/ SendReport(t)
  BY <1>4 DEF AnnounceImage, AnnounceLibrary, SendReport, Send, Notice, Announcement, Report
<1> QED BY <1>1, <1>2, <1>3, <1>4 DEF Enter, Step

(* What happens to a process is remembered as long as it exists.            *)
LEMMA TroubleRemembered ==
  ASSUME TypeOK, [Next]_vars, NEW p \in Procs, p = Parent \/ stage[p] # "unborn"
  PROVE  trouble[p] \subseteq trouble'[p]
<1>1. CASE UNCHANGED vars
  BY <1>1 DEF vars, historyVars
<1>2. ASSUME NEW t \in AllThreads, Fork(t)
      PROVE  trouble[p] \subseteq trouble'[p]
  <2>1. p = Parent
    BY <1>2 DEF Fork, Procs
  <2> QED BY <1>2, <2>1 DEF Fork, TypeOK, Procs
<1>3. ASSUME NEW t \in AllThreads, Enter(t) \/ Step(t), ~Fork(t)
      PROVE  trouble[p] \subseteq trouble'[p]
  <2>1. PICK w : trouble' = trouble \/ Notice(Proc(t), w)
    BY <1>3 DEF Enter, Step, PreloadInit, Call, Mallopt, AnnounceImage, TestFlag, SetFlag, LookUp,
      Store, Terminate, AnnounceLibrary, SendReport, ClearFlag, Send, Announcement, Report,
      historyVars
  <2> QED BY <2>1, ProcOfThread, TroubleGrows
<1> QED BY <1>1, <1>2, <1>3 DEF Next
-----------------------------------------------------------------------------
(* Beginnings: a fresh process has recorded nothing and has no child; an    *)
(* unborn child has made no call; only the first thread announces the image.*)
Origin ==
  /\ stage[Child] # "fresh" /\ stage[Parent] # "unborn"
  /\ stage[Parent] = "fresh" => /\ recording = <<>> /\ stage[Child] = "unborn"
                                /\ \A t \in AllThreads : ~Reporting(t)
  /\ stage[Child] = "unborn" => /\ calls[Child] = <<>> /\ pc[ChildThread] = "idle"
                                /\ \A i \in 1..Len(recording) : recording[i].pid = Parent
  /\ \A t \in AllThreads : pc[t] = "init" => stage[Proc(t)] = "fresh"
  /\ \A t, u \in AllThreads : pc[t] = "init" /\ pc[u] = "init" => t = u

(* A process whose first thread is in preload_init does nothing else.       *)
LEMMA WhileFresh ==
  ASSUME TypeOK, Origin, NEW t \in AllThreads, Enter(t) \/ Step(t), stage[Parent] = "fresh"
  PROVE  PreloadInit(t) \/ AnnounceImage(t)
<1>1. Proc(t) = Parent
  BY ActsAlive DEF Origin, Proc
<1>2. ~Reporting(t)
  BY DEF Origin
<1> QED BY <1>1, <1>2 DEF Enter, Step, Call, Mallopt, Fork, TestFlag, SetFlag, LookUp, Store,
          Terminate, AnnounceLibrary, SendReport, ClearFlag, At, Reporting

(* How a process goes through its stages.                                   *)
LEMMA Stages ==
  ASSUME TypeOK, Origin, NEW t \in AllThreads, Enter(t) \/ Step(t)
  PROVE  \/ stage' = stage
         \/ pc[t] = "init" /\ stage' = [stage EXCEPT ![Proc(t)] = "ready"]
         \/ stage[Proc(t)] = "ready" /\ stage' = [stage EXCEPT ![Proc(t)] = "dead"]
         \/ /\ Fork(t) /\ stage[Child] = "unborn" /\ stage[Parent] = "ready"
            /\ stage' = [stage EXCEPT ![Child] = "ready"]
BY DEF Enter, Step, PreloadInit, AnnounceImage, Call, Mallopt, Fork, TestFlag, SetFlag,
       LookUp, Store, Terminate, AnnounceLibrary, SendReport, ClearFlag, At, processVars

LEMMA OriginStep == TypeOK /\ Origin /\ [Next]_vars => Origin'
<1> SUFFICES ASSUME TypeOK, Origin, [Next]_vars PROVE Origin'
  OBVIOUS
<1>1. CASE UNCHANGED vars
  BY <1>1 DEF Origin, Reporting, vars, processVars, threadVars, historyVars
<1>2. ASSUME NEW t \in AllThreads, Enter(t) \/ Step(t)
      PROVE  Origin'
  <2> USE <1>2
  <2>0. Parent \in Procs /\ Child \in Procs /\ Proc(t) \in Procs /\ ChildThread \in AllThreads
    BY ProcOfThread DEF Procs, AllThreads
  <2>1. stage[Proc(t)] \in {"fresh", "ready"}
    BY ActsAlive
  <2>2. \A u \in AllThreads : u # t => pc'[u] = pc[u]
    BY OthersStay
  <2>3. stage'[Child] # "fresh" /\ stage'[Parent] # "unborn"
    BY <2>0, Stages DEF Origin, TypeOK
  <2>4. ASSUME stage'[Parent] = "fresh"
        PROVE  recording' = <<>> /\ stage'[Child] = "unborn" /\ \A u \in AllThreads : ~Reporting(u)'
    <3>1. stage[Parent] = "fresh"
      BY <2>0, <2>4, Stages DEF TypeOK
    <3>2. Proc(t) = Parent
      BY <2>1, <3>1 DEF Origin, Proc
    <3>3. PreloadInit(t)
      <4>1. PreloadInit(t) \/ AnnounceImage(t)
        BY <3>1, WhileFresh
      <4>2. AnnounceImage(t) => stage'[Parent] = "ready"
        BY <2>0, <3>2 DEF AnnounceImage, TypeOK
      <4> QED BY <2>4, <4>1, <4>2
    <3>4. pc'[t] = "init" /\ recording' = recording /\ stage' = stage
      BY <3>3 DEF PreloadInit, Goto, TypeOK
    <3> QED BY <2>2, <3>1, <3>4 DEF Origin, Reporting
  <2>5. ASSUME stage'[Child] = "unborn"
        PROVE  /\ calls'[Child] = <<>> /\ pc'[ChildThread] = "idle"
               /\ \A i \in 1..Len(recording') : recording'[i].pid = Parent
    <3>1. stage[Child] = "unborn" /\ ~Fork(t)
      BY <2>0, <2>5, Stages DEF TypeOK, Fork
    <3>2. Proc(t) = Parent /\ t # ChildThread
      BY <2>1, <3>1 DEF Proc
    <3>3. calls'[Child] = <<>> /\ pc'[ChildThread] = "idle"
      BY <2>0, <2>2, <3>1, <3>2, OthersKeep DEF Origin
    <3>4. \A i \in 1..Len(recording) : recording[i].pid = Parent
      BY <3>1 DEF Origin
    <3>5. CASE recording' # recording
      <4>1. PICK m \in Messages : m.pid = Parent /\ recording' = Append(recording, m)
        BY <3>2, <3>5, RecordsOwn
      <4>2. \A i \in 1..Len(recording') : i \in 1..Len(recording) \/ i = Len(recording) + 1
        BY <4>1, Appended
      <4> QED BY <3>3, <3>4, <4>1, <4>2, Appended
    <3> QED BY <3>3, <3>4, <3>5
  <2>6. ASSUME NEW u \in AllThreads, pc'[u] = "init"
        PROVE  /\ stage'[Proc(u)] = "fresh"
               /\ \A v \in AllThreads : pc'[v] = "init" => v = u
    <3>1. CASE PreloadInit(t)
      <4>1. Proc(t) = Parent /\ stage[Parent] = "fresh" /\ stage' = stage
        BY <3>1 DEF PreloadInit, Origin, Proc
      <4>2. \A v \in AllThreads : v \in ThreadsOf(Parent) => pc[v] = "idle"
        BY <3>1, <4>1 DEF PreloadInit
      <4>3. \A v \in AllThreads : pc[v] = "init" => v \in ThreadsOf(Parent)
        BY <4>1 DEF Origin, ThreadsOf, Proc
      <4>4. \A v \in AllThreads : pc'[v] = "init" => v = t
        BY <2>2, <4>2, <4>3
      <4> QED BY <2>6, <4>1, <4>4
    <3>2. CASE ~PreloadInit(t)
      <4>1. pc'[t] # "init" \/ (pc[t] = "init" /\ stage' = stage)
        <5>1. CASE Call(t)
          <6>1. PICK c \in CallRecords : Begin(t, c)
            BY <5>1, CallBegins
          <6> QED BY <6>1, BeginTypes
        <5>2. CASE TestFlag(t) \/ ClearFlag(t) \/ SendReport(t)
          BY <5>2, ReturnTypes DEF TestFlag, ClearFlag, SendReport, Goto, TypeOK
        <5>3. CASE AnnounceImage(t) \/ Mallopt(t) \/ Fork(t)
          BY <5>3 DEF AnnounceImage, Mallopt, Fork, At, Goto, TypeOK, threadVars
        <5>4. CASE SetFlag(t) \/ LookUp(t) \/ Store(t) \/ Terminate(t) \/ AnnounceLibrary(t)
          <6>1. \E where \in {"send", "look", "store", "terminate", "announce"} : Goto(t, where)
            BY <5>4 DEF SetFlag, LookUp, Store, Terminate, AnnounceLibrary
          <6> QED BY <6>1 DEF Goto, TypeOK
        <5> QED BY <3>2, <5>1, <5>2, <5>3, <5>4 DEF Enter, Step
      <4>2. \A v \in AllThreads : pc'[v] = "init" => pc[v] = "init"
        BY <2>2, <4>1
      <4>3. stage[Proc(u)] = "fresh" /\ \A v \in AllThreads : pc'[v] = "init" => v = u
        BY <2>6, <4>2 DEF Origin
      <4>4. stage'[Proc(u)] = "fresh"
        <5>1. CASE u = t
          BY <2>6, <4>1, <4>3, <5>1
        <5>2. CASE u # t
          <6>1. pc[t] # "init" /\ Proc(u) \in Procs
            BY <2>6, <4>2, <5>2, ProcOfThread DEF Origin
          <6> QED BY <4>3, <6>1, Stages DEF TypeOK, Origin, Fork
        <5> QED BY <5>1, <5>2
      <4> QED BY <4>3, <4>4
    <3> QED BY <3>1, <3>2
  <2> QED BY <2>3, <2>4, <2>5, <2>6 DEF Origin
<1> QED BY <1>1, <1>2 DEF Next

(* The image is announced before anything else is recorded.                 *)
ImageFirst ==
  stage[Parent] # "fresh" /\ "interrupted" \notin trouble[Parent] =>
    recording # <<>> /\ recording[1].word = "NEWEXEC"

LEMMA ImageFirstStep == TypeOK /\ Origin /\ ImageFirst /\ [Next]_vars => ImageFirst'
<1> SUFFICES ASSUME TypeOK, Origin, ImageFirst, [Next]_vars,
                    stage'[Parent] # "fresh", "interrupted" \notin trouble'[Parent]
             PROVE  recording' # <<>> /\ recording'[1].word = "NEWEXEC"
  BY DEF ImageFirst
<1>0. Parent \in Procs /\ recording \in Seq(Messages)
  BY DEF Procs, TypeOK
<1>1. "interrupted" \notin trouble[Parent]
  BY <1>0, TroubleRemembered
<1>2. CASE UNCHANGED vars
  BY <1>1, <1>2 DEF ImageFirst, vars, processVars
<1>3. ASSUME NEW t \in AllThreads, Enter(t) \/ Step(t)
      PROVE  recording' # <<>> /\ recording'[1].word = "NEWEXEC"
  <2>1. CASE stage[Parent] = "fresh"
    <3>1. AnnounceImage(t)
      <4>1. PreloadInit(t) => stage' = stage
        BY DEF PreloadInit
      <4> QED BY <1>3, <2>1, <4>1, WhileFresh
    <3>2. Proc(t) = Parent /\ recording = <<>>
      BY <1>3, <2>1, ActsAlive DEF Origin, Proc
    <3> DEFINE m == Announcement("NEWEXEC", Parent, NoLib)
    <3>3. m \in Messages /\ m.word = "NEWEXEC" /\ m.pid = Parent
      BY <1>0, AnnouncementIsMessage DEF Announcement, Callers
    <3>4. recording' = Append(recording, m) \/ Notice(Parent, {"interrupted"})
      BY <3>1, <3>2, <3>3 DEF AnnounceImage, Send
    <3> HIDE DEF m
    <3>5. recording' = Append(recording, m)
      BY <1>0, <3>4 DEF Notice, TypeOK
    <3>6. Len(recording) = 0 /\ recording' # <<>>
      BY <3>2, <3>5
    <3> QED BY <3>3, <3>5, <3>6, Appended
  <2>2. CASE stage[Parent] # "fresh"
    <3>1. recording # <<>> /\ recording[1].word = "NEWEXEC" /\ 1 \in 1..Len(recording)
      BY <1>0, <1>1, <2>2 DEF ImageFirst
    <3>2. CASE recording' # recording
      <4>1. PICK m \in Messages : recording' = Append(recording, m)
        BY <1>3, <3>2, RecordsOwn
      <4>2. recording'[1] = recording[1] /\ recording' # <<>>
        BY <1>0, <3>1, <4>1, Appended
      <4> QED BY <3>1, <4>2
    <3> QED BY <3>1, <3>2
  <2> QED BY <2>1, <2>2
<1> QED BY <1>2, <1>3 DEF Next
-----------------------------------------------------------------------------
(* As long as no two threads of a process have met in the library, at most  *)
(* one is there.                                                            *)
AloneIn(p) ==
  \A t, u \in ThreadsOf(p) : pc[t] # "idle" /\ pc[u] # "idle" => t = u

Alone == \A p \in Procs : "overlap" \notin trouble[p] => AloneIn(p)

(* A thread that enters the library finds nobody there, or has met somebody.*)
LEMMA EntersAlone ==
  ASSUME TypeOK, NEW t \in AllThreads, Enter(t) \/ Step(t), pc[t] = "idle", pc'[t] # "idle",
         "overlap" \notin trouble'[Proc(t)], NEW u \in ThreadsOf(Proc(t)), u # t
  PROVE  pc[u] = "idle"
<1>0. Proc(t) \in Procs
  BY ProcOfThread
<1>1. PreloadInit(t) \/ Call(t) \/ Fork(t)
  BY DEF Enter, Step, Mallopt, AnnounceImage, TestFlag, SetFlag, LookUp, Store, Terminate,
         AnnounceLibrary, SendReport, ClearFlag, At, threadVars
<1>2. CASE PreloadInit(t)
  BY <1>2 DEF PreloadInit
<1>3. CASE Call(t) \/ Fork(t)
  <2>0. trouble \in [Procs -> SUBSET {"overlap", "interrupted", "full", "deaf"}]
    BY DEF TypeOK
  <2>1. Meets(t) \subseteq trouble'[Proc(t)]
    <3>1. CASE Call(t)
      BY <1>0, <2>0, <3>1 DEF Call, Notice
    <3>2. CASE Fork(t)
      <4>1. /\ Proc(t) = Parent /\ Parent # Child /\ Parent \in Procs
            /\ trouble' = [trouble EXCEPT ![Parent] = trouble[Parent] \cup Meets(t),
                                          ![Child] = IF flag[Parent] THEN {"deaf"} ELSE {}]
        BY <3>2 DEF Fork, Procs
      <4> QED BY <2>0, <4>1
    <3> QED BY <1>3, <3>1, <3>2
  <2> QED BY <2>1 DEF Meets
<1> QED BY <1>1, <1>2, <1>3

LEMMA AloneStep == TypeOK /\ Alone /\ [Next]_vars => Alone'
<1> SUFFICES ASSUME TypeOK, Alone, [Next]_vars, NEW p \in Procs, "overlap" \notin trouble'[p]
             PROVE  AloneIn(p)'
  BY DEF Alone
<1>1. CASE p = Child
  BY <1>1 DEF AloneIn, ThreadsOf, AllThreads, Proc
<1>2. CASE p = Parent
  <2>1. AloneIn(p)
    BY <1>2, TroubleRemembered DEF Alone
  <2>2. ASSUME NEW t \in AllThreads, Enter(t) \/ Step(t)
        PROVE  AloneIn(p)'
    <3>1. \A u \in ThreadsOf(p) : u \in AllThreads /\ Proc(u) = p
      BY DEF ThreadsOf
    <3>2. \A u \in ThreadsOf(p) : u # t => pc'[u] = pc[u]
      BY <2>2, <3>1, OthersStay
    <3>3. CASE Proc(t) # p
      BY <2>1, <3>1, <3>2, <3>3 DEF AloneIn
    <3>4. CASE Proc(t) = p /\ (pc[t] # "idle" \/ pc'[t] = "idle")
      <4>1. t \in ThreadsOf(p)
        BY <3>4 DEF ThreadsOf
      <4> QED BY <2>1, <3>2, <3>4, <4>1 DEF AloneIn
    <3>5. CASE Proc(t) = p /\ pc[t] = "idle" /\ pc'[t] # "idle"
      <4>1. \A u \in ThreadsOf(p) : u # t => pc[u] = "idle"
        BY <2>2, <3>5, EntersAlone
      <4> QED BY <3>2, <4>1 DEF AloneIn
    <3> QED BY <3>3, <3>4, <3>5
  <2>3. CASE UNCHANGED vars
    BY <2>1, <2>3 DEF AloneIn, vars, threadVars
  <2> QED BY <2>2, <2>3 DEF Next
<1> QED BY <1>1, <1>2 DEF Procs

-----------------------------------------------------------------------------
(* Completeness. Every call of a process is reported or about to be, in the *)
(* order of the calls; what a thread is about to report is the last one.    *)
Clean(p) == trouble[p] \cap {"overlap", "interrupted", "deaf"} = {}

InOrder(p) == \A i, j \in Reports(p) : i < j => recording[i].no < recording[j].no

Reported(p, n) == \E i \in Reports(p) : recording[i].no = n

BeingTold(p, n) == \E t \in ThreadsOf(p) : ToTell(t) /\ call[t].no = n

AllTold(p) == \A n \in 1..Len(calls[p]) : Reported(p, n) \/ BeingTold(p, n)

LastOnly(p) == \A t \in ThreadsOf(p) : Reporting(t) => call[t].no = Len(calls[p])

ExactIn(p) == InOrder(p) /\ AllTold(p) /\ LastOnly(p)

Exact == \A p \in Procs : Clean(p) => ExactIn(p)

(* Whether message m is one of the reports of process p.                    *)
CountsFor(p, m) == m.pid = p /\ m.word \in CallWords /\ ~m.again

LEMMA ReportsGrow ==
  ASSUME TypeOK, NEW p, NEW m \in Messages, recording' = Append(recording, m)
  PROVE  /\ \A i : i \in Reports(p)' <=>
                     i \in Reports(p) \/ (i = Len(recording) + 1 /\ CountsFor(p, m))
         /\ \A i \in Reports(p) : i \in 1..Len(recording) /\ recording'[i] = recording[i]
         /\ recording'[Len(recording) + 1] = m /\ Len(recording) \in Nat
<1>1. /\ Len(recording) \in Nat /\ Len(recording') = Len(recording) + 1
      /\ recording'[Len(recording) + 1] = m
      /\ \A i \in 1..Len(recording) : recording'[i] = recording[i]
  BY Appended
<1>2. \A i : i \in 1..Len(recording') <=> i \in 1..Len(recording) \/ i = Len(recording) + 1
  BY <1>1
<1> QED BY <1>1, <1>2 DEF Reports, CountsFor

(* A step that makes no call of p and reports none keeps p exact.           *)
LEMMA ExactKept ==
  ASSUME TypeOK, NEW p, ExactIn(p), calls'[p] = calls[p],
         \/ recording' = recording
         \/ \E m \in Messages : ~CountsFor(p, m) /\ recording' = Append(recording, m),
         \A u \in ThreadsOf(p) : Reporting(u)' => Reporting(u) /\ call'[u].no = call[u].no,
         \A u \in ThreadsOf(p) : ToTell(u) => ToTell(u)'
  PROVE  ExactIn(p)'
<1>1. \A i : i \in Reports(p)' <=> i \in Reports(p)
  <2>1. CASE recording' = recording
    BY <2>1 DEF Reports
  <2> QED BY <2>1, ReportsGrow
<1>2. \A i \in Reports(p) : recording'[i] = recording[i]
  BY ReportsGrow
<1>3. InOrder(p)'
  BY <1>1, <1>2 DEF ExactIn, InOrder
<1>4. \A n : Reported(p, n) => Reported(p, n)'
  BY <1>1, <1>2 DEF Reported
<1>5. \A n : BeingTold(p, n) => BeingTold(p, n)'
  BY DEF BeingTold, ToTell
<1>6. AllTold(p)'
  BY <1>4, <1>5 DEF ExactIn, AllTold
<1>7. LastOnly(p)'
  BY DEF ExactIn, LastOnly
<1> QED BY <1>3, <1>6, <1>7 DEF ExactIn

(* The report of the last call comes behind all others.                     *)
LEMMA ExactReport ==
  ASSUME TypeOK, ReportInv, NEW t \in AllThreads, ExactIn(Proc(t)), AloneIn(Proc(t)),
         ToTell(t), calls' = calls, recording' = Append(recording, Report(t)),
         \A u \in ThreadsOf(Proc(t)) :
           Reporting(u)' => Reporting(u) /\ call'[u].no = call[u].no
  PROVE  ExactIn(Proc(t))'
<1> DEFINE p == Proc(t)
           m == Report(t)
           last == Len(calls[p])
<1>0. p \in Procs /\ t \in ThreadsOf(p) /\ last \in Nat
  BY ProcOfThread DEF TypeOK
<1>1. m.pid = p /\ m.no = call[t].no /\ ~m.again /\ m.word = Word(call[t].kind) /\ m \in Messages
  BY ReportIsMessage DEF Report, ToTell
<1>2. call[t].no = last
  BY <1>0 DEF ExactIn, LastOnly, ToTell
<1>3. call[t].kind \in CallKinds
  BY DEF TypeOK, CallRecords
<1>4. CountsFor(p, m)
  BY <1>1, <1>3, WordsOfCalls DEF CountsFor
<1>5. \A i \in Reports(p) : recording[i].no \in 1..last /\ recording[i].no # last
  <2> SUFFICES ASSUME NEW i \in Reports(p)
               PROVE  recording[i].no \in 1..last /\ recording[i].no # last
    OBVIOUS
  <2>1. i \in 1..Len(recording) /\ recording[i].pid = p /\ recording[i].word \in CallWords
    BY DEF Reports
  <2>2. TrueAt(recording, calls, i)
    BY <2>1, TrueReportsAre DEF ReportInv
  <2>3. Untold(p, last)
    BY <1>2 DEF ReportInv, NotYetTold
  <2> QED BY <2>1, <2>2, <2>3 DEF TrueAt, Untold
<1> HIDE DEF m, last
<1>6. /\ \A i : i \in Reports(p)' <=> i \in Reports(p) \/ i = Len(recording) + 1
      /\ \A i \in Reports(p) : i \in 1..Len(recording) /\ recording'[i] = recording[i]
      /\ recording'[Len(recording) + 1] = m /\ Len(recording) \in Nat
  BY <1>1, <1>4, ReportsGrow DEF m
<1>7. InOrder(p)'
  <2> SUFFICES ASSUME NEW i \in Reports(p)', NEW j \in Reports(p)', i < j
               PROVE  recording'[i].no < recording'[j].no
    BY DEF InOrder
  <2>1. i \in Reports(p) /\ recording'[i] = recording[i]
    BY <1>6
  <2>2. CASE j \in Reports(p)
    BY <1>6, <2>1, <2>2 DEF ExactIn, InOrder
  <2>3. CASE j = Len(recording) + 1
    BY <1>0, <1>1, <1>2, <1>5, <1>6, <2>1, <2>3
  <2> QED BY <1>6, <2>2, <2>3
<1>8. AllTold(p)'
  <2> SUFFICES ASSUME NEW n \in 1..Len(calls[p]) PROVE Reported(p, n)'
    BY DEF AllTold
  <2>1. CASE Reported(p, n)
    BY <1>6, <2>1 DEF Reported
  <2>2. CASE BeingTold(p, n)
    <3>1. call[t].no = n
      BY <1>0, <2>2 DEF BeingTold, AloneIn, ToTell, Reporting
    <3> QED BY <1>1, <1>6, <3>1 DEF Reported
  <2> QED BY <2>1, <2>2 DEF ExactIn, AllTold
<1>9. LastOnly(p)'
  BY DEF ExactIn, LastOnly
<1> QED BY <1>7, <1>8, <1>9 DEF ExactIn

(* A call begins when all earlier ones have been reported.                  *)
LEMMA ExactCall ==
  ASSUME TypeOK, NEW t \in AllThreads, ExactIn(Proc(t)),
         \A u \in ThreadsOf(Proc(t)) : pc[u] = "idle",
         \A u \in ThreadsOf(Proc(t)) : u # t => pc'[u] = pc[u],
         NEW e \in [kind : CallKinds, old : Pointers, new : Pointers],
         calls' = [calls EXCEPT ![Proc(t)] = Append(calls[Proc(t)], e)],
         recording' = recording, ToTell(t)', call'[t].no = Len(calls[Proc(t)]) + 1
  PROVE  ExactIn(Proc(t))'
<1> DEFINE p == Proc(t)
<1>0. p \in Procs /\ t \in ThreadsOf(p)
  BY ProcOfThread
<1>1. calls[p] \in Seq([kind : CallKinds, old : Pointers, new : Pointers])
  BY <1>0 DEF TypeOK
<1>2. Len(calls'[p]) = Len(calls[p]) + 1 /\ Len(calls[p]) \in Nat
  BY <1>0, <1>1 DEF TypeOK
<1>3. \A i : i \in Reports(p)' <=> i \in Reports(p)
  BY DEF Reports
<1>4. InOrder(p)'
  BY <1>3 DEF ExactIn, InOrder
<1>5. \A n : ~BeingTold(p, n)
  BY DEF BeingTold, ToTell, Reporting
<1>6. \A n \in 1..Len(calls[p]) : Reported(p, n)'
  BY <1>3, <1>5 DEF ExactIn, AllTold, Reported
<1>7. AllTold(p)'
  <2> SUFFICES ASSUME NEW n \in 1..Len(calls'[p]) PROVE (Reported(p, n) \/ BeingTold(p, n))'
    BY DEF AllTold
  <2>1. n \in 1..Len(calls[p]) \/ n = Len(calls[p]) + 1
    BY <1>2
  <2>2. CASE n = Len(calls[p]) + 1
    <3>1. \E u \in ThreadsOf(p) : ToTell(u)' /\ call'[u].no = n
      BY <1>0, <2>2
    <3> QED BY <3>1 DEF BeingTold
  <2> QED BY <1>6, <2>1, <2>2
<1>8. LastOnly(p)'
  BY <1>2 DEF LastOnly, Reporting
<1> QED BY <1>4, <1>7, <1>8 DEF ExactIn

(* Nobody is reported of an unborn child, nor of one just born.             *)
LEMMA NewbornExact ==
  ASSUME TypeOK, Origin, Origin', NEW t \in AllThreads, Enter(t) \/ Step(t),
         stage[Child] = "unborn"
  PROVE  ExactIn(Child)'
<1>0. Child \in Procs /\ ChildThread \in AllThreads
  BY DEF Procs, AllThreads
<1>1. /\ calls'[Child] = <<>> /\ pc'[ChildThread] = "idle"
      /\ \A i \in 1..Len(recording') : recording'[i].pid = Parent
  <2>1. CASE Fork(t)
    <3>1. /\ recording' = recording /\ pc' = [pc EXCEPT ![t] = "send"]
          /\ t # ChildThread /\ calls'[Child] = calls[Child]
      BY <1>0, <2>1 DEF Fork, Goto, Proc, TypeOK
    <3> QED BY <1>0, <3>1 DEF Origin, TypeOK
  <2>2. CASE ~Fork(t)
    <3>1. Proc(t) # Child
      BY ActsAlive
    <3>2. stage'[Child] = "unborn"
      BY <1>0, <2>2, <3>1, OthersKeep
    <3> QED BY <3>2 DEF Origin
  <2> QED BY <2>1, <2>2
<1>2. \A i : i \notin Reports(Child)'
  BY <1>1 DEF Reports
<1>3. \A u \in ThreadsOf(Child) : u = ChildThread
  BY DEF ThreadsOf, Proc
<1>4. InOrder(Child)' /\ AllTold(Child)' /\ LastOnly(Child)'
  BY <1>1, <1>2, <1>3 DEF InOrder, AllTold, LastOnly, Reporting
<1> QED BY <1>4 DEF ExactIn

(* The steps of the process itself.                                         *)
LEMMA ExactSelf ==
  ASSUME TypeOK, FlagHeld, ReportInv, NEW t \in AllThreads, Enter(t) \/ Step(t),
         AloneIn(Proc(t)), Clean(Proc(t)), Clean(Proc(t))', ExactIn(Proc(t))
  PROVE  ExactIn(Proc(t))'
<1> DEFINE p == Proc(t)
<1>0. p \in Procs /\ t \in ThreadsOf(p) /\ \A u \in ThreadsOf(p) : u \in AllThreads
  BY ProcOfThread DEF ThreadsOf
<1>1. \A u \in ThreadsOf(p) : u # t =>
        /\ pc'[u] = pc[u] /\ call'[u] = call[u]
        /\ (Reporting(u)' <=> Reporting(u)) /\ (ToTell(u)' <=> ToTell(u))
  BY <1>0, OthersStay DEF ToTell, Reporting
<1>2. ASSUME \/ recording' = recording
             \/ \E m \in Messages : ~CountsFor(p, m) /\ recording' = Append(recording, m),
             calls' = calls,
             Reporting(t)' => Reporting(t) /\ call'[t].no = call[t].no,
             ToTell(t) => ToTell(t)'
      PROVE  ExactIn(p)'
  BY <1>1, <1>2, ExactKept
<1>3. ASSUME \/ recording' = recording
             \/ \E m \in Messages : m.word \notin CallWords /\ recording' = Append(recording, m),
             calls' = calls, call' = call, Reporting(t), pc[t] # "clear",
             NEW where \in PCs \ {"idle", "init", "clear"}, Goto(t, where)
      PROVE  ExactIn(p)'
  <2>1. pc'[t] = where
    BY <1>3 DEF Goto, TypeOK
  <2> QED BY <1>2, <1>3, <2>1 DEF ToTell, Reporting, CountsFor
<1>4. ASSUME pc[t] = "idle", pc'[t] # "idle"
      PROVE  /\ \A u \in ThreadsOf(p) : pc[u] = "idle"
             /\ \A u \in ThreadsOf(p) : u # t => pc'[u] = pc[u]
  BY <1>1, <1>4, EntersAlone DEF Clean
<1>5. CASE Call(t)
  <2>1. PICK c \in CallRecords : Begin(t, c) /\ c.no = Len(calls[p]) + 1 /\ ~c.again
    BY <1>5, CallBegins
  <2> DEFINE e == [kind |-> c.kind, old |-> c.old, new |-> c.new]
  <2>2. /\ pc[t] = "idle" /\ pc'[t] \in {"test", "send", "look"} /\ call'[t] = c
        /\ recording' = recording /\ calls' = [calls EXCEPT ![p] = Append(calls[p], e)]
    <3>1. pc[t] = "idle" /\ recording' = recording
      BY <1>5 DEF Call, At
    <3>2. pc'[t] \in {"test", "send", "look"}
      BY <2>1, BeginTypes
    <3> QED BY <2>1, <3>1, <3>2 DEF Begin, TypeOK
  <2>3. e \in [kind : CallKinds, old : Pointers, new : Pointers]
    BY DEF CallRecords
  <2>4. ToTell(t)'
    BY <2>1, <2>2 DEF ToTell, Reporting
  <2> HIDE DEF e
  <2> QED BY <1>4, <2>1, <2>2, <2>3, <2>4, ExactCall
<1>6. CASE Fork(t)
  <2> DEFINE e == [kind |-> "fork", old |-> Null, new |-> Null]
             c == [NoCall EXCEPT !.kind = "fork", !.no = Len(calls[Parent]) + 1]
  <2>1. c.no = Len(calls[Parent]) + 1 /\ ~c.again
    BY DEF NoCall
  <2>2. /\ pc[t] = "idle" /\ pc'[t] = "send" /\ call'[t] = c /\ p = Parent
        /\ recording' = recording /\ calls' = [calls EXCEPT ![p] = Append(calls[p], e)]
    BY <1>6 DEF Fork, At, Goto, TypeOK
  <2>3. e \in [kind : CallKinds, old : Pointers, new : Pointers]
    BY DEF CallKinds, Unguarded, Pointers
  <2>4. ToTell(t)'
    BY <2>1, <2>2 DEF ToTell, Reporting
  <2> HIDE DEF e, c
  <2> QED BY <1>4, <2>1, <2>2, <2>3, <2>4, ExactCall
<1>7. CASE PreloadInit(t) \/ AnnounceImage(t) \/ Mallopt(t)
  <2>1. ~Reporting(t) /\ ~Reporting(t)' /\ calls' = calls
    BY <1>7 DEF PreloadInit, AnnounceImage, Mallopt, At, Goto, Reporting, TypeOK, threadVars,
                historyVars
  <2>2. \/ recording' = recording
        \/ \E m \in Messages : m.word \notin CallWords /\ recording' = Append(recording, m)
    BY <1>0, <1>7, AnnouncementsTellNothing DEF PreloadInit, AnnounceImage, Mallopt, Callers
  <2> QED BY <1>2, <2>1, <2>2 DEF ToTell, CountsFor
<1>8. CASE TestFlag(t)
  <2>1. pc[t] = "test" /\ calls' = calls /\ recording' = recording
    BY <1>8 DEF TestFlag, At, historyVars
  <2>2. ~flag[p]
    <3> SUFFICES ASSUME flag[p] PROVE FALSE
      OBVIOUS
    <3>1. PICK u \in ThreadsOf(p) : Inside(u)
      BY <1>0 DEF FlagHeld, Clean
    <3>2. u = t
      BY <1>0, <2>1, <3>1 DEF AloneIn, Inside
    <3> QED BY <2>1, <3>1, <3>2 DEF Inside
  <2>3. Goto(t, "set") /\ call' = call /\ Reporting(t) /\ pc[t] # "clear" /\ "set" \in PCs
    BY <1>8, <2>1, <2>2 DEF TestFlag, Reporting, PCs
  <2> QED BY <1>3, <2>1, <2>3
<1>9. CASE SetFlag(t) \/ LookUp(t) \/ Store(t) \/ Terminate(t)
  <2>1. /\ calls' = calls /\ call' = call /\ recording' = recording
        /\ Reporting(t) /\ pc[t] # "clear"
    BY <1>9 DEF SetFlag, LookUp, Store, Terminate, At, Reporting, processVars, historyVars
  <2>2. PICK where \in PCs \ {"idle", "init", "clear"} : Goto(t, where)
    BY <1>9 DEF SetFlag, LookUp, Store, Terminate, PCs
  <2> QED BY <1>3, <2>1, <2>2
<1>10. CASE AnnounceLibrary(t)
  <2>1. /\ calls' = calls /\ call' = call /\ Reporting(t) /\ pc[t] # "clear"
        /\ Goto(t, "send") /\ "send" \in PCs
    BY <1>10 DEF AnnounceLibrary, At, Reporting, PCs
  <2>2. call[t].lib \in Callers
    BY DEF TypeOK, CallRecords
  <2>3. \/ recording' = recording
        \/ \E m \in Messages : m.word \notin CallWords /\ recording' = Append(recording, m)
    BY <1>0, <1>10, <2>2, AnnouncementsTellNothing DEF AnnounceLibrary
  <2> QED BY <1>3, <2>1, <2>3
<1>11. CASE SendReport(t)
  <2>1. Reporting(t) /\ pc[t] = "send" /\ calls' = calls
    BY <1>11 DEF SendReport, At, Reporting
  <2>2. Reporting(t)' => call'[t].no = call[t].no
    <3>1. CASE Return(t)
      BY <2>1, <3>1, EndTellsNothing
    <3>2. CASE call' = call
      BY <3>2
    <3> QED BY <1>11, <3>1, <3>2 DEF SendReport
  <2>3. recording' = Append(recording, Report(t))
    <3>1. Report(t).pid = p
      BY DEF Report
    <3>2. ~Notice(p, {"interrupted"})
      <4>1. "interrupted" \notin trouble'[p]
        BY DEF Clean
      <4>2. trouble \in [Procs -> SUBSET {"overlap", "interrupted", "full", "deaf"}]
        BY DEF TypeOK
      <4> QED BY <1>0, <4>1, <4>2 DEF Notice
    <3> QED BY <1>11, <3>1, <3>2 DEF SendReport, Send
  <2>4. CASE ToTell(t)
    <3>1. \A u \in ThreadsOf(p) : Reporting(u)' => Reporting(u) /\ call'[u].no = call[u].no
      BY <1>1, <2>1, <2>2
    <3> QED BY <2>1, <2>3, <2>4, <3>1, ExactReport
  <2>5. CASE ~ToTell(t)
    <3>1. ~CountsFor(p, Report(t)) /\ Report(t) \in Messages
      BY <2>1, <2>5, ReportIsMessage DEF CountsFor, Report, ToTell
    <3> QED BY <1>2, <2>1, <2>2, <2>3, <2>5, <3>1
  <2> QED BY <2>4, <2>5
<1>12. CASE ClearFlag(t)
  <2>1. Reporting(t) /\ ~ToTell(t) /\ Return(t) /\ calls' = calls /\ recording' = recording
    BY <1>12 DEF ClearFlag, At, Reporting, ToTell, historyVars
  <2>2. Reporting(t)' => call'[t].no = call[t].no
    BY <2>1, EndTellsNothing
  <2> QED BY <1>2, <2>1, <2>2
<1> QED BY <1>5, <1>6, <1>7, <1>8, <1>9, <1>10, <1>11, <1>12 DEF Enter, Step

LEMMA ExactStep ==
  /\ TypeOK /\ Origin /\ Origin' /\ FlagHeld /\ ReportInv /\ Alone /\ Exact /\ [Next]_vars
  => Exact'
<1> SUFFICES ASSUME TypeOK, Origin, Origin', FlagHeld, ReportInv, Alone, Exact, [Next]_vars,
                    NEW p \in Procs, Clean(p)'
             PROVE  ExactIn(p)'
  BY DEF Exact
<1>1. CASE p = Child /\ stage[Child] = "unborn"
  <2>1. CASE UNCHANGED vars
    <3>1. Clean(p)
      BY <2>1 DEF Clean, vars, historyVars
    <3> QED BY <2>1, <3>1, ExactKept DEF Exact, vars, threadVars, historyVars, Reporting, ToTell
  <2> QED BY <1>1, <2>1, NewbornExact DEF Next
<1>2. CASE p = Parent \/ stage[p] # "unborn"
  <2>1. Clean(p) /\ ExactIn(p) /\ AloneIn(p)
    <3>1. Clean(p) /\ "overlap" \notin trouble[p]
      BY <1>2, TroubleRemembered DEF Clean
    <3> QED BY <3>1 DEF Exact, Alone
  <2>2. CASE UNCHANGED vars
    BY <2>1, <2>2, ExactKept DEF vars, threadVars, historyVars, Reporting, ToTell
  <2>3. ASSUME NEW t \in AllThreads, Enter(t) \/ Step(t)
        PROVE  ExactIn(p)'
    <3>1. CASE Proc(t) = p
      BY <2>1, <2>3, <3>1, ExactSelf
    <3>2. CASE Proc(t) # p
      <4>1. ~Fork(t)
        BY <1>2, <3>2 DEF Fork, Procs
      <4>2. calls'[p] = calls[p]
        BY <2>3, <3>2, <4>1, OthersKeep
      <4>3. \/ recording' = recording
            \/ \E m \in Messages : ~CountsFor(p, m) /\ recording' = Append(recording, m)
        BY <2>3, <3>2, RecordsOwn DEF CountsFor
      <4>4. \A u \in ThreadsOf(p) : pc'[u] = pc[u] /\ call'[u] = call[u]
        BY <2>3, <3>2, OthersStay DEF ThreadsOf
      <4> QED BY <2>1, <4>2, <4>3, <4>4, ExactKept DEF Reporting, ToTell
    <3> QED BY <3>1, <3>2
  <2> QED BY <2>2, <2>3 DEF Next
<1> QED BY <1>1, <1>2 DEF Procs

-----------------------------------------------------------------------------
(* The table of libraries. While no two threads have met, the libraries a   *)
(* process has announced are in front of the end of its table, and a thread *)
(* that stores one writes behind them.                                      *)
Announced(p, l) ==
  \E i \in 1..Len(recording) : LET m == recording[i] IN
    m.word = "EXTERNAL" /\ m.pid = p /\ m.lib = l

InPrefix(p, l, n) ==
  \E k \in 1..n : dyn[p][k] = l /\ \A j \in 1..k : dyn[p][j] # NoLib

Storing(t) == pc[t] \in {"store", "terminate", "announce"}

AnnouncedIn(p, n) == \A l \in Libs : Announced(p, l) => InPrefix(p, l, n)

StoringIn(p, t) ==
  /\ call[t].lib # NoLib /\ ~Announced(p, call[t].lib)
  /\ slot[t] \in 1..DynMax /\ \A i \in 1..slot[t]-1 : dyn[p][i] # NoLib
  /\ pc[t] = "store" => dyn[p][slot[t]] = NoLib
  /\ pc[t] # "store" => dyn[p][slot[t]] = call[t].lib
  /\ pc[t] = "terminate" => AnnouncedIn(p, slot[t] - 1)

TableIn(p) ==
  /\ AnnouncedIn(p, DynMax)
  /\ \A t \in ThreadsOf(p) : Storing(t) => StoringIn(p, t)

OnceIn(p) ==
  \A i, j \in 1..Len(recording) :
    /\ i < j /\ recording[i].word = "EXTERNAL" /\ recording[j].word = "EXTERNAL"
    /\ recording[i].pid = p /\ recording[j].pid = p
    => recording[i].lib # recording[j].lib

TableInv == \A p \in Procs : "overlap" \notin trouble[p] => TableIn(p) /\ OnceIn(p)

(* What a message announces.                                                *)
LEMMA AnnouncedGrows ==
  ASSUME TypeOK, NEW m \in Messages, recording' = Append(recording, m), NEW p, NEW l
  PROVE  Announced(p, l)' <=>
           Announced(p, l) \/ (m.word = "EXTERNAL" /\ m.pid = p /\ m.lib = l)
<1>1. /\ Len(recording) \in Nat /\ Len(recording') = Len(recording) + 1
      /\ recording'[Len(recording) + 1] = m
      /\ \A i \in 1..Len(recording) : recording'[i] = recording[i]
  BY Appended
<1>2. \A i : i \in 1..Len(recording') <=> i \in 1..Len(recording) \/ i = Len(recording) + 1
  BY <1>1
<1> QED BY <1>1, <1>2 DEF Announced

LEMMA OnceGrows ==
  ASSUME TypeOK, NEW m \in Messages, recording' = Append(recording, m), NEW p, OnceIn(p),
         m.word = "EXTERNAL" /\ m.pid = p => ~Announced(p, m.lib)
  PROVE  OnceIn(p)'
<1>1. /\ Len(recording) \in Nat /\ Len(recording') = Len(recording) + 1
      /\ recording'[Len(recording) + 1] = m
      /\ \A i \in 1..Len(recording) : recording'[i] = recording[i]
  BY Appended
<1> SUFFICES ASSUME NEW i \in 1..Len(recording'), NEW j \in 1..Len(recording'), i < j,
                    recording'[i].word = "EXTERNAL", recording'[j].word = "EXTERNAL",
                    recording'[i].pid = p, recording'[j].pid = p
             PROVE  recording'[i].lib # recording'[j].lib
  BY DEF OnceIn
<1>2. i \in 1..Len(recording) /\ recording'[i] = recording[i]
  BY <1>1
<1>3. CASE j \in 1..Len(recording)
  <2>1. recording'[j] = recording[j]
    BY <1>1, <1>3
  <2> QED BY <1>2, <1>3, <2>1 DEF OnceIn
<1>4. CASE j = Len(recording) + 1
  BY <1>1, <1>2, <1>4 DEF Announced
<1> QED BY <1>1, <1>3, <1>4

(* A step that leaves the table of p alone and announces nothing for p.     *)
LEMMA TableKept ==
  ASSUME TypeOK, NEW p, TableIn(p), OnceIn(p), dyn'[p] = dyn[p],
         \/ recording' = recording
         \/ \E m \in Messages : /\ ~(m.word = "EXTERNAL" /\ m.pid = p)
                                /\ recording' = Append(recording, m),
         \A u \in ThreadsOf(p) :
           Storing(u)' => pc'[u] = pc[u] /\ call'[u] = call[u] /\ slot'[u] = slot[u]
  PROVE  TableIn(p)' /\ OnceIn(p)'
<1>1. \A l : Announced(p, l)' <=> Announced(p, l)
  <2>1. CASE recording' = recording
    BY <2>1 DEF Announced
  <2> QED BY <2>1, AnnouncedGrows
<1>2. \A l, n : InPrefix(p, l, n)' <=> InPrefix(p, l, n)
  BY DEF InPrefix
<1>3. \A n : AnnouncedIn(p, n) => AnnouncedIn(p, n)'
  BY <1>1, <1>2 DEF AnnouncedIn
<1>4. ASSUME NEW u \in ThreadsOf(p), Storing(u)'
      PROVE  StoringIn(p, u)'
  <2>1. pc'[u] = pc[u] /\ call'[u] = call[u] /\ slot'[u] = slot[u] /\ StoringIn(p, u)
    BY <1>4 DEF Storing, TableIn
  <2>2. pc[u] = "terminate" => \A l \in Libs : Announced(p, l)' => InPrefix(p, l, slot[u] - 1)'
    BY <1>1, <1>2, <2>1 DEF StoringIn, AnnouncedIn
  <2>3. pc'[u] = "terminate" => AnnouncedIn(p, slot[u] - 1)'
    BY <2>1, <2>2 DEF AnnouncedIn
  <2> QED BY <1>1, <2>1, <2>3 DEF StoringIn
<1>5. OnceIn(p)'
  <2>1. CASE recording' = recording
    BY <2>1 DEF OnceIn
  <2> QED BY <2>1, OnceGrows
<1> QED BY <1>3, <1>4, <1>5 DEF TableIn

(* The three steps that write the table or announce what is in it, by the   *)
(* only thread of p that is in the library.                                 *)
LEMMA LookUpTable ==
  ASSUME TypeOK, NEW t \in AllThreads, LookUp(t), TableIn(Proc(t)), Storing(t)'
  PROVE  StoringIn(Proc(t), t)'
<1> DEFINE p == Proc(t)
           lib == call[t].lib
<1>0. p \in Procs /\ lib \in Callers
  BY ProcOfThread DEF TypeOK, CallRecords
<1>1. PICK n \in 0..DynMax :
        /\ Listed(p, n) /\ IsNew(p, n, lib) /\ n < DynMax
        /\ slot' = [slot EXCEPT ![t] = n + 1] /\ Goto(t, "store")
  BY DEF LookUp, Goto, Storing, TypeOK
<1>2. /\ call' = call /\ dyn' = dyn /\ recording' = recording
      /\ pc'[t] = "store" /\ slot'[t] = n + 1
  BY <1>1 DEF LookUp, Goto, processVars, TypeOK
<1>3. /\ \A i \in 1..n : dyn[p][i] # NoLib /\ dyn[p][i] # lib
      /\ dyn[p][n + 1] = NoLib /\ lib # NoLib
  BY <1>1 DEF Listed, IsNew
<1>4. ~Announced(p, lib)
  <2> SUFFICES ASSUME Announced(p, lib) PROVE FALSE
    OBVIOUS
  <2>1. lib \in Libs
    BY <1>0, <1>3 DEF Callers
  <2>2. PICK k \in 1..DynMax : dyn[p][k] = lib /\ \A j \in 1..k : dyn[p][j] # NoLib
    BY <2>1 DEF TableIn, AnnouncedIn, InPrefix
  <2>3. ~(n + 1 <= k)
    BY <1>3, <2>2
  <2> QED BY <1>3, <2>2, <2>3
<1>5. ~Announced(p, lib)'
  BY <1>2, <1>4 DEF Announced
<1> QED BY <1>1, <1>2, <1>3, <1>5 DEF StoringIn

LEMMA StoreTable ==
  ASSUME TypeOK, NEW t \in AllThreads, Store(t), TableIn(Proc(t))
  PROVE  AnnouncedIn(Proc(t), DynMax)' /\ StoringIn(Proc(t), t)'
<1> DEFINE p == Proc(t)
           lib == call[t].lib
           s == slot[t]
<1>0. p \in Procs /\ t \in ThreadsOf(p)
  BY ProcOfThread
<1>1. /\ pc[t] = "store" /\ pc'[t] = "terminate" /\ call' = call /\ slot' = slot
      /\ recording' = recording
  BY DEF Store, At, Goto, TypeOK
<1>2. /\ lib # NoLib /\ ~Announced(p, lib) /\ s \in 1..DynMax
      /\ \A i \in 1..s-1 : dyn[p][i] # NoLib
      /\ dyn[p][s] = NoLib
  BY <1>0, <1>1 DEF TableIn, Storing, StoringIn
<1>3. dyn'[p][s] = lib /\ \A i \in 1..s-1 : dyn'[p][i] = dyn[p][i]
  <2>1. dyn \in [Procs -> [1..DynMax+1 -> Callers]]
    BY DEF TypeOK
  <2>2. dyn' = [dyn EXCEPT ![p] = [dyn[p] EXCEPT ![s] = lib]]
    BY DEF Store
  <2> QED BY <1>0, <1>2, <2>1, <2>2
<1>4. ASSUME NEW l \in Libs, Announced(p, l)'
      PROVE  \E k \in 1..s-1 : dyn'[p][k] = l /\ \A j \in 1..k : dyn'[p][j] # NoLib
  <2>1. Announced(p, l)
    BY <1>1, <1>4 DEF Announced
  <2>2. PICK k \in 1..DynMax : dyn[p][k] = l /\ \A j \in 1..k : dyn[p][j] # NoLib
    BY <2>1 DEF TableIn, AnnouncedIn, InPrefix
  <2>3. ~(s <= k)
    BY <1>2, <2>2
  <2>4. k \in 1..s-1 /\ \A j \in 1..k : j \in 1..s-1
    BY <1>2, <2>3
  <2> QED BY <1>3, <2>2, <2>4
<1>5. AnnouncedIn(p, slot[t] - 1)'
  BY <1>1, <1>4 DEF AnnouncedIn, InPrefix
<1>6. AnnouncedIn(p, DynMax)'
  <2>1. \A k \in 1..s-1 : k \in 1..DynMax
    BY <1>2
  <2> QED BY <1>4, <2>1 DEF AnnouncedIn, InPrefix
<1>7. ~Announced(p, lib)'
  BY <1>1, <1>2 DEF Announced
<1> QED BY <1>1, <1>2, <1>3, <1>5, <1>6, <1>7 DEF StoringIn

LEMMA TerminateTable ==
  ASSUME TypeOK, NEW t \in AllThreads, Terminate(t), TableIn(Proc(t))
  PROVE  AnnouncedIn(Proc(t), DynMax)' /\ StoringIn(Proc(t), t)'
<1> DEFINE p == Proc(t)
           lib == call[t].lib
           s == slot[t]
<1>0. p \in Procs /\ t \in ThreadsOf(p)
  BY ProcOfThread
<1>1. /\ pc[t] = "terminate" /\ pc'[t] = "announce" /\ call' = call /\ slot' = slot
      /\ recording' = recording
  BY DEF Terminate, At, Goto, TypeOK
<1>2. /\ lib # NoLib /\ ~Announced(p, lib) /\ s \in 1..DynMax
      /\ \A i \in 1..s-1 : dyn[p][i] # NoLib
      /\ dyn[p][s] = lib /\ AnnouncedIn(p, s - 1)
  BY <1>0, <1>1 DEF TableIn, Storing, StoringIn
<1>3. \A i \in 1..s : dyn'[p][i] = dyn[p][i]
  <2>1. dyn \in [Procs -> [1..DynMax+1 -> Callers]]
    BY DEF TypeOK
  <2>2. dyn' = [dyn EXCEPT ![p] = [dyn[p] EXCEPT ![s + 1] = NoLib]]
    BY DEF Terminate
  <2> QED BY <1>0, <1>2, <2>1, <2>2
<1>4. AnnouncedIn(p, DynMax)'
  <2> SUFFICES ASSUME NEW l \in Libs, Announced(p, l)'
               PROVE  InPrefix(p, l, DynMax)'
    BY DEF AnnouncedIn
  <2>1. Announced(p, l)
    BY <1>1 DEF Announced
  <2>2. PICK k \in 1..s-1 : dyn[p][k] = l /\ \A j \in 1..k : dyn[p][j] # NoLib
    BY <1>2, <2>1 DEF AnnouncedIn, InPrefix
  <2>3. k \in 1..DynMax /\ k \in 1..s /\ \A j \in 1..k : j \in 1..s
    BY <1>2, <2>2
  <2> QED BY <1>3, <2>2, <2>3 DEF InPrefix
<1>5. ~Announced(p, lib)'
  BY <1>1, <1>2 DEF Announced
<1>6. dyn'[p][s] = lib /\ \A i \in 1..s-1 : dyn'[p][i] # NoLib
  BY <1>2, <1>3
<1> QED BY <1>1, <1>2, <1>4, <1>5, <1>6 DEF StoringIn

LEMMA AnnounceTable ==
  ASSUME TypeOK, NEW t \in AllThreads, AnnounceLibrary(t), TableIn(Proc(t)), OnceIn(Proc(t))
  PROVE  AnnouncedIn(Proc(t), DynMax)' /\ OnceIn(Proc(t))' /\ ~Storing(t)'
<1> DEFINE p == Proc(t)
           lib == call[t].lib
<1>0. p \in Procs /\ t \in ThreadsOf(p)
  BY ProcOfThread
<1>1. pc[t] = "announce" /\ pc'[t] = "send" /\ dyn' = dyn
  BY DEF AnnounceLibrary, At, Goto, TypeOK, processVars
<1>2. /\ ~Announced(p, lib) /\ slot[t] \in 1..DynMax /\ lib # NoLib
      /\ \A i \in 1..slot[t]-1 : dyn[p][i] # NoLib
      /\ dyn[p][slot[t]] = lib
  BY <1>0, <1>1 DEF TableIn, Storing, StoringIn
<1>3. InPrefix(p, lib, DynMax)
  <2>1. \A j \in 1..slot[t] : j \in 1..slot[t]-1 \/ j = slot[t]
    BY <1>2
  <2> QED BY <1>2, <2>1 DEF InPrefix
<1>4. CASE recording' = recording
  BY <1>1, <1>4 DEF TableIn, AnnouncedIn, Announced, InPrefix, OnceIn, Storing
<1>5. CASE recording' # recording
  <2>1. PICK m \in Messages : m.pid = p /\ m.lib = lib /\ m.word = "EXTERNAL"
                             /\ recording' = Append(recording, m)
    <3>1. recording' = Append(recording, Announcement("EXTERNAL", p, lib))
      BY <1>5 DEF AnnounceLibrary, Send
    <3>2. Announcement("EXTERNAL", p, lib) \in Messages
      BY <1>0, AnnouncementIsMessage DEF TypeOK, CallRecords
    <3> QED BY <3>1, <3>2 DEF Announcement
  <2>2. OnceIn(p)'
    BY <1>2, <2>1, OnceGrows
  <2>3. ASSUME NEW l \in Libs, Announced(p, l)'
        PROVE  InPrefix(p, l, DynMax)
    BY <1>3, <2>1, <2>3, AnnouncedGrows DEF TableIn, AnnouncedIn
  <2> QED BY <1>1, <2>2, <2>3 DEF AnnouncedIn, InPrefix, Storing
<1> QED BY <1>4, <1>5

(* The steps of the only thread of p in the library.                        *)
LEMMA TableSelf ==
  ASSUME TypeOK, Origin, NEW t \in AllThreads, Enter(t) \/ Step(t),
         AloneIn(Proc(t)), "overlap" \notin trouble'[Proc(t)],
         TableIn(Proc(t)), OnceIn(Proc(t))
  PROVE  TableIn(Proc(t))' /\ OnceIn(Proc(t))'
<1> DEFINE p == Proc(t)
<1>0. p \in Procs /\ t \in ThreadsOf(p) /\ \A u \in ThreadsOf(p) : u \in AllThreads
  BY ProcOfThread DEF ThreadsOf
<1>1. \A u \in ThreadsOf(p) : u # t => pc'[u] = pc[u] /\ call'[u] = call[u] /\ slot'[u] = slot[u]
  BY <1>0, OthersStay
<1>2. ASSUME pc[t] # "idle" PROVE \A u \in ThreadsOf(p) : u # t => ~Storing(u)'
  BY <1>0, <1>1, <1>2 DEF AloneIn, Storing
<1>3. CASE Store(t) \/ Terminate(t)
  <2>1. pc[t] # "idle" /\ recording' = recording
    BY <1>3 DEF Store, Terminate, At
  <2>2. AnnouncedIn(p, DynMax)' /\ StoringIn(p, t)'
    BY <1>3, StoreTable, TerminateTable
  <2>3. OnceIn(p)'
    BY <2>1 DEF OnceIn
  <2> QED BY <1>2, <2>1, <2>2, <2>3 DEF TableIn
<1>4. CASE AnnounceLibrary(t)
  <2>1. pc[t] # "idle"
    BY <1>4 DEF AnnounceLibrary, At
  <2>2. AnnouncedIn(p, DynMax)' /\ OnceIn(p)' /\ ~Storing(t)'
    BY <1>4, AnnounceTable
  <2> QED BY <1>2, <2>1, <2>2 DEF TableIn
<1>5. CASE LookUp(t)
  <2>1. dyn' = dyn /\ recording' = recording /\ pc[t] # "idle"
    BY <1>5 DEF LookUp, At, processVars
  <2>2. AnnouncedIn(p, DynMax)' /\ OnceIn(p)'
    BY <2>1 DEF TableIn, AnnouncedIn, Announced, InPrefix, OnceIn
  <2>3. Storing(t)' => StoringIn(p, t)'
    BY <1>5, LookUpTable
  <2> QED BY <1>2, <2>1, <2>2, <2>3 DEF TableIn
<1>6. CASE PreloadInit(t)
  <2>1. stage[Parent] = "fresh" /\ recording = <<>> /\ recording' = recording
    BY <1>6 DEF PreloadInit, Origin, Proc
  <2>2. \A l : ~Announced(p, l)'
    BY <2>1 DEF Announced
  <2>3. \A u \in ThreadsOf(p) : ~Storing(u)'
    <3>1. pc'[t] = "init" /\ \A u \in ThreadsOf(p) : pc[u] = "idle"
      BY <1>6 DEF PreloadInit, Goto, TypeOK
    <3> QED BY <1>1, <3>1 DEF Storing
  <2>4. OnceIn(p)'
    BY <2>1 DEF OnceIn
  <2> QED BY <2>2, <2>3, <2>4 DEF TableIn, AnnouncedIn
<1>7. ASSUME dyn' = dyn, ~Storing(t)' \/ (pc' = pc /\ call' = call /\ slot' = slot),
             \/ recording' = recording
             \/ \E m \in Messages : m.word # "EXTERNAL" /\ recording' = Append(recording, m)
      PROVE  TableIn(p)' /\ OnceIn(p)'
  BY <1>1, <1>7, TableKept
<1>8. CASE Call(t) \/ Mallopt(t)
  <2>1. dyn' = dyn /\ recording' = recording
    BY <1>8 DEF Call, Mallopt
  <2>2. ~Storing(t)'
    <3>1. CASE Call(t)
      <4>1. PICK c \in CallRecords : Begin(t, c)
        BY <3>1, CallBegins
      <4> QED BY <4>1, BeginTypes DEF Storing
    <3>2. CASE Mallopt(t)
      BY <3>2 DEF Mallopt, At, Storing, threadVars
    <3> QED BY <1>8, <3>1, <3>2
  <2> QED BY <1>7, <2>1, <2>2
<1>9. CASE Fork(t)
  <2>1. dyn'[p] = dyn[p] /\ recording' = recording /\ pc'[t] = "send"
    BY <1>0, <1>9 DEF Fork, Goto, TypeOK
  <2> QED BY <1>1, <2>1, TableKept DEF Storing
<1>10. CASE AnnounceImage(t) \/ TestFlag(t) \/ SetFlag(t) \/ ClearFlag(t) \/ SendReport(t)
  <2>1. dyn' = dyn
    BY <1>10 DEF AnnounceImage, TestFlag, SetFlag, ClearFlag, SendReport
  <2>2. ~Storing(t)'
    <3>1. CASE Return(t)
      BY <3>1, ReturnTypes DEF Storing
    <3>2. CASE \E where \in {"idle", "set", "send", "look", "clear"} : Goto(t, where)
      BY <3>2 DEF Goto, Storing, TypeOK
    <3> QED BY <1>10, <3>1, <3>2 DEF AnnounceImage, TestFlag, SetFlag, ClearFlag, SendReport
  <2>3. ~AnnounceLibrary(t)
    BY <1>10 DEF AnnounceLibrary, AnnounceImage, TestFlag, SetFlag, ClearFlag, SendReport, At
  <2>4. Report(t).word # "EXTERNAL"
    <3>1. call[t].kind \in CallKinds
      BY DEF TypeOK, CallRecords
    <3> QED BY <3>1, WordsOfCalls, ReportIsMessage DEF CallWords
  <2> QED BY <1>7, <2>1, <2>2, <2>3, <2>4, RecordsOwn
<1> QED BY <1>3, <1>4, <1>5, <1>6, <1>8, <1>9, <1>10 DEF Enter, Step

(* Nobody is announced by an unborn child, nor by one just born.            *)
LEMMA NewbornTable ==
  ASSUME TypeOK, Origin, Origin', NEW t \in AllThreads, Enter(t) \/ Step(t),
         stage[Child] = "unborn"
  PROVE  TableIn(Child)' /\ OnceIn(Child)'
<1>0. Child \in Procs /\ ChildThread \in AllThreads
  BY DEF Procs, AllThreads
<1>1. pc'[ChildThread] = "idle" /\ \A i \in 1..Len(recording') : recording'[i].pid = Parent
  <2>1. CASE Fork(t)
    <3>1. recording' = recording /\ pc' = [pc EXCEPT ![t] = "send"] /\ t # ChildThread
      BY <1>0, <2>1 DEF Fork, Goto, Proc, TypeOK
    <3> QED BY <1>0, <3>1 DEF Origin, TypeOK
  <2>2. CASE ~Fork(t)
    <3>1. Proc(t) # Child
      BY ActsAlive
    <3>2. stage'[Child] = "unborn"
      BY <1>0, <2>2, <3>1, OthersKeep
    <3> QED BY <3>2 DEF Origin
  <2> QED BY <2>1, <2>2
<1>2. \A l : ~Announced(Child, l)'
  BY <1>1 DEF Announced
<1>3. OnceIn(Child)'
  BY <1>1 DEF OnceIn
<1>4. \A u \in ThreadsOf(Child) : ~Storing(u)'
  <2>1. \A u \in ThreadsOf(Child) : u = ChildThread
    BY DEF ThreadsOf, Proc
  <2> QED BY <1>1, <2>1 DEF Storing
<1> QED BY <1>2, <1>3, <1>4 DEF TableIn, AnnouncedIn

LEMMA TableStep ==
  TypeOK /\ Origin /\ Origin' /\ Alone /\ TableInv /\ [Next]_vars => TableInv'
<1> SUFFICES ASSUME TypeOK, Origin, Origin', Alone, TableInv, [Next]_vars,
                    NEW p \in Procs, "overlap" \notin trouble'[p]
             PROVE  TableIn(p)' /\ OnceIn(p)'
  BY DEF TableInv
<1>1. ASSUME "overlap" \notin trouble[p], UNCHANGED vars
      PROVE  TableIn(p)' /\ OnceIn(p)'
  <2>1. TableIn(p) /\ OnceIn(p)
    BY <1>1 DEF TableInv
  <2> QED BY <1>1, <2>1, TableKept DEF vars, processVars, threadVars
<1>2. CASE UNCHANGED vars
  <2>1. "overlap" \notin trouble[p]
    BY <1>2 DEF vars, historyVars
  <2> QED BY <1>1, <1>2, <2>1
<1>3. CASE p = Child /\ stage[Child] = "unborn"
  BY <1>2, <1>3, NewbornTable DEF Next
<1>4. ASSUME p = Parent \/ stage[p] # "unborn", NEW t \in AllThreads, Enter(t) \/ Step(t)
      PROVE  TableIn(p)' /\ OnceIn(p)'
  <2>1. "overlap" \notin trouble[p]
    BY <1>4, TroubleRemembered
  <2>2. TableIn(p) /\ OnceIn(p) /\ AloneIn(p)
    BY <2>1 DEF TableInv, Alone
  <2>3. CASE Proc(t) = p
    BY <1>4, <2>2, <2>3, TableSelf
  <2>4. CASE Proc(t) # p
    <3>1. ~Fork(t)
      BY <1>4, <2>4 DEF Fork, Procs
    <3>2. dyn'[p] = dyn[p]
      BY <1>4, <2>4, <3>1, OthersKeep
    <3>3. \/ recording' = recording
          \/ \E m \in Messages : /\ ~(m.word = "EXTERNAL" /\ m.pid = p)
                                 /\ recording' = Append(recording, m)
      BY <1>4, <2>4, RecordsOwn
    <3>4. \A u \in ThreadsOf(p) : pc'[u] = pc[u] /\ call'[u] = call[u] /\ slot'[u] = slot[u]
      BY <1>4, <2>4, OthersStay DEF ThreadsOf
    <3> QED BY <2>2, <3>2, <3>3, <3>4, TableKept
  <2> QED BY <2>3, <2>4
<1> QED BY <1>2, <1>3, <1>4 DEF Next, Procs

(* What the initial states are for these invariants.                        *)
LEMMA RecordingInit == Init => Origin /\ ImageFirst /\ Alone /\ Exact /\ TableInv
<1> SUFFICES ASSUME Init PROVE Origin /\ ImageFirst /\ Alone /\ Exact /\ TableInv
  OBVIOUS
<1>1. /\ recording = <<>> /\ \A p \in Procs : calls[p] = <<>>
      /\ \A t \in AllThreads : pc[t] = "idle"
      /\ stage[Parent] = "fresh" /\ stage[Child] = "unborn"
      /\ Child \in Procs /\ ChildThread \in AllThreads
  BY DEF Init, Procs, AllThreads
<1>2. \A i : i \notin 1..Len(recording)
  BY <1>1
<1>3. Origin /\ ImageFirst /\ Alone
  BY <1>1, <1>2 DEF Origin, ImageFirst, Alone, AloneIn, ThreadsOf, Reporting
<1>4. Exact
  BY <1>1, <1>2 DEF Exact, ExactIn, InOrder, AllTold, LastOnly, Reports, Reporting, ThreadsOf
<1>5. TableInv
  BY <1>1, <1>2 DEF TableInv, TableIn, OnceIn, AnnouncedIn, Announced, Storing, ThreadsOf
<1> QED BY <1>3, <1>4, <1>5

LEMMA ExactIsComplete == TypeOK /\ ReportInv /\ Exact => SequentialExact
<1> SUFFICES ASSUME TypeOK, ReportInv, NEW p \in Procs, Clean(p), ExactIn(p)
             PROVE  /\ \A i \in Reports(p) : recording[i].no \in 1..Len(calls[p])
                    /\ \A i, j \in Reports(p) : i < j => recording[i].no < recording[j].no
                    /\ \A n \in 1..Len(calls[p]) :
                         \/ \E i \in Reports(p) : recording[i].no = n
                         \/ n = Len(calls[p]) /\ \E t \in ThreadsOf(p) : pc[t] # "idle"
  BY DEF SequentialExact, Exact, Clean
<1>1. ASSUME NEW i \in Reports(p) PROVE recording[i].no \in 1..Len(calls[p])
  <2>1. i \in 1..Len(recording) /\ recording[i].pid = p /\ recording[i].word \in CallWords
    BY DEF Reports
  <2>2. TrueAt(recording, calls, i)
    BY <2>1, TrueReportsAre DEF ReportInv
  <2> QED BY <2>1, <2>2 DEF TrueAt
<1>2. ASSUME NEW n \in 1..Len(calls[p]), ~Reported(p, n)
      PROVE  n = Len(calls[p]) /\ \E t \in ThreadsOf(p) : pc[t] # "idle"
  BY <1>2 DEF ExactIn, AllTold, LastOnly, BeingTold, ToTell, Reporting
<1> QED BY <1>1, <1>2 DEF ExactIn, InOrder, Reported

(* Where threads do not meet, no message is interrupted and the process was *)
(* not forked with the flag set, it is recorded completely and in order.    *)
THEOREM RecordedExactly == Spec => []SequentialExact
<1> DEFINE Inv == /\ Origin /\ Alone /\ Exact /\ SetUnder /\ FlagHeld /\ ReportInv
<1>1. Init => Inv
  <2>1. Init => ReportInv
    BY DEF Init, ReportInv, CallsHappened, OwnCalls, NotYetTold, TrueReports, Reporting, ToTell
  <2>2. Init => SetUnder /\ FlagHeld
    BY DEF Init, SetUnder, FlagHeld
  <2> QED BY <2>1, <2>2, RecordingInit
<1>2. TypeOK /\ TypeOK' /\ Inv /\ [Next]_vars => Inv'
  BY OriginStep, AloneStep, ExactStep, SetUnderStep, FlagStep, ReportStep
<1>3. TypeOK /\ Inv => SequentialExact
  BY ExactIsComplete
<1> QED BY <1>1, <1>2, <1>3, TypeCorrect, PTL DEF Spec

(* Where threads do not meet, no library is announced twice.                *)
THEOREM AnnouncesOnce == Spec => []AnnouncedOnce
<1> DEFINE Inv == Origin /\ Alone /\ TableInv
<1>1. Init => Inv
  BY RecordingInit
<1>2. TypeOK /\ Inv /\ [Next]_vars => Inv'
  BY OriginStep, AloneStep, TableStep
<1>3. TypeOK /\ Inv => AnnouncedOnce
  <2> SUFFICES ASSUME TypeOK, TableInv PROVE AnnouncedOnce
    OBVIOUS
  <2>1. \A i \in 1..Len(recording) : recording[i].pid \in Procs
    <3>1. recording \in Seq(Messages)
      BY DEF TypeOK
    <3>2. \A i \in 1..Len(recording) : recording[i] \in Messages
      BY <3>1
    <3> QED BY <3>2 DEF Messages
  <2> QED BY <2>1 DEF AnnouncedOnce, TableInv, OnceIn
<1> QED BY <1>1, <1>2, <1>3, TypeCorrect, PTL DEF Spec
-----------------------------------------------------------------------------
(* Addresses. What a process has in its table of libraries, or copied from  *)
(* its parent's, has been announced by one of the two, or is being stored;  *)
(* who is about to report a call from a library has found it there.         *)
Clear(p) == (trouble[Parent] \cup trouble[p]) \cap {"overlap", "interrupted", "full"} = {}

Known(p, l) == Announced(Parent, l) \/ Announced(p, l)

BeingStored(p, l) ==
  \E t \in ThreadsOf(p) : pc[t] \in {"terminate", "announce"} /\ call[t].lib = l

PlacesKnown(p) ==
  \A k \in 1..DynMax+1 : dyn[p][k] # NoLib =>
    Known(p, dyn[p][k]) \/ BeingStored(p, dyn[p][k])

SendersKnown(p) ==
  \A t \in ThreadsOf(p) : pc[t] = "send" /\ call[t].lib # NoLib => Known(p, call[t].lib)

KnownInv == \A p \in Procs : Clear(p) => PlacesKnown(p) /\ SendersKnown(p)

(* Calls that have no caller to look up.                                    *)
NoCallerNoLib == \A t \in AllThreads : call[t].kind \in NoCaller => call[t].lib = NoLib

LEMMA NoCallerStep == TypeOK /\ NoCallerNoLib /\ [Next]_vars => NoCallerNoLib'
<1> SUFFICES ASSUME TypeOK, NoCallerNoLib, [Next]_vars PROVE NoCallerNoLib'
  OBVIOUS
<1>1. CASE UNCHANGED vars
  BY <1>1 DEF NoCallerNoLib, vars, threadVars
<1>2. ASSUME NEW t \in AllThreads, Enter(t) \/ Step(t)
      PROVE  NoCallerNoLib'
  <2>1. \A u \in AllThreads : u # t => call'[u] = call[u]
    BY <1>2, OthersStay
  <2>2. call'[t].kind \in NoCaller => call'[t].lib = NoLib
    <3>1. CASE Call(t)
      <4>1. PICK c \in CallRecords : Begin(t, c) /\ (c.kind \in NoCaller => c.lib = NoLib)
        BY <3>1, CallBegins
      <4>2. call'[t] = c
        BY <4>1 DEF Begin, TypeOK
      <4> QED BY <4>1, <4>2
    <3>2. CASE Fork(t)
      <4>1. call'[t] = [NoCall EXCEPT !.kind = "fork", !.no = Len(calls[Parent]) + 1]
        BY <3>2 DEF Fork, TypeOK
      <4> QED BY <4>1 DEF NoCall
    <3>3. CASE Return(t)
      <4>1. call[t] \in CallRecords
        BY DEF TypeOK
      <4>2. call' = call \/ call'[t] = [call[t] EXCEPT !.nested = FALSE, !.again = TRUE]
        BY <3>3 DEF Return, TypeOK
      <4>3. call'[t].kind = call[t].kind /\ call'[t].lib = call[t].lib
        BY <4>1, <4>2 DEF CallRecords
      <4> QED BY <4>3 DEF NoCallerNoLib
    <3>4. CASE call' = call
      BY <3>4 DEF NoCallerNoLib
    <3> QED BY <1>2, <3>1, <3>2, <3>3, <3>4 DEF Enter, Step, PreloadInit, Mallopt, AnnounceImage,
              TestFlag, SetFlag, LookUp, Store, Terminate, AnnounceLibrary, SendReport, ClearFlag,
              threadVars
  <2> QED BY <2>1, <2>2 DEF NoCallerNoLib
<1> QED BY <1>1, <1>2 DEF Next

(* What is known stays known.                                               *)
LEMMA KnownGrows ==
  ASSUME TypeOK, [Next]_vars, NEW p, NEW l, Known(p, l)
  PROVE  Known(p, l)'
<1>1. CASE recording' = recording
  BY <1>1 DEF Known, Announced
<1>2. CASE recording' # recording
  <2>1. PICK m \in Messages : recording' = Append(recording, m)
    BY <1>2, RecordsOwn DEF Next, vars
  <2> QED BY <2>1, AnnouncedGrows DEF Known
<1> QED BY <1>1, <1>2

(* A step of a thread of p that leaves the table alone, and does not bring  *)
(* the thread to a report of a call from a library.                         *)
LEMMA PlacesKept ==
  ASSUME TypeOK, [Next]_vars, NEW p, dyn'[p] = dyn[p], PlacesKnown(p), SendersKnown(p),
         \A u \in ThreadsOf(p) :
           \/ pc'[u] = pc[u] /\ call'[u] = call[u]
           \/ /\ \A l : pc[u] \in {"terminate", "announce"} /\ call[u].lib = l => Known(p, l)'
              /\ \A l : pc'[u] = "send" /\ call'[u].lib = l /\ l # NoLib => Known(p, l)'
  PROVE  PlacesKnown(p)' /\ SendersKnown(p)'
<1>1. \A l : Known(p, l) => Known(p, l)'
  BY KnownGrows
<1>2. ASSUME NEW l, BeingStored(p, l)
      PROVE  BeingStored(p, l)' \/ Known(p, l)'
  <2>1. PICK u \in ThreadsOf(p) : pc[u] \in {"terminate", "announce"} /\ call[u].lib = l
    BY <1>2 DEF BeingStored
  <2>2. CASE pc'[u] = pc[u] /\ call'[u] = call[u]
    BY <2>1, <2>2 DEF BeingStored
  <2> QED BY <2>1, <2>2
<1>3. PlacesKnown(p)'
  BY <1>1, <1>2 DEF PlacesKnown
<1>4. SendersKnown(p)'
  <2> SUFFICES ASSUME NEW u \in ThreadsOf(p), NEW l, pc'[u] = "send", call'[u].lib = l, l # NoLib
               PROVE  Known(p, l)'
    BY DEF SendersKnown
  <2>1. CASE pc'[u] = pc[u] /\ call'[u] = call[u]
    BY <1>1, <2>1 DEF SendersKnown
  <2> QED BY <2>1
<1> QED BY <1>3, <1>4

(* The two writes of a library's place.                                     *)
LEMMA PlacesWritten ==
  ASSUME TypeOK, [Next]_vars, NEW t \in AllThreads, Store(t) \/ Terminate(t),
         PlacesKnown(Proc(t)), SendersKnown(Proc(t))
  PROVE  PlacesKnown(Proc(t))' /\ SendersKnown(Proc(t))'
<1> DEFINE p == Proc(t)
<1>0. p \in Procs /\ t \in ThreadsOf(p) /\ \A u \in ThreadsOf(p) : u \in AllThreads
  BY ProcOfThread DEF ThreadsOf
<1>1. \A l : Known(p, l) => Known(p, l)'
  BY KnownGrows
<1>2. \A u \in ThreadsOf(p) : u # t => pc'[u] = pc[u]
  BY <1>0, OthersStay DEF Step
<1>3. /\ call' = call /\ pc[t] \in {"store", "terminate"}
      /\ pc'[t] \in {"terminate", "announce"}
  BY DEF Store, Terminate, At, Goto, TypeOK
<1>4. \A l : BeingStored(p, l) => BeingStored(p, l)'
  BY <1>2, <1>3 DEF BeingStored
<1>5. BeingStored(p, call[t].lib)'
  BY <1>0, <1>3 DEF BeingStored
<1>6. SendersKnown(p)'
  BY <1>1, <1>2, <1>3 DEF SendersKnown
<1>7. ASSUME NEW k \in 1..DynMax+1
      PROVE  dyn'[p][k] \in {dyn[p][k], call[t].lib, NoLib}
  <2>1. dyn \in [Procs -> [1..DynMax+1 -> Callers]]
    BY DEF TypeOK
  <2>2. CASE dyn' = [dyn EXCEPT ![p] = [dyn[p] EXCEPT ![slot[t]] = call[t].lib]]
    BY <1>0, <2>1, <2>2
  <2>3. CASE dyn' = [dyn EXCEPT ![p] = [dyn[p] EXCEPT ![slot[t] + 1] = NoLib]]
    BY <1>0, <2>1, <2>3
  <2> QED BY <2>2, <2>3 DEF Store, Terminate
<1>8. PlacesKnown(p)'
  BY <1>1, <1>3, <1>4, <1>5, <1>7 DEF PlacesKnown
<1> QED BY <1>6, <1>8

(* The steps of the only thread of p in the library.                        *)
LEMMA KnownSelf ==
  ASSUME TypeOK, [Next]_vars, NoCallerNoLib, NoCallerNoLib',
         NEW t \in AllThreads, Enter(t) \/ Step(t),
         AloneIn(Proc(t)), Clear(Proc(t))', PlacesKnown(Proc(t)), SendersKnown(Proc(t))
  PROVE  PlacesKnown(Proc(t))' /\ SendersKnown(Proc(t))'
<1> DEFINE p == Proc(t)
<1>0. p \in Procs /\ t \in ThreadsOf(p) /\ \A u \in ThreadsOf(p) : u \in AllThreads
  BY ProcOfThread DEF ThreadsOf
<1>1. \A u \in ThreadsOf(p) : u # t => pc'[u] = pc[u] /\ call'[u] = call[u]
  BY <1>0, OthersStay
<1>2. ASSUME dyn'[p] = dyn[p],
             \A l : pc[t] \in {"terminate", "announce"} /\ call[t].lib = l => Known(p, l)',
             \A l : pc'[t] = "send" /\ call'[t].lib = l /\ l # NoLib => Known(p, l)'
      PROVE  PlacesKnown(p)' /\ SendersKnown(p)'
  BY <1>1, <1>2, PlacesKept
<1>3. CASE Store(t) \/ Terminate(t)
  BY <1>3, PlacesWritten
<1>4. CASE PreloadInit(t)
  <2>1. /\ dyn' = [dyn EXCEPT ![p] = [i \in 1..DynMax+1 |-> NoLib]]
        /\ pc'[t] = "init" /\ \A u \in ThreadsOf(p) : pc[u] = "idle"
    BY <1>4 DEF PreloadInit, Goto, TypeOK
  <2>2. \A k \in 1..DynMax+1 : dyn'[p][k] = NoLib
    BY <1>0, <2>1 DEF TypeOK
  <2>3. \A u \in ThreadsOf(p) : pc'[u] # "send"
    BY <1>1, <2>1
  <2> QED BY <2>2, <2>3 DEF PlacesKnown, SendersKnown
<1>5. CASE Call(t)
  <2>1. PICK c \in CallRecords : Begin(t, c)
    BY <1>5, CallBegins
  <2>2. pc[t] = "idle" /\ dyn' = dyn
    BY <1>5 DEF Call, At
  <2>3. call'[t] = c /\ pc'[t] = FirstStep(c.kind, c.nested)
    BY <2>1 DEF Begin, Goto, TypeOK
  <2>4. pc'[t] = "send" => call'[t].lib = NoLib
    BY <2>3 DEF FirstStep, NoCallerNoLib, NoCaller
  <2> QED BY <1>2, <2>2, <2>4
<1>6. CASE Fork(t)
  <2>1. dyn'[p] = dyn[p] /\ pc[t] = "idle"
    BY <1>6 DEF Fork, At, TypeOK
  <2>2. call'[t].kind = "fork"
    <3>1. call'[t] = [NoCall EXCEPT !.kind = "fork", !.no = Len(calls[Parent]) + 1]
      BY <1>6 DEF Fork, TypeOK
    <3> QED BY <3>1 DEF NoCall
  <2>3. call'[t].lib = NoLib
    BY <2>2 DEF NoCallerNoLib, NoCaller
  <2> QED BY <1>2, <2>1, <2>3
<1>7. CASE Mallopt(t)
  <2>1. dyn' = dyn /\ pc[t] = "idle" /\ pc' = pc
    BY <1>7 DEF Mallopt, At, threadVars
  <2> QED BY <1>2, <2>1
<1>8. CASE AnnounceImage(t) \/ TestFlag(t) \/ ClearFlag(t) \/ SendReport(t)
  <2>1. dyn' = dyn /\ pc[t] \in {"init", "test", "clear", "send"}
    BY <1>8 DEF AnnounceImage, TestFlag, ClearFlag, SendReport, At
  <2>2. pc'[t] # "send"
    <3>1. CASE Return(t)
      BY <3>1, ReturnTypes
    <3>2. CASE \E where \in {"idle", "set", "clear"} : Goto(t, where)
      BY <3>2 DEF Goto, TypeOK
    <3> QED BY <1>8, <3>1, <3>2 DEF AnnounceImage, TestFlag, ClearFlag, SendReport
  <2> QED BY <1>2, <2>1, <2>2
<1>9. CASE SetFlag(t)
  <2>1. /\ dyn' = dyn /\ pc[t] = "set" /\ call' = call
        /\ pc'[t] = (IF call[t].kind = "free" THEN "send" ELSE "look")
    BY <1>9 DEF SetFlag, At, Goto, TypeOK
  <2>2. pc'[t] = "send" => call'[t].lib = NoLib
    BY <2>1 DEF NoCallerNoLib, NoCaller
  <2> QED BY <1>2, <2>1, <2>2
<1>10. CASE AnnounceLibrary(t)
  <2>1. /\ dyn' = dyn /\ call' = call /\ pc[t] = "announce"
    BY <1>10 DEF AnnounceLibrary, At, processVars
  <2>2. Announcement("EXTERNAL", p, call[t].lib) \in Messages
    BY <1>0, AnnouncementIsMessage DEF TypeOK, CallRecords
  <2> DEFINE m == Announcement("EXTERNAL", p, call[t].lib)
  <2>3. m.word = "EXTERNAL" /\ m.pid = p /\ m.lib = call[t].lib
    BY DEF Announcement
  <2>4. recording' = Append(recording, m) \/ Notice(p, {"interrupted"})
    BY <1>10, <2>3 DEF AnnounceLibrary, Send
  <2>5. ~Notice(p, {"interrupted"})
    <3>1. "interrupted" \notin trouble'[p]
      BY DEF Clear
    <3>2. trouble \in [Procs -> SUBSET {"overlap", "interrupted", "full", "deaf"}]
      BY DEF TypeOK
    <3> QED BY <1>0, <3>1, <3>2 DEF Notice
  <2>6. \A l : call[t].lib = l => Known(p, l)'
    <3>1. m \in Messages /\ recording' = Append(recording, m)
      BY <2>2, <2>4, <2>5
    <3> HIDE DEF m
    <3> QED BY <2>3, <3>1, AnnouncedGrows DEF Known
  <2> QED BY <1>2, <2>1, <2>6
<1>11. CASE LookUp(t)
  <2> DEFINE lib == call[t].lib
  <2>1. dyn' = dyn /\ call' = call /\ pc[t] = "look"
    BY <1>11 DEF LookUp, At, processVars
  <2>2. PICK n \in 0..DynMax :
          \/ ~IsNew(p, n, lib)
          \/ Notice(p, {"full"})
          \/ Goto(t, "store")
    BY <1>11 DEF LookUp
  <2>3. ~Notice(p, {"full"})
    <3>1. "full" \notin trouble'[p]
      BY DEF Clear
    <3>2. trouble \in [Procs -> SUBSET {"overlap", "interrupted", "full", "deaf"}]
      BY DEF TypeOK
    <3> QED BY <1>0, <3>1, <3>2 DEF Notice
  <2>4. ASSUME ~IsNew(p, n, lib), lib # NoLib
        PROVE  Known(p, lib)
    <3>1. PICK i \in 1..n : dyn[p][i] = lib
      BY <2>4 DEF IsNew
    <3>2. i \in 1..DynMax+1
      BY <3>1
    <3>3. ~BeingStored(p, lib)
      BY <1>0, <2>1 DEF BeingStored, AloneIn
    <3> QED BY <2>4, <3>1, <3>2, <3>3 DEF PlacesKnown
  <2>5. pc'[t] = "send" => lib = NoLib \/ Known(p, lib)
    <3>1. CASE Goto(t, "store")
      BY <3>1 DEF Goto, TypeOK
    <3> QED BY <2>2, <2>3, <2>4, <3>1
  <2>6. \A l : Known(p, l) => Known(p, l)'
    BY KnownGrows
  <2> QED BY <1>2, <2>1, <2>5, <2>6
<1> QED BY <1>3, <1>4, <1>5, <1>6, <1>7, <1>8, <1>9, <1>10, <1>11 DEF Enter, Step

(* A child is born with its parent's table, of which the parent has         *)
(* announced every library: the thread that forks is the only one, and      *)
(* stores none.                                                             *)
LEMMA KnownByBirth ==
  ASSUME TypeOK, Origin, Origin', [Next]_vars, NEW t \in AllThreads, Fork(t),
         Clear(Child)', PlacesKnown(Parent)
  PROVE  PlacesKnown(Child)' /\ SendersKnown(Child)'
<1>0. Parent \in Procs /\ Child \in Procs /\ Proc(t) = Parent /\ ChildThread \in AllThreads
  BY DEF Fork, Procs, AllThreads
<1>1. dyn'[Child] = dyn[Parent] /\ recording' = recording
  BY <1>0 DEF Fork, TypeOK
<1>2. pc[t] = "idle" /\ pc'[t] = "send" /\ t # ChildThread
  BY DEF Fork, At, Goto, TypeOK, Proc
<1>3. pc'[ChildThread] = "idle"
  <2>1. pc[ChildThread] = "idle"
    BY DEF Fork, Origin
  <2> QED BY <1>0, <1>2, <2>1, OthersStay DEF Enter
<1>4. \A u \in ThreadsOf(Parent) : pc[u] = "idle"
  <2>1. "overlap" \notin trouble'[Parent]
    BY DEF Clear
  <2> QED BY <1>0, <1>2, <2>1, EntersAlone DEF Enter
<1>5. \A l : ~BeingStored(Parent, l)
  BY <1>4 DEF BeingStored
<1>6. \A l : Known(Parent, l) => Known(Child, l)'
  BY <1>1 DEF Known, Announced
<1>7. PlacesKnown(Child)'
  BY <1>1, <1>5, <1>6 DEF PlacesKnown
<1>8. \A u \in ThreadsOf(Child) : u = ChildThread
  BY DEF ThreadsOf, Proc
<1> QED BY <1>3, <1>7, <1>8 DEF SendersKnown

LEMMA KnownStep ==
  /\ TypeOK /\ Origin /\ Origin' /\ Alone /\ NoCallerNoLib /\ NoCallerNoLib' /\ KnownInv
  /\ [Next]_vars
  => KnownInv'
<1> SUFFICES ASSUME TypeOK, Origin, Origin', Alone, NoCallerNoLib, NoCallerNoLib', KnownInv,
                    [Next]_vars, NEW p \in Procs, Clear(p)'
             PROVE  PlacesKnown(p)' /\ SendersKnown(p)'
  BY DEF KnownInv
<1>0. Parent \in Procs
  BY DEF Procs
<1>1. CASE UNCHANGED vars
  <2>1. Clear(p)
    BY <1>1 DEF Clear, vars, historyVars
  <2>2. PlacesKnown(p) /\ SendersKnown(p)
    BY <2>1 DEF KnownInv
  <2> QED BY <1>1, <2>2, PlacesKept DEF vars, processVars, threadVars
<1>2. ASSUME NEW t \in AllThreads, Enter(t) \/ Step(t)
      PROVE  PlacesKnown(p)' /\ SendersKnown(p)'
  <2>0. Clear(Parent) /\ "overlap" \notin trouble[Parent]
    <3>1. trouble[Parent] \subseteq trouble'[Parent]
      BY <1>0, TroubleRemembered
    <3> QED BY <3>1 DEF Clear
  <2>1. CASE Fork(t) /\ p = Child
    <3>1. PlacesKnown(Parent)
      BY <1>0, <2>0 DEF KnownInv
    <3> QED BY <2>1, <3>1, KnownByBirth
  <2>2. CASE ~(Fork(t) /\ p = Child)
    <3>1. trouble[p] \subseteq trouble'[p]
      <4>1. CASE p = Parent \/ stage[p] # "unborn"
        BY <4>1, TroubleRemembered
      <4>2. CASE p = Child /\ stage[p] = "unborn"
        <5>1. Proc(t) # p
          BY <1>2, <4>2, ActsAlive
        <5> QED BY <1>2, <2>2, <4>2, <5>1, OthersKeep
      <4> QED BY <4>1, <4>2 DEF Procs
    <3>2. Clear(p) /\ "overlap" \notin trouble[p]
      BY <2>0, <3>1 DEF Clear
    <3>3. PlacesKnown(p) /\ SendersKnown(p) /\ AloneIn(p)
      BY <3>2 DEF KnownInv, Alone
    <3>4. CASE Proc(t) = p
      BY <1>2, <3>3, <3>4, KnownSelf
    <3>5. CASE Proc(t) # p
      <4>1. ~Fork(t)
        BY <2>2, <3>5 DEF Fork, Procs
      <4>2. dyn'[p] = dyn[p]
        BY <1>2, <3>5, <4>1, OthersKeep
      <4>3. \A u \in ThreadsOf(p) : pc'[u] = pc[u] /\ call'[u] = call[u]
        BY <1>2, <3>5, OthersStay DEF ThreadsOf
      <4> QED BY <3>3, <4>2, <4>3, PlacesKept
    <3> QED BY <3>4, <3>5
  <2> QED BY <2>1, <2>2
<1> QED BY <1>1, <1>2 DEF Next

(* What Resolvable says of the message at i.                                *)
ResolvableAt(i) ==
  /\ recording[1].word = "NEWEXEC"
  /\ recording[i].lib # NoLib /\ recording[i].word # "EXTERNAL" =>
       \E j \in 1..i-1 : /\ recording[j].word = "EXTERNAL"
                         /\ recording[j].lib = recording[i].lib
                         /\ recording[j].pid \in {Parent, recording[i].pid}

LEMMA ResolvableStep ==
  /\ TypeOK /\ Origin /\ Origin' /\ ImageFirst' /\ KnownInv /\ Resolvable /\ [Next]_vars
  => Resolvable'
<1> SUFFICES ASSUME TypeOK, Origin, Origin', ImageFirst', KnownInv, Resolvable, [Next]_vars,
                    NEW i \in 1..Len(recording'), NEW q, q = recording'[i].pid, Clear(q)'
             PROVE  ResolvableAt(i)'
  BY DEF Resolvable, ResolvableAt, Clear
<1>0. Parent \in Procs /\ recording \in Seq(Messages)
  BY DEF Procs, TypeOK
<1>1. CASE i \in 1..Len(recording) /\ recording'[i] = recording[i] /\ recording'[1] = recording[1]
           /\ \A j \in 1..i-1 : recording'[j] = recording[j]
  <2>1. q \in Procs
    <3>1. recording[i] \in Messages
      BY <1>0, <1>1
    <3> QED BY <1>1, <3>1 DEF Messages
  <2>2. q = Parent \/ stage[q] # "unborn"
    BY <1>1, <2>1 DEF Origin, Procs
  <2>3. trouble[q] \subseteq trouble'[q] /\ trouble[Parent] \subseteq trouble'[Parent]
    BY <1>0, <2>1, <2>2, TroubleRemembered
  <2>4. Clear(q)
    BY <2>3 DEF Clear
  <2>5. ResolvableAt(i)
    BY <1>1, <2>4 DEF Resolvable, ResolvableAt, Clear
  <2> QED BY <1>1, <2>5 DEF ResolvableAt
<1>2. CASE recording' = recording
  BY <1>0, <1>1, <1>2
<1>3. ASSUME NEW t \in AllThreads, Enter(t) \/ Step(t), recording' # recording
      PROVE  ResolvableAt(i)'
  <2> DEFINE p == Proc(t)
  <2>1. PICK m \in Messages :
          /\ m.pid = p /\ recording' = Append(recording, m)
          /\ \/ m.word = "NEWEXEC" /\ m.lib = NoLib
             \/ m.word = "EXTERNAL"
             \/ SendReport(t) /\ m = Report(t)
    BY <1>3, RecordsOwn
  <2>2. /\ Len(recording) \in Nat /\ Len(recording') = Len(recording) + 1
        /\ recording'[Len(recording) + 1] = m
        /\ \A j \in 1..Len(recording) : recording'[j] = recording[j]
    BY <2>1, Appended
  <2>3. CASE i \in 1..Len(recording)
    BY <1>1, <2>2, <2>3
  <2>4. CASE i = Len(recording) + 1
    <3>0. p \in Procs /\ t \in ThreadsOf(p) /\ recording'[i] = m /\ q = p
      BY <2>1, <2>2, <2>4, ProcOfThread
    <3>1. recording'[1].word = "NEWEXEC"
      <4>1. "interrupted" \notin trouble'[Parent]
        BY DEF Clear
      <4>2. recording' # <<>>
        BY <2>2
      <4>3. stage'[Parent] # "fresh"
        BY <4>2 DEF Origin
      <4> QED BY <4>1, <4>3 DEF ImageFirst
    <3>2. ASSUME SendReport(t), m = Report(t), m.lib # NoLib
          PROVE  \E j \in 1..i-1 : /\ recording'[j].word = "EXTERNAL"
                                   /\ recording'[j].lib = m.lib
                                   /\ recording'[j].pid \in {Parent, m.pid}
      <4>1. stage[p] # "unborn"
        BY <1>3, ActsAlive
      <4>2. Clear(p)
        <5>1. trouble[p] \subseteq trouble'[p] /\ trouble[Parent] \subseteq trouble'[Parent]
          BY <1>0, <3>0, <4>1, TroubleRemembered
        <5> QED BY <3>0, <5>1 DEF Clear
      <4>3. pc[t] = "send" /\ m.lib = call[t].lib
        BY <3>2 DEF SendReport, At, Report
      <4>4. Known(p, m.lib)
        BY <3>0, <3>2, <4>2, <4>3 DEF KnownInv, SendersKnown
      <4>5. PICK j \in 1..Len(recording) :
              /\ recording[j].word = "EXTERNAL" /\ recording[j].lib = m.lib
              /\ recording[j].pid \in {Parent, p}
        BY <4>4 DEF Known, Announced
      <4>6. j \in 1..i-1
        BY <2>2, <2>4
      <4> QED BY <2>1, <2>2, <4>5, <4>6
    <3> QED BY <2>1, <3>0, <3>1, <3>2 DEF ResolvableAt
  <2> QED BY <2>2, <2>3, <2>4
<1> QED BY <1>2, <1>3 DEF Next, vars

(* The image comes first, and the library of a caller before its calls,     *)
(* whether the process announced it or found it in the table it was born    *)
(* with.                                                                    *)
THEOREM AddressesResolve == Spec => []Resolvable
<1> DEFINE Inv == /\ Origin /\ ImageFirst /\ Alone /\ NoCallerNoLib /\ KnownInv /\ Resolvable
<1>1. Init => Inv
  <2> SUFFICES ASSUME Init PROVE Inv
    OBVIOUS
  <2>1. NoCallerNoLib
    BY DEF Init, NoCallerNoLib, NoCall
  <2>2. KnownInv
    <3>1. \A p \in Procs : PlacesKnown(p)
      BY DEF Init, PlacesKnown
    <3>2. \A p \in Procs : SendersKnown(p)
      BY DEF Init, SendersKnown, ThreadsOf
    <3> QED BY <3>1, <3>2 DEF KnownInv
  <2>3. Resolvable
    BY DEF Init, Resolvable
  <2> QED BY <2>1, <2>2, <2>3, RecordingInit
<1>2. TypeOK /\ Inv /\ [Next]_vars => Inv'
  BY OriginStep, ImageFirstStep, AloneStep, NoCallerStep, KnownStep, ResolvableStep
<1> QED BY <1>1, <1>2, TypeCorrect, PTL DEF Spec

=============================================================================
