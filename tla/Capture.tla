------------------------------ MODULE Capture ------------------------------
(***************************************************************************)
(* What the preload library reports of a program with several threads: the *)
(* wrappers of src/preload/main.c, step by step, in a process and in one   *)
(* child it forks. The threads of a process share, without a lock, the     *)
(* flag preload_antirecursive and the table dyn_libs of libraries already  *)
(* reported; a child starts with a copy of both.                           *)
(*                                                                         *)
(* The program's environment names the queue (HTH_MSQ). How the queue is   *)
(* bounded and read is in Recorder; here msgsnd appends to the recording,  *)
(* or is interrupted by a signal's handler, and then the message is lost.  *)
(*                                                                         *)
(* Wrappers that do the same with different words are one kind of call:    *)
(* "malloc" is also calloc, "memalign" also aligned_alloc, valloc and      *)
(* pvalloc, "mark" every hth_... function of a linked program; "nofork" is  *)
(* a fork that fails.                                                      *)
(***************************************************************************)
EXTENDS Integers, Sequences

CONSTANTS
  Parent, Child,  \* the two processes
  Threads,        \* threads of the parent
  ChildThread,    \* the one thread of the child
  Addrs,          \* addresses the allocator hands out
  Null,           \* the null pointer
  Libs,           \* shared libraries that call the allocator
  NoLib,          \* a caller in the binary itself, or one dladdr1 cannot place
  DynMax,         \* usable places of dyn_libs
  Wrapped,        \* kinds of calls a run allows
  MaxCalls,       \* bound: calls in a behaviour
  Rare, MaxRare,  \* bound: calls in a behaviour with one of these kinds
  Lossy           \* words of the messages an interrupt may lose in a run

Procs == {Parent, Child}
AllThreads == Threads \cup {ChildThread}

(* The wrappers that test and set preload_antirecursive, and the others.    *)
Guarded == {"malloc", "realloc", "free"}
Unguarded == {"reallocarray", "memalign", "posix_memalign", "mark", "fork", "nofork"}
CallKinds == Guarded \cup Unguarded
CallWords == {"MALLOC", "REALLOC", "FREE", "MEMALIGN", "CUSTOM", "FORK INTO", "FORK FAILURE"}
Words == CallWords \cup {"NEWEXEC", "EXTERNAL"}

ASSUME NamesAssumption ==
  /\ Parent # Child /\ ChildThread \notin Threads
  /\ Null \notin Addrs /\ NoLib \notin Libs

ASSUME SizesAssumption == DynMax \in Nat /\ MaxCalls \in Nat /\ MaxRare \in Nat

VARIABLES
  stage,      \* of a process: "unborn", "fresh", "ready" (initialised), "dead"
  flag,       \* preload_antirecursive of a process
  dyn,        \* dyn_libs of a process, NoLib for NULL; place DynMax+1 ends it
  heap,       \* addresses allocated in a process
  held,       \* those of them its program has been given
  pc,         \* where a thread is in a wrapper, "idle" outside
  call,       \* the call a thread is making
  slot,       \* the place is_new returned to a thread
  recording,  \* every message put on the queue, in order
  calls,      \* history: the calls of a process, in the order they took place
  trouble     \* history: what has happened to a process

processVars == <<stage, flag, dyn, heap, held>>
threadVars == <<pc, call, slot>>
historyVars == <<calls, trouble>>
vars == <<processVars, threadVars, recording, historyVars>>

Pointers == Addrs \cup {Null}
Callers == Libs \cup {NoLib}

(* old: the pointer given; new: the result; told: the result in the report; *)
(* nested: whether the libc calls another wrapper first; again: whether it  *)
(* has done so; no: which call of the process it is.                        *)
CallRecords == [kind : CallKinds, old : Pointers, new : Pointers, told : Pointers,
                lib : Callers, nested : BOOLEAN, again : BOOLEAN, no : Nat]

Messages == [word : Words, pid : Procs, no : Nat, old : Pointers, new : Pointers,
             lib : Callers, again : BOOLEAN]

Proc(t) == IF t = ChildThread THEN Child ELSE Parent
ThreadsOf(p) == {t \in AllThreads : Proc(t) = p}

NoCall == [kind |-> "mark", old |-> Null, new |-> Null, told |-> Null,
           lib |-> NoLib, nested |-> FALSE, again |-> FALSE, no |-> 0]

-----------------------------------------------------------------------------
(* A definition named Faulty... is what the definition after it would be    *)
(* with a plausible bug in the code: no part of the specification.          *)

Notice(p, what) == trouble' = [trouble EXCEPT ![p] = @ \cup what]

Goto(t, where) == pc' = [pc EXCEPT ![t] = where]

At(t, where) == pc[t] = where /\ stage[Proc(t)] \in {"fresh", "ready"}

(* send_msg: msgsnd delivers, or returns EINTR, which only a debug build    *)
(* looks at.                                                                *)
Send(m) ==
  \/ recording' = Append(recording, m) /\ UNCHANGED trouble
  \/ m.word \in Lossy /\ Notice(m.pid, {"interrupted"}) /\ UNCHANGED recording

Announcement(word, p, lib) ==
  [word |-> word, pid |-> p, no |-> 0, old |-> Null, new |-> Null, lib |-> lib,
   again |-> FALSE]

(* The first call of a process looks up the real functions with the flag    *)
(* set, so that what dlsym allocates stays unreported, and announces the    *)
(* image. It is made by a single thread: starting another one allocates.    *)
(* The wrapper then goes on (a later step Call), except free, which is over *)
(* without having freed.                                                    *)
PreloadInit(t) ==
  LET p == Proc(t) IN
  /\ At(t, "idle") /\ stage[p] = "fresh"
  /\ \A u \in ThreadsOf(p) : pc[u] = "idle"
  /\ flag' = [flag EXCEPT ![p] = TRUE]
  /\ dyn' = [dyn EXCEPT ![p] = [i \in 1..DynMax+1 |-> NoLib]]
  /\ Goto(t, "init")
  /\ UNCHANGED <<stage, heap, held, call, slot, recording, historyVars>>

FaultyAnnounceImage(t) ==
  LET p == Proc(t) IN
  /\ At(t, "init")
  /\ stage' = [stage EXCEPT ![p] = "ready"]
  /\ flag' = [flag EXCEPT ![p] = FALSE]
  /\ Goto(t, "idle")
  /\ UNCHANGED <<dyn, heap, held, call, slot, calls, recording, trouble>>

AnnounceImage(t) ==
  LET p == Proc(t) IN
  /\ At(t, "init")
  /\ Send(Announcement("NEWEXEC", p, NoLib))
  /\ stage' = [stage EXCEPT ![p] = "ready"]
  /\ flag' = [flag EXCEPT ![p] = FALSE]
  /\ Goto(t, "idle")
  /\ UNCHANGED <<dyn, heap, held, call, slot, calls>>

(* Two threads of a process inside the library at once. *)
Meets(t) ==
  IF \E u \in ThreadsOf(Proc(t)) \ {t} : pc[u] # "idle" THEN {"overlap"} ELSE {}

-----------------------------------------------------------------------------
(* The real function. An address is allocated from here on, but the program *)
(* has it only when the wrapper returns; freed memory may be given to       *)
(* another thread at once.                                                  *)

NoCaller == {"free", "mark", "fork", "nofork"}

Results(p, kind, old) ==
  CASE kind \in NoCaller -> {Null}
    [] kind \in {"realloc", "reallocarray"} ->
         (Addrs \ heap[p]) \cup ({old} \cap Addrs) \cup {Null}
    [] OTHER -> (Addrs \ heap[p]) \cup {Null}

(* What is given away: a failed realloc leaves the old memory alone.        *)
Given(kind, old, new) ==
  IF kind = "free" \/ (new # Null /\ kind \in {"realloc", "reallocarray"})
  THEN {old} ELSE {}

Arguments(p, kind) ==
  IF kind \in {"free", "realloc", "reallocarray"} THEN held[p] \cup {Null} ELSE {Null}

(* What the report will say: posix_memalign's tells what the caller's       *)
(* pointer holds, which a failed call has not set.                          *)
Tellings(kind, new) ==
  IF kind = "posix_memalign" /\ new = Null THEN Pointers ELSE {new}

CallersOf(kind) == IF kind \in NoCaller THEN {NoLib} ELSE Callers

(* The guarded wrappers first test the flag, the others go straight to the  *)
(* library check; free and the annotations have no caller to check.         *)
(* reallocarray of the libc calls realloc, unless the product overflows,    *)
(* and that is the wrapper.                                                 *)
FirstStep(kind, nested) ==
  CASE kind \in Guarded \/ nested -> "test"
    [] kind \in {"mark", "fork", "nofork"} -> "send"
    [] OTHER -> "look"

FaultyBegin(t, c) ==
  LET p == Proc(t) IN
  /\ heap' = [heap EXCEPT ![p] = (@ \ Given(c.kind, c.old, c.new)) \cup ({c.new} \ {Null})]
  /\ held' = [held EXCEPT ![p] = (@ \ Given(c.kind, c.old, c.new)) \cup ({c.new} \ {Null})]
  /\ calls' = [calls EXCEPT ![p] = Append(@, [kind |-> c.kind, old |-> c.old, new |-> c.new])]
  /\ call' = [call EXCEPT ![t] = c]
  /\ Goto(t, FirstStep(c.kind, c.nested))

Begin(t, c) ==
  LET p == Proc(t) IN
  /\ heap' = [heap EXCEPT ![p] = (@ \ Given(c.kind, c.old, c.new)) \cup ({c.new} \ {Null})]
  /\ held' = [held EXCEPT ![p] = @ \ Given(c.kind, c.old, c.new)]
  /\ calls' = [calls EXCEPT ![p] = Append(@, [kind |-> c.kind, old |-> c.old, new |-> c.new])]
  /\ call' = [call EXCEPT ![t] = c]
  /\ Goto(t, FirstStep(c.kind, c.nested))

MayCall(kind) ==
  LET made == calls[Parent] \o calls[Child]
      rare == kind \in Rare \/ \E i \in 1..Len(made) : made[i].kind \in Rare
  IN  kind \in Wrapped /\ Len(made) < (IF rare THEN MaxRare ELSE MaxCalls)

Call(t) ==
  LET p == Proc(t) IN
  /\ At(t, "idle") /\ stage[p] = "ready"
  /\ Notice(p, Meets(t))
  /\ \E kind \in CallKinds \ {"fork"} : MayCall(kind) /\
     \E old \in Arguments(p, kind), lib \in CallersOf(kind),
        nested \in IF kind = "reallocarray" THEN BOOLEAN ELSE {FALSE} :
     \E new \in Results(p, kind, old) :
     \E told \in Tellings(kind, new) :
       Begin(t, [kind |-> kind, old |-> old, new |-> new, told |-> told, lib |-> lib,
                 nested |-> nested, again |-> FALSE, no |-> Len(calls[p]) + 1])
  /\ UNCHANGED <<stage, flag, dyn, slot, recording>>

(* mallopt calls orig_mallopt, which nothing has set. *)
Mallopt(t) ==
  /\ At(t, "idle") /\ stage[Proc(t)] = "ready" /\ "mallopt" \in Wrapped
  /\ stage' = [stage EXCEPT ![Proc(t)] = "dead"]
  /\ UNCHANGED <<flag, dyn, heap, held, threadVars, recording, historyVars>>

(* fork: the child has its parent's memory as it is, the flag and the table *)
(* of libraries included, and of its threads only the one that forks. The   *)
(* parent says so later; the sleeps on both sides order nothing. A child    *)
(* with the flag set is deaf: it has no thread that would clear it.         *)
Fork(t) ==
  /\ At(t, "idle") /\ stage[Parent] = "ready" /\ Proc(t) = Parent
  /\ stage[Child] = "unborn" /\ MayCall("fork")
  /\ stage' = [stage EXCEPT ![Child] = "ready"]
  /\ flag' = [flag EXCEPT ![Child] = flag[Parent]]
  /\ dyn' = [dyn EXCEPT ![Child] = dyn[Parent]]
  /\ heap' = [heap EXCEPT ![Child] = heap[Parent]]
  /\ held' = [held EXCEPT ![Child] = held[Parent]]
  /\ trouble' = [trouble EXCEPT ![Parent] = @ \cup Meets(t),
                                ![Child] = IF flag[Parent] THEN {"deaf"} ELSE {}]
  /\ calls' = [calls EXCEPT ![Parent] =
                  Append(@, [kind |-> "fork", old |-> Null, new |-> Null])]
  /\ call' = [call EXCEPT ![t] =
                 [NoCall EXCEPT !.kind = "fork", !.no = Len(calls[Parent]) + 1]]
  /\ Goto(t, "send")
  /\ UNCHANGED <<slot, recording>>

-----------------------------------------------------------------------------
(* The report.                                                              *)

(* A call runs under the flag between setting and clearing it.              *)
UnderFlag(t) == call[t].kind \in Guarded \/ call[t].nested

(* The wrapper is over: the program has its memory, or the libc goes on     *)
(* behind the wrapper it has called.                                        *)
Return(t) ==
  IF call[t].nested
  THEN /\ call' = [call EXCEPT ![t].nested = FALSE, ![t].again = TRUE]
       /\ Goto(t, "look")
       /\ UNCHANGED held
  ELSE /\ held' = [held EXCEPT ![Proc(t)] = @ \cup ({call[t].new} \ {Null})]
       /\ Goto(t, "idle")
       /\ UNCHANGED call

FaultyTestFlag(t) ==
  /\ At(t, "test")
  /\ ~flag[Proc(t)]
  /\ Goto(t, "set")
  /\ UNCHANGED <<processVars, call, slot, recording, historyVars>>

(* if (!preload_antirecursive) *)
TestFlag(t) ==
  /\ At(t, "test")
  /\ IF flag[Proc(t)] THEN Return(t) ELSE Goto(t, "set") /\ UNCHANGED <<call, held>>
  /\ UNCHANGED <<stage, flag, dyn, heap, slot, recording, historyVars>>

(* preload_antirecursive = 1: a separate step, another thread may have      *)
(* passed the test as well.                                                 *)
SetFlag(t) ==
  /\ At(t, "set")
  /\ flag' = [flag EXCEPT ![Proc(t)] = TRUE]
  /\ Goto(t, IF call[t].kind = "free" THEN "send" ELSE "look")
  /\ UNCHANGED <<stage, dyn, heap, held, call, slot, recording, historyVars>>

(* is_new goes through the places before the first free one (n of them).    *)
Listed(p, n) ==
  /\ \A i \in 1..n : dyn[p][i] # NoLib
  /\ n = DynMax \/ dyn[p][n+1] = NoLib

IsNew(p, n, lib) == lib # NoLib /\ \A i \in 1..n : dyn[p][i] # lib

FaultyLookUp(t) ==
  LET p == Proc(t) IN
  /\ At(t, "look")
  /\ \E n \in 0..DynMax : Listed(p, n) /\
       IF IsNew(p, n, call[t].lib)
       THEN slot' = [slot EXCEPT ![t] = n + 1] /\ Goto(t, "store")
       ELSE Goto(t, "send") /\ UNCHANGED slot
  /\ UNCHANGED <<processVars, call, recording, historyVars>>

(* One step: the code reads place by place, which differs only if another   *)
(* thread stores meanwhile, when "overlap" is noticed.                      *)
LookUp(t) ==
  LET p == Proc(t)  lib == call[t].lib IN
  /\ At(t, "look")
  /\ \E n \in 0..DynMax : Listed(p, n) /\
       \/ /\ ~IsNew(p, n, lib)
          /\ Goto(t, "send")
          /\ UNCHANGED <<slot, trouble>>
       \/ /\ IsNew(p, n, lib) /\ n = DynMax
          /\ Goto(t, "send")
          /\ Notice(p, {"full"})
          /\ UNCHANGED slot
       \/ /\ IsNew(p, n, lib) /\ n < DynMax
          /\ slot' = [slot EXCEPT ![t] = n + 1]
          /\ Goto(t, "store")
          /\ UNCHANGED trouble
  /\ UNCHANGED <<processVars, call, recording, calls>>

(* dyn_libs[res] = ...; dyn_libs[res+1] = NULL;                             *)
FaultyStore(t) ==
  /\ At(t, "store")
  /\ Goto(t, "terminate")
  /\ UNCHANGED <<processVars, call, slot, recording, historyVars>>

Store(t) ==
  /\ At(t, "store")
  /\ dyn' = [dyn EXCEPT ![Proc(t)][slot[t]] = call[t].lib]
  /\ Goto(t, "terminate")
  /\ UNCHANGED <<stage, flag, heap, held, call, slot, recording, historyVars>>

Terminate(t) ==
  /\ At(t, "terminate")
  /\ dyn' = [dyn EXCEPT ![Proc(t)][slot[t] + 1] = NoLib]
  /\ Goto(t, "announce")
  /\ UNCHANGED <<stage, flag, heap, held, call, slot, recording, historyVars>>

AnnounceLibrary(t) ==
  /\ At(t, "announce")
  /\ Send(Announcement("EXTERNAL", Proc(t), call[t].lib))
  /\ Goto(t, "send")
  /\ UNCHANGED <<processVars, call, slot, calls>>

Word(kind) ==
  CASE kind = "malloc" -> "MALLOC"
    [] kind \in {"realloc", "reallocarray"} -> "REALLOC"
    [] kind = "free" -> "FREE"
    [] kind \in {"memalign", "posix_memalign"} -> "MEMALIGN"
    [] kind = "mark" -> "CUSTOM"
    [] kind = "fork" -> "FORK INTO"
    [] kind = "nofork" -> "FORK FAILURE"

FaultyReport(t) ==
  LET c == call[t] IN
  [word |-> Word(c.kind), pid |-> Proc(t), no |-> c.no, old |-> c.told, new |-> c.old,
   lib |-> c.lib, again |-> c.again]

(* Marked "again" (history) when a nested wrapper has reported the call.    *)
Report(t) ==
  LET c == call[t] IN
  [word |-> Word(c.kind), pid |-> Proc(t), no |-> c.no, old |-> c.old, new |-> c.told,
   lib |-> c.lib, again |-> c.again]

SendReport(t) ==
  /\ At(t, "send")
  /\ Send(Report(t))
  /\ IF UnderFlag(t) THEN Goto(t, "clear") /\ UNCHANGED <<call, held>> ELSE Return(t)
  /\ UNCHANGED <<stage, flag, dyn, heap, slot, calls>>

FaultyClearFlag(t) ==
  /\ At(t, "clear")
  /\ Return(t)
  /\ UNCHANGED <<stage, flag, dyn, heap, slot, recording, historyVars>>

(* preload_antirecursive = 0 *)
ClearFlag(t) ==
  /\ At(t, "clear")
  /\ flag' = [flag EXCEPT ![Proc(t)] = FALSE]
  /\ Return(t)
  /\ UNCHANGED <<stage, dyn, heap, slot, recording, historyVars>>

-----------------------------------------------------------------------------
Init ==
  /\ stage = [p \in Procs |-> IF p = Parent THEN "fresh" ELSE "unborn"]
  /\ flag = [p \in Procs |-> FALSE]
  /\ dyn = [p \in Procs |-> [i \in 1..DynMax+1 |-> NoLib]]
  /\ heap = [p \in Procs |-> {}]
  /\ held = [p \in Procs |-> {}]
  /\ pc = [t \in AllThreads |-> "idle"]
  /\ call = [t \in AllThreads |-> NoCall]
  /\ slot = [t \in AllThreads |-> 0]
  /\ recording = <<>>
  /\ calls = [p \in Procs |-> <<>>]
  /\ trouble = [p \in Procs |-> {}]

(* What a thread in the library does next. *)
Step(t) ==
  \/ AnnounceImage(t)
  \/ TestFlag(t) \/ SetFlag(t)
  \/ LookUp(t) \/ Store(t) \/ Terminate(t) \/ AnnounceLibrary(t)
  \/ SendReport(t) \/ ClearFlag(t)

(* What the program does. *)
Enter(t) ==
  PreloadInit(t) \/ Call(t) \/ Mallopt(t) \/ Fork(t)

Next == \E t \in AllThreads : Enter(t) \/ Step(t)

Spec == Init /\ [][Next]_vars

-----------------------------------------------------------------------------
(* Properties. *)

(* Types; a place of dyn_libs that is written exists (main.c:152-153).      *)
TypeOK ==
  /\ stage \in [Procs -> {"unborn", "fresh", "ready", "dead"}]
  /\ flag \in [Procs -> BOOLEAN]
  /\ dyn \in [Procs -> [1..DynMax+1 -> Callers]]
  /\ heap \in [Procs -> SUBSET Addrs]
  /\ held \in [Procs -> SUBSET Addrs]
  /\ pc \in [AllThreads -> {"idle", "init", "test", "set", "look", "store", "terminate",
                            "announce", "send", "clear"}]
  /\ call \in [AllThreads -> CallRecords]
  /\ slot \in [AllThreads -> 0..DynMax]
  /\ \A t \in AllThreads : pc[t] \in {"store", "terminate"} => slot[t] # 0
  /\ recording \in Seq(Messages)
  /\ calls \in [Procs -> Seq([kind : CallKinds, old : Pointers, new : Pointers])]
  /\ trouble \in [Procs -> SUBSET {"overlap", "interrupted", "full", "deaf"}]

(* Where a thread is when its process has the flag because of it. *)
Inside(t) ==
  \/ pc[t] = "init"
  \/ pc[t] \in {"look", "store", "terminate", "announce", "send", "clear"} /\ UnderFlag(t)

(* A set flag means that some thread of the process is inside the guarded   *)
(* part and will clear it: the recording of a process does not stop for     *)
(* good, whatever its threads do, unless it was forked with the flag set.   *)
FlagHeld ==
  \A p \in Procs : flag[p] => "deaf" \in trouble[p] \/ \E t \in ThreadsOf(p) : Inside(t)

(* What the recording says of a process's calls, without the second reports *)
(* of reallocarray.                                                         *)
Reports(p) ==
  {i \in 1..Len(recording) : LET m == recording[i] IN
     m.pid = p /\ m.word \in CallWords /\ ~m.again}

(* A process whose calls do not overlap (a forked child, which has one      *)
(* thread, is one), whose signals interrupt no message and which was not    *)
(* forked with the flag set is recorded completely: every call once, in the *)
(* order in which they changed the heap; only the one being made may still  *)
(* be missing. The test of the flag, its clearing and the order of effect   *)
(* and report in every wrapper have to fit for that (main.c:275-366).       *)
SequentialExact ==
  \A p \in Procs : trouble[p] \cap {"overlap", "interrupted", "deaf"} = {} =>
    /\ \A i \in Reports(p) : recording[i].no \in 1..Len(calls[p])
    /\ \A i, j \in Reports(p) : i < j => recording[i].no < recording[j].no
    /\ \A n \in 1..Len(calls[p]) :
         \/ \E i \in Reports(p) : recording[i].no = n
         \/ n = Len(calls[p]) /\ \E t \in ThreadsOf(p) : pc[t] # "idle"

(* Whatever the threads do, a report is about a call that took place, with  *)
(* its word, pointer and result, and no call is reported twice; except that *)
(* a failed posix_memalign tells an old value, and that reallocarray is     *)
(* reported by the realloc inside it as well.                               *)
TrueReports ==
  \A i \in 1..Len(recording) :
    LET m == recording[i] IN m.word \in CallWords =>
      /\ m.no \in 1..Len(calls[m.pid])
      /\ LET c == calls[m.pid][m.no] IN
           /\ m.word = Word(c.kind) /\ m.old = c.old
           /\ m.new = c.new \/ c.kind = "posix_memalign"
      /\ ~m.again => \A j \in 1..i-1 :
           recording[j].word \in CallWords =>
             <<recording[j].pid, recording[j].no>> # <<m.pid, m.no>>

(* Memory is never reported as freed or moved before it is reported as      *)
(* allocated, also when another thread frees it: the allocating wrapper     *)
(* reports before it returns, and nobody has the address earlier. (The      *)
(* converse does not hold between threads: free reports after the memory is *)
(* back in the heap, and a new owner may be reported first.) So nothing     *)
(* behind the report of a free is about an earlier call that made what it   *)
(* frees.                                                                   *)
AllocatedBeforeFreed ==
  \A i, j \in 1..Len(recording) :
    LET m == recording[i]  later == recording[j] IN
    /\ i < j /\ m.pid = later.pid /\ later.word \in CallWords
    /\ m.word \in {"FREE", "REALLOC"} /\ m.old # Null /\ later.no < m.no
    => calls[m.pid][later.no].new # m.old

(* The address a report was called from can be resolved: the image comes    *)
(* first, and the library of the caller has been announced before, by the   *)
(* process or by the parent it was forked from; unless the table was full,  *)
(* a message was lost, or threads met.                                      *)
Resolvable ==
  \A i \in 1..Len(recording) :
    LET m == recording[i] IN
    (trouble[Parent] \cup trouble[m.pid]) \cap {"overlap", "interrupted", "full"} = {} =>
      /\ recording[1].word = "NEWEXEC"
      /\ m.lib # NoLib /\ m.word # "EXTERNAL" =>
           \E j \in 1..i-1 : /\ recording[j].word = "EXTERNAL" /\ recording[j].lib = m.lib
                            /\ recording[j].pid \in {Parent, m.pid}

(* A process announces a library once, unless threads looked it up at the   *)
(* same time: two threads may be given the same place of dyn_libs, and one  *)
(* of the libraries is forgotten.                                           *)
AnnouncedOnce ==
  \A i, j \in 1..Len(recording) :
    /\ i < j /\ recording[i].word = "EXTERNAL" /\ recording[j].word = "EXTERNAL"
    /\ recording[i].lib = recording[j].lib /\ recording[i].pid = recording[j].pid
    => "overlap" \in trouble[recording[i].pid]

(* A process that is alive keeps being recorded: the flag is clear again    *)
(* and again, unless it was forked with the flag set.                       *)
HearsAgain ==
  \A p \in Procs :
    []<>(~flag[p] \/ "deaf" \in trouble[p] \/ stage[p] = "dead")

(* Every call returns to the program: a wrapper cannot loop, the flag makes *)
(* nobody wait.                                                             *)
CallsReturn ==
  \A t \in AllThreads : (pc[t] # "idle") ~> (pc[t] = "idle" \/ stage[Proc(t)] = "dead")

(* A thread inside the library goes on: it waits for nothing but room in    *)
(* the queue, and the manager empties that as long as it runs.              *)
FairSpec == Spec /\ \A t \in AllThreads : WF_vars(Step(t))

=============================================================================
