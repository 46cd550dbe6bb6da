------------------------------ MODULE Recorder ------------------------------
(***************************************************************************)
(* The heap recorder while it records: processes that run under the        *)
(* preload library and the console put messages on one System V queue; the *)
(* manager process takes them off one by one, keeps them in the            *)
(* operations[] table and writes the table to a file when asked to.        *)
(*                                                                         *)
(* Sources: src/rec/manager.c, src/rec/export.c, the senders in            *)
(* src/preload/main.c and the commands of src/rec/console.c that become    *)
(* messages.                                                               *)
(*                                                                         *)
(* A message is a record [kind, pid, arg, img]: its first word, the " :pid" *)
(* the preload library appends (Console for the console, which appends     *)
(* none), what the handler looks at in the other words, and the program    *)
(* image of the sender (an address in the message: main's for NEWEXEC, the *)
(* library's base for EXTERNAL; addresses differ between images).          *)
(***************************************************************************)
EXTENDS Integers, Sequences, FiniteSets, SequencesExt

CONSTANTS
  Procs,         \* processes that can run under the preload library
  Console,       \* sender of the commands; also the pid 0 of a record
  Libs,          \* shared libraries a process can allocate from
  Traffic,       \* kinds of messages, words in them and events a run allows
  MaxOps,        \* operations[1024]
  StepSize,      \* MAXRECORD_STEPSIZE
  MaxLibs,       \* libname[128]
  MaxSettings,   \* exportsettings[1024]
  QueueCap,      \* messages the kernel's queue holds (msg_qbytes)
  MaxSent,       \* bound: messages sent in a behaviour
  MaxNext,       \* bound: "next" commands in a behaviour
  AllocMayFail,  \* whether the manager's malloc and realloc can return NULL
  OpenMayFail    \* whether fopen(outfile, "w") can fail

HeapKinds == {"MALLOC", "CALLOC", "REALLOC", "MEMALIGN"}

RecordKinds == HeapKinds \cup {"FREE", "NEWEXEC", "CUSTOM", "FORK"}

Kinds == RecordKinds \cup {"EXTERNAL", "next", "set", "save", "#", "other", "QUIT"}

(* What a handler sees in a message's words: "" nothing, "null" the pointer *)
(* 0x0, "digit" a one-digit size of a REALLOC or alignment of a MEMALIGN,    *)
(* "long" a custom text of more than two words, "many" one that brings the   *)
(* message to more than the sixteen words args[] has room for, "bare" fewer  *)
(* words than the handler reads, "nomain" a NEWEXEC without an address, a    *)
(* kind of setting ("" for "set debug" and for a set without a value), a pid *)
(* or a library.                                                             *)
SetKeys == {"outfile", "exec", "export"}
Words == {"", "null", "digit", "long", "many", "bare", "nomain"} \cup SetKeys
Args == Words \cup Procs \cup Libs

ASSUME SizesAssumption ==
  /\ MaxOps \in Nat \ {0} /\ StepSize \in Nat \ {0}
  /\ MaxLibs \in Nat /\ MaxSettings \in Nat
  /\ QueueCap \in Nat \ {0} /\ MaxSent \in Nat /\ MaxNext \in Nat

ASSUME NamesAssumption ==
  /\ Console \notin Procs
  /\ Words \cap (Procs \cup Libs) = {}
  /\ AllocMayFail \in BOOLEAN /\ OpenMayFail \in BOOLEAN

VARIABLES
  queue,           \* the message queue, oldest message first
  mgr,             \* "running", "saving" (inside mgr_export), or how it ended
  ops,             \* operations[0..op_ctr]
  op_ctr,
  execs,           \* every newexec_record, in order of arrival
  current_exec,    \* index of the current one, 0 for NULL
  exportsettings,
  outfile,         \* whether an output file name is set
  program,         \* whether a program name is set
  file,            \* what is on disk of the export (NoFile: nothing)
  phase,           \* of each process: "unborn", "up", "gone"
  forking,         \* child a process has forked and not yet reported
  known,           \* dyn_libs: libraries a process has reported
  image,           \* the program image a process runs, 0 for none
  sent,            \* history: every message ever put on the queue
  lost             \* history: the messages that left no record, or whose
                   \* record is gone, because of the manager's own memory

senderVars == <<phase, forking, known, image>>
execVars == <<execs, current_exec>>
optionVars == <<exportsettings, outfile, program>>
memoryVars == <<ops, op_ctr, execVars, optionVars, lost>>
vars == <<queue, mgr, memoryVars, file, senderVars, sent>>

Pids == Procs \cup {Console}
Messages == [kind : Kinds, pid : Pids, arg : Args, img : Nat]

(* heap_record: "pid" is what the manager wrote there, "from" the process   *)
(* that sent the message (history), "exec" the newexec_record pointed to.   *)
Records == [kind : RecordKinds, pid : Pids, from : Pids, arg : Args, exec : Nat]

(* newexec_record: the image announced and who announced it; of a library,  *)
(* the image it is mapped in and who reported it.                           *)
LibEntries == [lib : Args, img : Nat, from : Pids]
ExecRecords == [img : Nat, from : Pids, libs : Seq(LibEntries)]

(* operation_record: "slots" is how many records the array behind the       *)
(* pointer holds, 0 when the pointer is NULL.                               *)
OpRecords == [recs : Seq(Records), size : Nat, max_size : Nat, slots : Nat]

(* A record in the export, with the DYNAMIC lines below a PROCESS_START.    *)
Lines == [kind : RecordKinds, pid : Pids, from : Pids, arg : Args, libs : Seq(LibEntries)]

NoFile == [ops |-> <<>>, settings |-> <<>>, program |-> FALSE, end |-> FALSE]

-----------------------------------------------------------------------------
(* A definition named Faulty... is what the definition after it would be    *)
(* with a plausible bug in the code: no part of the specification, and used *)
(* to see that the properties notice the bug.                               *)

(* Sending. msgsnd blocks while the queue is full: the action is disabled. *)

Msg(kind, pid, arg, img) == [kind |-> kind, pid |-> pid, arg |-> arg, img |-> img]

Post(m) ==
  /\ m.kind \in Traffic
  /\ m.arg \in Traffic \cup Procs \cup Libs \cup {""}
  /\ Len(queue) < QueueCap
  /\ Len(sent) < MaxSent
  /\ queue' = Append(queue, m)
  /\ sent' = Append(sent, m)
  /\ UNCHANGED <<mgr, memoryVars, file>>

(* A process between fork() and the message about it can do nothing else.  *)
Active(p) == phase[p] = "up" /\ forking[p] = Console

(* A new image has no reported libraries and an address space of its own. *)
NewImage(p) ==
  /\ phase' = [phase EXCEPT ![p] = "up"]
  /\ image' = [image EXCEPT ![p] = Len(sent) + 1]
  /\ known' = [known EXCEPT ![p] = {}]
  /\ UNCHANGED forking

SilentImage(p) == NewImage(p) /\ UNCHANGED <<queue, mgr, memoryVars, file, sent>>

(* preload_init that says nothing about a binary that exports no main. *)
FaultyAnnounce(p, exported) ==
  /\ phase[p] = "unborn" \/ Active(p)
  /\ IF exported
     THEN Post(Msg("NEWEXEC", p, "", Len(sent) + 1)) /\ NewImage(p)
     ELSE "NEWEXEC" \in Traffic /\ SilentImage(p)

(* The first intercepted call of a new image, or of one that replaces the   *)
(* process's image: preload_init announces it, with main's address if the   *)
(* binary exports main. *)
Announce(p, exported) ==
  /\ phase[p] = "unborn" \/ Active(p)
  /\ Post(Msg("NEWEXEC", p, IF exported THEN "" ELSE "nomain", Len(sent) + 1))
  /\ NewImage(p)

(* orig_fork() returns in both processes; the child inherits the image.    *)
Fork(p, c) ==
  /\ "FORK" \in Traffic
  /\ Active(p) /\ phase[c] = "unborn"
  /\ phase' = [phase EXCEPT ![c] = "up"]
  /\ image' = [image EXCEPT ![c] = image[p]]
  /\ known' = [known EXCEPT ![c] = known[p]]
  /\ forking' = [forking EXCEPT ![p] = c]
  /\ UNCHANGED <<queue, mgr, memoryVars, file, sent>>

(* "FORK INTO child FROM :parent", sent by the parent.                      *)
ReportFork(p) ==
  /\ phase[p] = "up" /\ forking[p] # Console
  /\ Post(Msg("FORK", p, forking[p], image[p]))
  /\ forking' = [forking EXCEPT ![p] = Console]
  /\ UNCHANGED <<phase, known, image>>

(* check_for_new_ext_lib: the first allocation made from inside a library.  *)
ReportLibrary(p, l) ==
  /\ Active(p) /\ l \notin known[p]
  /\ Post(Msg("EXTERNAL", p, l, image[p]))
  /\ known' = [known EXCEPT ![p] = @ \cup {l}]
  /\ UNCHANGED <<phase, forking, image>>

(* The intercepted allocator calls, hth_* annotations and FORK FAILURE;     *)
(* hth_send_message passes any text on, a comment too. mallopt never reports:*)
(* its wrapper calls through a pointer nobody sets.                          *)
Report(p) ==
  /\ Active(p)
  /\ \/ \E k \in HeapKinds \cup {"#", "other"} : Post(Msg(k, p, "", image[p]))
     \/ \E k \in {"REALLOC", "MEMALIGN"} : Post(Msg(k, p, "digit", image[p]))
     \/ \E a \in {"", "null"} : Post(Msg("FREE", p, a, image[p]))
     \/ \E a \in {"", "long", "many"} : Post(Msg("CUSTOM", p, a, image[p]))
  /\ UNCHANGED senderVars

(* A process ends, by itself or by a signal, a fork report unsent or not.   *)
Leave(p) ==
  /\ "EXIT" \in Traffic
  /\ phase[p] = "up"
  /\ phase' = [phase EXCEPT ![p] = "gone"]
  /\ UNCHANGED <<queue, mgr, memoryVars, file, forking, known, image, sent>>

NextsSent == Cardinality({i \in 1..Len(sent) : sent[i].kind = "next"})

(* Commands that reach the manager (send_direct, set_operation,             *)
(* exit_operation). A custom command without text has arg "null". QUIT may  *)
(* be typed like any word the console does not know: that ends the manager, *)
(* not the console.                                                         *)
Command ==
  /\ \/ \E k \in {"save", "other", "QUIT"} : Post(Msg(k, Console, "", 0))
     \/ NextsSent < MaxNext /\ Post(Msg("next", Console, "", 0))
     \/ \E a \in {"", "null", "many"} : Post(Msg("CUSTOM", Console, a, 0))
     \/ \E a \in SetKeys \cup {""} : Post(Msg("set", Console, a, 0))
  /\ UNCHANGED senderVars

(* console_exec sends what is no command of the console as it is, so the    *)
(* words of the preload library can be typed too: whole, or with too little *)
(* after them.                                                              *)
Typed ==
  /\ "TYPED" \in Traffic
  /\ \/ \E k \in HeapKinds \cup {"FREE"}, a \in {"", "bare"} : Post(Msg(k, Console, a, 0))
     \/ \E k \in {"EXTERNAL", "FORK"} : Post(Msg(k, Console, "bare", 0))
     \/ \E l \in Libs : Post(Msg("EXTERNAL", Console, l, 0))
     \/ Post(Msg("NEWEXEC", Console, "nomain", Len(sent) + 1))
  /\ UNCHANGED senderVars

-----------------------------------------------------------------------------
(* The manager: start_listener takes the oldest message (msgtyp 0) and      *)
(* calls mgr_handle_message.                                                *)

Handled == Len(sent) - Len(queue)

(* Taking a message of one of these kinds. *)
Receive(kinds) ==
  /\ mgr = "running" /\ queue # <<>>
  /\ Head(queue).kind \in kinds
  /\ queue' = Tail(queue)
  /\ UNCHANGED <<sent, senderVars>>

InTable == op_ctr < MaxOps

(* What the messages say should be in memory: which operation message n     *)
(* goes to, and which of the messages up to n have a record in it, "without"*)
(* the lost ones.                                                           *)
Nexts(msgs, n, without) == {i \in 1..n : msgs[i].kind = "next" /\ i \notin without}

OperationAt(msgs, n, without) ==
  LET begun == 1 + Cardinality(Nexts(msgs, n, without)) IN
  IF begun < MaxOps THEN begun ELSE MaxOps

(* free(0x0), a custom without text and a typed word that is too bare are    *)
(* worth no record.                                                         *)
IsRecorded(m) == m.kind \in RecordKinds /\ m.arg \notin {"null", "bare"}

Recorded(op, msgs, n, without) ==
  {i \in 1..n : /\ IsRecorded(msgs[i]) /\ i \notin without
                /\ OperationAt(msgs, i, without) = op}

WithCurrent(op) == [ops EXCEPT ![op_ctr + 1] = op]

(* Grows one message too late. *)
FaultyGrown ==
  LET op == ops[op_ctr + 1] IN
  IF op.size <= op.max_size THEN {op}
  ELSE {[op EXCEPT !.max_size = @ + StepSize, !.slots = op.max_size + StepSize]}

(* What the current operation may look like after the growth check at the   *)
(* head of mgr_handle_message. max_size is raised and the pointer           *)
(* overwritten before anything is tested, and what is tested is not the     *)
(* pointer: when realloc fails the array is out of reach, with all its      *)
(* records, and the handler goes on.                                        *)
Grown ==
  LET op == ops[op_ctr + 1]
      bigger == [op EXCEPT !.max_size = @ + StepSize] IN
  IF op.size < op.max_size THEN {op}
  ELSE {[bigger EXCEPT !.slots = op.max_size + StepSize]} \cup
       IF AllocMayFail THEN {[bigger EXCEPT !.slots = 0, !.recs = <<>>]} ELSE {}

(* The messages whose records go with an array that is out of reach.        *)
Forgotten(op) == IF op.slots = 0 THEN Recorded(op_ctr + 1, sent, Handled, lost) ELSE {}

Keep(op) == ops' = WithCurrent(op) /\ lost' = lost \cup Forgotten(op)

(* A handler that stores nothing has still run the growth check.            *)
NothingStored == \E op \in Grown : Keep(op)

(* A handler that gives up on its message.                                  *)
Dropped == \E op \in Grown : /\ ops' = WithCurrent(op)
                             /\ lost' = lost \cup Forgotten(op) \cup {Handled + 1}

RecordOf(m, pid, exec) ==
  [kind |-> m.kind, pid |-> pid, from |-> m.pid, arg |-> m.arg, exec |-> exec]

(* Writes the slot before records[size]. *)
FaultyAdded(op, r) ==
  IF op.recs = <<>> THEN [op EXCEPT !.recs = <<r>>, !.size = 1]
  ELSE [op EXCEPT !.recs = Append(Front(@), r)]

(* records[size] = r; size++ *)
Added(op, r) == [op EXCEPT !.recs = Append(@, r), !.size = @ + 1]

(* The records array is there and takes r. *)
Stored(r) == \E op \in Grown : op.slots # 0 /\ Keep(Added(op, r))

(* A comment returns before anything is touched.                            *)
HandleComment ==
  /\ Receive({"#"})
  /\ UNCHANGED <<mgr, memoryVars, file>>

(* operations[1024] is past the end of the table: reading its size is       *)
(* undefined, and the model follows the manager no further.                *)
HandlePastTable ==
  /\ Receive(Kinds \ {"#"}) /\ ~InTable
  /\ mgr' = "crashed"
  /\ UNCHANGED <<memoryVars, file>>

(* A record stored through the NULL that a failed realloc has left behind.  *)
HandleWithoutArray ==
  /\ Receive(RecordKinds) /\ InTable
  /\ IsRecorded(Head(queue))
  /\ \E op \in Grown : op.slots = 0 /\ Keep(op)
  /\ mgr' = "crashed"
  /\ UNCHANGED <<op_ctr, execVars, optionVars, file>>

HasLib(exec, l) == \E i \in 1..Len(exec.libs) : exec.libs[i].lib = l

(* The search of mgr_add_external that compares with nothing. *)
FaultyTakesLib(exec, l) == Len(exec.libs) < MaxLibs

(* What the search of mgr_add_external finds out.                          *)
TakesLib(exec, l) == ~HasLib(exec, l) /\ Len(exec.libs) < MaxLibs

(* Messages a handler cannot digest: it reads words that are not there,     *)
(* walks the libraries of no exec, or was handed an args[] overrun by       *)
(* str_split.                                                               *)
Malformed(m) ==
  \/ m.arg \in {"bare", "many"}
  \/ m.kind = "EXTERNAL" /\ current_exec = 0

HandleMalformed ==
  /\ Receive(Kinds) /\ InTable
  /\ Malformed(Head(queue))
  /\ NothingStored
  /\ mgr' = "crashed"
  /\ UNCHANGED <<op_ctr, execVars, optionVars, file>>

(* str_split's seventeenth word and later ones land behind args[], which    *)
(* may well be the text itself: the first word is then none the manager     *)
(* knows. (Or it crashes, HandleMalformed, or gets away with it.)           *)
HandleOverrun ==
  /\ Receive({"CUSTOM"}) /\ InTable
  /\ Head(queue).arg = "many"
  /\ Dropped
  /\ UNCHANGED <<mgr, op_ctr, execVars, optionVars, file>>

(* Whether the handler allocates something for m. *)
Allocates(m) ==
  \/ m.kind \in HeapKinds \cup {"FREE", "NEWEXEC"}
  \/ m.kind = "CUSTOM" /\ m.arg # "null"
  \/ m.kind = "FORK" /\ m.arg # "bare"
  \/ m.kind = "EXTERNAL" /\ ~Malformed(m) /\ TakesLib(execs[current_exec], m.arg)
  \/ m.kind = "next" /\ op_ctr + 1 < MaxOps
  \/ m.kind = "set" /\ m.arg = "outfile" /\ ~outfile
  \/ m.kind = "set" /\ m.arg = "exec" /\ ~program
  \/ m.kind = "set" /\ m.arg = "export" /\ Len(exportsettings) < MaxSettings

(* Handlers that test the pointer malloc returned drop the message. *)
ChecksMalloc(m) == m.kind \in HeapKinds \cup {"FREE", "EXTERNAL"}

(* malloc returns NULL: the message is lost, or the pointer is used.        *)
HandleOutOfMemory ==
  /\ AllocMayFail /\ Receive(Kinds) /\ InTable
  /\ Allocates(Head(queue))
  /\ mgr' = IF ChecksMalloc(Head(queue)) THEN mgr ELSE "crashed"
  /\ Dropped
  /\ UNCHANGED <<op_ctr, execVars, optionVars, file>>

(* mgr_malloc, mgr_calloc, mgr_realloc, mgr_memalign. Those of REALLOC and  *)
(* MEMALIGN read the pid only if args[2], the size or alignment, is longer  *)
(* than one character; else the record keeps the zero of its fresh pages    *)
(* (MAXRECORD_STEPSIZE records are mapped, not taken from the heap).        *)
HandleHeapEvent ==
  /\ Receive(HeapKinds) /\ InTable
  /\ IsRecorded(Head(queue))
  /\ LET m == Head(queue) IN
     Stored(RecordOf(m, IF m.arg = "digit" THEN Console ELSE m.pid, 0))
  /\ UNCHANGED <<mgr, op_ctr, execVars, optionVars, file>>

(* mgr_free behind a growth check that gives up after growing. *)
FaultyHandleFree ==
  /\ Receive({"FREE"}) /\ InTable
  /\ IF IsRecorded(Head(queue)) /\ ops[op_ctr + 1] \in Grown
     THEN Stored(RecordOf(Head(queue), Head(queue).pid, 0))
     ELSE NothingStored
  /\ UNCHANGED <<mgr, op_ctr, execVars, optionVars, file>>

(* mgr_free: free(0x0) is not worth a record.                               *)
HandleFree ==
  /\ Receive({"FREE"}) /\ InTable
  /\ LET m == Head(queue) IN
     \/ m.arg = "null" /\ NothingStored
     \/ IsRecorded(m) /\ Stored(RecordOf(m, m.pid, 0))
  /\ UNCHANGED <<mgr, op_ctr, execVars, optionVars, file>>

NewExecRecord(m) == [img |-> m.img, from |-> m.pid, libs |-> <<>>]

(* mgr_newexec without its last assignment. *)
FaultyHandleNewExec ==
  /\ Receive({"NEWEXEC"}) /\ InTable
  /\ execs' = Append(execs, NewExecRecord(Head(queue)))
  /\ current_exec' = IF current_exec = 0 THEN 1 ELSE current_exec
  /\ Stored(RecordOf(Head(queue), Head(queue).pid, Len(execs) + 1))
  /\ UNCHANGED <<mgr, op_ctr, optionVars, file>>

(* mgr_newexec. Without an address the pid is the first word: args[2] is    *)
(* NULL and the record keeps the zero its fresh pages hold.                 *)
HandleNewExec ==
  /\ Receive({"NEWEXEC"}) /\ InTable
  /\ execs' = Append(execs, NewExecRecord(Head(queue)))
  /\ current_exec' = Len(execs) + 1
  /\ LET m == Head(queue) IN
     Stored(RecordOf(m, IF m.arg = "nomain" THEN Console ELSE m.pid, Len(execs) + 1))
  /\ UNCHANGED <<mgr, op_ctr, optionVars, file>>

(* mgr_custom looks for ":pid" in the first three words only; without words *)
(* it refuses the message.                                                  *)
HandleCustom ==
  /\ Receive({"CUSTOM"}) /\ InTable
  /\ LET m == Head(queue)
         pid == IF m.arg \in {"long", "many"} THEN Console ELSE m.pid IN
     \/ m.arg = "null" /\ NothingStored
     \/ IsRecorded(m) /\ Stored(RecordOf(m, pid, 0))
  /\ UNCHANGED <<mgr, op_ctr, execVars, optionVars, file>>

(* mgr_add_fork                                                             *)
HandleFork ==
  /\ Receive({"FORK"}) /\ InTable
  /\ IsRecorded(Head(queue))
  /\ Stored(RecordOf(Head(queue), Head(queue).pid, 0))
  /\ UNCHANGED <<mgr, op_ctr, execVars, optionVars, file>>

(* mgr_add_external: the library goes to the exec announced last, whoever   *)
(* sent the message.                                                        *)
HandleExternal ==
  /\ Receive({"EXTERNAL"}) /\ InTable
  /\ ~Malformed(Head(queue))
  /\ NothingStored
  /\ LET m == Head(queue) IN
     execs' = IF TakesLib(execs[current_exec], m.arg)
              THEN [execs EXCEPT ![current_exec].libs =
                      Append(@, [lib |-> m.arg, img |-> m.img, from |-> m.pid])]
              ELSE execs
  /\ UNCHANGED <<mgr, op_ctr, current_exec, optionVars, file>>

NewOperation == [recs |-> <<>>, size |-> 0, max_size |-> StepSize, slots |-> StepSize]

(* The array of a new operation is not tested either. *)
NewOperations ==
  {NewOperation} \cup IF AllocMayFail THEN {[NewOperation EXCEPT !.slots = 0]} ELSE {}

(* mgr_next behind no look at operations[op_ctr]. *)
FaultyHandleNext ==
  /\ Receive({"next"})
  /\ op_ctr' = op_ctr + 1
  /\ ops' = IF op_ctr + 1 < MaxOps THEN Append(ops, NewOperation) ELSE ops
  /\ UNCHANGED <<mgr, execVars, optionVars, lost, file>>

(* mgr_next counts before it looks whether there is room.                   *)
HandleNext ==
  /\ Receive({"next"}) /\ InTable
  /\ op_ctr' = op_ctr + 1
  /\ \E op \in Grown, new \in NewOperations :
       /\ ops' = IF op_ctr + 1 < MaxOps THEN Append(WithCurrent(op), new)
                 ELSE WithCurrent(op)
       /\ lost' = lost \cup Forgotten(op)
  /\ UNCHANGED <<mgr, execVars, optionVars, file>>

(* mgr_set: what is no option of the manager is kept for the export.        *)
HandleSet ==
  /\ Receive({"set"}) /\ InTable
  /\ NothingStored
  /\ LET key == Head(queue).arg IN
     /\ outfile' = (outfile \/ key = "outfile")
     /\ program' = (program \/ key = "exec")
     /\ exportsettings' = IF key = "export" /\ Len(exportsettings) < MaxSettings
                          THEN Append(exportsettings, key) ELSE exportsettings
  /\ UNCHANGED <<mgr, op_ctr, execVars, file>>

(* mgr_export that refuses to overwrite an earlier export. *)
FaultyHandleSave ==
  /\ Receive({"save"}) /\ InTable
  /\ NothingStored
  /\ IF outfile /\ file = NoFile THEN mgr' = "saving" ELSE UNCHANGED mgr
  /\ UNCHANGED <<op_ctr, execVars, optionVars, file>>

(* mgr_export up to fopen, which empties an earlier export.                 *)
HandleSave ==
  /\ Receive({"save"}) /\ InTable
  /\ NothingStored
  /\ \/ outfile /\ file' = NoFile /\ mgr' = "saving"
     \/ (~outfile \/ OpenMayFail) /\ UNCHANGED <<mgr, file>>
  /\ UNCHANGED <<op_ctr, execVars, optionVars>>

(* A first word no handler knows.                                           *)
HandleOther ==
  /\ Receive({"other"}) /\ InTable
  /\ NothingStored
  /\ UNCHANGED <<mgr, op_ctr, execVars, optionVars, file>>

(* QUIT is no command of mgr_handle_message; the listener exits after it.   *)
HandleQuit ==
  /\ Receive({"QUIT"}) /\ InTable
  /\ NothingStored
  /\ mgr' = "exited"
  /\ UNCHANGED <<op_ctr, execVars, optionVars, file>>

(* export() and fclose, as what is on disk sees them: line after line, for  *)
(* stdio may pass its buffer on at any point, and the file ends there if    *)
(* the manager does. A line counts once it is there whole.                  *)
Exporting ==
  /\ mgr = "saving"
  /\ UNCHANGED <<queue, sent, senderVars, memoryVars>>

(* Whether export() can read the records of an operation, and whether all   *)
(* of operation n is in the file.                                           *)
Readable(op) == op.size = 0 \/ op.slots # 0

Complete(n) == Readable(ops[n]) /\ Len(file.ops[n]) = ops[n].size

(* The SET lines, START, and "NEXT name" (the first NEXT brings what stands *)
(* before it).                                                              *)
ExportNext ==
  /\ Exporting /\ UNCHANGED mgr
  /\ LET n == Len(file.ops) IN
     /\ n < op_ctr + 1 /\ (n # 0 => Complete(n))
     /\ file' = [ops |-> Append(file.ops, <<>>), settings |-> exportsettings,
                 program |-> program, end |-> FALSE]

LineOf(r) ==
  [kind |-> r.kind, pid |-> r.pid, from |-> r.from, arg |-> r.arg,
   libs |-> IF r.kind = "NEWEXEC" THEN execs[r.exec].libs ELSE <<>>]

ExportRecord ==
  /\ Exporting /\ UNCHANGED mgr
  /\ LET n == Len(file.ops) IN
     /\ n # 0 /\ Readable(ops[n]) /\ Len(file.ops[n]) < ops[n].size
     /\ file' = [file EXCEPT !.ops[n] =
                   Append(@, LineOf(ops[n].recs[Len(file.ops[n]) + 1]))]

(* export() that stops one operation short. *)
FaultyExportEnd ==
  /\ Exporting
  /\ LET n == Len(file.ops) IN n # 0 /\ n >= op_ctr /\ Complete(n)
  /\ file' = [file EXCEPT !.end = TRUE]
  /\ mgr' = "running"

(* export() after which the manager is done. *)
FaultyExitAtEnd ==
  /\ Exporting
  /\ LET n == Len(file.ops) IN n = op_ctr + 1 /\ Complete(n)
  /\ file' = [file EXCEPT !.end = TRUE]
  /\ mgr' = "exited"

(* END and fclose, after operations 0..op_ctr. *)
ExportEnd ==
  /\ Exporting
  /\ LET n == Len(file.ops) IN n = op_ctr + 1 /\ Complete(n)
  /\ file' = [file EXCEPT !.end = TRUE]
  /\ mgr' = "running"

(* The export comes to an operation whose array is out of reach; what stdio *)
(* still held of the lines before is not on disk.                           *)
ExportCrash ==
  /\ Exporting
  /\ \E n \in 1..Len(ops) : ~Readable(ops[n])
  /\ mgr' = "crashed"
  /\ UNCHANGED file

(* A signal from outside (Ctrl-C reaches the manager, kill(0, ..) too), in  *)
(* the middle of an export or not.                                          *)
Killed ==
  /\ "KILL" \in Traffic
  /\ mgr \in {"running", "saving"}
  /\ mgr' = "killed"
  /\ UNCHANGED <<queue, memoryVars, file, senderVars, sent>>

-----------------------------------------------------------------------------
Init ==
  /\ queue = <<>> /\ sent = <<>> /\ mgr = "running"
  /\ \E new \in NewOperations : ops = <<new>>
  /\ op_ctr = 0
  /\ execs = <<>> /\ current_exec = 0
  /\ exportsettings = <<>> /\ outfile = FALSE /\ program = FALSE
  /\ lost = {}
  /\ file = NoFile
  /\ phase = [p \in Procs |-> "unborn"]
  /\ forking = [p \in Procs |-> Console]
  /\ known = [p \in Procs |-> {}]
  /\ image = [p \in Procs |-> 0]

Senders ==
  \/ \E p \in Procs :
       \/ \E exported \in BOOLEAN : Announce(p, exported)
       \/ \E c \in Procs : Fork(p, c)
       \/ ReportFork(p)
       \/ \E l \in Libs : ReportLibrary(p, l)
       \/ Report(p)
       \/ Leave(p)
  \/ Command \/ Typed

Manager ==
  \/ HandleComment \/ HandlePastTable \/ HandleWithoutArray
  \/ HandleMalformed \/ HandleOverrun \/ HandleOutOfMemory
  \/ HandleHeapEvent \/ HandleFree \/ HandleNewExec \/ HandleCustom
  \/ HandleFork \/ HandleExternal \/ HandleNext \/ HandleSet
  \/ HandleSave \/ HandleOther \/ HandleQuit
  \/ ExportNext \/ ExportRecord \/ ExportEnd \/ ExportCrash

Next == Senders \/ Manager \/ Killed

Spec == Init /\ [][Next]_vars

(* The manager blocks in msgrcv and is scheduled like any process.          *)
FairSpec == Spec /\ WF_vars(Manager)
-----------------------------------------------------------------------------
QueueType ==
  /\ queue \in Seq(Messages) /\ sent \in Seq(Messages)
  /\ mgr \in {"running", "saving", "exited", "crashed", "killed"}

TableType ==
  /\ ops \in Seq(OpRecords) /\ op_ctr \in 0..MaxOps
  /\ execs \in Seq(ExecRecords) /\ current_exec \in Nat

OptionType ==
  /\ exportsettings \in Seq(SetKeys)
  /\ outfile \in BOOLEAN /\ program \in BOOLEAN
  /\ lost \subseteq Int

FileType ==
  file \in [ops : Seq(Seq(Lines)), settings : Seq(SetKeys),
            program : BOOLEAN, end : BOOLEAN]

SenderType ==
  /\ phase \in [Procs -> {"unborn", "up", "gone"}]
  /\ forking \in [Procs -> Pids]
  /\ known \in [Procs -> SUBSET Libs]
  /\ image \in [Procs -> Nat]

(* Type correctness: every record the manager holds or has written out has  *)
(* one of the record types of manager.h, names a sender and points to a     *)
(* kind of message that exists, and op_ctr never passes the end of the      *)
(* operations[] table by more than one.                                     *)
TypeOK == QueueType /\ TableType /\ OptionType /\ FileType /\ SenderType

(* No handler writes past the end of a live records array, also after       *)
(* dropped messages, operation changes and failed reallocs: an array has as *)
(* many slots as max_size says and no fewer than size, unless the pointer   *)
(* is NULL. Then nothing is left of it, and only a crash can follow a store *)
(* (HandleWithoutArray).                                                    *)
RecordsFit ==
  \A i \in 1..Len(ops) :
    LET op == ops[i] IN
    /\ op.size <= op.max_size
    /\ \/ op.slots = op.max_size /\ Len(op.recs) = op.size
       \/ op.slots = 0 /\ op.recs = <<>>

(* operations[0..op_ctr] are exactly the allocated ones, except after the   *)
(* "next" that found the table full: op_ctr then points past the last one.  *)
TableFollows == Len(ops) = IF op_ctr < MaxOps THEN op_ctr + 1 ELSE MaxOps

(* current_exec and the pointers in NEWEXEC records lead to exec records.   *)
ExecRefs ==
  /\ current_exec = Len(execs)
  /\ \A i \in 1..Len(ops) : \A k \in 1..Len(ops[i].recs) :
       /\ ops[i].recs[k].exec \in 0..Len(execs)
       /\ ops[i].recs[k].kind = "NEWEXEC" => ops[i].recs[k].exec # 0

(* What the check of the table in mgr_next promises: a console that begins  *)
(* too many operations is told so, and the manager goes on.                 *)
NoCrash == mgr # "crashed"

(* Why the manager can crash, and there is no other way: the table of       *)
(* operations was full, its own memory ran out (for the message it was      *)
(* handling or for an array of records), a text had too many words, or      *)
(* somebody typed a message of the preload library at the console that      *)
(* lacks words, or names a library before any exec. What the traced         *)
(* processes send by themselves never crashes it: in particular no library  *)
(* comes before the first exec, whatever they fork, exec and load.          *)
CrashCause ==
  mgr = "crashed" =>
    \/ op_ctr = MaxOps
    \/ Handled \in lost \/ \E i \in 1..Len(ops) : ops[i].slots = 0
    \/ sent[Handled].arg = "many"
    \/ sent[Handled].pid = Console /\ (sent[Handled].arg = "bare" \/ sent[Handled].kind = "EXTERNAL")

(* A line shows a record; libraries may have joined its exec since.         *)
ShownBy(line, r) == IsPrefix(line.libs, LineOf(r).libs) /\ [line EXCEPT !.libs = LineOf(r).libs] = LineOf(r)

(* What is on disk, be the export whole, cut off by a signal or a crash, or *)
(* under way, is a beginning of what is in memory, operation by operation   *)
(* and library list by library list: it never shows an event the recorder   *)
(* changed, moved to another operation or dropped later, but for operations *)
(* whose array a failed realloc has put out of reach since.                 *)
FilePrefix ==
  /\ Len(file.ops) <= Len(ops)
  /\ \A i \in 1..Len(file.ops) :
       \/ ops[i].slots = 0
       \/ /\ Len(file.ops[i]) <= Len(ops[i].recs)
          /\ \A k \in 1..Len(file.ops[i]) : ShownBy(file.ops[i][k], ops[i].recs[k])
  /\ IsPrefix(file.settings, exportsettings)

(* A library is listed at most once under an exec, although every process   *)
(* of a fork family reports it.                                             *)
LibsOnce ==
  \A e \in 1..Len(execs) : \A i, j \in 1..Len(execs[e].libs) :
    execs[e].libs[i].lib = execs[e].libs[j].lib => i = j

(* A library that a process reported is listed, with its base address,      *)
(* under the exec record of the image it is mapped in (the refinery         *)
(* subtracts this base from the addresses of that process), unless another  *)
(* process, or somebody at the console, has announced an image since: a     *)
(* process that execs beside a running one is the only way to get it wrong, *)
(* and never with an older exec or one of the process itself.               *)
LibsAttributed ==
  \A e \in 1..Len(execs) : \A i \in 1..Len(execs[e].libs) :
    LET l == execs[e].libs[i] IN
    l.from # Console /\ l.img # execs[e].img =>
      l.img < execs[e].img /\ l.from # execs[e].from

-----------------------------------------------------------------------------
Shows(r, m) == r.kind = m.kind /\ r.from = m.pid /\ r.arg = m.arg

(* The log has these operations; each has one record for each message that  *)
(* goes to it, and the one for message i stands where the order of sending  *)
(* puts it.                                                                 *)
IsLog(log, msgs, n, without) ==
  /\ Len(log) = OperationAt(msgs, n, without)
  /\ \A op \in 1..Len(log) :
       /\ Len(log[op]) = Cardinality(Recorded(op, msgs, n, without))
       /\ \A i \in Recorded(op, msgs, n, without) :
            Shows(log[op][Cardinality(Recorded(op, msgs, i, without))], msgs[i])

(* Memory holds what the handled messages said and nothing else: in the     *)
(* order they were sent, in the operation that was current, none twice, and *)
(* none lost but those whose handler found no memory or too many words, and *)
(* all those of an operation whose array could not grow.                    *)
HistoryExact ==
  mgr # "crashed" => IsLog([i \in 1..Len(ops) |-> ops[i].recs], sent, Handled, lost)

QuitBefore(n) == \E i \in 1..Len(sent) : i < n /\ sent[i].kind = "QUIT"

(* Every message is eventually handled, unless it came after QUIT: the      *)
(* listener neither stops nor skips while the queue fills and drains.       *)
EveryMessageHandled ==
  \A n \in 1..MaxSent :
    Len(sent) >= n ~> (Len(sent) - Len(queue) >= n \/ QuitBefore(n))

SaveAt(n) ==
  /\ Len(sent) >= n /\ sent[n].kind = "save"
  /\ \E i \in 1..(n-1) : sent[i].kind = "set" /\ sent[i].arg = "outfile"

Covers(n) == file.end /\ \E k \in (n-1)..Len(sent) : IsLog(file.ops, sent, k, {})

(* A save command sent after an output file was named, and not after QUIT,  *)
(* is answered by a whole file that holds everything sent before the        *)
(* command, even if QUIT follows at once.                                   *)
SaveAnswered == \A n \in 1..MaxSent : SaveAt(n) /\ ~QuitBefore(n) ~> Covers(n)

-----------------------------------------------------------------------------
(* The recorder implements the append-only log.                             *)
Entries(s) ==
  [k \in 1..Len(s) |-> [kind |-> s[k].kind, pid |-> s[k].pid, from |-> s[k].from, arg |-> s[k].arg]]

Abstract ==
  INSTANCE HeapLog WITH
    trace <- [i \in 1..Len(ops) |-> Entries(ops[i].recs)],
    file <- [i \in 1..Len(file.ops) |-> Entries(file.ops[i])],
    whole <- file.end

(* Every step of the recorder appends one entry to the current operation,   *)
(* opens a new operation, loses all of the current one, empties the export  *)
(* file, adds a line to it, closes it as a copy of the whole log, or leaves *)
(* all this alone.                                                          *)
ImplementsLog == Abstract!Spec
=============================================================================
