------------------------------ MODULE Session ------------------------------
(***************************************************************************)
(* A recording session: the console process (src/rec/console.c), which     *)
(* reads commands from a script and then from the user, starts, stops and  *)
(* feeds the target process, and ends the session; the manager process as  *)
(* the console sees it (it dies or it takes messages until QUIT); and the  *)
(* targets as the kernel sees them.                                        *)
(*                                                                         *)
(* Two things come from fork(): a child runs the console's code, with the  *)
(* console's signal handlers, until its execve; and it shares with the     *)
(* console the read position of the open script, which exit(3) rewinds to  *)
(* what the child's copy of the stream has not consumed.                   *)
(*                                                                         *)
(* Everybody who sends shares one message queue with room for so much: the *)
(* console, a child that quits, and the targets with what the preload      *)
(* library reports. msgsnd waits for room, and once the manager is gone    *)
(* nobody makes any.                                                       *)
(*                                                                         *)
(* The variable mishaps is history: the unusual things that have happened. *)
(* A property names the mishaps under which it is not promised.            *)
(*                                                                         *)
(* A definition named Faulty... is what the definition after it would be   *)
(* with a plausible bug in the code: no part of the specification.         *)
(***************************************************************************)
EXTENDS Integers, Sequences, FiniteSets

CONSTANTS
  Scripts,     \* the command files the console may be given
  ForkMayFail, \* whether fork() can fail in start_operation
  QueueRoom,   \* messages the queue holds
  Sent,        \* the signals somebody may send to the console
  MaxStarts,   \* bound: targets forked in a behaviour
  MaxTyped     \* bound: commands typed at the prompt

(* "message" is any command the console only forwards (next, save, custom,  *)
(* set outfile); "exec" runs a shell command; "empty" is an empty line.     *)
Commands == {"target", "start", "stop", "restart", "interact", "show", "exec",
             "message", "empty", "quit"}

ASSUME SessionAssumption ==
  /\ Scripts \subseteq Seq(Commands)
  /\ ForkMayFail \in BOOLEAN
  /\ QueueRoom \in Nat \ {0}
  /\ Sent \subseteq {"INT", "HUP", "TERM"}
  /\ MaxStarts \in Nat \ {0} /\ MaxTyped \in Nat

Mishaps == {"nobody", "nofork", "slowexec", "badexec", "stopped", "unkillable",
            "brokenpipe", "emptyline"}

VARIABLES
  script,       \* the command file given on the command line
  source,       \* where the console reads: "file", then "prompt"
  line,         \* next line in the console's stream buffer
  offset,       \* next line a read() of the file returns (shared with children)
  typed,        \* commands typed so far
  console,      \* [at, next]: what the console is doing, and what follows a stop
  handling,     \* signals whose handler runs: blocked, as no handler returns
  program,      \* whether the target executable has been set
  program_pid,
  piped,        \* whether execve_pipe[WRITE_END] is open
  target,       \* state of every process started
  signals,      \* signals sent to it and not delivered
  news,         \* processes with a stop or continue that waitpid has not reported
  left,         \* lines unread in a child's copy of the script's stream
  manager,      \* "up", "quit" (it read QUIT) or "killed"
  queue,        \* messages on their way to the manager
  asked,        \* history: somebody asked the console to exit
  ran,          \* history: lines of the script executed
  mishaps       \* history: unusual events

scriptVars == <<script, source, line, offset, typed, ran>>
targetVars == <<target, signals, news, left>>
vars == <<scriptVars, console, handling, program, program_pid, piped, targetVars,
          manager, queue, asked, mishaps>>

Pids == 1..MaxStarts

(* Type correctness: what the console remembers of its script and of its    *)
(* target stays within the script and the targets there were; program_pid   *)
(* is -1 after a failed fork, 0 before the first.                           *)
TypeOK ==
  /\ script \in Scripts
  /\ source \in {"file", "prompt"}
  /\ line \in 1..(Len(script) + 1) /\ offset \in 1..(Len(script) + 1)
  /\ typed \in 0..MaxTyped
  /\ console \in [at : {"ready", "sending", "polling", "killing", "restarting",
                        "writing", "looping", "leaving", "gone"},
                  next : {"ready", "restarting", "leaving"}]
  /\ handling \subseteq {"INT", "HUP", "TERM"}
  /\ program \in BOOLEAN /\ piped \in BOOLEAN /\ asked \in BOOLEAN
  /\ program_pid \in -1..MaxStarts
  /\ target \in [Pids -> {"none", "forked", "quitting", "running", "stopped",
                          "zombie", "reaped"}]
  /\ signals \in [Pids -> SUBSET {"TERM", "KILL"}]
  /\ news \subseteq Pids
  /\ left \in [Pids -> 0..Len(script)]
  /\ manager \in {"up", "quit", "killed"}
  /\ queue \in Seq({"message", "QUIT"})
  /\ ran \in Seq(1..Len(script))
  /\ mishaps \subseteq Mishaps

-----------------------------------------------------------------------------
(* Processes. A child is forked, then running; it is quitting instead when  *)
(* the handler it has from the console runs first.                          *)

Living == {"forked", "quitting", "running", "stopped"}

Alive(p) == target[p] \in Living

(* _is_running: kill(pid, 0), then a waitpid that also reports stops and    *)
(* continues. A nonzero waitpid counts as not running.                      *)
IsRunning == program_pid > 0 /\ Alive(program_pid) /\ program_pid \notin news

(* What that waitpid leaves behind: a dead child is reaped, news is told.   *)
Waited ==
  IF program_pid > 0 /\ target[program_pid] = "zombie"
  THEN [target EXCEPT ![program_pid] = "reaped"]
  ELSE target

Wait ==
  /\ target' = Waited
  /\ news' = news \ {program_pid}

Doing(at, next) == [at |-> at, next |-> next]

(* The console goes on to something that is no stop.                        *)
Go(at) == console' = Doing(at, "ready")

(* kill(pid, sig): a pid of 0 is the console's process group and -1 is      *)
(* every process; either reaches the manager, which has no handler.         *)
KillGroup(sig) ==
  /\ signals' = [p \in Pids |-> IF Alive(p) THEN signals[p] \cup {sig} ELSE signals[p]]
  /\ manager' = IF manager = "up" THEN "killed" ELSE manager

KillTarget(sig) ==
  /\ signals' = [signals EXCEPT ![program_pid] =
                   IF Alive(program_pid) THEN @ \cup {sig} ELSE @]
  /\ UNCHANGED manager

(* msgsnd(..., 0): only when the queue has room. *)
Post(m) ==
  /\ Len(queue) < QueueRoom
  /\ queue' = Append(queue, m)

-----------------------------------------------------------------------------
(* Commands. A command that ends in the step that reads it leaves the       *)
(* console ready; the others go on in steps of their own. What becomes of   *)
(* handling is said by those who call them.                                 *)

(* stop_operation up to usleep(100). With pid 0 the console's own handler   *)
(* runs before kill returns: exit_operation, whose _is_running is false.    *)
BeginStop(next) ==
  /\ piped' = FALSE
  /\ UNCHANGED <<program, program_pid, queue>>
  /\ IF program_pid > 0
     THEN /\ KillTarget("TERM")
          /\ console' = Doing("polling", next)
          /\ UNCHANGED mishaps
     ELSE /\ KillGroup("TERM")
          /\ mishaps' = mishaps \cup {m \in {"nobody"} : \A p \in Pids : target[p] = "none"}
          /\ IF program_pid = 0 THEN Go("leaving")
                                ELSE console' = Doing("polling", next)

SendMessage ==
  /\ Go("sending")
  /\ UNCHANGED <<program, program_pid, piped, targetVars, manager, queue, asked, mishaps>>

SetTarget ==
  /\ program' = TRUE
  /\ Go("sending")
  /\ UNCHANGED <<program_pid, piped, targetVars, manager, queue, asked, mishaps>>

(* show running. *)
Show ==
  /\ Wait
  /\ Go("ready")
  /\ UNCHANGED <<program, program_pid, piped, signals, left, manager, queue, asked, mishaps>>

(* The fork in start_operation, and the store of its result in program_pid: *)
(* one step, so no signal comes between the two. The child's stream has the *)
(* lines after this one. A failed fork is a nonzero status: the end of a    *)
(* console at a prompt.                                                     *)
FaultyLinesAfter == Len(script) - line

LinesAfter == IF source = "file" THEN Len(script) - line ELSE 0

ForkFails ==
  /\ program_pid' = -1
  /\ piped' = TRUE
  /\ Go(IF source = "prompt" THEN "gone" ELSE "ready")
  /\ mishaps' = mishaps \cup {"nofork"}
  /\ UNCHANGED <<signals, left>>

FaultyForkTarget(p, lines) ==
  /\ target' = [Waited EXCEPT ![p] = "forked"]
  /\ left' = [left EXCEPT ![p] = lines]
  /\ program_pid' = 0
  /\ piped' = TRUE
  /\ Go("ready")
  /\ UNCHANGED <<signals, mishaps>>

ForkTarget(p, lines) ==
  /\ target' = [Waited EXCEPT ![p] = "forked"]
  /\ left' = [left EXCEPT ![p] = lines]
  /\ program_pid' = p
  /\ piped' = TRUE
  /\ Go("ready")
  /\ UNCHANGED <<signals, mishaps>>

FaultyMayStart == program

(* start_operation refuses while a target runs or when none has been set.   *)
MayStart == ~IsRunning /\ program

StartOp(lines) ==
  /\ news' = news \ {program_pid}
  /\ UNCHANGED <<program, manager, queue, asked>>
  /\ \/ /\ MayStart
        /\ \E p \in Pids :
             /\ target[p] = "none" /\ \A q \in 1..(p - 1) : target[q] # "none"
             /\ ForkTarget(p, lines)
     \/ MayStart /\ ForkMayFail /\ target' = Waited /\ ForkFails
     \/ /\ ~MayStart
        /\ target' = Waited
        /\ Go("ready")
        /\ UNCHANGED <<program_pid, piped, signals, left, mishaps>>

Start == StartOp(LinesAfter)

Stop(next) == BeginStop(next) /\ UNCHANGED <<target, news, left, asked>>

(* interact_operation up to its write. *)
Interact ==
  /\ Wait
  /\ Go(IF IsRunning THEN "writing" ELSE "ready")
  /\ UNCHANGED <<program, program_pid, piped, signals, left, manager, queue, asked, mishaps>>

FaultyExec ==
  /\ offset' = IF source = "file" /\ offset - LinesAfter >= 1
               THEN offset - LinesAfter ELSE offset
  /\ Go("ready")
  /\ UNCHANGED <<program, program_pid, piped, targetVars, manager, queue, asked, mishaps>>

(* exec_operation: its child ends in _Exit, which leaves the script alone.  *)
Exec ==
  /\ offset' = offset
  /\ Go("ready")
  /\ UNCHANGED <<program, program_pid, piped, targetVars, manager, queue, asked, mishaps>>

FaultyExit ==
  /\ asked' = TRUE
  /\ Go("leaving")
  /\ Wait
  /\ UNCHANGED <<left, piped, program, program_pid, queue, signals, manager, mishaps>>

(* exit_operation: from the command, or from the handler of a signal.       *)
Exit ==
  /\ asked' = TRUE
  /\ UNCHANGED left
  /\ IF IsRunning
     THEN BeginStop("leaving") /\ UNCHANGED <<target, news>>
     ELSE /\ Go("leaving")
          /\ Wait
          /\ UNCHANGED <<piped, program, program_pid, queue, signals, manager, mishaps>>

(* An empty line is a message at the prompt; read_config_file never gets    *)
(* past one.                                                                *)
EmptyLine ==
  IF source = "prompt"
  THEN SendMessage
  ELSE /\ Go("looping")
       /\ mishaps' = mishaps \cup {"emptyline"}
       /\ UNCHANGED <<program, program_pid, piped, targetVars, manager, queue, asked>>

Handle(command) ==
  \/ command = "exec" /\ Exec /\ UNCHANGED handling
  \/ /\ UNCHANGED offset
     /\ handling' = IF program_pid = 0 THEN handling \cup {"TERM"} ELSE handling
     /\ \/ command = "stop" /\ Stop("ready")
        \/ command = "restart" /\ Stop("restarting")
  \/ /\ UNCHANGED <<offset, handling>>
     /\ \/ command = "message" /\ SendMessage
        \/ command = "target" /\ SetTarget
        \/ command = "show" /\ Show
        \/ command = "start" /\ Start
        \/ command = "interact" /\ Interact
        \/ command = "quit" /\ Exit
        \/ command = "empty" /\ EmptyLine

-----------------------------------------------------------------------------
(* Reading: read_config_file's getline loop, then the prompt.               *)

ReadLine ==
  /\ source = "file" /\ console.at = "ready" /\ line <= Len(script)
  /\ Handle(script[line])
  /\ line' = line + 1
  /\ ran' = Append(ran, line)
  /\ UNCHANGED <<script, source, typed>>

(* read_config_file that takes the end of the file for a line of no         *)
(* characters and goes on.                                                  *)
FaultyReadOn ==
  /\ source = "file" /\ console.at = "ready" /\ line > Len(script)
  /\ IF offset <= Len(script)
     THEN line' = offset /\ offset' = Len(script) + 1
     ELSE UNCHANGED <<line, offset>>
  /\ UNCHANGED <<script, source, typed, ran, console, handling, program, program_pid,
                 piped, targetVars, manager, queue, asked, mishaps>>

(* The stream's buffer is used up: what is left of the file, or its end.    *)
ReadOn ==
  /\ source = "file" /\ console.at = "ready" /\ line > Len(script)
  /\ IF offset <= Len(script)
     THEN line' = offset /\ offset' = Len(script) + 1 /\ UNCHANGED source
     ELSE source' = "prompt" /\ UNCHANGED <<line, offset>>
  /\ UNCHANGED <<script, typed, ran, console, handling, program, program_pid, piped,
                 targetVars, manager, queue, asked, mishaps>>

Type ==
  /\ source = "prompt" /\ console.at = "ready" /\ typed < MaxTyped
  /\ \E command \in Commands : Handle(command)
  /\ typed' = typed + 1
  /\ UNCHANGED <<script, source, line, ran>>

-----------------------------------------------------------------------------
(* What follows in the commands that take several steps.                    *)

FaultyPoll ==
  /\ console.at = "polling"
  /\ Wait
  /\ Go(console.next)
  /\ UNCHANGED <<signals, manager, mishaps, scriptVars, handling, program, program_pid,
                 piped, left, queue, asked>>

(* After usleep(100): a target that is not gone is killed. *)
Poll ==
  /\ console.at = "polling"
  /\ IF IsRunning
     THEN /\ KillTarget("KILL")
          /\ console' = [console EXCEPT !.at = "killing"]
          /\ UNCHANGED <<target, news>>
     ELSE /\ Wait
          /\ Go(console.next)
          /\ UNCHANGED <<signals, manager>>
  /\ UNCHANGED <<scriptVars, handling, program, program_pid, piped, left, queue, asked,
                 mishaps>>

(* After sleep(2). A target that survived them makes stop fail, which       *)
(* ends a console that is at its prompt.                                    *)
EndStop ==
  /\ console.at = "killing"
  /\ Wait
  /\ IF target[program_pid] = "zombie" \/ program_pid \in news
     THEN Go(console.next) /\ UNCHANGED mishaps
     ELSE /\ Go(IF console.next = "ready" /\ source = "prompt" THEN "gone"
                                                              ELSE console.next)
          /\ mishaps' = mishaps \cup {"unkillable"}
  /\ UNCHANGED <<scriptVars, handling, program, program_pid, piped, signals, left,
                 manager, queue, asked>>

(* restart_operation goes on to start_operation whatever stop returned. The *)
(* line of the restart is already consumed.                                 *)
Restart ==
  /\ console.at = "restarting"
  /\ StartOp(IF source = "file" THEN Len(script) - line + 1 ELSE 0)
  /\ UNCHANGED <<scriptVars, handling>>

(* The write of interact_operation: SIGPIPE ends the console if nothing     *)
(* reads the pipe any more. The manager hears nothing of it.                *)
Write ==
  /\ console.at = "writing"
  /\ IF piped /\ ~Alive(program_pid)
     THEN Go("gone") /\ mishaps' = mishaps \cup {"brokenpipe"}
     ELSE Go("ready") /\ UNCHANGED mishaps
  /\ UNCHANGED <<scriptVars, handling, program, program_pid, piped, targetVars,
                 manager, queue, asked>>

(* send_msg: the console is in its msgsnd until there is room. *)
Send ==
  /\ console.at = "sending"
  /\ Post("message")
  /\ Go("ready")
  /\ UNCHANGED <<scriptVars, handling, program, program_pid, piped, targetVars,
                 manager, asked, mishaps>>

(* The same for the QUIT of exit_operation, and the exit after it.          *)
Leave ==
  /\ console.at = "leaving"
  /\ Post("QUIT")
  /\ Go("gone")
  /\ UNCHANGED <<scriptVars, handling, program, program_pid, piped, targetVars,
                 manager, asked, mishaps>>

(* Somebody sends SIGTERM or SIGHUP to the console, whatever it is doing:   *)
(* exit_operation begins, in the middle of an exit_operation too, and the   *)
(* interrupted one is never taken up again. A handler blocks its own signal *)
(* and does not return, so each signal comes once.                          *)
Catch(s) ==
  /\ console.at # "gone"
  /\ s \in Sent \ handling
  /\ handling' = handling \cup {s}

Interrupted ==
  /\ \E s \in {"HUP", "TERM"} : Catch(s)
  /\ Exit
  /\ UNCHANGED scriptVars

(* Ctrl-C at the terminal: SIGINT for the whole foreground group.           *)
CtrlC ==
  /\ Catch("INT")
  /\ asked' = TRUE
  /\ KillGroup("TERM")
  /\ IF IsRunning
     THEN /\ piped' = FALSE
          /\ console' = Doing("polling", "leaving")
          /\ UNCHANGED <<target, news>>
     ELSE Go("leaving") /\ Wait /\ UNCHANGED piped
  /\ UNCHANGED <<scriptVars, program, program_pid, left, queue, mishaps>>

-----------------------------------------------------------------------------
(* Targets. *)

othersUnchanged == <<script, source, line, typed, ran, console, handling, program,
                     program_pid, piped, left, asked>>

Dies(p) ==
  /\ target' = [target EXCEPT ![p] = "zombie"]
  /\ signals' = [signals EXCEPT ![p] = {}]
  /\ news' = news \ {p}

(* exit(3) in a forked copy of the console: the library moves the position  *)
(* of the open script back by what the child's stream had left to read      *)
(* (the lines are taken to be of one length).                               *)
Exits(p) ==
  /\ Dies(p)
  /\ offset' = IF source = "file" /\ offset - left[p] >= 1
               THEN offset - left[p] ELSE offset

Execve(p) ==
  /\ target[p] = "forked"
  /\ target' = [target EXCEPT ![p] = "running"]
  /\ UNCHANGED <<othersUnchanged, offset, signals, news, manager, queue, mishaps>>

ExecveFails(p) ==
  /\ target[p] = "forked"
  /\ Exits(p)
  /\ mishaps' = mishaps \cup {"badexec"}
  /\ UNCHANGED <<othersUnchanged, manager, queue>>

(* SIGTERM finds a child that has not called execve: it runs the console's  *)
(* handler and sends QUIT itself.                                           *)
TermBeforeExecve(p) ==
  /\ target[p] = "forked" /\ "TERM" \in signals[p]
  /\ target' = [target EXCEPT ![p] = "quitting"]
  /\ UNCHANGED <<othersUnchanged, offset, signals, news, manager, queue, mishaps>>

ChildQuits(p) ==
  /\ target[p] = "quitting"
  /\ Exits(p)
  /\ Post("QUIT")
  /\ mishaps' = mishaps \cup {"slowexec"}
  /\ UNCHANGED <<othersUnchanged, manager>>

(* SIGTERM ends a target, unless it catches or ignores it.                  *)
Term(p) ==
  /\ target[p] = "running" /\ "TERM" \in signals[p]
  /\ \/ Dies(p)
     \/ /\ signals' = [signals EXCEPT ![p] = @ \ {"TERM"}]
        /\ UNCHANGED <<target, news>>
  /\ UNCHANGED <<othersUnchanged, offset, manager, queue, mishaps>>

Kill(p) ==
  /\ Alive(p) /\ "KILL" \in signals[p]
  /\ Dies(p)
  /\ UNCHANGED <<othersUnchanged, offset, manager, queue, mishaps>>

TargetEnds(p) ==
  /\ target[p] = "running"
  /\ Dies(p)
  /\ UNCHANGED <<othersUnchanged, offset, manager, queue, mishaps>>

(* The preload library in a target reports a heap operation.                *)
Reports(p) ==
  /\ target[p] = "running"
  /\ Post("message")
  /\ UNCHANGED <<othersUnchanged, offset, target, signals, news, manager, mishaps>>

(* Job control: a terminal, a debugger or a user stops and resumes it.      *)
JobStop(p) ==
  /\ target[p] = "running"
  /\ target' = [target EXCEPT ![p] = "stopped"]
  /\ news' = news \cup {p}
  /\ mishaps' = mishaps \cup {"stopped"}
  /\ UNCHANGED <<othersUnchanged, offset, signals, manager, queue>>

JobContinue(p) ==
  /\ target[p] = "stopped"
  /\ target' = [target EXCEPT ![p] = "running"]
  /\ news' = news \cup {p}
  /\ UNCHANGED <<othersUnchanged, offset, signals, manager, queue, mishaps>>

-----------------------------------------------------------------------------
(* The manager's loop, start_listener. *)
ManagerReads ==
  /\ manager = "up" /\ queue # <<>>
  /\ manager' = IF Head(queue) = "QUIT" THEN "quit" ELSE "up"
  /\ queue' = Tail(queue)
  /\ UNCHANGED <<scriptVars, console, handling, program, program_pid, piped,
                 targetVars, asked, mishaps>>

Init ==
  /\ script \in Scripts
  /\ source = "file" /\ line = 1 /\ offset = Len(script) + 1 /\ typed = 0
  /\ console = Doing("ready", "ready") /\ handling = {}
  /\ program = FALSE /\ program_pid = 0 /\ piped = FALSE
  /\ target = [p \in Pids |-> "none"] /\ signals = [p \in Pids |-> {}]
  /\ news = {} /\ left = [p \in Pids |-> 0]
  /\ manager = "up" /\ queue = <<>>
  /\ asked = FALSE /\ ran = <<>> /\ mishaps = {}

ConsoleSteps ==
  ReadLine \/ ReadOn \/ Poll \/ EndStop \/ Restart \/ Write \/ Send \/ Leave

(* What the kernel and the process itself see to: a fork comes to its       *)
(* execve, a signal is delivered.                                           *)
ProcessSteps(p) ==
  Execve(p) \/ ExecveFails(p) \/ TermBeforeExecve(p) \/ ChildQuits(p) \/ Term(p) \/ Kill(p)

Next ==
  \/ ConsoleSteps
  \/ Type \/ Interrupted \/ CtrlC
  \/ \E p \in Pids :
       ProcessSteps(p) \/ TargetEnds(p) \/ Reports(p) \/ JobStop(p) \/ JobContinue(p)
  \/ ManagerReads

Spec == Init /\ [][Next]_vars

(* The console, the manager and the kernel go on; no user has to type. Room *)
(* in the queue comes and goes: the kernel wakes who waits for it, and one  *)
(* who finds room again and again sends in the end.                         *)
FairSpec ==
  /\ Spec
  /\ WF_vars(ConsoleSteps)
  /\ SF_vars(Send \/ Leave)
  /\ WF_vars(ManagerReads)
  /\ \A p \in Pids : WF_vars(ProcessSteps(p))
-----------------------------------------------------------------------------
(* Properties. Happened(m): one of the mishaps m has occurred.              *)
Happened(m) == mishaps \cap m # {}

(* The console never has two targets at a time ("Target already running!",  *)
(* console.c:96), through stops, restarts, targets that ignore SIGTERM and  *)
(* failed stops; a target under job control is the exception, because the   *)
(* waitpid in _is_running takes its stop for its end.                       *)
OneTarget ==
  Happened({"stopped"}) \/ \A p, q \in Pids : Alive(p) /\ Alive(q) => p = q

(* The session goes on until somebody asks for its end: no start, stop,     *)
(* restart or interact makes the console leave or stops the manager, which  *)
(* holds the recording in its memory.                                       *)
SurvivesCommands ==
  asked \/ (manager = "up" /\ console.at \notin {"leaving", "gone"})

(* The same, unless something happened that the code does not guard against: *)
(* a stop without a target, a failed fork, a signal before execve, a target  *)
(* that SIGKILL does not end in time, a write to a pipe without a reader.    *)
SessionSurvives ==
  Happened({"nobody", "nofork", "slowexec", "unkillable", "brokenpipe"}) \/ SurvivesCommands

(* Every line of the script is executed once, in order: what read_config_file *)
(* reads is its file, whatever the children do with the descriptor they share. *)
EachLineInTurn == \A i \in 1..Len(ran) : ran[i] = i

(* The same, unless a child ran the console's exit before its execve.       *)
LinesOnce == Happened({"slowexec", "badexec"}) \/ EachLineInTurn

InStop == console.at \in {"polling", "killing"} /\ program_pid > 0

(* When stop_operation is over, successful or not, on its own or within a   *)
(* restart or an exit, the target it was for has ended: SIGTERM was enough, *)
(* or SIGKILL was sent.                                                     *)
StopStops ==
  [][InStop /\ ~InStop' /\ mishaps' \cap {"stopped", "unkillable"} = {}
       => ~Alive(program_pid)']_vars

Ended == console.at = "gone" /\ manager # "up" /\ \A p \in Pids : ~Alive(p)

(* The queue is full and its only reader is gone: who sends waits for ever. *)
Stuck == manager # "up" /\ Len(queue) = QueueRoom

(* Whoever asks the console to exit, by a command or a signal and in the    *)
(* middle of whatever command or exit, ends all three: the console, the     *)
(* manager and the target. Only a target whose stop was taken for its end   *)
(* and a queue full of reports behind a manager that ended first stand in   *)
(* the way.                                                                 *)
QuitEndsAll == asked ~> (Ended \/ Stuck \/ Happened({"stopped"}))

(* The script comes to its end: the console reaches its prompt or leaves,   *)
(* unless the file has an empty line or is read again from the middle, or   *)
(* the manager is gone and its queue full.                                  *)
ScriptFinishes ==
  <>(\/ source = "prompt" \/ console.at = "gone"
     \/ Stuck \/ Happened({"slowexec", "badexec", "emptyline"}))
=============================================================================
