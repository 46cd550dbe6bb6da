--------------------------- MODULE SessionProofs ---------------------------
(***************************************************************************)
(* Theorems about Session, for any scripts and any number of targets and   *)
(* typed commands: type correctness, at most one target, a session that    *)
(* only ends when it is asked to, a script that is read once, and a stop   *)
(* that stops; each with the mishaps under which it is not promised.       *)
(***************************************************************************)
EXTENDS Session, SequenceTheorems, TLAPS

USE SessionAssumption

States == {"none", "forked", "quitting", "running", "stopped", "zombie", "reaped"}
Places == {"ready", "sending", "polling", "killing", "restarting", "writing", "looping",
           "leaving", "gone"}

(* The types of what a command can change, and of the rest.                 *)
CoreTypes ==
  /\ console \in [at : Places, next : {"ready", "restarting", "leaving"}]
  /\ program \in BOOLEAN /\ piped \in BOOLEAN /\ asked \in BOOLEAN
  /\ program_pid \in -1..MaxStarts
  /\ target \in [Pids -> States]
  /\ signals \in [Pids -> SUBSET {"TERM", "KILL"}]
  /\ news \subseteq Pids
  /\ left \in [Pids -> 0..Len(script)]
  /\ manager \in {"up", "quit", "killed"}
  /\ queue \in Seq({"message", "QUIT"})
  /\ mishaps \subseteq Mishaps

ScriptTypes ==
  /\ script \in Scripts
  /\ source \in {"file", "prompt"}
  /\ line \in 1..(Len(script) + 1) /\ offset \in 1..(Len(script) + 1)
  /\ typed \in 0..MaxTyped
  /\ ran \in Seq(1..Len(script))

HandlingType == handling \subseteq {"INT", "HUP", "TERM"}

(* As long as no target is under job control, waitpid has nothing to tell   *)
(* but deaths, and only the process that program_pid names is alive.        *)
Sole ==
  /\ news = {}
  /\ \A p \in Pids : target[p] # "stopped" /\ (Alive(p) => p = program_pid)

OneInv == "stopped" \in mishaps \/ Sole

(* A session nobody has asked to end, and that no mishap has ended.         *)
Fatal == {"nobody", "nofork", "slowexec", "unkillable", "brokenpipe"}

Calm ==
  /\ manager = "up" /\ console.at \notin {"leaving", "gone"} /\ console.next # "leaving"
  /\ \A i \in 1..Len(queue) : queue[i] = "message"
  /\ program_pid >= 0 /\ (program_pid = 0 => \A p \in Pids : target[p] = "none")

SurviveInv == Happened(Fatal) \/ asked \/ Calm

Core == CoreTypes /\ OneInv /\ SurviveInv

(* The file has been read in one piece, and its lines executed up to here.  *)
InTurn ==
  /\ offset = Len(script) + 1 /\ Len(ran) = line - 1
  /\ \A i \in 1..Len(ran) : ran[i] = i

LinesInv == Happened({"slowexec", "badexec"}) \/ InTurn

IInv == Core /\ ScriptTypes /\ LinesInv

(* What StopStops says of a step. *)
StopStep ==
  InStop /\ ~InStop' /\ mishaps' \cap {"stopped", "unkillable"} = {}
    => ~Alive(program_pid)'

-----------------------------------------------------------------------------
(* General lemmas.                                                          *)

LEMMA TypesAre == TypeOK <=> CoreTypes /\ ScriptTypes /\ HandlingType
BY DEF TypeOK, CoreTypes, ScriptTypes, HandlingType, Places, States

LEMMA ScriptLength ==
  ASSUME ScriptTypes
  PROVE  script \in Seq(Commands) /\ Len(script) \in Nat
BY DEF ScriptTypes

(* A history grows by elements of its type.                                 *)
LEMMA AppendTyped ==
  ASSUME NEW S, NEW s \in Seq(S), NEW x \in S
  PROVE  /\ Append(s, x) \in Seq(S) /\ Len(Append(s, x)) = Len(s) + 1
         /\ \A i \in 1..Len(Append(s, x)) :
              Append(s, x)[i] = IF i = Len(s) + 1 THEN x ELSE s[i]
OBVIOUS

(* A message for the manager. *)
LEMMA Posts ==
  ASSUME CoreTypes, NEW m \in {"message", "QUIT"}, Post(m)
  PROVE  /\ queue' \in Seq({"message", "QUIT"})
         /\ m = "message" /\ (\A i \in 1..Len(queue) : queue[i] = "message")
              => \A i \in 1..Len(queue') : queue'[i] = "message"
<1>1. queue \in Seq({"message", "QUIT"}) /\ queue' = Append(queue, m)
  BY DEF CoreTypes, Post
<1>2. queue' \in Seq({"message", "QUIT"}) BY <1>1, AppendTyped
<1>3. ASSUME m = "message", \A i \in 1..Len(queue) : queue[i] = "message",
             NEW i \in 1..Len(queue')
      PROVE  queue'[i] = "message"
  <2>1. Len(queue) \in Nat /\ Len(queue') = Len(queue) + 1 BY <1>1
  <2>2. queue'[i] = IF i = Len(queue) + 1 THEN m ELSE queue[i] BY <1>1, AppendTyped
  <2> QED BY <1>3, <2>1, <2>2
<1> QED BY <1>2, <1>3

(* A waitpid makes a zombie a dead process, and nothing else.               *)
LEMMA Waits ==
  ASSUME CoreTypes
  PROVE  /\ Waited \in [Pids -> States]
         /\ \A p \in Pids :
              \/ Waited[p] = target[p]
              \/ target[p] = "zombie" /\ Waited[p] = "reaped" /\ p = program_pid
         /\ program_pid > 0 => Waited[program_pid] # "zombie" /\ program_pid \in Pids
<1>1. program_pid > 0 => program_pid \in Pids BY DEF CoreTypes, Pids
<1>2. target \in [Pids -> States] BY DEF CoreTypes
<1> QED BY <1>1, <1>2 DEF Waited, States

(* Steps that make no process alive and stop none.                          *)
LEMMA OneKept ==
  ASSUME OneInv, mishaps \subseteq mishaps', program_pid' = program_pid, news' \subseteq news,
         \A p \in Pids : /\ target'[p] \in Living => Alive(p)
                         /\ target'[p] = "stopped" => target[p] = "stopped"
  PROVE  OneInv'
BY DEF OneInv, Sole, Alive, Living

(* Steps that end no session without a reason. *)
LEMMA SurviveKept ==
  ASSUME SurviveInv, mishaps \subseteq mishaps', asked => asked',
         Calm => Happened(Fatal)' \/ asked' \/ Calm'
  PROVE  SurviveInv'
BY DEF SurviveInv, Happened

(* What is calm about the targets stays so if none is started.              *)
LEMMA NoneStarted ==
  ASSUME Calm, program_pid' = program_pid,
         \A p \in Pids : target[p] = "none" => target'[p] = "none"
  PROVE  program_pid' >= 0 /\ (program_pid' = 0 => \A p \in Pids : target'[p] = "none")
BY DEF Calm

(* The same mishaps, or more. *)
LEMMA LinesKept ==
  ASSUME LinesInv, mishaps \subseteq mishaps',
         UNCHANGED <<script, line, offset, ran>>
  PROVE  LinesInv'
BY DEF LinesInv, InTurn, Happened

-----------------------------------------------------------------------------
(* Commands.                                                                *)

(* Commands that only wait, and where the console may go then.              *)
LEMMA WaitingStep ==
  ASSUME Core, script' = script, target' = Waited, news' \subseteq news,
         UNCHANGED <<program, program_pid, signals, left, manager, queue>>,
         piped' \in BOOLEAN, asked' \in BOOLEAN, asked => asked',
         mishaps \subseteq mishaps', mishaps' \subseteq Mishaps,
         NEW at \in Places, Go(at),
         at \in {"leaving", "gone"} => asked' \/ Happened(Fatal)' \/ ~Calm
  PROVE  Core'
<1>1. CoreTypes BY DEF Core
<1>2. console' = [at |-> at, next |-> "ready"] BY DEF Go, Doing
<1>3. CoreTypes' BY <1>1, <1>2, Waits DEF CoreTypes
<1>4. \A p \in Pids : /\ target'[p] \in Living => Alive(p)
                      /\ target'[p] = "stopped" => target[p] = "stopped"
                      /\ target[p] = "none" => target'[p] = "none"
  BY <1>1, Waits DEF Alive, Living
<1>5. OneInv' BY <1>4, OneKept DEF Core
<1>6. Calm => Happened(Fatal)' \/ asked' \/ Calm'
  <2> SUFFICES ASSUME Calm, ~Happened(Fatal)', ~asked' PROVE Calm'
    OBVIOUS
  <2>1. program_pid' >= 0 /\ (program_pid' = 0 => \A p \in Pids : target'[p] = "none")
    BY <1>4, NoneStarted
  <2>2. console'.at \notin {"leaving", "gone"} /\ console'.next # "leaving" BY <1>2
  <2> QED BY <2>1, <2>2 DEF Calm
<1>7. SurviveInv' BY <1>6, SurviveKept DEF Core
<1> QED BY <1>3, <1>5, <1>7 DEF Core

(* Steps that leave the targets alone and may post a message.               *)
LEMMA MessageStep ==
  ASSUME Core, script' = script,
         \/ queue' = queue
         \/ Post("message")
         \/ Post("QUIT") /\ ~Calm,
         UNCHANGED <<program_pid, piped, targetVars, manager, asked>>, program' \in BOOLEAN,
         mishaps \subseteq mishaps', mishaps' \subseteq Mishaps,
         NEW at \in Places, Go(at),
         at \in {"leaving", "gone"} => Happened(Fatal)' \/ ~Calm
  PROVE  Core'
<1>1. CoreTypes BY DEF Core
<1>2. console' = [at |-> at, next |-> "ready"] BY DEF Go, Doing
<1>3. queue' \in Seq({"message", "QUIT"}) BY <1>1, Posts DEF CoreTypes
<1>4. CoreTypes' BY <1>1, <1>2, <1>3 DEF CoreTypes, targetVars
<1>5. OneInv' BY OneKept DEF Core, targetVars, Alive, Living
<1>6. Calm => Happened(Fatal)' \/ Calm'
  <2> SUFFICES ASSUME Calm, ~Happened(Fatal)' PROVE Calm'
    OBVIOUS
  <2>1. \A i \in 1..Len(queue') : queue'[i] = "message" BY <1>1, Posts DEF Calm
  <2> QED BY <1>2, <2>1 DEF Calm, targetVars
<1>7. SurviveInv' BY <1>6, SurviveKept DEF Core
<1> QED BY <1>4, <1>5, <1>7 DEF Core

(* The beginning of a stop: without a target it reaches the manager.        *)
LEMMA StopStarts ==
  ASSUME Core, script' = script, NEW next \in {"ready", "restarting", "leaving"},
         BeginStop(next), UNCHANGED <<target, news, left>>,
         asked' \in BOOLEAN, asked => asked', next = "leaving" => asked'
  PROVE  Core' /\ (program_pid > 0 => InStop')
<1>1. CoreTypes BY DEF Core
<1>2. /\ piped' = FALSE
      /\ program' = program /\ program_pid' = program_pid /\ queue' = queue
  BY DEF BeginStop
<1>3. CASE program_pid > 0
  <2>1. program_pid \in Pids BY <1>1, <1>3 DEF CoreTypes, Pids
  <2>2. console' = [at |-> "polling", next |-> next] /\ mishaps' = mishaps /\ manager' = manager
    BY <1>3 DEF BeginStop, Doing, KillTarget
  <2>3. signals' = [signals EXCEPT ![program_pid] =
                      IF Alive(program_pid) THEN signals[program_pid] \cup {"TERM"}
                                            ELSE signals[program_pid]]
    BY <1>3 DEF BeginStop, KillTarget
  <2>4. signals' \in [Pids -> SUBSET {"TERM", "KILL"}] BY <1>1, <2>1, <2>3 DEF CoreTypes
  <2>5. CoreTypes' BY <1>1, <1>2, <2>2, <2>4 DEF CoreTypes, Places
  <2>6. OneInv' BY <1>2, <2>2, OneKept DEF Core, Alive, Living
  <2>7. Calm => asked' \/ Calm' BY <1>2, <2>2 DEF Calm
  <2>8. SurviveInv' BY <2>2, <2>7, SurviveKept DEF Core
  <2> QED BY <1>2, <1>3, <2>2, <2>5, <2>6, <2>8 DEF Core, InStop
<1>4. CASE ~(program_pid > 0)
  <2>1. /\ mishaps' = mishaps \cup {m \in {"nobody"} : \A p \in Pids : target[p] = "none"}
        /\ console' = [at |-> IF program_pid = 0 THEN "leaving" ELSE "polling",
                       next |-> IF program_pid = 0 THEN "ready" ELSE next]
    BY <1>4 DEF BeginStop, Doing, Go
  <2>2. /\ signals' = [p \in Pids |-> IF Alive(p) THEN signals[p] \cup {"TERM"} ELSE signals[p]]
        /\ manager' = IF manager = "up" THEN "killed" ELSE manager
    BY <1>4 DEF BeginStop, KillGroup
  <2>3. signals' \in [Pids -> SUBSET {"TERM", "KILL"}] BY <1>1, <2>2 DEF CoreTypes
  <2>4. mishaps \subseteq mishaps' /\ mishaps' \subseteq Mishaps
    BY <1>1, <2>1 DEF CoreTypes, Mishaps
  <2>5. manager' \in {"up", "quit", "killed"} BY <1>1, <2>2 DEF CoreTypes
  <2>6. console' \in [at : Places, next : {"ready", "restarting", "leaving"}]
    BY <2>1 DEF Places
  <2>7. CoreTypes' BY <1>1, <1>2, <2>3, <2>4, <2>5, <2>6 DEF CoreTypes
  <2>8. OneInv' BY <1>2, <2>4, OneKept DEF Core, Alive, Living
  <2>9. Calm => Happened(Fatal)'
    <3> SUFFICES ASSUME Calm PROVE "nobody" \in mishaps'
      BY DEF Happened, Fatal
    <3>1. program_pid \in Int BY <1>1 DEF CoreTypes
    <3>2. program_pid = 0 BY <1>4, <3>1 DEF Calm
    <3>3. \A p \in Pids : target[p] = "none" BY <3>2 DEF Calm
    <3> QED BY <2>1, <3>3
  <2>10. SurviveInv' BY <2>4, <2>9, SurviveKept DEF Core
  <2> QED BY <1>4, <2>7, <2>8, <2>10 DEF Core
<1> QED BY <1>3, <1>4

(* A start: there is none while a target is running.                        *)
LEMMA StartStep ==
  ASSUME Core, script' = script, NEW lines \in 0..Len(script), StartOp(lines)
  PROVE  Core'
<1>1. CoreTypes BY DEF Core
<1>2. /\ news' = news \ {program_pid}
      /\ program' = program /\ manager' = manager /\ queue' = queue /\ asked' = asked
  BY DEF StartOp
<1>3. CASE MayStart /\ \E p \in Pids :
             /\ target[p] = "none" /\ \A q \in 1..(p - 1) : target[q] # "none"
             /\ ForkTarget(p, lines)
  <2>1. PICK p \in Pids : target[p] = "none" /\ ForkTarget(p, lines) BY <1>3
  <2>2. /\ target' = [Waited EXCEPT ![p] = "forked"]
        /\ left' = [left EXCEPT ![p] = lines]
        /\ program_pid' = p /\ piped' = TRUE
        /\ console' = [at |-> "ready", next |-> "ready"]
        /\ signals' = signals /\ mishaps' = mishaps
    BY <2>1 DEF ForkTarget, Go, Doing
  <2>3. target' \in [Pids -> States] BY <1>1, <2>1, <2>2, Waits DEF States
  <2>4. left' \in [Pids -> 0..Len(script)] BY <1>1, <2>1, <2>2 DEF CoreTypes
  <2>5. program_pid' \in -1..MaxStarts /\ program_pid' > 0 BY <2>1, <2>2 DEF Pids
  <2>6. CoreTypes' BY <1>1, <1>2, <2>2, <2>3, <2>4, <2>5 DEF CoreTypes, Places
  <2>7. OneInv'
    <3> SUFFICES ASSUME Sole PROVE Sole'
      BY <2>2 DEF Core, OneInv
    <3>1. \A q \in Pids : ~Alive(q)
      BY <1>3 DEF MayStart, IsRunning, Sole, Pids
    <3>2. \A q \in Pids : q # p => target'[q] \notin Living
      BY <1>1, <2>1, <2>2, <3>1, Waits DEF Alive, Living
    <3>3. target'[p] = "forked" BY <1>1, <2>1, <2>2, Waits
    <3> QED BY <1>2, <2>2, <3>2, <3>3 DEF Sole, Alive, Living
  <2>8. Calm => Calm' BY <1>2, <2>2, <2>5 DEF Calm
  <2>9. SurviveInv' BY <1>2, <2>2, <2>8, SurviveKept DEF Core
  <2> QED BY <2>6, <2>7, <2>9 DEF Core
<1>4. CASE MayStart /\ ForkMayFail /\ target' = Waited /\ ForkFails
  <2>1. /\ program_pid' = -1 /\ piped' = TRUE /\ signals' = signals /\ left' = left
        /\ mishaps' = mishaps \cup {"nofork"}
        /\ console' = [at |-> IF source = "prompt" THEN "gone" ELSE "ready", next |-> "ready"]
    BY <1>4 DEF ForkFails, Go, Doing
  <2>2. target' \in [Pids -> States] BY <1>1, <1>4, Waits
  <2>3. mishaps' \subseteq Mishaps BY <1>1, <2>1 DEF CoreTypes, Mishaps
  <2>4. program_pid' \in -1..MaxStarts BY <2>1
  <2>5. console' \in [at : Places, next : {"ready", "restarting", "leaving"}]
    BY <2>1 DEF Places
  <2>6. CoreTypes' BY <1>1, <1>2, <2>1, <2>2, <2>3, <2>4, <2>5 DEF CoreTypes
  <2>7. OneInv'
    <3> SUFFICES ASSUME Sole PROVE Sole'
      BY <2>1 DEF Core, OneInv
    <3>1. \A q \in Pids : ~Alive(q)
      BY <1>4 DEF MayStart, IsRunning, Sole, Pids
    <3>2. \A q \in Pids : target'[q] \notin Living
      BY <1>1, <1>4, <3>1, Waits DEF Alive, Living
    <3> QED BY <1>2, <3>2 DEF Sole, Alive, Living
  <2>8. Happened(Fatal)' BY <2>1 DEF Happened, Fatal
  <2> QED BY <2>6, <2>7, <2>8 DEF Core, SurviveInv
<1>5. CASE /\ ~MayStart /\ target' = Waited /\ Go("ready")
           /\ UNCHANGED <<program_pid, piped, signals, left, mishaps>>
  <2>1. /\ program_pid' = program_pid /\ signals' = signals /\ left' = left
        /\ mishaps' = mishaps /\ piped' = piped /\ target' = Waited /\ Go("ready")
    BY <1>5
  <2>2. mishaps' \subseteq Mishaps /\ piped' \in BOOLEAN /\ asked' \in BOOLEAN
    BY <1>1, <1>2, <2>1 DEF CoreTypes
  <2>3. "ready" \in Places BY DEF Places
  <2> QED BY <1>2, <2>1, <2>2, <2>3, WaitingStep
<1> QED BY <1>3, <1>4, <1>5 DEF StartOp

(* A target that is not running has ended, as long as none is stopped.      *)
LEMMA NotRunning ==
  ASSUME Core, "stopped" \notin mishaps, program_pid > 0, ~IsRunning, Wait,
         program_pid' = program_pid
  PROVE  ~Alive(program_pid)'
<1>1. ~Alive(program_pid) /\ program_pid \in Pids
  BY DEF Core, CoreTypes, OneInv, Sole, IsRunning, Pids
<1> QED BY <1>1, Waits DEF Core, Wait, Alive, Living

(* An exit, from the command or from a signal's handler.                    *)
LEMMA ExitStep ==
  ASSUME Core, script' = script, Exit
  PROVE  Core' /\ mishaps \subseteq mishaps' /\ StopStep
<1>1. CASE IsRunning
  <2>1. BeginStop("leaving") /\ UNCHANGED <<target, news, left>> /\ asked' = TRUE
    BY <1>1 DEF Exit
  <2>2. Core' /\ (program_pid > 0 => InStop') BY <2>1, StopStarts
  <2>3. mishaps' = mishaps BY <1>1, <2>1 DEF BeginStop, IsRunning
  <2> QED BY <1>1, <2>2, <2>3 DEF StopStep, IsRunning
<1>2. CASE ~IsRunning
  <2>1. /\ Go("leaving") /\ Wait /\ asked' = TRUE
        /\ UNCHANGED <<left, piped, program, program_pid, queue, signals, manager, mishaps>>
    BY <1>2 DEF Exit
  <2>2. piped' \in BOOLEAN /\ mishaps' \subseteq Mishaps BY <2>1 DEF Core, CoreTypes
  <2>3. "leaving" \in Places BY DEF Places
  <2>4. Core' BY <2>1, <2>2, <2>3, WaitingStep DEF Wait
  <2>5. StopStep BY <1>2, <2>1, NotRunning DEF StopStep, InStop
  <2> QED BY <2>1, <2>4, <2>5
<1> QED BY <1>1, <1>2

(* The commands, read from the script or typed.                             *)
LEMMA CommandStep ==
  ASSUME Core, script' = script, LinesAfter \in 0..Len(script), NEW command, Handle(command)
  PROVE  Core' /\ offset' = offset /\ mishaps \subseteq mishaps'
<1>0. /\ CoreTypes /\ mishaps \subseteq Mishaps
      /\ program \in BOOLEAN /\ piped \in BOOLEAN /\ asked \in BOOLEAN
  BY DEF Core, CoreTypes
<1>a. {"ready", "sending", "writing", "looping"} \subseteq Places BY DEF Places
<1>1. CASE Exec
  BY <1>0, <1>1, <1>a, MessageStep DEF Exec, targetVars
<1>2. CASE SendMessage /\ UNCHANGED offset
  BY <1>0, <1>2, <1>a, MessageStep DEF SendMessage
<1>3. CASE SetTarget /\ UNCHANGED offset
  BY <1>0, <1>3, <1>a, MessageStep DEF SetTarget
<1>4. CASE Show /\ UNCHANGED offset
  BY <1>0, <1>4, <1>a, WaitingStep DEF Show, Wait
<1>5. CASE Start /\ UNCHANGED offset
  <2>1. Core' BY <1>5, StartStep DEF Start
  <2>2. mishaps \subseteq mishaps' BY <1>5 DEF Start, StartOp, ForkTarget, ForkFails
  <2> QED BY <1>5, <2>1, <2>2
<1>6. CASE (Stop("ready") \/ Stop("restarting")) /\ UNCHANGED offset
  <2>1. Core' BY <1>0, <1>6, StopStarts DEF Stop
  <2>2. mishaps \subseteq mishaps' BY <1>6 DEF Stop, BeginStop
  <2> QED BY <1>6, <2>1, <2>2
<1>7. CASE Interact /\ UNCHANGED offset
  BY <1>0, <1>7, <1>a, WaitingStep DEF Interact, Wait
<1>8. CASE Exit /\ UNCHANGED offset
  BY <1>8, ExitStep
<1>9. CASE EmptyLine /\ UNCHANGED offset
  <2>1. CASE source = "prompt" BY <1>2, <1>9, <2>1 DEF EmptyLine
  <2>2. CASE source # "prompt"
    <3>1. /\ Go("looping") /\ mishaps' = mishaps \cup {"emptyline"}
          /\ UNCHANGED <<program, program_pid, piped, targetVars, manager, queue, asked>>
      BY <1>9, <2>2 DEF EmptyLine
    <3>2. mishaps' \subseteq Mishaps BY <1>0, <3>1 DEF Mishaps
    <3> QED BY <1>0, <1>9, <1>a, <3>1, <3>2, MessageStep
  <2> QED BY <2>1, <2>2
<1> QED BY <1>1, <1>2, <1>3, <1>4, <1>5, <1>6, <1>7, <1>8, <1>9 DEF Handle

-----------------------------------------------------------------------------
(* The console's steps.                                                     *)

LEMMA ReadLineStep ==
  ASSUME IInv, ReadLine
  PROVE  IInv' /\ StopStep
<1>1. /\ source = "file" /\ console.at = "ready" /\ line <= Len(script)
      /\ Handle(script[line]) /\ line' = line + 1 /\ ran' = Append(ran, line)
      /\ script' = script /\ source' = source /\ typed' = typed
  BY DEF ReadLine
<1>2. Core /\ ScriptTypes /\ LinesInv BY DEF IInv
<1>3. Len(script) \in Nat /\ line \in 1..Len(script) BY <1>1, <1>2, ScriptLength DEF ScriptTypes
<1>4. Core' /\ offset' = offset /\ mishaps \subseteq mishaps'
  <2>1. LinesAfter \in 0..Len(script) BY <1>1, <1>3 DEF LinesAfter
  <2> QED BY <1>1, <1>2, <2>1, CommandStep
<1>5. /\ ran' \in Seq(1..Len(script)) /\ Len(ran') = Len(ran) + 1 /\ Len(ran) \in Nat
      /\ \A i \in 1..Len(ran') : ran'[i] = IF i = Len(ran) + 1 THEN line ELSE ran[i]
  BY <1>1, <1>2, <1>3, AppendTyped DEF ScriptTypes
<1>6. ScriptTypes' BY <1>1, <1>2, <1>3, <1>4, <1>5 DEF ScriptTypes
<1>7. LinesInv'
  <2> SUFFICES ASSUME InTurn PROVE InTurn'
    BY <1>2, <1>4 DEF LinesInv, Happened
  <2>1. ASSUME NEW i \in 1..Len(ran') PROVE ran'[i] = i
    BY <1>3, <1>5 DEF InTurn
  <2> QED BY <1>1, <1>3, <1>4, <1>5, <2>1 DEF InTurn
<1>8. StopStep BY <1>1 DEF StopStep, InStop
<1> QED BY <1>4, <1>6, <1>7, <1>8 DEF IInv

(* Everything but the reading of the script. *)
coreVars == <<script, console, program, program_pid, piped, targetVars, manager, queue,
              asked, mishaps>>

LEMMA CoreStutters ==
  ASSUME Core, UNCHANGED coreVars
  PROVE  Core'
<1>1. CoreTypes' BY DEF coreVars, targetVars, Core, CoreTypes
<1>2. OneInv' BY OneKept DEF coreVars, targetVars, Core, Alive, Living
<1>3. Calm => Calm' BY DEF coreVars, targetVars, Calm
<1>4. SurviveInv' BY <1>3, SurviveKept DEF coreVars, Core
<1> QED BY <1>1, <1>2, <1>4 DEF Core

(* The script's part of the invariant in a step of something else.          *)
LEMMA ScriptStutters ==
  ASSUME IInv, UNCHANGED scriptVars, mishaps \subseteq mishaps'
  PROVE  ScriptTypes' /\ LinesInv'
<1>1. ScriptTypes' BY DEF IInv, ScriptTypes, scriptVars
<1>2. LinesInv' BY LinesKept DEF IInv, scriptVars
<1> QED BY <1>1, <1>2

LEMMA ReadOnStep ==
  ASSUME IInv, ReadOn
  PROVE  IInv' /\ StopStep
<1>1. /\ console.at = "ready" /\ UNCHANGED <<script, typed, ran, coreVars>>
      /\ \/ offset <= Len(script) /\ line' = offset /\ offset' = Len(script) + 1
            /\ source' = source
         \/ source' = "prompt" /\ line' = line /\ offset' = offset /\ ~(offset <= Len(script))
  BY DEF ReadOn, coreVars
<1>2. Core /\ ScriptTypes /\ LinesInv /\ Len(script) \in Nat BY ScriptLength DEF IInv
<1>3. Core' BY <1>1, <1>2, CoreStutters
<1>4. ScriptTypes' BY <1>1, <1>2 DEF ScriptTypes, coreVars
<1>5. LinesInv'
  <2> SUFFICES ASSUME InTurn PROVE InTurn'
    BY <1>1, <1>2 DEF LinesInv, Happened, coreVars
  <2> QED BY <1>1, <1>2 DEF InTurn, coreVars
<1>6. StopStep BY <1>1 DEF StopStep, InStop
<1> QED BY <1>3, <1>4, <1>5, <1>6 DEF IInv

LEMMA TypeStep ==
  ASSUME IInv, Type
  PROVE  IInv' /\ StopStep
<1>1. /\ source = "prompt" /\ console.at = "ready" /\ typed < MaxTyped /\ typed' = typed + 1
      /\ script' = script /\ source' = source /\ line' = line /\ ran' = ran
      /\ \E command \in Commands : Handle(command)
  BY DEF Type
<1>2. Core /\ ScriptTypes /\ LinesInv /\ Len(script) \in Nat BY ScriptLength DEF IInv
<1>3. LinesAfter \in 0..Len(script) BY <1>1, <1>2 DEF LinesAfter
<1>4. Core' /\ offset' = offset /\ mishaps \subseteq mishaps'
  BY <1>1, <1>2, <1>3, CommandStep
<1>5. ScriptTypes' BY <1>1, <1>2, <1>4 DEF ScriptTypes
<1>6. LinesInv' BY <1>1, <1>2, <1>4, LinesKept
<1>7. StopStep BY <1>1 DEF StopStep, InStop
<1> QED BY <1>4, <1>5, <1>6, <1>7 DEF IInv

LEMMA PollStep ==
  ASSUME IInv, Poll
  PROVE  IInv' /\ StopStep
<1>1. /\ console.at = "polling"
      /\ UNCHANGED <<scriptVars, program, program_pid, piped, left, queue, asked, mishaps>>
  BY DEF Poll
<1>2. Core /\ CoreTypes BY DEF IInv, Core
<1>3. ScriptTypes' /\ LinesInv' BY <1>1, ScriptStutters
<1>4. CASE IsRunning
  <2>1. /\ KillTarget("KILL") /\ console' = [console EXCEPT !.at = "killing"]
        /\ target' = target /\ news' = news
    BY <1>4 DEF Poll
  <2>2. program_pid \in Pids BY <1>2, <1>4 DEF IsRunning, CoreTypes, Pids
  <2>3. signals' \in [Pids -> SUBSET {"TERM", "KILL"}] /\ manager' = manager
    BY <1>2, <2>1, <2>2 DEF KillTarget, CoreTypes
  <2>4. /\ console' \in [at : Places, next : {"ready", "restarting", "leaving"}]
        /\ console'.at = "killing" /\ console'.next = console.next
    BY <1>2, <2>1 DEF CoreTypes, Places
  <2>5. CoreTypes' BY <1>1, <1>2, <2>1, <2>3, <2>4 DEF CoreTypes, scriptVars
  <2>6. OneInv' BY <1>1, <1>2, <2>1, OneKept DEF Core, Alive, Living
  <2>7. Calm => Calm' BY <1>1, <2>1, <2>3, <2>4 DEF Calm
  <2>8. SurviveInv' BY <1>1, <1>2, <2>7, SurviveKept DEF Core
  <2>9. StopStep BY <1>1, <1>4, <2>4 DEF StopStep, InStop, IsRunning
  <2> QED BY <1>3, <2>5, <2>6, <2>8, <2>9 DEF IInv, Core
<1>5. CASE ~IsRunning
  <2>1. Wait /\ Go(console.next) /\ signals' = signals /\ manager' = manager
    BY <1>5 DEF Poll
  <2>2. /\ console.next \in Places
        /\ console.next \in {"leaving", "gone"} => ~Calm
    BY <1>2 DEF CoreTypes, Places, Calm
  <2>3. piped' \in BOOLEAN /\ asked' \in BOOLEAN /\ mishaps' \subseteq Mishaps
    BY <1>1, <1>2 DEF CoreTypes
  <2>4. Core' BY <1>1, <1>2, <2>1, <2>2, <2>3, WaitingStep DEF Wait, scriptVars
  <2>5. StopStep BY <1>1, <1>2, <1>5, <2>1, NotRunning DEF StopStep, InStop
  <2> QED BY <1>3, <2>4, <2>5 DEF IInv
<1> QED BY <1>4, <1>5

LEMMA EndStopStep ==
  ASSUME IInv, EndStop
  PROVE  IInv' /\ StopStep
<1>1. /\ console.at = "killing" /\ Wait
      /\ UNCHANGED <<scriptVars, program, program_pid, piped, signals, left, manager,
                     queue, asked>>
  BY DEF EndStop
<1>2. Core /\ CoreTypes BY DEF IInv, Core
<1>a. /\ console.next \in Places /\ "gone" \in Places
      /\ console.next \in {"leaving", "gone"} => ~Calm
  BY <1>2 DEF CoreTypes, Places, Calm
<1>3. CASE target[program_pid] = "zombie" \/ program_pid \in news
  <2>1. Go(console.next) /\ mishaps' = mishaps BY <1>3 DEF EndStop
  <2>2. piped' \in BOOLEAN /\ asked' \in BOOLEAN /\ mishaps' \subseteq Mishaps
    BY <1>1, <1>2, <2>1 DEF CoreTypes
  <2>3. Core' BY <1>1, <1>2, <1>a, <2>1, <2>2, WaitingStep DEF Wait, scriptVars
  <2>4. ScriptTypes' /\ LinesInv' BY <1>1, <2>1, ScriptStutters
  <2>5. StopStep
    <3> SUFFICES ASSUME InStop, "stopped" \notin mishaps PROVE ~Alive(program_pid)'
      BY <2>1 DEF StopStep
    <3>1. ~IsRunning BY <1>3 DEF IsRunning, Alive, Living
    <3> QED BY <1>1, <1>2, <3>1, NotRunning DEF InStop
  <2> QED BY <2>3, <2>4, <2>5 DEF IInv
<1>4. CASE ~(target[program_pid] = "zombie" \/ program_pid \in news)
  <2>1. /\ mishaps' = mishaps \cup {"unkillable"}
        /\ Go(IF console.next = "ready" /\ source = "prompt" THEN "gone" ELSE console.next)
    BY <1>4 DEF EndStop
  <2>2. piped' \in BOOLEAN /\ asked' \in BOOLEAN /\ mishaps' \subseteq Mishaps
    BY <1>1, <1>2, <2>1 DEF CoreTypes, Mishaps
  <2>3. Happened(Fatal)' BY <2>1 DEF Happened, Fatal
  <2>4. Core'
    BY <1>1, <1>2, <1>a, <2>1, <2>2, <2>3, WaitingStep DEF Wait, scriptVars
  <2>5. ScriptTypes' /\ LinesInv' BY <1>1, <2>1, ScriptStutters
  <2>6. StopStep BY <2>1 DEF StopStep
  <2> QED BY <2>4, <2>5, <2>6 DEF IInv
<1> QED BY <1>3, <1>4

LEMMA RestartStep ==
  ASSUME IInv, Restart
  PROVE  IInv' /\ StopStep
<1>1. /\ console.at = "restarting" /\ UNCHANGED scriptVars
      /\ StartOp(IF source = "file" THEN Len(script) - line + 1 ELSE 0)
  BY DEF Restart
<1>2. Core /\ ScriptTypes /\ Len(script) \in Nat BY ScriptLength DEF IInv
<1>3. (IF source = "file" THEN Len(script) - line + 1 ELSE 0) \in 0..Len(script)
  BY <1>2 DEF ScriptTypes
<1>4. Core' BY <1>1, <1>2, <1>3, StartStep DEF scriptVars
<1>5. mishaps \subseteq mishaps' BY <1>1 DEF StartOp, ForkTarget, ForkFails
<1>6. StopStep BY <1>1 DEF StopStep, InStop
<1> QED BY <1>1, <1>4, <1>5, <1>6, ScriptStutters DEF IInv

LEMMA WriteStep ==
  ASSUME IInv, Write
  PROVE  IInv' /\ StopStep
<1>1. /\ console.at = "writing"
      /\ UNCHANGED <<scriptVars, program, program_pid, piped, targetVars, manager, queue, asked>>
      /\ \/ Go("gone") /\ mishaps' = mishaps \cup {"brokenpipe"}
         \/ Go("ready") /\ mishaps' = mishaps
  BY DEF Write
<1>2. Core /\ program \in BOOLEAN /\ mishaps \subseteq Mishaps BY DEF IInv, Core, CoreTypes
<1>3. {"ready", "gone"} \subseteq Places /\ "brokenpipe" \in Mishaps BY DEF Places, Mishaps
<1>4. CASE Go("gone") /\ mishaps' = mishaps \cup {"brokenpipe"}
  <2>1. Happened(Fatal)' BY <1>4 DEF Happened, Fatal
  <2> QED BY <1>1, <1>2, <1>3, <1>4, <2>1, MessageStep, ScriptStutters
          DEF IInv, StopStep, InStop, scriptVars
<1>5. CASE Go("ready") /\ mishaps' = mishaps
  BY <1>1, <1>2, <1>3, <1>5, MessageStep, ScriptStutters DEF IInv, StopStep, InStop, scriptVars
<1> QED BY <1>1, <1>4, <1>5

LEMMA SendStep ==
  ASSUME IInv, Send
  PROVE  IInv' /\ StopStep
<1>1. /\ console.at = "sending" /\ Post("message") /\ Go("ready")
      /\ UNCHANGED <<scriptVars, program, program_pid, piped, targetVars, manager, asked,
                     mishaps>>
  BY DEF Send
<1>2. Core /\ program \in BOOLEAN /\ mishaps \subseteq Mishaps BY DEF IInv, Core, CoreTypes
<1>3. "ready" \in Places BY DEF Places
<1>4. Core' BY <1>1, <1>2, <1>3, MessageStep DEF scriptVars
<1> QED BY <1>1, <1>4, ScriptStutters DEF IInv, StopStep, InStop

LEMMA LeaveStep ==
  ASSUME IInv, Leave
  PROVE  IInv' /\ StopStep
<1>1. /\ console.at = "leaving" /\ Post("QUIT") /\ Go("gone")
      /\ UNCHANGED <<scriptVars, program, program_pid, piped, targetVars, manager, asked,
                     mishaps>>
  BY DEF Leave
<1>2. Core /\ program \in BOOLEAN /\ mishaps \subseteq Mishaps BY DEF IInv, Core, CoreTypes
<1>3. "gone" \in Places /\ ~Calm BY <1>1 DEF Places, Calm
<1>4. Core' BY <1>1, <1>2, <1>3, MessageStep DEF scriptVars
<1> QED BY <1>1, <1>4, ScriptStutters DEF IInv, StopStep, InStop

LEMMA InterruptedStep ==
  ASSUME IInv, Interrupted
  PROVE  IInv' /\ StopStep
<1>1. Exit /\ UNCHANGED scriptVars BY DEF Interrupted
<1>2. Core' /\ mishaps \subseteq mishaps' /\ StopStep BY <1>1, ExitStep DEF IInv, scriptVars
<1> QED BY <1>1, <1>2, ScriptStutters DEF IInv

LEMMA CtrlCStep ==
  ASSUME IInv, CtrlC
  PROVE  IInv' /\ StopStep
<1>1. /\ asked' = TRUE /\ KillGroup("TERM")
      /\ UNCHANGED <<scriptVars, program, program_pid, left, queue, mishaps>>
  BY DEF CtrlC
<1>2. Core /\ CoreTypes BY DEF IInv, Core
<1>3. /\ signals' \in [Pids -> SUBSET {"TERM", "KILL"}]
      /\ manager' \in {"up", "quit", "killed"}
  <2>1. signals' = [p \in Pids |-> IF Alive(p) THEN signals[p] \cup {"TERM"} ELSE signals[p]]
    BY <1>1 DEF KillGroup
  <2>2. manager' = IF manager = "up" THEN "killed" ELSE manager BY <1>1 DEF KillGroup
  <2> QED BY <1>2, <2>1, <2>2 DEF CoreTypes
<1>4. /\ (target' = target /\ news' = news) \/ Wait
      /\ piped' \in BOOLEAN
      /\ console' \in [at : Places, next : {"ready", "restarting", "leaving"}]
  <2>1. CASE IsRunning
    <3>1. /\ piped' = FALSE /\ target' = target /\ news' = news
          /\ console' = [at |-> "polling", next |-> "leaving"]
      BY <2>1 DEF CtrlC, Doing
    <3>2. console' \in [at : Places, next : {"ready", "restarting", "leaving"}]
      BY <3>1 DEF Places
    <3> QED BY <3>1, <3>2
  <2>2. CASE ~IsRunning BY <1>2, <2>2 DEF CtrlC, Go, Doing, Places, CoreTypes
  <2> QED BY <2>1, <2>2
<1>5. /\ target' \in [Pids -> States] /\ news' \subseteq news
      /\ \A p \in Pids : /\ target'[p] \in Living => Alive(p)
                         /\ target'[p] = "stopped" => target[p] = "stopped"
  BY <1>2, <1>4, Waits DEF Wait, Alive, Living, CoreTypes
<1>6. CoreTypes' BY <1>1, <1>2, <1>3, <1>4, <1>5 DEF CoreTypes, scriptVars
<1>7. OneInv' BY <1>1, <1>2, <1>5, OneKept DEF Core
<1>8. SurviveInv' BY <1>1 DEF SurviveInv
<1>9. StopStep
  <2>1. CASE IsRunning
    <3>1. console'.at = "polling" BY <2>1 DEF CtrlC, Doing
    <3> QED BY <1>1, <2>1, <3>1 DEF StopStep, InStop, IsRunning
  <2>2. CASE ~IsRunning
    <3>1. Wait BY <2>2 DEF CtrlC
    <3> QED BY <1>1, <1>2, <2>2, <3>1, NotRunning DEF StopStep, InStop
  <2> QED BY <2>1, <2>2
<1> QED BY <1>1, <1>6, <1>7, <1>8, <1>9, ScriptStutters DEF IInv, Core

-----------------------------------------------------------------------------
(* The targets' and the manager's steps.                                    *)

(* A step of a target makes no process alive and starts none.               *)
LEMMA TargetStep ==
  ASSUME IInv, UNCHANGED othersUnchanged,
         target' \in [Pids -> States],
         signals' \in [Pids -> SUBSET {"TERM", "KILL"}],
         news' \subseteq Pids,
         mishaps \subseteq mishaps', mishaps' \subseteq Mishaps,
         manager' = manager,
         queue' = queue \/ Post("message") \/ (Post("QUIT") /\ Happened(Fatal)'),
         \A p \in Pids : target[p] = "none" => target'[p] = "none",
         \/ "stopped" \in mishaps'
         \/ /\ news' \subseteq news
            /\ \A p \in Pids : /\ target'[p] \in Living => Alive(p)
                               /\ target'[p] = "stopped" => target[p] = "stopped",
         \/ offset' = offset
         \/ /\ Happened({"slowexec", "badexec"})'
            /\ offset' \in 1..(Len(script) + 1)
  PROVE  IInv' /\ StopStep
<1>1. /\ script' = script /\ source' = source /\ line' = line /\ typed' = typed
      /\ ran' = ran /\ console' = console /\ program' = program
      /\ program_pid' = program_pid /\ piped' = piped /\ left' = left /\ asked' = asked
  BY DEF othersUnchanged
<1>2. Core /\ CoreTypes /\ ScriptTypes /\ LinesInv BY DEF IInv, Core
<1>3. queue' \in Seq({"message", "QUIT"}) BY <1>2, Posts DEF CoreTypes
<1>4. CoreTypes' BY <1>1, <1>2, <1>3 DEF CoreTypes
<1>5. OneInv'
  <2>1. CASE "stopped" \in mishaps' BY <2>1 DEF OneInv
  <2>2. CASE "stopped" \notin mishaps' BY <1>1, <1>2, <2>2, OneKept DEF Core
  <2> QED BY <2>1, <2>2
<1>6. Calm => Happened(Fatal)' \/ Calm'
  <2> SUFFICES ASSUME Calm, ~Happened(Fatal)' PROVE Calm'
    OBVIOUS
  <2>1. program_pid' >= 0 /\ (program_pid' = 0 => \A p \in Pids : target'[p] = "none")
    BY <1>1, NoneStarted
  <2>2. \A i \in 1..Len(queue') : queue'[i] = "message" BY <1>2, Posts DEF Calm
  <2> QED BY <1>1, <2>1, <2>2 DEF Calm
<1>7. SurviveInv' BY <1>1, <1>2, <1>6, SurviveKept DEF Core
<1>8. ScriptTypes' BY <1>1, <1>2 DEF ScriptTypes
<1>9. LinesInv'
  <2>1. CASE offset' = offset BY <1>1, <1>2, <2>1, LinesKept
  <2>2. CASE Happened({"slowexec", "badexec"})' BY <2>2 DEF LinesInv
  <2> QED BY <2>1, <2>2
<1>10. StopStep BY <1>1 DEF StopStep, InStop
<1> QED BY <1>4, <1>5, <1>7, <1>8, <1>9, <1>10 DEF IInv, Core

(* A process that dies. *)
LEMMA Death ==
  ASSUME CoreTypes, NEW p \in Pids, Dies(p), target[p] # "none"
  PROVE  /\ target' \in [Pids -> States]
         /\ signals' \in [Pids -> SUBSET {"TERM", "KILL"}]
         /\ news' \subseteq Pids /\ news' \subseteq news
         /\ \A q \in Pids : /\ target[q] = "none" => target'[q] = "none"
                            /\ target'[q] \in Living => Alive(q)
                            /\ target'[q] = "stopped" => target[q] = "stopped"
<1>1. /\ target' = [target EXCEPT ![p] = "zombie"]
      /\ signals' = [signals EXCEPT ![p] = {}]
      /\ news' = news \ {p}
  BY DEF Dies
<1> QED BY <1>1 DEF CoreTypes, States, Alive, Living

(* Where the script is read on after a child's exit. *)
LEMMA Rewound ==
  ASSUME CoreTypes, ScriptTypes, NEW p \in Pids, Exits(p)
  PROVE  offset' \in 1..(Len(script) + 1)
<1>1. left[p] \in 0..Len(script) /\ offset \in 1..(Len(script) + 1) /\ Len(script) \in Nat
  BY ScriptLength DEF CoreTypes, ScriptTypes
<1> QED BY <1>1 DEF Exits

LEMMA ProcessStep ==
  ASSUME IInv, NEW p \in Pids,
         ProcessSteps(p) \/ TargetEnds(p) \/ Reports(p) \/ JobStop(p) \/ JobContinue(p)
  PROVE  IInv' /\ StopStep
<1>1. CoreTypes /\ ScriptTypes /\ OneInv /\ mishaps \subseteq Mishaps
  BY DEF IInv, Core, CoreTypes
<1>2. CASE Execve(p)
  <2>1. /\ target[p] = "forked" /\ target' = [target EXCEPT ![p] = "running"]
        /\ UNCHANGED <<othersUnchanged, offset, signals, news, manager, queue, mishaps>>
    BY <1>2 DEF Execve
  <2>2. /\ target' \in [Pids -> States]
        /\ \A q \in Pids : /\ target[q] = "none" => target'[q] = "none"
                           /\ target'[q] \in Living => Alive(q)
                           /\ target'[q] = "stopped" => target[q] = "stopped"
    BY <1>1, <2>1 DEF CoreTypes, States, Alive, Living
  <2>3. signals' \in [Pids -> SUBSET {"TERM", "KILL"}] /\ news' \subseteq Pids
    BY <1>1, <2>1 DEF CoreTypes
  <2> QED BY <1>1, <2>1, <2>2, <2>3, TargetStep
<1>3. CASE ExecveFails(p)
  <2>1. /\ target[p] = "forked" /\ Exits(p) /\ Dies(p)
        /\ mishaps' = mishaps \cup {"badexec"}
        /\ UNCHANGED <<othersUnchanged, manager, queue>>
    BY <1>3 DEF ExecveFails, Exits
  <2>2. mishaps' \subseteq Mishaps /\ Happened({"slowexec", "badexec"})'
    BY <1>1, <2>1 DEF Mishaps, Happened
  <2>3. offset' \in 1..(Len(script) + 1) BY <1>1, <2>1, Rewound
  <2> QED BY <1>1, <2>1, <2>2, <2>3, Death, TargetStep
<1>4. CASE ChildQuits(p)
  <2>1. /\ target[p] = "quitting" /\ Exits(p) /\ Dies(p) /\ Post("QUIT")
        /\ mishaps' = mishaps \cup {"slowexec"}
        /\ UNCHANGED <<othersUnchanged, manager>>
    BY <1>4 DEF ChildQuits, Exits
  <2>2. /\ mishaps' \subseteq Mishaps /\ Happened({"slowexec", "badexec"})'
        /\ Happened(Fatal)'
    BY <1>1, <2>1 DEF Mishaps, Happened, Fatal
  <2>3. offset' \in 1..(Len(script) + 1) BY <1>1, <2>1, Rewound
  <2> QED BY <1>1, <2>1, <2>2, <2>3, Death, TargetStep
<1>5. CASE Term(p)
  <2>1. /\ target[p] = "running"
        /\ UNCHANGED <<othersUnchanged, offset, manager, queue, mishaps>>
        /\ \/ Dies(p)
           \/ /\ signals' = [signals EXCEPT ![p] = signals[p] \ {"TERM"}]
              /\ target' = target /\ news' = news
    BY <1>5 DEF Term
  <2>2. CASE Dies(p) BY <1>1, <2>1, <2>2, Death, TargetStep
  <2>3. CASE /\ signals' = [signals EXCEPT ![p] = signals[p] \ {"TERM"}]
             /\ target' = target /\ news' = news
    <3>1. /\ signals' \in [Pids -> SUBSET {"TERM", "KILL"}]
          /\ target' \in [Pids -> States] /\ news' \subseteq Pids
      BY <1>1, <2>3 DEF CoreTypes
    <3> QED BY <1>1, <2>1, <2>3, <3>1, TargetStep DEF Alive, Living
  <2> QED BY <2>1, <2>2, <2>3
<1>6. CASE Kill(p) \/ TargetEnds(p)
  <2>1. /\ target[p] # "none" /\ Dies(p)
        /\ UNCHANGED <<othersUnchanged, offset, manager, queue, mishaps>>
    BY <1>6 DEF Kill, TargetEnds, Alive, Living
  <2> QED BY <1>1, <2>1, Death, TargetStep
<1>7. CASE JobStop(p)
  <2>1. /\ target[p] = "running" /\ target' = [target EXCEPT ![p] = "stopped"]
        /\ news' = news \cup {p} /\ mishaps' = mishaps \cup {"stopped"}
        /\ UNCHANGED <<othersUnchanged, offset, signals, manager, queue>>
    BY <1>7 DEF JobStop
  <2>2. /\ target' \in [Pids -> States] /\ news' \subseteq Pids
        /\ signals' \in [Pids -> SUBSET {"TERM", "KILL"}]
        /\ \A q \in Pids : target[q] = "none" => target'[q] = "none"
    BY <1>1, <2>1 DEF CoreTypes, States
  <2>3. mishaps' \subseteq Mishaps /\ "stopped" \in mishaps' BY <1>1, <2>1 DEF Mishaps
  <2> QED BY <2>1, <2>2, <2>3, TargetStep
<1>8. CASE JobContinue(p)
  <2>1. /\ target[p] = "stopped" /\ target' = [target EXCEPT ![p] = "running"]
        /\ news' = news \cup {p}
        /\ UNCHANGED <<othersUnchanged, offset, signals, manager, queue, mishaps>>
    BY <1>8 DEF JobContinue
  <2>2. /\ target' \in [Pids -> States] /\ news' \subseteq Pids
        /\ signals' \in [Pids -> SUBSET {"TERM", "KILL"}]
        /\ \A q \in Pids : target[q] = "none" => target'[q] = "none"
    BY <1>1, <2>1 DEF CoreTypes, States
  <2>3. "stopped" \in mishaps' BY <1>1, <2>1 DEF OneInv, Sole
  <2> QED BY <1>1, <2>1, <2>2, <2>3, TargetStep
<1>9. CASE TermBeforeExecve(p)
  <2>1. /\ target[p] = "forked" /\ target' = [target EXCEPT ![p] = "quitting"]
        /\ UNCHANGED <<othersUnchanged, offset, signals, news, manager, queue, mishaps>>
    BY <1>9 DEF TermBeforeExecve
  <2>2. /\ target' \in [Pids -> States]
        /\ \A q \in Pids : /\ target[q] = "none" => target'[q] = "none"
                           /\ target'[q] \in Living => Alive(q)
                           /\ target'[q] = "stopped" => target[q] = "stopped"
    BY <1>1, <2>1 DEF CoreTypes, States, Alive, Living
  <2>3. signals' \in [Pids -> SUBSET {"TERM", "KILL"}] /\ news' \subseteq Pids
    BY <1>1, <2>1 DEF CoreTypes
  <2> QED BY <1>1, <2>1, <2>2, <2>3, TargetStep
<1>10. CASE Reports(p)
  <2>1. /\ Post("message")
        /\ UNCHANGED <<othersUnchanged, offset, target, signals, news, manager, mishaps>>
    BY <1>10 DEF Reports
  <2>2. /\ signals' \in [Pids -> SUBSET {"TERM", "KILL"}]
        /\ target' \in [Pids -> States] /\ news' \subseteq Pids
    BY <1>1, <2>1 DEF CoreTypes
  <2> QED BY <1>1, <2>1, <2>2, TargetStep DEF Alive
<1> QED BY <1>2, <1>3, <1>4, <1>5, <1>6, <1>7, <1>8, <1>9, <1>10 DEF ProcessSteps

LEMMA ManagerReadsStep ==
  ASSUME IInv, ManagerReads
  PROVE  IInv' /\ StopStep
<1>1. /\ manager = "up" /\ queue # <<>> /\ queue' = Tail(queue)
      /\ manager' = IF Head(queue) = "QUIT" THEN "quit" ELSE "up"
      /\ UNCHANGED <<scriptVars, console, program, program_pid, piped, targetVars,
                     asked, mishaps>>
  BY DEF ManagerReads
<1>2. Core /\ CoreTypes BY DEF IInv, Core
<1>3. /\ queue' \in Seq({"message", "QUIT"})
      /\ Len(queue) \in Nat \ {0} /\ Len(queue') = Len(queue) - 1
      /\ Head(queue) = queue[1]
      /\ \A i \in 1..Len(queue') : queue'[i] = queue[i + 1]
  BY <1>1, <1>2 DEF CoreTypes
<1>4. CoreTypes' BY <1>1, <1>2, <1>3 DEF CoreTypes, scriptVars, targetVars
<1>5. OneInv' BY <1>1, <1>2, OneKept DEF Core, targetVars, Alive, Living
<1>6. Calm => Calm'
  <2> SUFFICES ASSUME Calm PROVE Calm'
    OBVIOUS
  <2>1. \A i \in 1..Len(queue) : queue[i] = "message" BY DEF Calm
  <2>2. manager' = "up" BY <1>1, <1>3, <2>1
  <2>3. ASSUME NEW i \in 1..Len(queue') PROVE queue'[i] = "message"
    <3>1. i + 1 \in 1..Len(queue) BY <1>3
    <3> QED BY <1>3, <2>1, <3>1
  <2> QED BY <1>1, <2>2, <2>3 DEF Calm, targetVars
<1>7. SurviveInv' BY <1>1, <1>2, <1>6, SurviveKept DEF Core
<1>8. StopStep BY <1>1 DEF StopStep, InStop
<1> QED BY <1>1, <1>4, <1>5, <1>7, <1>8, ScriptStutters DEF IInv, Core

-----------------------------------------------------------------------------
(* Theorems.                                                                *)

LEMMA InitIInv == Init => IInv
<1> SUFFICES ASSUME Init PROVE IInv
  OBVIOUS
<1>1. script \in Scripts /\ Len(script) \in Nat BY DEF Init
<1>2. CoreTypes
  <2>1. console = [at |-> "ready", next |-> "ready"] BY DEF Init, Doing
  <2>2. console \in [at : Places, next : {"ready", "restarting", "leaving"}]
    BY <2>1 DEF Places
  <2>3. /\ target \in [Pids -> States] /\ signals \in [Pids -> SUBSET {"TERM", "KILL"}]
        /\ left \in [Pids -> 0..Len(script)]
    BY <1>1 DEF Init, States
  <2>4. program_pid \in -1..MaxStarts BY DEF Init
  <2>5. queue \in Seq({"message", "QUIT"}) BY DEF Init
  <2> QED BY <2>2, <2>3, <2>4, <2>5 DEF Init, CoreTypes
<1>3. ScriptTypes BY <1>1 DEF Init, ScriptTypes
<1>4. Core BY <1>2 DEF Core, Init, OneInv, Sole, Alive, Living, SurviveInv, Calm, Doing
<1>5. LinesInv BY <1>1 DEF Init, LinesInv, InTurn
<1> QED BY <1>3, <1>4, <1>5 DEF IInv

(* A handler runs for a signal that there is a handler for.                 *)
LEMMA NextHandling == HandlingType /\ [Next]_vars => HandlingType'
<1> SUFFICES ASSUME HandlingType, [Next]_vars PROVE HandlingType'
  OBVIOUS
<1>1. \/ handling' = handling
      \/ handling' = handling \cup {"TERM"}
      \/ \E s \in {"INT", "HUP", "TERM"} : handling' = handling \cup {s}
  <2>1. CASE ReadLine \/ Type BY <2>1 DEF ReadLine, Type, Handle
  <2>2. CASE ConsoleSteps /\ ~ReadLine
    BY <2>2 DEF ConsoleSteps, ReadOn, Poll, EndStop, Restart, Write, Send, Leave
  <2>3. CASE Interrupted \/ CtrlC BY <2>3 DEF Interrupted, CtrlC, Catch
  <2>4. CASE \E p \in Pids :
               ProcessSteps(p) \/ TargetEnds(p) \/ Reports(p) \/ JobStop(p) \/ JobContinue(p)
    BY <2>4 DEF ProcessSteps, Execve, ExecveFails, TermBeforeExecve, ChildQuits, Term, Kill,
                TargetEnds, Reports, JobStop, JobContinue, othersUnchanged
  <2>5. CASE ManagerReads \/ UNCHANGED vars BY <2>5 DEF ManagerReads, vars
  <2> QED BY <2>1, <2>2, <2>3, <2>4, <2>5 DEF Next
<1> QED BY <1>1 DEF HandlingType

LEMMA NextIInv == IInv /\ [Next]_vars => IInv' /\ (StopStep \/ UNCHANGED vars)
<1> SUFFICES ASSUME IInv, [Next]_vars PROVE IInv' /\ (StopStep \/ UNCHANGED vars)
  OBVIOUS
<1>1. CASE ConsoleSteps
  BY <1>1, ReadLineStep, ReadOnStep, PollStep, EndStopStep, RestartStep, WriteStep, SendStep,
     LeaveStep DEF ConsoleSteps
<1>2. CASE Type \/ Interrupted \/ CtrlC
  BY <1>2, TypeStep, InterruptedStep, CtrlCStep
<1>3. CASE \E p \in Pids :
             ProcessSteps(p) \/ TargetEnds(p) \/ Reports(p) \/ JobStop(p) \/ JobContinue(p)
  BY <1>3, ProcessStep
<1>4. CASE ManagerReads
  BY <1>4, ManagerReadsStep
<1>5. CASE UNCHANGED vars
  <2>1. UNCHANGED coreVars /\ UNCHANGED scriptVars
    BY <1>5 DEF vars, coreVars, scriptVars
  <2> QED BY <1>5, <2>1, CoreStutters, ScriptStutters DEF IInv, coreVars
<1> QED BY <1>1, <1>2, <1>3, <1>4, <1>5 DEF Next

(* The inductive invariant of a session. *)
THEOREM Invariant == Spec => []IInv
<1>1. Init => IInv BY InitIInv
<1>2. IInv /\ [Next]_vars => IInv' BY NextIInv
<1> QED BY <1>1, <1>2, PTL DEF Spec

(* What the console remembers of its script (line, the descriptor's offset) *)
(* and of its target (program_pid, execve_pipe) stays in range.             *)
THEOREM TypeCorrect == Spec => []TypeOK
<1>1. Init => HandlingType BY DEF Init, HandlingType
<1>2. HandlingType /\ [Next]_vars => HandlingType' BY NextHandling
<1>3. IInv /\ HandlingType => TypeOK BY TypesAre DEF IInv, Core
<1> QED BY <1>1, <1>2, <1>3, Invariant, PTL DEF Spec

(* start_operation's check keeps the console at one target, whatever the    *)
(* commands, the signals and the deaths, if no target is under job control. *)
THEOREM AtMostOneTarget == Spec => []OneTarget
<1>1. IInv => OneTarget
  BY DEF IInv, Core, OneInv, Sole, OneTarget, Happened
<1> QED BY <1>1, Invariant, PTL

(* Without one of the five mishaps no command ends the console or the       *)
(* manager: both stop for a quit, a signal or nothing.                      *)
THEOREM Survives == Spec => []SessionSurvives
<1>1. IInv => SessionSurvives
  BY DEF IInv, Core, SurviveInv, Calm, SessionSurvives, SurvivesCommands, Fatal
<1> QED BY <1>1, Invariant, PTL

(* read_config_file executes its file's lines once and in order, unless a   *)
(* forked copy of the console rewound the descriptor by its exit.           *)
THEOREM LinesRunOnce == Spec => []LinesOnce
<1>1. IInv => LinesOnce
  BY DEF IInv, LinesInv, InTurn, LinesOnce, EachLineInTurn
<1> QED BY <1>1, Invariant, PTL

(* stop_operation does not return before its target is dead: the wait after *)
(* SIGTERM found it gone, or the one after SIGKILL did, or stop failed.     *)
THEOREM StopEndsTarget == Spec => StopStops
<1>1. IInv /\ [Next]_vars =>
        [InStop /\ ~InStop' /\ mishaps' \cap {"stopped", "unkillable"} = {}
           => ~Alive(program_pid)']_vars
  BY NextIInv DEF StopStep
<1> QED BY <1>1, Invariant, PTL DEF Spec, StopStops
=============================================================================
