------------------------------ MODULE Environ ------------------------------
(***************************************************************************)
(* The environment the console hands to the target: the table envs, edited *)
(* by "set env", "set preload", "set target" and "copy env" (add_env_var,  *)
(* copy_env and start_console in src/rec/console.c).                       *)
(*                                                                         *)
(* An entry is a name and a value. add_env_var takes the first entry that  *)
(* begins with the name it is given, and compares no further: Begins is    *)
(* that comparison. "set preload" and "set target" are commands about      *)
(* LD_PRELOAD and about _, the name that most names begin with.            *)
(***************************************************************************)
EXTENDS Integers, Sequences, SequencesExt

CONSTANTS
  Names,          \* names of variables
  BeginsWith,     \* pairs <<n, m>>: the name m begins with the name n
  Values,         \* values, none of them empty
  NoValue,        \* of a variable that is not in the table
  HTH_MSQ,        \* the name that tells the preload library the queue
  Queue,          \* its value
  Environments,   \* sequences of names the console may have inherited
  Inherited,      \* the value of inherited variables
  MaxEnvs         \* entries envs[64] holds besides the NULL at its end

Begins(n, m) == <<n, m>> \in BeginsWith

ASSUME NamesAssumption ==
  /\ HTH_MSQ \in Names /\ Queue \in Values /\ Inherited \in Values
  /\ NoValue \notin Values
  /\ Environments \subseteq Seq(Names)
  /\ MaxEnvs \in Nat \ {0}

ASSUME BeginsAssumption ==
  /\ \A n \in Names : Begins(n, n)
  /\ \A l, m, n \in Names : Begins(l, m) /\ Begins(m, n) => Begins(l, n)

VARIABLES
  envs,         \* the table
  console,      \* "ready", "copying", "left" its loop, or "crashed"
  interactive,  \* at the prompt, not in a script
  environ,      \* the names the console has inherited
  copied,       \* how many of them the last copy has been through
  last,         \* history: the value a variable was given last, if any
  touched       \* history: variables a later command may have cost

vars == <<envs, console, interactive, environ, copied, last, touched>>
historyVars == <<last, touched>>
stateVars == <<interactive, environ>>

Entry(n, v) == [name |-> n, value |-> v]

(* What getenv finds in the target. *)
Getenv(n) ==
  IF \E i \in 1..Len(envs) : envs[i].name = n
  THEN envs[CHOOSE i \in 1..Len(envs) : envs[i].name = n].value
  ELSE NoValue

-----------------------------------------------------------------------------
(* A definition named Faulty... is what the definition after it would be    *)
(* with a plausible bug in the code: no part of the specification.          *)

(* The loop of add_env_var stops at entry i, or goes through all of them.   *)
StopsAt(n, i) ==
  /\ Begins(n, envs[i].name)
  /\ \A j \in 1..i-1 : ~Begins(n, envs[j].name)

Missing(n) == \A i \in 1..Len(envs) : ~Begins(n, envs[i].name)

FaultyReset(n, v, i) ==
  /\ StopsAt(n, i)
  /\ envs' = [envs EXCEPT ![i].value = v]
  /\ last' = [last EXCEPT ![n] = v]
  /\ touched' = (touched \cup {m \in Names : Begins(n, m)}) \ {n}

(* An entry is overwritten, its name as well. *)
Reset(n, v, i) ==
  /\ StopsAt(n, i)
  /\ envs' = [envs EXCEPT ![i] = Entry(n, v)]
  /\ last' = [last EXCEPT ![n] = v]
  /\ touched' = (touched \cup {m \in Names : Begins(n, m)}) \ {n}

FaultyClear(n, i) ==
  /\ StopsAt(n, i)
  /\ envs' = SubSeq(envs, 1, i - 1)
  /\ last' = [last EXCEPT ![n] = NoValue]
  /\ touched' = (touched \cup {m \in Names : Begins(n, m)}) \ {n}

(* An empty value removes the entry; those behind it move up. *)
Clear(n, i) ==
  /\ StopsAt(n, i)
  /\ envs' = RemoveAt(envs, i)
  /\ last' = [last EXCEPT ![n] = NoValue]
  /\ touched' = (touched \cup {m \in Names : Begins(n, m)}) \ {n}

FaultyCreate(n, v) ==
  /\ Missing(n) /\ Len(envs) <= MaxEnvs
  /\ envs' = Append(envs, Entry(n, v))
  /\ last' = [last EXCEPT ![n] = v]
  /\ touched' = touched \ {n}

Create(n, v) ==
  /\ Missing(n) /\ Len(envs) < MaxEnvs
  /\ envs' = Append(envs, Entry(n, v))
  /\ last' = [last EXCEPT ![n] = v]
  /\ touched' = touched \ {n}

(* "Critical! environment buffer full!": the only result but 0.            *)
Full(n) ==
  /\ Missing(n) /\ Len(envs) >= MaxEnvs
  /\ UNCHANGED <<envs, historyVars>>

(* What a result but 0 does to the loop that runs the command: at the prompt *)
(* it ends the console, without a QUIT; a script goes on.                   *)
Refused == console' = IF interactive THEN "left" ELSE "ready"

-----------------------------------------------------------------------------
(* set env <name> <value>, and the other settings that end in add_env_var.  *)
SetVariable(n, v) ==
  /\ console = "ready"
  /\ copied' = 0
  /\ \/ \E i \in 1..Len(envs) : Reset(n, v, i) /\ UNCHANGED console
     \/ Create(n, v) /\ UNCHANGED console
     \/ Full(n) /\ Refused
  /\ UNCHANGED stateVars

(* set env <name> with an empty value. A name the table does not have gets  *)
(* an entry with that value, which the model does not tell from the others. *)
UnsetVariable(n) ==
  /\ console = "ready"
  /\ copied' = 0
  /\ \/ \E i \in 1..Len(envs) : Clear(n, i) /\ UNCHANGED console
     \/ \E v \in Values : Create(n, v) /\ UNCHANGED console
     \/ Full(n) /\ Refused
  /\ UNCHANGED stateVars

(* set env <name>, with no value at all: strlen(NULL), or the value "(null)". *)
SetWithoutValue(n) ==
  /\ console = "ready"
  /\ copied' = 0
  /\ \/ /\ ~Missing(n)
        /\ console' = "crashed"
        /\ UNCHANGED <<envs, historyVars>>
     \/ \E v \in Values : Create(n, v) /\ UNCHANGED console
     \/ Full(n) /\ Refused
  /\ UNCHANGED stateVars

FaultyAppend(n, v) ==
  /\ Len(envs) < MaxEnvs
  /\ envs' = Append(envs, Entry(n, v))
  /\ last' = [last EXCEPT ![n] = v]
  /\ touched' = touched \ {n}

(* A word behind the value: an entry that is there stays as it is.          *)
Add(n, v) ==
  \/ ~Missing(n) /\ UNCHANGED <<envs, historyVars>>
  \/ Create(n, v)

SetUnlessThere(n, v) ==
  /\ console = "ready"
  /\ copied' = 0
  /\ \/ Add(n, v) /\ UNCHANGED console
     \/ Full(n) /\ Refused
  /\ UNCHANGED stateVars

(* copy env: the console's own variables, one after the other, none of them *)
(* over an entry that is there; it ends when the table is full.             *)
BeginCopy ==
  /\ console = "ready"
  /\ console' = "copying"
  /\ copied' = 0
  /\ UNCHANGED <<envs, stateVars, historyVars>>

CopyNext ==
  /\ console = "copying" /\ copied < Len(environ)
  /\ \/ /\ Add(environ[copied + 1], Inherited)
        /\ copied' = copied + 1
        /\ UNCHANGED console
     \/ Full(environ[copied + 1]) /\ Refused /\ UNCHANGED copied
  /\ UNCHANGED stateVars

EndCopy ==
  /\ console = "copying" /\ copied = Len(environ)
  /\ console' = "ready"
  /\ UNCHANGED <<envs, stateVars, copied, historyVars>>

(* The last script is through, and the prompt appears.                      *)
Prompt ==
  /\ console = "ready" /\ ~interactive
  /\ interactive' = TRUE
  /\ UNCHANGED <<envs, console, environ, copied, historyVars>>

-----------------------------------------------------------------------------
Init ==
  /\ envs = <<Entry(HTH_MSQ, Queue)>>
  /\ console = "ready"
  /\ interactive = FALSE
  /\ environ \in Environments
  /\ copied = 0
  /\ last = [n \in Names |-> IF n = HTH_MSQ THEN Queue ELSE NoValue]
  /\ touched = {}

Command ==
  \E n \in Names :
    \/ \E v \in Values : SetVariable(n, v) \/ SetUnlessThere(n, v)
    \/ UnsetVariable(n)
    \/ SetWithoutValue(n)

Next == Command \/ BeginCopy \/ CopyNext \/ EndCopy \/ Prompt

Spec == Init /\ [][Next]_vars

-----------------------------------------------------------------------------
(* Properties. *)

(* Types; the NULL behind the last entry has a place in envs[64].           *)
TypeOK ==
  /\ envs \in Seq([name : Names, value : Values])
  /\ Len(envs) <= MaxEnvs
  /\ console \in {"ready", "copying", "left", "crashed"}
  /\ interactive \in BOOLEAN
  /\ environ \in Environments
  /\ copied \in 0..Len(environ)
  /\ last \in [Names -> Values \cup {NoValue}]
  /\ touched \subseteq Names

(* "to avoid duplicates" (console.c:341): no variable is in the table       *)
(* twice, whatever is set, removed and copied in whatever order.            *)
NoDuplicates ==
  \A i, j \in 1..Len(envs) : i # j => envs[i].name # envs[j].name

(* The target finds the value a variable was given last, and none if it was *)
(* removed or never given one, unless a later command about a name it       *)
(* begins with may have cost it: no overwrite, no removal and no full table *)
(* ever loses or revives a variable the command was not about, the name of  *)
(* the queue, which is there from the start, included.                      *)
LastWins == \A n \in Names \ touched : Getenv(n) = last[n]

(* The table implements a map in which a command costs at most one variable *)
(* besides the one it is about.                                             *)
EnvironmentMap == INSTANCE EnvMap WITH env <- [n \in Names |-> Getenv(n)]
ImplementsMap == EnvironmentMap!EnvSpec

=============================================================================
