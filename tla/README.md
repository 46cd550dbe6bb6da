# A model of the Hack the Heap puzzle generator

The puzzle generator records what a program does to its heap and turns the
recording into a puzzle. A *console* starts the target program under a
*preload library*; the library and the console put messages on a System V
queue; a *manager* process keeps them in a table and writes the table to a
file; three Python programs split the file by process, follow every pointer
through it, and write the puzzle.

This directory holds TLA+ modules for that system, the TLC configurations that
check them, and TLAPS proofs about the recorder, the session, the preload
library, the environment table, the splitter and the labeller. Paths below are
those of the repository.

## Inventory

| component | state | operations | talks to | what makes it correct |
| --- | --- | --- | --- | --- |
| preload library (`src/preload/main.c`) | recursion flag and table of reported libraries, shared by the threads of a process and copied by `fork`; queue id | wrappers of the allocator, `fork`, `mallopt`, annotations `hth_*` | sends to the queue, blocks while it is full | a report is true; every call is reported once and in order where threads do not meet; a library is announced before its calls; the flag never stays set |
| manager (`src/rec/manager.c`) | `operations[1024]` with growing record arrays, `op_ctr`, `current_exec` and library lists, settings, output file | one handler for each kind of message | takes from the queue; calls export | nothing lost, reordered, doubled or written out of bounds; libraries under the right image |
| export (`src/rec/export.c`) | none | writes settings and operations | the file | the file is what memory holds |
| console (`src/rec/console.c`, `main.c`) | script position, `program_pid`, pipe, signal handlers | start, stop, restart, interact, exec, show, set, quit, messages | starts and signals targets; sends to the queue | one target at a time; stop stops it; quit ends everything; nothing else does |
| environment of the target (`console.c`) | the table `envs[64]` | `add_env_var`, `copy_env`, and the settings that end in them | given to `execve`; a refusal ends the prompt | no variable twice; the value given last is what the target finds; a command costs no variable it is not about |
| splitter (`src/refinery/split.py`) | lines by pid | one step for each line | recording to one file for each process | each process gets its own lines and those of its past |
| parser (`src/refinery/parser.py`, `operation.py`) | operations, waiting marks | one step for each line | fills the labeller's operations | marks meet the step they count to |
| labeller (`src/refinery/manager.py`) | steps with tags | `label`, `_track_ptr`, clean | | same tag exactly for the same object |
| initialisation cleanup, export (`manager.py`) | list of removable tags | `_init_stable`, `remove_by_tag`, `export` | removes steps | an object goes whole or stays; none that later operations use goes |
| DWARF names, command line, builds, test programs | | | | not modelled |

What is hard: the threads that share the preload library's flag and table
without a lock, the processes that share the queue (a child's message against the
parent's report of it), the two copies of the console after `fork`, the signals
that arrive in the middle of a command, the kernel's handling of `waitpid`,
files and shared descriptors, the queue that is full when nobody empties it any more, the limits of the fixed
tables, memory that runs out when an array has to grow, the export that
is cut short, and addresses that are used again and again. `PROJECT.json` lists
each hazard at its line with the properties that are about it.

## Modules

| module | models | composed with |
| --- | --- | --- |
| `HeapLog` | what a recording promises: an append-only log of operations, of which the current one may get lost, and a file that is always a beginning of the log and a copy of it when it ends with END | implemented by `Recorder` |
| `Recorder` | manager, export, queue, and the senders (preload library of several processes, console commands) | |
| `RecorderProofs` | theorems about `Recorder`: memory and file | extends `Recorder` |
| `RecorderHistoryProofs` | theorems about `Recorder`: what memory has to do with the messages sent; crashes | extends `RecorderProofs` |
| `Session` | console, targets as the kernel sees them, manager as the console sees it | |
| `SessionProofs` | theorems about `Session` | extends `Session` |
| `Capture` | the preload library's wrappers, statement by statement, in a process with several threads and a child it forks | its queue is the one of `Recorder` |
| `CaptureProofs` | theorems about `Capture`: the flag, the reports and the heap | extends `Capture` |
| `CaptureRecordingProofs` | theorems about `Capture`: the whole recording of a process, and libraries | extends `CaptureProofs` |
| `EnvMap` | what the console makes of the environment, as a map | implemented by `Environ` |
| `Environ` | `add_env_var`, `copy_env` and the commands that use them | |
| `EnvironProofs` | theorems about `Environ` | extends `Environ` |
| `Splitter` | `split.py`, fed by the recordings that the manager can export | |
| `SplitterProofs` | theorems about `Splitter` | extends `Splitter` |
| `Labeller` | parser, pointer labelling, cleanup and export, fed by a program on a heap that works | |
| `LabellerProofs` | theorems about `Labeller` | extends `Labeller` |
| `MCRecorder`, `MCSession`, `MCCapture`, `MCEnviron`, `MCSplitter`, `MCLabeller` | small instances for TLC | |

A definition called `Faulty...` is what the next definition would be with a
plausible bug. It is no part of a specification; replacing the definition by it
shows that a property notices the bug (`PROJECT.json`, "mutants").

### Recorder

A message is a record `[kind, pid, arg, img]`: the first word, the pid the
library appends, what the handler looks at in the other words, and the image
(address space) of the sender. `Senders` has one action for each thing a
process or the console can do; `Post` is disabled while the queue is full, as
`msgsnd` blocks. A process between `orig_fork` and its report does nothing else
(`Active`), while its child may already run. `Command` has the commands the
console knows; `Typed` the words of the preload library, which the console
passes on as it does any word it does not know (`console.c:427`), whole or with
too little behind them (`bare`).

`Manager` has one action for each handler. Each takes the message, makes the
growth check at the head of `mgr_handle_message` (`Grown`) and does what the
handler does; comments return before the check. The check raises `max_size`
and overwrites the pointer before it knows whether `realloc` had memory, and
then tests the wrong pointer (`manager.c:360-363`). After a failure `slots` is
0: the records are out of reach, their messages are `lost`, and the next
handler that stores (`HandleWithoutArray`) or the next export (`ExportCrash`)
goes through NULL. `mgr_next` does not test its array either
(`NewOperations`). `HandleOutOfMemory` is any handler whose own `malloc` fails:
those that test the pointer drop the message, the others crash.
`HandleMalformed` is a handler that reads words that are not there, or the
libraries of no exec. A text of more than sixteen words (`many`) overruns
`args[]` in `str_split`: the model takes a crash, a message that is lost
(`HandleOverrun`) and no harm at all for what can follow. `HandlePastTable` is
the handler that finds `op_ctr` behind the table: the outcome is undefined and
the model stops there.

`save` is `HandleSave` up to `fopen`, which empties the file, and then line
after line (`ExportNext`, `ExportRecord`, `ExportEnd`), because stdio may write
its buffer at any point: `Killed` and `ExportCrash` leave behind what is there.

`ops`, `execs`, `file` keep what the manager's structures keep, without sizes,
addresses and names. `from` in a record and in a library list, `img` in a
library list, `sent` and `lost` are history. A short REALLOC or MEMALIGN, and a
NEWEXEC without `main`, leave the pid of their record unset; the model gives it
the value 0, because an array of 16384 records of 24 bytes is mapped by
`malloc` and `realloc` as fresh pages.

### Session

The console is `[at, next]`: what it is doing and what follows a stop.
`ReadLine` and `Type` take a command through `Handle`; `BeginStop`, `Poll`,
`EndStop`, `Restart`, `Write`, `Send` and `Leave` are the later parts of the
commands that sleep, wait or can be overtaken. `Interrupted` and `CtrlC` are the
signal handler, in any state of the console, an `exit_operation` that is on its
way included; `handling` has the signals whose handler has begun, which the
kernel blocks from then on, as no handler returns. `fork` and the assignment to
`program_pid` (`console.c:128`) are one step, so no signal comes between them.

The queue has `QueueRoom` places for the console, for a child that ran the
console's handler (`quitting`) and for the reports of the targets (`Reports`).
Who sends waits for room: the console stays at `sending` or `leaving`. When the
manager has ended nobody makes room any more, and a full queue holds the console
for ever, with every command that sends and with its QUIT (`Stuck`).

A target is forked, quitting, running, stopped, a zombie or reaped; `news` are
stops and continues that `waitpid` would report. The script is an open file: `line` is where the console's buffer is, `offset`
where a `read` continues. The `offset` is shared with every child, `left` is
what a child's copy of the buffer has not consumed; `exit` (not `_Exit`) moves
the offset back by that. The lines of a script are taken to have one length.

`mishaps` is history. The code does not promise, for example, to survive an
`interact` into a pipe without a reader; a property names the mishaps under
which it is not promised, so that what it says of all other behaviours stays
visible:

| mishap | where |
| --- | --- |
| `nobody` | a stop before any start signals the process group (`console.c:181`) |
| `nofork` | `fork` fails, which leaves pid -1 for later signals (`console.c:128`) |
| `slowexec` | a signal finds the child before `execve` (`console.c:128-146`) |
| `badexec` | `execve` fails (`console.c:147`) |
| `stopped` | the target is under job control (`console.c:52`) |
| `unkillable` | the target survived SIGKILL for two seconds (`console.c:190`) |
| `brokenpipe` | SIGPIPE (`console.c:174`) |
| `emptyline` | an empty line in a script (`console.c:31`) |

### Capture

Here the messages of a traced process come from the wrappers themselves. A
thread is at a program counter `pc`: `Call` is a wrapper up to and with the
real function, and `TestFlag`, `SetFlag`, `LookUp`, `Store`, `Terminate`,
`AnnounceLibrary`, `SendReport` and `ClearFlag` are the single reads and writes
of what the threads share, in the order of the code. The guarded wrappers
(`malloc`, `calloc`, `realloc`, `free`) go through the flag; `memalign` and its
like, `reallocarray`, `fork` and the annotations do not look at it.
`PreloadInit` and `AnnounceImage` are the first call of a process: the real
functions are looked up with the flag set, and the image is announced. `Fork`
copies the heap, the flag and the table as they are at that moment. `Mallopt`
jumps to NULL.

The heap of each process is the set of its allocated addresses; `held` are
those the program has been given, and the only ones it may free. `calls` is the
history of what took place, `recording` what was sent, and the properties
compare the two. `trouble` is history of what happened to a process:

| trouble | where | what is not promised then |
| --- | --- | --- |
| `overlap` | two threads in the library at once | completeness and order; a library announced once, before its calls |
| `interrupted` | a signal interrupts `msgsnd` (`main.c:135`) | completeness; that a library's announcement arrived |
| `full` | `dyn_libs` has no place left (`main.c:151`) | that a library is announced |
| `deaf` | forked while another thread held the flag (`main.c:376`) | completeness; that the child is ever recorded |

`FlagHeld`, `TrueReports` and `AllocatedBeforeFreed` hold whatever threads and
signals do (`FlagHeld` but for a deaf child).

### Environ

The table is a sequence of names and values. What matters of names is which
begin with which (`BeginsWith`, any reflexive and transitive relation), because
`add_env_var` takes the first entry that begins with the name it is given.
`Reset` overwrites that entry, `Clear` removes it, `Create` and `Full` are what
follows the loop; `SetVariable`, `UnsetVariable`, `SetWithoutValue`,
`SetUnlessThere` and the three steps of `copy env` are the commands that come
there. `last` (history) is the value each variable was given last, `touched`
the variables whose names begin with that of a later command.

### Splitter and Labeller

Both begin with a recording: actions that make one that the recorder could have
exported. In `Splitter` these are processes that run, fork with an early or
late report and start images with libraries; lines without a pid are there
exactly where the manager or the export loses it (also the last line of an
image, for a binary without `main`). In `Labeller` a program runs
on an allocator that hands out only free addresses; each line remembers the
object it is about, which the labeller does not see. That program has one
thread and does not call `reallocarray`: recordings in which the preload library
has logged a `free` behind the next owner's `malloc`, or a moved block twice
(`main.c:307, 405`), are not among those the labeller is checked on, and what
it makes of them is not claimed. Then the programs run,
line by line and step by step: `ParseLine` for `split.py`; `Parse`, `EndParse`,
`Label`, `Track` and `Sweep` for the parser and the labeller, where `Track` is
one turn of the `while` loop of `_track_ptr` with its `_track_next`. `Cleanup`
is the option `-c`: `Stable` are the tags `_init_stable` returns, `Inner` the
steps its window of three is centred on. `Export` keeps what the puzzle keeps.
Both may end in an exception (phase `failed`).

## Runs

Every bound is a constant: `MaxSent`, `MaxNext` (messages), `MaxStarts`,
`MaxTyped` (targets, typed commands), `MaxCalls`, `MaxRare` (calls of traced
programs), `MaxLines`, `MaxMarks`, `MaxLibs`. The sizes of
the program's own tables are constants too, and small, so that a few messages
reach them.

| run | instance | shows |
| --- | --- | --- |
| `recorder_log` | 1 process, 2 operations, arrays that grow by 1, 5 messages, queue of 1, failing `malloc`, `realloc` and `fopen`, texts with too many words, kill at any line of an export | types; no write behind a live array; the file is a beginning of memory; memory is exactly what the handled messages said, but for the losses named; implements `HeapLog` |
| `recorder_exec` | 2 processes that fork and exec beside each other, 3 libraries, room for 2, typed words, 6 messages | every crash has a named cause; a library once, under its image unless another process announced one since |
| `recorder_live` | 1 process, 4 messages, queue of 2, fair manager | every message is handled; every save is answered by a whole file |
| `recorder_table` | 3 operations, 3 `next` | violated: the handler after the refused `next` is behind the table |
| `session_main` | 5 scripts, 2 targets that report, queue of 2, 1 typed command, SIGINT and SIGTERM, all mishaps, fair console and kernel | one target; the session survives; lines once; stop stops; quit ends all; the script ends |
| `session_race` | `start`, `stop` | violated: the stop ends the manager |
| `labeller_heap` | 2 addresses, 5 lines | tags are objects; nothing lost; playable; the cleanup takes whole objects and none that is used later |
| `labeller_marks` | 2 addresses, 4 lines, marks up to 3 ahead | marks meet their step; refining ends in a puzzle or an exception |
| `splitter_main` | 3 processes, 2 libraries, 5 lines | files hold what belongs to the process; the assertion fails only for late FORKs |
| `capture_main` | 2 threads and a child, 1 address, 2 libraries, room for 1, 3 calls (2 if one is of a rare kind), lost EXTERNAL and MALLOC messages | the flag is held by someone; reports are true, complete without trouble, and in the order the labeller needs; libraries announced once and in time |
| `capture_live` | the same with 1 library, nothing lost, fair threads | the flag is cleared again and again; every call returns |
| `environ_main` | 5 names, of which `_` begins two and `HTH` one, table of 3, 3 environments | nothing twice; the last value wins; implements `EnvMap` |

Why the bounds are enough. Handlers touch the current operation, the last exec
and the array's end: with growth by one and two operations, five messages cover
growth before, at and after a dropped message, a failed growth with an earlier
export on disk and with one under way, a full operation table and an export
before and after each. The log and its order do not depend on the queue's room;
what does is in `recorder_live`, where it is two. Two processes and three
libraries with room for two cover reports by parent and child, an image of one
between two libraries of the other, and the full list. In the session, two
targets are the old and the new one; a queue of two is full with one report of
a target and one message of the console, and with two signals every
`exit_operation` is overtaken by another one. Three processes and five lines in
the splitter make a grandchild that is heard of before and after its FORK line. Two addresses and five lines let an
address be used by three objects and an object move and come back; each odd
thing (a malloc or realloc that fails, unseen memory, an exec) happens at most
once in a recording. In `Capture`, two threads on one address are what
it takes for one to be given what the other has just freed; with room for one
library the second one finds the table full, and two threads meet at the same
place; the child makes a call after any moment at which it can be forked. In
`Environ`, three places and five names let a table be full with the name in
question in it, behind a longer one, or absent. The symmetry sets permute
threads, processes, libraries or addresses, which no definition tells apart; no
run with a liveness property uses one.

Deadlock is not checked in any run: every instance stops when its bound on
messages, commands or lines is reached, and the program stops at its end.

`LibsAttributed` has an exception, and `recorder_exec` reaches it: `mgr_add_external`
files a library under the image announced last (`manager.c:349`), so a process
that forks a child, which starts another program, has its next library listed
under the child's image. The property says that this is all that can go wrong:
the image a library is listed under is its own, or a later one of another
process.

`CrashCause` lists what ends the manager: a full operation table, failed
allocations, texts of too many words and typed words of the preload library. Its
point is what is not on the list: nothing that traced processes send, in any
order, with any fork, exec, library or death.

## Fairness

`Recorder`: weak fairness of `Manager`. It blocks in `msgrcv` and is scheduled
like any process; no message disables it. Nothing is assumed of the senders.
`Session`: weak fairness of the console's own steps, of the manager's reading,
and of each process's `ProcessSteps`, by which the kernel delivers signals and
a forked child reaches its `execve`. A send of the console (`Send`, `Leave`)
waits for room that targets compete for: it has strong fairness, because the
kernel wakes the senders that wait whenever a message is taken, so that one for
which there is room again and again sends in the end. That is no promise that
there will be room: after the manager's end there may be none (`Stuck`), which
`QuitEndsAll` and `ScriptFinishes` name. Nothing is assumed of the user, of a
target's end, of its reports or of job control. `Capture`: weak fairness of `Step` for each thread, once it is in
the library: it waits for nothing but room in the queue, which the manager makes
as long as it runs (`recorder_live`). Nothing is assumed of what the program
calls. `Labeller`: weak fairness of a sequential program. `Environ` has no
liveness: a command is one step.

## Proofs

### Recorder

`RecorderProofs` holds for all values of the constants, under the assumptions
`SizesAssumption` and `NamesAssumption` of `Recorder`: sizes are natural
numbers (positive for the table, the growth and the queue), the console is no
traced process.

* `Invariant`: `Spec => []IInv` with `IInv` the conjunction of `TypeOK`,
  `RecordsFit` (operation by operation: `Fits`), `TableFollows`, `ExecRefs`,
  `FilePrefix` and `WhileSaving`. A handler stores into `operations[op_ctr]`.
  That this operation exists is `TableFollows` (the table has `op_ctr + 1`
  operations until it is full); that it has room, or no array, is `Fits`
  together with the growth check; that the library list it may touch exists is
  `ExecRefs`; that an export cut off anywhere stays a beginning of memory needs
  that nothing is stored while it is under way (`WhileSaving`), and that later
  steps only append, but for a failed growth. None of the parts is inductive
  alone.
* `TypeCorrect`, `NoOverrun`, `ExportIsPrefix`: from `Invariant`.
* `EachLibraryOnce`: `LibsOnce` is inductive with `IInv`; only `HandleExternal`
  and `HandleNewExec` touch library lists.
* `RecorderImplementsLog`: `Spec => ImplementsLog`; the initial state maps to
  the log's, and each action to `Log`, `Lose`, `Begin`, `Truncate`, `Write`,
  `Close` or a stutter.

The proof has one lemma for each handler, on top of general lemmas about
prefixes, about a table in which one operation is replaced (`HandlerStep`), and
about steps that leave the table alone.

`RecorderHistoryProofs` compares memory with `sent`, the history of everything
that was sent. The log that messages give is stated by places and cardinalities
(`IsLog`), not as a fold, so that one more message is a lemma about one more
element of a finite set.

* `HistoryInvariant`: `HInv == QueueIsRest /\ AllMeant /\ LostHandled /\
  NextsCounted /\ HistoryExact`. The queue is the part of `sent` that is not
  handled; lost messages are handled ones; only typed messages lack words; and
  `op_ctr` counts the `next` commands among the handled messages that were not
  lost. That count is needed because the number of operations stops at the limit
  of the table: two full tables differ in whether the next handler has room.
  Then the handler of the n-th message does to memory what the n-th message
  does to the log, or loses it, and a failed growth loses exactly the messages
  recorded in the current operation (`Forgotten`). That is `MemoryIsHistory`.
* `CrashesExplained`: `CrashCause`, by `MInv == UpMapped /\ UnbornSilent /\
  ExternalMapped /\ CurrentLatest /\ NextsBounded`. A handler that goes through
  `current_exec` is safe for a traced process because an image that is up, or is
  the sender of an EXTERNAL message, has been announced in `sent` ahead of it.
* `NeverCrashes` excludes the causes by its hypotheses: memory does not run out
  (`AllocMayFail = FALSE`), fewer operations than the table has
  (`MaxNext < MaxOps`), no typed words of the preload library and no text of more
  than sixteen words (`Traffic` has neither `TYPED` nor `many`). Each is needed:
  the code guards against none of them.
* `LibrariesAttributed` follows from the same invariants, without a hypothesis:
  `CurrentLatest` says that `current_exec` is the newest image among the handled
  messages, and `ExternalMapped` that the sender has announced none between its
  own image and the message; if the two differ, another process announced the
  newer one.

### Capture

`CaptureProofs` holds for any set of threads, addresses and libraries and any
number of places, under `NamesAssumption` (the names are distinct) and
`SizesAssumption` (natural numbers).

* `TypeCorrect`: `TypeOK` is inductive. It contains that a thread that will
  write `dyn_libs` has a place that exists, from `is_new`'s bound, although
  other threads change the table between the look-up and the write.
* `FlagIsHeld`: `FlagHeld` with `SetUnder` (a thread that has passed or is at
  the test is in a guarded call, so the flag it sets is one it will clear). The
  interesting step is `ClearFlag` of one thread while another is inside: the
  flag is then clear, which the invariant allows; `Fork` makes a child deaf
  exactly if the flag is set.
* `ReportsAreTrue`: `TrueReports` is a statement about the whole recording;
  `ReportInv` adds what is to come: a thread that will report has a call that is
  in the history (`CallsHappened`), no two have the same (`OwnCalls`), and none
  is reported already (`NotYetTold`).
* `FreedAfterAllocated`: `AllocatedBeforeFreed` with `MemoryInv` (what a wrapper
  has got is in the heap, not the program's, and in no other wrapper) and
  `DoneBeforeUse` (when memory is an argument of a call, the wrappers of all
  earlier calls that made it are over). A report behind the one of a free is
  made by a wrapper that is not over, so its call did not make what was freed.

`CaptureRecordingProofs` is about all that a process records.

* `RecordedExactly` (`SequentialExact`): a process is *clean* without any of
  the troubles that cost completeness. `Alone` says that only one thread of it is
  in the library; `Exact == InOrder /\ AllTold /\ LastOnly`, for a clean
  process, that its reports are its calls in their order, that all are told but
  possibly the last one, and that this one is the call whose wrapper is still
  on its way. `Origin` (what a process that is unborn, or has not made its first
  call, can have done) covers the child at its `fork`, and `ImageFirst` the
  announcement at the head of the recording. The property compares the two
  sequences index by index, so no fold has to be reasoned about.
* `AnnouncesOnce`: `TableInv`. Every library that was announced is at a place of
  `dyn_libs` with no empty place before it, where `is_new` finds it, and what is
  just being stored has not been announced; also between the two writes that
  store it, when the old end of the table is gone and the new one not there yet.
* `AddressesResolve` (`Resolvable`): `KnownInv == PlacesKnown /\ SendersKnown`.
  A place of the table, also of a copy of it in a child, holds a library that
  was announced by the process or by an ancestor, unless another thread is about
  to; and whoever is about to report has passed the look-up.

### Environment

`EnvironProofs` holds for any names, any relation "begins with" that is
reflexive and transitive, and any limit.

* `Invariant`: `IInv == TypeOK /\ TableOK`. `NoDuplicates` and `LastWins` are
  not inductive: that the first match of `add_env_var` is the variable itself,
  if it is there, needs `Ordered`: no entry is behind one whose name begins with
  its own. Overwriting keeps that because the comparison is transitive;
  removing and appending keep it because the loop found no earlier match.
* `TypeCorrect`, `NoneTwice`, `LastValueWins`: from `Invariant`.
* `TableImplementsMap`: `Spec => ImplementsMap`; each command is `Assign`,
  `Lose`, `Displace` or a stutter of `EnvMap`.

### Session

`SessionProofs` holds for any set of scripts, any number of targets and of typed
commands. A property of a session has exceptions (its mishaps), and so has each
part of the invariant `IInv`:

* `OneInv`: without job control, `waitpid` never reports anything but a death,
  and only the process that `program_pid` names is alive. `OneTarget` alone is
  not inductive: the console might start a target while one it has forgotten
  runs. That it forgets none needs the check in `start_operation` to be exact,
  which it is as long as `news` is empty.
* `SurviveInv`: until somebody asks for the end, or one of five mishaps occurs,
  the console is not on its way out (nor waits for a stop that leads there), the
  queue holds no QUIT, and `program_pid` is 0 only if there never was a target;
  a kill without a target is then the mishap "nobody".
* `LinesInv`: the descriptor stays at the end of the file, so that the console
  reads no line again; only a child's exit (two mishaps) moves it.
* `TypeCorrect`, `AtMostOneTarget`, `Survives`, `LinesRunOnce`: from
  `Invariant`. `StopEndsTarget` is an action property: the lemma of every
  action also shows it for that step; what counts is that `_is_running` is
  false, in all the places a stop can end, only for a process that is dead.

The lemmas go from what a command does (`WaitingStep`, `MessageStep`,
`StopStarts`, `StartStep`) to commands (`CommandStep`, `ExitStep`), to actions.

### Splitter

`SplitterProofs` holds for any processes and libraries and recordings of any
length. `IInv == TypeOK /\ ForksReported /\ ForkedOnce /\ KnownFromLines /\
StartsEmpty /\ StopsAtFork`. `AssertionFailsIfLate` (`FailsIfLate`) follows
because a child is named by one FORK line only (`ForksReported`: a child that
has been reported is not reported again), and because the splitter knows a
process only from a line it has read; if that was not the FORK line, it was a
line of the process itself, ahead of its parent's report.

`FilesSplitByPid` (`SplitByPid`) needs two invariants more. `LinesInv ==
LinesOwned /\ ParentsDiffer`: each line has the owner its words say, and nobody
is its own parent. `FilesInv == FilesOrdered /\ SeenKnown /\ NobodysFile /\
FilesRight`: a file holds lines in the order of the recording, each once, and
exactly those that belong there among the lines read so far. The step that
matters is a FORK line: the child's file becomes a copy of the parent's, which
is right because, unless the assertion fails, no line of the child came before.

### Labeller

`LabellerProofs` holds for any set of addresses, any number of lines and marks,
under `LabellerAssumption`. It covers both halves of the module: the program
that fills the recording, on a heap that reuses addresses, and the Python code
that reads it.

`Front`, `Thinned` and `Clean` select elements of a sequence (`Only`, by the
places that stay instead of by `SelectSeq`). What they select is shown once
(`Keeps`), by counting places up to a bound, where the least place without the
wanted fact gives a contradiction; that is how the proofs do without induction
over an operator.

* `RecordingInv` is about the recording alone. Every object is born by one line
  (`BornOnce`), the first one about it (`BornFirst`); its lines are chained by
  address (`Succession`: each takes the address the one before left) unless a
  `realloc` failed; and when an address passes to another object without a free,
  there is a new image in between (`SinceImage`, `SinceTaken`, `FirstTaker`).
* `LabelInv` is about the labeller, whatever was recorded. Operations are
  the lines in their order (`Parsed`); each step that makes an object and was
  passed by the outer loop has a tag of its own (`NewTags`, `OneEach`); any other
  step has no tag yet, is dangling, or has the tag of a making step ahead of it
  (`OldTags`); none that was passed is without one (`Visited`); there are no more
  tags than lines (`TagCount`); and the result keeps this (`FinalTags`). `TypeCorrect`, `AlwaysPlayable` and `CleanupIsWhole` follow
  from these two, also for recordings with unseen memory, failures and execs.
* `ObjectInv` joins them: a tag that was handed on is about the object of the
  step that made it (`OwnTag`), `_track_ptr` is at the object it started with
  (`OnTrack`), no step of an object with a birth is thrown away (`KnownKept`),
  and none of an object without one gets a tag (`UnseenGone`).
  `ObjectsKeepTags` and `NothingIsLost` follow. Neither holds of the tags while
  a pointer is followed. After an exec `_track_ptr` may go over to another
  object at the same address and write its tag there; `OnTrack` says
  (`Elsewhere`) that the step which makes that object is still to be labelled, so
  that it will be overwritten.
* `MarkInv == MarksWait /\ MarksRight`: the marks that wait are those of the
  mark lines whose count is not used up, although the parser turns their list
  around with every step; a step has the letter of a mark that met it, and "R"
  if none did. `MarksMeetSteps` follows.
* `RefiningRunsOut` is the safety part of `RefineEnds`: `Work`, the lines left to
  parse, the steps the outer loop has not visited and the lines behind the one
  where `_track_ptr` is, is a natural number, and every step of the programs
  lowers it. It is at most quadratic in the number of lines. The inner loop ends
  because a step found by `_track_next` has a later line (`LinesRise`), although
  the same addresses come back and tags are written over. What is left of
  `RefineEnds` is that a sequential program which is not at its end takes its
  next step.

### Only model-checked

Every safety invariant, action property and refinement that a passing run
checks is stated by a theorem. What TLC alone checks is liveness, which is out
of this prover's reach: `EveryMessageHandled` and `SaveAnswered` (`Recorder`),
`QuitEndsAll` and `ScriptFinishes` (`Session`), `HearsAgain` and `CallsReturn`
(`Capture`), `RefineEnds` (`Labeller`, but for what `RefiningRunsOut` says). Of the theorems only
`NeverCrashes` has hypotheses besides the assumptions on the constants. Its
property `NoCrash` is the one `recorder_table` finds violated, with `MaxNext`
equal to `MaxOps`.

## What the violations show

`recorder_table` and `session_race` check what a comment and the README say and
find a behaviour in which the code does otherwise. `PROJECT.json` ("findings")
quotes both sides, and lists the disagreements that the models contain and the
properties of passing runs set aside by name: a child's event before its FORK
record, script lines executed again after a failed `execve`, lines without a
pid, a child that is deaf, a `reallocarray` reported twice, an environment
variable lost to another one's name, `stop` before `start`, and others.

## Not modelled

Sizes, instruction addresses, names of operations and settings: no control
depends on them. Lengths of strings. `sleep` as time. `set config` inside a
script, end of file at the prompt. Writes to the export that fail, and lines cut
in the middle. What the console's own `args` overwrite: a line of more than
seventeen words writes behind that array in the console's heap as well
(`main.c:15`, `console.c:446`). The first message: `start_listener` does not
clear `msg` before it (`manager.c:420`), so what stands behind its text there is
whatever the stack held. `mgr_mallopt`: no MALLOPT message is ever sent, because
the wrapper jumps to NULL first. A manager that crashes in the middle of a
session is in `Session` one that is killed. The bytes of the dummy buffer that serves
allocations while `dlsym` runs: they are unreported by design, and freeing them
later is the traced program's affair. A library that is unloaded (`dyn_libs`
keeps its name's address). DWARF lookup, the puzzle's text format, the other
command line options.

`Capture` does not include the queue's limit, and `Recorder` not the threads:
what connects them is `Send`, which in `Recorder` may wait. A traced process
that waits for room in the queue of a manager that has ended waits for ever, and
so does the console (`Stuck` of `Session`).

## Plan

Done: `HeapLog`, `Recorder`, `Session`, `Splitter`, `Labeller`, `Capture` and
`Environ`, the cleanup and the export in `Labeller`, and proofs of every safety
property that the runs check.

What is left, in order of worth:

1. A measure like `Work` for the wrappers of `Capture` (the safety part of
   `CallsReturn`).
2. An abstract specification of `Session` (recording, ended) that `Session`
   implements while no mishap happens.
3. The puzzle's text, as a function of the labelled steps.
