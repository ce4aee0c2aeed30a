# ParallelProfiler, specified

TLA+ models of [ParallelProfiler](../src/README.md), the TLC runs that check them,
and TLAPS proofs about them. `PROJECT.json` lists, for tools, what this file explains:
the components, the runs, which definition models which lines, the hazards, the
findings, and for every checked property a plausible mistake in the code that it would
catch (the operators whose name ends in `_Something`).

## 1. The system

The program `profile` starts one traced child process per *plan* (a task with
parameters, and what to measure of it), lets all of them run together, and samples the
hardware counters of every plan each time any sampled plan's counter overflows. All
children are paused while counters are read, so that the rows of the plans line up.

| Component | State | Operations | Talks to |
|---|---|---|---|
| **Parallel profiler** `Profiler/ParallelProfiler.{cpp,hpp}` | `m_status` (READY, INIT, PROFILE, DONE, ABORT), `m_pidmap` with a `RunningConfig` per child (view RUN / STOP / DEAD, phase number, samples, event), `m_pstatus` (which children have reached a stage), `m_result` | `profile`, `buildRunningConfig`, `handleSignal`, `handleChild`, `gotoINIT/PROFILE/DONE`, `updatePhase`, `collectAll`, `wakeupAll`, `killAll` | the kernel: fork, ptrace, waitpid, signalfd + poll, F_SETOWN/F_SETSIG, perf ioctls |
| **Event collection** `Profiler/PerfProfiler.*` | none of its own | `initEvent`, `collect`, `collectSample` | Event, the mmap buffer |
| **perf event wrapper** `Utils/PerfEventWrapper.*` | fds of an event group, mmap buffer with its tail, the static `event_lookup` | `Configure`, `Start`, `Stop`, `Reset`, `Collect`, `ProcessEvents`, destructors | the kernel |
| **POSIX wrappers** `Utils/PosixUtil.*` | a command line, file descriptor flags | `Process::start`, `File::setOwner`, ... | the kernel |
| **Plans and tasks** `Profiler/Config*` | task attributes, plan type | getters, setters, `Plan::valid` | parser, profiler |
| **Configuration parser** `ConfigParser.*` | maps of tasks and plans by id | `parseFile`, `parseTask`, `parsePlan`, ... | rapidjson, Config |
| **Result file** `ResultParser.*`, `profile.cpp` | the JSON document, the output file | `parseFile`, `append`, `json`, truncate and write | file system |
| **Launcher** `profile.cpp` | the global `child`, signal handlers, two processes | `sigintHandler`, `main` | profiler, terminal |
| **Command line** `profile.cpp` | the options | `parse`, `parseCPU` | parser, profiler |
| Logger, rapidjson, tests | - | - | - |

How a run goes. `profile()` forks every plan's child; each child stops at its `execve`
(READY). Plans with a *phase* (begin, end, counted in overflows) are first run alone
until their begin (INIT): their overflow signal goes to the child itself, which stops
for its tracer, and is held once its phase has begun. Then every event is restarted
with its overflow signal sent to the whole process group (PROFILE): each overflow of any
child stops every child, and the last one to be seen stopped triggers a collection
(a *barrier*), after which all are woken. The run is DONE when a phase ends or a child
exits, and ABORTed by SIGINT, a killed child, a failing system call or a signal where
none is allowed. Every way out ends in `terminate:`, which kills and reaps all children.

What is hard about it, and what must be true:

* **One SIGCHLD, many children.** SIGCHLD does not queue, `handleChild` returns from the
  middle of its waitpid loop on every stage change, and the state it dispatches on is a
  copy (`profStatus`). No wait status may be stranded, no turn of the loop may run on a
  stale stage.
* **A view of processes that change by themselves.** `PTRACE_CONT` and `SIGKILL` are
  sent according to `RunningConfig::m_status`.
* **Gates and a barrier** over children that stop in any order, for signals of their own
  too; overflows queue behind the barrier, several children overflow in one round.
* **Counting.** The phase advances by what the buffer holds when it is read, not by
  signals; nothing may be counted twice (a round that ends the run collects twice) or
  lost.
* **Partial failure**: any PTRACE_CONT, ioctl or read may fail for one child of many; a
  fork may fail half way; somebody may kill a child at any time.
* **Termination**: who waits for whom in the barrier and in the last waitpid loop; SIGINT
  must get through at every stage.
* **The launcher**: SIGINT reaching two processes that are being set up, and an output
  file that is truncated before it is written.
* **The event wrapper**: variable-sized records in a ring buffer that the kernel goes on
  filling, lost records, descriptors after half a `Configure`, the list of all events.
* **The start of a plan**, seven steps that may each fail, with a child that is not yet in
  any map, and a cpu set that is used up plan by plan.
* **The result file** is read, emptied and written anew while other profilers may do the
  same, and any of them may die.
* **Input**: which of the checks of the parser catches which malformed entry, names
  across files and options, placeholders that are prefixes of each other.

## 2. Modules

| Module | What it is |
|---|---|
| `Kernel` | External: what Linux does around the profiler. Children exec, overflow, take signals, exit, get killed; SIGCHLD, SIGINT and OVERFLOW_SIG become pending. |
| `ParallelProfiler` | `profile()` from its first line to its return, on top of `Kernel`; the specification `Spec` and, with fairness, `FairSpec`. |
| `Session` | Abstract: what a profiling session promises (stages entered together, rows collected whole while everyone is halted, only whole rows published). |
| `ProfilerProperties` | The properties of `ParallelProfiler`, and the refinement mapping to `Session`. |
| `ProfilerInvariant` | The inductive invariant `IInv`, and `RoundInv` for `MaxBurst = 1`. |
| `MCProfiler` + `MCProfiler_*.cfg` | The instances for TLC. |
| `ProfilerProofs` | Proofs: type correctness; `IInv` and the safety theorems; the refinement of `Session`; phases and rounds. |
| `DataInduction` | Lemmas: induction by least counterexample, sums over finite sets, recursion along a text. |
| `Launcher` + `Launcher*.cfg` | `main`'s two processes, their SIGINT handlers and process groups, and the output file as far as a signal can hit it. |
| `LauncherProofs` | Its safety proofs. |
| `EventBuffer` + `EventBuffer_ring.cfg` | The ring of an event: the kernel that writes records (external), `ProcessEvents` and `collectSample` that read them, and the count `updatePhase` makes of them. |
| `RecordQueue` | Abstract: records arrive in order, once, whole. |
| `EventBufferProofs` | Type correctness, the inductive invariant, and the refinement of `RecordQueue`. |
| `EventLifecycle`, `MCEvents`, `EventLifecycleProofs` | The events of one process: constructors, `Configure`, destructors, `event_lookup`, descriptors; proofs. |
| `Startup`, `MCStartup`, `StartupProofs` | `argsCheck`, `buildRunningConfig` step by step, and the clean-up of `profile()`. |
| `ConfigParser` | The parse functions, the maps of tasks and plans, and main's choice of plans. |
| `CpuList`, `CommandLine`, `Text` | `parseCPU`; the words of a command from its parameters; what both know of texts. Operators, with what they should come to. |
| `Input`, `MCInput`, `InputProofs` | What the user writes: composes the modules of the two lines above; proofs about all of them. |
| `ResultTable` | The loops of `ResultParser::append`, as operators. |
| `ResultFile`, `MCResults`, `ResultFileProofs` | The output file and those who append to it; proofs, also of the loops of `ResultTable`. |

The modules meet where the code does. `ParallelProfiler` takes the start of a plan as one
step and the read of a buffer as another: `Startup` and `EventBuffer` are these steps
taken apart. `CpuList` makes the sets that `Startup` is given (its assumption that a cpu
is listed once is part of `CpusAsNamed`), `ConfigParser` the plans that `ParallelProfiler` assumes to
be valid (`PlansReady`), `Launcher` has `ResultFile`'s last steps as far as a signal can
hit them.

### How ParallelProfiler corresponds to the code

A plan stands for its process: `m_pidmap` relates them one to one, and a pid is a plan
here. Variables carry the code's names: `m_status`, `profStatus` (the copy in
`handleChild`), `m_pidmap` (its keys), `m_st` (`RunningConfig::m_status`), `m_pstatus`,
`m_phaseno`, `m_samples` (the length of the vector), `m_result`, `err`. `pc` says where
`profile()` is: `build` (starting plans), `poll`, `wait` (in `handleChild`'s loop),
`kill` and `reap` (terminate), `done`; `killed` is a death by signal.

| Code | Action |
|---|---|
| checks, resets and `createSignalFD` at the top of `profile` | `Start` |
| `buildRunningConfig` | `BuildRunningConfig(p)`, `BuildFails(p)` |
| `poll` / `read` in the loop, `handleSignal` | `ReadSIGINT`, `ReadSIGCHLD`, `PollFails` |
| one turn of `handleChild`'s `waitpid` loop, by status and stage | `HandleExited`, `HandleSignaled`, `HandleTrap`, `HandleInitOverflow`, `HandleProfileOverflow`, `HandleDeliver`, `HandleUnexpected` |
| `waitpid` has no more | `EndWait` |
| the loop's end, results | `LeaveLoop` |
| `killAll`, the last waitpid loop, `return` | `KillAll`, `Reap(p)`, `ReapDone` |

`GotoINIT`, `GotoPROFILE`, `GotoDONE`, `UpdatePhase`, `Wakeup`, `Barrier` are the
functions these call. Each action is *everything* the code does after one blocking system
call up to the next one. This grain is right because what the code does in between either
concerns stopped children (which only a SIGKILL can change; the model lets the kill come
before or after the step and, through `Wakeups`, lets a PTRACE_CONT fail) or commutes
with what a running child does. A failing system call (`SysErr`) leaves any prefix of the
work done: some children set up, some woken, some collected.

Notes for a reader who compares:

* The guards on the stage at the top of `gotoINIT`, `gotoPROFILE` and `gotoDONE` do not
  appear: they test `m_status` right after `handleChild` has tested its copy, and
  `CachedStatusFresh` (checked and proved) says that the two are equal.
* The branch of `handleChild` for a pid that is not in `m_pidmap` does not appear, by the
  last conjunct of the same property.
* A child resumed with a signal pending may overflow again, or exit, before it takes the
  signal. The kernel would have it take the signal first, so the model has more
  behaviours than the code.
* `MaxBurst` is how often a child's event can overflow before the child has taken the
  first OVERFLOW_SIG and its buffer was read: 1 for a sample period that is long compared
  with the way to the signal, more for a shorter one. The code accepts any positive
  period.
* The sample buffer is large enough: records are not lost. A wait status is unread until
  `waitpid` returns it, and a status that is overtaken by a death is replaced by it, as
  in the kernel.
* Tasks are single-threaded and stay in the profiler's process group.

### How Launcher corresponds to the code

`pc`, `child`, `forwards` (whose handler for SIGINT is `sigintHandler`), `blocked`,
`foreground`, `pending` and `handling` are kept per process. The parent goes through
`Register`, `Fork`, `StoreChild`, `WaitReturns`; the child through `ResetHandler`,
`NewGroup`, `ParseArguments`, `CheckFails` or `BlockSIGINT`, `ReadSIGINT` or
`ProfileReturns`, `OpenOutput`, `WriteOutput` (or its exit, when `append` refuses the
results of a file already truncated), `Return`. `CtrlC` is the terminal. A
pending SIGINT is delivered before a process runs another step of `main` (`RunsMain`),
by `Die` or by `EnterHandler` and `Forward`; a `kill` of pid 0 signals the group.

### How the other modules correspond to the code

`EventBuffer`. The unit is a word of 8 bytes: headers and all fields that are read are
one. `Begin`, `TakeSample`, `TakeOther` and `Finish` are the parts of `ProcessEvents`; a
write of the kernel may come between any two, although the program reads only with the
events off or the children stopped: what is proved does not rest on that. `collectSample` finds its way by the
numbers it reads in the ring (`nr`, `bnr`), never by the size in the header, and so does
the model: were a field left out, the next header would be taken from the middle of a
record. The code only ever sets PERF_SAMPLE_READ and PERF_FORMAT_GROUP; the instance has
ids, a time and branch entries as well, which `collectSample` handles.

`EventLifecycle`. `Construct`, `OpenLeader`, `OpenChild`, `Map` are `initEvent` and
`Configure`; `Fail` is its exception; `Destroy` is `~Event` with the `~ChildEvent` of its
group. The descriptor table is the kernel's, with its rule of the lowest free number. The
order in which `m_pidmap.clear()` drops events is left open. An `fd` not yet set is any
number (`Junk`). A use of the freed list may go well or end the process
(`UseAfterFree`); both are kept.

`Startup`. One action per step of `buildRunningConfig`, one per way it fails; `KillChild`
is its label `killchild:`. Pid 0 is `Self`: system calls take it for the caller, `kill`
for the caller's group. `KillAll`, `Wait`, `NoChild` and `Finalize` are the labels
`terminate:` and `finalize:`. The stages are one wait (`Run`, `Stop`).

`ConfigParser`. A JSON value is its type and content; the text is rapidjson's matter. The
operators whose name ends in `Error` are the parse functions' results, in the order of
the code's checks; `Task`, `TaskAttribute`, `PerfAttribute`, `ParsedPlan` are what they
return. `wanted` is a history variable: whether the entry just read is as `README.md` of
the program wants it (task:id required, members ignored where it says so, a text in braces
after `--plan` allowed), computed from a table of members and types (`Conforms`,
`Ignored`) that knows nothing of the code's order. `odd` says which of three disagreements
the entry falls under, if any. `declared` and `given` keep the JSON values of the tasks
and plans taken, so that `TaskResolved` can compare a plan's task with the one whose name
the plan gives.

`ResultFile`. The steps are the system calls: a profiler may be overtaken or killed
between `ParseFile`, `Open`, `AppendResult` and `Write`. `given` is the case: what the
file holds, each profiler's result, whether two may be at the file at the same time, and
whether one may be killed or the disk be full. `ResultTable` has `append`'s three nested
loops as folds (`ResultObject`, `PlanObject`, `PushSample`), and `Transpose`, which says
what they should come to.

`CommandLine`, `CpuList`. Texts are sequences of characters; `boost::replace_all`,
`boost::split` and `lexical_cast` are modelled by what they do (external), and the loops
around them are a recursive function and a union: `Replaced` puts in one parameter after
another, `parseCPU` stops at the first part that is refused. `Expand`, `Named` and `Listable` are
what `README.md` of the program and common sense make of the same text. In `Input` a
behaviour reads configuration files, a cpu list, or a command: the three share nothing.

## 3. What the runs check

All configurations of `ParallelProfiler` use three plans, as model values: with two, one of "everyone",
"the last one" and "somebody else" would coincide.

| Run | Instance | Shows |
|---|---|---|
| `faults` (958,263 states) | a phase plan (1..2), a plan sampled from the start, a daemon; every fault; bursts of 2, 2 overflows per child, a signal queue of 2 | `ViewMatchesKernel`, `NoLostWakeup`, `CachedStatusFresh`, `StageGate`, `BarrierHeld`, `PhaseExact`, `SamplesAligned`, `ResultComplete`, `NoSurvivor`, the action property `CollectedWhilePaused`, the refinement `SessionSpec`, and the type invariant |
| `phases` (567,687) | two phase plans with windows 1..3 and 1..2 and a counted plan; failing starts and system calls, foreign signals, exec and SIGINT; no bursts, 3 overflows per child | `PhaseStartsExactly`, `PhaseWindow`, `OneRoundPerOverflow`; with fairness, `Terminates`, `BarrierCompletes`, `InterruptHonoured` |
| `launcher` (503) | three Ctrl-C at any instant, every exit of `main` | `NoOrphan`, `OutputWhole`, `InterruptInTime` |
| `ring` (215k) | a ring of 32 words, records of 6 to 11 words for two counters, 5 overflows, throttle records | `Intact`, `Accounted`, `Drained`, the refinement `QueueSpec` |
| `events` (233k) | two groups with one and two children, nine descriptors, anything in an `fd` not yet set; everything may fail; two calls of `profile()` | `NoLeak`, `OwnWhileRunning`, `LookupValid` |
| `startup` (125k) | three plans, any of them pinned or real-time, two with events, two perhaps without a command; five cpu sets; a processor off line; two calls | `AsPlanned`, `CpuSetRestored`, `NoChildLeft`, `ProfilerSpared`; with fairness, `Returns` |
| `results` (258k) | three profilers, in turn or at once, with and without faults, on eight kinds of file; or one whose result is any of two plans with up to two events and two samples, complete or not | `Stored`, `Genuine`, `Transposed` |
| `input` (282k) | entries with one member changed in every way, two files, several choices; all `--cpu` texts and all commands of up to six characters | `PlansReady`, `JudgedButForThree`; `CpusAsNamed`; `Expanded` |
| `burst_barrier`, `sigio`, `launcher_early`, `taskless` | see section 6 | a comment or a documented rule that the code's behaviour contradicts |

Where a module's type invariant is not listed it is a conjunct of one of the properties
(`LookupValid`, `AsPlanned`, `Genuine`, `PlansReady`), or proved (`EventBuffer`,
section 4).

Bounds and why they are enough: `MaxOverflows` bounds the overflows of one child in a
run. Two let a phase begin and end and leave one to be collected at the end; three
(without bursts) add a full round between the begin and the end of a phase. Behaviour
after more rounds repeats: only the counts differ, and the theorems cover all values.
`SigPendingLimit` is 2 where the full queue is part of the question, and out of reach (20)
where it is not. `MaxInterrupts` is 3: the second meets the first's handler, the third
comes after it.

The ring of `ring` is about three records long, so that records wrap at every offset,
the ring fills up, and lost records appear; positions run freely, so after one turn
nothing is new but the numbers, and the theorems hold for every size. In `events` two
groups let one hold, by number, what the other has closed, and nine descriptors let none
run out, which `Fail` stands for. Three plans in `startup` let the last cpu go to the
second pinned plan of three, or fail to. In `results` the third profiler sees what two
have left. In `input` three entries (`MaxVals`) are a task, one that clashes with it and
a plan, or a task and two plans; two files (`MaxFiles`) let a name cross from one to the
other; two `--plan` options and one `--json-plan` (`MaxPicks`, `MaxJson`) let each clash
with each. The texts are long enough for two placeholders or a range and a number;
everything longer is read piece by piece in the same way. `parseCPU` runs with an int of
two digits (`MaxInt`) so that its largest value is reached: `CpusAsNamed` says that this
is the only case with no defined outcome.

Fairness (`FairSpec` of `ParallelProfiler`): the profiler is a runnable process and gets
scheduled; a `poll` that fails (`PollFails`) is no step it owes, or fairness would get the
run out of every hang. A started child execs or fails to; one that runs takes the signals
it has, without which no barrier could complete. No task owes more: it may run for ever
without an overflow, and no disturbance need ever come. In `Launcher` both processes are
scheduled and `ProfileReturns` is *not* fair: a profiled task may run for ever. No strong
fairness is used.

`FairSpec` also assumes `Calm`: at some time the children stop being sent signals from
outside and calling `execve` again, each of which stops them for their tracer. The need
is real: `handleChild` loops until `waitpid` has nothing more, so that two children that
are stopped in turn, faster than the loop goes round, keep the profiler in it, and it
never gets back to `poll` and to a SIGINT. OVERFLOW_SIGs are no danger, the barrier holds
whoever has stopped for one.

`Terminates` has a condition of its own, `TasksEnd`: a sampled child computes, so it goes
on to overflow or exit; with `MaxOverflows` used up it must exit, which is how the bound
stands for a task that ends. `BarrierCompletes` and `InterruptHonoured` do without: who
is at the barrier is followed by the others, and a SIGINT ends the run, whatever the tasks
do. Liveness is checked without bursts, as with them a barrier may hang (section 6), and
without kills from outside, with which the state space is too large for a liveness check;
a child's death by a signal is there (the SIGTRAP of a second `execve`), and `faults` has
the kills for the safety properties.

`Startup` has weak fairness of the profiler's steps, but for the end of the stages, for
which it waits in `poll`. A child need not do anything by itself: one that waits at its
`execve` only goes when it is killed, and this is what `Returns` depends on. The other
modules state safety only: a reader, a parser or a writer that is scheduled comes to its
end after as many steps as it has input.

## 4. What is proved

TLAPS proves, for every finite non-empty set of plans of any types and phases, every set
of faults and all bounds (`PlanAssumption`, `BoundAssumption`; they say what `argsCheck`
and `Plan::valid` let through):

| Theorem | Property |
|---|---|
| `TypeCorrect` (`ProfilerProofs`) | `TypeOK` |
| `ViewIsTrue` | `ViewMatchesKernel` |
| `NoWakeupLost` | `NoLostWakeup` |
| `CachedStatusIsFresh` | `CachedStatusFresh` |
| `GatesHold`, `BarrierHolds` | `StageGate`, `BarrierHeld` |
| `PhasesAreExact`, `RowsLineUp` | `PhaseExact`, `SamplesAligned` |
| `ResultIsComplete` | `ResultComplete` |
| `NobodySurvives` | `NoSurvivor` |
| `StagesInOrder`, `CollectedInPause` | the action properties `StageOrder` (not a run's: `SessionSpec` implies it), `CollectedWhilePaused` |
| `SessionImplemented` | `SessionSpec`: the profiler implements `Session` |
| `PhasesStartOnTime`, `PhasesEndInTime` | if `MaxBurst = 1`: the action property `PhaseStartsExactly`, and `PhaseWindow` |
| `RoundsBalance` | if `MaxBurst = 1`: `OneRoundPerOverflow`, a sum over any number of plans |
| `NoOrphanAlways`, `OutputWholeAlways` (`LauncherProofs`) | `NoOrphan`, `OutputWhole`, for any number of interrupts: no Ctrl-C kills the profiler while the file is truncated |
| `CpuSetAlwaysRestored`, `NoChildEverLeft` (`StartupProofs`) | `CpuSetRestored`, `NoChildLeft`, for any plans, cpu sets and number of calls |
| `ProfilerAlwaysSpared` (`StartupProofs`) | `ProfilerSpared`: as long as every plan has a command, nothing meant for a child reaches the profiler |
| `EveryPlanCarriedOut` (`StartupProofs`) | `AsPlanned` |
| `Typing`, `PositionsOrdered`, `UnreadIntact`, `PhaseAccounting` (`EventBufferProofs`) | `TypeOK`, `Positions`, `Intact`, `Accounted`, for any ring, sample type, read format, counters and number of records |
| `DrainedUnlessEmpty` | `Drained`, if a sample has a body |
| `RingIsQueue` | `QueueSpec`: the ring and its reader implement `RecordQueue` |
| `NothingLeaks`, `OwnedWhileRunning`, `LookupIsValid` (`EventLifecycleProofs`) | `NoLeak`, `OwnWhileRunning`, `LookupValid`, for any plans and groups, any descriptor table, any contents of uninitialised memory and any number of calls |
| `PlansAlwaysReady`, `EveryEntryJudged` (`InputProofs`) | `PlansReady`, `JudgedButForThree`, for any JSON values and any number of files and options; `FilesRead`: `InputSpec` implies the specification these two are about |
| `CpusAlwaysAsNamed` (`InputProofs`) | `CpusAsNamed`, for texts of any characters and length and any largest int |
| `AlwaysExpanded` (`InputProofs`) | `Expanded`, for any commands and parameters |
| `EachResultStored`, `OnlyResultsWritten`, `ColumnsNeverMixed` (`ResultFileProofs`) | `Stored`, `Genuine`, `Transposed`, for any profilers, results and contents of the file |

The argument for `ParallelProfiler`. None of the properties is inductive: that a full set of signalled children
means that everybody is stopped needs the truth of the view, which needs what wait
statuses go with which process states, which needs to know which children exist at each
`pc`. `IInv` is the conjunction of

* `ReportInv`: a stop is reported of a stopped child, a death of a dead one;
* `StartInv`, `LoopInv`: before the loop exactly the children in `m_pidmap` exist; in the
  loop all do, the stage copied is the stage, and nothing has failed yet;
* `ViewMatchesKernel`, `NoLostWakeup`, `PhaseExact`, `SamplesAligned` themselves;
* `GateInv`: for each stage, which children `m_pstatus` holds and that they are held;
* `EventInv`, `DoneInv`: events exist for perf plans only, and are off when DONE;
* `EndInv`: `killAll` reaches whoever is alive; what `LeaveLoop` has published stays.

Each part has a lemma `...Step` with one step per action (actions that touch none of the
variables of the part share one); the steps where a stage changes are lemmas of their own
(`GateAtTrap`, `GateAtInit`, `GateAtExit`, `GateAtProfile`, `DoneAtExit`,
`DoneAtBarrier`, `EndAtLeave`). `FullIsAll` is the bridge between the code's comparison
of sizes and "all children". The refinement maps the handlers to the session's steps:
`HandleTrap` to `Halt`, `Prepare` or `Launch`, `HandleInitOverflow` to `Halt` or
`Launch`, `HandleProfileOverflow` to `Halt`, `Round` or `FinishAtRound`, `HandleExited` to
`FinishAtExit`, `LeaveLoop` to `Publish`, `KillAll` to `Clear`, everything that fails to
`GiveUp`, and the rest to stuttering.

The argument for `EventBuffer`: `Intact` is not inductive, because the reader's next
position depends on words of the ring being headers. `IInv` adds that the records of `log`
lie end to end, that the reader stands at the beginning of one, and that `delivered` is
what came before; the wrap-around is one lemma about positions that are congruent modulo
the size and less than the size apart. `Drained` needs its condition: a sample that were
a header only, with nothing in it, would be left in the ring by `available >
sizeof(header)`; the code never configures one.

The argument for phases and rounds. With bursts `PhaseStartsExactly` and `OneRoundPerOverflow`
are false, and section 6 says what the code does then; so these three theorems have the
hypothesis `MaxBurst = 1`, which bounds what a buffer holds when it is read and nothing
else: kills, failing calls, foreign signals and the full queue remain. `RoundInv` says of
each stage what is outstanding: before INIT nothing; in INIT a child that is not yet held
has exactly one signal under way if its buffer is not empty, and one that is held has
none; in PROFILE the equation of `OneRoundPerOverflow` itself. Its steps start from `IInv`,
which is already known to hold. An overflow adds one to the sum and, being signalled to
the group, one to what each living child owes; a barrier takes one from each and adds a
row.

The arguments for `Startup`: the three older theorems have an invariant each, which says of
each `pc` where the user's set, the children or the profiler's pid are. `PlanInv`, for
`AsPlanned`, is about a stock: as many cpus are left as pinned plans are still to come
(`StockInv`), each the user's and there once (`Free`), and no plan that has been pinned is
on one of them (`Placed`); so `back()` finds a cpu that nobody else has or gets. That
`pop_back` and the selection of valid cpus keep a list without repetition is what its
lemmas show.

The argument for `EventLifecycle`: that a number is closed by its owner is not inductive,
because numbers are reused. `IInv` counts: an event that is complete has as many
descriptors as its group has members, so its members have different numbers (`Whole`); 0,
which stands for unopened, is never free while descriptors are handed out (`BuildInv`); and
whatever uninitialised memory holds, only a group given up half way closes by it
(`CloseInv`). `stolen` remembers the descriptors that such a destructor closed.

The argument for `ConfigParser` has two halves. Each parse function is judged by itself: a
lemma says that no error comes out if and only if the value is as described (`TaskJudged`
and so on), by cases on the order in which the members are looked at; the descriptions that
leave out what a type ignores are compared with the one that leaves out nothing
(`LessAsked`, `FitsAnyType`), which is what the code looks for. The invariant then
adds what the maps hold: every task is the one its declaration gives, every plan is valid
and its task is the one declared under the name the plan gives. `JsonAssumption` is what the proof needs of a JSON value: a uint is
a number, a bool a truth value, an array a sequence.

The argument for `ResultFile`: whatever happens, the rows of the file and of every `m_doc`
are n old ones, where n is 0 or their former number, and behind them different rows of
profilers that have come as far as writing (`Behind`). In an orderly case at most one
profiler is inside (`OneInside`), and `PlaceInv` says for each of its places what the file
and its `m_doc` hold. `Transposed` is about the three loops of `append`: what each has made
after i turns is a known function of i, so the one the model's recursion chooses is equal
to it.

The argument for texts is in three layers. `Split`, `ReplaceEach` and `Expand` are recursive
functions on positions; `...Shift` says that such a function does not depend on what comes
before its position, and so `SplitCons`, `ReplaceCons`, `ExpandCons` and `ExpandHere` say
what they make of a character, or a placeholder, and a text. `SplitRuns` shows that the
words are the maximal runs without a separator, which `CpusParsed` compares with what a
list names; `SortedIs` counts, for the list to be without repetition. For commands the
step is `ReplaceNext`: replacing one more parameter in a text where those before it are
replaced gives the text where one more is replaced. It is false if a parameter has a `$`,
or if ten parameters let `$1` be found in `$10`: hence `Plain`. That every `$` of the
command is that of a parameter (`Matches`) is an assumption on `Commands`, with the
comment of `Config.hpp` that says so as its reason. `ExpandWords` then says that splitting
and expanding commute if the parameters are words.

Induction over data. The library's induction theorems take an operator, which the provers
cannot instantiate. `DataInduction` replaces them: to show a fact of all natural numbers, or
of all subsets of a finite set, take a least one that violates it. Recursion is written as
recursive functions; that such a function is what its body says follows from giving a
function that satisfies the body, and from uniqueness by a least place of difference. In
this way `SumUnique` and `SumIs` give the sum over plans, the loops of `append` their
results, and `TextInduction` and `RecursionDown` the facts about texts.

Only model-checked: all liveness (`Terminates`, `BarrierCompletes`, `InterruptHonoured`,
`InterruptInTime`, `Returns`), which is beyond the prover. Every other property that a
passing run checks is a theorem. The theorems about phases and rounds (`MaxBurst = 1`) and
`DrainedUnlessEmpty` have a condition that the runs fulfil too.

## 5. Properties worth a comment

* `ViewMatchesKernel` allows exactly one lie: a child marked STOP that was killed from
  outside. This is why `wakeupAll` may fail, and why it must abort.
* `NoLostWakeup` does not say that a SIGCHLD is pending for every unread status (it is
  false: when `gotoINIT` ends `handleChild` early, a child that stays held and was killed
  meanwhile has an unread status and its SIGCHLD is gone), but for every status of a child believed to be running
  while the loop goes on.
* `OneRoundPerOverflow` is the strongest statement about PROFILE: rounds collected plus
  what a child still owes (queued signals, an unread stop, being at the barrier) is the
  number of overflows of all sampled plans since PROFILE began. It fails as soon as one
  signal is lost, doubled, or sent to the wrong owner.
* `JudgedButForThree` is an equivalence: no entry is accepted that the documentation
  forbids, and none refused that it allows, and the three exceptions are equivalences too:
  they say which entries, and what the code does with them (section 6). One thing is the
  code's own and in the reference all the same: `phase`, where it is not ignored, has
  two entries, which the documentation shows and does not say.
* `OutputWhole` is about SIGINT. That the program itself may leave the file truncated, when
  `append` refuses what it is given, is in the model of `WriteOutput` and, with the
  contents, in `ResultFile`.
* `CollectedWhilePaused` is about the rows after which the run goes on; the last one, taken
  in the step to DONE, is `SessionSpec`'s matter.
* `Genuine` is what is left when nothing else can be promised: results may be lost, but
  never doubled, invented, cut or reordered.
* `ResultComplete` and `SessionSpec` say the same of the published data from two sides:
  the state at the end, and every step on the way.

## 6. Where code and comments disagree

* `burst_barrier`: a phase plan's child that has a second OVERFLOW_SIG queued when INIT
  ends takes it in PROFILE, where every OVERFLOW_SIG is taken for a group-wide one. It
  waits at the barrier; if no other plan is sampled nobody joins it, and the run hangs.
* `sigio`: `ParallelProfiler.hpp` says SIGIO is ignored; the code does not. The profiler
  is in the group every OVERFLOW_SIG is sent to, blocks it and never reads it, so its
  signal queue fills up, and the kernel falls back on SIGIO, which kills it.
* `launcher_early`: a Ctrl-C between `signal()` and the assignment of fork's result in
  the parent makes the handler signal its own group again and again, because `child` is
  still 0.

* `taskless`: `README.md:94` of the program lists `task:id` among the required members of a
  plan; `parsePlan` takes a plan without a `task`, whose command is then empty, and `main`
  profiles it.

These four are runs. The models also contain the following, where a property of a run is
stated so that it says exactly when the code does what it should; without its condition
TLC finds the contradiction.

* `PhaseStartsExactly` needs `MaxBurst = 1`. A comment (`ParallelProfiler.cpp:143`) says
  that a run aborts when a phase has been stepped over; the code starts PROFILE with `>=`.
* `OnlyOwnClosed` (in `NoLeak`) needs that no `Configure` has thrown: a group that cannot be opened in
  full closes descriptors it never had. `~ChildEvent` (`PerfEventWrapper.cpp:113`) does
  not test its `fd`, and nothing has set it.
* `LookupValid` needs a single call: the second `profile()` of a process uses the list of
  events that the first has deleted (`PerfEventWrapper.cpp:219` leaves the pointer).
* `AsPlanned`, `ProfilerSpared` and `Returns` need that every plan has a command:
  `README.md` says that every plan starts a process; a plan whose command is empty gets pid
  0 instead (`PosixUtil.cpp:26`), so that what is meant for the child is done to the
  profiler.
* `JudgedButForThree` has, besides the plan without a task, two things that `README.md` of
  the program allows and the code refuses: a member that it says is ignored for the type
  of the plan (line 95), such as a `phase` that is no array in a plan of type COUNT; and
  a plan written out in braces after `--plan` (lines 45 and 57), which the code knows
  after `--json-plan` only.
* `Expanded` needs fewer than ten parameters, none with a `$` in it (`Plain`): `README.md` of
  the program says that each `$NUM` is replaced by parameter NUM, but of ten parameters the
  first also goes into `$10`, and a `$2` in the first is replaced by the second.
* `Stored` needs an `Orderly` case: "Append to file." (`profile.cpp:265`) replaces the
  file. It is emptied before it is known that there is something to write: if it holds
  something else than an array, by each of two profilers in turn, by one that then dies,
  and by one with a sample that is refused.
* `Transposed` is about groups that name an event once; a name given twice has one member
  in the result, with both counters in turn, where `README.md` promises an item per event.

`README.md:113-151` of the program describes results as lines of text; the code writes JSON.
`test/ParallelProfilerTest.cpp:46` compares the result of `profile()` with DONE; the
function returns 0 or a negative error. The loop at `terminate:` logs macros of `status`,
which it has not set; only the wording of the log depends on it.

## 7. Not modelled, and the plan

Not modelled, for good:

* **rapidjson** (`src/ThirdParty`): vendored third-party code, about 18,500 of the 23,000
  lines under `src/`. The models take JSON values as given; what the program does with
  them is in `ConfigParser`, `ResultFile` and `ResultTable`. This is why the map covers a
  small share of all lines; of the program's own sources it covers most functions that
  change state.
* **Declarations, documentation comments and getters**, which are most of
  `PerfEventWrapper.hpp`, `Config.hpp` and `ParallelProfiler.hpp`; the logger; wording.
* **Code the program never calls**: `Event::Reconfigure`, `Refresh`, `CheckSignal`,
  `FindEvent`, `Process::start` of a function, SIGIO by `O_ASYNC` in `Configure`.
* The grammar of options (boost) and the search for event names (libpfm), except that it
  may fail.
* A task that leaves its process group (`setsid`): the tasks of the models stay in it.
  The hazard is listed in `PROJECT.json` without a property.

Left to do, in this order:

1. `Startup` as a refinement of the start of `ParallelProfiler`, with the failing steps
   mapped to `BuildFails`.
2. Several threads per task, and tasks that leave the group.
