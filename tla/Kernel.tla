------------------------------- MODULE Kernel -------------------------------
(***************************************************************************)
(* What Linux does around the profiler process: the traced children, the   *)
(* perf event of each of them, and the signals.  Nothing in this module is *)
(* code of the repository; it is the behaviour that                        *)
(* src/src/Profiler/ParallelProfiler.cpp relies on when it calls fork,     *)
(* ptrace, waitpid, kill, signalfd, fcntl(F_SETOWN / F_SETSIG) and the     *)
(* perf ioctls.                                                            *)
(*                                                                         *)
(* A plan stands for the one process started for it: m_pidmap maps pids to *)
(* plans one to one, so the model uses the plan wherever the code uses the *)
(* pid.  Tasks are single-threaded and stay in the profiler's process      *)
(* group.                                                                  *)
(***************************************************************************)
EXTENDS Integers, FiniteSets

CONSTANTS
  Plan,            \* The plans given to the profiler, and their processes.
  PlanType,        \* Plan::Type of each plan.
  PhaseBegin,      \* TaskAttribute::getPhaseBegin of each plan.
  PhaseEnd,        \* TaskAttribute::getPhaseEnd of each plan.
  Faults,          \* The disturbances the environment may inject.
  MaxBurst,        \* Overflows a child can have before it takes the signal.
  MaxOverflows,    \* Bound: overflows of one child in a whole run.
  SigPendingLimit  \* RLIMIT_SIGPENDING, for the signals queued at the profiler.

FaultKind == {"startfail", "syscall", "kill", "other", "exec", "interrupt"}

PlanTypes == {"DAEMON", "COUNT", "SAMPLE_ALL", "SAMPLE_PHASE"}

\* The classification of plans made by Plan::perfPlan and Plan::samplePlan.
PerfPlans   == {p \in Plan : PlanType[p] # "DAEMON"}
SamplePlans == {p \in Plan : PlanType[p] \in {"SAMPLE_ALL", "SAMPLE_PHASE"}}
PhasePlans  == {p \in Plan : PlanType[p] = "SAMPLE_PHASE"}

(***************************************************************************)
(* main refuses to run without a plan, and argsCheck refuses a plan for    *)
(* which Plan::valid is false.                                             *)
(***************************************************************************)
ASSUME PlanAssumption ==
  /\ Plan # {} /\ IsFiniteSet(Plan)
  /\ PlanType \in [Plan -> PlanTypes]
  /\ PhaseBegin \in [Plan -> Nat] /\ PhaseEnd \in [Plan -> Nat]
  /\ \A p \in PhasePlans : PhaseBegin[p] < PhaseEnd[p]

(***************************************************************************)
(* A child killed from outside between two system calls of the profiler    *)
(* makes the second one fail, so "kill" comes with "syscall".              *)
(***************************************************************************)
ASSUME BoundAssumption ==
  /\ Faults \subseteq FaultKind
  /\ "kill" \in Faults => "syscall" \in Faults
  /\ MaxBurst \in Nat \ {0}
  /\ MaxOverflows \in Nat
  /\ SigPendingLimit \in Nat

VARIABLES
  proc,       \* Scheduling state of each child.
  report,     \* The wait status waitpid has not returned yet, or "none".
  pend,       \* Number of OVERFLOW_SIG queued at each child.
  owner,      \* F_SETOWN of the event fd, once signal driven IO is set up.
  enabled,    \* Children whose perf event is enabled.
  ring,       \* Unread samples in the mmap buffer of each child's event.
  overflows,  \* Overflows each child's event ever had.
  sigs,       \* The signals pending at the profiler that its signalfd reads:
              \* SIGINT and SIGCHLD are standard signals, which do not queue.
  sigq,       \* OVERFLOW_SIGs queued at the profiler, blocked and never read.
  pc          \* Where the profiler process is.

kernelVars == <<proc, report, pend, owner, enabled, ring, overflows,
                sigs, sigq>>

ProcState == {"none", "forked", "running", "traced", "zombie", "reaped"}
Report    == {"none", "trap", "overflow", "other", "exited", "signaled"}
ProfilerPC == {"start", "build", "poll", "wait", "kill", "reap",
               "done", "killed"}

KernelTypeOK ==
  /\ proc \in [Plan -> ProcState]
  /\ report \in [Plan -> Report]
  /\ pend \in [Plan -> Nat]
  /\ owner \in [Plan -> {"none", "self", "group"}]
  /\ enabled \in SUBSET Plan
  /\ ring \in [Plan -> Nat]
  /\ overflows \in [Plan -> Nat]
  /\ sigs \in SUBSET {"SIGINT", "SIGCHLD"}
  /\ sigq \in Nat
  /\ pc \in ProfilerPC

KernelInit ==
  /\ proc = [p \in Plan |-> "none"]
  /\ report = [p \in Plan |-> "none"]
  /\ pend = [p \in Plan |-> 0]
  /\ owner = [p \in Plan |-> "none"]
  /\ enabled = {}
  /\ ring = [p \in Plan |-> 0]
  /\ overflows = [p \in Plan |-> 0]
  /\ sigs = {}
  /\ sigq = 0

-----------------------------------------------------------------------------
\* The profiler process exists.
Up == pc \notin {"done", "killed"}

\* A process that can still receive a signal.
Alive(p) == proc[p] \in {"forked", "running", "traced"}

\* Child p changes state, and the kernel tells its parent with SIGCHLD.
Notify(p, state, status) ==
  /\ proc' = [proc EXCEPT ![p] = state]
  /\ report' = [report EXCEPT ![p] = status]
  /\ sigs' = sigs \union {"SIGCHLD"}

(***************************************************************************)
(* setupSyncTask has run in the child (PTRACE_TRACEME) and execve has      *)
(* succeeded: the child stops with SIGTRAP before its first instruction.   *)
(***************************************************************************)
ExecTrap(p) ==
  /\ Up /\ proc[p] = "forked"
  /\ Notify(p, "traced", "trap")
  /\ UNCHANGED <<pend, owner, enabled, ring, overflows, sigq, pc>>

\* setupSyncTask or execve failed: the child exits without running the task.
StartFails(p) ==
  /\ "startfail" \in Faults
  /\ Up /\ proc[p] = "forked"
  /\ Notify(p, "zombie", "exited")
  /\ UNCHANGED <<pend, owner, enabled, ring, overflows, sigq, pc>>

(***************************************************************************)
(* The event of running child p overflows: a sample goes to its mmap       *)
(* buffer and fasync sends OVERFLOW_SIG to the owner of the fd, which is   *)
(* the child itself or the whole process group.  The group contains the    *)
(* profiler, which keeps the signal blocked and never reads it; when its   *)
(* queue is full, fs/fcntl.c falls back on SIGIO, which kills it.          *)
(*                                                                         *)
(* A child takes a pending signal on its way back to user mode.  MaxBurst  *)
(* is the number of overflows it can have since its buffer was last read:  *)
(* one for a sample period longer than the way to the signal, more for a   *)
(* shorter one (the period may be any positive integer).                   *)
(***************************************************************************)
Overflow(p) ==
  /\ Up /\ proc[p] = "running" /\ p \in enabled /\ owner[p] # "none"
  /\ ring[p] < MaxBurst /\ overflows[p] < MaxOverflows
  /\ ring' = [ring EXCEPT ![p] = @ + 1]
  /\ overflows' = [overflows EXCEPT ![p] = @ + 1]
  /\ pend' = [q \in Plan |->
                IF Alive(q) /\ (q = p \/ owner[p] = "group")
                THEN pend[q] + 1 ELSE pend[q]]
  /\ \/ /\ owner[p] = "self"
        /\ UNCHANGED <<sigq, pc>>
     \/ /\ owner[p] = "group" /\ sigq < SigPendingLimit
        /\ sigq' = sigq + 1
        /\ UNCHANGED pc
     \/ /\ owner[p] = "group" /\ sigq >= SigPendingLimit
        /\ pc' = "killed"
        /\ UNCHANGED sigq
  /\ UNCHANGED <<proc, report, owner, enabled, sigs>>

\* Child p dequeues one OVERFLOW_SIG and stops for its tracer.
TakeOverflowSig(p) ==
  /\ Up /\ proc[p] = "running" /\ pend[p] > 0
  /\ Notify(p, "traced", "overflow")
  /\ pend' = [pend EXCEPT ![p] = @ - 1]
  /\ UNCHANGED <<owner, enabled, ring, overflows, sigq, pc>>

\* Child p dequeues some other signal and stops for its tracer.
TakeOtherSig(p) ==
  /\ "other" \in Faults
  /\ Up /\ proc[p] \in {"forked", "running"}
  /\ Notify(p, "traced", "other")
  /\ UNCHANGED <<pend, owner, enabled, ring, overflows, sigq, pc>>

(***************************************************************************)
(* The task replaces its image once more (a shell script that execs a      *)
(* program): a traced process stops with SIGTRAP at each execve.           *)
(***************************************************************************)
ExecAgain(p) ==
  /\ "exec" \in Faults
  /\ Up /\ proc[p] = "running"
  /\ Notify(p, "traced", "trap")
  /\ UNCHANGED <<pend, owner, enabled, ring, overflows, sigq, pc>>

\* The task runs to its end.
Exit(p) ==
  /\ Up /\ proc[p] = "running"
  /\ Notify(p, "zombie", "exited")
  /\ UNCHANGED <<pend, owner, enabled, ring, overflows, sigq, pc>>

\* SIGKILL from outside (the OOM killer, a user): also ends a stopped child.
KilledOutside(p) ==
  /\ "kill" \in Faults
  /\ Up /\ Alive(p)
  /\ Notify(p, "zombie", "signaled")
  /\ UNCHANGED <<pend, owner, enabled, ring, overflows, sigq, pc>>

\* The parent in src/src/profile.cpp forwards a SIGINT to the profiler.
Interrupt ==
  /\ "interrupt" \in Faults
  /\ Up /\ pc # "start" /\ "SIGINT" \notin sigs
  /\ sigs' = sigs \union {"SIGINT"}
  /\ UNCHANGED <<proc, report, pend, owner, enabled, ring, overflows,
                 sigq, pc>>

ChildStep(p) ==
  \/ ExecTrap(p) \/ StartFails(p) \/ Overflow(p) \/ TakeOverflowSig(p)
  \/ TakeOtherSig(p) \/ ExecAgain(p) \/ Exit(p) \/ KilledOutside(p)

KernelNext == Interrupt \/ \E p \in Plan : ChildStep(p)

-----------------------------------------------------------------------------
\* The scheduling states after PTRACE_CONT of every child in ps.
Resumed(ps) == [p \in Plan |-> IF p \in ps THEN "running" ELSE proc[p]]
=============================================================================
