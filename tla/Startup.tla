------------------------------ MODULE Startup ------------------------------
(***************************************************************************)
(* What ParallelProfiler::profile does around the stages: the check of the *)
(* cpu set, buildRunningConfig for one plan after another (fork, affinity, *)
(* scheduling class, perf event, entry in m_pidmap), and the clean-up, on  *)
(* every path out.  ParallelProfiler.tla has the stages, with all of this  *)
(* in one step per plan.                                                   *)
(*                                                                         *)
(* A child is named by its plan.  The pid 0, which system calls take for   *)
(* the caller or its process group, is Self.                               *)
(***************************************************************************)
EXTENDS Integers, FiniteSets, SequencesExt

CONSTANTS
  m_plan,    \* The plans, in the order they were added.
  Self,      \* The profiler, and pid 0.
  PerfPlans, \* The plans with a perf event.
  Wordless,  \* Which plans may have a command without words.
  CpuSets,   \* What the user may give as cpu set.
  Online,    \* The processors that exist; their count is get_nprocs().
  Sessions   \* Bound: calls of profile().

Plan == Range(m_plan)
Process == Plan \cup {Self}

ASSUME StartupAssumption ==
  /\ m_plan \in Seq(Plan) /\ IsInjective(m_plan) /\ Self \notin Plan
  /\ PerfPlans \subseteq Plan /\ Wordless \subseteq SUBSET Plan
  /\ \A s \in CpuSets : s \in Seq(Int) /\ IsInjective(s)
  /\ Online \subseteq Nat /\ IsFiniteSet(Online) /\ Sessions \in Nat

VARIABLES
  pincpu, rt, \* The plans that ask to be pinned, to be real-time.
  noCommand,  \* The plans whose command has no words.
  cpuset,     \* What the user gave to setCPUSet.
  m_cpuset,   \* The profiler's copy, which it uses up.
  oldcpuset,  \* profile()'s saved copy.
  m_pidmap,   \* The pids with a RunningConfig.
  m_cpu,      \* RunningConfig::m_cpu by pid, -1 when not pinned.
  proc,       \* Kernel: none, live, zombie or reaped, by child.
  affinity,   \* Kernel: the processors each process may use.
  policy,     \* Kernel: the scheduling class of each process.
  pc, next,   \* Where profile() is, and at which plan.
  pid, cpu,   \* Local variables of buildRunningConfig.
  calls       \* Calls of profile() so far.

given == <<pincpu, rt, noCommand, cpuset>>
kernel == <<proc, affinity, policy>>
fields == <<m_cpuset, m_pidmap, m_cpu>>
locals == <<oldcpuset, next, pid, cpu>>
vars == <<given, kernel, fields, locals, pc, calls>>

NoCpu == -1

Init ==
  /\ pincpu \in SUBSET Plan /\ rt \in SUBSET Plan
  /\ noCommand \in Wordless /\ cpuset \in CpuSets
  /\ m_cpuset = cpuset /\ oldcpuset = <<>>
  /\ m_pidmap = {} /\ m_cpu = [p \in Process |-> NoCpu]
  /\ proc = [p \in Plan |-> "none"]
  /\ affinity = [p \in Process |-> Online]
  /\ policy = [p \in Process |-> "OTHER"]
  /\ pc = "idle" /\ next = 1 /\ pid = Self /\ cpu = NoCpu /\ calls = 0

-----------------------------------------------------------------------------

\* profile() is called; children of an earlier call are history.
Begin ==
  /\ pc = "idle" /\ calls < Sessions
  /\ calls' = calls + 1 /\ pc' = "check"
  /\ m_pidmap' = {} /\ oldcpuset' = m_cpuset /\ next' = 1
  /\ proc' = [p \in Plan |-> "none"]
  /\ UNCHANGED <<given, affinity, policy, m_cpuset, m_cpu, pid, cpu>>

\* argsCheck keeps the cpus below get_nprocs(), if they are enough; or the
\* call is refused, there or by authCheck or pfm_initialize, with nothing to
\* undo but the cpu set.
Valid(s) ==
  LET valid[n \in 0..Len(s)] ==
        IF n = 0 THEN <<>>
        ELSE IF s[n] >= 0 /\ s[n] < Cardinality(Online)
             THEN Append(valid[n - 1], s[n])
             ELSE valid[n - 1]
  IN  valid[Len(s)]
Enough(s) == Len(s) >= Cardinality(pincpu)

Check ==
  /\ pc = "check"
  /\ \/ /\ Enough(Valid(m_cpuset))
        /\ m_cpuset' = Valid(m_cpuset)
        /\ pc' \in {"build", "finalize", "killall"}
     \/ pc' = "finalize" /\ UNCHANGED m_cpuset
  /\ UNCHANGED <<given, kernel, m_pidmap, m_cpu, locals, calls>>

(***************************************************************************)
(* buildRunningConfig of m_plan[next].                                     *)
(***************************************************************************)
p == m_plan[next]
At(l) == pc = l /\ next \in DOMAIN m_plan
GoTo(l) == pc' = l /\ UNCHANGED <<given, calls, oldcpuset>>

\* Process::start returns 0 for a command without words, and the caller only
\* compares with -1.  A child inherits affinity and class.
Fork ==
  /\ At("build") /\ p \notin noCommand
  /\ proc' = [proc EXCEPT ![p] = "live"]
  /\ affinity' = [affinity EXCEPT ![p] = affinity[Self]]
  /\ policy' = [policy EXCEPT ![p] = policy[Self]]
  /\ pid' = p /\ cpu' = NoCpu
  /\ GoTo("pin") /\ UNCHANGED <<fields, next>>
NothingToRun ==
  /\ At("build") /\ p \in noCommand
  /\ pid' = Self /\ cpu' = NoCpu
  /\ GoTo("pin") /\ UNCHANGED <<kernel, fields, next>>
ForkFails ==
  /\ At("build") /\ p \notin noCommand
  /\ GoTo("killall") /\ UNCHANGED <<kernel, fields, next, pid, cpu>>

\* The last cpu of the set; back() of an empty vector is undefined.
Pin_KeepCpu ==
  /\ At("pin") /\ p \in pincpu
  /\ IF m_cpuset = <<>> THEN GoTo("undefined") /\ UNCHANGED <<kernel, fields, cpu>>
     ELSE /\ cpu' = Last(m_cpuset) /\ cpu' \in Online
          /\ affinity' = [affinity EXCEPT ![pid] = {cpu'}]
          /\ GoTo("rt") /\ UNCHANGED <<proc, policy, fields>>
  /\ UNCHANGED <<next, pid>>
Pin ==
  /\ At("pin") /\ p \in pincpu
  /\ IF m_cpuset = <<>> THEN GoTo("undefined") /\ UNCHANGED <<kernel, fields, cpu>>
     ELSE /\ cpu' = Last(m_cpuset) /\ cpu' \in Online
          /\ affinity' = [affinity EXCEPT ![pid] = {cpu'}]
          /\ m_cpuset' = Front(m_cpuset)
          /\ GoTo("rt") /\ UNCHANGED <<proc, policy, m_pidmap, m_cpu>>
  /\ UNCHANGED <<next, pid>>
PinFails ==
  /\ At("pin") /\ p \in pincpu /\ m_cpuset # <<>>
  /\ cpu' = Last(m_cpuset)
  /\ GoTo("killchild") /\ UNCHANGED <<kernel, fields, next, pid>>
NoPin ==
  /\ At("pin") /\ p \notin pincpu
  /\ GoTo("rt") /\ UNCHANGED <<kernel, fields, next, pid, cpu>>

SetFIFO_OfCaller ==
  /\ At("rt")
  /\ policy' = IF p \in rt THEN [policy EXCEPT ![Self] = "FIFO"] ELSE policy
  /\ GoTo("event") /\ UNCHANGED <<proc, affinity, fields, next, pid, cpu>>
SetFIFO ==
  /\ At("rt")
  /\ policy' = IF p \in rt THEN [policy EXCEPT ![pid] = "FIFO"] ELSE policy
  /\ GoTo("event") /\ UNCHANGED <<proc, affinity, fields, next, pid, cpu>>
SetFIFOFails ==
  /\ At("rt") /\ p \in rt
  /\ GoTo("killchild") /\ UNCHANGED <<kernel, fields, next, pid, cpu>>

\* initEvent or Configure fails.
EventFails ==
  /\ At("event") /\ p \in PerfPlans
  /\ GoTo("killchild") /\ UNCHANGED <<kernel, fields, next, pid, cpu>>
Emplace ==
  /\ At("event") /\ pid \notin m_pidmap
  /\ m_pidmap' = m_pidmap \cup {pid}
  /\ m_cpu' = [m_cpu EXCEPT ![pid] = cpu]
  /\ next' = next + 1
  /\ GoTo("build") /\ UNCHANGED <<kernel, m_cpuset, pid, cpu>>
EmplaceFails ==
  /\ At("event") /\ pid \in m_pidmap
  /\ GoTo("killchild") /\ UNCHANGED <<kernel, fields, next, pid, cpu>>

\* SIGKILL to q; with q = 0 it goes to the whole process group.
Struck(q) == IF q = Self THEN Plan ELSE {q}
Kill(q, l) ==
  /\ proc' = [c \in Plan |->
       IF c \in Struck(q) /\ proc[c] = "live" THEN "zombie" ELSE proc[c]]
  /\ GoTo(IF q = Self THEN "killed" ELSE l)

KillChild_Not ==
  At("killchild") /\ GoTo("killall") /\ UNCHANGED <<kernel, fields, next, pid, cpu>>
KillChild ==
  /\ At("killchild")
  /\ Kill(pid, "killall")
  /\ UNCHANGED <<affinity, policy, fields, next, pid, cpu>>

-----------------------------------------------------------------------------

\* The stages, and their end.
Run ==
  /\ pc = "build" /\ next > Len(m_plan)
  /\ GoTo("run") /\ UNCHANGED <<kernel, fields, next, pid, cpu>>
Stop ==
  /\ pc = "run"
  /\ GoTo("killall") /\ UNCHANGED <<kernel, fields, next, pid, cpu>>

\* killAll, in the order of the map, then waitpid(0) until there is no child.
Alive == {q \in m_pidmap \ {Self} : proc[q] = "live"} \cup (m_pidmap \cap {Self})
KillAll ==
  /\ pc = "killall"
  /\ \/ \E q \in Alive : Kill(q, "killall")
     \/ Alive = {} /\ GoTo("wait") /\ UNCHANGED proc
  /\ UNCHANGED <<affinity, policy, fields, next, pid, cpu>>
Wait_Once ==
  /\ pc = "wait" /\ \E c \in Plan : proc[c] \in {"live", "zombie"}
  /\ \E c \in Plan : proc[c] = "zombie" /\ proc' = [proc EXCEPT ![c] = "reaped"]
  /\ GoTo("finalize") /\ UNCHANGED <<affinity, policy, fields, next, pid, cpu>>
Wait ==
  /\ pc = "wait" /\ \E c \in Plan : proc[c] \in {"live", "zombie"}
  /\ \E c \in Plan : proc[c] = "zombie" /\ proc' = [proc EXCEPT ![c] = "reaped"]
  /\ GoTo("wait") /\ UNCHANGED <<affinity, policy, fields, next, pid, cpu>>
NoChild ==
  /\ pc = "wait" /\ \A c \in Plan : proc[c] \in {"none", "reaped"}
  /\ GoTo("finalize") /\ UNCHANGED <<kernel, fields, next, pid, cpu>>

Finalize_KeepCpus ==
  /\ pc = "finalize"
  /\ GoTo("idle") /\ UNCHANGED <<kernel, fields, next, pid, cpu>>
Finalize ==
  /\ pc = "finalize"
  /\ m_cpuset' = oldcpuset
  /\ GoTo("idle") /\ UNCHANGED <<kernel, m_pidmap, m_cpu, next, pid, cpu>>

\* A child may end by itself at any time; it stays a zombie until waited for.
Exit(c) ==
  /\ proc[c] = "live"
  /\ proc' = [proc EXCEPT ![c] = "zombie"]
  /\ UNCHANGED <<given, affinity, policy, fields, locals, pc, calls>>

Build ==
  \/ Fork \/ NothingToRun \/ ForkFails \/ Pin \/ PinFails \/ NoPin
  \/ SetFIFO \/ SetFIFOFails \/ EventFails \/ Emplace \/ EmplaceFails \/ KillChild

Profiler ==
  \/ Begin \/ Check \/ Build \/ Run \/ Stop \/ KillAll \/ Wait \/ NoChild \/ Finalize

\* No further call, or no profiler.
Ended ==
  /\ (pc = "idle" /\ calls = Sessions) \/ pc = "killed"
  /\ UNCHANGED vars

Next == Profiler \/ Ended \/ \E c \in Plan : Exit(c)

\* The profiler takes its steps, but for the end of the stages, which it waits
\* for in poll(); a child may never end by itself.
Spec == Init /\ [][Next]_vars /\ WF_vars(Profiler /\ pc # "run")

-----------------------------------------------------------------------------

TypeOK ==
  /\ m_cpuset \in Seq(Int) /\ m_pidmap \subseteq Process
  /\ m_cpu \in [Process -> Int]
  /\ proc \in [Plan -> {"none", "live", "zombie", "reaped"}]
  /\ affinity \in [Process -> SUBSET Online]
  /\ policy \in [Process -> {"OTHER", "FIFO"}]
  /\ next \in 1..Len(m_plan) + 1 /\ pid \in Process /\ cpu \in Int

\* Every variable keeps its type, and back() never meets an empty set.  When the
\* stages begin, every plan has a process (if it has a command) and it
\* is as the plan asks: a pinned one alone on a cpu the user gave and the
\* machine has, the others where the profiler may run; real-time exactly where
\* asked.
CpuLeft == pc # "undefined"
AsPlanned ==
  /\ TypeOK /\ CpuLeft
  /\ pc = "run" /\ noCommand = {} =>
       /\ m_pidmap = Plan
       /\ \A q \in pincpu :
            /\ m_cpu[q] \in Range(cpuset) \cap Online /\ affinity[q] = {m_cpu[q]}
            /\ \A o \in pincpu \ {q} : m_cpu[o] # m_cpu[q]
       /\ \A q \in Plan \ pincpu : affinity[q] = Online
       /\ \A q \in Plan : policy[q] = (IF q \in rt THEN "FIFO" ELSE "OTHER")

\* Whatever way profile() ends, the cpu set is the user's again, so that the
\* next call can hand out all of it.
CpuSetRestored == pc = "idle" => m_cpuset = cpuset

\* When profile() returns it leaves no child, running or dead.
NoChildLeft == pc = "idle" => \A c \in Plan : proc[c] \in {"none", "reaped"}

\* The clean-up ends: a call that does not come to the stages, or whose stages
\* are over, returns (but for a plan without a command, whose pid 0 may get the
\* profiler itself killed).  Where the start of a plan fails, its child is
\* stopped at its first instruction, and waitpid(0) waits for that one too.
Returns ==
  pc \in {"check", "killall"}
    ~> pc \in {"run", "idle"} \/ (pc = "killed" /\ noCommand # {})

\* As long as every plan has a command, the signals and settings meant for the
\* children never reach the profiler.
ProfilerSpared ==
  noCommand = {} =>
    affinity[Self] = Online /\ policy[Self] = "OTHER" /\ pc # "killed"
=============================================================================
