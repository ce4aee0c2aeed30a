------------------------- MODULE ProfilerProperties -------------------------
(***************************************************************************)
(* What ParallelProfiler::profile() must guarantee, about the              *)
(* specification in module ParallelProfiler.  The properties of the second *)
(* group hold under one assumption on the sampled tasks, which their       *)
(* comment names: MaxBurst = 1.                                            *)
(***************************************************************************)
EXTENDS ParallelProfiler, Functions

TypeOK ==
  /\ KernelTypeOK
  /\ m_status \in ProfileStatus /\ profStatus \in ProfileStatus
  /\ m_pidmap \in SUBSET Plan
  /\ m_st \in [Plan -> ChildStatus]
  /\ m_pstatus \in [ProfileStatus -> SUBSET Plan]
  /\ m_phaseno \in [Plan -> Nat]
  /\ m_samples \in [Plan -> Nat]
  /\ m_result \in SUBSET (PerfPlans \X Nat)
  /\ err \in -6 .. 0

\* The profiler is in the loop of profile().
InLoop == pc \in {"poll", "wait"}

-----------------------------------------------------------------------------
(* Whatever the children do.                                               *)

(***************************************************************************)
(* RunningConfig::m_status tells the truth about the process, up to a wait *)
(* status that has not been read yet: a child marked STOP can be resumed   *)
(* unless it was killed, one marked RUN runs or has something to report,   *)
(* and exactly the reaped ones are DEAD, so that killChild never signals a *)
(* pid that may belong to somebody else.                                   *)
(***************************************************************************)
ViewMatchesKernel ==
  InLoop => \A p \in Plan :
    /\ m_st[p] = "RUN" => \/ proc[p] \in {"forked", "running"}
                          \/ report[p] # "none"
    /\ m_st[p] = "STOP" => \/ proc[p] = "traced" /\ report[p] = "none"
                           \/ proc[p] = "zombie" /\ report[p] = "signaled"
    /\ m_st[p] = "DEAD" <=> proc[p] = "reaped"

(***************************************************************************)
(* A wait status of a child the profiler believes to be running is never   *)
(* left without a SIGCHLD for poll to return on, although SIGCHLD does not *)
(* queue and handleChild often returns before waitpid has run dry.         *)
(***************************************************************************)
NoLostWakeup ==
  pc = "build" \/ (pc = "poll" /\ Live) =>
    \A p \in Plan : m_st[p] = "RUN" /\ report[p] # "none" => "SIGCHLD" \in sigs

(***************************************************************************)
(* The stage handleChild copied when it was called is the current one at   *)
(* every turn of its loop, and it has a configuration for every pid that   *)
(* waitpid can return.                                                     *)
(***************************************************************************)
CachedStatusFresh ==
  pc = "wait" => Live /\ profStatus = m_status /\ m_pidmap = Plan

(***************************************************************************)
(* No child passes a gate before the others: in READY and INIT a child     *)
(* that has reached the end of the stage is held there, INIT starts only   *)
(* with every child at its SIGTRAP, and PROFILE with every phase plan at   *)
(* its phase begin.                                                        *)
(***************************************************************************)
Held(p) == m_st[p] = "STOP" /\ proc[p] \in {"traced", "zombie"}

StageGate ==
  InLoop =>
    /\ m_status = "READY" => \A p \in m_pstatus["READY"] : Held(p)
    /\ m_status = "INIT" => /\ m_pstatus["READY"] = Plan
                            /\ \A p \in m_pstatus["INIT"] : Held(p)
    /\ m_status \in {"PROFILE", "DONE"} =>
         /\ m_pstatus["INIT"] = Plan
         /\ \A p \in PhasePlans : m_phaseno[p] >= PhaseBegin[p]

(***************************************************************************)
(* A child at the barrier of PROFILE waits there for the others, and a     *)
(* full barrier never survives the handling that filled it.                *)
(***************************************************************************)
BarrierHeld ==
  InLoop /\ m_status = "PROFILE" =>
    /\ \A p \in m_pstatus["PROFILE"] : Held(p)
    /\ m_pstatus["PROFILE"] # Plan

(***************************************************************************)
(* No overflow is lost or counted twice: the phase of a sample plan and    *)
(* the samples still in its buffer are all the overflows it had, and       *)
(* nothing is left in the buffer when the run is DONE.                     *)
(***************************************************************************)
PhaseExact ==
  m_status # "ABORT" =>
    \A p \in SamplePlans :
      /\ m_phaseno[p] + ring[p] = overflows[p]
      /\ m_status = "DONE" => ring[p] = 0

(***************************************************************************)
(* All perf plans have the same number of samples whenever a collection is *)
(* not under way, so that the rows of the plans line up.                   *)
(***************************************************************************)
SamplesAligned ==
  m_status # "ABORT" =>
    \A p, q \in PerfPlans : m_samples[p] = m_samples[q]

(***************************************************************************)
(* What main publishes (no error and DONE) has one entry per perf plan     *)
(* with equally many samples, at least one, all taken by the time the      *)
(* events were stopped; and DONE has a reason, the exit of a child or a    *)
(* phase end.                                                              *)
(***************************************************************************)
WholeRows ==
  /\ {r[1] : r \in m_result} = PerfPlans
  /\ \A r, s \in m_result : r[2] = s[2] /\ r[2] > 0

ResultComplete ==
  m_status = "DONE" =>
    /\ err = 0 /\ enabled = {}
    /\ pc = "poll" => \/ \E p \in Plan : m_st[p] = "DEAD"
                      \/ \E p \in PhasePlans : m_phaseno[p] >= PhaseEnd[p]
    /\ pc # "poll" => WholeRows

(***************************************************************************)
(* Once killAll has run no child is alive, neither one that the failing    *)
(* buildRunningConfig has started nor one the profiler had lost sight of,  *)
(* so the last waitpid loop only sees dying children.                      *)
(***************************************************************************)
NoSurvivor == pc \in {"reap", "done"} => \A p \in Plan : ~Alive(p)

(***************************************************************************)
(* The stages only go forward, one after the other (INIT may be skipped),  *)
(* DONE is reached from PROFILE only, and DONE and ABORT are final.        *)
(***************************************************************************)
Successors == [READY   |-> {"INIT", "PROFILE", "ABORT"},
               INIT    |-> {"PROFILE", "ABORT"},
               PROFILE |-> {"DONE", "ABORT"},
               DONE    |-> {},
               ABORT   |-> {}]

StageOrder ==
  [][pc # "start" /\ m_status' # m_status
       => m_status' \in Successors[m_status]]_vars

(***************************************************************************)
(* Samples are taken in PROFILE only, and, as long as the run goes on, only *)
(* when every child is stopped.                                            *)
(***************************************************************************)
CollectedWhilePaused ==
  [][m_samples' # m_samples /\ m_status' = "PROFILE"
       => /\ m_status = "PROFILE"
          /\ \A p \in Plan : proc[p] \in {"traced", "zombie"}]_vars

(***************************************************************************)
(* The session the README promises: every child runs or is paused together *)
(* with the others, data is collected in the pause, and only a DONE run    *)
(* hands over its (whole) rows.                                            *)
(***************************************************************************)
stage  == IF pc = "start" THEN "READY" ELSE m_status
halted == {p \in Plan : m_st[p] = "STOP"}
rows   == [p \in PerfPlans |-> m_samples[p]]

Abs == INSTANCE Session WITH stage <- stage, halted <- halted, rows <- rows,
                             result <- m_result

SessionSpec == Abs!Spec

-----------------------------------------------------------------------------
(* Under MaxBurst = 1: a child takes its OVERFLOW_SIG before its event     *)
(* overflows once more.                                                    *)

(***************************************************************************)
(* A phase starts where the plan says: when PROFILE is entered, each phase *)
(* plan has had PhaseBegin overflows, not more ("If phaseno exceed its     *)
(* start point, we should abort").                                         *)
(***************************************************************************)
PhaseStartsExactly ==
  [][m_status' = "PROFILE" /\ m_status # "PROFILE"
       => \A p \in PhasePlans : m_phaseno'[p] = PhaseBegin[p]]_vars

(***************************************************************************)
(* ... and the run ends with the first phase that ends: it never goes on   *)
(* past PhaseEnd, and what is counted never exceeds it.                    *)
(***************************************************************************)
PhaseWindow ==
  \A p \in PhasePlans :
    /\ InLoop /\ m_status = "PROFILE" => m_phaseno[p] < PhaseEnd[p]
    /\ m_status = "DONE" => m_phaseno[p] <= PhaseEnd[p]

(***************************************************************************)
(* One round of samples per overflow: in PROFILE, the rounds collected and *)
(* the OVERFLOW_SIGs a child still has to answer (queued, unread by        *)
(* waitpid, or answered by waiting at the barrier) add up, for each living *)
(* child, to the overflows of all sample plans since PROFILE began.  In    *)
(* particular every child owes the same number of rounds.                  *)
(***************************************************************************)
Due(p) == pend[p] + (IF report[p] = "overflow" THEN 1 ELSE 0)
                  + (IF p \in m_pstatus["PROFILE"] THEN 1 ELSE 0)

SinceBegin ==
  [p \in SamplePlans |->
     overflows[p] - (IF p \in PhasePlans THEN PhaseBegin[p] ELSE 0)]

OneRoundPerOverflow ==
  InLoop /\ m_status = "PROFILE" =>
    \A p \in Plan, q \in PerfPlans :
      Alive(p) => m_samples[q] + Due(p) = SumFunctionOnSet(SinceBegin, SamplePlans)

-----------------------------------------------------------------------------
(* Liveness, of FairSpec.                                                  *)

\* A task that is sampled goes on computing until it exits.
TasksEnd == \A p \in SamplePlans : WF_vars(Child(Overflow(p) \/ Exit(p)))

\* If the sampled tasks come to an end, profile() returns, with no child left.
Terminates == TasksEnd => <>(pc = "done")

\* A SIGINT ends the run, in whatever stage it comes, whatever the tasks do.
InterruptHonoured == "SIGINT" \in sigs ~> pc = "done"

(***************************************************************************)
(* The first child at the barrier is followed by all others, or the run    *)
(* ends: "all children will recv OVERFLOW_SIG and deliver it to main       *)
(* process".                                                               *)
(***************************************************************************)
BarrierCompletes ==
  m_status = "PROFILE" /\ m_pstatus["PROFILE"] # {}
    ~> m_pstatus["PROFILE"] = {} \/ ~Live

-----------------------------------------------------------------------------
(***************************************************************************)
(* createSignalFD is said to ignore the SIGIO that signal driven IO may    *)
(* send to the group: no signal of the sampled children ends the profiler. *)
(***************************************************************************)
SIGIOIgnored == pc # "killed"
=============================================================================
