-------------------------- MODULE ParallelProfiler --------------------------
(***************************************************************************)
(* ParallelProfiler::profile() of src/src/Profiler/ParallelProfiler.cpp:   *)
(* the profiler starts one traced child per plan, drives all of them       *)
(* through the stages READY, INIT and PROFILE with the wait statuses it    *)
(* gets, collects the performance counters whenever every child is stopped *)
(* by an OVERFLOW_SIG, and ends at DONE or ABORT by killing and reaping    *)
(* every child.                                                            *)
(*                                                                         *)
(* An operator whose name ends in _Something is a plausible mistake in the *)
(* one that follows it; no specification uses it, and PROJECT.json lists   *)
(* the property that it would break.                                       *)
(*                                                                         *)
(* The grain is one action for one result of a system call the profiler    *)
(* blocks in or polls (poll, waitpid), with everything the code does       *)
(* before the next one; module Kernel interleaves the children with them.  *)
(* What the code asks of the kernel inside such a step is either about     *)
(* children that are stopped, or commutes with what running ones do.       *)
(***************************************************************************)
EXTENDS Kernel

VARIABLES
  m_status,    \* m_status: the stage, or how the run ended.
  profStatus,  \* handleChild's copy of m_status, taken when it is called.
  m_pidmap,    \* Keys of m_pidmap: the children that have a RunningConfig.
  m_st,        \* RunningConfig::m_status: the profiler's view of a child.
  m_pstatus,   \* m_pstatus: which children have reached each stage.
  m_phaseno,   \* RunningConfig::m_phaseno.
  m_samples,   \* Length of RunningConfig::m_samples.
  m_result,    \* m_result: a plan and its number of samples per entry.
  err          \* profile()'s result.

profilerVars == <<m_status, profStatus, m_pidmap, m_st, m_pstatus, m_phaseno,
                  m_samples, m_result, err>>
vars == <<kernelVars, pc, profilerVars>>

ProfileStatus == {"READY", "INIT", "PROFILE", "DONE", "ABORT"}
ChildStatus   == {"RUN", "STOP", "DEAD"}

\* The condition of profile()'s loop: m_status < DONE.
Live == m_status \in {"READY", "INIT", "PROFILE"}

\* A system call the code checks may fail.
SysErr == "syscall" \in Faults

\* The configuration buildRunningConfig makes for a plan.
NewConfig ==
  /\ m_st = [p \in Plan |-> "RUN"]
  /\ m_phaseno = [p \in Plan |-> 0]
  /\ m_samples = [p \in Plan |-> 0]

\* A constructed profiler with its plans, when profile() is called.
Init ==
  /\ KernelInit
  /\ pc = "start"
  /\ m_status = "ABORT" /\ profStatus = "ABORT"
  /\ m_pidmap = {}
  /\ NewConfig
  /\ m_pstatus = [s \in ProfileStatus |-> {}]
  /\ m_result = {}
  /\ err = 0

-----------------------------------------------------------------------------
(* Starting.                                                               *)

(***************************************************************************)
(* profile() up to the loop that starts the plans.  A failed check ends it *)
(* at once; a failed createSignalFD goes through the terminate label.      *)
(***************************************************************************)
Start ==
  /\ pc = "start"
  /\ m_status' = "READY"
  /\ m_pidmap' = {} /\ m_result' = {}
  /\ m_pstatus' = [s \in ProfileStatus |-> {}]
  /\ \/ pc' = "build" /\ err' = 0
     \/ SysErr /\ pc' = "done" /\ err' \in {-1, -2}
     \/ SysErr /\ pc' = "kill" /\ err' = -3
  /\ UNCHANGED <<kernelVars, profStatus, m_st, m_phaseno, m_samples>>

\* buildRunningConfig forks the child of plan p and records it.
BuildRunningConfig(p) ==
  /\ pc = "build" /\ p \notin m_pidmap
  /\ proc' = [proc EXCEPT ![p] = "forked"]
  /\ m_pidmap' = m_pidmap \union {p}
  /\ pc' = IF m_pidmap' = Plan THEN "poll" ELSE "build"
  /\ UNCHANGED <<report, pend, owner, enabled, ring, overflows, sigs, sigq,
                 m_status, profStatus, m_st, m_pstatus, m_phaseno, m_samples,
                 m_result, err>>

\* The killchild label: end a child that is not in m_pidmap yet.
KillUnrecorded(p) == Notify(p, "zombie", "signaled")

\* buildRunningConfig fails at the fork, or after it (affinity, FIFO, event).
BuildFails(p) ==
  /\ SysErr
  /\ pc = "build" /\ p \notin m_pidmap
  /\ \/ UNCHANGED <<proc, report, sigs>>
     \/ KillUnrecorded(p)
  /\ err' = -4 /\ pc' = "kill"
  /\ UNCHANGED <<pend, owner, enabled, ring, overflows, sigq,
                 m_status, profStatus, m_pidmap, m_st, m_pstatus, m_phaseno,
                 m_samples, m_result>>

-----------------------------------------------------------------------------
(* The poll loop.                                                          *)

\* A signalfd returns the pending signal with the lowest number: SIGINT first.
ReadSIGINT_OnlyLogged ==
  /\ pc = "poll" /\ Live /\ "SIGINT" \in sigs
  /\ sigs' = sigs \ {"SIGINT"}
  /\ UNCHANGED <<proc, report, pend, owner, enabled, ring, overflows,
                 sigq, pc, profilerVars>>
ReadSIGINT ==
  /\ pc = "poll" /\ Live /\ "SIGINT" \in sigs
  /\ sigs' = sigs \ {"SIGINT"}
  /\ m_status' = "ABORT"
  /\ UNCHANGED <<proc, report, pend, owner, enabled, ring, overflows,
                 sigq, pc, profStatus, m_pidmap, m_st, m_pstatus, m_phaseno,
                 m_samples, m_result, err>>

\* handleSignal reads SIGCHLD and enters handleChild.
ReadSIGCHLD ==
  /\ pc = "poll" /\ Live /\ sigs = {"SIGCHLD"}
  /\ sigs' = {}
  /\ profStatus' = m_status
  /\ pc' = "wait"
  /\ UNCHANGED <<proc, report, pend, owner, enabled, ring, overflows,
                 sigq, m_status, m_pidmap, m_st, m_pstatus, m_phaseno,
                 m_samples, m_result, err>>

\* read (-5) or poll (-6) fails.
PollFails ==
  /\ SysErr
  /\ pc = "poll" /\ Live
  /\ m_status' = "ABORT" /\ err' \in {-5, -6}
  /\ UNCHANGED <<kernelVars, pc, profStatus, m_pidmap, m_st, m_pstatus,
                 m_phaseno, m_samples, m_result>>

\* The plans profile() has a result for.
WithResult_Daemons == m_pidmap
WithResult == m_pidmap \intersect PerfPlans

\* The loop ends; the samples of the perf plans move to m_result.
LeaveLoop ==
  /\ pc = "poll" /\ ~Live
  /\ m_result' = {<<p, m_samples[p]>> : p \in WithResult}
  /\ m_samples' = [p \in Plan |-> IF p \in WithResult THEN 0 ELSE m_samples[p]]
  /\ pc' = "kill"
  /\ UNCHANGED <<kernelVars, m_status, profStatus, m_pidmap, m_st, m_pstatus,
                 m_phaseno, err>>

-----------------------------------------------------------------------------
(* What handleChild calls.  In these fragments st stands for m_st after    *)
(* the child at hand has been marked, and the operators named ...s are     *)
(* the sets of possible outcomes.                                          *)

\* A set with as many elements as m_pidmap: how the code tests "all of them".
Full_OneShort(S) == Cardinality(S) + 1 >= Cardinality(m_pidmap)
Full(S) == Cardinality(S) = Cardinality(m_pidmap)

\* handleChild returns after marking the run as aborted.
Abort_NoReturn ==
  /\ m_status' = "ABORT"
  /\ UNCHANGED <<pc, err>>
Abort_StatusKept ==
  /\ pc' = "poll"
  /\ UNCHANGED <<m_status, err>>
Abort ==
  /\ m_status' = "ABORT" /\ pc' = "poll"
  /\ UNCHANGED err

\* handleChild returns false: handleSignal's caller aborts with an error.
ReturnFalse ==
  /\ m_status' = "ABORT" /\ pc' = "poll"
  /\ err' = -5

(***************************************************************************)
(* The children wakeupAll may have woken when it is asked to wake ps: all  *)
(* of them, or only some because PTRACE_CONT failed for the next one (a    *)
(* child killed from outside is stopped no longer).                        *)
(***************************************************************************)
Stopped(ps) == \A p \in ps : proc[p] = "traced"

Wakeups(ps) ==
  {W \in SUBSET ps : /\ Stopped(W)
                     /\ W # ps => SysErr \/ ~Stopped(ps)}

\* PTRACE_CONT of ps with signal 0.
Wakeup(st, ps) ==
  /\ proc' = Resumed(ps)
  /\ m_st' = [p \in Plan |-> IF p \in ps THEN "RUN" ELSE st[p]]

\* The children wakeupAll addresses.
StoppedView_PerfOnly(st) == {p \in m_pidmap \intersect PerfPlans : st[p] = "STOP"}
StoppedView(st) == {p \in m_pidmap : st[p] = "STOP"}

\* The perf plans in S get one more sample.
Sampled(c, S) == [p \in Plan |-> IF p \in S THEN c[p] + 1 ELSE c[p]]

\* updatePhase for the plans in S: read the buffer, step m_phaseno.
UpdatePhase_BySignal(S) ==
  /\ m_phaseno' = [p \in Plan |->
                     IF p \in S THEN m_phaseno[p] + 1 ELSE m_phaseno[p]]
  /\ ring' = [p \in Plan |-> IF p \in S THEN 0 ELSE ring[p]]
UpdatePhase(S) ==
  /\ m_phaseno' = [p \in Plan |->
                     IF p \in S THEN m_phaseno[p] + ring[p] ELSE m_phaseno[p]]
  /\ ring' = [p \in Plan |-> IF p \in S THEN 0 ELSE ring[p]]

\* The plans a failing collectAll has sampled and updated before it failed.
PartCollected ==
  {c \in (SUBSET PerfPlans) \X (SUBSET SamplePlans) : c[2] \subseteq c[1]}

\* The overflows of the plans in S become a signal to the child itself.
SetUpINIT_Group(S) ==
  /\ owner' = [p \in Plan |-> IF p \in S THEN "group" ELSE owner[p]]
  /\ enabled' = enabled \union S
SetUpINIT(S) ==
  /\ owner' = [p \in Plan |-> IF p \in S THEN "self" ELSE owner[p]]
  /\ enabled' = enabled \union S

\* gotoINIT: set up and wake each child that is READY and not past INIT.
GotoINIT(st, ready, init) ==
  LET todo == ready \ init
  IN \E W \in Wakeups(todo) :
       /\ Wakeup(st, W)
       /\ \/ /\ W = todo
             /\ SetUpINIT(todo)
             /\ m_status' = "INIT" /\ pc' = "poll"
             /\ UNCHANGED err
          \/ /\ W # todo
             /\ \E S \in SUBSET todo : W \subseteq S /\ SetUpINIT(S)
             /\ Abort

\* The overflows of the sample plans in S become a signal to the group.
SetUpPROFILE_Self(S) ==
  /\ owner' = [p \in Plan |-> IF p \in S \intersect SamplePlans
                              THEN "self" ELSE owner[p]]
  /\ enabled' = enabled \union S
SetUpPROFILE(S) ==
  /\ owner' = [p \in Plan |-> IF p \in S \intersect SamplePlans
                              THEN "group" ELSE owner[p]]
  /\ enabled' = enabled \union S

\* gotoPROFILE: set up and start every perf event, wake every stopped child.
GotoPROFILE(st) ==
  LET todo == StoppedView(st)
  IN \/ \E W \in Wakeups(todo) :
          /\ SetUpPROFILE(PerfPlans)
          /\ Wakeup(st, W)
          /\ IF W = todo
             THEN m_status' = "PROFILE" /\ pc' = "poll" /\ UNCHANGED err
             ELSE Abort
     \/ /\ SysErr
        /\ \E S \in SUBSET PerfPlans : SetUpPROFILE(S)
        /\ m_st' = st /\ UNCHANGED proc
        /\ Abort

(***************************************************************************)
(* gotoDONE: stop every event, collect the rest.  samples and S are what   *)
(* the same step has collected before: m_samples so far, and the plans     *)
(* whose buffer it has emptied into m_phaseno (a second collection finds   *)
(* nothing there).                                                         *)
(***************************************************************************)
GotoDONE_NoCollect(samples, S) ==
  /\ enabled' = enabled \ PerfPlans
  /\ m_samples' = samples
  /\ UpdatePhase(S)
  /\ m_status' = "DONE" /\ pc' = "poll"
  /\ UNCHANGED err
GotoDONE(samples, S) ==
  \/ /\ enabled' = enabled \ PerfPlans
     /\ m_samples' = Sampled(samples, PerfPlans)
     /\ UpdatePhase(SamplePlans)
     /\ m_status' = "DONE" /\ pc' = "poll"
     /\ UNCHANGED err
  \/ /\ SysErr
     /\ \E c \in PartCollected, off \in SUBSET PerfPlans :
          /\ off = PerfPlans \/ c = <<{}, {}>>
          /\ enabled' = enabled \ off
          /\ m_samples' = Sampled(samples, c[1])
          /\ UpdatePhase(S \union c[2])
     /\ Abort

-----------------------------------------------------------------------------
(* handleChild: one turn of its waitpid loop.                              *)

\* waitpid returns a status of child p.
Waited(p, statuses) == pc = "wait" /\ report[p] \in statuses

Consume(p) == report' = [report EXCEPT ![p] = "none"]

\* The view of the children once p has been seen stopped.
SeenStopped_Unmarked(p) == m_st
SeenStopped(p) == [m_st EXCEPT ![p] = "STOP"]

\* The loop goes on with the next child.
NextChild_NoLoop ==
  /\ pc' = "poll"
  /\ UNCHANGED <<m_status, err>>
NextChild == UNCHANGED <<m_status, err, pc>>

\* WIFEXITED: the end of the run if it is in PROFILE, a failure before.
HandleExited(p) ==
  /\ Waited(p, {"exited"}) /\ Consume(p)
  /\ proc' = [proc EXCEPT ![p] = "reaped"]
  /\ m_st' = [m_st EXCEPT ![p] = "DEAD"]
  /\ \/ /\ profStatus = "PROFILE"
        /\ GotoDONE(m_samples, {})
     \/ /\ profStatus # "PROFILE"
        /\ Abort
        /\ UNCHANGED <<enabled, ring, m_phaseno, m_samples>>
  /\ UNCHANGED <<pend, owner, overflows, sigs, sigq, profStatus,
                 m_pidmap, m_pstatus, m_result>>

\* WIFSIGNALED: the run is void.
HandleSignaled(p) ==
  /\ Waited(p, {"signaled"}) /\ Consume(p)
  /\ proc' = [proc EXCEPT ![p] = "reaped"]
  /\ m_st' = [m_st EXCEPT ![p] = "DEAD"]
  /\ Abort
  /\ UNCHANGED <<pend, owner, enabled, ring, overflows, sigs, sigq,
                 profStatus, m_pidmap, m_pstatus, m_phaseno, m_samples,
                 m_result>>

\* READY, SIGTRAP: the child is there; the last one starts the next stage.
HandleTrap(p) ==
  LET st    == SeenStopped(p)
      ready == m_pstatus["READY"] \union {p}
      past  == p \notin PhasePlans \/ PhaseBegin[p] = 0
      init  == m_pstatus["INIT"] \union (IF past THEN {p} ELSE {})
  IN /\ Waited(p, {"trap"}) /\ Consume(p)
     /\ profStatus = "READY"
     /\ m_pstatus' = [m_pstatus EXCEPT !["READY"] = ready, !["INIT"] = init]
     /\ \/ Full(ready) /\ Full(init) /\ GotoPROFILE(st)
        \/ Full(ready) /\ ~Full(init) /\ GotoINIT(st, ready, init)
        \/ /\ ~Full(ready)
           /\ m_st' = st
           /\ NextChild /\ UNCHANGED <<proc, owner, enabled>>
     /\ UNCHANGED <<pend, ring, overflows, sigs, sigq, profStatus,
                    m_pidmap, m_phaseno, m_samples, m_result>>

\* READY allows no other signal, INIT no child but those of phase plans.
Unexpected(p) ==
  IF profStatus = "READY" THEN report[p] # "trap"
                          ELSE profStatus = "INIT" /\ p \notin PhasePlans

HandleUnexpected(p) ==
  /\ Waited(p, {"trap", "overflow", "other"}) /\ Consume(p)
  /\ Unexpected(p)
  /\ m_st' = SeenStopped(p)
  /\ Abort
  /\ UNCHANGED <<proc, pend, owner, enabled, ring, overflows, sigs,
                 sigq, profStatus, m_pidmap, m_pstatus, m_phaseno, m_samples,
                 m_result>>

\* The phase of plan p has begun once its buffer is counted.
Reached_After(p) == m_phaseno[p] + ring[p] > PhaseBegin[p]
Reached(p) == m_phaseno[p] + ring[p] >= PhaseBegin[p]

(***************************************************************************)
(* INIT, OVERFLOW_SIG: step the phase of this child; hold it once it has   *)
(* reached its phase begin, and let it run on before that.  Only a child   *)
(* that is held can complete the set that starts PROFILE.                  *)
(***************************************************************************)
InitOverflow(p) ==
  LET st   == SeenStopped(p)
      init == m_pstatus["INIT"] \union {p}
  IN \/ /\ Reached(p)
        /\ UpdatePhase({p})
        /\ m_pstatus' = [m_pstatus EXCEPT !["INIT"] = init]
        /\ \/ Full(init) /\ GotoPROFILE(st)
           \/ /\ ~Full(init)
              /\ m_st' = st
              /\ NextChild /\ UNCHANGED <<proc, owner, enabled>>
     \/ /\ ~Reached(p)
        /\ UpdatePhase({p})
        /\ \E W \in Wakeups({p}) :
             /\ Wakeup(st, W)
             /\ IF W = {p} THEN NextChild ELSE ReturnFalse
        /\ UNCHANGED <<owner, enabled, m_pstatus>>
     \/ /\ SysErr
        /\ m_st' = st
        /\ Abort
        /\ UNCHANGED <<proc, owner, enabled, ring, m_phaseno, m_pstatus>>

HandleInitOverflow(p) ==
  /\ Waited(p, {"overflow"}) /\ Consume(p)
  /\ profStatus = "INIT" /\ p \in PhasePlans
  /\ InitOverflow(p)
  /\ UNCHANGED <<pend, overflows, sigs, sigq, profStatus, m_pidmap,
                 m_samples, m_result>>

(***************************************************************************)
(* INIT and PROFILE, any other signal: resume the child with it.  The      *)
(* child runs on, or the signal kills it; nothing handles a SIGTRAP.       *)
(***************************************************************************)
HandleDeliver(p) ==
  /\ Waited(p, {"trap", "other"})
  /\ profStatus # "READY" /\ ~Unexpected(p)
  /\ \/ /\ report[p] # "trap"
        /\ Consume(p) /\ Wakeup(SeenStopped(p), {p})
        /\ NextChild /\ UNCHANGED sigs
     \/ /\ Notify(p, "zombie", "signaled")
        /\ m_st' = [m_st EXCEPT ![p] = "RUN"]
        /\ NextChild
     \/ /\ SysErr
        /\ Consume(p) /\ m_st' = SeenStopped(p)
        /\ ReturnFalse /\ UNCHANGED <<proc, sigs>>
  /\ UNCHANGED <<pend, owner, enabled, ring, overflows, sigq,
                 profStatus, m_pidmap, m_pstatus, m_phaseno, m_samples,
                 m_result>>

\* m_pstatus ready for the next sync.
Cleared_Not == m_pstatus
Cleared == [m_pstatus EXCEPT !["PROFILE"] = {}]

\* The phase plans that have reached their phase end once all is counted.
Ended_After == {q \in PhasePlans : m_phaseno[q] + ring[q] > PhaseEnd[q]}
Ended == {q \in PhasePlans : m_phaseno[q] + ring[q] >= PhaseEnd[q]}

(***************************************************************************)
(* PROFILE, every child stopped by OVERFLOW_SIG: collect, then end if a    *)
(* plan has reached its phase end, or wake everybody.                      *)
(***************************************************************************)
Barrier(st) ==
  LET done == m_pstatus["DONE"] \union Ended
      once == Sampled(m_samples, PerfPlans)
  IN \/ /\ m_pstatus' = [Cleared EXCEPT !["DONE"] = done]
        /\ \/ /\ done # {}
              /\ GotoDONE(once, SamplePlans)
              /\ m_st' = st /\ UNCHANGED proc
           \/ /\ done = {}
              /\ m_samples' = once
              /\ UpdatePhase(SamplePlans)
              /\ \E W \in Wakeups(StoppedView(st)) :
                   /\ Wakeup(st, W)
                   /\ IF W = StoppedView(st) THEN NextChild ELSE ReturnFalse
              /\ UNCHANGED enabled
     \/ /\ SysErr
        /\ m_pstatus' = Cleared
        /\ \E c \in PartCollected : /\ m_samples' = Sampled(m_samples, c[1])
                                   /\ UpdatePhase(c[2])
        /\ m_st' = st
        /\ Abort /\ UNCHANGED <<proc, enabled>>

HandleProfileOverflow(p) ==
  LET st  == SeenStopped(p)
      all == m_pstatus["PROFILE"] \union {p}
  IN /\ Waited(p, {"overflow"}) /\ Consume(p)
     /\ profStatus = "PROFILE"
     /\ \/ Full(all) /\ Barrier(st)
        \/ /\ ~Full(all)
           /\ m_pstatus' = [m_pstatus EXCEPT !["PROFILE"] = all]
           /\ m_st' = st
           /\ NextChild
           /\ UNCHANGED <<proc, enabled, ring, m_phaseno, m_samples>>
     /\ UNCHANGED <<pend, owner, overflows, sigs, sigq, profStatus,
                    m_pidmap, m_result>>

\* waitpid has nothing more to return: handleChild returns true.
EndWait ==
  /\ pc = "wait" /\ \A p \in Plan : report[p] = "none"
  /\ pc' = "poll"
  /\ UNCHANGED <<kernelVars, profilerVars>>

-----------------------------------------------------------------------------
(* The terminate label.                                                    *)

\* The children killAll signals.
Targets_RunningOnly == {p \in m_pidmap : m_st[p] = "RUN"}
Targets == {p \in m_pidmap : m_st[p] # "DEAD"}

(***************************************************************************)
(* killAll: SIGKILL for every child that is not DEAD.  kill can only fail  *)
(* for a child that has been reaped, and then the && skips all later ones. *)
(***************************************************************************)
KillAll ==
  LET gone == {p \in Targets : proc[p] = "reaped"}
  IN /\ pc = "kill"
     /\ \E hit \in SUBSET (Targets \ gone) :
          /\ gone = {} => hit = Targets
          /\ proc' = [p \in Plan |-> IF p \in hit THEN "zombie" ELSE proc[p]]
          /\ report' = [p \in Plan |-> IF p \in hit /\ Alive(p)
                                      THEN "signaled" ELSE report[p]]
          /\ m_st' = [p \in Plan |-> IF p \in hit THEN "DEAD" ELSE m_st[p]]
     /\ sigs' = sigs \union {"SIGCHLD"}
     /\ pc' = "reap"
     /\ UNCHANGED <<pend, owner, enabled, ring, overflows, sigq,
                    m_status, profStatus, m_pidmap, m_pstatus, m_phaseno,
                    m_samples, m_result, err>>

\* waitpid in the loop at terminate returns child p.
Reap(p) ==
  /\ pc = "reap" /\ report[p] # "none" /\ Consume(p)
  /\ proc' = [proc EXCEPT ![p] = IF @ = "zombie" THEN "reaped" ELSE @]
  /\ UNCHANGED <<pend, owner, enabled, ring, overflows, sigs, sigq,
                 pc, profilerVars>>

\* waitpid fails with ECHILD: profile() returns.
ReapDone ==
  /\ pc = "reap" /\ \A p \in Plan : proc[p] \in {"none", "reaped"}
  /\ pc' = "done"
  /\ UNCHANGED <<kernelVars, profilerVars>>

\* The profiler has returned, or a signal has killed it.
Finished == ~Up /\ UNCHANGED vars

-----------------------------------------------------------------------------
HandleChild(p) ==
  \/ HandleExited(p) \/ HandleSignaled(p) \/ HandleTrap(p)
  \/ HandleUnexpected(p) \/ HandleInitOverflow(p) \/ HandleDeliver(p)
  \/ HandleProfileOverflow(p)

ProfilerStep ==
  \/ Start
  \/ \E p \in Plan : BuildRunningConfig(p) \/ BuildFails(p)
  \/ ReadSIGINT \/ ReadSIGCHLD \/ LeaveLoop
  \/ \E p \in Plan : HandleChild(p)
  \/ EndWait \/ KillAll
  \/ \E p \in Plan : Reap(p)
  \/ ReapDone

Next ==
  \/ ProfilerStep
  \/ PollFails
  \/ KernelNext /\ UNCHANGED profilerVars
  \/ Finished

Spec == Init /\ [][Next]_vars

(***************************************************************************)
(* The profiler is scheduled; a child starts or fails to, and takes the    *)
(* signals it has.  A task need never go on nor exit, and no disturbance   *)
(* need ever happen: where a step of the profiler may fail it may also     *)
(* succeed, but for poll, which may wait for ever and need not fail.       *)
(*                                                                         *)
(* Nobody signals a task for ever: the loop in handleChild goes on as long *)
(* as there are children to be waited for, and only poll sees a SIGINT.    *)
(***************************************************************************)
Child(A) == A /\ UNCHANGED profilerVars

Fairness ==
  /\ WF_vars(ProfilerStep)
  /\ \A p \in Plan : /\ WF_vars(Child(ExecTrap(p) \/ StartFails(p)))
                     /\ WF_vars(Child(TakeOverflowSig(p)))

Calm ==
  <>[][\A p \in Plan : report'[p] \in {"trap", "other"} => report[p] = report'[p]]_vars

FairSpec == Spec /\ Fairness /\ Calm
=============================================================================
