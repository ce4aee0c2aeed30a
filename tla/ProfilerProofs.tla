--------------------------- MODULE ProfilerProofs ---------------------------
(***************************************************************************)
(* The safety of ParallelProfiler, for every set of plans, every           *)
(* combination of disturbances and every bound: first its type             *)
(* correctness, then that IInv of ProfilerInvariant is inductive, and      *)
(* implies the properties of ProfilerProperties; then, that the profiler   *)
(* implements Session; last, under MaxBurst = 1, that RoundInv holds, and  *)
(* with it what is said of phases and rounds.                              *)
(*                                                                         *)
(* A lemma called XStep shows that every step keeps part X of IInv; it has *)
(* one step per action, except that actions which leave everything alone   *)
(* that X speaks of share one.  The steps in which a stage changes come    *)
(* first, as lemmas of their own.                                          *)
(***************************************************************************)
EXTENDS ProfilerInvariant, DataInduction, FiniteSetTheorems, TLAPS

\* The kinds of plan are nested.
LEMMA PlanSets ==
  /\ PhasePlans \subseteq SamplePlans
  /\ SamplePlans \subseteq PerfPlans
  /\ PerfPlans \subseteq Plan
BY DEF PhasePlans, SamplePlans, PerfPlans

(***************************************************************************)
(* The profiler compares sizes to find out whether a set holds all plans:  *)
(* that is right for sets of plans once every plan is in m_pidmap.         *)
(***************************************************************************)
LEMMA FullIsAll ==
  m_pidmap = Plan => \A S \in SUBSET Plan : Full(S) <=> S = Plan
<1> SUFFICES ASSUME m_pidmap = Plan, NEW S \in SUBSET Plan
             PROVE  Full(S) <=> S = Plan
  OBVIOUS
<1> QED
  BY PlanAssumption, FS_Subset DEF Full

\* updatePhase only ever adds to a phase.
LEMMA PhaseGrows ==
  ASSUME TypeOK, NEW S, UpdatePhase(S)
  PROVE  /\ m_phaseno' \in [Plan -> Nat]
         /\ \A p \in Plan : m_phaseno'[p] >= m_phaseno[p]
BY DEF TypeOK, KernelTypeOK, UpdatePhase

-----------------------------------------------------------------------------
\* The variables start in their types.
LEMMA TypeInit == Init => TypeOK
<1> SUFFICES ASSUME Init PROVE TypeOK
  OBVIOUS
<1>1. KernelTypeOK
  BY DEF Init, KernelInit, KernelTypeOK, ProcState, Report, ProfilerPC
<1>2. /\ m_status \in ProfileStatus /\ profStatus \in ProfileStatus
      /\ m_pstatus \in [ProfileStatus -> SUBSET Plan]
  BY DEF Init, ProfileStatus
<1>3. /\ m_st \in [Plan -> ChildStatus]
      /\ m_phaseno \in [Plan -> Nat] /\ m_samples \in [Plan -> Nat]
  BY DEF Init, NewConfig, ChildStatus
<1>4. m_pidmap \in SUBSET Plan /\ m_result \in SUBSET (PerfPlans \X Nat)
  BY DEF Init
<1>5. err \in -6 .. 0
  BY DEF Init
<1> QED
  BY <1>1, <1>2, <1>3, <1>4, <1>5 DEF TypeOK

\* Every step leaves them there.
LEMMA TypeStep == TypeOK /\ [Next]_vars => TypeOK'
<1> SUFFICES ASSUME TypeOK, [Next]_vars PROVE TypeOK'
  OBVIOUS
<1> USE DEF TypeOK, KernelTypeOK, ProcState, Report, ProfilerPC,
           ProfileStatus, ChildStatus
<1>1. CASE Start
  BY <1>1 DEF Start, kernelVars
<1>2. ASSUME NEW p \in Plan, BuildRunningConfig(p) PROVE TypeOK'
  BY <1>2 DEF BuildRunningConfig
<1>3. ASSUME NEW p \in Plan, BuildFails(p) PROVE TypeOK'
  <2>1. CASE KillUnrecorded(p)
    BY <1>3, <2>1 DEF BuildFails, KillUnrecorded, Notify
  <2>2. CASE UNCHANGED <<proc, report, sigs>>
    BY <1>3, <2>2 DEF BuildFails
  <2> QED
    BY <1>3, <2>1, <2>2 DEF BuildFails
<1>4. CASE ReadSIGINT
  BY <1>4 DEF ReadSIGINT
<1>5. CASE ReadSIGCHLD
  BY <1>5 DEF ReadSIGCHLD
<1>6. CASE PollFails
  BY <1>6 DEF PollFails, kernelVars
<1>7. CASE LeaveLoop
  BY <1>7 DEF LeaveLoop, kernelVars, WithResult, PerfPlans
<1>8. ASSUME NEW p \in Plan, HandleExited(p) PROVE TypeOK'
  BY <1>8
     DEF HandleExited, GotoDONE, Waited, Consume, Abort, Sampled, UpdatePhase
<1>9. ASSUME NEW p \in Plan, HandleSignaled(p) PROVE TypeOK'
  BY <1>9 DEF HandleSignaled, Waited, Consume, Abort
<1>10. ASSUME NEW p \in Plan, HandleTrap(p) PROVE TypeOK'
  BY <1>10
     DEF HandleTrap, Waited, Consume, Abort, SeenStopped, GotoPROFILE,
         GotoINIT, Wakeup, Wakeups, SetUpPROFILE, SetUpINIT, NextChild,
         Resumed, PerfPlans
<1>11. ASSUME NEW p \in Plan, HandleUnexpected(p) PROVE TypeOK'
  BY <1>11 DEF HandleUnexpected, Waited, Consume, Abort, SeenStopped
<1>12. ASSUME NEW p \in Plan, HandleInitOverflow(p) PROVE TypeOK'
  BY <1>12
     DEF HandleInitOverflow, InitOverflow, Waited, Consume, Abort,
         SeenStopped, GotoPROFILE, UpdatePhase, Wakeup, Wakeups, SetUpPROFILE,
         NextChild, ReturnFalse, Resumed, PerfPlans
<1>13. ASSUME NEW p \in Plan, HandleDeliver(p) PROVE TypeOK'
  <2> USE <1>13 DEF HandleDeliver, NextChild, SeenStopped
  <2>1. CASE /\ Consume(p) /\ Wakeup(SeenStopped(p), {p})
             /\ NextChild /\ UNCHANGED sigs
    BY <2>1 DEF Consume, Wakeup, Resumed
  <2>2. CASE /\ Notify(p, "zombie", "signaled")
             /\ m_st' = [m_st EXCEPT ![p] = "RUN"]
             /\ NextChild
    BY <2>2 DEF Notify
  <2>3. CASE /\ Consume(p) /\ m_st' = SeenStopped(p)
             /\ ReturnFalse /\ UNCHANGED <<proc, sigs>>
    BY <2>3 DEF Consume, ReturnFalse
  <2> QED
    BY <2>1, <2>2, <2>3
<1>14. ASSUME NEW p \in Plan, HandleProfileOverflow(p) PROVE TypeOK'
  BY <1>14
     DEF HandleProfileOverflow, Barrier, Waited, Consume, Abort, SeenStopped,
         GotoDONE, UpdatePhase, Wakeup, Wakeups, NextChild, ReturnFalse,
         Resumed, PerfPlans, PhasePlans, Sampled, Cleared, Ended,
         PartCollected
<1>15. CASE EndWait
  BY <1>15 DEF EndWait, kernelVars, profilerVars
<1>16. CASE KillAll
  BY <1>16 DEF KillAll, Targets
<1>17. ASSUME NEW p \in Plan, Reap(p) PROVE TypeOK'
  BY <1>17 DEF Reap, Consume, profilerVars
<1>18. CASE ReapDone
  BY <1>18 DEF ReapDone, kernelVars, profilerVars
<1>19. CASE KernelNext /\ UNCHANGED profilerVars
  <2>1. CASE Interrupt
    BY <1>19, <2>1 DEF Interrupt, profilerVars
  <2>2. ASSUME NEW p \in Plan, Overflow(p) PROVE TypeOK'
    BY <1>19, <2>2 DEF Overflow, profilerVars
  <2>3. ASSUME NEW p \in Plan, TakeOverflowSig(p) PROVE TypeOK'
    BY <1>19, <2>3 DEF TakeOverflowSig, Notify, profilerVars
  <2>4. ASSUME NEW p \in Plan, NEW s \in ProcState, NEW r \in Report,
               Notify(p, s, r),
               UNCHANGED <<pend, owner, enabled, ring, overflows, sigq, pc>>
        PROVE  TypeOK'
    BY <1>19, <2>4 DEF Notify, profilerVars
  <2> QED
    BY <1>19, <2>1, <2>2, <2>3, <2>4
       DEF KernelNext, ChildStep, ExecTrap, StartFails, TakeOtherSig,
           ExecAgain, Exit, KilledOutside
<1>20. CASE UNCHANGED vars
  BY <1>20 DEF vars, kernelVars, profilerVars
<1> QED
  BY <1>1, <1>2, <1>3, <1>4, <1>5, <1>6, <1>7, <1>8, <1>9, <1>10, <1>11,
     <1>12, <1>13, <1>14, <1>15, <1>16, <1>17, <1>18, <1>19, <1>20
     DEF Next, ProfilerStep, HandleChild, Finished

(***************************************************************************)
(* In every behaviour every variable is in its type: in particular profile *)
(* returns one of its documented results, and m_result is a set of samples *)
(* of perf plans.                                                          *)
(***************************************************************************)
THEOREM TypeCorrect == Spec => []TypeOK
BY TypeInit, TypeStep, PTL DEF Spec

-----------------------------------------------------------------------------
\* A SIGTRAP in READY: the gates hold what they say in the stage that follows.
LEMMA GateAtTrap ==
  ASSUME IInv, NEW p \in Plan, HandleTrap(p)
  PROVE  GateInv'
<1> DEFINE st == SeenStopped(p)
           ready == m_pstatus["READY"] \union {p}
           init == m_pstatus["INIT"] \union
                     (IF p \notin PhasePlans \/ PhaseBegin[p] = 0
                      THEN {p} ELSE {})
<1> USE FullIsAll, PlanSets
       DEF TypeOK, KernelTypeOK, IInv, InLoop, Live, LoopInv
<1>1. /\ m_status = "READY" /\ m_pidmap = Plan
      /\ ready \in SUBSET Plan /\ init \in SUBSET Plan
      /\ m_pstatus' = [m_pstatus EXCEPT !["READY"] = ready, !["INIT"] = init]
      /\ m_phaseno' = m_phaseno
  BY DEF HandleTrap, Waited, ProfileStatus
<1>2. /\ m_pstatus'["READY"] = ready /\ m_pstatus'["INIT"] = init
      /\ m_pstatus'["PROFILE"] = {} /\ m_pstatus'["DONE"] = {}
  BY <1>1 DEF GateInv, HandleTrap, Waited, ProfileStatus
<1>3. \A q \in ready : /\ st[q] = "STOP"
                       /\ q \in init <=> \/ q \notin PhasePlans
                                        \/ PhaseBegin[q] = 0
  BY <1>1 DEF GateInv, HandleTrap, Waited, SeenStopped
<1>4. init \subseteq ready
  BY <1>1 DEF GateInv, HandleTrap, Waited
<1>5. CASE Full(ready) /\ Full(init) /\ GotoPROFILE(st)
  <2>1. ready = Plan /\ init = Plan
    BY <1>1, <1>5
  <2>2. \A q \in PhasePlans : m_phaseno'[q] >= PhaseBegin[q]
    BY <1>1, <1>3, <2>1, PlanAssumption
  <2>3. m_status' \in {"PROFILE", "ABORT"}
    BY <1>5 DEF GotoPROFILE, Abort
  <2> QED
    BY <1>1, <1>2, <2>1, <2>2, <2>3 DEF GateInv
<1>6. CASE Full(ready) /\ ~Full(init) /\ GotoINIT(st, ready, init)
  <2>1. ready = Plan /\ init # Plan
    BY <1>1, <1>6
  <2>2. CASE m_status' = "INIT"
    <3>1. m_st' = [q \in Plan |-> IF q \in ready \ init THEN "RUN" ELSE st[q]]
      BY <1>6, <2>2 DEF GotoINIT, Wakeup, Abort
    <3>2. \A q \in init : m_st'[q] = "STOP"
      BY <1>1, <1>3, <2>1, <3>1
    <3>3. \A q \in init : q \in PhasePlans => m_phaseno'[q] >= PhaseBegin[q]
      BY <1>1, <1>3, <2>1, PlanAssumption
    <3>4. Plan \ PhasePlans \subseteq init
      BY <1>3, <2>1
    <3> QED
      BY <1>1, <1>2, <2>1, <2>2, <3>2, <3>3, <3>4 DEF GateInv
  <2>3. CASE m_status' = "ABORT"
    BY <1>2, <2>3 DEF GateInv
  <2> QED
    BY <1>6, <2>2, <2>3 DEF GotoINIT, Abort
<1>7. CASE ~Full(ready) /\ m_st' = st /\ NextChild
  <2>1. ready # Plan /\ m_status' = "READY"
    BY <1>1, <1>7 DEF NextChild
  <2> QED
    BY <1>1, <1>2, <1>3, <1>4, <1>7, <2>1 DEF GateInv
<1> QED
  BY <1>5, <1>6, <1>7 DEF HandleTrap

\* An overflow in INIT: a child is held exactly when its phase has begun.
LEMMA GateAtInit ==
  ASSUME IInv, NEW p \in Plan, HandleInitOverflow(p)
  PROVE  GateInv'
<1> DEFINE st == SeenStopped(p)
           init == m_pstatus["INIT"] \union {p}
<1> USE FullIsAll, PlanSets
       DEF TypeOK, KernelTypeOK, IInv, InLoop, Live, LoopInv
<1>1. /\ m_status = "INIT" /\ m_pidmap = Plan /\ p \in PhasePlans
      /\ init \in SUBSET Plan
      /\ m_pstatus["READY"] = Plan /\ m_pstatus["INIT"] # Plan
      /\ m_pstatus["PROFILE"] = {} /\ m_pstatus["DONE"] = {}
      /\ Plan \ PhasePlans \subseteq m_pstatus["INIT"]
      /\ \A q \in m_pstatus["INIT"] :
           /\ m_st[q] = "STOP"
           /\ q \in PhasePlans => m_phaseno[q] >= PhaseBegin[q]
  BY DEF HandleInitOverflow, Waited, ProfileStatus, GateInv
<1>2. CASE m_status' = "ABORT"
  BY <1>2 DEF GateInv, HandleInitOverflow, InitOverflow, ProfileStatus
<1>3. CASE Reached(p) /\ UpdatePhase({p})
         /\ m_pstatus' = [m_pstatus EXCEPT !["INIT"] = init]
  <2>1. \A q \in init : q \in PhasePlans => m_phaseno'[q] >= PhaseBegin[q]
    <3>1. m_phaseno'[p] >= PhaseBegin[p]
      BY <1>3 DEF UpdatePhase, Reached
    <3>2. \A q \in m_pstatus["INIT"] : q # p => m_phaseno'[q] = m_phaseno[q]
      BY <1>1, <1>3 DEF UpdatePhase
    <3> QED
      BY <1>1, <3>1, <3>2
  <2>2. /\ m_pstatus'["READY"] = Plan /\ m_pstatus'["INIT"] = init
        /\ m_pstatus'["PROFILE"] = {} /\ m_pstatus'["DONE"] = {}
    BY <1>1, <1>3 DEF ProfileStatus
  <2>3. CASE Full(init) /\ GotoPROFILE(st)
    <3>1. init = Plan
      BY <1>1, <2>3
    <3>2. m_status' \in {"PROFILE", "ABORT"}
      BY <2>3 DEF GotoPROFILE, Abort
    <3> QED
      BY <1>1, <2>1, <2>2, <3>1, <3>2 DEF GateInv
  <2>4. CASE ~Full(init) /\ m_st' = st /\ NextChild
    <3>1. init # Plan /\ m_status' = "INIT"
      BY <1>1, <2>4 DEF NextChild
    <3>2. \A q \in init : m_st'[q] = "STOP"
      BY <1>1, <2>4 DEF SeenStopped
    <3> QED
      BY <1>1, <2>1, <2>2, <3>1, <3>2 DEF GateInv
  <2> QED
    BY <1>2, <1>3, <2>3, <2>4 DEF HandleInitOverflow, InitOverflow, Abort
<1>4. CASE ~Reached(p) /\ UpdatePhase({p}) /\ m_pstatus' = m_pstatus
           /\ \E W \in Wakeups({p}) : Wakeup(st, W) /\ NextChild
  <2>1. p \notin m_pstatus["INIT"]
    BY <1>1, <1>4, PlanAssumption
       DEF Reached, HandleInitOverflow, Waited, ViewMatchesKernel
  <2>2. \A q \in m_pstatus["INIT"] : m_phaseno'[q] = m_phaseno[q]
    BY <1>1, <1>4, <2>1 DEF UpdatePhase
  <2>3. \A q \in m_pstatus["INIT"] : m_st'[q] = "STOP"
    BY <1>1, <1>4, <2>1 DEF Wakeups, Wakeup, SeenStopped
  <2> QED
    BY <1>1, <1>4, <2>1, <2>2, <2>3 DEF GateInv, NextChild
<1> QED
  BY <1>2, <1>3, <1>4 DEF HandleInitOverflow, InitOverflow, ReturnFalse, Abort

\* An exit: the gate of INIT stays full, and phases do not go back.
LEMMA GateAtExit ==
  ASSUME IInv, NEW p \in Plan, HandleExited(p)
  PROVE  GateInv'
<1> USE PlanSets DEF TypeOK, KernelTypeOK, IInv
<1>1. m_pstatus' = m_pstatus /\ pc' = "poll" /\ m_status' \in {"DONE", "ABORT"}
  BY DEF HandleExited, GotoDONE, Abort
<1>2. CASE m_status' = "ABORT"
  BY <1>1, <1>2 DEF GateInv, Live
<1>3. CASE m_status' = "DONE"
  <2>1. m_status = "PROFILE" /\ InLoop /\ UpdatePhase(SamplePlans)
    BY <1>3 DEF HandleExited, GotoDONE, Abort, Waited, InLoop, LoopInv
  <2>2. \A q \in PhasePlans : m_phaseno'[q] >= PhaseBegin[q]
    BY <2>1, PhaseGrows, PlanAssumption DEF GateInv
  <2> QED
    BY <1>1, <1>3, <2>1, <2>2 DEF GateInv, Live
<1> QED
  BY <1>1, <1>2, <1>3

\* An overflow in PROFILE: the barrier fills up, or has been emptied.
LEMMA GateAtProfile ==
  ASSUME IInv, NEW p \in Plan, HandleProfileOverflow(p)
  PROVE  GateInv'
<1> DEFINE st == SeenStopped(p)
           all == m_pstatus["PROFILE"] \union {p}
<1> USE FullIsAll, PlanSets DEF TypeOK, KernelTypeOK, IInv, InLoop, LoopInv
<1>1. /\ m_status = "PROFILE" /\ m_pidmap = Plan /\ all \in SUBSET Plan
      /\ m_pstatus["INIT"] = Plan /\ m_pstatus["DONE"] = {}
      /\ \A q \in m_pstatus["PROFILE"] : m_st[q] = "STOP"
      /\ \A q \in PhasePlans : m_phaseno[q] >= PhaseBegin[q]
  BY DEF HandleProfileOverflow, Waited, GateInv, Live, ProfileStatus
<1>2. CASE m_status' = "ABORT"
  BY <1>2 DEF GateInv, Live
<1>3. CASE Full(all) /\ Barrier(st) /\ m_status' # "ABORT"
  <2>1. UpdatePhase(SamplePlans)
    BY <1>3 DEF Barrier, GotoDONE, Abort
  <2>2. \A q \in PhasePlans : m_phaseno'[q] >= PhaseBegin[q]
    BY <1>1, <2>1, PhaseGrows, PlanAssumption
  <2>3. /\ m_pstatus'["INIT"] = Plan /\ m_pstatus'["PROFILE"] = {}
        /\ m_status' = "PROFILE" => m_pstatus'["DONE"] = {}
        /\ m_status' \in {"PROFILE", "DONE"}
    BY <1>1, <1>3
       DEF Barrier, GotoDONE, Abort, Cleared, NextChild, ReturnFalse,
           ProfileStatus
  <2> QED
    BY <2>2, <2>3, PlanAssumption DEF GateInv, Live
<1>4. CASE /\ ~Full(all) /\ NextChild
           /\ m_pstatus' = [m_pstatus EXCEPT !["PROFILE"] = all]
           /\ m_st' = st /\ m_phaseno' = m_phaseno
  <2>1. all # Plan /\ m_status' = "PROFILE"
    BY <1>1, <1>4 DEF NextChild
  <2>2. /\ m_pstatus'["INIT"] = Plan /\ m_pstatus'["DONE"] = {}
        /\ m_pstatus'["PROFILE"] = all
    BY <1>1, <1>4 DEF ProfileStatus
  <2>3. \A q \in all : m_st'[q] = "STOP"
    BY <1>1, <1>4 DEF SeenStopped
  <2> QED
    BY <1>1, <1>4, <2>1, <2>2, <2>3 DEF GateInv, Live
<1> QED
  BY <1>2, <1>3, <1>4 DEF HandleProfileOverflow

\* DONE at an exit: the last row is taken, and a child is DEAD.
LEMMA DoneAtExit ==
  ASSUME IInv, NEW p \in Plan, HandleExited(p)
  PROVE  DoneInv'
<1> SUFFICES ASSUME m_status' = "DONE" PROVE DoneInv'
  BY DEF DoneInv
<1> USE PlanSets DEF TypeOK, KernelTypeOK, IInv, InLoop, LoopInv
<1>1. /\ enabled' = enabled \ PerfPlans
      /\ m_samples' = Sampled(m_samples, PerfPlans)
      /\ pc' = "poll" /\ err' = err
  BY DEF HandleExited, GotoDONE, Abort
<1>2. err = 0 /\ m_st'[p] = "DEAD"
  BY DEF HandleExited, Waited, Live
<1>3. \A q \in PerfPlans : m_samples'[q] > 0
  BY <1>1 DEF Sampled
<1> QED
  BY <1>1, <1>2, <1>3 DEF DoneInv, EventInv

\* DONE at the barrier: the last row is taken, and a phase has ended.
LEMMA DoneAtBarrier ==
  ASSUME IInv, NEW p \in Plan, HandleProfileOverflow(p)
  PROVE  DoneInv'
<1> SUFFICES ASSUME m_status' = "DONE" PROVE DoneInv'
  BY DEF DoneInv
<1> DEFINE st == SeenStopped(p)
           once == Sampled(m_samples, PerfPlans)
           done == m_pstatus["DONE"] \union Ended
<1> USE PlanSets DEF TypeOK, KernelTypeOK, IInv, InLoop, Live, LoopInv
<1>1. m_status = "PROFILE" /\ m_pstatus["DONE"] = {} /\ err = 0
  BY DEF HandleProfileOverflow, Waited, GateInv
<1>2. Barrier(st)
  BY <1>1 DEF HandleProfileOverflow, NextChild
<1>3. done # {} /\ GotoDONE(once, SamplePlans)
  BY <1>1, <1>2 DEF Barrier, NextChild, ReturnFalse, Abort
<1>4. /\ enabled' = enabled \ PerfPlans
      /\ m_samples' = Sampled(once, PerfPlans)
      /\ UpdatePhase(SamplePlans)
      /\ pc' = "poll" /\ err' = err
  BY <1>3 DEF GotoDONE, Abort
<1>5. \A q \in PerfPlans : m_samples'[q] > 0
  BY <1>4 DEF Sampled
<1>6. PICK q \in PhasePlans : m_phaseno[q] + ring[q] >= PhaseEnd[q]
  BY <1>1, <1>3 DEF Ended
<1>7. m_phaseno'[q] >= PhaseEnd[q]
  BY <1>4, <1>6 DEF UpdatePhase
<1> QED
  BY <1>1, <1>4, <1>5, <1>6, <1>7 DEF DoneInv, EventInv

\* What leaves the loop: the samples of the perf plans, all of one length.
LEMMA EndAtLeave ==
  ASSUME IInv, LeaveLoop
  PROVE  EndInv'
<1> USE PlanSets DEF TypeOK, KernelTypeOK, IInv, InLoop
<1>1. m_pidmap = Plan /\ WithResult = PerfPlans
  BY DEF LeaveLoop, WithResult, LoopInv
<1>2. /\ pc' = "kill" /\ ~Live' /\ m_status' = m_status
      /\ m_pidmap' = Plan /\ m_st' = m_st /\ proc' = proc
  BY <1>1 DEF LeaveLoop, kernelVars, Live
<1>3. m_result' = {<<q, m_samples[q]>> : q \in PerfPlans}
  BY <1>1 DEF LeaveLoop
<1>4. \A p \in Plan : /\ proc'[p] # "none"
                      /\ m_st'[p] = "DEAD" <=> proc'[p] = "reaped"
  BY <1>2 DEF LeaveLoop, LoopInv, ViewMatchesKernel
<1>5. m_status' = "DONE" => WholeRows'
  <2> SUFFICES ASSUME m_status' = "DONE" PROVE WholeRows'
    OBVIOUS
  <2>1. /\ \A p \in PerfPlans : m_samples[p] > 0
        /\ \A p, q \in PerfPlans : m_samples[p] = m_samples[q]
    BY <1>2 DEF DoneInv, SamplesAligned, LeaveLoop
  <2>2. \A r \in m_result' : \E q \in PerfPlans : r = <<q, m_samples[q]>>
    BY <1>3
  <2>3. \A q \in PerfPlans : <<q, m_samples[q]>> \in m_result'
    BY <1>3
  <2>4. {r[1] : r \in m_result'} \subseteq PerfPlans
    BY <2>2
  <2>5. ASSUME NEW q \in PerfPlans PROVE q \in {r[1] : r \in m_result'}
    <3>1. <<q, m_samples[q]>>[1] = q
      OBVIOUS
    <3> QED
      BY <2>3, <3>1
  <2> QED
    BY <2>1, <2>2, <2>4, <2>5 DEF WholeRows
<1> QED
  BY <1>2, <1>4, <1>5 DEF EndInv, Alive

-----------------------------------------------------------------------------
\* A wait status goes with the state of its child.
LEMMA ReportInvStep ==
  ASSUME IInv, [Next]_vars
  PROVE  ReportInv'
<1>1. CASE Start \/ ReadSIGINT \/ ReadSIGCHLD \/ PollFails
  BY <1>1
     DEF ReportInv, Start, kernelVars, ReadSIGINT, ReadSIGCHLD, PollFails,
         IInv
<1>2. ASSUME NEW p \in Plan, BuildRunningConfig(p) PROVE ReportInv'
  BY <1>2 DEF ReportInv, StartInv, BuildRunningConfig, IInv
<1>3. ASSUME NEW p \in Plan, BuildFails(p) PROVE ReportInv'
  BY <1>3
     DEF TypeOK, KernelTypeOK, ReportInv, BuildFails, KillUnrecorded, Notify,
         IInv
<1>4. CASE LeaveLoop \/ EndWait \/ ReapDone
  BY <1>4 DEF ReportInv, LeaveLoop, kernelVars, EndWait, ReapDone, IInv
<1>5. ASSUME NEW p \in Plan, HandleExited(p) PROVE ReportInv'
  BY <1>5 DEF TypeOK, KernelTypeOK, ReportInv, HandleExited, Consume, IInv
<1>6. ASSUME NEW p \in Plan, HandleSignaled(p) PROVE ReportInv'
  BY <1>6 DEF TypeOK, KernelTypeOK, ReportInv, HandleSignaled, Consume, IInv
<1>7. ASSUME NEW p \in Plan, HandleTrap(p) PROVE ReportInv'
  BY <1>7
     DEF InLoop, TypeOK, KernelTypeOK, ReportInv, LoopInv, ViewMatchesKernel,
         GateInv, HandleTrap, Waited, Consume, SeenStopped, GotoPROFILE,
         GotoINIT, Wakeup, Wakeups, Stopped, StoppedView, Resumed, IInv
<1>8. ASSUME NEW p \in Plan, HandleUnexpected(p) PROVE ReportInv'
  BY <1>8 DEF ReportInv, HandleUnexpected, Waited, Consume, IInv
<1>9. ASSUME NEW p \in Plan, HandleInitOverflow(p) PROVE ReportInv'
  BY <1>9
     DEF InLoop, TypeOK, KernelTypeOK, ReportInv, ViewMatchesKernel,
         HandleInitOverflow, InitOverflow, Waited, Consume, SeenStopped,
         GotoPROFILE, Wakeup, Wakeups, Stopped, StoppedView, Resumed, IInv
<1>10. ASSUME NEW p \in Plan, HandleDeliver(p) PROVE ReportInv'
  BY <1>10
     DEF TypeOK, KernelTypeOK, ReportInv, HandleDeliver, Waited, Consume,
         Wakeup, Notify, Resumed, IInv
<1>11. ASSUME NEW p \in Plan, HandleProfileOverflow(p) PROVE ReportInv'
  BY <1>11
     DEF InLoop, TypeOK, KernelTypeOK, ReportInv, ViewMatchesKernel,
         HandleProfileOverflow, Barrier, Waited, Consume, SeenStopped, Wakeup,
         Wakeups, Stopped, StoppedView, Resumed, IInv
<1>12. CASE KillAll
  BY <1>12
     DEF ProcState, TypeOK, KernelTypeOK, ReportInv, EndInv, Alive, KillAll,
         Targets, IInv
<1>13. ASSUME NEW p \in Plan, Reap(p) PROVE ReportInv'
  BY <1>13 DEF TypeOK, KernelTypeOK, ReportInv, Reap, Consume, IInv
<1>14. CASE KernelNext /\ UNCHANGED profilerVars
  BY <1>14
     DEF TypeOK, KernelTypeOK, ReportInv, KernelNext, ChildStep, Interrupt,
         ExecTrap, StartFails, Overflow, TakeOverflowSig, TakeOtherSig,
         ExecAgain, Exit, KilledOutside, Notify, IInv
<1>15. CASE UNCHANGED vars
  BY <1>15 DEF ReportInv, vars, kernelVars, IInv
<1> QED
  BY <1>1, <1>2, <1>3, <1>4, <1>5, <1>6, <1>7, <1>8, <1>9, <1>10, <1>11,
     <1>12, <1>13, <1>14, <1>15
     DEF Next, ProfilerStep, HandleChild, Finished

\* Up to the loop, what has been started is what is in m_pidmap.
LEMMA StartInvStep ==
  ASSUME IInv, [Next]_vars
  PROVE  StartInv'
<1>1. CASE Start
  BY <1>1 DEF StartInv, NewConfig, Start, kernelVars, IInv
<1>2. ASSUME NEW p \in Plan, BuildRunningConfig(p) PROVE StartInv'
  BY <1>2
     DEF TypeOK, KernelTypeOK, StartInv, NewConfig, BuildRunningConfig, IInv
<1>3. ASSUME NEW p \in Plan, BuildFails(p) \/ HandleSignaled(p)
               \/ HandleUnexpected(p) \/ Reap(p)
      PROVE  StartInv'
  BY <1>3
     DEF StartInv, BuildFails, HandleSignaled, Abort, HandleUnexpected, Reap
<1>4. CASE ReadSIGINT \/ ReadSIGCHLD \/ PollFails \/ LeaveLoop
  BY <1>4 DEF StartInv, ReadSIGINT, ReadSIGCHLD, PollFails, LeaveLoop
<1>5. ASSUME NEW p \in Plan, HandleExited(p) PROVE StartInv'
  BY <1>5 DEF StartInv, HandleExited, GotoDONE, Abort
<1>6. ASSUME NEW p \in Plan, HandleTrap(p) PROVE StartInv'
  BY <1>6
     DEF StartInv, HandleTrap, Waited, Abort, GotoPROFILE, GotoINIT, NextChild
<1>7. ASSUME NEW p \in Plan, HandleInitOverflow(p) PROVE StartInv'
  BY <1>7
     DEF StartInv, HandleInitOverflow, InitOverflow, Waited, Abort,
         GotoPROFILE, NextChild, ReturnFalse
<1>8. ASSUME NEW p \in Plan, HandleDeliver(p) PROVE StartInv'
  BY <1>8 DEF StartInv, HandleDeliver, Waited, ReturnFalse, NextChild
<1>9. ASSUME NEW p \in Plan, HandleProfileOverflow(p) PROVE StartInv'
  BY <1>9
     DEF StartInv, HandleProfileOverflow, Barrier, Waited, Abort, GotoDONE,
         Wakeups, Stopped, NextChild, ReturnFalse
<1>10. CASE EndWait \/ KillAll \/ ReapDone
  BY <1>10 DEF StartInv, EndWait, KillAll, ReapDone
<1>11. CASE KernelNext /\ UNCHANGED profilerVars
  BY <1>11
     DEF TypeOK, KernelTypeOK, StartInv, NewConfig, KernelNext, ChildStep,
         Interrupt, ExecTrap, StartFails, Overflow, TakeOverflowSig,
         TakeOtherSig, ExecAgain, Exit, KilledOutside, Notify, profilerVars,
         Alive, IInv
<1>12. CASE UNCHANGED vars
  BY <1>12 DEF StartInv, NewConfig, vars, kernelVars, profilerVars, IInv
<1> QED
  BY <1>1, <1>2, <1>3, <1>4, <1>5, <1>6, <1>7, <1>8, <1>9, <1>10, <1>11, <1>12
     DEF Next, ProfilerStep, HandleChild, Finished

\* In the loop every plan has its configuration and no error has occurred.
LEMMA LoopInvStep ==
  ASSUME IInv, [Next]_vars
  PROVE  LoopInv'
<1>1. CASE Start \/ ReadSIGINT \/ LeaveLoop \/ KillAll
  BY <1>1 DEF InLoop, LoopInv, Start, ReadSIGINT, LeaveLoop, KillAll, IInv
<1>2. ASSUME NEW p \in Plan, BuildRunningConfig(p) PROVE LoopInv'
  BY <1>2
     DEF InLoop, TypeOK, KernelTypeOK, StartInv, LoopInv, BuildRunningConfig,
         IInv
<1>3. ASSUME NEW p \in Plan, BuildFails(p) \/ Reap(p) PROVE LoopInv'
  BY <1>3 DEF InLoop, LoopInv, BuildFails, Reap
<1>4. CASE ReadSIGCHLD
  BY <1>4 DEF InLoop, Live, LoopInv, ReadSIGCHLD, IInv
<1>5. CASE PollFails
  BY <1>5 DEF InLoop, LoopInv, PollFails, kernelVars, IInv
<1>6. ASSUME NEW p \in Plan, HandleExited(p) PROVE LoopInv'
  BY <1>6 DEF InLoop, LoopInv, HandleExited, GotoDONE, Waited, Abort, IInv
<1>7. ASSUME NEW p \in Plan, HandleSignaled(p) PROVE LoopInv'
  BY <1>7 DEF InLoop, LoopInv, HandleSignaled, Waited, Abort, IInv
<1>8. ASSUME NEW p \in Plan, HandleTrap(p) PROVE LoopInv'
  BY <1>8
     DEF InLoop, Live, LoopInv, HandleTrap, Waited, Abort, GotoPROFILE,
         GotoINIT, Wakeup, NextChild, Resumed, IInv
<1>9. ASSUME NEW p \in Plan, HandleUnexpected(p) PROVE LoopInv'
  BY <1>9 DEF InLoop, LoopInv, HandleUnexpected, Waited, Abort, IInv
<1>10. ASSUME NEW p \in Plan, HandleInitOverflow(p) PROVE LoopInv'
  BY <1>10
     DEF InLoop, Live, LoopInv, HandleInitOverflow, InitOverflow, Waited,
         Abort, GotoPROFILE, Wakeup, NextChild, ReturnFalse, Resumed, IInv
<1>11. ASSUME NEW p \in Plan, HandleDeliver(p) PROVE LoopInv'
  BY <1>11
     DEF InLoop, Live, TypeOK, KernelTypeOK, LoopInv, HandleDeliver, Waited,
         ReturnFalse, Wakeup, Notify, NextChild, Resumed, IInv
<1>12. ASSUME NEW p \in Plan, HandleProfileOverflow(p) PROVE LoopInv'
  BY <1>12
     DEF InLoop, Live, LoopInv, HandleProfileOverflow, Barrier, Waited, Abort,
         GotoDONE, Wakeup, Wakeups, Stopped, NextChild, ReturnFalse, Resumed,
         IInv
<1>13. CASE EndWait
  BY <1>13 DEF InLoop, LoopInv, EndWait, kernelVars, profilerVars, IInv
<1>14. CASE ReapDone
  BY <1>14 DEF InLoop, LoopInv, ReapDone
<1>15. CASE KernelNext /\ UNCHANGED profilerVars
  BY <1>15
     DEF InLoop, Live, TypeOK, KernelTypeOK, LoopInv, KernelNext, ChildStep,
         Interrupt, ExecTrap, StartFails, Overflow, TakeOverflowSig,
         TakeOtherSig, ExecAgain, Exit, KilledOutside, Notify, profilerVars,
         IInv
<1>16. CASE UNCHANGED vars
  BY <1>16 DEF InLoop, Live, LoopInv, vars, kernelVars, profilerVars, IInv
<1> QED
  BY <1>1, <1>2, <1>3, <1>4, <1>5, <1>6, <1>7, <1>8, <1>9, <1>10, <1>11,
     <1>12, <1>13, <1>14, <1>15, <1>16
     DEF Next, ProfilerStep, HandleChild, Finished

\* Nobody enables the event of a plan that has none.
LEMMA EventInvStep ==
  ASSUME IInv, [Next]_vars
  PROVE  EventInv'
<1> USE PlanSets DEF EventInv, IInv
<1>1. ASSUME NEW p \in Plan, HandleTrap(p) PROVE EventInv'
  <2> DEFINE ready == m_pstatus["READY"] \union {p}
             init == m_pstatus["INIT"] \union
                       (IF p \notin PhasePlans \/ PhaseBegin[p] = 0
                        THEN {p} ELSE {})
  <2>1. ready \ init \subseteq PerfPlans
    BY <1>1
       DEF HandleTrap, Waited, LoopInv, InLoop, GateInv, TypeOK, ProfileStatus
  <2> QED
    BY <1>1, <2>1
       DEF HandleTrap, GotoPROFILE, GotoINIT, SetUpPROFILE, SetUpINIT
<1>2. ASSUME NEW p \in Plan, HandleInitOverflow(p) PROVE EventInv'
  BY <1>2 DEF HandleInitOverflow, InitOverflow, GotoPROFILE, SetUpPROFILE
<1>3. ASSUME NEW p \in Plan, HandleExited(p) \/ HandleProfileOverflow(p)
      PROVE  EventInv'
  BY <1>3 DEF HandleExited, HandleProfileOverflow, Barrier, GotoDONE
<1>4. ASSUME UNCHANGED enabled PROVE EventInv'
  BY <1>4
<1>5. ASSUME NEW p \in Plan,
             \/ BuildRunningConfig(p) \/ BuildFails(p) \/ HandleSignaled(p)
             \/ HandleUnexpected(p) \/ HandleDeliver(p) \/ Reap(p)
      PROVE  UNCHANGED enabled
  BY <1>5
     DEF BuildRunningConfig, BuildFails, HandleSignaled, HandleUnexpected,
         HandleDeliver, Reap
<1>6. CASE \/ Start \/ ReadSIGINT \/ ReadSIGCHLD \/ PollFails \/ LeaveLoop
           \/ EndWait \/ KillAll \/ ReapDone
  BY <1>4, <1>6
     DEF Start, ReadSIGINT, ReadSIGCHLD, PollFails, LeaveLoop, EndWait,
         KillAll, ReapDone, kernelVars
<1>7. CASE KernelNext
  BY <1>4, <1>7
     DEF KernelNext, ChildStep, Interrupt, ExecTrap, StartFails, Overflow,
         TakeOverflowSig, TakeOtherSig, ExecAgain, Exit, KilledOutside
<1>8. CASE UNCHANGED vars
  BY <1>4, <1>8 DEF vars, kernelVars
<1> QED
  BY <1>1, <1>2, <1>3, <1>4, <1>5, <1>6, <1>7, <1>8
     DEF Next, ProfilerStep, HandleChild, Finished

\* RunningConfig::m_status follows the process.
LEMMA ViewMatchesKernelStep ==
  ASSUME IInv, [Next]_vars
  PROVE  ViewMatchesKernel'
<1>1. CASE Start \/ ReadSIGINT \/ ReadSIGCHLD \/ LeaveLoop
  BY <1>1
     DEF InLoop, ViewMatchesKernel, Start, ReadSIGINT, ReadSIGCHLD, LeaveLoop,
         IInv
<1>2. ASSUME NEW p \in Plan, BuildRunningConfig(p) PROVE ViewMatchesKernel'
  BY <1>2
     DEF InLoop, ProcState, TypeOK, KernelTypeOK, ReportInv, StartInv,
         NewConfig, ViewMatchesKernel, BuildRunningConfig, IInv
<1>3. ASSUME NEW p \in Plan, BuildFails(p) \/ Reap(p) PROVE ViewMatchesKernel'
  BY <1>3 DEF InLoop, ViewMatchesKernel, BuildFails, Reap
<1>4. CASE PollFails
  BY <1>4 DEF InLoop, ViewMatchesKernel, PollFails, kernelVars, IInv
<1>5. ASSUME NEW p \in Plan, HandleExited(p) PROVE ViewMatchesKernel'
  BY <1>5
     DEF InLoop, TypeOK, KernelTypeOK, ViewMatchesKernel, HandleExited,
         Waited, Consume, IInv
<1>6. ASSUME NEW p \in Plan, HandleSignaled(p) PROVE ViewMatchesKernel'
  BY <1>6
     DEF InLoop, TypeOK, KernelTypeOK, ViewMatchesKernel, HandleSignaled,
         Waited, Consume, IInv
<1>7. ASSUME NEW p \in Plan, HandleTrap(p) PROVE ViewMatchesKernel'
  BY <1>7
     DEF InLoop, ProcState, TypeOK, KernelTypeOK, ReportInv,
         ViewMatchesKernel, HandleTrap, Waited, Consume, SeenStopped,
         GotoPROFILE, GotoINIT, Wakeup, Resumed, IInv
<1>8. ASSUME NEW p \in Plan, HandleUnexpected(p) PROVE ViewMatchesKernel'
  BY <1>8
     DEF InLoop, ProcState, TypeOK, KernelTypeOK, ReportInv,
         ViewMatchesKernel, HandleUnexpected, Waited, Consume, SeenStopped,
         IInv
<1>9. ASSUME NEW p \in Plan, HandleInitOverflow(p) PROVE ViewMatchesKernel'
  BY <1>9
     DEF InLoop, ProcState, TypeOK, KernelTypeOK, ReportInv,
         ViewMatchesKernel, HandleInitOverflow, InitOverflow, Waited, Consume,
         SeenStopped, GotoPROFILE, Wakeup, Resumed, IInv
<1>10. ASSUME NEW p \in Plan, HandleDeliver(p) PROVE ViewMatchesKernel'
  BY <1>10
     DEF InLoop, ProcState, TypeOK, KernelTypeOK, ReportInv,
         ViewMatchesKernel, HandleDeliver, Waited, Consume, SeenStopped,
         Wakeup, Notify, Resumed, IInv
<1>11. ASSUME NEW p \in Plan, HandleProfileOverflow(p) PROVE ViewMatchesKernel'
  BY <1>11
     DEF InLoop, ProcState, TypeOK, KernelTypeOK, ReportInv,
         ViewMatchesKernel, HandleProfileOverflow, Barrier, Waited, Consume,
         SeenStopped, Wakeup, Resumed, IInv
<1>12. CASE EndWait
  BY <1>12
     DEF InLoop, ViewMatchesKernel, EndWait, kernelVars, profilerVars, IInv
<1>13. CASE KillAll \/ ReapDone
  BY <1>13 DEF InLoop, ViewMatchesKernel, KillAll, ReapDone
<1>14. CASE KernelNext /\ UNCHANGED profilerVars
  BY <1>14
     DEF InLoop, TypeOK, KernelTypeOK, ViewMatchesKernel, KernelNext,
         ChildStep, Interrupt, ExecTrap, StartFails, Overflow,
         TakeOverflowSig, TakeOtherSig, ExecAgain, Exit, KilledOutside,
         Notify, profilerVars, Alive, IInv
<1>15. CASE UNCHANGED vars
  BY <1>15 DEF InLoop, ViewMatchesKernel, vars, kernelVars, profilerVars, IInv
<1> QED
  BY <1>1, <1>2, <1>3, <1>4, <1>5, <1>6, <1>7, <1>8, <1>9, <1>10, <1>11,
     <1>12, <1>13, <1>14, <1>15
     DEF Next, ProfilerStep, HandleChild, Finished

\* READY, INIT and the barrier hold the children that have reached them.
LEMMA GateInvStep ==
  ASSUME IInv, [Next]_vars
  PROVE  GateInv'
<1>1. CASE Start \/ ReadSIGINT \/ ReadSIGCHLD \/ PollFails
  BY <1>1
     DEF InLoop, GateInv, Start, Live, ReadSIGINT, ReadSIGCHLD, PollFails,
         IInv
<1>2. ASSUME NEW p \in Plan, BuildRunningConfig(p) PROVE GateInv'
  BY <1>2 DEF ProfileStatus, StartInv, GateInv, BuildRunningConfig, IInv
<1>3. ASSUME NEW p \in Plan, BuildFails(p) \/ Reap(p) PROVE GateInv'
  BY <1>3 DEF InLoop, GateInv, BuildFails, Reap
<1>4. CASE LeaveLoop \/ KillAll \/ ReapDone
  BY <1>4 DEF InLoop, GateInv, LeaveLoop, KillAll, ReapDone
<1>5. ASSUME NEW p \in Plan, HandleExited(p) PROVE GateInv'
  BY <1>5, GateAtExit
<1>6. ASSUME NEW p \in Plan, HandleSignaled(p) PROVE GateInv'
  BY <1>6 DEF Live, GateInv, HandleSignaled, Abort
<1>7. ASSUME NEW p \in Plan, HandleTrap(p) PROVE GateInv'
  BY <1>7, GateAtTrap
<1>8. ASSUME NEW p \in Plan, HandleUnexpected(p) PROVE GateInv'
  BY <1>8 DEF Live, GateInv, HandleUnexpected, Abort
<1>9. ASSUME NEW p \in Plan, HandleInitOverflow(p) PROVE GateInv'
  BY <1>9, GateAtInit
<1>10. ASSUME NEW p \in Plan, HandleDeliver(p) PROVE GateInv'
  BY <1>10
     DEF InLoop, TypeOK, LoopInv, GateInv, ViewMatchesKernel, HandleDeliver,
         Waited, ReturnFalse, SeenStopped, Wakeup, NextChild, IInv
<1>11. ASSUME NEW p \in Plan, HandleProfileOverflow(p) PROVE GateInv'
  BY <1>11, GateAtProfile
<1>12. CASE EndWait
  BY <1>12 DEF InLoop, Live, GateInv, EndWait, profilerVars, IInv
<1>13. CASE KernelNext /\ UNCHANGED profilerVars
  BY <1>13
     DEF InLoop, Live, GateInv, KernelNext, ChildStep, Interrupt, ExecTrap,
         StartFails, Overflow, TakeOverflowSig, TakeOtherSig, ExecAgain, Exit,
         KilledOutside, profilerVars, IInv
<1>14. CASE UNCHANGED vars
  BY <1>14 DEF InLoop, Live, GateInv, vars, profilerVars, IInv
<1> QED
  BY <1>1, <1>2, <1>3, <1>4, <1>5, <1>6, <1>7, <1>8, <1>9, <1>10, <1>11,
     <1>12, <1>13, <1>14
     DEF Next, ProfilerStep, HandleChild, Finished

\* Whoever may leave a wait status behind has or gets a SIGCHLD.
LEMMA NoLostWakeupStep ==
  ASSUME IInv, [Next]_vars
  PROVE  NoLostWakeup'
<1>1. CASE Start
  BY <1>1 DEF ReportInv, StartInv, NoLostWakeup, Start, kernelVars, IInv
<1>2. ASSUME NEW p \in Plan, BuildRunningConfig(p) \/ BuildFails(p) \/ Reap(p)
      PROVE  NoLostWakeup'
  BY <1>2 DEF NoLostWakeup, BuildRunningConfig, BuildFails, Reap, IInv
<1>3. CASE ReadSIGINT \/ ReadSIGCHLD \/ PollFails \/ LeaveLoop
  BY <1>3
     DEF NoLostWakeup, ReadSIGINT, ReadSIGCHLD, PollFails, kernelVars,
         LeaveLoop, IInv
<1>4. ASSUME NEW p \in Plan, HandleExited(p) PROVE NoLostWakeup'
  BY <1>4 DEF Live, NoLostWakeup, HandleExited, GotoDONE, Abort
<1>5. ASSUME NEW p \in Plan, HandleSignaled(p) PROVE NoLostWakeup'
  BY <1>5 DEF Live, NoLostWakeup, HandleSignaled, Abort
<1>6. ASSUME NEW p \in Plan, HandleTrap(p) PROVE NoLostWakeup'
  BY <1>6, FullIsAll
     DEF InLoop, TypeOK, KernelTypeOK, LoopInv, ViewMatchesKernel,
         NoLostWakeup, GateInv, HandleTrap, Waited, Consume, SeenStopped,
         GotoPROFILE, GotoINIT, Wakeup, Wakeups, Stopped, NextChild, IInv
<1>7. ASSUME NEW p \in Plan, HandleUnexpected(p) PROVE NoLostWakeup'
  BY <1>7 DEF Live, NoLostWakeup, HandleUnexpected, Abort
<1>8. ASSUME NEW p \in Plan, HandleInitOverflow(p) PROVE NoLostWakeup'
  BY <1>8, FullIsAll
     DEF InLoop, Live, TypeOK, KernelTypeOK, LoopInv, ViewMatchesKernel,
         NoLostWakeup, GateInv, HandleInitOverflow, InitOverflow, Waited,
         Consume, Abort, SeenStopped, GotoPROFILE, Wakeups, Stopped,
         StoppedView, NextChild, ReturnFalse, IInv
<1>9. ASSUME NEW p \in Plan, HandleDeliver(p) PROVE NoLostWakeup'
  BY <1>9 DEF Live, NoLostWakeup, HandleDeliver, Waited, ReturnFalse, NextChild
<1>10. ASSUME NEW p \in Plan, HandleProfileOverflow(p) PROVE NoLostWakeup'
  BY <1>10
     DEF Live, NoLostWakeup, HandleProfileOverflow, Barrier, Waited, Abort,
         GotoDONE, Wakeups, Stopped, NextChild, ReturnFalse
<1>11. CASE EndWait \/ KillAll \/ ReapDone
  BY <1>11 DEF NoLostWakeup, EndWait, kernelVars, KillAll, ReapDone
<1>12. CASE KernelNext /\ UNCHANGED profilerVars
  BY <1>12
     DEF Live, NoLostWakeup, KernelNext, ChildStep, Interrupt, ExecTrap,
         StartFails, Overflow, TakeOverflowSig, TakeOtherSig, ExecAgain, Exit,
         KilledOutside, Notify, profilerVars, IInv
<1>13. CASE UNCHANGED vars
  BY <1>13 DEF Live, NoLostWakeup, vars, kernelVars, profilerVars, IInv
<1> QED
  BY <1>1, <1>2, <1>3, <1>4, <1>5, <1>6, <1>7, <1>8, <1>9, <1>10, <1>11,
     <1>12, <1>13
     DEF Next, ProfilerStep, HandleChild, Finished

\* An overflow is in the buffer or in the phase, never in both or neither.
LEMMA PhaseExactStep ==
  ASSUME IInv, [Next]_vars
  PROVE  PhaseExact'
<1>1. CASE Start
  BY <1>1, PlanSets
     DEF StartInv, PhaseExact, NewConfig, Start, kernelVars, IInv
<1>2. ASSUME NEW p \in Plan, BuildRunningConfig(p) \/ BuildFails(p)
               \/ HandleSignaled(p) \/ HandleUnexpected(p)
      PROVE  PhaseExact'
  BY <1>2
     DEF PhaseExact, BuildRunningConfig, BuildFails, HandleSignaled, Abort,
         HandleUnexpected, IInv
<1>3. CASE ReadSIGINT \/ ReadSIGCHLD \/ PollFails \/ LeaveLoop
  BY <1>3
     DEF PhaseExact, ReadSIGINT, ReadSIGCHLD, PollFails, LeaveLoop,
         kernelVars, IInv
<1>4. ASSUME NEW p \in Plan, HandleExited(p) PROVE PhaseExact'
  BY <1>4, PlanSets
     DEF TypeOK, KernelTypeOK, LoopInv, PhaseExact, HandleExited, GotoDONE,
         Waited, Abort, UpdatePhase, IInv
<1>5. ASSUME NEW p \in Plan, HandleTrap(p) PROVE PhaseExact'
  BY <1>5
     DEF LoopInv, PhaseExact, HandleTrap, Waited, Abort, GotoPROFILE,
         GotoINIT, NextChild, IInv
<1>6. ASSUME NEW p \in Plan, HandleInitOverflow(p) PROVE PhaseExact'
  BY <1>6, PlanSets
     DEF TypeOK, KernelTypeOK, LoopInv, PhaseExact, HandleInitOverflow,
         InitOverflow, Waited, Abort, GotoPROFILE, UpdatePhase, NextChild,
         ReturnFalse, IInv
<1>7. ASSUME NEW p \in Plan, HandleDeliver(p) PROVE PhaseExact'
  BY <1>7 DEF PhaseExact, HandleDeliver, ReturnFalse, NextChild, IInv
<1>8. ASSUME NEW p \in Plan, HandleProfileOverflow(p) PROVE PhaseExact'
  BY <1>8, PlanSets
     DEF TypeOK, KernelTypeOK, LoopInv, PhaseExact, HandleProfileOverflow,
         Barrier, Waited, Abort, GotoDONE, UpdatePhase, NextChild, IInv
<1>9. CASE EndWait
  BY <1>9 DEF PhaseExact, EndWait, kernelVars, profilerVars, IInv
<1>10. CASE KillAll
  BY <1>10 DEF PhaseExact, KillAll, IInv
<1>11. ASSUME NEW p \in Plan, Reap(p) PROVE PhaseExact'
  BY <1>11 DEF PhaseExact, Reap, profilerVars, IInv
<1>12. CASE ReapDone
  BY <1>12 DEF PhaseExact, ReapDone, kernelVars, profilerVars, IInv
<1>13. CASE KernelNext /\ UNCHANGED profilerVars
  BY <1>13, PlanSets
     DEF TypeOK, KernelTypeOK, PhaseExact, DoneInv, KernelNext, ChildStep,
         Interrupt, ExecTrap, StartFails, Overflow, TakeOverflowSig,
         TakeOtherSig, ExecAgain, Exit, KilledOutside, profilerVars, IInv
<1>14. CASE UNCHANGED vars
  BY <1>14 DEF PhaseExact, vars, kernelVars, profilerVars, IInv
<1> QED
  BY <1>1, <1>2, <1>3, <1>4, <1>5, <1>6, <1>7, <1>8, <1>9, <1>10, <1>11,
     <1>12, <1>13, <1>14
     DEF Next, ProfilerStep, HandleChild, Finished

\* Samples are taken of all perf plans or the run is void.
LEMMA SamplesAlignedStep ==
  ASSUME IInv, [Next]_vars
  PROVE  SamplesAligned'
<1>1. CASE Start
  BY <1>1, PlanSets DEF StartInv, SamplesAligned, NewConfig, Start, IInv
<1>2. ASSUME NEW p \in Plan, BuildRunningConfig(p) \/ BuildFails(p)
               \/ HandleSignaled(p) \/ HandleUnexpected(p)
      PROVE  SamplesAligned'
  BY <1>2
     DEF SamplesAligned, BuildRunningConfig, BuildFails, HandleSignaled,
         Abort, HandleUnexpected, IInv
<1>3. CASE ReadSIGINT \/ ReadSIGCHLD \/ PollFails \/ EndWait
  BY <1>3
     DEF SamplesAligned, ReadSIGINT, ReadSIGCHLD, PollFails, EndWait,
         profilerVars, IInv
<1>4. CASE LeaveLoop
  BY <1>4, PlanSets
     DEF InLoop, LoopInv, SamplesAligned, LeaveLoop, WithResult, IInv
<1>5. ASSUME NEW p \in Plan, HandleExited(p) PROVE SamplesAligned'
  BY <1>5, PlanSets
     DEF LoopInv, SamplesAligned, HandleExited, GotoDONE, Waited, Abort,
         Sampled, IInv
<1>6. ASSUME NEW p \in Plan, HandleTrap(p) PROVE SamplesAligned'
  BY <1>6 DEF LoopInv, SamplesAligned, HandleTrap, Waited, IInv
<1>7. ASSUME NEW p \in Plan, HandleInitOverflow(p) PROVE SamplesAligned'
  BY <1>7 DEF LoopInv, SamplesAligned, HandleInitOverflow, Waited, IInv
<1>8. ASSUME NEW p \in Plan, HandleDeliver(p) PROVE SamplesAligned'
  BY <1>8 DEF SamplesAligned, HandleDeliver, ReturnFalse, NextChild, IInv
<1>9. ASSUME NEW p \in Plan, HandleProfileOverflow(p) PROVE SamplesAligned'
  BY <1>9, PlanSets
     DEF LoopInv, SamplesAligned, HandleProfileOverflow, Barrier, Waited,
         Abort, GotoDONE, Sampled, IInv
<1>10. CASE KillAll \/ ReapDone
  BY <1>10 DEF SamplesAligned, KillAll, ReapDone, profilerVars, IInv
<1>11. ASSUME NEW p \in Plan, Reap(p) PROVE SamplesAligned'
  BY <1>11 DEF SamplesAligned, Reap, profilerVars, IInv
<1>12. CASE KernelNext /\ UNCHANGED profilerVars
  BY <1>12 DEF SamplesAligned, profilerVars, IInv
<1>13. CASE UNCHANGED vars
  BY <1>13 DEF SamplesAligned, vars, profilerVars, IInv
<1> QED
  BY <1>1, <1>2, <1>3, <1>4, <1>5, <1>6, <1>7, <1>8, <1>9, <1>10, <1>11,
     <1>12, <1>13
     DEF Next, ProfilerStep, HandleChild, Finished

\* DONE is entered with the last row taken and every event off.
LEMMA DoneInvStep ==
  ASSUME IInv, [Next]_vars
  PROVE  DoneInv'
<1>1. CASE Start \/ ReadSIGINT \/ ReadSIGCHLD \/ PollFails
  BY <1>1 DEF Live, DoneInv, Start, ReadSIGINT, ReadSIGCHLD, PollFails, IInv
<1>2. ASSUME NEW p \in Plan, BuildRunningConfig(p) \/ BuildFails(p)
               \/ HandleSignaled(p) \/ HandleUnexpected(p)
      PROVE  DoneInv'
  BY <1>2
     DEF DoneInv, BuildRunningConfig, BuildFails, HandleSignaled, Abort,
         HandleUnexpected, IInv
<1>3. CASE LeaveLoop \/ KillAll
  BY <1>3 DEF DoneInv, LeaveLoop, kernelVars, KillAll, IInv
<1>4. ASSUME NEW p \in Plan, HandleExited(p) PROVE DoneInv'
  BY <1>4, DoneAtExit
<1>5. ASSUME NEW p \in Plan, HandleTrap(p) PROVE DoneInv'
  BY <1>5
     DEF DoneInv, HandleTrap, Waited, Abort, GotoPROFILE, GotoINIT, NextChild,
         IInv
<1>6. ASSUME NEW p \in Plan, HandleInitOverflow(p) PROVE DoneInv'
  BY <1>6
     DEF DoneInv, HandleInitOverflow, InitOverflow, Waited, Abort,
         GotoPROFILE, NextChild, ReturnFalse, IInv
<1>7. ASSUME NEW p \in Plan, HandleDeliver(p) PROVE DoneInv'
  BY <1>7 DEF DoneInv, HandleDeliver, Waited, ReturnFalse, NextChild, IInv
<1>8. ASSUME NEW p \in Plan, HandleProfileOverflow(p) PROVE DoneInv'
  BY <1>8, DoneAtBarrier
<1>9. CASE EndWait
  BY <1>9 DEF Live, LoopInv, DoneInv, EndWait, profilerVars, IInv
<1>10. ASSUME NEW p \in Plan, Reap(p) PROVE DoneInv'
  BY <1>10 DEF DoneInv, Reap, profilerVars, IInv
<1>11. CASE ReapDone
  BY <1>11 DEF DoneInv, ReapDone, kernelVars, profilerVars, IInv
<1>12. CASE KernelNext /\ UNCHANGED profilerVars
  BY <1>12
     DEF DoneInv, KernelNext, ChildStep, Interrupt, ExecTrap, StartFails,
         Overflow, TakeOverflowSig, TakeOtherSig, ExecAgain, Exit,
         KilledOutside, profilerVars, IInv
<1>13. CASE UNCHANGED vars
  BY <1>13 DEF DoneInv, vars, kernelVars, profilerVars, IInv
<1> QED
  BY <1>1, <1>2, <1>3, <1>4, <1>5, <1>6, <1>7, <1>8, <1>9, <1>10, <1>11,
     <1>12, <1>13
     DEF Next, ProfilerStep, HandleChild, Finished

\* The terminate label ends every child there is, and keeps the result.
LEMMA EndInvStep ==
  ASSUME IInv, [Next]_vars
  PROVE  EndInv'
<1>1. CASE Start
  BY <1>1
     DEF Live, StartInv, EndInv, WholeRows, NewConfig, Alive, Start,
         kernelVars, IInv
<1>2. ASSUME NEW p \in Plan, BuildRunningConfig(p) \/ HandleSignaled(p)
               \/ HandleUnexpected(p)
      PROVE  EndInv'
  BY <1>2
     DEF EndInv, BuildRunningConfig, HandleSignaled, Abort, HandleUnexpected
<1>3. ASSUME NEW p \in Plan, BuildFails(p) PROVE EndInv'
  BY <1>3
     DEF Live, TypeOK, KernelTypeOK, StartInv, EndInv, WholeRows, NewConfig,
         Alive, BuildFails, KillUnrecorded, Notify, IInv
<1>4. CASE ReadSIGINT \/ ReadSIGCHLD \/ PollFails \/ EndWait
  BY <1>4 DEF EndInv, ReadSIGINT, ReadSIGCHLD, PollFails, EndWait
<1>5. CASE LeaveLoop
  BY <1>5, EndAtLeave
<1>6. ASSUME NEW p \in Plan, HandleExited(p) PROVE EndInv'
  BY <1>6 DEF EndInv, HandleExited, GotoDONE, Abort
<1>7. ASSUME NEW p \in Plan, HandleTrap(p) PROVE EndInv'
  BY <1>7
     DEF EndInv, HandleTrap, Waited, Abort, GotoPROFILE, GotoINIT, NextChild
<1>8. ASSUME NEW p \in Plan, HandleInitOverflow(p) PROVE EndInv'
  BY <1>8
     DEF EndInv, HandleInitOverflow, InitOverflow, Waited, Abort, GotoPROFILE,
         Wakeups, Stopped, NextChild, ReturnFalse
<1>9. ASSUME NEW p \in Plan, HandleDeliver(p) PROVE EndInv'
  BY <1>9 DEF EndInv, HandleDeliver, Waited, ReturnFalse, NextChild
<1>10. ASSUME NEW p \in Plan, HandleProfileOverflow(p) PROVE EndInv'
  BY <1>10
     DEF EndInv, HandleProfileOverflow, Barrier, Waited, Abort, GotoDONE,
         Wakeups, Stopped, NextChild, ReturnFalse
<1>11. CASE KillAll
  BY <1>11 DEF Live, TypeOK, EndInv, WholeRows, Alive, KillAll, Targets, IInv
<1>12. ASSUME NEW p \in Plan, Reap(p) PROVE EndInv'
  BY <1>12 DEF Live, EndInv, WholeRows, Alive, Reap, profilerVars, IInv
<1>13. CASE ReapDone
  BY <1>13
     DEF Live, EndInv, WholeRows, Alive, ReapDone, kernelVars, profilerVars,
         IInv
<1>14. CASE KernelNext /\ UNCHANGED profilerVars
  BY <1>14
     DEF Live, TypeOK, KernelTypeOK, EndInv, WholeRows, KernelNext, ChildStep,
         Interrupt, ExecTrap, StartFails, Overflow, TakeOverflowSig,
         TakeOtherSig, ExecAgain, Exit, KilledOutside, Notify, profilerVars,
         Alive, IInv
<1>15. CASE UNCHANGED vars
  BY <1>15
     DEF Live, EndInv, WholeRows, Alive, vars, kernelVars, profilerVars, IInv
<1> QED
  BY <1>1, <1>2, <1>3, <1>4, <1>5, <1>6, <1>7, <1>8, <1>9, <1>10, <1>11,
     <1>12, <1>13, <1>14, <1>15
     DEF Next, ProfilerStep, HandleChild, Finished

-----------------------------------------------------------------------------
(***************************************************************************)
(* The inductive invariant.  No part is inductive by itself: each leans on *)
(* the type invariant, on where the profiler is (StartInv, LoopInv), and   *)
(* on what the profiler believes of the children (ViewMatchesKernel, which *)
(* itself needs ReportInv).                                                *)
(***************************************************************************)
LEMMA InitInv == Init => IInv
<1> SUFFICES ASSUME Init PROVE IInv
  OBVIOUS
<1>1. TypeOK
  BY TypeInit
<1>2. pc = "start" /\ m_status = "ABORT" /\ ~Live /\ ~InLoop
  BY DEF Init, Live, InLoop
<1>3. ReportInv /\ StartInv /\ EventInv
  BY DEF Init, KernelInit, ReportInv, StartInv, EventInv
<1>4. SamplesAligned /\ PhaseExact /\ DoneInv
  BY <1>2 DEF SamplesAligned, PhaseExact, DoneInv
<1>5. LoopInv /\ ViewMatchesKernel /\ GateInv /\ NoLostWakeup /\ EndInv
  BY <1>2 DEF LoopInv, ViewMatchesKernel, GateInv, NoLostWakeup, EndInv
<1> QED
  BY <1>1, <1>3, <1>4, <1>5 DEF IInv

\* Every step keeps the inductive invariant.
LEMMA NextInv == IInv /\ [Next]_vars => IInv'
<1> SUFFICES ASSUME IInv, [Next]_vars PROVE IInv'
  OBVIOUS
<1>1. TypeOK'
  BY TypeStep DEF IInv
<1> QED
  BY <1>1, ReportInvStep, StartInvStep, LoopInvStep, EventInvStep,
     ViewMatchesKernelStep, GateInvStep, NoLostWakeupStep, PhaseExactStep,
     SamplesAlignedStep, DoneInvStep, EndInvStep
     DEF IInv

\* The inductive invariant holds in every behaviour.
LEMMA Invariant == Spec => []IInv
BY InitInv, NextInv, PTL DEF Spec

-----------------------------------------------------------------------------
(***************************************************************************)
(* The profiler's view of a child is the truth up to unread wait statuses: *)
(* PTRACE_CONT goes to stopped children and SIGKILL never to a reaped pid. *)
(***************************************************************************)
THEOREM ViewIsTrue == Spec => []ViewMatchesKernel
<1>1. IInv => ViewMatchesKernel
  BY DEF IInv
<1> QED
  BY <1>1, Invariant, PTL

(***************************************************************************)
(* A child that has something to report is never waited for in vain: poll  *)
(* has a SIGCHLD to return on, whatever SIGCHLDs have been merged into one *)
(* and however early handleChild has returned.                             *)
(***************************************************************************)
THEOREM NoWakeupLost == Spec => []NoLostWakeup
<1>1. IInv => NoLostWakeup
  BY DEF IInv
<1> QED
  BY <1>1, Invariant, PTL

(***************************************************************************)
(* The copy of m_status handleChild works with is never stale, and the pid *)
(* that waitpid returns is always in m_pidmap.                             *)
(***************************************************************************)
THEOREM CachedStatusIsFresh == Spec => []CachedStatusFresh
<1>1. IInv => CachedStatusFresh
  BY DEF IInv, LoopInv, InLoop, CachedStatusFresh
<1> QED
  BY <1>1, Invariant, PTL

(***************************************************************************)
(* READY and INIT hold every child that is through with them, and PROFILE  *)
(* starts with every child released and every phase at its begin.          *)
(***************************************************************************)
THEOREM GatesHold == Spec => []StageGate
<1>1. IInv => StageGate
  <2> SUFFICES ASSUME IInv, InLoop PROVE StageGate
    BY DEF StageGate
  <2>1. \A p \in Plan : m_st[p] = "STOP" => Held(p)
    BY DEF IInv, ViewMatchesKernel, Held
  <2>2. m_pstatus["READY"] \subseteq Plan /\ m_pstatus["INIT"] \subseteq Plan
    BY DEF IInv, TypeOK, ProfileStatus
  <2> QED
    BY <2>1, <2>2 DEF IInv, GateInv, StageGate
<1> QED
  BY <1>1, Invariant, PTL

(***************************************************************************)
(* The barrier of PROFILE holds whoever has reached it, and is opened in   *)
(* the very step that fills it.                                            *)
(***************************************************************************)
THEOREM BarrierHolds == Spec => []BarrierHeld
<1>1. IInv => BarrierHeld
  <2> SUFFICES ASSUME IInv, InLoop, m_status = "PROFILE"
               PROVE  BarrierHeld
    BY DEF BarrierHeld
  <2>1. /\ m_pstatus["PROFILE"] # Plan /\ m_pstatus["PROFILE"] \subseteq Plan
        /\ \A p \in m_pstatus["PROFILE"] : m_st[p] = "STOP"
    BY DEF IInv, GateInv, TypeOK, ProfileStatus
  <2> QED
    BY <2>1 DEF IInv, ViewMatchesKernel, BarrierHeld, Held
<1> QED
  BY <1>1, Invariant, PTL

(***************************************************************************)
(* Every overflow of a sampled child is counted in its phase exactly once. *)
(***************************************************************************)
THEOREM PhasesAreExact == Spec => []PhaseExact
<1>1. IInv => PhaseExact
  BY DEF IInv
<1> QED
  BY <1>1, Invariant, PTL

\* The rows of all perf plans stay aligned, however many overflows they have.
THEOREM RowsLineUp == Spec => []SamplesAligned
<1>1. IInv => SamplesAligned
  BY DEF IInv
<1> QED
  BY <1>1, Invariant, PTL

(***************************************************************************)
(* What main publishes is complete: one entry per perf plan, of the same   *)
(* length, at least one sample each, taken with every event stopped.       *)
(***************************************************************************)
THEOREM ResultIsComplete == Spec => []ResultComplete
<1>1. IInv => ResultComplete
  <2> SUFFICES ASSUME IInv, m_status = "DONE" PROVE ResultComplete
    BY DEF ResultComplete
  <2>1. /\ pc \in {"poll", "kill", "reap", "done"} /\ err = 0 /\ enabled = {}
        /\ pc = "poll" => \/ \E p \in Plan : m_st[p] = "DEAD"
                          \/ \E p \in PhasePlans : m_phaseno[p] >= PhaseEnd[p]
    BY DEF IInv, DoneInv
  <2> QED
    BY <2>1 DEF IInv, DoneInv, EndInv, ResultComplete
<1> QED
  BY <1>1, Invariant, PTL

(***************************************************************************)
(* The terminate label leaves no child alive, wherever profile() came      *)
(* from.                                                                   *)
(***************************************************************************)
THEOREM NobodySurvives == Spec => []NoSurvivor
<1>1. IInv => NoSurvivor
  BY DEF IInv, EndInv, NoSurvivor
<1> QED
  BY <1>1, Invariant, PTL

-----------------------------------------------------------------------------
(***************************************************************************)
(* The steps that change the stage: Start, which is excepted, and the ones *)
(* of the loop, which find the stage where LoopInv says it is.             *)
(***************************************************************************)
LEMMA StageSteps ==
  ASSUME IInv, [Next]_vars, pc # "start", m_status' # m_status
  PROVE  m_status' \in Successors[m_status]
<1>1. CASE InLoop /\ Live /\ m_status' = "ABORT"
  BY <1>1 DEF Live, Successors
<1>2. CASE ReadSIGINT \/ PollFails
  BY <1>1, <1>2 DEF ReadSIGINT, PollFails, InLoop
<1>3. ASSUME NEW p \in Plan, HandleChild(p)
      PROVE  m_status' \in Successors[m_status]
  <2>1. InLoop /\ Live /\ profStatus = m_status
    BY <1>3
       DEF HandleChild, HandleExited, HandleSignaled, HandleTrap,
           HandleUnexpected, HandleInitOverflow, HandleDeliver,
           HandleProfileOverflow, Waited, InLoop, IInv, LoopInv
  <2>2. CASE HandleExited(p)
    BY <1>1, <2>1, <2>2 DEF HandleExited, GotoDONE, Abort, Successors
  <2>3. CASE HandleSignaled(p) \/ HandleUnexpected(p)
    BY <1>1, <2>1, <2>3 DEF HandleSignaled, HandleUnexpected, Abort
  <2>4. CASE HandleTrap(p)
    BY <1>1, <2>1, <2>4
       DEF HandleTrap, GotoPROFILE, GotoINIT, Abort, NextChild, Successors
  <2>5. CASE HandleInitOverflow(p)
    BY <1>1, <2>1, <2>5
       DEF HandleInitOverflow, InitOverflow, GotoPROFILE, Abort, NextChild,
           ReturnFalse, Successors
  <2>6. CASE HandleDeliver(p)
    BY <1>1, <2>1, <2>6 DEF HandleDeliver, NextChild, ReturnFalse
  <2>7. CASE HandleProfileOverflow(p)
    BY <1>1, <2>1, <2>7
       DEF HandleProfileOverflow, Barrier, GotoDONE, Abort, NextChild,
           ReturnFalse, Successors
  <2> QED
    BY <1>3, <2>2, <2>3, <2>4, <2>5, <2>6, <2>7 DEF HandleChild
<1>4. ASSUME \/ Start \/ ReadSIGCHLD \/ LeaveLoop \/ EndWait \/ KillAll
             \/ ReapDone \/ UNCHANGED vars
             \/ KernelNext /\ UNCHANGED profilerVars
             \/ \E p \in Plan : \/ BuildRunningConfig(p) \/ BuildFails(p)
                                \/ Reap(p)
      PROVE  FALSE
  BY <1>4
     DEF Start, ReadSIGCHLD, LeaveLoop, EndWait, KillAll, ReapDone,
         BuildRunningConfig, BuildFails, Reap, vars, profilerVars
<1> QED
  BY <1>2, <1>3, <1>4 DEF Next, ProfilerStep, Finished

(***************************************************************************)
(* A run goes READY, (INIT,) PROFILE, DONE, one stage after the other, and *)
(* aborts at most once: a stage is never entered twice or skipped, and     *)
(* DONE and ABORT are final.                                               *)
(***************************************************************************)
THEOREM StagesInOrder == Spec => StageOrder
<1>1. IInv /\ [Next]_vars
        => [pc # "start" /\ m_status' # m_status
              => m_status' \in Successors[m_status]]_vars
  BY StageSteps
<1> QED
  BY <1>1, Invariant, PTL DEF Spec, StageOrder

\* As long as the run goes on, the only collection is that of the barrier.
LEMMA CollectingSteps ==
  ASSUME IInv, [Next]_vars, m_samples' # m_samples, m_status' = "PROFILE"
  PROVE  /\ m_status = "PROFILE"
         /\ \A q \in Plan : proc[q] \in {"traced", "zombie"}
<1>1. PICK p \in Plan : HandleProfileOverflow(p)
  <2>1. ASSUME \/ Start \/ ReadSIGINT \/ ReadSIGCHLD \/ PollFails \/ EndWait
               \/ KillAll \/ ReapDone \/ UNCHANGED vars
               \/ KernelNext /\ UNCHANGED profilerVars
               \/ \E p \in Plan : \/ BuildRunningConfig(p) \/ BuildFails(p)
                                  \/ Reap(p)
        PROVE  FALSE
    BY <2>1
       DEF Start, ReadSIGINT, ReadSIGCHLD, PollFails, EndWait, KillAll,
           ReapDone, BuildRunningConfig, BuildFails, Reap, vars, profilerVars
  <2>2. ~LeaveLoop
    BY DEF LeaveLoop, Live
  <2>3. ASSUME NEW p \in Plan, HandleChild(p), ~HandleProfileOverflow(p)
        PROVE  FALSE
    BY <2>3
       DEF HandleChild, HandleExited, GotoDONE, Abort, HandleSignaled,
           HandleTrap, HandleUnexpected, HandleInitOverflow, HandleDeliver
  <2> QED
    BY <2>1, <2>2, <2>3 DEF Next, ProfilerStep, Finished
<1>2. /\ m_status = "PROFILE" /\ m_pidmap = Plan /\ InLoop
      /\ report[p] = "overflow"
  BY <1>1 DEF HandleProfileOverflow, Waited, IInv, LoopInv, InLoop
<1>3. Full(m_pstatus["PROFILE"] \union {p})
  BY <1>1 DEF HandleProfileOverflow
<1>4. m_pstatus["PROFILE"] \union {p} = Plan
  BY <1>2, <1>3, FullIsAll DEF IInv, TypeOK, ProfileStatus
<1>5. \A q \in Plan \ {p} : m_st[q] = "STOP"
  BY <1>2, <1>4 DEF IInv, GateInv
<1>6. \A q \in Plan \ {p} : proc[q] \in {"traced", "zombie"}
  BY <1>2, <1>5 DEF IInv, ViewMatchesKernel
<1>7. proc[p] \in {"traced", "zombie"}
  BY <1>2 DEF IInv, ReportInv, TypeOK, KernelTypeOK, ProcState
<1> QED
  BY <1>2, <1>6, <1>7

(***************************************************************************)
(* A row of samples is collected in PROFILE with every child stopped, so   *)
(* that its counters belong to the same interval; the one exception is the *)
(* last row, of a run that ends.                                           *)
(***************************************************************************)
THEOREM CollectedInPause == Spec => CollectedWhilePaused
<1>1. IInv /\ [Next]_vars
        => [m_samples' # m_samples /\ m_status' = "PROFILE"
              => /\ m_status = "PROFILE"
                 /\ \A p \in Plan : proc[p] \in {"traced", "zombie"}]_vars
  BY CollectingSteps
<1> QED
  BY <1>1, Invariant, PTL DEF Spec, CollectedWhilePaused

-----------------------------------------------------------------------------
(***************************************************************************)
(* ParallelProfiler implements Session: whatever the children, the signals *)
(* and the system calls do, the profiler's stages, the children it holds,  *)
(* its samples and its result change only as the session allows.           *)
(***************************************************************************)

\* A profiler that has not started is a session in which nothing happened.
LEMMA InitRefines == Init => Abs!Init
BY PlanSets DEF Init, NewConfig, Abs!Init, stage, halted, rows

\* A step that aborts the run in the loop is a GiveUp.
LEMMA AbortGivesUp ==
  ASSUME TypeOK, TypeOK', InLoop, Live, m_status' = "ABORT", pc' # "start",
         UNCHANGED m_result
  PROVE  Abs!GiveUp
<1>1. stage = m_status /\ stage' = "ABORT"
  BY DEF stage, InLoop
<1>2. rows' \in [PerfPlans -> Nat]
  BY PlanSets DEF rows, TypeOK
<1>3. halted' \in SUBSET Plan
  BY DEF halted
<1> QED
  BY <1>1, <1>2, <1>3 DEF Abs!GiveUp, Abs!Open, Live

(***************************************************************************)
(* Every step of the profiler or of a child is a step of the session, or   *)
(* one the session does not see.                                           *)
(***************************************************************************)
LEMMA StepRefines ==
  ASSUME IInv, TypeOK', [Next]_vars
  PROVE  [Abs!Next]_(Abs!sessionVars)
<1> USE FullIsAll, PlanSets
<1> USE DEF TypeOK, KernelTypeOK, IInv, InLoop, Live, LoopInv, StartInv
<1>a. ASSUME UNCHANGED <<m_st, m_samples, m_result, stage>>
      PROVE  UNCHANGED Abs!sessionVars
  BY <1>a DEF Abs!sessionVars, halted, rows
<1>1. CASE Start
  BY <1>a, <1>1 DEF Start, stage
<1>2. ASSUME NEW p \in Plan, BuildRunningConfig(p) \/ BuildFails(p)
      PROVE  UNCHANGED Abs!sessionVars
  BY <1>a, <1>2 DEF BuildRunningConfig, BuildFails, stage
<1>3. CASE ReadSIGINT \/ PollFails
  BY <1>3, AbortGivesUp DEF ReadSIGINT, PollFails, Abs!Next
<1>4. CASE ReadSIGCHLD
  BY <1>a, <1>4 DEF ReadSIGCHLD, stage
<1>5. CASE LeaveLoop
  <2>1. m_pidmap = Plan /\ WithResult = PerfPlans
    BY <1>5 DEF LeaveLoop, WithResult
  <2>2. stage = m_status /\ stage' = m_status /\ halted' = halted
    BY <1>5 DEF LeaveLoop, stage, halted
  <2>3. rows' = [p \in PerfPlans |-> 0]
    BY <1>5, <2>1 DEF LeaveLoop, rows
  <2>4. m_result' = {<<p, rows[p]>> : p \in PerfPlans}
    BY <1>5, <2>1 DEF LeaveLoop, rows
  <2>5. m_result' \in SUBSET (PerfPlans \X Nat)
    OBVIOUS
  <2> QED
    BY <1>5, <2>2, <2>3, <2>4, <2>5
       DEF LeaveLoop, Abs!Next, Abs!Publish, Abs!Open
<1>6. ASSUME NEW p \in Plan, HandleExited(p) PROVE Abs!Next
  <2>1. CASE /\ GotoDONE(m_samples, {}) /\ m_status' = "DONE"
             /\ profStatus = "PROFILE"
    <3>1. m_st[p] # "STOP"
      BY <1>6 DEF HandleExited, Waited, ViewMatchesKernel
    <3>2. halted' = halted
      BY <1>6, <3>1 DEF HandleExited, halted
    <3>3. rows' = Abs!Collected(1)
      BY <1>6, <2>1 DEF GotoDONE, Sampled, Abort, rows, Abs!Collected
    <3> QED
      BY <1>6, <2>1, <3>2, <3>3
         DEF HandleExited, Waited, GotoDONE, Abort, stage, Abs!Next,
             Abs!FinishAtExit
  <2>2. CASE m_status' = "ABORT"
    BY <1>6, <2>2, AbortGivesUp
       DEF HandleExited, Waited, GotoDONE, Abort, Abs!Next
  <2> QED
    BY <1>6, <2>1, <2>2 DEF HandleExited, GotoDONE, Abort
<1>7. ASSUME NEW p \in Plan, HandleSignaled(p) \/ HandleUnexpected(p)
      PROVE  Abs!Next
  BY <1>7, AbortGivesUp
     DEF HandleSignaled, HandleUnexpected, Waited, Abort, Abs!Next
<1>8. ASSUME NEW p \in Plan, HandleTrap(p) PROVE Abs!Next
  <2> DEFINE st == SeenStopped(p)
             ready == m_pstatus["READY"] \union {p}
             init == m_pstatus["INIT"] \union
                       (IF p \notin PhasePlans \/ PhaseBegin[p] = 0
                        THEN {p} ELSE {})
  <2>1. /\ m_status = "READY" /\ m_pidmap = Plan /\ stage = "READY"
        /\ pc = "wait"
        /\ ready \in SUBSET Plan /\ init \in SUBSET ready
        /\ rows' = rows /\ m_result' = m_result
    BY <1>8 DEF HandleTrap, Waited, ProfileStatus, rows, stage, GateInv
  <2>2. ready = Plan => Abs!Last(p)
    BY <2>1 DEF GateInv, halted, Abs!Last
  <2>3. CASE m_status' = "ABORT"
    BY <1>8, <2>1, <2>3, AbortGivesUp
       DEF HandleTrap, GotoPROFILE, GotoINIT, Abort, NextChild, Abs!Next
  <2>4. CASE Full(ready) /\ GotoPROFILE(st) /\ m_status' # "ABORT"
    <3>1. stage' = "PROFILE"
      BY <2>4 DEF GotoPROFILE, Abort, stage
    <3>2. halted' = {}
      BY <2>1, <2>4
         DEF GotoPROFILE, Abort, Wakeup, StoppedView, SeenStopped, halted
    <3> QED
      BY <2>1, <2>2, <2>4, <3>1, <3>2 DEF Abs!Next, Abs!Launch
  <2>5. CASE /\ Full(ready) /\ ~Full(init) /\ GotoINIT(st, ready, init)
             /\ m_status' # "ABORT"
    <3>1. stage' = "INIT"
      BY <2>5 DEF GotoINIT, Abort, stage
    <3>2. PICK q \in Plan : q \notin init
      <4>1. init # Plan
        BY <2>1, <2>5
      <4> QED
        BY <2>1, <4>1
    <3>3. m_st'[q] = "RUN"
      <4>1. m_st' = [r \in Plan |-> IF r \in ready \ init THEN "RUN" ELSE st[r]]
        BY <2>5 DEF GotoINIT, Abort, Wakeup
      <4>2. q \in ready \ init
        BY <2>1, <2>5, <3>2
      <4> QED
        BY <4>1, <4>2
    <3>4. halted' \in (SUBSET Plan) \ {Plan}
      BY <3>3 DEF halted
    <3> QED
      BY <2>1, <2>2, <2>5, <3>1, <3>4 DEF Abs!Next, Abs!Prepare
  <2>6. CASE m_st' = st /\ NextChild
    BY <1>8, <2>1, <2>6
       DEF NextChild, SeenStopped, stage, halted, Abs!Next, Abs!Halt, Abs!Open
  <2> QED
    BY <1>8, <2>3, <2>4, <2>5, <2>6 DEF HandleTrap
<1>9. ASSUME NEW p \in Plan, HandleInitOverflow(p)
      PROVE  Abs!Next \/ UNCHANGED Abs!sessionVars
  <2> DEFINE st == SeenStopped(p)
             init == m_pstatus["INIT"] \union {p}
  <2>1. /\ m_status = "INIT" /\ m_pidmap = Plan /\ stage = "INIT"
        /\ pc = "wait"
        /\ init \in SUBSET Plan
        /\ rows' = rows /\ m_samples' = m_samples /\ m_result' = m_result
    BY <1>9 DEF HandleInitOverflow, Waited, ProfileStatus, rows, stage
  <2>2. init = Plan => Abs!Last(p)
    BY <2>1 DEF GateInv, halted, Abs!Last
  <2>3. CASE m_status' = "ABORT"
    BY <1>9, <2>1, <2>3, AbortGivesUp
       DEF HandleInitOverflow, InitOverflow, GotoPROFILE, Abort, NextChild,
           ReturnFalse, Abs!Next
  <2>4. CASE Full(init) /\ GotoPROFILE(st) /\ m_status' # "ABORT"
    <3>1. stage' = "PROFILE"
      BY <2>4 DEF GotoPROFILE, Abort, stage
    <3>2. halted' = {}
      BY <2>1, <2>4
         DEF GotoPROFILE, Abort, Wakeup, StoppedView, SeenStopped, halted
    <3> QED
      BY <2>1, <2>2, <2>4, <3>1, <3>2 DEF Abs!Next, Abs!Launch
  <2>5. CASE m_st' = st /\ NextChild
    BY <1>9, <2>1, <2>5
       DEF NextChild, SeenStopped, stage, halted, Abs!Next, Abs!Halt, Abs!Open
  <2>6. CASE Wakeup(st, {p}) /\ NextChild
    <3>1. m_st[p] = "RUN"
      BY <1>9
         DEF HandleInitOverflow, Waited, ViewMatchesKernel, ReportInv,
             ChildStatus, ProcState
    <3>2. m_st' = m_st /\ stage' = stage
      BY <2>1, <2>6, <3>1 DEF Wakeup, SeenStopped, NextChild, stage
    <3> QED
      BY <1>a, <2>1, <3>2
  <2> QED
    BY <1>9, <2>3, <2>4, <2>5, <2>6
       DEF HandleInitOverflow, InitOverflow, ReturnFalse, Abort
<1>10. ASSUME NEW p \in Plan, HandleDeliver(p)
       PROVE  Abs!Next \/ UNCHANGED Abs!sessionVars
  <2>1. m_st[p] = "RUN"
    BY <1>10
       DEF HandleDeliver, Waited, ViewMatchesKernel, ReportInv, ChildStatus,
           ProcState
  <2>2. CASE m_status' = "ABORT"
    BY <1>10, <2>2, AbortGivesUp
       DEF HandleDeliver, Waited, NextChild, ReturnFalse, Abs!Next
  <2>3. CASE m_status' # "ABORT"
    <3>1. m_st' = m_st /\ m_status' = m_status /\ pc' = pc
      BY <1>10, <2>1, <2>3
         DEF HandleDeliver, Wakeup, SeenStopped, NextChild, ReturnFalse
    <3> QED
      BY <1>a, <1>10, <3>1 DEF HandleDeliver, stage
  <2> QED
    BY <2>2, <2>3
<1>11. ASSUME NEW p \in Plan, HandleProfileOverflow(p) PROVE Abs!Next
  <2> DEFINE st == SeenStopped(p)
             all == m_pstatus["PROFILE"] \union {p}
             once == Sampled(m_samples, PerfPlans)
             done == m_pstatus["DONE"] \union Ended
  <2>1. /\ m_status = "PROFILE" /\ m_pidmap = Plan /\ stage = "PROFILE"
        /\ pc = "wait"
        /\ all \in SUBSET Plan
        /\ m_result' = m_result
    BY <1>11 DEF HandleProfileOverflow, Waited, ProfileStatus, stage
  <2>2. all = Plan => Abs!Last(p)
    BY <2>1 DEF GateInv, halted, Abs!Last
  <2>3. CASE m_status' = "ABORT"
    BY <1>11, <2>1, <2>3, AbortGivesUp
       DEF HandleProfileOverflow, Barrier, GotoDONE, Abort, NextChild,
           ReturnFalse, Abs!Next
  <2>4. CASE Full(all) /\ Barrier(st) /\ m_status' # "ABORT"
    <3>1. all = Plan /\ Abs!Last(p) /\ \A q \in Plan : st[q] = "STOP"
      BY <2>1, <2>2, <2>4 DEF GateInv, SeenStopped
    <3>2. CASE done # {} /\ GotoDONE(once, SamplePlans) /\ m_st' = st
      <4>1. rows' = Abs!Collected(2)
        BY <2>4, <3>2 DEF GotoDONE, Sampled, Abort, rows, Abs!Collected
      <4>2. halted' = Plan
        BY <3>1, <3>2 DEF halted
      <4>3. stage' = "DONE"
        BY <2>4, <3>2 DEF GotoDONE, Abort, stage
      <4> QED
        BY <2>1, <3>1, <4>1, <4>2, <4>3 DEF Abs!Next, Abs!FinishAtRound
    <3>3. CASE m_samples' = once /\ Wakeup(st, StoppedView(st)) /\ NextChild
      <4>1. rows' = Abs!Collected(1)
        BY <3>3 DEF Sampled, rows, Abs!Collected
      <4>2. halted' = {}
        BY <2>1, <3>1, <3>3 DEF Wakeup, StoppedView, halted
      <4>3. stage' = stage
        BY <2>1, <3>3 DEF NextChild, stage
      <4> QED
        BY <2>1, <3>1, <4>1, <4>2, <4>3 DEF Abs!Next, Abs!Round
    <3> QED
      BY <2>4, <3>2, <3>3 DEF Barrier, ReturnFalse, Abort
  <2>5. CASE m_st' = st /\ NextChild /\ m_samples' = m_samples
    BY <1>11, <2>1, <2>5
       DEF NextChild, SeenStopped, stage, halted, rows, Abs!Next, Abs!Halt,
           Abs!Open
  <2> QED
    BY <1>11, <2>3, <2>4, <2>5 DEF HandleProfileOverflow
<1>12. CASE EndWait \/ ReapDone
  BY <1>a, <1>12 DEF EndWait, ReapDone, profilerVars, stage
<1>13. ASSUME NEW p \in Plan, Reap(p) PROVE UNCHANGED Abs!sessionVars
  BY <1>a, <1>13 DEF Reap, profilerVars, stage
<1>14. CASE KillAll
  <2>1. stage' = stage /\ rows' = rows /\ m_result' = m_result
    BY <1>14 DEF KillAll, stage, rows
  <2>2. m_st' = [p \in Plan |-> IF p \in Targets THEN "DEAD" ELSE m_st[p]]
    BY <1>14 DEF KillAll, Targets, EndInv
  <2>3. CASE Live
    BY <1>14, <2>1, <2>2, <2>3 DEF KillAll, EndInv, Abs!sessionVars, halted
  <2>4. CASE ~Live
    <3>1. halted' = {}
      BY <1>14, <2>2, <2>4 DEF KillAll, EndInv, Targets, halted
    <3> QED
      BY <1>14, <2>1, <2>4, <3>1
         DEF KillAll, stage, Abs!Next, Abs!Clear, Abs!Open
  <2> QED
    BY <2>3, <2>4
<1>15. CASE KernelNext /\ UNCHANGED profilerVars
  <2>1. pc' = pc \/ (pc # "start" /\ pc' = "killed")
    BY <1>15
       DEF KernelNext, ChildStep, Interrupt, ExecTrap, StartFails, Overflow,
           TakeOverflowSig, TakeOtherSig, ExecAgain, Exit, KilledOutside
  <2> QED
    BY <1>a, <1>15, <2>1 DEF profilerVars, stage
<1>16. CASE UNCHANGED vars
  BY <1>a, <1>16 DEF vars, profilerVars, stage
<1> QED
  BY <1>1, <1>2, <1>3, <1>4, <1>5, <1>6, <1>7, <1>8, <1>9, <1>10, <1>11,
     <1>12, <1>13, <1>14, <1>15, <1>16
     DEF Next, ProfilerStep, HandleChild, Finished

(***************************************************************************)
(* The profiler keeps the promises of the session: collections happen a    *)
(* whole row at a time with every child held, the stages are entered by    *)
(* all children together, and a result that main publishes is whole rows.  *)
(***************************************************************************)
THEOREM SessionImplemented == Spec => SessionSpec
<1>1. IInv' => TypeOK'
  BY DEF IInv
<1>2. IInv /\ IInv' /\ [Next]_vars => [Abs!Next]_(Abs!sessionVars)
  BY <1>1, StepRefines
<1> QED
  BY <1>1, <1>2, InitRefines, Invariant, PTL DEF Spec, SessionSpec, Abs!Spec

-----------------------------------------------------------------------------
(* Phases and rounds under MaxBurst = 1, for every set of plans, every     *)
(* combination of disturbances and every bound on the overflows: RoundInv  *)
(* of ProfilerInvariant is kept by every step that starts in IInv, so a    *)
(* phase starts and ends exactly where the plan says, and every living     *)
(* child owes as many rounds of samples as the overflows of all sampled    *)
(* children have caused.  The step into PROFILE comes first: it ends the   *)
(* counting of phases child by child and starts that of rounds for all.    *)

\* PROFILE begins with nothing outstanding and each phase at its begin.
AtBegin ==
  /\ m_pstatus["PROFILE"] = {}
  /\ \A p \in Plan : /\ pend[p] = 0 /\ ring[p] = 0 /\ report[p] # "overflow"
                     /\ m_samples[p] = 0
                     /\ p \notin PhasePlans => overflows[p] = 0
                     /\ p \in PhasePlans => m_phaseno[p] = PhaseBegin[p]
                     /\ p \in SamplePlans => owner[p] = "group"

\* From READY: no event was on, and no phase plan has a phase to wait for.
LEMMA BeginAtTrap ==
  ASSUME IInv, RoundInv, NEW p \in Plan, HandleTrap(p), m_status' = "PROFILE"
  PROVE  AtBegin'
<1> DEFINE ready == m_pstatus["READY"] \union {p}
           init == m_pstatus["INIT"] \union
                     (IF p \notin PhasePlans \/ PhaseBegin[p] = 0
                      THEN {p} ELSE {})
<1> USE FullIsAll, PlanSets DEF IInv, TypeOK, KernelTypeOK
<1>1. /\ m_status = "READY" /\ m_pidmap = Plan /\ InLoop
      /\ ready \in SUBSET Plan /\ init \in SUBSET Plan
  BY DEF HandleTrap, Waited, ProfileStatus, LoopInv, InLoop
<1>2. /\ Full(ready) /\ Full(init)
      /\ SetUpPROFILE(PerfPlans)
  BY <1>1 DEF HandleTrap, GotoPROFILE, GotoINIT, Abort, NextChild
<1>3. ready = Plan /\ init = Plan
  BY <1>1, <1>2
<1>4. \A q \in PhasePlans : PhaseBegin[q] = 0
  BY <1>1, <1>3 DEF GateInv
<1>5. /\ \A q \in Plan : /\ pend[q] = 0 /\ report[q] # "overflow"
                         /\ overflows[q] = 0 /\ ring[q] = 0
                         /\ m_phaseno[q] = 0 /\ m_samples[q] = 0
      /\ m_pstatus["PROFILE"] = {}
  BY <1>1 DEF RoundInv, QuietInv, GateInv
<1>6. /\ UNCHANGED <<pend, ring, overflows, m_phaseno, m_samples>>
      /\ \A q \in Plan : report'[q] \in {report[q], "none"}
      /\ m_pstatus'["PROFILE"] = m_pstatus["PROFILE"]
  BY DEF HandleTrap, Consume, ProfileStatus
<1>7. \A q \in SamplePlans : owner'[q] = "group"
  BY <1>2 DEF SetUpPROFILE
<1> QED
  BY <1>4, <1>5, <1>6, <1>7 DEF AtBegin

\* From INIT: the last phase plan has just reached its begin, with the one
\* overflow that it was stopped for.
LEMMA BeginAtInit ==
  ASSUME IInv, RoundInv, NEW p \in Plan, HandleInitOverflow(p),
         m_status' = "PROFILE"
  PROVE  AtBegin'
<1> DEFINE init == m_pstatus["INIT"] \union {p}
<1> USE FullIsAll, PlanSets DEF IInv, TypeOK, KernelTypeOK
<1>1. /\ m_status = "INIT" /\ m_pidmap = Plan /\ InLoop /\ p \in PhasePlans
      /\ report[p] = "overflow" /\ init \in SUBSET Plan
  BY DEF HandleInitOverflow, Waited, ProfileStatus, LoopInv, InLoop
<1>2. /\ Reached(p) /\ UpdatePhase({p}) /\ Full(init)
      /\ SetUpPROFILE(PerfPlans)
      /\ m_pstatus' = [m_pstatus EXCEPT !["INIT"] = init]
  BY <1>1 DEF HandleInitOverflow, InitOverflow, GotoPROFILE, Abort, NextChild,
              ReturnFalse
<1>3. init = Plan
  BY <1>1, <1>2
<1>4. p \notin m_pstatus["INIT"] /\ Alive(p)
  BY <1>1 DEF GateInv, ViewMatchesKernel, ReportInv, ProcState, Alive
<1>5. pend[p] = 0 /\ ring[p] = 1 /\ m_phaseno[p] + 1 = PhaseBegin[p]
  BY <1>1, <1>2, <1>4, PlanAssumption
     DEF RoundInv, CountInv, OneAtATime, Reached
<1>6. \A q \in Plan \ {p} :
        /\ pend[q] = 0 /\ ring[q] = 0
        /\ q \in PhasePlans => m_phaseno[q] = PhaseBegin[q]
        /\ report[q] # "overflow"
  BY <1>1, <1>3 DEF RoundInv, CountInv, GateInv, ViewMatchesKernel
<1>7. /\ \A q \in Plan : /\ m_samples[q] = 0
                         /\ q \notin PhasePlans => overflows[q] = 0
      /\ m_pstatus["PROFILE"] = {}
  BY <1>1 DEF RoundInv, CountInv, GateInv
<1>8. /\ UNCHANGED <<pend, overflows, m_samples>>
      /\ report' = [report EXCEPT ![p] = "none"]
      /\ m_pstatus'["PROFILE"] = m_pstatus["PROFILE"]
  BY <1>2 DEF HandleInitOverflow, Consume, ProfileStatus
<1>9. \A q \in SamplePlans : owner'[q] = "group"
  BY <1>2 DEF SetUpPROFILE
<1>10. \A q \in Plan : /\ ring'[q] = 0
                       /\ q \in PhasePlans => m_phaseno'[q] = PhaseBegin[q]
  BY <1>2, <1>5, <1>6 DEF UpdatePhase
<1> QED
  BY <1>5, <1>6, <1>7, <1>8, <1>9, <1>10 DEF AtBegin

\* There is no other way into PROFILE.
LEMMA ProfileBegins ==
  ASSUME IInv, RoundInv, [Next]_vars,
         m_status' = "PROFILE", m_status # "PROFILE"
  PROVE  AtBegin' /\ InLoop
<1>1. pc # "start" /\ m_status \in {"READY", "INIT"}
  <2>1. pc # "start"
    BY DEF Next, ProfilerStep, HandleChild, Finished, KernelNext, vars,
           profilerVars, Start, BuildRunningConfig, BuildFails, ReadSIGINT,
           ReadSIGCHLD, PollFails, LeaveLoop, EndWait, KillAll, Reap,
           ReapDone, HandleExited, HandleSignaled, HandleTrap,
           HandleUnexpected, HandleInitOverflow, HandleDeliver,
           HandleProfileOverflow, Waited
  <2>2. m_status' \in Successors[m_status] /\ m_status \in ProfileStatus
    BY <2>1, StageSteps DEF IInv, TypeOK
  <2> QED
    BY <2>1, <2>2 DEF Successors, ProfileStatus
<1>2. ASSUME NEW p \in Plan, HandleChild(p) PROVE AtBegin' /\ InLoop
  <2>1. HandleTrap(p) \/ HandleInitOverflow(p)
    BY <1>1, <1>2
       DEF HandleChild, HandleExited, GotoDONE, Abort, HandleSignaled,
           HandleUnexpected, HandleDeliver, NextChild, ReturnFalse,
           HandleProfileOverflow, Waited, IInv, LoopInv
  <2> QED
    BY <2>1, BeginAtTrap, BeginAtInit
       DEF HandleTrap, HandleInitOverflow, Waited, InLoop
<1>3. ASSUME \/ ReadSIGINT \/ PollFails \/ ReadSIGCHLD \/ LeaveLoop \/ EndWait
             \/ Start \/ KillAll \/ ReapDone \/ UNCHANGED vars
             \/ KernelNext /\ UNCHANGED profilerVars
             \/ \E p \in Plan : \/ BuildRunningConfig(p) \/ BuildFails(p)
                                \/ Reap(p)
      PROVE  FALSE
  BY <1>3
     DEF Start, ReadSIGINT, PollFails, ReadSIGCHLD, LeaveLoop, EndWait,
         KillAll, ReapDone, BuildRunningConfig, BuildFails, Reap, vars,
         profilerVars
<1> QED
  BY <1>2, <1>3 DEF Next, ProfilerStep, Finished

-----------------------------------------------------------------------------
\* A buffer holds one sample at most, and only sampled children signal.
LEMMA OneAtATimeStep ==
  ASSUME MaxBurst = 1, IInv, RoundInv, [Next]_vars
  PROVE  OneAtATime'
<1> USE PlanSets DEF IInv, TypeOK, KernelTypeOK, RoundInv, OneAtATime
<1>1. ASSUME NEW p \in Plan, HandleTrap(p) PROVE OneAtATime'
  <2> DEFINE ready == m_pstatus["READY"] \union {p}
             init == m_pstatus["INIT"] \union
                       (IF p \notin PhasePlans \/ PhaseBegin[p] = 0
                        THEN {p} ELSE {})
  <2>1. ready \ init \subseteq SamplePlans
    BY <1>1 DEF HandleTrap, Waited, LoopInv, InLoop, GateInv, ProfileStatus
  <2> QED
    BY <1>1, <2>1
       DEF HandleTrap, GotoPROFILE, GotoINIT, SetUpPROFILE, SetUpINIT
<1>2. ASSUME NEW p \in Plan, HandleInitOverflow(p) PROVE OneAtATime'
  BY <1>2
     DEF HandleInitOverflow, InitOverflow, UpdatePhase, GotoPROFILE,
         SetUpPROFILE
<1>3. ASSUME NEW p \in Plan, HandleExited(p) \/ HandleProfileOverflow(p)
      PROVE  OneAtATime'
  BY <1>3
     DEF HandleExited, HandleProfileOverflow, Barrier, GotoDONE, UpdatePhase
<1>4. ASSUME NEW p \in Plan, Overflow(p) PROVE OneAtATime'
  BY <1>4 DEF Overflow
<1>5. ASSUME UNCHANGED <<owner, ring>> PROVE OneAtATime'
  BY <1>5
<1>6. ASSUME NEW p \in Plan,
             \/ BuildRunningConfig(p) \/ BuildFails(p) \/ HandleSignaled(p)
             \/ HandleUnexpected(p) \/ HandleDeliver(p) \/ Reap(p)
      PROVE  UNCHANGED <<owner, ring>>
  BY <1>6
     DEF BuildRunningConfig, BuildFails, HandleSignaled, HandleUnexpected,
         HandleDeliver, Reap
<1>7. CASE \/ Start \/ ReadSIGINT \/ ReadSIGCHLD \/ PollFails \/ LeaveLoop
           \/ EndWait \/ KillAll \/ ReapDone
  BY <1>5, <1>7
     DEF Start, ReadSIGINT, ReadSIGCHLD, PollFails, LeaveLoop, EndWait,
         KillAll, ReapDone, kernelVars
<1>8. CASE KernelNext
  BY <1>4, <1>5, <1>8
     DEF KernelNext, ChildStep, Interrupt, ExecTrap, StartFails,
         TakeOverflowSig, TakeOtherSig, ExecAgain, Exit, KilledOutside
<1>9. CASE UNCHANGED vars
  BY <1>5, <1>9 DEF vars, kernelVars
<1> QED
  BY <1>1, <1>2, <1>3, <1>5, <1>6, <1>7, <1>8, <1>9
     DEF Next, ProfilerStep, HandleChild, Finished

\* Whatever is quiet in READY has been since the start.
LEMMA QuietInvStep ==
  ASSUME IInv, RoundInv, [Next]_vars
  PROVE  QuietInv'
<1> USE DEF IInv, TypeOK, KernelTypeOK, RoundInv, QuietInv, InLoop
<1>1. CASE Start
  BY <1>1 DEF Start, kernelVars
<1>2. ASSUME NEW p \in Plan, BuildRunningConfig(p) PROVE QuietInv'
  BY <1>2 DEF BuildRunningConfig
<1>3. ASSUME NEW p \in Plan, BuildFails(p) \/ Reap(p) PROVE QuietInv'
  BY <1>3 DEF BuildFails, Reap
<1>4. CASE \/ ReadSIGINT \/ PollFails \/ LeaveLoop \/ KillAll \/ ReapDone
  BY <1>4 DEF ReadSIGINT, PollFails, LeaveLoop, KillAll, ReapDone
<1>5. CASE ReadSIGCHLD \/ EndWait
  BY <1>5 DEF ReadSIGCHLD, EndWait, kernelVars, profilerVars
<1>6. ASSUME NEW p \in Plan,
             HandleExited(p) \/ HandleSignaled(p) \/ HandleUnexpected(p)
      PROVE  QuietInv'
  BY <1>6
     DEF HandleExited, HandleSignaled, HandleUnexpected, GotoDONE, Abort
<1>7. ASSUME NEW p \in Plan, HandleTrap(p) PROVE QuietInv'
  BY <1>7
     DEF HandleTrap, Waited, Consume, GotoPROFILE, GotoINIT, Abort, NextChild,
         LoopInv
<1>8. ASSUME NEW p \in Plan,
             \/ HandleInitOverflow(p) \/ HandleDeliver(p)
             \/ HandleProfileOverflow(p)
      PROVE  QuietInv'
  <2>1. m_status \in {"INIT", "PROFILE"} /\ pc = "wait"
    BY <1>8
       DEF HandleInitOverflow, HandleDeliver, HandleProfileOverflow, Waited,
           LoopInv, Live
  <2>2. m_status' # "READY" /\ pc' \in {"poll", "wait"}
    BY <1>8, <2>1
       DEF HandleInitOverflow, InitOverflow, HandleDeliver,
           HandleProfileOverflow, Barrier, GotoPROFILE, GotoDONE, Abort,
           NextChild, ReturnFalse
  <2> QED
    BY <2>2
<1>9. CASE KernelNext /\ UNCHANGED profilerVars
  BY <1>9
     DEF KernelNext, ChildStep, Interrupt, ExecTrap, StartFails, Overflow,
         TakeOverflowSig, TakeOtherSig, ExecAgain, Exit, KilledOutside,
         Notify, profilerVars
<1>10. CASE UNCHANGED vars
  BY <1>10 DEF vars, kernelVars, profilerVars
<1> QED
  BY <1>1, <1>2, <1>3, <1>4, <1>5, <1>6, <1>7, <1>8, <1>9, <1>10
     DEF Next, ProfilerStep, HandleChild, Finished

\* INIT begins: whoever has a phase to wait for is set up for it.
LEMMA CountAtTrap ==
  ASSUME IInv, RoundInv, NEW p \in Plan, HandleTrap(p)
  PROVE  CountInv'
<1> SUFFICES ASSUME m_status' = "INIT" PROVE CountInv'
  BY DEF CountInv
<1> DEFINE ready == m_pstatus["READY"] \union {p}
           init == m_pstatus["INIT"] \union
                     (IF p \notin PhasePlans \/ PhaseBegin[p] = 0
                      THEN {p} ELSE {})
           todo == ready \ init
<1> USE FullIsAll, PlanSets DEF IInv, TypeOK, KernelTypeOK
<1>1. /\ m_status = "READY" /\ m_pidmap = Plan /\ InLoop
      /\ ready \in SUBSET Plan /\ init \in SUBSET Plan
  BY DEF HandleTrap, Waited, ProfileStatus, LoopInv, InLoop
<1>2. Full(ready) /\ SetUpINIT(todo)
  BY <1>1 DEF HandleTrap, GotoPROFILE, GotoINIT, Abort, NextChild
<1>3. ready = Plan
  BY <1>1, <1>2
<1>4. \A q \in Plan : q \in init <=> q \notin PhasePlans \/ PhaseBegin[q] = 0
  BY <1>1, <1>3 DEF GateInv
<1>5. /\ enabled = {}
      /\ \A q \in Plan : /\ pend[q] = 0 /\ report[q] # "overflow"
                         /\ overflows[q] = 0 /\ ring[q] = 0
                         /\ m_phaseno[q] = 0 /\ m_samples[q] = 0
  BY <1>1 DEF RoundInv, QuietInv
<1>6. /\ UNCHANGED <<pend, ring, overflows, m_phaseno, m_samples>>
      /\ \A q \in Plan : report'[q] \in {report[q], "none"}
      /\ m_pstatus'["INIT"] = init
  BY DEF HandleTrap, Consume, ProfileStatus
<1>7. \A q \in Plan : q \in enabled' => q \in PhasePlans /\ owner'[q] = "self"
  BY <1>2, <1>3, <1>4, <1>5 DEF SetUpINIT
<1> QED
  BY <1>4, <1>5, <1>6, <1>7, PlanAssumption DEF CountInv

\* An overflow in INIT is counted, and its child held or sent on.
LEMMA CountAtInit ==
  ASSUME IInv, RoundInv, NEW p \in Plan, HandleInitOverflow(p)
  PROVE  CountInv'
<1> SUFFICES ASSUME m_status' = "INIT" PROVE CountInv'
  BY DEF CountInv
<1> DEFINE init == m_pstatus["INIT"] \union {p}
<1> USE PlanSets DEF IInv, TypeOK, KernelTypeOK
<1>1. /\ m_status = "INIT" /\ InLoop /\ p \in PhasePlans
      /\ report[p] = "overflow" /\ CountInv
  BY DEF HandleInitOverflow, Waited, LoopInv, InLoop, RoundInv
<1>2. p \notin m_pstatus["INIT"] /\ Alive(p)
  BY <1>1 DEF GateInv, ViewMatchesKernel, ReportInv, ProcState, Alive
<1>3. /\ pend[p] = 0 /\ ring[p] = 1 /\ m_phaseno[p] < PhaseBegin[p]
  BY <1>1, <1>2 DEF RoundInv, CountInv, OneAtATime
<1>4. /\ UpdatePhase({p})
      /\ UNCHANGED <<pend, overflows, m_samples, owner, enabled>>
      /\ report' = [report EXCEPT ![p] = "none"]
      /\ \/ Reached(p) /\ m_pstatus' = [m_pstatus EXCEPT !["INIT"] = init]
         \/ ~Reached(p) /\ m_pstatus' = m_pstatus
      /\ \A q \in Plan \ {p} : proc'[q] = proc[q]
  BY <1>1 DEF HandleInitOverflow, InitOverflow, GotoPROFILE, Abort, NextChild,
              ReturnFalse, Consume, Wakeup, Wakeups, Resumed
<1>5. /\ ring'[p] = 0 /\ pend'[p] = 0
      /\ m_phaseno'[p] = m_phaseno[p] + 1
      /\ IF p \in m_pstatus'["INIT"] THEN m_phaseno'[p] = PhaseBegin[p]
                                     ELSE m_phaseno'[p] < PhaseBegin[p]
      /\ report'[p] = "none"
  <2>1. /\ ring'[p] = 0 /\ pend'[p] = 0 /\ report'[p] = "none"
        /\ m_phaseno'[p] = m_phaseno[p] + 1
    BY <1>3, <1>4 DEF UpdatePhase
  <2>2. p \in m_pstatus'["INIT"] <=> Reached(p)
    BY <1>2, <1>4 DEF ProfileStatus
  <2>3. Reached(p) <=> m_phaseno[p] + 1 >= PhaseBegin[p]
    BY <1>3 DEF Reached
  <2> QED
    BY <1>3, <2>1, <2>2, <2>3, PlanAssumption
<1>6. \A q \in Plan \ {p} :
        /\ ring'[q] = ring[q] /\ m_phaseno'[q] = m_phaseno[q]
        /\ q \in m_pstatus'["INIT"] <=> q \in m_pstatus["INIT"]
        /\ report'[q] = report[q] /\ (Alive(q)' <=> Alive(q))
  BY <1>4 DEF UpdatePhase, ProfileStatus, Alive
<1> QED
  BY <1>1, <1>4, <1>5, <1>6 DEF CountInv

\* In INIT each child is on its way with one overflow at most, or held.
LEMMA CountInvStep ==
  ASSUME MaxBurst = 1, IInv, RoundInv, [Next]_vars
  PROVE  CountInv'
<1> USE DEF IInv, TypeOK, KernelTypeOK, RoundInv, CountInv, InLoop, Alive
<1>1. CASE \/ Start \/ ReadSIGINT \/ PollFails \/ LeaveLoop \/ KillAll
           \/ ReapDone
  BY <1>1
     DEF Start, ReadSIGINT, PollFails, LeaveLoop, KillAll, ReapDone
<1>2. ASSUME NEW p \in Plan,
             \/ BuildRunningConfig(p) \/ BuildFails(p) \/ Reap(p)
             \/ HandleExited(p) \/ HandleSignaled(p) \/ HandleUnexpected(p)
      PROVE  CountInv'
  BY <1>2
     DEF BuildRunningConfig, BuildFails, Reap, HandleExited, HandleSignaled,
         HandleUnexpected, GotoDONE, Abort, StartInv
<1>3. CASE ReadSIGCHLD \/ EndWait
  BY <1>3 DEF ReadSIGCHLD, EndWait, kernelVars, profilerVars
<1>4. ASSUME NEW p \in Plan, HandleTrap(p) PROVE CountInv'
  BY <1>4, CountAtTrap
<1>5. ASSUME NEW p \in Plan, HandleInitOverflow(p) PROVE CountInv'
  BY <1>5, CountAtInit
<1>6. ASSUME NEW p \in Plan, HandleDeliver(p) PROVE CountInv'
  <2>1. /\ UNCHANGED <<pend, owner, enabled, ring, overflows, m_pstatus,
                       m_phaseno, m_samples>>
        /\ report[p] \in {"trap", "other"} /\ report'[p] # "overflow"
        /\ \A q \in Plan \ {p} : report'[q] = report[q] /\ proc'[q] = proc[q]
        /\ m_status' = "INIT" => m_status = "INIT"
    BY <1>6
       DEF HandleDeliver, Waited, Consume, Wakeup, Resumed, Notify, NextChild,
           ReturnFalse
  <2>2. Alive(p) /\ pc = "wait"
    BY <1>6, <2>1 DEF HandleDeliver, Waited, ReportInv, ProcState
  <2> QED
    BY <2>1, <2>2
<1>7. ASSUME NEW p \in Plan, HandleProfileOverflow(p) PROVE CountInv'
  BY <1>7
     DEF HandleProfileOverflow, Waited, LoopInv, Barrier, GotoDONE, Abort,
         NextChild, ReturnFalse
<1>8. ASSUME NEW p \in Plan, Overflow(p), UNCHANGED profilerVars
      PROVE  CountInv'
  <2> SUFFICES ASSUME InLoop, m_status = "INIT" PROVE CountInv'
    BY <1>8 DEF Overflow, profilerVars
  <2>1. p \notin m_pstatus["INIT"]
    BY <1>8 DEF Overflow, GateInv, ViewMatchesKernel
  <2>2. p \in PhasePlans /\ owner[p] = "self" /\ Alive(p)
    BY <1>8 DEF Overflow
  <2>3. /\ UNCHANGED <<proc, report, owner, enabled, m_pstatus, m_phaseno,
                       m_samples>>
        /\ ring' = [ring EXCEPT ![p] = @ + 1]
        /\ overflows' = [overflows EXCEPT ![p] = @ + 1]
        /\ pend'[p] = pend[p] + 1
        /\ \A q \in Plan \ {p} : pend'[q] = pend[q]
    BY <1>8, <2>2 DEF Overflow, profilerVars
  <2> QED
    BY <2>1, <2>2, <2>3
<1>9. ASSUME NEW p \in Plan, TakeOverflowSig(p), UNCHANGED profilerVars
      PROVE  CountInv'
  BY <1>9 DEF TakeOverflowSig, Notify, profilerVars, ReportInv
<1>10. ASSUME NEW p \in Plan, UNCHANGED profilerVars,
              \/ ExecTrap(p) \/ StartFails(p) \/ TakeOtherSig(p)
              \/ ExecAgain(p) \/ Exit(p) \/ KilledOutside(p)
       PROVE  CountInv'
  BY <1>10
     DEF ExecTrap, StartFails, TakeOtherSig, ExecAgain, Exit, KilledOutside,
         Notify, profilerVars, ReportInv
<1>11. CASE KernelNext /\ UNCHANGED profilerVars
  BY <1>8, <1>9, <1>10, <1>11
     DEF KernelNext, ChildStep, Interrupt, profilerVars
<1>12. CASE UNCHANGED vars
  BY <1>12 DEF vars, kernelVars, profilerVars
<1> QED
  BY <1>1, <1>2, <1>3, <1>4, <1>5, <1>6, <1>7, <1>11, <1>12
     DEF Next, ProfilerStep, HandleChild, Finished

\* What the steps within PROFILE leave alone.
LEMMA WithinProfile ==
  ASSUME IInv, [Next]_vars, InLoop',
         m_status = "PROFILE", m_status' = "PROFILE"
  PROVE  InLoop /\ UNCHANGED owner
<1>1. InLoop
  BY DEF Next, ProfilerStep, HandleChild, Finished, KernelNext, ChildStep,
         Interrupt, ExecTrap, StartFails, Overflow, TakeOverflowSig,
         TakeOtherSig, ExecAgain, Exit, KilledOutside, vars,
         Start, BuildRunningConfig, BuildFails, ReadSIGINT, ReadSIGCHLD,
         PollFails, LeaveLoop, EndWait, KillAll, Reap, ReapDone,
         HandleExited, HandleSignaled, HandleTrap, HandleUnexpected,
         HandleInitOverflow, HandleDeliver, HandleProfileOverflow, Waited,
         InLoop, IInv, StartInv
<1>2. UNCHANGED owner
  BY <1>1
     DEF Next, ProfilerStep, HandleChild, Finished, KernelNext, ChildStep,
         Interrupt, ExecTrap, StartFails, Overflow, TakeOverflowSig,
         TakeOtherSig, ExecAgain, Exit, KilledOutside, vars, kernelVars,
         Start, BuildRunningConfig, BuildFails, ReadSIGINT, ReadSIGCHLD,
         PollFails, LeaveLoop, EndWait, KillAll, Reap, ReapDone,
         HandleExited, HandleSignaled, HandleTrap, HandleUnexpected,
         HandleInitOverflow, HandleDeliver, HandleProfileOverflow, Waited,
         InLoop, IInv, LoopInv
<1> QED
  BY <1>1, <1>2

\* Nobody takes the group ownership of PROFILE back.
LEMMA GroupInvStep ==
  ASSUME IInv, RoundInv, [Next]_vars
  PROVE  GroupInv'
<1> SUFFICES ASSUME InLoop', m_status' = "PROFILE" PROVE GroupInv'
  BY DEF GroupInv
<1>1. CASE m_status # "PROFILE"
  BY <1>1, ProfileBegins, PlanSets DEF GroupInv, AtBegin
<1>2. CASE m_status = "PROFILE"
  BY <1>2, WithinProfile DEF GroupInv, RoundInv
<1> QED
  BY <1>1, <1>2

\* From PROFILE on, phases are stepped for all sample plans at once.
LEMMA PhasesTogether ==
  ASSUME IInv, [Next]_vars,
         m_status \in {"PROFILE", "DONE"}, m_status' \in {"PROFILE", "DONE"}
  PROVE  \/ UNCHANGED <<m_status, m_phaseno>>
         \/ /\ m_status = "PROFILE" /\ InLoop
            /\ UpdatePhase(SamplePlans)
            /\ m_status' = "PROFILE" => Ended = {}
<1>1. ASSUME NEW p \in Plan, HandleExited(p)
      PROVE  /\ m_status = "PROFILE" /\ m_status' = "DONE" /\ InLoop
             /\ UpdatePhase(SamplePlans)
  BY <1>1
     DEF HandleExited, GotoDONE, Abort, Waited, InLoop, IInv, LoopInv
<1>2. ASSUME NEW p \in Plan, HandleProfileOverflow(p)
      PROVE  \/ UNCHANGED <<m_status, m_phaseno>>
             \/ /\ m_status = "PROFILE" /\ InLoop
                /\ UpdatePhase(SamplePlans)
                /\ m_status' = "PROFILE" => Ended = {}
  BY <1>2
     DEF HandleProfileOverflow, Barrier, GotoDONE, Abort, NextChild,
         ReturnFalse, Waited, InLoop, IInv, LoopInv
<1>3. ASSUME NEW p \in Plan,
             HandleSignaled(p) \/ HandleUnexpected(p) \/ HandleTrap(p)
               \/ HandleInitOverflow(p)
      PROVE  FALSE
  BY <1>3
     DEF HandleSignaled, HandleUnexpected, HandleTrap, HandleInitOverflow,
         Abort, Waited, IInv, LoopInv
<1>4. ASSUME NEW p \in Plan, HandleDeliver(p) \/ Reap(p)
      PROVE  UNCHANGED <<m_status, m_phaseno>>
  BY <1>4 DEF HandleDeliver, NextChild, ReturnFalse, Reap, profilerVars
<1>5. ASSUME NEW p \in Plan, BuildRunningConfig(p) \/ BuildFails(p)
      PROVE  UNCHANGED <<m_status, m_phaseno>>
  BY <1>5 DEF BuildRunningConfig, BuildFails
<1>6. CASE \/ Start \/ ReadSIGINT \/ ReadSIGCHLD \/ PollFails \/ LeaveLoop
           \/ EndWait \/ KillAll \/ ReapDone
           \/ KernelNext /\ UNCHANGED profilerVars
           \/ UNCHANGED vars
  BY <1>6
     DEF Start, ReadSIGINT, ReadSIGCHLD, PollFails, LeaveLoop, EndWait,
         KillAll, ReapDone, vars, profilerVars
<1> QED
  BY <1>1, <1>2, <1>3, <1>4, <1>5, <1>6
     DEF Next, ProfilerStep, HandleChild, Finished

\* A phase that has ended ends the run in the same step.
LEMMA PhaseWindowStep ==
  ASSUME MaxBurst = 1, IInv, RoundInv, [Next]_vars
  PROVE  PhaseWindow'
<1> USE PlanSets, PlanAssumption DEF IInv, TypeOK, KernelTypeOK, RoundInv
<1> SUFFICES ASSUME NEW p \in PhasePlans
             PROVE  /\ InLoop' /\ m_status' = "PROFILE"
                         => m_phaseno'[p] < PhaseEnd[p]
                    /\ m_status' = "DONE" => m_phaseno'[p] <= PhaseEnd[p]
  BY DEF PhaseWindow
<1>1. CASE m_status \notin {"PROFILE", "DONE"}
  <2>1. m_status' = "PROFILE" => m_phaseno'[p] = PhaseBegin[p]
    BY <1>1, ProfileBegins DEF AtBegin
  <2>2. m_status' # "DONE"
    <3>1. CASE pc = "start"
      BY <1>1, <3>1
         DEF Next, ProfilerStep, HandleChild, Finished, KernelNext, vars,
             profilerVars, Start, BuildRunningConfig, BuildFails, ReadSIGINT,
             ReadSIGCHLD, PollFails, LeaveLoop, EndWait, KillAll, Reap,
             ReapDone, HandleExited, HandleSignaled, HandleTrap,
             HandleUnexpected, HandleInitOverflow, HandleDeliver,
             HandleProfileOverflow, Waited
    <3>2. CASE pc # "start"
      BY <1>1, <3>2, StageSteps DEF Successors, ProfileStatus
    <3> QED
      BY <3>1, <3>2
  <2> QED
    BY <2>1, <2>2
<1>2. CASE m_status \in {"PROFILE", "DONE"} /\ m_status' \in {"PROFILE", "DONE"}
  <2>1. CASE UNCHANGED <<m_status, m_phaseno>>
    <3>1. m_status = "PROFILE" /\ InLoop' => InLoop
      BY <2>1, WithinProfile
    <3> QED
      BY <2>1, <3>1 DEF PhaseWindow
  <2>2. CASE /\ m_status = "PROFILE" /\ InLoop
             /\ UpdatePhase(SamplePlans)
             /\ m_status' = "PROFILE" => Ended = {}
    <3>1. m_phaseno'[p] = m_phaseno[p] + ring[p]
      BY <2>2 DEF UpdatePhase
    <3>2. m_phaseno[p] < PhaseEnd[p] /\ ring[p] <= 1
      BY <2>2 DEF PhaseWindow, OneAtATime
    <3>3. m_status' = "PROFILE" => ~(m_phaseno[p] + ring[p] >= PhaseEnd[p])
      BY <2>2 DEF Ended
    <3> QED
      BY <1>2, <3>1, <3>2, <3>3
  <2> QED
    BY <1>2, <2>1, <2>2, PhasesTogether
<1> QED
  BY <1>1, <1>2

-----------------------------------------------------------------------------
\* The number of rounds that is due, and its terms, are integers.
LEMMA SinceBeginType ==
  TypeOK => /\ IsFiniteSet(SamplePlans)
            /\ \A p \in SamplePlans : SinceBegin[p] \in Int
            /\ SumFunctionOnSet(SinceBegin, SamplePlans) \in Int
<1> SUFFICES ASSUME TypeOK
             PROVE  /\ IsFiniteSet(SamplePlans)
                    /\ \A p \in SamplePlans : SinceBegin[p] \in Int
                    /\ SumFunctionOnSet(SinceBegin, SamplePlans) \in Int
  OBVIOUS
<1>1. IsFiniteSet(SamplePlans)
  BY PlanAssumption, FS_Subset, PlanSets
<1>2. \A p \in SamplePlans : SinceBegin[p] \in Int
  BY PlanAssumption, PlanSets DEF SinceBegin, TypeOK, KernelTypeOK
<1> QED
  BY <1>1, <1>2, SumType

\* When PROFILE begins nothing is due and nothing has been collected.
LEMMA RoundsAtBegin ==
  ASSUME IInv', AtBegin', m_status' = "PROFILE"
  PROVE  OneRoundPerOverflow'
<1> USE PlanSets
<1>1. \A p \in SamplePlans : SinceBegin'[p] = 0
  BY PlanAssumption
     DEF AtBegin, IInv, PhaseExact, SinceBegin, TypeOK, KernelTypeOK
<1>2. SumFunctionOnSet(SinceBegin', SamplePlans) = 0
  BY <1>1, SumZero, PlanAssumption, FS_Subset
<1>3. \A p \in Plan, q \in PerfPlans : m_samples'[q] + Due(p)' = 0
  BY DEF AtBegin, Due
<1> QED
  BY <1>2, <1>3 DEF OneRoundPerOverflow

\* A step that collects nothing and answers nothing leaves the balance alone.
LEMMA RoundsUnmoved ==
  ASSUME IInv, RoundInv, m_status = "PROFILE", InLoop,
         UNCHANGED <<overflows, m_samples>>,
         \A p \in Plan : Alive(p)' => Alive(p) /\ Due(p)' = Due(p)
  PROVE  OneRoundPerOverflow'
<1>1. SinceBegin' = SinceBegin
  BY DEF SinceBegin
<1> QED
  BY <1>1 DEF RoundInv, OneRoundPerOverflow

\* The one overflow of a sampled child makes a round due for every child.
LEMMA RoundsAtOverflow ==
  ASSUME IInv, RoundInv, m_status = "PROFILE", InLoop, InLoop',
         NEW p \in Plan, Overflow(p), UNCHANGED profilerVars
  PROVE  OneRoundPerOverflow'
<1> USE PlanSets DEF IInv, TypeOK, KernelTypeOK, RoundInv
<1>1. p \in SamplePlans /\ owner[p] = "group"
  BY DEF Overflow, OneAtATime, GroupInv
<1>2. SumFunctionOnSet(SinceBegin', SamplePlans)
        = SumFunctionOnSet(SinceBegin, SamplePlans) + 1
  <2>1. \A q \in SamplePlans :
          SinceBegin'[q] = (IF q = p THEN SinceBegin[q] + 1 ELSE SinceBegin[q])
    <3>1. \A q \in Plan :
            /\ overflows[q] \in Int
            /\ overflows'[q] = overflows[q] + (IF q = p THEN 1 ELSE 0)
      BY DEF Overflow
    <3> DEFINE from(q) == IF q \in PhasePlans THEN PhaseBegin[q] ELSE 0
    <3>2. \A q \in SamplePlans : from(q) \in Int
      BY PlanAssumption
    <3>3. \A q \in SamplePlans : /\ SinceBegin[q] = overflows[q] - from(q)
                                 /\ SinceBegin'[q] = overflows'[q] - from(q)
      BY DEF SinceBegin
    <3> HIDE DEF from
    <3> QED
      BY <3>1, <3>2, <3>3
  <2> QED
    BY <1>1, <2>1, SumPlusOne, SinceBeginType
<1>3. \A q \in Plan : Alive(q)' => Alive(q) /\ Due(q)' = Due(q) + 1
  BY <1>1 DEF Overflow, Alive, Due, profilerVars
<1>4. SumFunctionOnSet(SinceBegin, SamplePlans) \in Int
  BY SinceBeginType
<1>5. \A q \in Plan : Due(q) \in Int
  BY DEF Due
<1>6. \A q \in Plan, r \in PerfPlans :
        Alive(q) =>
          m_samples[r] + Due(q) = SumFunctionOnSet(SinceBegin, SamplePlans)
  BY DEF OneRoundPerOverflow
<1>7. UNCHANGED m_samples
  BY DEF profilerVars
<1> SUFFICES ASSUME NEW q \in Plan, NEW r \in PerfPlans, Alive(q)'
             PROVE  m_samples'[r] + Due(q)'
                      = SumFunctionOnSet(SinceBegin', SamplePlans)
  BY DEF OneRoundPerOverflow
<1> QED
  BY <1>2, <1>3, <1>4, <1>5, <1>6, <1>7

\* Reaching the barrier is an answer; opening it collects the round for all.
LEMMA RoundsAtBarrier ==
  ASSUME IInv, RoundInv, m_status = "PROFILE", InLoop, m_status' = "PROFILE",
         NEW p \in Plan, HandleProfileOverflow(p)
  PROVE  OneRoundPerOverflow'
<1> DEFINE all == m_pstatus["PROFILE"] \union {p}
           st == SeenStopped(p)
<1> USE PlanSets, FullIsAll DEF IInv, TypeOK, KernelTypeOK
<1>1. /\ m_pidmap = Plan /\ all \in SUBSET Plan
      /\ report[p] = "overflow" /\ report' = [report EXCEPT ![p] = "none"]
      /\ UNCHANGED <<pend, overflows>>
  BY DEF HandleProfileOverflow, Waited, Consume, LoopInv, ProfileStatus
<1>2. \A q \in m_pstatus["PROFILE"] : report[q] # "overflow"
  BY DEF GateInv, ViewMatchesKernel, ProfileStatus
<1>3. CASE ~Full(all)
  <2>1. m_pstatus'["PROFILE"] = all /\ UNCHANGED <<m_samples, proc>>
    BY <1>3 DEF HandleProfileOverflow, Barrier, ProfileStatus
  <2>2. \A q \in Plan : Alive(q)' => Alive(q) /\ Due(q)' = Due(q)
    BY <1>1, <1>2, <2>1 DEF Due, Alive
  <2> QED
    BY <1>1, <2>1, <2>2, RoundsUnmoved
<1>4. CASE Full(all)
  <2>1. Barrier(st) /\ all = Plan
    BY <1>1, <1>4 DEF HandleProfileOverflow
  <2>2. /\ m_samples' = Sampled(m_samples, PerfPlans)
        /\ m_pstatus'["PROFILE"] = {}
        /\ \E W \in Wakeups(StoppedView(st)) :
             W = StoppedView(st) /\ Wakeup(st, W)
    BY <2>1
       DEF Barrier, GotoDONE, Abort, NextChild, ReturnFalse, Cleared,
           ProfileStatus
  <2>3. StoppedView(st) = Plan
    BY <1>1, <2>1 DEF StoppedView, SeenStopped, GateInv
  <2>4. \A q \in Plan : Alive(q)
    BY <2>2, <2>3 DEF Wakeups, Stopped, Alive
  <2>5. \A q \in Plan : Due(q) \in Int /\ Due(q)' = Due(q) - 1
    BY <1>1, <1>2, <2>1, <2>2 DEF Due
  <2>6. \A r \in PerfPlans : m_samples'[r] = m_samples[r] + 1
    BY <2>2 DEF Sampled
  <2>7. SinceBegin' = SinceBegin
    BY <1>1 DEF SinceBegin
  <2>8. \A q \in Plan, r \in PerfPlans :
          m_samples[r] + Due(q) = SumFunctionOnSet(SinceBegin, SamplePlans)
    BY <2>4 DEF RoundInv, OneRoundPerOverflow
  <2>9. \A q \in Plan, r \in PerfPlans :
          m_samples'[r] + Due(q)' = m_samples[r] + Due(q)
    BY <2>5, <2>6
  <2> QED
    BY <2>7, <2>8, <2>9 DEF OneRoundPerOverflow
<1> QED
  BY <1>3, <1>4

\* Rounds collected and rounds owed balance, in PROFILE and at its entry.
LEMMA OneRoundStep ==
  ASSUME IInv, IInv', RoundInv, [Next]_vars
  PROVE  OneRoundPerOverflow'
<1> SUFFICES ASSUME InLoop', m_status' = "PROFILE"
             PROVE  OneRoundPerOverflow'
  BY DEF OneRoundPerOverflow
<1>1. CASE m_status # "PROFILE"
  BY <1>1, ProfileBegins, RoundsAtBegin
<1>2. CASE m_status = "PROFILE"
  <2> USE <1>2
  <2>1. InLoop
    BY WithinProfile
  <2>2. ASSUME NEW p \in Plan, HandleProfileOverflow(p)
        PROVE  OneRoundPerOverflow'
    BY <2>1, <2>2, RoundsAtBarrier
  <2>3. ASSUME NEW p \in Plan, Overflow(p), UNCHANGED profilerVars
        PROVE  OneRoundPerOverflow'
    BY <2>1, <2>3, RoundsAtOverflow
  <2>4. ASSUME NEW p \in Plan, HandleDeliver(p)
        PROVE  OneRoundPerOverflow'
    <3>1. UNCHANGED <<pend, overflows, m_samples, m_pstatus>>
      BY <2>4 DEF HandleDeliver
    <3>2. /\ report[p] \in {"trap", "other"} /\ report'[p] # "overflow"
          /\ \A q \in Plan \ {p} : report'[q] = report[q] /\ proc'[q] = proc[q]
      BY <2>4
         DEF HandleDeliver, Waited, Consume, Wakeup, Resumed, Notify, IInv,
             TypeOK, KernelTypeOK
    <3>3. Alive(p)
      BY <3>2 DEF Alive, IInv, ReportInv, TypeOK, KernelTypeOK, ProcState
    <3>4. \A q \in Plan : Alive(q)' => Alive(q) /\ Due(q)' = Due(q)
      BY <3>1, <3>2, <3>3 DEF Alive, Due
    <3> QED
      BY <2>1, <3>1, <3>4, RoundsUnmoved
  <2>5. ASSUME NEW p \in Plan, TakeOverflowSig(p), UNCHANGED profilerVars
        PROVE  OneRoundPerOverflow'
    <3>1. /\ UNCHANGED <<overflows, m_samples, m_pstatus>>
          /\ Alive(p) /\ report[p] = "none" /\ report'[p] = "overflow"
          /\ pend[p] \in Nat /\ pend'[p] = pend[p] - 1
          /\ \A q \in Plan \ {p} : /\ report'[q] = report[q]
                                   /\ proc'[q] = proc[q] /\ pend'[q] = pend[q]
      BY <2>5
         DEF TakeOverflowSig, Notify, profilerVars, Alive, IInv, ReportInv,
             TypeOK, KernelTypeOK
    <3>2. \A q \in Plan : Alive(q)' => Alive(q) /\ Due(q)' = Due(q)
      BY <3>1 DEF Alive, Due
    <3> QED
      BY <2>1, <3>1, <3>2, RoundsUnmoved
  <2>6. ASSUME NEW p \in Plan, UNCHANGED profilerVars,
               \/ ExecTrap(p) \/ StartFails(p) \/ TakeOtherSig(p)
               \/ ExecAgain(p) \/ Exit(p) \/ KilledOutside(p)
        PROVE  OneRoundPerOverflow'
    <3>1. UNCHANGED <<overflows, pend, m_samples, m_pstatus>>
      BY <2>6
         DEF ExecTrap, StartFails, TakeOtherSig, ExecAgain, Exit,
             KilledOutside, profilerVars
    <3>2. /\ Alive(p)' => Alive(p) /\ report[p] = "none"
                          /\ report'[p] # "overflow"
          /\ \A q \in Plan \ {p} : report'[q] = report[q] /\ proc'[q] = proc[q]
      BY <2>6
         DEF ExecTrap, StartFails, TakeOtherSig, ExecAgain, Exit,
             KilledOutside, Notify, Alive, IInv, ReportInv, TypeOK,
             KernelTypeOK
    <3>3. \A q \in Plan : Alive(q)' => Alive(q) /\ Due(q)' = Due(q)
      BY <3>1, <3>2 DEF Alive, Due
    <3> QED
      BY <2>1, <3>1, <3>3, RoundsUnmoved
  <2>7. ASSUME UNCHANGED <<proc, report, pend, overflows, m_samples, m_pstatus>>
        PROVE  OneRoundPerOverflow'
    <3>1. \A q \in Plan : Alive(q)' => Alive(q) /\ Due(q)' = Due(q)
      BY <2>7 DEF Alive, Due
    <3> QED
      BY <2>1, <2>7, <3>1, RoundsUnmoved
  <2>8. CASE ReadSIGCHLD \/ EndWait \/ UNCHANGED vars
    BY <2>7, <2>8
       DEF ReadSIGCHLD, EndWait, vars, kernelVars, profilerVars
  <2>9. CASE KernelNext /\ UNCHANGED profilerVars
    BY <2>3, <2>5, <2>6, <2>7, <2>9
       DEF KernelNext, ChildStep, Interrupt, profilerVars
  <2>10. ASSUME \/ Start \/ ReadSIGINT \/ PollFails \/ LeaveLoop \/ KillAll
                \/ ReapDone
                \/ \E p \in Plan :
                     \/ BuildRunningConfig(p) \/ BuildFails(p) \/ Reap(p)
                     \/ HandleExited(p) \/ HandleSignaled(p) \/ HandleTrap(p)
                     \/ HandleUnexpected(p) \/ HandleInitOverflow(p)
         PROVE  FALSE
    BY <2>1, <2>10
       DEF Start, ReadSIGINT, PollFails, LeaveLoop, KillAll, ReapDone,
           BuildRunningConfig, BuildFails, Reap, HandleExited, GotoDONE,
           HandleSignaled, HandleTrap, HandleUnexpected, HandleInitOverflow,
           Abort, Waited, InLoop, Live, IInv, LoopInv
  <2> QED
    BY <2>2, <2>4, <2>8, <2>9, <2>10
       DEF Next, ProfilerStep, HandleChild, Finished
<1> QED
  BY <1>1, <1>2

-----------------------------------------------------------------------------
(***************************************************************************)
(* The inductive invariant.  PhaseWindow needs OneAtATime, a phase being   *)
(* stepped by what is in the buffer; OneRoundPerOverflow needs the owner   *)
(* to be the group (GroupInv), and, for the entry of PROFILE, that nothing *)
(* is left over from INIT (QuietInv, CountInv).                            *)
(***************************************************************************)
LEMMA InitRounds == Init => RoundInv
<1> SUFFICES ASSUME Init PROVE RoundInv
  OBVIOUS
<1>1. pc = "start" /\ m_status = "ABORT" /\ ~InLoop
  BY DEF Init, InLoop
<1>2. OneAtATime /\ QuietInv
  BY DEF Init, KernelInit, NewConfig, OneAtATime, QuietInv
<1>3. CountInv /\ GroupInv /\ PhaseWindow /\ OneRoundPerOverflow
  BY <1>1 DEF CountInv, GroupInv, PhaseWindow, OneRoundPerOverflow
<1> QED
  BY <1>2, <1>3 DEF RoundInv

\* Every step keeps it.
LEMMA NextRounds ==
  ASSUME MaxBurst = 1
  PROVE  IInv /\ RoundInv /\ [Next]_vars => IInv' /\ RoundInv'
<1> SUFFICES ASSUME IInv, RoundInv, [Next]_vars PROVE IInv' /\ RoundInv'
  OBVIOUS
<1>1. IInv'
  BY NextInv
<1> QED
  BY <1>1, OneAtATimeStep, QuietInvStep, CountInvStep, GroupInvStep,
     PhaseWindowStep, OneRoundStep
     DEF RoundInv

\* It holds in every behaviour.
LEMMA RoundsInvariant ==
  ASSUME MaxBurst = 1
  PROVE  Spec => [](IInv /\ RoundInv)
<1>1. Init => IInv /\ RoundInv
  BY InitInv, InitRounds
<1>2. IInv /\ RoundInv /\ [Next]_vars => (IInv /\ RoundInv)'
  BY NextRounds
<1> QED
  BY <1>1, <1>2, PTL DEF Spec

(***************************************************************************)
(* A phase that has reached its end ends the run: PROFILE never goes on    *)
(* with it, and it is not counted past its end.                            *)
(***************************************************************************)
THEOREM PhasesEndInTime ==
  ASSUME MaxBurst = 1
  PROVE  Spec => []PhaseWindow
<1>1. IInv /\ RoundInv => PhaseWindow
  BY DEF RoundInv
<1> QED
  BY <1>1, RoundsInvariant, PTL

(***************************************************************************)
(* However many children are sampled and however their signals interleave, *)
(* each living child has answered or still owes one round of samples per   *)
(* overflow of any of them, no more and no fewer.                          *)
(***************************************************************************)
THEOREM RoundsBalance ==
  ASSUME MaxBurst = 1
  PROVE  Spec => []OneRoundPerOverflow
<1>1. IInv /\ RoundInv => OneRoundPerOverflow
  BY DEF RoundInv
<1> QED
  BY <1>1, RoundsInvariant, PTL

(***************************************************************************)
(* PROFILE is entered with every phase plan exactly at its phase begin.    *)
(***************************************************************************)
THEOREM PhasesStartOnTime ==
  ASSUME MaxBurst = 1
  PROVE  Spec => PhaseStartsExactly
<1>1. IInv /\ RoundInv /\ [Next]_vars
        => [m_status' = "PROFILE" /\ m_status # "PROFILE"
              => \A p \in PhasePlans : m_phaseno'[p] = PhaseBegin[p]]_vars
  BY ProfileBegins, PlanSets DEF AtBegin
<1> QED
  BY <1>1, RoundsInvariant, PTL DEF Spec, PhaseStartsExactly
=============================================================================
