------------------------- MODULE ProfilerInvariant -------------------------
(***************************************************************************)
(* An inductive invariant of ParallelProfiler, for every set of plans and  *)
(* every bound.  It adds to the properties of module ProfilerProperties    *)
(* what they rest on: how wait statuses and scheduling states go together, *)
(* what holds before the loop of profile() and after it, and which         *)
(* children each set of m_pstatus holds at each stage.                     *)
(***************************************************************************)
EXTENDS ProfilerProperties

\* waitpid reports a stop of a stopped child, and a death of a dead one.
ReportInv ==
  \A p \in Plan :
    /\ proc[p] \in {"none", "forked", "running", "reaped"}
         => report[p] = "none"
    /\ proc[p] = "traced" => report[p] \in {"none", "trap", "overflow", "other"}
    /\ proc[p] = "zombie" => report[p] \in {"exited", "signaled"}

\* Up to the loop, exactly the children in m_pidmap have been started.
StartInv ==
  /\ pc = "start" => \A p \in Plan : /\ proc[p] = "none"
                                      /\ ring[p] = 0 /\ overflows[p] = 0
  /\ pc = "build" => /\ m_status = "READY" /\ err = 0
                     /\ m_pstatus = [s \in ProfileStatus |-> {}]
                     /\ \A p \in Plan : /\ p \in m_pidmap <=> proc[p] # "none"
                                        /\ proc[p] # "reaped"
                                        /\ proc[p] = "traced"
                                             => report[p] # "none"
  /\ pc \in {"start", "build"} => NewConfig /\ m_result = {}

LoopInv ==
  /\ InLoop => /\ m_pidmap = Plan
               /\ m_status # "ABORT" => err = 0
               /\ \A p \in Plan : proc[p] # "none"
  /\ pc = "wait" => Live /\ profStatus = m_status

\* Only perf plans have an event, so that gotoDONE stops all of them.
EventInv == enabled \subseteq PerfPlans

\* READY and INIT have not ended, and hold the children that are through.
GateInv ==
  InLoop =>
    /\ m_status = "READY" =>
         /\ m_pstatus["READY"] # Plan
         /\ m_pstatus["INIT"] \subseteq m_pstatus["READY"]
         /\ \A p \in m_pstatus["READY"] :
              /\ m_st[p] = "STOP"
              /\ p \in m_pstatus["INIT"] <=> \/ p \notin PhasePlans
                                             \/ PhaseBegin[p] = 0
    /\ m_status = "INIT" =>
         /\ m_pstatus["READY"] = Plan
         /\ m_pstatus["INIT"] # Plan
         /\ Plan \ PhasePlans \subseteq m_pstatus["INIT"]
         /\ \A p \in m_pstatus["INIT"] :
              /\ m_st[p] = "STOP"
              /\ p \in PhasePlans => m_phaseno[p] >= PhaseBegin[p]
    /\ m_status \in {"READY", "INIT"} => m_pstatus["PROFILE"] = {}
    /\ m_status = "PROFILE" =>
         /\ m_pstatus["PROFILE"] # Plan
         /\ \A p \in m_pstatus["PROFILE"] : m_st[p] = "STOP"
    /\ m_status \in {"PROFILE", "DONE"} =>
         /\ m_pstatus["INIT"] = Plan
         /\ \A p \in PhasePlans : m_phaseno[p] >= PhaseBegin[p]
    /\ Live => m_pstatus["DONE"] = {}

\* When the run is DONE the events are off and the last row is taken.
DoneInv ==
  m_status = "DONE" =>
    /\ pc \in {"poll", "kill", "reap", "done"} /\ err = 0 /\ enabled = {}
    /\ pc = "poll" => /\ \A p \in PerfPlans : m_samples[p] > 0
                      /\ \/ \E p \in Plan : m_st[p] = "DEAD"
                         \/ \E p \in PhasePlans : m_phaseno[p] >= PhaseEnd[p]

\* From killAll on: it reaches whoever is alive, and nobody who is gone.
EndInv ==
  /\ pc = "kill" =>
       \A p \in Plan : /\ Alive(p) => p \in m_pidmap /\ m_st[p] # "DEAD"
                       /\ p \in m_pidmap => proc[p] # "none"
                       /\ p \in m_pidmap /\ m_st[p] # "DEAD"
                            => proc[p] # "reaped"
  /\ pc = "kill" => Live \/ m_pidmap = Plan
  /\ pc \in {"kill", "reap", "done"} =>
       /\ Live => m_status = "READY" /\ \A p \in Plan : m_st[p] # "STOP"
       /\ m_status = "DONE" => WholeRows
  /\ pc \in {"reap", "done"} => \A p \in Plan : ~Alive(p)

IInv ==
  /\ TypeOK
  /\ ReportInv
  /\ StartInv
  /\ LoopInv
  /\ EventInv
  /\ ViewMatchesKernel
  /\ GateInv
  /\ NoLostWakeup
  /\ PhaseExact
  /\ SamplesAligned
  /\ DoneInv
  /\ EndInv

-----------------------------------------------------------------------------
(* Under MaxBurst = 1, what the exactness of phases and rounds rests on.   *)

\* A buffer is read before the next overflow; only sampled children have any.
OneAtATime ==
  \A p \in Plan : /\ ring[p] <= 1
                  /\ owner[p] # "none" => p \in SamplePlans

\* Before INIT nothing has been counted or sent.
QuietInv ==
  pc \in {"start", "build"} \/ (InLoop /\ m_status = "READY") =>
    /\ enabled = {}
    /\ \A p \in Plan :
         /\ pend[p] = 0 /\ report[p] # "overflow"
         /\ overflows[p] = 0 /\ ring[p] = 0
         /\ m_phaseno[p] = 0 /\ m_samples[p] = 0

\* In INIT a child gets the signals of its own overflows, one at a time: it is
\* held with none outstanding, or on its way with at most one.
CountInv ==
  InLoop /\ m_status = "INIT" =>
    \A p \in Plan :
      /\ p \in enabled => p \in PhasePlans /\ owner[p] = "self"
      /\ p \notin PhasePlans => overflows[p] = 0
      /\ m_samples[p] = 0
      /\ IF p \in m_pstatus["INIT"]
         THEN /\ pend[p] = 0 /\ ring[p] = 0
              /\ p \in PhasePlans => m_phaseno[p] = PhaseBegin[p]
         ELSE /\ m_phaseno[p] < PhaseBegin[p]
              /\ Alive(p) =>
                   pend[p] + (IF report[p] = "overflow" THEN 1 ELSE 0) = ring[p]

\* In PROFILE the overflows of a sampled child are signalled to all.
GroupInv ==
  InLoop /\ m_status = "PROFILE" => \A p \in SamplePlans : owner[p] = "group"

RoundInv ==
  /\ OneAtATime
  /\ QuietInv
  /\ CountInv
  /\ GroupInv
  /\ PhaseWindow
  /\ OneRoundPerOverflow
=============================================================================
