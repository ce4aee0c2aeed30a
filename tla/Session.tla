------------------------------ MODULE Session ------------------------------
(***************************************************************************)
(* What a profiling session promises, whatever signals, wait statuses and  *)
(* system calls it takes: the children of all plans go through the stages  *)
(* together, performance data is collected a whole row at a time while     *)
(* everyone is halted, and only whole rows are published.                  *)
(*                                                                         *)
(* ParallelProfiler implements this specification; ProfilerProperties has  *)
(* the mapping.                                                            *)
(***************************************************************************)
EXTENDS Naturals

CONSTANTS Plan,       \* The plans profiled in parallel.
          PerfPlans   \* Those with performance events.

VARIABLES stage,      \* READY, INIT, PROFILE, then DONE or ABORT.
          halted,     \* The plans whose child is held.
          rows,       \* Samples of each perf plan.
          result      \* What is published: plans with their number of samples.

sessionVars == <<stage, halted, rows, result>>

Init ==
  /\ stage = "READY" /\ halted = {}
  /\ rows = [p \in PerfPlans |-> 0]
  /\ result = {}

\* A row is one sample of every perf plan.
Collected(n) == [p \in PerfPlans |-> rows[p] + n]

\* The session goes on.
Open == stage \in {"READY", "INIT", "PROFILE"}

\* With p halted, everyone is.
Last(p) == halted \union {p} = Plan

\* A child is held, at the end of its stage or at the barrier of PROFILE.
Halt(p) ==
  /\ Open
  /\ halted' = halted \union {p}
  /\ UNCHANGED <<stage, rows, result>>

\* Everyone is ready: release those that have a phase begin ahead.
Prepare(p) ==
  /\ stage = "READY" /\ Last(p)
  /\ stage' = "INIT"
  /\ halted' \in (SUBSET Plan) \ {Plan}
  /\ UNCHANGED <<rows, result>>

\* Everyone is where the measured part begins: release them all.
Launch(p) ==
  /\ stage \in {"READY", "INIT"} /\ Last(p)
  /\ stage' = "PROFILE"
  /\ halted' = {}
  /\ UNCHANGED <<rows, result>>

\* Everyone is halted at the barrier: collect a row, release them all.
Round(p) ==
  /\ stage = "PROFILE" /\ Last(p)
  /\ rows' = Collected(1)
  /\ halted' = {}
  /\ UNCHANGED <<stage, result>>

\* A child exits: the rest of the data is the last row.
FinishAtExit ==
  /\ stage = "PROFILE"
  /\ stage' = "DONE"
  /\ rows' = Collected(1)
  /\ UNCHANGED <<halted, result>>

\* A phase has ended at a round: nobody is released after it.
FinishAtRound(p) ==
  /\ stage = "PROFILE" /\ Last(p)
  /\ stage' = "DONE"
  /\ rows' = Collected(2)
  /\ halted' = Plan
  /\ UNCHANGED result

\* Something has failed, at any point of a step: its rows may be partial.
GiveUp ==
  /\ Open
  /\ stage' = "ABORT"
  /\ halted' \in SUBSET Plan
  /\ rows' \in [PerfPlans -> Nat]
  /\ UNCHANGED result

\* The data is handed over: whole rows if the session is DONE.
Publish ==
  /\ ~Open
  /\ result' \in SUBSET (PerfPlans \X Nat)
  /\ stage = "DONE" => result' = {<<p, rows[p]>> : p \in PerfPlans}
  /\ rows' = [p \in PerfPlans |-> 0]
  /\ UNCHANGED <<stage, halted>>

\* All children are ended.
Clear ==
  /\ ~Open
  /\ halted' = {}
  /\ UNCHANGED <<stage, rows, result>>

Next ==
  \/ \E p \in Plan : \/ Halt(p) \/ Prepare(p) \/ Launch(p)
                     \/ Round(p) \/ FinishAtRound(p)
  \/ FinishAtExit \/ GiveUp \/ Publish \/ Clear

Spec == Init /\ [][Next]_sessionVars
=============================================================================
