--------------------------- MODULE LauncherProofs ---------------------------
(***************************************************************************)
(* Proofs about module Launcher: neither process is ever ended by a SIGINT *)
(* at a point where that would leave the other one, or the output file,    *)
(* behind, however often and whenever SIGINT comes.                        *)
(***************************************************************************)
EXTENDS Launcher, TLAPS

(***************************************************************************)
(* SIGINT can kill the parent only before there is a child, because it is  *)
(* handled from Register on, and the profiler never while it writes the    *)
(* output, because it is blocked from createSignalFD on.                   *)
(***************************************************************************)
IInv ==
  /\ TypeOK
  /\ pc["parent"] \in {"start", "registered"} => pc["profiler"] = "none"
  /\ Alive("parent") => pc["parent"] = "start" \/ "parent" \in forwards
  /\ NoOrphan
  /\ pc["profiler"] \in {"profiling", "publishing", "truncated"}
       => "profiler" \in blocked
  /\ output = "truncated" => pc["profiler"] \in {"truncated", "exited"}

\* A process that has nothing to do yet, and a file as it was.
LEMMA InitInv == Init => IInv
BY DEF Init, IInv, TypeOK, ParentPlace, ProfilerPlace, Proc, Over, Alive, NoOrphan

\* No step of either process, and no signal, breaks the invariant.
LEMMA NextInv == IInv /\ [Next]_vars => IInv'
<1> SUFFICES ASSUME IInv, [Next]_vars PROVE IInv'
  OBVIOUS
<1> USE DEF IInv, TypeOK, ParentPlace, ProfilerPlace, Proc, Over, Alive, NoOrphan, Goto, RunsMain,
            signals
<1>1. CASE Register
  BY <1>1 DEF Register
<1>2. CASE Fork
  <2>1. CASE pc' = [pc EXCEPT !["parent"] = "forked", !["profiler"] = "born"]
    BY <1>2, <2>1 DEF Fork
  <2>2. CASE pc' = [pc EXCEPT !["parent"] = "exited"]
    BY <1>2, <2>2 DEF Fork
  <2> QED
    BY <1>2, <2>1, <2>2 DEF Fork
<1>3. CASE StoreChild
  BY <1>3 DEF StoreChild
<1>4. CASE WaitReturns
  BY <1>4 DEF WaitReturns
<1>5. CASE ResetHandler
  BY <1>5 DEF ResetHandler
<1>6. CASE NewGroup
  <2>1. CASE Goto("profiler", "reset", "grouped")
    BY <1>6, <2>1 DEF NewGroup
  <2>2. CASE Goto("profiler", "reset", "exited")
    BY <1>6, <2>2 DEF NewGroup
  <2> QED
    BY <1>6, <2>1, <2>2 DEF NewGroup
<1>7. CASE ParseArguments
  BY <1>7 DEF ParseArguments
<1>8. CASE CheckFails
  BY <1>8 DEF CheckFails
<1>9. CASE BlockSIGINT
  BY <1>9 DEF BlockSIGINT
<1>10. CASE ReadSIGINT
  BY <1>10 DEF ReadSIGINT
<1>11. CASE ProfileReturns
  BY <1>11 DEF ProfileReturns
<1>12. CASE OpenOutput
  <2>1. CASE Goto("profiler", "publishing", "truncated")
    BY <1>12, <2>1 DEF OpenOutput
  <2>2. CASE ~Goto("profiler", "publishing", "truncated")
    BY <1>12, <2>2 DEF OpenOutput
  <2> QED
    BY <2>1, <2>2
<1>13. CASE WriteOutput
  <2>1. CASE Goto("profiler", "truncated", "ending")
    BY <1>13, <2>1 DEF WriteOutput
  <2>2. CASE Goto("profiler", "truncated", "exited")
    BY <1>13, <2>2 DEF WriteOutput
  <2> QED
    BY <1>13, <2>1, <2>2 DEF WriteOutput
<1>14. CASE Return
  BY <1>14 DEF Return
<1>15. CASE CtrlC
  <2>1. interrupts' \in Nat
    BY <1>15 DEF CtrlC
  <2>2. pending' \in SUBSET Proc
    BY <1>15 DEF CtrlC
  <2> QED
    BY <1>15, <2>1, <2>2 DEF CtrlC
<1>16. ASSUME NEW p \in Proc, Die(p) PROVE IInv'
  BY <1>16 DEF Die, Deliverable
<1>17. ASSUME NEW p \in Proc, EnterHandler(p) PROVE IInv'
  BY <1>17 DEF EnterHandler
<1>18. ASSUME NEW p \in Proc, Forward(p) PROVE IInv'
  BY <1>18 DEF Forward, Addressees
<1>19. CASE UNCHANGED vars
  BY <1>19 DEF vars
<1> QED
  BY <1>1, <1>2, <1>3, <1>4, <1>5, <1>6, <1>7, <1>8, <1>9, <1>10, <1>11,
     <1>12, <1>13, <1>14, <1>15, <1>16, <1>17, <1>18, <1>19
     DEF Next, MainStep, SignalStep

\* The invariant holds in every behaviour.
LEMMA Invariant == Spec => []IInv
BY InitInv, NextInv, PTL DEF Spec

(***************************************************************************)
(* Ctrl-C never ends the parent while the profiler, out of the terminal's  *)
(* reach, goes on.                                                         *)
(***************************************************************************)
THEOREM NoOrphanAlways == Spec => []NoOrphan
<1>1. IInv => NoOrphan
  BY DEF IInv
<1> QED
  BY <1>1, Invariant, PTL

(***************************************************************************)
(* SIGINT never ends the profiler between the truncation of the output     *)
(* file and its new contents: a file left empty is one whose results       *)
(* append has refused.                                                     *)
(***************************************************************************)
THEOREM OutputWholeAlways == Spec => []OutputWhole
<1>1. IInv => OutputWhole
  BY DEF IInv, OutputWhole
<1> QED
  BY <1>1, Invariant, PTL
=============================================================================
