------------------------------ MODULE Launcher ------------------------------
(***************************************************************************)
(* main() of src/src/profile.cpp as two processes: the parent, which stays *)
(* in the terminal's foreground group and forwards SIGINT, and its child,  *)
(* which moves to a group of its own, runs the profiler and writes the     *)
(* output.  What profile() does is one step here; ParallelProfiler has its *)
(* detail, ResultFile that of the output.                                  *)
(***************************************************************************)
EXTENDS Naturals

CONSTANT MaxInterrupts   \* Bound: how often Ctrl-C is pressed.

ASSUME InterruptAssumption == MaxInterrupts \in Nat

Proc == {"parent", "profiler"}

VARIABLES
  pc,          \* Where each process is.
  child,       \* The global variable child, in the memory of each process.
  forwards,    \* The processes in which sigintHandler handles SIGINT.
  blocked,     \* The processes that block SIGINT.
  foreground,  \* The processes in the terminal's foreground group.
  pending,     \* The processes SIGINT is pending for.
  handling,    \* The processes that execute sigintHandler.
  output,      \* The output file: as it was, truncated, or written.
  interrupts   \* How often Ctrl-C has been pressed.

vars == <<pc, child, forwards, blocked, foreground, pending, handling,
          output, interrupts>>
signals == <<forwards, blocked, foreground, pending, handling>>

Over == {"exited", "killed"}
ParentPlace   == {"start", "registered", "forked", "waiting"} \union Over
ProfilerPlace == {"none", "born", "reset", "grouped", "starting", "profiling",
                  "publishing", "truncated", "ending"} \union Over

Alive(p) == pc[p] \notin Over \union {"none"}

Init ==
  /\ pc = [p \in Proc |-> IF p = "parent" THEN "start" ELSE "none"]
  /\ child = [p \in Proc |-> "zero"]
  /\ forwards = {} /\ blocked = {} /\ pending = {} /\ handling = {}
  /\ foreground = {"parent"}
  /\ output = "before"
  /\ interrupts = 0

(***************************************************************************)
(* A process runs code of main only when no SIGINT is about to be          *)
(* delivered to it: the kernel delivers one on the way back to user mode.  *)
(***************************************************************************)
Deliverable(p) == p \in pending \ (blocked \union handling)
RunsMain(p) == Alive(p) /\ p \notin handling /\ ~Deliverable(p)

Goto(p, from, to) ==
  /\ RunsMain(p) /\ pc[p] = from
  /\ pc' = [pc EXCEPT ![p] = to]

-----------------------------------------------------------------------------
(* The parent.                                                             *)

\* signal(SIGINT, sigintHandler).
Register_Missing ==
  /\ Goto("parent", "start", "registered")
  /\ UNCHANGED <<child, signals, output, interrupts>>
Register ==
  /\ Goto("parent", "start", "registered")
  /\ forwards' = forwards \union {"parent"}
  /\ UNCHANGED <<child, blocked, foreground, pending, handling, output,
                 interrupts>>

\* The child inherits the handler, and memory in which child is still 0.
Fork ==
  /\ RunsMain("parent") /\ pc["parent"] = "registered"
  /\ \/ /\ pc' = [pc EXCEPT !["parent"] = "forked", !["profiler"] = "born"]
        /\ forwards' = IF "parent" \in forwards THEN Proc ELSE {}
        /\ foreground' = Proc
     \/ /\ pc' = [pc EXCEPT !["parent"] = "exited"]
        /\ UNCHANGED <<forwards, foreground>>
  /\ UNCHANGED <<child, blocked, pending, handling, output, interrupts>>

\* The parent stores what fork has returned.
StoreChild ==
  /\ Goto("parent", "forked", "waiting")
  /\ child' = [child EXCEPT !["parent"] = "profiler"]
  /\ UNCHANGED <<signals, output, interrupts>>

\* waitpid returns, and the parent exits with what it has learnt.
WaitReturns ==
  /\ pc["profiler"] \in Over
  /\ Goto("parent", "waiting", "exited")
  /\ UNCHANGED <<child, signals, output, interrupts>>

-----------------------------------------------------------------------------
(* The child.                                                              *)

\* signal(SIGINT, SIG_DFL).
ResetHandler ==
  /\ Goto("profiler", "born", "reset")
  /\ forwards' = forwards \ {"profiler"}
  /\ UNCHANGED <<child, blocked, foreground, pending, handling, output,
                 interrupts>>

\* setpgid(0, 0), which may fail.
NewGroup ==
  \/ /\ Goto("profiler", "reset", "grouped")
     /\ foreground' = foreground \ {"profiler"}
     /\ UNCHANGED <<child, forwards, blocked, pending, handling, output,
                    interrupts>>
  \/ /\ Goto("profiler", "reset", "exited")
     /\ UNCHANGED <<child, signals, output, interrupts>>

\* The arguments, the log and the plans are read, or refused.
ParseArguments ==
  /\ \/ Goto("profiler", "grouped", "starting")
     \/ Goto("profiler", "grouped", "exited")
  /\ UNCHANGED <<child, signals, output, interrupts>>

\* A check of profile() fails before createSignalFD.
CheckFails ==
  /\ Goto("profiler", "starting", "ending")
  /\ UNCHANGED <<child, signals, output, interrupts>>

\* createSignalFD blocks SIGINT for good; the signalfd may still fail.
BlockSIGINT_Missing ==
  /\ \/ Goto("profiler", "starting", "profiling")
     \/ Goto("profiler", "starting", "ending")
  /\ UNCHANGED <<child, signals, output, interrupts>>
BlockSIGINT ==
  /\ \/ Goto("profiler", "starting", "profiling")
     \/ Goto("profiler", "starting", "ending")
  /\ blocked' = blocked \union {"profiler"}
  /\ UNCHANGED <<child, forwards, foreground, pending, handling, output,
                 interrupts>>

\* The loop of profile() reads a SIGINT from its signalfd and aborts.
ReadSIGINT_Ignored ==
  /\ "profiler" \in pending
  /\ RunsMain("profiler") /\ pc["profiler"] = "profiling"
  /\ pending' = pending \ {"profiler"}
  /\ UNCHANGED <<pc, child, forwards, blocked, foreground, handling, output,
                 interrupts>>
ReadSIGINT ==
  /\ "profiler" \in pending
  /\ Goto("profiler", "profiling", "ending")
  /\ pending' = pending \ {"profiler"}
  /\ UNCHANGED <<child, forwards, blocked, foreground, handling, output,
                 interrupts>>

\* profile() ends otherwise: with DONE and no error, or else.
ProfileReturns ==
  /\ \/ Goto("profiler", "profiling", "publishing")
     \/ Goto("profiler", "profiling", "ending")
  /\ UNCHANGED <<child, signals, output, interrupts>>

(***************************************************************************)
(* The results go to cout; or the output file cannot be opened; or opening *)
(* truncates it.                                                           *)
(***************************************************************************)
OpenOutput ==
  \/ /\ \/ Goto("profiler", "publishing", "ending")
        \/ Goto("profiler", "publishing", "exited")
     /\ UNCHANGED <<child, signals, output, interrupts>>
  \/ /\ Goto("profiler", "publishing", "truncated")
     /\ output' = "truncated"
     /\ UNCHANGED <<child, signals, interrupts>>

(***************************************************************************)
(* The results are appended in memory and written; or append refuses them  *)
(* and the program exits, with the file as opening it has left it.         *)
(***************************************************************************)
WriteOutput ==
  \/ /\ Goto("profiler", "truncated", "ending")
     /\ output' = "written"
     /\ UNCHANGED <<child, signals, interrupts>>
  \/ /\ Goto("profiler", "truncated", "exited")
     /\ UNCHANGED <<child, signals, output, interrupts>>

Return ==
  /\ Goto("profiler", "ending", "exited")
  /\ UNCHANGED <<child, signals, output, interrupts>>

-----------------------------------------------------------------------------
(* SIGINT.                                                                 *)

\* The terminal sends SIGINT to its foreground group.
CtrlC ==
  /\ interrupts < MaxInterrupts
  /\ Alive("parent")
  /\ interrupts' = interrupts + 1
  /\ pending' = pending \union {p \in foreground : Alive(p)}
  /\ UNCHANGED <<pc, child, forwards, blocked, foreground, handling, output>>

\* The default action of SIGINT.
Die(p) ==
  /\ Alive(p) /\ Deliverable(p) /\ p \notin forwards
  /\ pc' = [pc EXCEPT ![p] = "killed"]
  /\ pending' = pending \ {p}
  /\ UNCHANGED <<child, forwards, blocked, foreground, handling, output,
                 interrupts>>

\* sigintHandler is called; SIGINT is blocked until it returns.
EnterHandler(p) ==
  /\ Alive(p) /\ Deliverable(p) /\ p \in forwards
  /\ handling' = handling \union {p}
  /\ pending' = pending \ {p}
  /\ UNCHANGED <<pc, child, forwards, blocked, foreground, output, interrupts>>

(***************************************************************************)
(* kill(child, SIGINT), and the handler returns.  With 0 for a pid, kill   *)
(* signals the process group of the caller: a process that still runs the  *)
(* handler is in the foreground group.                                     *)
(***************************************************************************)
Addressees(p) == IF child[p] = "zero" THEN foreground ELSE {"profiler"}

Forward(p) ==
  /\ p \in handling
  /\ handling' = handling \ {p}
  /\ pending' = pending \union {q \in Addressees(p) : Alive(q)}
  /\ UNCHANGED <<pc, child, forwards, blocked, foreground, output, interrupts>>

-----------------------------------------------------------------------------
Ended == ~Alive("parent") /\ ~Alive("profiler")

MainStep(p) ==
  \/ p = "parent" /\ (Register \/ Fork \/ StoreChild \/ WaitReturns)
  \/ p = "profiler" /\ (ResetHandler \/ NewGroup \/ ParseArguments
                          \/ CheckFails \/ BlockSIGINT \/ ReadSIGINT
                          \/ OpenOutput \/ WriteOutput \/ Return)

SignalStep(p) == Die(p) \/ EnterHandler(p) \/ Forward(p)

Next ==
  \/ \E p \in Proc : MainStep(p) \/ SignalStep(p)
  \/ ProfileReturns
  \/ CtrlC
  \/ Ended /\ UNCHANGED vars

(***************************************************************************)
(* Both processes are scheduled.  Nothing says that profile() returns by   *)
(* itself: a task may run for ever.                                        *)
(***************************************************************************)
Fairness == \A p \in Proc : WF_vars(MainStep(p) \/ SignalStep(p))

Spec == Init /\ [][Next]_vars
FairSpec == Spec /\ Fairness

-----------------------------------------------------------------------------
TypeOK ==
  /\ pc \in [Proc -> ParentPlace \union ProfilerPlace]
  /\ pc["parent"] \in ParentPlace /\ pc["profiler"] \in ProfilerPlace
  /\ child \in [Proc -> {"zero", "profiler"}]
  /\ forwards \in SUBSET Proc /\ blocked \in SUBSET Proc
  /\ foreground \in SUBSET Proc /\ pending \in SUBSET Proc
  /\ handling \in SUBSET Proc
  /\ output \in {"before", "truncated", "written"}
  /\ interrupts \in Nat

(***************************************************************************)
(* Ctrl-C never ends the parent and leaves the profiler, which the         *)
(* terminal cannot reach any more, running in its background group.        *)
(***************************************************************************)
NoOrphan == ~Alive("parent") => ~Alive("profiler")

(***************************************************************************)
(* SIGINT never ends the profiler while the output file is truncated and   *)
(* not written yet.  The program may leave it so by itself, when append    *)
(* refuses the results.                                                    *)
(***************************************************************************)
OutputWhole == output = "truncated" => pc["profiler"] # "killed"

(***************************************************************************)
(* A Ctrl-C that comes when the parent knows its child, and the child has  *)
(* reset its handler, ends the program.                                    *)
(***************************************************************************)
InterruptInTime ==
  "parent" \in pending /\ pc["parent"] = "waiting" /\ pc["profiler"] # "born"
    ~> Ended

(***************************************************************************)
(* "Register SIGINT handler, deliver it to child process": a Ctrl-C ends   *)
(* the program, whenever it comes.                                         *)
(***************************************************************************)
InterruptDelivered == interrupts > 0 ~> Ended
=============================================================================
