-------------------------- MODULE EventLifecycle ---------------------------
(***************************************************************************)
(* The life of the Event objects of one process (PerfEventWrapper): their  *)
(* file descriptors, their mapping, and the list event_lookup, while       *)
(* ParallelProfiler::profile builds, runs and drops its plans.             *)
(*                                                                         *)
(* A descriptor is a number the kernel hands out, the lowest that is free. *)
(* ~ChildEvent closes whatever number its fd holds; before Configure gets  *)
(* to that child it is whatever was in the memory.  perf_event_open and    *)
(* mmap may fail at any time.                                              *)
(***************************************************************************)
EXTENDS Integers, Sequences, FiniteSets

CONSTANTS
  Plans,     \* The plans with a perf event.
  NoPlan,    \* None of them.
  Children,  \* Children[p]: child events of plan p.
  MaxFd,     \* Bound: the largest descriptor.
  Junk,      \* What an uninitialised int may hold.
  Sessions   \* Bound: calls of profile().

ASSUME LifecycleAssumption ==
  /\ IsFiniteSet(Plans) /\ NoPlan \notin Plans
  /\ {"free", "std", "signalfd"} \cap Plans = {}
  /\ Children \in [Plans -> Nat]
  /\ MaxFd \in Nat /\ MaxFd > 2 /\ Junk \subseteq Int
  /\ Sessions \in Nat

VARIABLES
  fds,          \* Descriptor table: who opened it, or "free".
  fd,           \* Event::fd; 0 stands for unopened.
  child_fd,     \* ChildEvent::fd of each child.
  hdr,          \* The events whose buffer is mapped.
  event_lookup, \* "null", "valid", or "dangling".
  lookup,       \* The events in the vector.
  m_pidmap,     \* The plans with a RunningConfig.
  sfd,          \* The signalfd of profile(), 0 if none.
  pc,           \* Where profile() is.
  plan,         \* The plan buildRunningConfig is at.
  opened,       \* Configure: children opened so far.
  calls,        \* Calls of profile() so far.
  stolen,       \* History: descriptors closed by another than their owner.
  thrown,       \* History: has Configure ever thrown?
  wild          \* History: was event_lookup used when dangling?

table == <<fds, stolen, thrown>>
objects == <<fd, child_fd, hdr, event_lookup, lookup, wild>>
control == <<m_pidmap, sfd, pc, plan, opened, calls>>
vars == <<table, objects, control>>

Init ==
  /\ fds = [f \in 0..MaxFd |-> IF f < 3 THEN "std" ELSE "free"]
  /\ fd = [p \in Plans |-> 0] /\ child_fd = [p \in Plans |-> <<>>]
  /\ hdr = {} /\ event_lookup = "null" /\ lookup = {}
  /\ m_pidmap = {} /\ sfd = 0 /\ pc = "idle" /\ plan = NoPlan /\ opened = 0
  /\ calls = 0 /\ stolen = {} /\ thrown = FALSE /\ wild = FALSE

-----------------------------------------------------------------------------

Free == {f \in 0..MaxFd : fds[f] = "free"}
Lowest == CHOOSE f \in Free : \A g \in Free : f <= g

\* The descriptors that close(), called on the numbers in C by owner, closes.
Hit(C) == {f \in C \cap (0..MaxFd) : fds[f] # "free"}
CloseAll(C, owner) ==
  /\ fds' = [f \in 0..MaxFd |-> IF f \in Hit(C) THEN "free" ELSE fds[f]]
  /\ UNCHANGED thrown
  /\ stolen' = stolen \cup {f \in Hit(C) : fds[f] # owner}

(***************************************************************************)
(* Constructors (initEvent).  The list is made when there is none; when it *)
(* has been deleted, its remains are used.                                 *)
(***************************************************************************)
Construct(p) ==
  /\ pc = "building" /\ plan = NoPlan /\ p \in Plans \ m_pidmap
  /\ plan' = p /\ pc' = "leader"
  /\ fd' = [fd EXCEPT ![p] = 0]
  /\ \E junk \in [1..Children[p] -> Junk] :
       child_fd' = [child_fd EXCEPT ![p] = junk]
  /\ event_lookup' = IF event_lookup = "null" THEN "valid" ELSE event_lookup
  /\ wild' = (wild \/ event_lookup = "dangling")
  /\ lookup' = lookup \cup {p}
  /\ UNCHANGED <<table, hdr, m_pidmap, sfd, opened, calls>>

\* Configure opens the leader, the children in its group, and maps the buffer.
OpenLeader ==
  /\ pc = "leader" /\ Free # {}
  /\ fds' = [fds EXCEPT ![Lowest] = plan]
  /\ fd' = [fd EXCEPT ![plan] = Lowest]
  /\ opened' = 0 /\ pc' = "children"
  /\ UNCHANGED <<stolen, thrown, child_fd, hdr, event_lookup, lookup, wild,
                 m_pidmap, sfd, plan, calls>>

OpenChild ==
  /\ pc = "children" /\ opened < Children[plan] /\ Free # {}
  /\ fds' = [fds EXCEPT ![Lowest] = plan]
  /\ child_fd' = [child_fd EXCEPT ![plan][opened + 1] = Lowest]
  /\ opened' = opened + 1
  /\ UNCHANGED <<stolen, thrown, fd, hdr, event_lookup, lookup, wild,
                 m_pidmap, sfd, pc, plan, calls>>

\* The last step, and the plan's entry in m_pidmap.
Map_Early ==
  /\ pc = "children" /\ opened + 1 >= Children[plan]
  /\ hdr' = hdr \cup {plan}
  /\ m_pidmap' = m_pidmap \cup {plan}
  /\ plan' = NoPlan /\ pc' = "building"
  /\ UNCHANGED <<table, fd, child_fd, event_lookup, lookup, wild, sfd, opened,
                 calls>>
Map ==
  /\ pc = "children" /\ opened = Children[plan]
  /\ hdr' = hdr \cup {plan}
  /\ m_pidmap' = m_pidmap \cup {plan}
  /\ plan' = NoPlan /\ pc' = "building"
  /\ UNCHANGED <<table, fd, child_fd, event_lookup, lookup, wild, sfd, opened,
                 calls>>

\* Any of these calls may fail; Configure throws, and the plan is given up.
Fail ==
  /\ pc \in {"leader", "children"}
  /\ pc' = "failed" /\ thrown' = TRUE
  /\ UNCHANGED <<fds, stolen, objects, m_pidmap, sfd, plan, opened, calls>>

\* A plan may fail before it has an event: its process, its cpu, the name of
\* one of its events.
FailEarly ==
  /\ pc = "building" /\ plan = NoPlan /\ m_pidmap # Plans
  /\ pc' = "ending"
  /\ UNCHANGED <<table, objects, m_pidmap, sfd, plan, opened, calls>>

(***************************************************************************)
(* ~Event, then ~ChildEvent of each child.  A descriptor of 0 counts as    *)
(* not opened.  A close that fails throws out of a destructor, which ends  *)
(* the process.                                                            *)
(***************************************************************************)
ChildFds(p) == {child_fd[p][i] : i \in DOMAIN child_fd[p]}

Destroy_LeaderOnly(p, next) ==
  IF fd[p] # 0 /\ fds[fd[p]] = "free"
  THEN pc' = "crashed" /\ UNCHANGED <<table, objects>>
  ELSE /\ CloseAll({fd[p]} \ {0}, p)
       /\ hdr' = hdr \ {p} /\ lookup' = lookup \ {p}
       /\ event_lookup' = IF lookup = {p} THEN "dangling" ELSE event_lookup
       /\ wild' = (wild \/ event_lookup = "dangling")
       /\ pc' = next /\ UNCHANGED <<fd, child_fd>>
Destroy_NotLast(p, next) ==
  IF fd[p] # 0 /\ fds[fd[p]] = "free"
  THEN pc' = "crashed" /\ UNCHANGED <<table, objects>>
  ELSE /\ CloseAll(({fd[p]} \ {0}) \cup ChildFds(p), p)
       /\ hdr' = hdr \ {p} /\ lookup' = lookup \ {p}
       /\ event_lookup' = "dangling"
       /\ wild' = (wild \/ event_lookup = "dangling")
       /\ pc' = next /\ UNCHANGED <<fd, child_fd>>
Destroy(p, next) ==
  IF fd[p] # 0 /\ fds[fd[p]] = "free"
  THEN pc' = "crashed" /\ UNCHANGED <<table, objects>>
  ELSE /\ CloseAll(({fd[p]} \ {0}) \cup ChildFds(p), p)
       /\ hdr' = hdr \ {p} /\ lookup' = lookup \ {p}
       /\ event_lookup' = IF lookup = {p} THEN "dangling" ELSE event_lookup
       /\ wild' = (wild \/ event_lookup = "dangling")
       /\ pc' = next /\ UNCHANGED <<fd, child_fd>>

-----------------------------------------------------------------------------
(* profile(), as far as it creates and destroys.                           *)

\* profile() begins with m_pidmap.clear(), which drops the events of the call
\* before; at the end of the program the destructor drops those of the last.
Begin ==
  /\ pc = "idle" /\ calls < Sessions
  /\ calls' = calls + 1 /\ pc' = "clearing"
  /\ UNCHANGED <<table, objects, m_pidmap, sfd, plan, opened>>
Leave ==
  /\ pc = "idle"
  /\ pc' = "leaving"
  /\ UNCHANGED <<table, objects, m_pidmap, sfd, plan, opened, calls>>
Drop(p) ==
  /\ pc \in {"clearing", "leaving"} /\ p \in m_pidmap
  /\ Destroy(p, pc)
  /\ m_pidmap' = m_pidmap \ {p}
  /\ UNCHANGED <<sfd, plan, opened, calls>>
Gone ==
  /\ pc = "leaving" /\ m_pidmap = {}
  /\ pc' = "gone"
  /\ UNCHANGED <<table, objects, m_pidmap, sfd, plan, opened, calls>>

CreateSignalFD ==
  /\ pc = "clearing" /\ m_pidmap = {} /\ Free # {}
  /\ sfd' = Lowest /\ fds' = [fds EXCEPT ![Lowest] = "signalfd"]
  /\ pc' = "building"
  /\ UNCHANGED <<stolen, thrown, objects, m_pidmap, plan, opened, calls>>

\* A plan that failed: its event goes with the local variables of
\* buildRunningConfig, and no further plan is tried.
GiveUp ==
  /\ pc = "failed"
  /\ Destroy(plan, "ending")
  /\ plan' = NoPlan
  /\ UNCHANGED <<m_pidmap, sfd, opened, calls>>

\* All plans run, and the children are waited for.
Run ==
  /\ pc = "building" /\ plan = NoPlan /\ m_pidmap = Plans
  /\ pc' = "running"
  /\ UNCHANGED <<table, objects, m_pidmap, sfd, plan, opened, calls>>
Stop ==
  /\ pc = "running"
  /\ pc' = "ending"
  /\ UNCHANGED <<table, objects, m_pidmap, sfd, plan, opened, calls>>

Finalize ==
  /\ pc = "ending"
  /\ CloseAll({sfd} \ {0}, "signalfd")
  /\ sfd' = 0 /\ pc' = "idle"
  /\ UNCHANGED <<objects, m_pidmap, plan, opened, calls>>

\* The freed list's memory may still be as it was, and the code goes on; or the
\* use of it ends the process, then or later.
UseAfterFree ==
  /\ wild /\ pc \notin {"gone", "crashed"}
  /\ pc' = "crashed"
  /\ UNCHANGED <<table, objects, m_pidmap, sfd, plan, opened, calls>>

Ended == pc \in {"gone", "crashed"} /\ UNCHANGED vars

Next ==
  \/ \E p \in Plans : Construct(p) \/ Drop(p)
  \/ OpenLeader \/ OpenChild \/ Map \/ Fail \/ FailEarly
  \/ Begin \/ Leave \/ Gone \/ CreateSignalFD \/ GiveUp \/ Run \/ Stop
  \/ Finalize \/ UseAfterFree \/ Ended

Spec == Init /\ [][Next]_vars

-----------------------------------------------------------------------------

TypeOK ==
  /\ fds \in [0..MaxFd -> {"free", "std", "signalfd"} \cup Plans]
  /\ fd \in [Plans -> 0..MaxFd] /\ hdr \subseteq Plans
  /\ event_lookup \in {"null", "valid", "dangling"} /\ lookup \subseteq Plans
  /\ m_pidmap \subseteq Plans /\ sfd \in 0..MaxFd /\ plan \in Plans \cup {NoPlan}

Owned(p) == {f \in 0..MaxFd : fds[f] = p}

\* Descriptors are closed once, by the object that opened them ("Close the fd
\* if it has been opened", PerfEventWrapper.cpp, ~Event), as long as no group
\* was given up half way, whose unopened children close the number that happens
\* to be in their fd.  When the last event is gone, with its plan built or given
\* up half way, the process has the descriptors and mappings it began with, at
\* most; unless a destructor has closed what was not its own, which may be
\* standard input, so that the signalfd is 0 the next time and counts as none.
OnlyOwnClosed == ~thrown => stolen = {}
NoLeak ==
  /\ OnlyOwnClosed
  /\ pc \in {"idle", "gone"} /\ m_pidmap = {} /\ stolen = {} =>
       hdr = {} /\ \A f \in 0..MaxFd : fds[f] \in {"free", "std"}

\* While the plans run, each event holds what it opened: the leader, whose
\* descriptor the profiler reads and signals by, and every child of the group;
\* also in a second call that reuses the numbers, after one that failed.
OwnWhileRunning ==
  pc = "running" => \A p \in Plans :
    /\ Owned(p) = {fd[p]} \cup ChildFds(p)
    /\ Cardinality(Owned(p)) = 1 + Children[p]
    /\ p \in hdr

\* The list of events names those that exist, with whatever event came or went
\* last, fully opened or not, and is not used after the last one has deleted
\* it; only by a further call of profile(), for which the pointer is not reset.
\* And all variables keep their type.
LookupExact ==
  lookup = m_pidmap \cup ({plan} \ {NoPlan}) \/ pc = "crashed"
LookupValid == TypeOK /\ LookupExact /\ (calls < 2 => ~wild)
=============================================================================
