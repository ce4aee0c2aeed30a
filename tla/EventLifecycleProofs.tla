------------------------ MODULE EventLifecycleProofs ------------------------
(***************************************************************************)
(* What EventLifecycle promises of descriptors, mappings and event_lookup, *)
(* for any plans and groups of events, any descriptor table, any contents  *)
(* of uninitialised memory and any number of calls.                        *)
(***************************************************************************)
EXTENDS EventLifecycle, DataInduction

-----------------------------------------------------------------------------
(* The inductive invariant.                                                *)

PCs == {"idle", "clearing", "leaving", "gone", "building", "leader",
        "children", "failed", "running", "ending", "crashed"}

\* The plans that have an Event object.
Exists == m_pidmap \cup ({plan} \ {NoPlan})

\* An event's descriptors are all in its objects, once each.
Whole(p) ==
  /\ Owned(p) = {fd[p]} \cup ChildFds(p)
  /\ Cardinality(Owned(p)) = 1 + Children[p]

\* Where profile() is, and which variables are in use there.
ControlInv ==
  /\ pc \in PCs /\ calls \in Nat
  /\ child_fd = [p \in Plans |-> child_fd[p]]
  /\ pc \in {"idle", "clearing", "leaving", "gone"} => sfd = 0
  /\ pc = "failed" => thrown
  /\ pc = "running" => m_pidmap = Plans
  /\ pc = "gone" => m_pidmap = {}
  /\ pc # "crashed" =>
       (plan # NoPlan <=> pc \in {"leader", "children", "failed"})
  /\ plan \notin m_pidmap

\* The objects that exist know their descriptors, and nobody else has any.
ObjectInv ==
  pc # "crashed" =>
    /\ lookup = Exists /\ hdr \subseteq m_pidmap
    /\ \A p \in Exists : child_fd[p] \in [1..Children[p] -> Int]
    /\ \A p \in Plans \ Exists : Owned(p) = {}
    /\ \A p \in m_pidmap : fd[p] # 0 /\ Owned(p) \subseteq {fd[p]} \cup ChildFds(p)

\* From the signalfd to the end of the run nothing is closed, so what has been
\* opened is still there, and 0 is not free: a descriptor of 0 is an unopened one.
BuildInv ==
  pc \in {"building", "leader", "children", "failed", "running"} =>
    /\ fds[0] # "free"
    /\ \A p \in m_pidmap : Whole(p) /\ p \in hdr
    /\ pc = "leader" => fd[plan] = 0 /\ Owned(plan) = {}
    /\ pc = "children" =>
         /\ opened \in 0..Children[plan] /\ fd[plan] # 0
         /\ Owned(plan) = {fd[plan]} \cup {child_fd[plan][i] : i \in 1..opened}
         /\ Cardinality(Owned(plan)) = 1 + opened
    /\ pc = "failed" => Owned(plan) \subseteq ({fd[plan]} \ {0}) \cup ChildFds(plan)

\* As long as no group was given up half way, every number an object closes is
\* its own; and as long as nothing was stolen the signalfd is the profiler's.
CloseInv ==
  /\ ~thrown => stolen = {}
  /\ ~thrown /\ pc # "crashed" =>
       /\ \A p \in m_pidmap : Owned(p) = {fd[p]} \cup ChildFds(p)
       /\ sfd # 0 => fds[sfd] = "signalfd"
  /\ stolen = {} =>
       /\ fds[0] = "std"
       /\ pc # "crashed" => \A f \in 0..MaxFd : fds[f] = "signalfd" => f = sfd

\* The first call makes the list anew, and is over when the list is deleted.
ListInv ==
  calls < 2 =>
    /\ ~wild
    /\ event_lookup = "dangling" /\ pc # "crashed" =>
         Exists = {} /\ pc \in {"ending", "idle", "leaving", "gone"}
    /\ calls = 0 => /\ pc \in {"idle", "leaving", "gone"} /\ m_pidmap = {}
                    /\ event_lookup # "dangling"
    /\ calls = 1 /\ pc = "clearing" => m_pidmap = {} /\ event_lookup # "dangling"

IInv ==
  TypeOK /\ ControlInv /\ ObjectInv /\ BuildInv /\ CloseInv /\ ListInv

-----------------------------------------------------------------------------
(* The descriptor table.                                                   *)

\* The kernel hands out the lowest free descriptor.
LEMMA LowestIsFree ==
  Free # {} => Lowest \in Free /\ \A f \in Free : Lowest <= f
<1> SUFFICES ASSUME Free # {}
             PROVE  Lowest \in Free /\ \A f \in Free : Lowest <= f
  OBVIOUS
<1>1. Free \subseteq Nat
  BY LifecycleAssumption DEF Free
<1>2. \E f \in Free : \A g \in Free : f <= g
  BY <1>1, LeastNat
<1> QED
  BY <1>2 DEF Lowest

\* Opening adds it to what its owner has.
LEMMA OwnedWhenOpened ==
  ASSUME TypeOK, Free # {}, NEW x \in Plans \cup {"signalfd"},
         fds' = [fds EXCEPT ![Lowest] = x]
  PROVE  \A p \in Plans :
           Owned(p)' = IF p = x THEN Owned(p) \cup {Lowest} ELSE Owned(p)
<1>1. Lowest \in 0..MaxFd /\ fds[Lowest] = "free"
  BY LowestIsFree DEF Free
<1> QED
  BY <1>1, LifecycleAssumption DEF TypeOK, Owned

\* Closing takes the numbers from whoever has them.
LEMMA OwnedWhenClosed ==
  ASSUME TypeOK, NEW C, NEW o, CloseAll(C, o)
  PROVE  \A p \in Plans : Owned(p)' = Owned(p) \ C
BY LifecycleAssumption DEF TypeOK, Owned, CloseAll, Hit

\* What an object owns is finite.
LEMMA OwnedIsFinite == \A p : IsFiniteSet(Owned(p))
<1>1. IsFiniteSet(0..MaxFd)
  BY FS_Interval, LifecycleAssumption
<1> QED
  BY <1>1, FS_Subset DEF Owned

\* What the destructors of an event and its children close.
Numbers(p) == ({fd[p]} \ {0}) \cup ChildFds(p)

\* A destructor ends the process, or closes all that its object has and takes
\* it from the list.
LEMMA Destroyed ==
  ASSUME IInv, pc # "crashed", NEW p \in Exists, NEW next,
         pc = "failed" \/ p \in m_pidmap,
         Destroy(p, next)
  PROVE  \/ pc' = "crashed" /\ UNCHANGED <<table, objects>>
         \/ /\ pc' = next /\ CloseAll(Numbers(p), p)
            /\ UNCHANGED <<fd, child_fd>>
            /\ hdr' = hdr \ {p} /\ lookup' = lookup \ {p}
            /\ event_lookup' =
                 IF lookup = {p} THEN "dangling" ELSE event_lookup
            /\ wild' = (wild \/ event_lookup = "dangling")
            /\ Owned(p)' = {}
            /\ \A q \in Plans : Owned(q)' \subseteq Owned(q)
<1> USE DEF IInv, Exists
<1>1. p \in Plans
  BY DEF TypeOK
<1>2. Owned(p) \subseteq Numbers(p)
  BY DEF ObjectInv, BuildInv, ControlInv, Numbers
<1>3. CASE CloseAll(Numbers(p), p)
  <2>1. \A q \in Plans : Owned(q)' = Owned(q) \ Numbers(p)
    BY <1>3, OwnedWhenClosed
  <2>2. Owned(p)' = {} /\ \A q \in Plans : Owned(q)' \subseteq Owned(q)
    BY <1>1, <1>2, <2>1
  <2> HIDE DEF IInv, Exists
  <2> QED
    BY <1>3, <2>2 DEF Destroy, Numbers
<1>4. CASE pc' = "crashed" /\ UNCHANGED <<table, objects>>
  BY <1>4
<1> QED
  BY <1>3, <1>4 DEF Destroy, Numbers

-----------------------------------------------------------------------------
(* One lemma for each part, with one step for each action that reaches it. *)

\* The variables stay in their types.
LEMMA TypeStep == IInv /\ [Next]_vars => TypeOK'
<1> SUFFICES ASSUME IInv, [Next]_vars PROVE TypeOK'
  OBVIOUS
<1> USE LifecycleAssumption DEF IInv, TypeOK, table, objects
<1>1. ASSUME NEW p \in Plans, Construct(p) PROVE TypeOK'
  BY <1>1 DEF Construct
<1>2. ASSUME NEW C, NEW o, CloseAll(C, o)
      PROVE  fds' \in [0..MaxFd -> {"free", "std", "signalfd"} \cup Plans]
  BY <1>2 DEF CloseAll
<1>3. ASSUME NEW p \in Plans, Drop(p) PROVE TypeOK'
  BY <1>2, <1>3 DEF Drop, Destroy
<1>4. CASE GiveUp
  BY <1>2, <1>4 DEF GiveUp, Destroy, ControlInv
<1>5. CASE OpenLeader \/ OpenChild
  <2>1. Lowest \in 0..MaxFd /\ plan \in Plans
    BY <1>5, LowestIsFree DEF OpenLeader, OpenChild, ControlInv, Free
  <2>2. CASE OpenLeader
    BY <2>1, <2>2 DEF OpenLeader
  <2>3. CASE OpenChild
    BY <2>1, <2>3 DEF OpenChild
  <2> QED
    BY <1>5, <2>2, <2>3
<1>6. CASE CreateSignalFD
  BY <1>6, LowestIsFree DEF CreateSignalFD, Free
<1>7. CASE Finalize
  BY <1>2, <1>7 DEF Finalize
<1>8. CASE Map
  BY <1>8 DEF Map, ControlInv
<1>9. CASE Fail \/ FailEarly \/ Begin \/ Leave \/ Gone \/ Run \/ Stop
  BY <1>9 DEF Fail, FailEarly, Begin, Leave, Gone, Run, Stop
<1>10. CASE UseAfterFree \/ Ended \/ UNCHANGED vars
  BY <1>10 DEF UseAfterFree, Ended, vars, control
<1> QED
  BY <1>1, <1>3, <1>4, <1>5, <1>6, <1>7, <1>8, <1>9, <1>10 DEF Next

\* Control goes from state to state with the variables that are in use there.
LEMMA ControlStep == IInv /\ [Next]_vars => ControlInv'
<1> SUFFICES ASSUME IInv, [Next]_vars PROVE ControlInv'
  OBVIOUS
<1> USE LifecycleAssumption DEF IInv, TypeOK, ControlInv, PCs, table, objects
<1>1. ASSUME NEW p \in Plans, Construct(p) PROVE ControlInv'
  BY <1>1 DEF Construct
<1>2. ASSUME NEW p \in Plans, Drop(p) PROVE ControlInv'
  BY <1>2 DEF Drop, Destroy, CloseAll
<1>3. CASE GiveUp
  BY <1>3 DEF GiveUp, Destroy, CloseAll
<1>4. CASE OpenLeader
  BY <1>4 DEF OpenLeader
<1>5. CASE OpenChild
  BY <1>5 DEF OpenChild
<1>6. CASE CreateSignalFD \/ Finalize
  BY <1>6 DEF CreateSignalFD, Finalize, CloseAll
<1>7. CASE Map
  BY <1>7 DEF Map
<1>8. CASE Fail \/ FailEarly \/ Begin \/ Leave \/ Gone \/ Run \/ Stop
  BY <1>8 DEF Fail, FailEarly, Begin, Leave, Gone, Run, Stop
<1>9. CASE UseAfterFree \/ Ended \/ UNCHANGED vars
  BY <1>9 DEF UseAfterFree, Ended, vars, control
<1> QED
  BY <1>1, <1>2, <1>3, <1>4, <1>5, <1>6, <1>7, <1>8, <1>9 DEF Next

\* An object starts with its own numbers or none, and takes them with it.
LEMMA ObjectStep == IInv /\ [Next]_vars => ObjectInv'
<1> SUFFICES ASSUME IInv, [Next]_vars PROVE ObjectInv'
  OBVIOUS
<1>0. /\ TypeOK /\ ControlInv
      /\ pc # "crashed" =>
           /\ lookup = Exists /\ hdr \subseteq m_pidmap
           /\ \A p \in Exists : child_fd[p] \in [1..Children[p] -> Int]
           /\ \A p \in Plans \ Exists : Owned(p) = {}
           /\ \A p \in m_pidmap :
                fd[p] # 0 /\ Owned(p) \subseteq {fd[p]} \cup ChildFds(p)
  BY DEF IInv, ObjectInv
<1>a. /\ m_pidmap \subseteq Plans
      /\ child_fd = [p \in Plans |-> child_fd[p]] /\ fd \in [Plans -> 0..MaxFd]
  BY <1>0 DEF TypeOK, ControlInv
<1>b. pc \in {"leader", "children", "failed"} => plan \in Plans \ m_pidmap
  BY <1>0 DEF TypeOK, ControlInv
<1>1. ASSUME NEW p \in Plans, Construct(p) PROVE ObjectInv'
  <2>1. pc # "crashed" /\ Exists = m_pidmap /\ Exists' = m_pidmap \cup {p}
    BY <1>1, LifecycleAssumption DEF Construct, Exists
  <2>2. \A q \in Plans : Owned(q)' = Owned(q)
    BY <1>1 DEF Construct, table, Owned
  <2>3. /\ child_fd'[p] \in [1..Children[p] -> Int]
        /\ \A q \in Plans \ {p} : child_fd'[q] = child_fd[q] /\ fd'[q] = fd[q]
    BY <1>1, <1>a, LifecycleAssumption DEF Construct
  <2>4. \A q \in m_pidmap : ChildFds(q)' = ChildFds(q) /\ fd'[q] = fd[q]
    <3>1. \A q \in m_pidmap : child_fd'[q] = child_fd[q] /\ fd'[q] = fd[q]
      BY <1>1, <1>a, <2>3 DEF Construct
    <3> QED
      BY <3>1 DEF ChildFds
  <2>5. lookup' = lookup \cup {p} /\ UNCHANGED <<hdr, m_pidmap>>
    BY <1>1 DEF Construct
  <2> QED
    BY <1>0, <1>a, <2>1, <2>2, <2>3, <2>4, <2>5 DEF ObjectInv
<1>2. ASSUME NEW p \in Plans, Drop(p) PROVE ObjectInv'
  <2>1. p \in Exists /\ p \in m_pidmap /\ pc # "crashed" /\ plan = NoPlan
    BY <1>0, <1>2 DEF Drop, Exists, ControlInv
  <2>2. /\ Exists = m_pidmap /\ Exists' = m_pidmap \ {p}
        /\ m_pidmap' = m_pidmap \ {p}
    BY <1>2, <2>1 DEF Drop, Exists
  <2>3. CASE pc' = "crashed"
    BY <2>3 DEF ObjectInv
  <2>4. CASE pc' # "crashed"
    <3>1. /\ UNCHANGED <<fd, child_fd>> /\ hdr' = hdr \ {p}
          /\ lookup' = lookup \ {p} /\ Owned(p)' = {}
          /\ \A q \in Plans : Owned(q)' \subseteq Owned(q)
      BY <1>2, <2>1, <2>4, Destroyed DEF Drop
    <3>2. \A q : ChildFds(q)' = ChildFds(q)
      BY <3>1 DEF ChildFds
    <3> QED
      BY <1>0, <1>a, <2>1, <2>2, <3>1, <3>2 DEF ObjectInv
  <2> QED
    BY <2>3, <2>4
<1>3. CASE GiveUp
  <2>1. plan \in Exists /\ pc = "failed" /\ plan \in Plans \ m_pidmap
    BY <1>b, <1>3, LifecycleAssumption DEF GiveUp, Exists
  <2>2. /\ Exists = m_pidmap \cup {plan} /\ Exists' = m_pidmap
        /\ m_pidmap' = m_pidmap
    BY <1>3, <2>1, LifecycleAssumption DEF GiveUp, Exists
  <2>3. CASE pc' = "crashed"
    BY <2>3 DEF ObjectInv
  <2>4. CASE pc' # "crashed"
    <3>1. Destroy(plan, "ending")
      BY <1>3 DEF GiveUp
    <3>2. /\ UNCHANGED <<fd, child_fd>> /\ hdr' = hdr \ {plan}
          /\ lookup' = lookup \ {plan}
          /\ \A q \in Plans : Owned(q)' \subseteq Owned(q)
      BY <2>1, <2>4, <3>1, Destroyed
    <3>3. \A p \in Plans : p = plan => Owned(p)' = {}
      <4> SUFFICES ASSUME NEW p \in Plans, p = plan PROVE Owned(p)' = {}
        OBVIOUS
      <4> QED
        BY <2>1, <2>4, <3>1, Destroyed
    <3>4. \A q : ChildFds(q)' = ChildFds(q)
      BY <3>2 DEF ChildFds
    <3> QED
      BY <1>0, <1>a, <2>1, <2>2, <3>2, <3>3, <3>4 DEF ObjectInv
  <2> QED
    BY <2>3, <2>4
<1>4. CASE OpenLeader
  <2>1. /\ plan \in Plans \ m_pidmap /\ pc # "crashed"
        /\ Exists = m_pidmap \cup {plan} /\ Exists' = Exists
        /\ UNCHANGED <<m_pidmap, lookup, hdr, child_fd>>
    BY <1>b, <1>4, LifecycleAssumption DEF OpenLeader, Exists
  <2>2. \A q \in Plans \ {plan} : Owned(q)' = Owned(q) /\ fd'[q] = fd[q]
    BY <1>0, <1>a, <1>4, <2>1, OwnedWhenOpened DEF OpenLeader
  <2>3. \A q : ChildFds(q)' = ChildFds(q)
    BY <1>4 DEF OpenLeader, ChildFds
  <2> QED
    BY <1>0, <1>a, <2>1, <2>2, <2>3 DEF ObjectInv
<1>5. CASE OpenChild
  <2>1. /\ plan \in Plans \ m_pidmap /\ pc # "crashed"
        /\ Exists = m_pidmap \cup {plan} /\ Exists' = Exists
        /\ UNCHANGED <<m_pidmap, lookup, hdr, fd>>
    BY <1>b, <1>5, LifecycleAssumption DEF OpenChild, Exists
  <2>2. \A q \in Plans \ {plan} : Owned(q)' = Owned(q)
    BY <1>0, <1>5, <2>1, OwnedWhenOpened DEF OpenChild
  <2>3. \A q \in Plans \ {plan} : child_fd'[q] = child_fd[q]
    BY <1>a, <1>5 DEF OpenChild
  <2>4. \A q \in m_pidmap : ChildFds(q)' = ChildFds(q)
    BY <1>a, <2>1, <2>3 DEF ChildFds
  <2>5. Lowest \in Int
    BY <1>5, LowestIsFree DEF OpenChild, Free
  <2>6. child_fd'[plan] \in [1..Children[plan] -> Int]
    <3>1. child_fd[plan] \in [1..Children[plan] -> Int]
      BY <1>0, <2>1
    <3>2. child_fd'[plan] = [child_fd[plan] EXCEPT ![opened + 1] = Lowest]
      BY <1>a, <1>5, <2>1 DEF OpenChild
    <3> QED
      BY <2>5, <3>1, <3>2
  <2> QED
    BY <1>0, <1>a, <2>1, <2>2, <2>3, <2>4, <2>6 DEF ObjectInv
<1>6. ASSUME UNCHANGED <<objects, m_pidmap, plan>>, pc # "crashed",
             \A q \in Plans : Owned(q)' \subseteq Owned(q)
      PROVE  ObjectInv'
  <2>1. UNCHANGED <<fd, child_fd, lookup, hdr, m_pidmap>> /\ Exists' = Exists
    BY <1>6 DEF objects, Exists
  <2>2. \A q : ChildFds(q)' = ChildFds(q)
    BY <2>1 DEF ChildFds
  <2> QED
    BY <1>0, <1>a, <1>6, <2>1, <2>2 DEF ObjectInv
<1>7. CASE CreateSignalFD
  <2>1. \A q \in Plans : Owned(q)' = Owned(q)
    BY <1>0, <1>7, OwnedWhenOpened, LifecycleAssumption DEF CreateSignalFD
  <2> QED
    BY <1>6, <1>7, <2>1 DEF CreateSignalFD
<1>8. CASE Finalize
  <2>1. \A q \in Plans : Owned(q)' \subseteq Owned(q)
    BY <1>0, <1>8, OwnedWhenClosed DEF Finalize
  <2> QED
    BY <1>6, <1>8, <2>1 DEF Finalize
<1>9. CASE Map
  <2>1. /\ plan \in Plans \ m_pidmap /\ pc = "children"
        /\ Exists = m_pidmap \cup {plan} /\ Exists' = Exists
        /\ m_pidmap' = m_pidmap \cup {plan} /\ hdr' = hdr \cup {plan}
        /\ UNCHANGED <<fd, child_fd, lookup>>
    BY <1>b, <1>9, LifecycleAssumption DEF Map, Exists
  <2>2. \A q : Owned(q)' = Owned(q) /\ ChildFds(q)' = ChildFds(q)
    BY <1>9 DEF Map, table, Owned, ChildFds
  <2>3. fd[plan] # 0 /\ Owned(plan) \subseteq {fd[plan]} \cup ChildFds(plan)
    <3>1. child_fd[plan] \in [1..Children[plan] -> Int]
      BY <1>0, <2>1
    <3>2. /\ fd[plan] # 0 /\ opened = Children[plan]
          /\ Owned(plan) = {fd[plan]} \cup {child_fd[plan][i] : i \in 1..opened}
      BY <1>9 DEF IInv, BuildInv, Map
    <3> QED
      BY <3>1, <3>2 DEF ChildFds
  <2> QED
    BY <1>0, <1>a, <2>1, <2>2, <2>3 DEF ObjectInv
<1>10. CASE Fail \/ FailEarly \/ Begin \/ Leave \/ Gone \/ Run \/ Stop
  <2>1. UNCHANGED <<objects, m_pidmap, plan, fds>> /\ pc # "crashed"
    BY <1>10 DEF Fail, FailEarly, Begin, Leave, Gone, Run, Stop, table
  <2> QED
    BY <1>6, <2>1 DEF Owned
<1>11. CASE UseAfterFree
  BY <1>11 DEF UseAfterFree, ObjectInv
<1>12. CASE Ended \/ UNCHANGED vars
  <2>1. UNCHANGED <<objects, m_pidmap, plan, fds, pc>>
    BY <1>12 DEF Ended, vars, control, table
  <2>2. CASE pc = "crashed"
    BY <2>1, <2>2 DEF ObjectInv
  <2> QED
    BY <1>6, <2>1, <2>2 DEF Owned
<1> QED
  BY <1>1, <1>2, <1>3, <1>4, <1>5, <1>7, <1>8, <1>9, <1>10, <1>11, <1>12
     DEF Next

\* While plans are built, what is opened is added and nothing else changes.
LEMMA BuildStep == IInv /\ [Next]_vars => BuildInv'
<1> DEFINE Building == {"building", "leader", "children", "failed", "running"}
<1> SUFFICES ASSUME IInv, [Next]_vars, pc' \in Building PROVE BuildInv'
  BY DEF BuildInv
<1>0. /\ TypeOK /\ ControlInv
      /\ pc # "crashed" =>
           /\ lookup = Exists /\ hdr \subseteq m_pidmap
           /\ \A p \in Exists : child_fd[p] \in [1..Children[p] -> Int]
           /\ \A p \in Plans \ Exists : Owned(p) = {}
  BY DEF IInv, ObjectInv
<1>a. /\ m_pidmap \subseteq Plans
      /\ child_fd = [p \in Plans |-> child_fd[p]] /\ fd \in [Plans -> 0..MaxFd]
      /\ fds \in [0..MaxFd -> {"free", "std", "signalfd"} \cup Plans]
  BY <1>0 DEF TypeOK, ControlInv
<1>b. pc \in {"leader", "children", "failed"} => plan \in Plans \ m_pidmap
  BY <1>0 DEF TypeOK, ControlInv
<1>c. pc \in Building =>
        fds[0] # "free" /\ \A p \in m_pidmap : Whole(p) /\ p \in hdr
  BY DEF IInv, BuildInv
<1>1. ASSUME NEW p \in Plans, Construct(p) PROVE BuildInv'
  <2>1. /\ pc = "building" /\ pc' = "leader" /\ plan' = p /\ plan = NoPlan
        /\ p \notin m_pidmap /\ UNCHANGED <<fds, hdr, m_pidmap>>
        /\ fd'[p] = 0 /\ \A q \in Plans \ {p} : fd'[q] = fd[q]
        /\ \A q \in Plans \ {p} : child_fd'[q] = child_fd[q]
    BY <1>1, <1>a DEF Construct, table
  <2>2. \A q : Owned(q)' = Owned(q)
    BY <2>1 DEF Owned
  <2>3. Owned(p) = {}
    BY <1>0, <2>1 DEF Exists
  <2>4. \A q \in m_pidmap : Whole(q)' /\ q \in hdr'
    BY <1>a, <1>c, <2>1, <2>2 DEF Whole, ChildFds
  <2> QED
    BY <1>c, <2>1, <2>2, <2>3, <2>4 DEF BuildInv
<1>2. CASE OpenLeader
  <2>1. /\ pc = "leader" /\ pc' = "children" /\ Free # {} /\ opened' = 0
        /\ fds' = [fds EXCEPT ![Lowest] = plan]
        /\ fd' = [fd EXCEPT ![plan] = Lowest]
        /\ UNCHANGED <<child_fd, hdr, m_pidmap, plan>>
    BY <1>2 DEF OpenLeader
  <2>2. plan \in Plans \ m_pidmap /\ Owned(plan) = {}
    BY <1>b, <2>1 DEF IInv, BuildInv
  <2>3. Lowest \in 0..MaxFd /\ fds[Lowest] = "free" /\ Lowest # 0
    BY <1>c, <2>1, LowestIsFree DEF Free
  <2>4. \A q \in Plans :
          Owned(q)' = IF q = plan THEN Owned(q) \cup {Lowest} ELSE Owned(q)
    BY <1>0, <2>1, <2>2, OwnedWhenOpened
  <2>5. \A q \in m_pidmap : Whole(q)' /\ q \in hdr'
    BY <1>a, <1>c, <2>1, <2>2, <2>4 DEF Whole, ChildFds
  <2>6. /\ fd'[plan] = Lowest
        /\ \A p \in Plans : p = plan => Owned(p)' = {Lowest}
    BY <1>a, <2>1, <2>2, <2>4
  <2>7. Cardinality({Lowest}) = 1
    BY FS_Singleton
  <2>8. fds'[0] # "free"
    BY <1>a, <1>c, <2>1, <2>3
  <2>9. plan' \in Plans /\ plan' = plan
    BY <2>1, <2>2
  <2>10. Owned(plan)' = {Lowest}
    BY <2>6, <2>9 DEF Owned
  <2>11. {child_fd'[plan'][i] : i \in 1..opened'} = {}
    BY <2>1
  <2>12. opened' \in 0..Children[plan']
    BY <2>1, <2>9, LifecycleAssumption
  <2> QED
    BY <2>1, <2>3, <2>5, <2>6, <2>7, <2>8, <2>9, <2>10, <2>11, <2>12
       DEF BuildInv
<1>3. CASE OpenChild
  <2>1. /\ pc = "children" /\ pc' = "children" /\ Free # {}
        /\ opened < Children[plan] /\ opened' = opened + 1
        /\ fds' = [fds EXCEPT ![Lowest] = plan]
        /\ UNCHANGED <<fd, hdr, m_pidmap, plan>>
    BY <1>3 DEF OpenChild
  <2>2. /\ plan \in Plans \ m_pidmap /\ opened \in 0..Children[plan]
        /\ fd[plan] # 0 /\ Cardinality(Owned(plan)) = 1 + opened
        /\ Owned(plan) = {fd[plan]} \cup {child_fd[plan][i] : i \in 1..opened}
    BY <1>b, <2>1 DEF IInv, BuildInv
  <2>3. Lowest \in 0..MaxFd /\ fds[Lowest] = "free" /\ Lowest # 0
    BY <1>c, <2>1, LowestIsFree DEF Free
  <2>4. \A q \in Plans :
          Owned(q)' = IF q = plan THEN Owned(q) \cup {Lowest} ELSE Owned(q)
    BY <1>0, <2>1, <2>2, OwnedWhenOpened
  <2>5. /\ \A q \in Plans \ {plan} : child_fd'[q] = child_fd[q]
        /\ child_fd'[plan] = [child_fd[plan] EXCEPT ![opened + 1] = Lowest]
    BY <1>3, <1>a, <2>2 DEF OpenChild
  <2>6. \A q \in m_pidmap : Whole(q)' /\ q \in hdr'
    BY <1>a, <1>c, <2>1, <2>2, <2>4, <2>5 DEF Whole, ChildFds
  <2>7. child_fd[plan] \in [1..Children[plan] -> Int]
    BY <1>0, <2>1, <2>2, LifecycleAssumption DEF Exists
  <2>8. Owned(plan) \cup {Lowest}
          = {fd[plan]} \cup {child_fd'[plan][i] : i \in 1..opened + 1}
    <3>1. \A i \in 1..opened : child_fd'[plan][i] = child_fd[plan][i]
      BY <2>2, <2>5, <2>7
    <3>2. child_fd'[plan][opened + 1] = Lowest
      BY <2>1, <2>2, <2>5, <2>7, LifecycleAssumption
    <3>3. 1..opened + 1 = (1..opened) \cup {opened + 1}
      BY <2>2, LifecycleAssumption
    <3> QED
      BY <2>2, <3>1, <3>2, <3>3
  <2>9. Cardinality(Owned(plan) \cup {Lowest}) = 1 + opened + 1
    <3>1. Lowest \notin Owned(plan)
      BY <2>2, <2>3, LifecycleAssumption DEF Owned
    <3> QED
      BY <2>2, <3>1, OwnedIsFinite, FS_AddElement
  <2>10. plan' = plan /\ Owned(plan)' = Owned(plan) \cup {Lowest}
    <3>1. Owned(plan)' = {f \in 0..MaxFd : fds'[f] = plan}
      BY <2>1 DEF Owned
    <3> QED
      BY <2>1, <2>2, <2>4, <3>1 DEF Owned
  <2>11. fds'[0] # "free"
    BY <1>a, <1>c, <2>1, <2>3
  <2>12. opened' \in 0..Children[plan'] /\ 1 + opened' = 1 + opened + 1
    BY <2>1, <2>2, LifecycleAssumption
  <2> QED
    BY <2>1, <2>2, <2>6, <2>8, <2>9, <2>10, <2>11, <2>12 DEF BuildInv
<1>4. CASE Map
  <2>1. /\ pc = "children" /\ pc' = "building" /\ opened = Children[plan]
        /\ hdr' = hdr \cup {plan} /\ m_pidmap' = m_pidmap \cup {plan}
        /\ UNCHANGED <<fds, fd, child_fd>>
    BY <1>4 DEF Map, table
  <2>2. /\ plan \in Plans \ m_pidmap /\ Cardinality(Owned(plan)) = 1 + opened
        /\ Owned(plan) = {fd[plan]} \cup {child_fd[plan][i] : i \in 1..opened}
    BY <1>b, <2>1 DEF IInv, BuildInv
  <2>3. child_fd[plan] \in [1..Children[plan] -> Int]
    BY <1>0, <2>1, <2>2, LifecycleAssumption DEF Exists
  <2>4. Whole(plan)
    BY <2>1, <2>2, <2>3 DEF Whole, ChildFds
  <2>5. \A q : Whole(q)' <=> Whole(q)
    BY <2>1 DEF Whole, Owned, ChildFds
  <2> QED
    BY <1>c, <2>1, <2>4, <2>5 DEF BuildInv
<1>5. CASE Fail
  <2>1. /\ pc \in {"leader", "children"} /\ pc' = "failed"
        /\ UNCHANGED <<fds, fd, child_fd, hdr, m_pidmap, plan>>
    BY <1>5 DEF Fail, objects
  <2>2. plan \in Plans /\ child_fd[plan] \in [1..Children[plan] -> Int]
    BY <1>0, <1>b, <2>1, LifecycleAssumption DEF Exists
  <2>3. Owned(plan) \subseteq ({fd[plan]} \ {0}) \cup ChildFds(plan)
    BY <2>1, <2>2, LifecycleAssumption DEF IInv, BuildInv, ChildFds
  <2> QED
    BY <1>c, <2>1, <2>3 DEF BuildInv, Whole, Owned, ChildFds
<1>6. CASE CreateSignalFD
  <2>1. /\ m_pidmap' = {} /\ pc' = "building" /\ Free # {}
        /\ fds' = [fds EXCEPT ![Lowest] = "signalfd"]
    BY <1>6 DEF CreateSignalFD
  <2>2. Lowest \in 0..MaxFd
    BY <2>1, LowestIsFree DEF Free
  <2>3. 0 \in Free => Lowest = 0
    BY <2>1, <2>2, LowestIsFree, LifecycleAssumption
  <2>4. fds'[0] # "free"
    BY <1>a, <2>1, <2>2, <2>3, LifecycleAssumption DEF Free
  <2> QED
    BY <2>1, <2>4 DEF BuildInv
<1>7. CASE Run
  <2>1. /\ pc = "building" /\ pc' = "running"
        /\ UNCHANGED <<fds, fd, child_fd, hdr, m_pidmap>>
    BY <1>7 DEF Run, table, objects
  <2> QED
    BY <1>c, <2>1 DEF BuildInv, Whole, Owned, ChildFds
<1>8. CASE UNCHANGED vars
  <2>1. UNCHANGED <<fds, fd, child_fd, hdr, m_pidmap, pc, plan, opened>>
    BY <1>8 DEF vars, table, objects, control
  <2>2. \A q : /\ Owned(q)' = Owned(q) /\ ChildFds(q)' = ChildFds(q)
               /\ Whole(q)' <=> Whole(q)
    BY <2>1 DEF Whole, Owned, ChildFds
  <2>3. Owned(plan)' = Owned(plan) /\ ChildFds(plan)' = ChildFds(plan)
    BY <2>1 DEF Owned, ChildFds
  <2>4. BuildInv
    BY DEF IInv
  <2> QED
    BY <2>1, <2>2, <2>3, <2>4 DEF BuildInv
<1>9. ASSUME \/ FailEarly \/ Begin \/ Leave \/ Gone \/ GiveUp \/ Stop
             \/ Finalize \/ UseAfterFree \/ \E p \in Plans : Drop(p)
      PROVE  FALSE
  BY <1>9
     DEF FailEarly, Begin, Leave, Gone, GiveUp, Stop, Finalize, UseAfterFree,
         Drop, Destroy
<1> QED
  BY <1>1, <1>2, <1>3, <1>4, <1>5, <1>6, <1>7, <1>8, <1>9 DEF Next, Ended

\* Descriptors only go to another than their owner after a group was given up.
LEMMA CloseStep == IInv /\ [Next]_vars => CloseInv'
<1> SUFFICES ASSUME IInv, [Next]_vars PROVE CloseInv'
  OBVIOUS
<1>0. /\ TypeOK /\ ControlInv /\ 0 \in 0..MaxFd
      /\ ~thrown => stolen = {}
      /\ ~thrown /\ pc # "crashed" =>
           /\ \A p \in m_pidmap : Owned(p) = {fd[p]} \cup ChildFds(p)
           /\ sfd # 0 => fds[sfd] = "signalfd"
      /\ stolen = {} =>
           /\ fds[0] = "std"
           /\ pc # "crashed" =>
                \A f \in 0..MaxFd : fds[f] = "signalfd" => f = sfd
  BY LifecycleAssumption DEF IInv, CloseInv
<1>a. /\ m_pidmap \subseteq Plans
      /\ child_fd = [p \in Plans |-> child_fd[p]] /\ fd \in [Plans -> 0..MaxFd]
      /\ fds \in [0..MaxFd -> {"free", "std", "signalfd"} \cup Plans]
      /\ sfd \in 0..MaxFd
  BY <1>0 DEF TypeOK, ControlInv
<1>b. pc \in {"leader", "children", "failed"} => plan \in Plans \ m_pidmap
  BY <1>0 DEF TypeOK, ControlInv
<1>1. ASSUME UNCHANGED <<table, sfd>>, pc # "crashed",
             \A q \in m_pidmap' : ~thrown =>
                                   Owned(q)' = {fd'[q]} \cup ChildFds(q)'
      PROVE  CloseInv'
  BY <1>0, <1>1 DEF CloseInv, table
<1>2. ASSUME NEW p \in Plans, Construct(p) PROVE CloseInv'
  <2>1. /\ pc = "building" /\ p \notin m_pidmap /\ UNCHANGED m_pidmap
        /\ \A q \in Plans \ {p} : fd'[q] = fd[q] /\ child_fd'[q] = child_fd[q]
        /\ UNCHANGED <<table, sfd>>
    BY <1>2, <1>a DEF Construct
  <2>2. \A q \in m_pidmap : /\ Owned(q)' = Owned(q) /\ fd'[q] = fd[q]
                            /\ ChildFds(q)' = ChildFds(q)
    BY <1>a, <2>1 DEF table, Owned, ChildFds
  <2> QED
    BY <1>0, <1>1, <2>1, <2>2
<1>3. ASSUME NEW p \in Plans, Drop(p) PROVE CloseInv'
  <2>1. p \in Exists /\ p \in m_pidmap /\ m_pidmap' = m_pidmap \ {p}
        /\ pc \in {"clearing", "leaving"} /\ UNCHANGED sfd /\ sfd = 0
        /\ Destroy(p, pc)
    BY <1>0, <1>3 DEF Drop, Exists, ControlInv
  <2>2. CASE pc' = "crashed" /\ UNCHANGED <<table, objects>>
    BY <1>0, <2>1, <2>2 DEF CloseInv, table
  <2>3. CASE CloseAll(Numbers(p), p) /\ UNCHANGED <<fd, child_fd>> /\ pc' = pc
    <3>1. /\ UNCHANGED thrown
          /\ stolen' = stolen \cup {f \in Hit(Numbers(p)) : fds[f] # p}
          /\ \A f \in 0..MaxFd :
               fds'[f] = IF f \in Hit(Numbers(p)) THEN "free" ELSE fds[f]
      BY <2>3 DEF CloseAll
    <3>2. ~thrown => \A f \in Hit(Numbers(p)) : fds[f] = p
      BY <1>0, <2>1 DEF Hit, Numbers, Owned
    <3>3. \A q \in Plans : Owned(q)' = Owned(q) \ Numbers(p)
      BY <1>0, <2>3, OwnedWhenClosed
    <3>4. ~thrown => \A q \in Plans \ {p} : Owned(q)' = Owned(q)
      BY <3>2, <3>1, LifecycleAssumption DEF Owned
    <3>5. \A q : ChildFds(q)' = ChildFds(q)
      BY <2>3 DEF ChildFds
    <3>6. stolen' = {} => stolen = {} /\ fds'[0] = "std"
      BY <1>0, <3>1, LifecycleAssumption
    <3>7. stolen' = {} => \A f \in 0..MaxFd : fds'[f] = "signalfd" => f = sfd'
      BY <1>0, <2>1, <3>1, <3>6
    <3> QED
      BY <1>0, <1>a, <2>1, <2>3, <3>1, <3>2, <3>4, <3>5, <3>6, <3>7
         DEF CloseInv
  <2> QED
    BY <2>1, <2>2, <2>3, Destroyed
<1>4. CASE GiveUp
  <2>1. /\ plan \in Exists /\ pc = "failed" /\ plan \in Plans /\ thrown
        /\ UNCHANGED <<m_pidmap, sfd>> /\ Destroy(plan, "ending")
    BY <1>0, <1>b, <1>4, LifecycleAssumption DEF GiveUp, Exists, ControlInv
  <2>2. CASE pc' = "crashed" /\ UNCHANGED <<table, objects>>
    BY <1>0, <2>1, <2>2 DEF CloseInv, table
  <2>3. CASE CloseAll(Numbers(plan), plan)
    <3>1. /\ UNCHANGED thrown
          /\ stolen' = stolen \cup {f \in Hit(Numbers(plan)) : fds[f] # plan}
          /\ \A f \in 0..MaxFd :
               fds'[f] = IF f \in Hit(Numbers(plan)) THEN "free" ELSE fds[f]
      BY <2>3 DEF CloseAll
    <3>2. stolen' = {} => stolen = {} /\ fds'[0] = "std"
      BY <1>0, <2>1, <3>1, LifecycleAssumption
    <3>3. stolen' = {} => \A f \in 0..MaxFd : fds'[f] = "signalfd" => f = sfd'
      BY <1>0, <2>1, <3>1, <3>2
    <3> QED
      BY <2>1, <3>1, <3>2, <3>3 DEF CloseInv
  <2> QED
    BY <2>1, <2>2, <2>3, Destroyed
<1>5. CASE OpenLeader \/ OpenChild
  <2>1. /\ pc \in {"leader", "children"} /\ pc' = "children" /\ Free # {}
        /\ fds' = [fds EXCEPT ![Lowest] = plan]
        /\ UNCHANGED <<stolen, thrown, m_pidmap, sfd>>
    BY <1>5 DEF OpenLeader, OpenChild
  <2>2. plan \in Plans \ m_pidmap
    BY <1>b, <2>1
  <2>3. \A q \in m_pidmap : fd'[q] = fd[q] /\ child_fd'[q] = child_fd[q]
    BY <1>5, <1>a, <2>2 DEF OpenLeader, OpenChild
  <2>4. \A q \in m_pidmap : ChildFds(q)' = ChildFds(q) /\ Owned(q)' = Owned(q)
    <3>1. \A q \in Plans :
            Owned(q)' = IF q = plan THEN Owned(q) \cup {Lowest} ELSE Owned(q)
      BY <1>0, <2>1, <2>2, OwnedWhenOpened
    <3> QED
      BY <1>a, <2>2, <2>3, <3>1 DEF ChildFds
  <2>5. Lowest \in 0..MaxFd /\ fds[Lowest] = "free"
    BY <2>1, LowestIsFree DEF Free
  <2>6. \A f \in 0..MaxFd : fds'[f] = IF f = Lowest THEN plan ELSE fds[f]
    BY <1>a, <2>1, <2>5
  <2>7. stolen = {} => fds'[0] = "std"
    BY <1>0, <2>5, <2>6
  <2>8. stolen = {} => \A f \in 0..MaxFd : fds'[f] = "signalfd" => f = sfd
    BY <1>0, <2>1, <2>2, <2>6, LifecycleAssumption
  <2>9. ~thrown /\ sfd # 0 => fds'[sfd] = "signalfd"
    BY <1>0, <1>a, <2>1, <2>5, <2>6
  <2> QED
    BY <1>0, <2>1, <2>3, <2>4, <2>7, <2>8, <2>9 DEF CloseInv
<1>6. CASE Map
  <2>1. /\ pc = "children" /\ opened = Children[plan]
        /\ m_pidmap' = m_pidmap \cup {plan}
        /\ UNCHANGED <<table, sfd, fd, child_fd>>
    BY <1>6 DEF Map
  <2>2. /\ plan \in Plans \ m_pidmap
        /\ Owned(plan) = {fd[plan]} \cup {child_fd[plan][i] : i \in 1..opened}
    BY <1>b, <2>1 DEF IInv, BuildInv
  <2>3. child_fd[plan] \in [1..Children[plan] -> Int]
    BY <2>1, <2>2, LifecycleAssumption DEF Exists, IInv, ObjectInv
  <2>4. Owned(plan) = {fd[plan]} \cup ChildFds(plan)
    BY <2>1, <2>2, <2>3 DEF ChildFds
  <2>5. \A q : Owned(q)' = Owned(q) /\ ChildFds(q)' = ChildFds(q)
    BY <2>1 DEF table, Owned, ChildFds
  <2> QED
    BY <1>0, <1>1, <2>1, <2>4, <2>5
<1>7. CASE CreateSignalFD
  <2>1. /\ m_pidmap' = {} /\ Free # {} /\ sfd' = Lowest /\ sfd = 0
        /\ fds' = [fds EXCEPT ![Lowest] = "signalfd"]
        /\ UNCHANGED <<stolen, thrown>> /\ pc # "crashed"
    BY <1>0, <1>7 DEF CreateSignalFD, ControlInv
  <2>2. Lowest \in 0..MaxFd /\ fds[Lowest] = "free"
    BY <2>1, LowestIsFree DEF Free
  <2>3. \A f \in 0..MaxFd : fds'[f] = IF f = Lowest THEN "signalfd" ELSE fds[f]
    BY <1>a, <2>1, <2>2
  <2>4. stolen = {} => \A f \in 0..MaxFd : fds[f] # "signalfd"
    BY <1>0, <2>1
  <2> QED
    BY <1>0, <2>1, <2>2, <2>3, <2>4 DEF CloseInv
<1>8. CASE Finalize
  <2> DEFINE C == {sfd} \ {0}
  <2>1. /\ CloseAll(C, "signalfd") /\ sfd' = 0 /\ pc = "ending"
        /\ UNCHANGED <<objects, m_pidmap>>
    BY <1>8 DEF Finalize
  <2>2. /\ UNCHANGED thrown
        /\ stolen' = stolen \cup {f \in Hit(C) : fds[f] # "signalfd"}
        /\ \A f \in 0..MaxFd :
             fds'[f] = IF f \in Hit(C) THEN "free" ELSE fds[f]
    BY <2>1 DEF CloseAll
  <2>3. ~thrown => \A f \in Hit(C) : fds[f] = "signalfd"
    BY <1>0, <2>1 DEF Hit
  <2>4. ~thrown => \A q \in Plans : Owned(q)' = Owned(q)
    BY <2>2, <2>3, LifecycleAssumption DEF Owned
  <2>5. fd' = fd /\ \A q : ChildFds(q)' = ChildFds(q)
    BY <2>1 DEF objects, ChildFds
  <2>6. stolen' = {} => /\ stolen = {} /\ fds'[0] = "std"
                        /\ \A f \in 0..MaxFd : fds'[f] # "signalfd"
    <3> SUFFICES ASSUME stolen' = {}
                 PROVE  /\ stolen = {} /\ fds'[0] = "std"
                        /\ \A f \in 0..MaxFd : fds'[f] # "signalfd"
      OBVIOUS
    <3>1. stolen = {} /\ fds[0] = "std"
      BY <1>0, <2>2
    <3>2. fds'[0] = "std"
      BY <1>0, <2>2, <3>1 DEF Hit
    <3>3. ASSUME NEW f \in 0..MaxFd, fds'[f] = "signalfd" PROVE FALSE
      <4>1. fds[f] = "signalfd" /\ f \notin Hit(C)
        BY <2>2, <3>3
      <4>2. f = sfd /\ f # 0
        BY <1>0, <2>1, <3>1, <4>1
      <4> QED
        BY <4>1, <4>2 DEF Hit
    <3> QED
      BY <3>1, <3>2, <3>3
  <2> QED
    BY <1>0, <1>a, <2>1, <2>2, <2>3, <2>4, <2>5, <2>6 DEF CloseInv
<1>9. CASE Fail
  <2>1. thrown' /\ UNCHANGED <<fds, stolen, sfd>> /\ pc # "crashed"
    BY <1>9 DEF Fail
  <2> QED
    BY <1>0, <2>1 DEF CloseInv
<1>10. CASE FailEarly \/ Begin \/ Leave \/ Gone \/ Run \/ Stop
  <2>1. UNCHANGED <<table, objects, m_pidmap, sfd>> /\ pc # "crashed"
    BY <1>10 DEF FailEarly, Begin, Leave, Gone, Run, Stop
  <2>2. /\ fd' = fd
        /\ \A q : Owned(q)' = Owned(q) /\ ChildFds(q)' = ChildFds(q)
    BY <2>1 DEF table, objects, Owned, ChildFds
  <2> QED
    BY <1>0, <1>1, <2>1, <2>2
<1>11. CASE UseAfterFree
  <2>1. UNCHANGED table /\ pc' = "crashed"
    BY <1>11 DEF UseAfterFree
  <2> QED
    BY <1>0, <2>1 DEF CloseInv, table
<1>12. CASE Ended \/ UNCHANGED vars
  <2>1. UNCHANGED <<table, objects, m_pidmap, sfd, pc>>
    BY <1>12 DEF Ended, vars, control
  <2>2. /\ fd' = fd
        /\ \A q : Owned(q)' = Owned(q) /\ ChildFds(q)' = ChildFds(q)
    BY <2>1 DEF table, objects, Owned, ChildFds
  <2> QED
    BY <1>0, <2>1, <2>2 DEF CloseInv, table
<1> QED
  BY <1>2, <1>3, <1>4, <1>5, <1>6, <1>7, <1>8, <1>9, <1>10, <1>11, <1>12
     DEF Next

\* In the first call the list is not used once it has been deleted.
LEMMA ListStep == IInv /\ [Next]_vars => ListInv'
<1> SUFFICES ASSUME IInv, [Next]_vars, calls' < 2 PROVE ListInv'
  BY DEF ListInv
<1>0. /\ calls \in Nat /\ plan \notin m_pidmap
      /\ pc # "crashed" =>
           (plan # NoPlan <=> pc \in {"leader", "children", "failed"})
      /\ pc # "crashed" => lookup = Exists
      /\ plan \in Plans \cup {NoPlan}
  BY DEF IInv, TypeOK, ControlInv, ObjectInv
<1>1. calls < 2 =>
        /\ ~wild
        /\ event_lookup = "dangling" /\ pc # "crashed" =>
             Exists = {} /\ pc \in {"ending", "idle", "leaving", "gone"}
        /\ calls = 0 => /\ pc \in {"idle", "leaving", "gone"} /\ m_pidmap = {}
                        /\ event_lookup # "dangling"
        /\ calls = 1 /\ pc = "clearing" => /\ m_pidmap = {}
                                           /\ event_lookup # "dangling"
  BY DEF IInv, ListInv
<1>2. ASSUME NEW p \in Plans, Construct(p) PROVE ListInv'
  BY <1>0, <1>1, <1>2 DEF Construct, ListInv
<1>3. ASSUME NEW p \in Plans, Drop(p) PROVE ListInv'
  <2>1. /\ p \in m_pidmap /\ p \in Exists /\ UNCHANGED calls
        /\ pc \in {"clearing", "leaving"}
        /\ m_pidmap' = m_pidmap \ {p} /\ plan' = plan /\ plan = NoPlan
        /\ Destroy(p, pc)
    BY <1>0, <1>3 DEF Drop, Exists
  <2>2. event_lookup # "dangling" /\ pc = "leaving" /\ calls = 1 /\ ~wild
    BY <1>0, <1>1, <2>1
  <2>3. CASE pc' = "crashed" /\ UNCHANGED <<table, objects>>
    BY <2>1, <2>2, <2>3 DEF ListInv, objects
  <2>4. CASE /\ pc' = pc
             /\ event_lookup' =
                  IF lookup = {p} THEN "dangling" ELSE event_lookup
             /\ wild' = (wild \/ event_lookup = "dangling")
    <3>1. lookup = {p} => Exists' = {}
      BY <1>0, <2>1 DEF Exists
    <3>2. ~wild'
      BY <2>2, <2>4, Zenon
    <3>3. event_lookup' = "dangling" => Exists' = {}
      BY <2>2, <2>4, <3>1
    <3>4. pc' = "leaving" /\ calls' = 1
      BY <2>1, <2>2, <2>4
    <3> QED
      BY <3>2, <3>3, <3>4 DEF ListInv
  <2> QED
    BY <2>1, <2>3, <2>4, Destroyed
<1>4. CASE GiveUp
  <2>1. /\ plan \in Exists /\ plan \in Plans /\ UNCHANGED <<calls, m_pidmap>>
        /\ pc = "failed" /\ plan' = NoPlan
        /\ Destroy(plan, "ending")
    BY <1>0, <1>4 DEF GiveUp, Exists
  <2>2. event_lookup # "dangling" /\ calls = 1 /\ ~wild
    BY <1>0, <1>1, <2>1
  <2>3. CASE pc' = "crashed" /\ UNCHANGED <<table, objects>>
    BY <2>1, <2>2, <2>3 DEF ListInv, objects
  <2>4. CASE /\ pc' = "ending"
             /\ event_lookup' =
                  IF lookup = {plan} THEN "dangling" ELSE event_lookup
             /\ wild' = (wild \/ event_lookup = "dangling")
    <3>1. lookup = {plan} => Exists' = {}
      BY <1>0, <2>1 DEF Exists
    <3>2. ~wild'
      BY <2>2, <2>4, Zenon
    <3>3. event_lookup' = "dangling" => Exists' = {}
      BY <2>2, <2>4, <3>1
    <3>4. pc' = "ending" /\ calls' = 1
      BY <2>1, <2>2, <2>4
    <3> QED
      BY <3>2, <3>3, <3>4 DEF ListInv
  <2> QED
    BY <2>1, <2>3, <2>4, Destroyed
<1>5. CASE Begin
  BY <1>0, <1>1, <1>5 DEF Begin, objects, ListInv
<1>6. CASE Leave \/ Gone \/ Finalize
  BY <1>0, <1>1, <1>6 DEF Leave, Gone, Finalize, objects, ListInv, Exists
<1>7. CASE CreateSignalFD \/ OpenLeader \/ OpenChild \/ Map \/ Fail
  BY <1>0, <1>1, <1>7
     DEF CreateSignalFD, OpenLeader, OpenChild, Map, Fail, objects, ListInv
<1>8. CASE FailEarly \/ Run \/ Stop
  BY <1>0, <1>1, <1>8 DEF FailEarly, Run, Stop, objects, ListInv
<1>9. ~UseAfterFree
  BY <1>1 DEF UseAfterFree
<1>10. CASE Ended \/ UNCHANGED vars
  BY <1>1, <1>10 DEF Ended, vars, objects, control, ListInv, Exists
<1> QED
  BY <1>2, <1>3, <1>4, <1>5, <1>6, <1>7, <1>8, <1>9, <1>10 DEF Next

-----------------------------------------------------------------------------
(***************************************************************************)
(* The inductive invariant.  OwnWhileRunning needs that 0 is never free    *)
(* while plans are built, a descriptor of 0 standing for none; NoLeak that *)
(* every object closes at least what it has, and, to close no more, that   *)
(* all its children have been opened.                                      *)
(***************************************************************************)
LEMMA InitInv == Init => IInv
<1> SUFFICES ASSUME Init PROVE IInv
  OBVIOUS
<1> USE LifecycleAssumption DEF Init
<1>1. TypeOK
  BY DEF TypeOK
<1>2. ControlInv
  BY DEF ControlInv, PCs
<1>3. \A p \in Plans : Owned(p) = {}
  BY DEF Owned
<1>4. ObjectInv
  BY <1>3 DEF ObjectInv, Exists
<1>5. BuildInv /\ ListInv
  BY DEF BuildInv, ListInv, Exists
<1>6. CloseInv
  BY DEF CloseInv
<1> QED
  BY <1>1, <1>2, <1>4, <1>5, <1>6 DEF IInv

\* It holds in every behaviour.
LEMMA Invariant == Spec => []IInv
<1>1. IInv /\ [Next]_vars => IInv'
  BY TypeStep, ControlStep, ObjectStep, BuildStep, CloseStep, ListStep
     DEF IInv
<1> QED
  BY <1>1, InitInv, PTL DEF Spec

(***************************************************************************)
(* Every descriptor is closed by the object that opened it as long as no   *)
(* group is given up half way; and when the last event has gone without    *)
(* stealing, no mapping and no descriptor is left behind.                  *)
(***************************************************************************)
THEOREM NothingLeaks == Spec => []NoLeak
<1>1. IInv => NoLeak
  <2> SUFFICES ASSUME IInv PROVE NoLeak
    OBVIOUS
  <2>1. OnlyOwnClosed
    BY DEF IInv, CloseInv, OnlyOwnClosed
  <2>2. ASSUME pc \in {"idle", "gone"}, m_pidmap = {}, stolen = {}
        PROVE  hdr = {} /\ \A f \in 0..MaxFd : fds[f] \in {"free", "std"}
    <3>1. plan = NoPlan /\ sfd = 0
      BY <2>2 DEF IInv, ControlInv
    <3>2. hdr = {} /\ \A p \in Plans : Owned(p) = {}
      BY <2>2, <3>1 DEF IInv, ObjectInv, Exists
    <3>3. fds[0] = "std" /\ \A f \in 0..MaxFd : fds[f] = "signalfd" => f = 0
      BY <2>2, <3>1 DEF IInv, CloseInv
    <3>4. \A f \in 0..MaxFd : fds[f] \in {"free", "std", "signalfd"} \cup Plans
      BY DEF IInv, TypeOK
    <3> QED
      BY <3>2, <3>3, <3>4 DEF Owned
  <2> QED
    BY <2>1, <2>2 DEF NoLeak
<1> QED
  BY <1>1, Invariant, PTL

(***************************************************************************)
(* While the plans run every event has its leader and all its children     *)
(* open, each on a descriptor of its own, also in a later call that reuses *)
(* the numbers of an earlier one.                                          *)
(***************************************************************************)
THEOREM OwnedWhileRunning == Spec => []OwnWhileRunning
<1>1. IInv => OwnWhileRunning
  BY DEF IInv, ControlInv, BuildInv, Whole, OwnWhileRunning
<1> QED
  BY <1>1, Invariant, PTL

(***************************************************************************)
(* The list of events is exact whatever came or went last, and is not used *)
(* after it was deleted in a process that calls profile() once.            *)
(***************************************************************************)
THEOREM LookupIsValid == Spec => []LookupValid
<1>1. IInv => LookupValid
  BY DEF IInv, ObjectInv, ListInv, LookupValid, LookupExact, Exists
<1> QED
  BY <1>1, Invariant, PTL
=============================================================================
