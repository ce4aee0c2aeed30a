---------------------------- MODULE StartupProofs ----------------------------
(***************************************************************************)
(* What Startup promises of the clean-up of profile(), for any plans, cpu  *)
(* set, machine and number of calls.                                       *)
(***************************************************************************)
EXTENDS Startup, DataInduction, SequenceTheorems

-----------------------------------------------------------------------------

\* Outside profile() the set is the user's, and inside oldcpuset is.
CpuInv == IF pc = "idle" THEN m_cpuset = cpuset ELSE oldcpuset = cpuset

\* profile() keeps the user's set in oldcpuset.
LEMMA SetKept == Spec => []CpuInv
<1>1. Init => CpuInv
  BY DEF Init, CpuInv
<1>2. CpuInv /\ [Next]_vars => CpuInv'
  <2> SUFFICES ASSUME CpuInv, [Next]_vars PROVE CpuInv'
    OBVIOUS
  <2> USE DEF given, kernel, fields, locals, CpuInv
  <2>1. CASE Begin
    BY <2>1 DEF Begin
  <2>2. CASE Check
    BY <2>2 DEF Check
  <2>3. CASE Build
    <3>1. CASE Fork \/ NothingToRun \/ ForkFails
      BY <2>3, <3>1 DEF Fork, NothingToRun, ForkFails, At, GoTo
    <3>2. CASE Pin \/ PinFails \/ NoPin
      BY <2>3, <3>2 DEF Pin, PinFails, NoPin, At, GoTo
    <3>3. CASE SetFIFO \/ SetFIFOFails \/ EventFails
      BY <2>3, <3>3 DEF SetFIFO, SetFIFOFails, EventFails, At, GoTo
    <3>4. CASE Emplace \/ EmplaceFails
      BY <2>3, <3>4 DEF Emplace, EmplaceFails, At, GoTo
    <3>5. CASE KillChild
      BY <3>5 DEF KillChild, Kill, At, GoTo
    <3> QED BY <2>3, <3>1, <3>2, <3>3, <3>4, <3>5 DEF Build
  <2>4. CASE Run \/ Stop
    BY <2>4 DEF Run, Stop, GoTo
  <2>5. CASE KillAll
    BY <2>5 DEF KillAll, Kill, GoTo
  <2>6. CASE Wait \/ NoChild
    BY <2>6 DEF Wait, NoChild, GoTo
  <2>7. CASE Finalize
    BY <2>7 DEF Finalize, GoTo
  <2>8. CASE Ended \/ UNCHANGED vars
    BY <2>8 DEF Ended, vars
  <2>9. ASSUME NEW c \in Plan, Exit(c) PROVE CpuInv'
    BY <2>9 DEF Exit
  <2> QED
    BY <2>1, <2>2, <2>3, <2>4, <2>5, <2>6, <2>7, <2>8, <2>9 DEF Next, Profiler
<1> QED
  BY <1>1, <1>2, PTL DEF Spec

\* ParallelProfiler.cpp:428 and :508, oldcpuset: the cpu set is restored on
\* every way out of profile().
THEOREM CpuSetAlwaysRestored == Spec => []CpuSetRestored
<1>1. CpuInv => CpuSetRestored
  BY DEF CpuInv, CpuSetRestored
<1> QED
  BY <1>1, SetKept, PTL

-----------------------------------------------------------------------------

\* Before the first child and after the last there is nobody to leave behind.
ChildInv ==
  pc \in {"idle", "check", "finalize"} =>
    \A c \in Plan : proc[c] \in {"none", "reaped"}

\* ParallelProfiler.cpp:500: profile() returns only when waitpid has had every
\* child, whichever step of buildRunningConfig failed.
THEOREM NoChildEverLeft == Spec => []NoChildLeft
<1>1. Init => ChildInv
  BY DEF Init, ChildInv
<1>2. ChildInv /\ [Next]_vars => ChildInv'
  <2> SUFFICES ASSUME ChildInv, [Next]_vars PROVE ChildInv'
    OBVIOUS
  <2> USE DEF ChildInv, given, kernel, fields, locals
  <2>1. CASE Begin
    BY <2>1 DEF Begin
  <2>2. CASE Check
    BY <2>2 DEF Check
  <2>3. CASE Build
    <3>1. CASE Fork \/ NothingToRun \/ ForkFails
      BY <3>1 DEF Fork, NothingToRun, ForkFails, At, GoTo
    <3>2. CASE Pin \/ PinFails \/ NoPin
      BY <3>2 DEF Pin, PinFails, NoPin, At, GoTo
    <3>3. CASE SetFIFO \/ SetFIFOFails \/ EventFails
      BY <3>3 DEF SetFIFO, SetFIFOFails, EventFails, At, GoTo
    <3>4. CASE Emplace \/ EmplaceFails
      BY <3>4 DEF Emplace, EmplaceFails, At, GoTo
    <3>5. CASE KillChild
      BY <3>5 DEF KillChild, Kill, At, GoTo
    <3> QED BY <2>3, <3>1, <3>2, <3>3, <3>4, <3>5 DEF Build
  <2>4. CASE Run \/ Stop
    BY <2>4 DEF Run, Stop, GoTo
  <2>5. CASE KillAll
    BY <2>5 DEF KillAll, Kill, GoTo
  <2>6. CASE Wait \/ NoChild
    BY <2>6 DEF Wait, NoChild, GoTo
  <2>7. CASE Finalize
    BY <2>7 DEF Finalize, GoTo
  <2>8. CASE Ended \/ UNCHANGED vars
    BY <2>8 DEF Ended, vars
  <2>9. ASSUME NEW c \in Plan, Exit(c) PROVE ChildInv'
    BY <2>9 DEF Exit
  <2> QED
    BY <2>1, <2>2, <2>3, <2>4, <2>5, <2>6, <2>7, <2>8, <2>9 DEF Next, Profiler
<1>3. ChildInv => NoChildLeft
  BY DEF ChildInv, NoChildLeft
<1> QED
  BY <1>1, <1>2, <1>3, PTL DEF Spec

-----------------------------------------------------------------------------

\* Where every plan has a command, a pid in hand or in the map is a child's.
SpareInv ==
  noCommand = {} =>
    /\ DOMAIN affinity = Process /\ DOMAIN policy = Process
    /\ Self \notin m_pidmap
    /\ pc \in {"pin", "rt", "event", "killchild"} => pid \in Plan
    /\ ProfilerSpared

\* The plan at hand is one of the plans, so not the profiler.
LEMMA AtPlan ==
  ASSUME NEW l, At(l) PROVE p \in Plan /\ p # Self /\ pc = l
  BY StartupAssumption DEF At, Plan, Range, p

\* Settings and signals go to the pid in hand, or to one in the map.
LEMMA OnlyChildren == Spec => []SpareInv
<1>1. Init => SpareInv
  BY DEF Init, SpareInv, ProfilerSpared, Process
<1>2. SpareInv /\ [Next]_vars => SpareInv'
  <2> SUFFICES ASSUME SpareInv, [Next]_vars PROVE SpareInv'
    OBVIOUS
  <2> USE DEF SpareInv, ProfilerSpared, given, kernel, fields, locals
  <2>1. CASE Begin
    BY <2>1 DEF Begin
  <2>2. CASE Check
    BY <2>2 DEF Check
  <2>3. CASE Build
    <3>1. CASE Fork
      BY <3>1, AtPlan DEF Fork, GoTo, Process
    <3>2. CASE NothingToRun \/ ForkFails
      BY <3>2 DEF NothingToRun, ForkFails, At, GoTo
    <3>3. CASE Pin
      BY <3>3, AtPlan, StartupAssumption DEF Pin, GoTo, Process
    <3>4. CASE PinFails \/ NoPin
      BY <3>4 DEF PinFails, NoPin, At, GoTo
    <3>5. CASE SetFIFO
      BY <3>5, AtPlan, StartupAssumption DEF SetFIFO, GoTo, Process
    <3>6. CASE SetFIFOFails \/ EventFails
      BY <3>6 DEF SetFIFOFails, EventFails, At, GoTo
    <3>7. CASE Emplace \/ EmplaceFails
      BY <3>7, StartupAssumption DEF Emplace, EmplaceFails, At, GoTo
    <3>8. CASE KillChild
      BY <3>8, StartupAssumption DEF KillChild, Kill, At, GoTo
    <3> QED
      BY <2>3, <3>1, <3>2, <3>3, <3>4, <3>5, <3>6, <3>7, <3>8 DEF Build
  <2>4. CASE Run \/ Stop
    BY <2>4 DEF Run, Stop, GoTo
  <2>5. CASE KillAll
    BY <2>5 DEF KillAll, Alive, Kill, GoTo
  <2>6. CASE Wait \/ NoChild
    BY <2>6 DEF Wait, NoChild, GoTo
  <2>7. CASE Finalize
    BY <2>7 DEF Finalize, GoTo
  <2>8. CASE Ended \/ UNCHANGED vars
    BY <2>8 DEF Ended, vars
  <2>9. ASSUME NEW c \in Plan, Exit(c) PROVE SpareInv'
    BY <2>9 DEF Exit
  <2> QED
    BY <2>1, <2>2, <2>3, <2>4, <2>5, <2>6, <2>7, <2>8, <2>9 DEF Next, Profiler
<1> QED
  BY <1>1, <1>2, PTL DEF Spec

\* ParallelProfiler.cpp:816-853 and :70-96: affinity, scheduling class and
\* SIGKILL, when every plan has a command, only ever go to the children.
THEOREM ProfilerAlwaysSpared == Spec => []ProfilerSpared
<1>1. SpareInv => ProfilerSpared
  BY DEF SpareInv, ProfilerSpared
<1> QED
  BY <1>1, OnlyChildren, PTL

-----------------------------------------------------------------------------
(***************************************************************************)
(* The plan is carried out.  First what the two operations on the cpu set  *)
(* do: the loop of argsCheck, and pop_back.                                *)
(***************************************************************************)

\* An empty sequence has no range.
LEMMA EmptyOnce == IsInjective(<<>>) /\ Range(<<>>) = {}
  BY DEF Range, IsInjective

\* Appending a new value adds it, and nothing else, to the range.
LEMMA AppendOnce ==
  ASSUME NEW A, NEW s \in Seq(A), IsInjective(s), NEW x \in A, x \notin Range(s)
  PROVE  /\ Append(s, x) \in Seq(A) /\ IsInjective(Append(s, x))
         /\ Range(Append(s, x)) = Range(s) \cup {x}
<1> DEFINE u == Append(s, x)
<1>1. /\ u \in Seq(A) /\ Len(u) = Len(s) + 1 /\ Len(s) \in Nat
      /\ \A i \in 1..Len(s) : u[i] = s[i]
      /\ u[Len(s) + 1] = x
  OBVIOUS
<1> HIDE DEF u
<1>2. DOMAIN s = 1..Len(s) /\ DOMAIN u = 1..(Len(s) + 1)
  BY <1>1
<1>3. \A i \in 1..Len(s) : s[i] \in Range(s)
  BY <1>2 DEF Range
<1>4. IsInjective(u)
  <2> SUFFICES ASSUME NEW i \in 1..(Len(s) + 1), NEW j \in 1..(Len(s) + 1),
                      u[i] = u[j]
               PROVE  i = j
    BY <1>2 DEF IsInjective
  <2>1. CASE i \in 1..Len(s) /\ j \in 1..Len(s)
    BY <1>1, <1>2, <2>1 DEF IsInjective
  <2>2. CASE i = Len(s) + 1 /\ j \in 1..Len(s)
    BY <1>1, <1>3, <2>2
  <2>3. CASE j = Len(s) + 1 /\ i \in 1..Len(s)
    BY <1>1, <1>3, <2>3
  <2> QED
    BY <1>1, <2>1, <2>2, <2>3
<1>5. \A y \in Range(u) : y \in Range(s) \cup {x}
  BY <1>1, <1>2, <1>3 DEF Range
<1>6. \A y \in Range(s) \cup {x} : y \in Range(u)
  BY <1>1, <1>2 DEF Range
<1> QED
  BY <1>1, <1>4, <1>5, <1>6 DEF u

\* Front takes the last value, which is nowhere else, out of the range.
LEMMA FrontOnce ==
  ASSUME NEW A, NEW s \in Seq(A), s # <<>>, IsInjective(s)
  PROVE  /\ Front(s) \in Seq(A) /\ Len(Front(s)) = Len(s) - 1
         /\ IsInjective(Front(s)) /\ Last(s) \in Range(s) /\ Last(s) \in A
         /\ Range(Front(s)) = Range(s) \ {Last(s)}
<1> DEFINE u == Front(s)
<1>0. Len(s) \in Nat \ {0} /\ \A i \in 1..(Len(s) - 1) : s[i] \in A
  OBVIOUS
<1>1. /\ u \in Seq(A) /\ Len(u) = Len(s) - 1
      /\ \A i \in 1..(Len(s) - 1) : u[i] = s[i]
  <2> DEFINE n == Len(s) - 1
  <2>1. n \in Nat /\ n - 1 + 1 = n
    BY <1>0
  <2>2. u = SubSeq(s, 1, n)
    BY DEF Front
  <2> HIDE DEF n, u
  <2>3. /\ SubSeq(s, 1, n) \in Seq(A)
        /\ Len(SubSeq(s, 1, n)) = IF 1 <= n THEN n - 1 + 1 ELSE 0
        /\ \A i \in 1..(n - 1 + 1) : SubSeq(s, 1, n)[i] = s[1 + i - 1]
    <3>1. 1 \in Int /\ \A i \in 1..n : s[i] \in A
      BY <1>0 DEF n
    <3> QED
      BY <2>1, <3>1, SubSeqProperties
  <2> QED
    BY <2>1, <2>2, <2>3 DEF n
<1>2. Last(s) = s[Len(s)]
  BY DEF Last
<1> HIDE DEF u
<1>3. DOMAIN s = 1..Len(s) /\ DOMAIN u = 1..(Len(s) - 1)
  BY <1>0, <1>1
<1>4. Last(s) \in Range(s) /\ Last(s) \in A
  BY <1>0, <1>2, <1>3 DEF Range
<1>5. IsInjective(u)
  BY <1>0, <1>1, <1>3 DEF IsInjective
<1>6. \A y \in Range(u) : y \in Range(s) \ {Last(s)}
  BY <1>0, <1>1, <1>2, <1>3 DEF Range, IsInjective
<1>7. \A y \in Range(s) \ {Last(s)} : y \in Range(u)
  BY <1>0, <1>1, <1>2, <1>3 DEF Range
<1> QED
  BY <1>1, <1>4, <1>5, <1>6, <1>7 DEF u

-----------------------------------------------------------------------------

\* cpus of the user's set, none of them twice.
Free(s) == s \in Seq(Int) /\ IsInjective(s) /\ Range(s) \subseteq Range(cpuset)

\* The loop of argsCheck over the first N cpus: after each, the cpus it kept.
Loop(g, s, N) ==
  g = [n \in 0..N |->
         IF n = 0 THEN <<>>
         ELSE IF s[n] >= 0 /\ s[n] < Cardinality(Online)
              THEN Append(g[n - 1], s[n])
              ELSE g[n - 1]]

\* The loop is a function.
LEMMA LoopExists == ASSUME NEW s, NEW N \in Nat PROVE \E g : Loop(g, s, N)
<1> DEFINE T == {n \in Nat : ~ \E g : Loop(g, s, n)}
<1>1. SUFFICES ASSUME T # {} PROVE FALSE
  OBVIOUS
<1>2. PICK m \in T : \A n \in T : m <= n
  <2>1. T \subseteq Nat
    OBVIOUS
  <2> HIDE DEF T
  <2> QED
    BY <1>1, <2>1, LeastNat
<1>3. CASE m = 0
  <2> DEFINE G == [n \in 0..0 |-> <<>>]
  <2>1. Loop(G, s, 0)
    BY DEF Loop
  <2> QED
    BY <1>2, <1>3, <2>1
<1>4. CASE m # 0
  <2>1. m \in Nat /\ m - 1 \in Nat /\ m - 1 \notin T
    BY <1>2, <1>4
  <2>2. PICK h : Loop(h, s, m - 1)
    BY <2>1
  <2> DEFINE After(g, n) == IF s[n] >= 0 /\ s[n] < Cardinality(Online)
                            THEN Append(g[n - 1], s[n]) ELSE g[n - 1]
             G == [n \in 0..m |-> IF n = m THEN After(h, m) ELSE h[n]]
  <2>3. \A n \in 0..(m - 1) : h[n] = IF n = 0 THEN <<>> ELSE After(h, n)
    BY <2>2 DEF Loop
  <2>4. \A n \in 1..m : After(G, n) = After(h, n)
    <3>1. \A n \in 1..m : n - 1 \in 0..m /\ n - 1 # m
      BY <2>1
    <3> QED
      BY <3>1
  <2> HIDE DEF After
  <2>5. \A n \in 0..m : G[n] = IF n = 0 THEN <<>> ELSE After(G, n)
    BY <1>4, <2>1, <2>3, <2>4
  <2>6. Loop(G, s, m)
    BY <2>5 DEF Loop, After
  <2> QED
    BY <1>2, <2>6
<1> QED
  BY <1>3, <1>4

\* What argsCheck keeps of a set of the user's is one.
LEMMA ValidIsFree == ASSUME NEW s, Free(s) PROVE Free(Valid(s))
<1>0. s \in Seq(Int) /\ Len(s) \in Nat /\ DOMAIN s = 1..Len(s)
  BY DEF Free
<1>1. PICK g : Loop(g, s, Len(s)) /\ Valid(s) = g[Len(s)]
  <2>1. \E g : Loop(g, s, Len(s))
    BY <1>0, LoopExists
  <2> QED
    BY <2>1 DEF Valid, Loop
<1> DEFINE Kept(n) == /\ g[n] \in Seq(Int) /\ IsInjective(g[n])
                      /\ Range(g[n]) \subseteq {s[i] : i \in 1..n}
           T == {n \in 0..Len(s) : ~Kept(n)}
<1>2. Kept(0)
  BY <1>0, <1>1, EmptyOnce DEF Loop
<1>3. ASSUME NEW m \in 1..Len(s), Kept(m - 1) PROVE Kept(m)
  <2>1. g[m] = Append(g[m - 1], s[m]) \/ g[m] = g[m - 1]
    <3>1. m \in 0..Len(s) /\ m # 0
      BY <1>0
    <3> QED
      BY <1>1, <3>1 DEF Loop
  <2>2. {s[i] : i \in 1..m} = {s[i] : i \in 1..(m - 1)} \cup {s[m]}
    BY <1>0
  <2>3. s[m] \in Int /\ s[m] \notin {s[i] : i \in 1..(m - 1)}
    BY <1>0 DEF Free, IsInjective
  <2>4. CASE g[m] = g[m - 1]
    BY <1>3, <2>2, <2>4
  <2>5. CASE g[m] = Append(g[m - 1], s[m])
    BY <1>3, <2>2, <2>3, <2>5, AppendOnce
  <2> QED
    BY <2>1, <2>4, <2>5
<1>4. T = {}
  <2> HIDE DEF Kept
  <2> SUFFICES ASSUME T # {} PROVE FALSE
    OBVIOUS
  <2>1. PICK m \in T : \A n \in T : m <= n
    <3>1. T \subseteq Nat
      BY <1>0
    <3> HIDE DEF T
    <3> QED
      BY <3>1, LeastNat
  <2>2. m # 0
    BY <1>2, <2>1
  <2>3. m \in 1..Len(s) /\ m - 1 \in 0..Len(s)
    BY <1>0, <2>1, <2>2
  <2>4. Kept(m - 1)
    BY <2>1, <2>3
  <2> QED
    BY <1>3, <2>1, <2>3, <2>4
<1>5. Kept(Len(s))
  <2> HIDE DEF Kept
  <2> QED
    BY <1>0, <1>4
<1>6. {s[i] : i \in 1..Len(s)} \subseteq Range(s)
  BY <1>0 DEF Range
<1> QED
  BY <1>1, <1>5, <1>6 DEF Free

-----------------------------------------------------------------------------

\* The sets and plans the callers pass in.
GivenInv == /\ pincpu \subseteq Plan /\ rt \subseteq Plan
            /\ cpuset \in CpuSets /\ noCommand \subseteq Plan

Building == {"build", "pin", "rt", "event"}

\* The plans whose RunningConfig is complete, and those that still need a cpu.
Started == {m_plan[i] : i \in 1..(next - 1)}
ToPin == pincpu \ (Started \cup (IF pc \in {"rt", "event"} THEN {p} ELSE {}))

\* While plans are being built there are as many cpus as plans to pin.
StockInv ==
  /\ CpuLeft
  /\ pc = "check" => next = 1 /\ m_pidmap = {}
  /\ pc \in {"pin", "rt", "event"} => next \in DOMAIN m_plan
  /\ pc = "run" => next = Len(m_plan) + 1
  /\ pc \in Building => Len(m_cpuset) >= Cardinality(ToPin)

\* q is where its plan says: on cpu k, which is used up, if it is to be pinned.
Placed(q, k) ==
  IF q \in pincpu
  THEN /\ k \in Range(cpuset) \cap Online /\ k \notin Range(m_cpuset)
       /\ affinity[q] = {k}
  ELSE affinity[q] = Online

Class(q) == IF q \in rt THEN "FIFO" ELSE "OTHER"

\* The plans in the map are as they should be.
StartedInv ==
  /\ m_pidmap = Started
  /\ \A q \in Started : Placed(q, m_cpu[q]) /\ policy[q] = Class(q)
  /\ \A q, o \in Started \cap pincpu : q # o => m_cpu[q] # m_cpu[o]

\* The one at hand is as far as its step says.
AtHandInv ==
  /\ pc \in {"pin", "rt", "event"} => pid = p
  /\ pc = "pin" => affinity[p] = Online
  /\ pc \in {"pin", "rt"} => policy[p] = "OTHER"
  /\ pc = "event" => policy[p] = Class(p)
  /\ pc \in {"rt", "event"} =>
       /\ Placed(p, cpu)
       /\ p \in pincpu => \A q \in Started \cap pincpu : m_cpu[q] # cpu

SettingInv ==
  noCommand = {} =>
    (pc \in Building \cup {"run"} => StartedInv) /\ AtHandInv

PlanInv == TypeOK /\ GivenInv /\ Free(m_cpuset) /\ StockInv /\ SettingInv

\* No step changes what the callers passed in.
LEMMA GivenKept == [Next]_vars => UNCHANGED given
<1> SUFFICES ASSUME [Next]_vars PROVE UNCHANGED given
  OBVIOUS
<1>1. CASE Begin \/ Check
  BY <1>1 DEF Begin, Check
<1>2. CASE Build
  <2>1. CASE Fork \/ NothingToRun \/ ForkFails
    BY <2>1 DEF Fork, NothingToRun, ForkFails, GoTo
  <2>2. CASE Pin \/ PinFails \/ NoPin
    BY <2>2 DEF Pin, PinFails, NoPin, GoTo
  <2>3. CASE SetFIFO \/ SetFIFOFails \/ EventFails
    BY <2>3 DEF SetFIFO, SetFIFOFails, EventFails, GoTo
  <2>4. CASE Emplace \/ EmplaceFails \/ KillChild
    BY <2>4 DEF Emplace, EmplaceFails, KillChild, Kill, GoTo
  <2> QED
    BY <1>2, <2>1, <2>2, <2>3, <2>4 DEF Build
<1>3. CASE Run \/ Stop \/ KillAll \/ Wait \/ NoChild \/ Finalize
  BY <1>3 DEF Run, Stop, KillAll, Kill, Wait, NoChild, Finalize, GoTo
<1>4. CASE Ended \/ UNCHANGED vars \/ \E c \in Plan : Exit(c)
  BY <1>4 DEF Ended, vars, Exit
<1> QED
  BY <1>1, <1>2, <1>3, <1>4 DEF Next, Profiler

\* The profiler's copy of the set changes in three places only.
LEMMA CpusKept == [Next]_vars => UNCHANGED m_cpuset \/ Check \/ Pin \/ Finalize
<1> SUFFICES ASSUME [Next]_vars, ~Check, ~Pin, ~Finalize
             PROVE  UNCHANGED m_cpuset
  OBVIOUS
<1> USE DEF fields
<1>1. CASE Begin
  BY <1>1 DEF Begin
<1>2. CASE Build
  <2>1. CASE Fork \/ NothingToRun \/ ForkFails
    BY <2>1 DEF Fork, NothingToRun, ForkFails
  <2>2. CASE PinFails \/ NoPin
    BY <2>2 DEF PinFails, NoPin
  <2>3. CASE SetFIFO \/ SetFIFOFails \/ EventFails
    BY <2>3 DEF SetFIFO, SetFIFOFails, EventFails
  <2>4. CASE Emplace \/ EmplaceFails \/ KillChild
    BY <2>4 DEF Emplace, EmplaceFails, KillChild
  <2> QED
    BY <1>2, <2>1, <2>2, <2>3, <2>4 DEF Build
<1>3. CASE Run \/ Stop \/ KillAll \/ Wait \/ NoChild
  BY <1>3 DEF Run, Stop, KillAll, Wait, NoChild
<1>4. CASE Ended \/ UNCHANGED vars \/ \E c \in Plan : Exit(c)
  BY <1>4 DEF Ended, vars, Exit
<1> QED
  BY <1>1, <1>2, <1>3, <1>4 DEF Next, Profiler

\* It is always part of the user's set, each cpu once.
LEMMA FreeStep ==
  ASSUME GivenInv, CpuInv, Free(m_cpuset), [Next]_vars PROVE Free(m_cpuset)'
<1>0. cpuset' = cpuset
  BY GivenKept DEF given
<1>1. SUFFICES Free(m_cpuset')
  BY <1>0 DEF Free
<1>2. CASE Check
  BY <1>2, ValidIsFree DEF Check
<1>3. CASE Pin
  BY <1>3, FrontOnce DEF Pin, fields, Free
<1>4. CASE Finalize
  BY <1>4, StartupAssumption DEF Finalize, CpuInv, GivenInv, Free
<1> QED
  BY <1>2, <1>3, <1>4, CpusKept

-----------------------------------------------------------------------------

\* Processors have numbers.
LEMMA OnlineNumbers == \A k \in Online : k \in Int
  BY StartupAssumption

\* No step leaves the types, given that the cpu set keeps its own.
LEMMA TypeStep ==
  ASSUME TypeOK, Free(m_cpuset)', [Next]_vars PROVE TypeOK'
<1> USE DEF TypeOK, given, kernel, fields, locals
<1>0. m_cpuset' \in Seq(Int) /\ Plan \subseteq Process /\ Self \in Process
  BY DEF Free, Process
<1>1. CASE Begin
  BY <1>0, <1>1, StartupAssumption DEF Begin
<1>2. CASE Check
  BY <1>0, <1>2 DEF Check
<1>3. CASE Build
  <2>1. CASE Fork
    BY <1>0, <2>1, AtPlan DEF Fork, GoTo, NoCpu
  <2>2. CASE NothingToRun \/ ForkFails
    BY <1>0, <2>2 DEF NothingToRun, ForkFails, GoTo, NoCpu
  <2>3. CASE Pin
    <3>1. cpu' \in Int
      <4>1. cpu' = cpu \/ cpu' \in Online
        BY <2>3 DEF Pin
      <4> QED
        BY <4>1, OnlineNumbers
    <3>2. affinity' \in [Process -> SUBSET Online]
      BY <2>3 DEF Pin
    <3> QED
      BY <1>0, <2>3, <3>1, <3>2 DEF Pin, GoTo
  <2>4. CASE PinFails \/ NoPin
    <3>1. m_cpuset # <<>> => Last(m_cpuset) \in Int
      BY DEF Last
    <3> QED
      BY <1>0, <2>4, <3>1 DEF PinFails, NoPin, GoTo
  <2>5. CASE SetFIFO
    BY <1>0, <2>5 DEF SetFIFO, GoTo
  <2>6. CASE SetFIFOFails \/ EventFails \/ EmplaceFails
    BY <1>0, <2>6 DEF SetFIFOFails, EventFails, EmplaceFails, GoTo
  <2>7. CASE Emplace
    BY <1>0, <2>7, StartupAssumption DEF Emplace, At, GoTo
  <2>8. CASE KillChild
    BY <1>0, <2>8 DEF KillChild, Kill, GoTo
  <2> QED
    BY <1>3, <2>1, <2>2, <2>3, <2>4, <2>5, <2>6, <2>7, <2>8 DEF Build
<1>4. CASE Run \/ Stop \/ NoChild \/ Finalize
  BY <1>0, <1>4 DEF Run, Stop, NoChild, Finalize, GoTo
<1>5. CASE KillAll
  BY <1>0, <1>5 DEF KillAll, Kill, GoTo
<1>6. CASE Wait
  BY <1>0, <1>6 DEF Wait, GoTo
<1>7. ASSUME NEW c \in Plan, Exit(c) PROVE TypeOK'
  BY <1>0, <1>7 DEF Exit
<1>8. CASE Ended \/ UNCHANGED vars
  BY <1>8 DEF Ended, vars
<1> QED
  BY <1>1, <1>2, <1>3, <1>4, <1>5, <1>6, <1>7, <1>8 DEF Next, Profiler

-----------------------------------------------------------------------------

\* There are finitely many plans: they are a sequence.
LEMMA PlanFinite == IsFiniteSet(Plan)
<1>1. m_plan \in Surjection(1..Len(m_plan), Plan)
  BY StartupAssumption DEF Surjection, Plan, Range
<1>2. IsFiniteSet(1..Len(m_plan))
  BY StartupAssumption, FS_Interval
<1> QED
  BY <1>1, <1>2, FS_Surjection

\* The plan at hand is not among those before it.
LEMMA AtHand ==
  ASSUME TypeOK, next \in DOMAIN m_plan
  PROVE  /\ p \in Plan /\ p # Self /\ p \notin Started
         /\ {m_plan[i] : i \in 1..next} = Started \cup {p}
<1>1. /\ DOMAIN m_plan = 1..Len(m_plan) /\ Len(m_plan) \in Nat
      /\ next \in 1..Len(m_plan)
  BY StartupAssumption
<1>2. p \in Plan /\ p # Self
  BY StartupAssumption DEF Plan, Range, p
<1>3. p \notin Started
  BY <1>1, StartupAssumption DEF IsInjective, Started, p
<1>4. 1..next = (1..(next - 1)) \cup {next}
  BY <1>1
<1> QED
  BY <1>2, <1>3, <1>4 DEF Started, p

\* Pinning a plan makes one less to pin.
LEMMA OneLess ==
  ASSUME TypeOK, GivenInv, next \in DOMAIN m_plan, p \in pincpu
  PROVE  /\ Cardinality(pincpu \ Started) \in Nat \ {0}
         /\ Cardinality(pincpu \ (Started \cup {p}))
              = Cardinality(pincpu \ Started) - 1
<1> DEFINE S == pincpu \ Started
<1>1. IsFiniteSet(S) /\ p \in S
  BY PlanFinite, FS_Subset, AtHand DEF GivenInv
<1>2. pincpu \ (Started \cup {p}) = S \ {p}
  OBVIOUS
<1>3. /\ Cardinality(S) \in Nat /\ Cardinality(S) # 0
      /\ Cardinality(S \ {p}) = Cardinality(S) - 1
  BY <1>1, FS_CardinalityType, FS_EmptySet, FS_RemoveElement
<1> QED
  BY <1>2, <1>3

\* The cpus do not run out.
LEMMA StockStep ==
  ASSUME TypeOK, GivenInv, Free(m_cpuset), StockInv, [Next]_vars
  PROVE  StockInv'
<1> USE DEF fields, locals
<1>0. UNCHANGED <<pincpu, cpuset>>
  BY GivenKept DEF given
<1>1. CASE Begin
  BY <1>1 DEF Begin, StockInv, Building, CpuLeft
<1>2. CASE Check
  <2>1. next' = 1 /\ Started' = {} /\ pc' \in {"build", "finalize", "killall"}
    BY <1>2 DEF Check, StockInv, Started
  <2>2. pc' = "build" => Len(m_cpuset') >= Cardinality(pincpu)
    BY <1>2 DEF Check, Enough
  <2>3. pc' = "build" => ToPin' = pincpu
    BY <1>0, <2>1 DEF ToPin
  <2> QED
    BY <2>1, <2>2, <2>3 DEF StockInv, Building, CpuLeft
<1>3. CASE Build
  <2>1. CASE Fork \/ NothingToRun \/ NoPin \/ SetFIFO
    <3>1. /\ UNCHANGED <<next, m_cpuset>> /\ next \in DOMAIN m_plan
          /\ \/ pc = "build" /\ pc' = "pin"
             \/ pc = "pin" /\ pc' = "rt" /\ p \notin pincpu
             \/ pc = "rt" /\ pc' = "event"
      BY <2>1 DEF Fork, NothingToRun, NoPin, SetFIFO, At, GoTo
    <3>2. Started' = Started /\ p' = p
      BY <3>1 DEF Started, p
    <3>3. ToPin' = ToPin
      BY <1>0, <3>1, <3>2 DEF ToPin
    <3> QED
      BY <3>1, <3>3 DEF StockInv, Building, CpuLeft
  <2>2. CASE Pin
    <3>1. /\ pc = "pin" /\ p \in pincpu
          /\ next \in DOMAIN m_plan /\ next' = next
          /\ m_cpuset = <<>> \/ (m_cpuset' = Front(m_cpuset) /\ pc' = "rt")
      BY <2>2 DEF Pin, At, GoTo
    <3>2. Len(m_cpuset) >= Cardinality(pincpu \ Started)
      BY <3>1 DEF StockInv, Building, ToPin
    <3>3. m_cpuset # <<>> /\ Len(m_cpuset) \in Nat
      BY <3>1, <3>2, OneLess DEF Free
    <3>4. Len(m_cpuset') = Len(m_cpuset) - 1 /\ pc' = "rt"
      BY <3>1, <3>3, FrontOnce DEF Free
    <3>5. ToPin' = pincpu \ (Started \cup {p})
      BY <1>0, <3>1, <3>4 DEF ToPin, Started, p
    <3>6. Len(m_cpuset') >= Cardinality(ToPin')
      BY <3>1, <3>2, <3>3, <3>4, <3>5, OneLess
    <3> QED
      BY <3>1, <3>4, <3>6 DEF StockInv, Building, CpuLeft
  <2>3. CASE Emplace
    <3>1. /\ pc = "event" /\ pc' = "build" /\ next \in DOMAIN m_plan
          /\ next' = next + 1 /\ m_cpuset' = m_cpuset
      BY <2>3 DEF Emplace, At, GoTo
    <3>2. Started' = Started \cup {p}
      <4>1. next' - 1 = next
        BY <3>1 DEF TypeOK
      <4>2. Started' = {m_plan[i] : i \in 1..next}
        BY <4>1 DEF Started
      <4> QED
        BY <3>1, <4>2, AtHand
    <3>3. ToPin' = ToPin
      BY <1>0, <3>1, <3>2 DEF ToPin
    <3> QED
      BY <3>1, <3>3 DEF StockInv, Building, CpuLeft
  <2>4. CASE ForkFails \/ PinFails \/ SetFIFOFails \/ EventFails \/ EmplaceFails
    BY <2>4 DEF ForkFails, PinFails, SetFIFOFails, EventFails, EmplaceFails,
                GoTo, StockInv, Building, CpuLeft
  <2>5. CASE KillChild
    BY <2>5 DEF KillChild, Kill, GoTo, StockInv, Building, CpuLeft
  <2> QED
    BY <1>3, <2>1, <2>2, <2>3, <2>4, <2>5 DEF Build
<1>4. CASE Run
  <2>1. pc' = "run" /\ next' = next /\ next > Len(m_plan)
    BY <1>4 DEF Run, GoTo
  <2>2. next = Len(m_plan) + 1
    BY <2>1, StartupAssumption DEF TypeOK
  <2> QED
    BY <2>1, <2>2 DEF StockInv, Building, CpuLeft
<1>5. CASE Stop \/ KillAll \/ Wait \/ NoChild \/ Finalize
  BY <1>5 DEF Stop, KillAll, Kill, Wait, NoChild, Finalize, GoTo, StockInv,
              Building, CpuLeft
<1>6. CASE Ended \/ UNCHANGED vars \/ \E c \in Plan : Exit(c)
  <2>1. UNCHANGED <<m_cpuset, pc, next, m_pidmap>>
    BY <1>6 DEF Ended, vars, Exit
  <2>2. ToPin' = ToPin
    BY <1>0, <2>1 DEF ToPin, Started, p
  <2> QED
    BY <2>1, <2>2 DEF StockInv, Building, CpuLeft
<1> QED
  BY <1>1, <1>2, <1>3, <1>4, <1>5, <1>6 DEF Next, Profiler

-----------------------------------------------------------------------------

\* A step that is about the plan at hand leaves the others as they are.
LEMMA OthersKept ==
  ASSUME TypeOK, StartedInv, UNCHANGED <<given, next, m_pidmap>>,
         Range(m_cpuset') \subseteq Range(m_cpuset),
         \A q \in Started : /\ m_cpu'[q] = m_cpu[q]
                            /\ affinity'[q] = affinity[q]
                            /\ policy'[q] = policy[q]
  PROVE  StartedInv'
<1>1. Started' = Started /\ m_pidmap' = m_pidmap
  BY DEF Started
<1>2. pincpu' = pincpu /\ rt' = rt /\ cpuset' = cpuset
  BY DEF given
<1>3. \A q \in Started : Placed(q, m_cpu[q])' /\ policy'[q] = Class(q)'
  BY <1>2 DEF StartedInv, Placed, Class
<1> QED
  BY <1>1, <1>2, <1>3 DEF StartedInv

\* The children get what their plans ask for.
LEMMA SettingStep ==
  ASSUME TypeOK, GivenInv, Free(m_cpuset), StockInv, SettingInv, SpareInv,
         noCommand = {}, [Next]_vars
  PROVE  SettingInv'
<1> USE DEF fields, locals
<1>0. /\ UNCHANGED given /\ noCommand' = {} /\ pincpu' = pincpu
      /\ rt' = rt /\ cpuset' = cpuset
      /\ affinity[Self] = Online /\ policy[Self] = "OTHER"
  BY GivenKept DEF given, SpareInv, ProfilerSpared
<1>1. /\ pc \in Building \cup {"run"} => StartedInv
      /\ AtHandInv
  BY DEF SettingInv
<1>2. ASSUME pc' \notin Building \cup {"run"} PROVE SettingInv'
  BY <1>2 DEF SettingInv, AtHandInv, Building
<1>3. CASE Begin \/ Stop \/ KillAll \/ Wait \/ NoChild \/ Finalize
  <2>1. pc' \notin Building \cup {"run"}
    BY <1>3 DEF Begin, Stop, KillAll, Kill, Wait, NoChild, Finalize, GoTo,
                Building
  <2> QED
    BY <1>2, <2>1
<1>4. CASE Check
  <2>1. /\ next' = 1 /\ m_pidmap' = {} /\ Started' = {}
        /\ pc' \in {"build", "finalize", "killall"}
    BY <1>4 DEF Check, StockInv, Started
  <2> QED
    BY <1>0, <2>1 DEF SettingInv, StartedInv, AtHandInv
<1>5. CASE Run
  <2>1. /\ UNCHANGED <<given, kernel, fields, next>> /\ pc = "build"
        /\ pc' = "run"
    BY <1>0, <1>5 DEF Run, GoTo
  <2>2. StartedInv'
    BY <1>1, <2>1, OthersKept DEF Building, kernel
  <2> QED
    BY <2>1, <2>2 DEF SettingInv, AtHandInv
<1>6. CASE Ended \/ UNCHANGED vars \/ \E c \in Plan : Exit(c)
  <2>1. UNCHANGED <<given, affinity, policy, fields, locals, pc>>
    BY <1>6 DEF Ended, vars, Exit, kernel
  <2>2. StartedInv => StartedInv'
    BY <2>1, OthersKept
  <2>3. AtHandInv'
    <3>1. p' = p /\ Started' = Started
      BY <2>1 DEF p, Started
    <3> QED
      BY <1>1, <2>1, <3>1 DEF AtHandInv, Placed, Class, given
  <2> QED
    BY <1>1, <2>1, <2>2, <2>3 DEF SettingInv
<1>7. CASE Build
  <2>0. ASSUME next \in DOMAIN m_plan, next' = next
        PROVE  /\ p \in Plan /\ p # Self /\ p \notin Started /\ p \in Process
               /\ p' = p /\ Started' = Started
               /\ \A q \in Started : q # p
    BY <2>0, AtHand DEF p, Started, Process
  <2>1. CASE Fork
    <3>1. /\ pc = "build" /\ pc' = "pin" /\ next \in DOMAIN m_plan
          /\ UNCHANGED <<next, m_cpuset, m_pidmap, m_cpu>> /\ pid' = p
          /\ affinity' = [affinity EXCEPT ![p] = Online]
          /\ policy' = [policy EXCEPT ![p] = "OTHER"]
      BY <1>0, <2>1 DEF Fork, At, GoTo
    <3>2. /\ affinity'[p] = Online /\ policy'[p] = "OTHER"
          /\ \A q \in Started : /\ affinity'[q] = affinity[q]
                                /\ policy'[q] = policy[q]
      BY <2>0, <3>1 DEF TypeOK
    <3>3. StartedInv'
      BY <1>0, <1>1, <3>1, <3>2, OthersKept DEF Building
    <3> QED
      BY <2>0, <3>1, <3>2, <3>3 DEF SettingInv, AtHandInv
  <2>2. CASE NothingToRun
    BY <2>2 DEF NothingToRun
  <2>3. CASE Pin
    <3>1. /\ pc = "pin" /\ next \in DOMAIN m_plan /\ p \in pincpu
          /\ pc' = "undefined" \/
               /\ pc' = "rt" /\ cpu' = Last(m_cpuset) /\ cpu' \in Online
               /\ affinity' = [affinity EXCEPT ![pid] = {cpu'}]
               /\ m_cpuset # <<>> /\ m_cpuset' = Front(m_cpuset)
               /\ UNCHANGED <<next, m_pidmap, m_cpu, policy, pid>>
      BY <2>3 DEF Pin, At, GoTo
    <3>2. CASE pc' = "undefined"
      BY <1>2, <3>2 DEF Building
    <3>3. CASE pc' = "rt"
      <4>1. pid = p /\ policy[p] = "OTHER" /\ StartedInv
        BY <1>1, <3>1 DEF AtHandInv, Building
      <4>2. /\ affinity'[p] = {cpu'}
            /\ \A q \in Started : affinity'[q] = affinity[q]
        <5>1. affinity' = [affinity EXCEPT ![p] = {cpu'}]
          BY <3>1, <3>3, <4>1
        <5>2. p \in DOMAIN affinity /\ \A q \in Started : q # p
          BY <2>0, <3>1, <3>3 DEF TypeOK
        <5> QED
          BY <5>1, <5>2
      <4>3. /\ cpu' \in Range(cpuset) \cap Online
            /\ cpu' \in Range(m_cpuset) /\ cpu' \notin Range(m_cpuset')
            /\ Range(m_cpuset') \subseteq Range(m_cpuset)
        BY <3>1, <3>3, FrontOnce DEF Free
      <4>4. \A q \in Started \cap pincpu : m_cpu[q] # cpu'
        BY <4>1, <4>3 DEF StartedInv, Placed
      <4>5. StartedInv'
        BY <1>0, <3>1, <3>3, <4>1, <4>2, <4>3, OthersKept
      <4>6. Placed(p, cpu)'
        BY <1>0, <2>0, <3>1, <3>3, <4>2, <4>3 DEF Placed
      <4>7. /\ p' = p /\ Started' = Started /\ m_cpu' = m_cpu /\ pid' = p
            /\ policy'[p] = "OTHER"
        BY <2>0, <3>1, <3>3, <4>1
      <4> QED
        BY <1>0, <3>3, <4>4, <4>5, <4>6, <4>7 DEF SettingInv, AtHandInv
    <3> QED
      BY <3>1, <3>2, <3>3
  <2>4. CASE NoPin
    <3>1. /\ pc = "pin" /\ pc' = "rt"
          /\ next \in DOMAIN m_plan /\ p \notin pincpu
          /\ UNCHANGED <<kernel, fields, next, pid, cpu>>
      BY <2>4 DEF NoPin, At, GoTo
    <3>2. StartedInv'
      BY <1>0, <1>1, <3>1, OthersKept DEF Building, kernel
    <3>3. Placed(p, cpu)'
      BY <1>0, <1>1, <2>0, <3>1 DEF AtHandInv, Placed, kernel
    <3> QED
      BY <1>0, <1>1, <2>0, <3>1, <3>2, <3>3 DEF SettingInv, AtHandInv, kernel
  <2>5. CASE SetFIFO
    <3>1. /\ pc = "rt" /\ pc' = "event" /\ next \in DOMAIN m_plan
          /\ UNCHANGED <<affinity, fields, next, pid, cpu>>
          /\ policy' = IF p \in rt THEN [policy EXCEPT ![pid] = "FIFO"]
                       ELSE policy
      BY <2>5 DEF SetFIFO, At, GoTo
    <3>2. pid = p /\ policy[p] = "OTHER" /\ StartedInv /\ Placed(p, cpu)
          /\ (p \in pincpu => \A q \in Started \cap pincpu : m_cpu[q] # cpu)
      BY <1>1, <3>1 DEF AtHandInv, Building
    <3>3. /\ policy'[p] = Class(p)
          /\ \A q \in Started : policy'[q] = policy[q]
      BY <2>0, <3>1, <3>2 DEF TypeOK, Class
    <3>4. StartedInv'
      BY <1>0, <3>1, <3>2, <3>3, OthersKept
    <3>5. Placed(p, cpu)' /\ Class(p)' = Class(p)
      BY <1>0, <2>0, <3>1, <3>2 DEF Placed, Class
    <3> QED
      BY <1>0, <2>0, <3>1, <3>2, <3>3, <3>4, <3>5 DEF SettingInv, AtHandInv
  <2>6. CASE Emplace
    <3>1. /\ pc = "event" /\ pc' = "build" /\ next \in DOMAIN m_plan
          /\ UNCHANGED <<affinity, policy, m_cpuset>> /\ next' = next + 1
          /\ m_pidmap' = m_pidmap \cup {pid}
          /\ m_cpu' = [m_cpu EXCEPT ![pid] = cpu]
      BY <2>6 DEF Emplace, At, GoTo, kernel
    <3>2. pid = p /\ policy[p] = Class(p) /\ StartedInv /\ Placed(p, cpu)
          /\ (p \in pincpu => \A q \in Started \cap pincpu : m_cpu[q] # cpu)
      BY <1>1, <3>1 DEF AtHandInv, Building
    <3>3. p \in Process /\ p \notin Started
      BY <3>1, AtHand DEF Process
    <3>4. Started' = Started \cup {p}
      <4>1. next' - 1 = next
        BY <3>1 DEF TypeOK
      <4>2. Started' = {m_plan[i] : i \in 1..next}
        BY <4>1 DEF Started
      <4> QED
        BY <3>1, <4>2, AtHand
    <3>5. m_cpu'[p] = cpu /\ \A q \in Started : m_cpu'[q] = m_cpu[q]
      BY <3>1, <3>2, <3>3 DEF TypeOK
    <3>6. \A q \in Started' : Placed(q, m_cpu[q])' /\ policy'[q] = Class(q)'
      BY <1>0, <3>1, <3>2, <3>4, <3>5 DEF StartedInv, Placed, Class
    <3>7. \A q, o \in Started' \cap pincpu : q # o => m_cpu'[q] # m_cpu'[o]
      BY <3>2, <3>4, <3>5 DEF StartedInv
    <3>8. StartedInv'
      BY <1>0, <3>1, <3>2, <3>4, <3>6, <3>7 DEF StartedInv
    <3> QED
      BY <3>1, <3>8 DEF SettingInv, AtHandInv
  <2>7. CASE ForkFails \/ PinFails \/ SetFIFOFails \/ EventFails
             \/ EmplaceFails \/ KillChild
    <3>1. pc' \notin Building \cup {"run"}
      BY <2>7 DEF ForkFails, PinFails, SetFIFOFails, EventFails, EmplaceFails,
                  KillChild, Kill, GoTo, Building
    <3> QED
      BY <1>2, <3>1
  <2> QED
    BY <1>7, <2>1, <2>2, <2>3, <2>4, <2>5, <2>6, <2>7 DEF Build
<1> QED
  BY <1>3, <1>4, <1>5, <1>6, <1>7 DEF Next, Profiler

-----------------------------------------------------------------------------

\* The invariant holds at first, every step keeps it, and it says that the plan
\* is carried out.
LEMMA PlanInit == Init => PlanInv
<1> SUFFICES ASSUME Init PROVE PlanInv
  OBVIOUS
<1> USE DEF Init
<1>1. GivenInv
  BY StartupAssumption DEF GivenInv
<1>2. Free(m_cpuset)
  BY StartupAssumption DEF Free
<1>3. TypeOK
  BY <1>2, StartupAssumption DEF TypeOK, Free, Process, NoCpu
<1>4. StockInv /\ SettingInv
  BY DEF StockInv, CpuLeft, Building, SettingInv, AtHandInv
<1> QED
  BY <1>1, <1>2, <1>3, <1>4 DEF PlanInv

\* The parts of the invariant together.
LEMMA PlanStep == PlanInv /\ CpuInv /\ SpareInv /\ [Next]_vars => PlanInv'
<1> SUFFICES ASSUME PlanInv, CpuInv, SpareInv, [Next]_vars PROVE PlanInv'
  OBVIOUS
<1>1. GivenInv'
  BY GivenKept DEF PlanInv, GivenInv, given
<1>2. Free(m_cpuset)' /\ TypeOK' /\ StockInv'
  BY FreeStep, TypeStep, StockStep DEF PlanInv
<1>3. SettingInv'
  <2>1. CASE noCommand = {}
    BY <2>1, SettingStep DEF PlanInv
  <2>2. CASE noCommand # {}
    BY <2>2, GivenKept DEF SettingInv, given
  <2> QED
    BY <2>1, <2>2
<1> QED
  BY <1>1, <1>2, <1>3 DEF PlanInv

\* After the last plan, the plans begun are all plans.
LEMMA PlanCarriedOut == PlanInv => AsPlanned
<1> SUFFICES ASSUME PlanInv PROVE AsPlanned
  OBVIOUS
<1>1. TypeOK /\ CpuLeft /\ pincpu \subseteq Plan
  BY DEF PlanInv, StockInv, GivenInv
<1>2. ASSUME pc = "run", noCommand = {} PROVE StartedInv /\ Started = Plan
  <2>1. StartedInv /\ next = Len(m_plan) + 1
    BY <1>2 DEF PlanInv, StockInv, SettingInv
  <2>2. DOMAIN m_plan = 1..Len(m_plan) /\ next - 1 = Len(m_plan)
    BY <2>1, StartupAssumption
  <2> QED
    BY <2>1, <2>2 DEF Started, Plan, Range
<1>3. ASSUME pc = "run", noCommand = {}
      PROVE  /\ m_pidmap = Plan
             /\ \A q \in pincpu :
                  /\ m_cpu[q] \in Range(cpuset) \cap Online
                  /\ affinity[q] = {m_cpu[q]}
                  /\ \A o \in pincpu \ {q} : m_cpu[o] # m_cpu[q]
             /\ \A q \in Plan \ pincpu : affinity[q] = Online
             /\ \A q \in Plan : policy[q] = Class(q)
  BY <1>1, <1>2, <1>3 DEF StartedInv, Placed
<1> QED
  BY <1>1, <1>3 DEF AsPlanned, Class

\* ParallelProfiler.cpp:523-557 and :816-853: when the stages begin every plan
\* has its process, on a cpu of its own if it asks for one, with the class it
\* asks for; and m_cpuset.back() is never called on an empty set.
THEOREM EveryPlanCarriedOut == Spec => []AsPlanned
<1>1. Spec => []PlanInv
  BY PlanInit, PlanStep, SetKept, OnlyChildren, PTL DEF Spec
<1> QED
  BY <1>1, PlanCarriedOut, PTL
=============================================================================
