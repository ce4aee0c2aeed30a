-------------------------- MODULE ResultFileProofs --------------------------
(***************************************************************************)
(* Proofs about modules ResultTable and ResultFile: a result that is       *)
(* written is the transposed table of its samples, the file never shows    *)
(* anything but results that were written, and with one profiler after     *)
(* another it shows all of them; for any profilers, results and file.      *)
(***************************************************************************)
EXTENDS ResultFile, DataInduction, SequenceTheorems

-----------------------------------------------------------------------------
(* The loops of append.  What a loop has made after i turns is known, so   *)
(* the function of the turns that the model chooses is that one.           *)

\* The counter of an event.
IndexOf(group, e) == CHOOSE i \in DOMAIN group : group[i] = e

\* An event is at one place.
LEMMA IndexOnce ==
  ASSUME NEW group, IsInjective(group), NEW i \in DOMAIN group
  PROVE  IndexOf(group, group[i]) = i
  BY DEF IndexOf, IsInjective

\* Appending the last value of a column to the others.
LEMMA AppendLast ==
  ASSUME NEW k \in Nat \ {0}, NEW f, f = [s \in 1..k |-> f[s]]
  PROVE  Append([s \in 1..(k - 1) |-> f[s]], f[k]) = f
<1> DEFINE g == [s \in 1..(k - 1) |-> f[s]]
           S == {f[s] : s \in 1..k}
<1>1. g \in Seq(S) /\ Len(g) = k - 1
  <2>1. g \in [1..(k - 1) -> S] /\ k - 1 \in Nat
    OBVIOUS
  <2> HIDE DEF g, S
  <2> QED
    BY <2>1
<1>2. f[k] \in S
  OBVIOUS
<1>3. \A s \in 1..(k - 1) : g[s] = f[s]
  OBVIOUS
<1> HIDE DEF g, S
<1>4. /\ Append(g, f[k]) \in Seq(S) /\ Len(Append(g, f[k])) = k
      /\ \A s \in 1..(k - 1) : Append(g, f[k])[s] = g[s]
      /\ Append(g, f[k])[k] = f[k]
  <2>1. k - 1 + 1 = k
    OBVIOUS
  <2>2. /\ Append(g, f[k]) \in Seq(S)
        /\ Len(Append(g, f[k])) = Len(g) + 1
        /\ \A s \in 1..Len(g) : Append(g, f[k])[s] = g[s]
        /\ Append(g, f[k])[Len(g) + 1] = f[k]
    BY <1>1, <1>2, AppendProperties
  <2> QED
    BY <1>1, <2>1, <2>2
<1>5. /\ DOMAIN Append(g, f[k]) = 1..k
      /\ Append(g, f[k]) = [s \in 1..k |-> Append(g, f[k])[s]]
  BY <1>4, LenProperties
<1>6. \A s \in 1..k : Append(g, f[k])[s] = f[s]
  <2>1. \A s \in 1..k : s = k \/ s \in 1..(k - 1)
    OBVIOUS
  <2> QED
    BY <1>3, <1>4, <2>1
<1> QED
  BY <1>5, <1>6 DEF g

\* The columns of an object with one more value in each.
Filled(group, object, sample) ==
  [d \in DOMAIN object \cup Range(group) |->
     IF d \in Range(group)
     THEN Append(Column(object, d), sample[IndexOf(group, d)])
     ELSE object[d]]

\* The first loop adds a value to the column of each event of the group, its
\* own, and leaves the other columns.
LEMMA PushedAll ==
  ASSUME NEW group, group \in Seq(Range(group)), IsInjective(group),
         NEW object, object = [d \in DOMAIN object |-> object[d]],
         NEW sample, sample \in Seq(Range(sample)), Len(sample) = Len(group)
  PROVE  PushSample(group, object, sample) = Filled(group, object, sample)
<1> DEFINE n == Len(sample)
           At(i) == {group[j] : j \in 1..i}
           Done(i) == [d \in DOMAIN object \cup At(i) |->
                         IF d \in At(i)
                         THEN Append(Column(object, d), sample[IndexOf(group, d)])
                         ELSE object[d]]
           Step(g, i) == IF i = 0 THEN object
                          ELSE Pushed(g[i - 1], group[i], sample[i])
           w == [i \in 0..n |-> Done(i)]
<1>0. n \in Nat /\ DOMAIN group = 1..n
  BY LenProperties
<1>1. Done(0) = object
  <2>1. At(0) = {}
    OBVIOUS
  <2> HIDE DEF At
  <2> QED
    BY <2>1
<1>2. ASSUME NEW i \in 1..n
      PROVE  Pushed(Done(i - 1), group[i], sample[i]) = Done(i)
  <2>1. At(i) = At(i - 1) \cup {group[i]} /\ group[i] \notin At(i - 1)
    BY <1>0 DEF IsInjective
  <2>2. IndexOf(group, group[i]) = i
    BY <1>0, IndexOnce
  <2> HIDE DEF At
  <2>3. DOMAIN Done(i - 1) = DOMAIN object \cup At(i - 1)
    OBVIOUS
  <2>4. Column(Done(i - 1), group[i]) = Column(object, group[i])
    BY <2>1 DEF Column
  <2>5. DOMAIN Done(i - 1) \cup {group[i]} = DOMAIN object \cup At(i)
    BY <2>1, <2>3
  <2>6. \A d \in DOMAIN object \cup At(i) :
          (IF d = group[i] THEN Append(Column(object, group[i]), sample[i])
           ELSE Done(i - 1)[d]) = Done(i)[d]
    BY <2>1, <2>2
  <2> QED
    BY <2>4, <2>5, <2>6 DEF Pushed
<1>3. w = [i \in 0..n |-> Step(w, i)]
  <2>1. \A i \in 0..n : Step(w, i) = Done(i)
    <3> SUFFICES ASSUME NEW i \in 0..n PROVE Step(w, i) = Done(i)
      OBVIOUS
    <3>1. CASE i = 0
      BY <1>1, <3>1
    <3>2. CASE i # 0
      <4>1. i \in 1..n /\ w[i - 1] = Done(i - 1)
        BY <1>0, <3>2
      <4> HIDE DEF Done, w
      <4> QED
        BY <1>2, <3>2, <4>1
    <3> QED
      BY <3>1, <3>2
  <2> HIDE DEF Step, Done
  <2> QED
    BY <2>1
<1>4. ASSUME NEW g, g = [i \in 0..n |-> Step(g, i)] PROVE g = w
  <2> DEFINE T == {i \in 0..n : g[i] # w[i]}
  <2>1. ASSUME T # {} PROVE FALSE
    <3>1. PICK m \in T : \A i \in T : m <= i
      <4>1. T \subseteq Nat
        BY <1>0
      <4> HIDE DEF T
      <4> QED
        BY <2>1, <4>1, LeastNat
    <3>2. m \in 0..n /\ g[m] # w[m]
      OBVIOUS
    <3>3. m # 0 => m - 1 \in 0..n /\ ~(m <= m - 1)
      BY <1>0, <3>2
    <3>4. m # 0 => g[m - 1] = w[m - 1]
      BY <3>1, <3>3
    <3>5. g[m] = Step(g, m) /\ w[m] = Step(w, m)
      <4> HIDE DEF Step, w, T
      <4> QED
        BY <1>3, <1>4, <3>2
    <3> HIDE DEF w
    <3> QED
      BY <3>2, <3>4, <3>5
  <2> HIDE DEF w, Step
  <2> QED
    BY <1>3, <1>4, <2>1
<1>5. PushSample(group, object, sample) = w[n]
  <2> DEFINE p == CHOOSE g : g = [i \in 0..n |-> Step(g, i)]
  <2>1. PushSample(group, object, sample) = p[n]
    BY DEF PushSample
  <2> HIDE DEF w, Step
  <2>2. p = w
    BY <1>3, <1>4
  <2> QED
    BY <2>1, <2>2
<1>6. At(n) = Range(group)
  BY <1>0 DEF Range
<1>7. w[n] = Done(n)
  BY <1>0
<1> HIDE DEF At, w
<1> QED
  BY <1>5, <1>6, <1>7 DEF Filled

\* Both loops: the object of a plan is its table of samples, by columns.
LEMMA PlanTransposed ==
  ASSUME NEW plan, plan.group \in Seq(Range(plan.group)),
         IsInjective(plan.group), plan.samples \in Seq(Range(plan.samples)),
         \A s \in Range(plan.samples) : s \in Seq(Range(s)),
         ~MissMatch(plan)
  PROVE  PlanObject(plan) = Transpose(plan)
<1> DEFINE group == plan.group
           samples == plan.samples
           n == Len(samples)
           Cols(k) == IF k = 0 THEN <<>>
                      ELSE [e \in Range(group) |->
                              [s \in 1..k |-> samples[s][IndexOf(group, e)]]]
           Step(g, k) == IF k = 0 THEN <<>>
                          ELSE PushSample(group, g[k - 1], samples[k])
           w == [k \in 0..n |-> Cols(k)]
<1>0. n \in Nat /\ DOMAIN samples = 1..n
  BY LenProperties
<1>1. ASSUME NEW k \in 1..n
      PROVE  PushSample(group, Cols(k - 1), samples[k]) = Cols(k)
  <2> DEFINE before == Cols(k - 1)
             sample == samples[k]
  <2>1. sample \in Range(samples)
    BY <1>0 DEF Range
  <2>2. sample \in Seq(Range(sample)) /\ Len(sample) = Len(group)
    BY <2>1 DEF MissMatch
  <2>3. CASE k = 1
    <3>1. before = <<>>
      BY <2>3
    <3>2. /\ DOMAIN before = {}
          /\ before = [d \in DOMAIN before |-> before[d]]
          /\ \A d : Column(before, d) = <<>>
      <4> HIDE DEF before
      <4> QED
        BY <3>1 DEF Column
    <3> HIDE DEF before, sample
    <3>3. PushSample(group, before, sample)
            = [d \in Range(group) |->
                 Append(<<>>, sample[IndexOf(group, d)])]
      <4>1. PushSample(group, before, sample) = Filled(group, before, sample)
        <5>1. group \in Seq(Range(group)) /\ IsInjective(group)
          OBVIOUS
        <5> HIDE DEF group
        <5> QED
          BY <2>2, <3>2, <5>1, PushedAll
      <4> HIDE DEF group
      <4> QED
        BY <3>2, <4>1 DEF Filled
    <3>4. \A d : Append(<<>>, sample[IndexOf(group, d)])
                   = [s \in 1..1 |-> samples[s][IndexOf(group, d)]]
      <4> SUFFICES ASSUME NEW d
                   PROVE  Append(<<>>, sample[IndexOf(group, d)])
                            = [s \in 1..1 |-> samples[s][IndexOf(group, d)]]
        OBVIOUS
      <4> DEFINE f == [s \in 1..1 |-> samples[s][IndexOf(group, d)]]
      <4>1. Append([s \in 1..(1 - 1) |-> f[s]], f[1]) = f
        BY AppendLast
      <4>2. [s \in 1..(1 - 1) |-> f[s]] = <<>>
        OBVIOUS
      <4>3. f[1] = sample[IndexOf(group, d)]
        BY <2>3 DEF sample
      <4> QED
        BY <4>1, <4>2, <4>3
    <3> QED
      BY <2>3, <3>3, <3>4 DEF before, sample
  <2>4. CASE k # 1
    <3>1. before = [e \in Range(group) |->
                      [s \in 1..(k - 1) |-> samples[s][IndexOf(group, e)]]]
      BY <2>4
    <3> HIDE DEF before, sample
    <3>2. /\ DOMAIN before = Range(group)
          /\ before = [d \in DOMAIN before |-> before[d]]
          /\ \A d \in Range(group) : Column(before, d) = before[d]
      BY <3>1 DEF Column
    <3>3. PushSample(group, before, sample)
            = [d \in Range(group) |->
                 Append(before[d], sample[IndexOf(group, d)])]
      <4>1. PushSample(group, before, sample) = Filled(group, before, sample)
        <5>1. group \in Seq(Range(group)) /\ IsInjective(group)
          OBVIOUS
        <5> HIDE DEF group
        <5> QED
          BY <2>2, <3>2, <5>1, PushedAll
      <4> HIDE DEF group
      <4> QED
        BY <3>2, <4>1 DEF Filled
    <3>4. \A d \in Range(group) :
            Append(before[d], sample[IndexOf(group, d)])
              = [s \in 1..k |-> samples[s][IndexOf(group, d)]]
      <4> SUFFICES ASSUME NEW d \in Range(group)
                   PROVE  Append(before[d], sample[IndexOf(group, d)])
                            = [s \in 1..k |-> samples[s][IndexOf(group, d)]]
        OBVIOUS
      <4> DEFINE f == [s \in 1..k |-> samples[s][IndexOf(group, d)]]
      <4>1. Append([s \in 1..(k - 1) |-> f[s]], f[k]) = f
        BY AppendLast
      <4>2. [s \in 1..(k - 1) |-> f[s]] = before[d]
        BY <3>1
      <4>3. f[k] = sample[IndexOf(group, d)]
        BY DEF sample
      <4> QED
        BY <4>1, <4>2, <4>3
    <3>5. PushSample(group, before, sample)
            = [d \in Range(group) |->
                 [s \in 1..k |-> samples[s][IndexOf(group, d)]]]
      BY <3>3, <3>4
    <3> QED
      BY <2>4, <3>5 DEF before, sample
  <2> QED
    BY <2>3, <2>4
<1>3. w = [k \in 0..n |-> Step(w, k)]
  <2>1. \A k \in 0..n : Step(w, k) = Cols(k)
    <3> SUFFICES ASSUME NEW k \in 0..n PROVE Step(w, k) = Cols(k)
      OBVIOUS
    <3>1. CASE k = 0
      BY <3>1
    <3>2. CASE k # 0
      <4>1. k \in 1..n /\ w[k - 1] = Cols(k - 1)
        BY <1>0, <3>2
      <4> HIDE DEF Cols, w
      <4> QED
        BY <1>1, <3>2, <4>1
    <3> QED
      BY <3>1, <3>2
  <2> HIDE DEF Step, Cols
  <2> QED
    BY <2>1
<1>4. ASSUME NEW g, g = [k \in 0..n |-> Step(g, k)] PROVE g = w
  <2> DEFINE T == {k \in 0..n : g[k] # w[k]}
  <2>1. ASSUME T # {} PROVE FALSE
    <3>1. PICK m \in T : \A k \in T : m <= k
      <4>1. T \subseteq Nat
        BY <1>0
      <4> HIDE DEF T
      <4> QED
        BY <2>1, <4>1, LeastNat
    <3>2. m \in 0..n /\ g[m] # w[m]
      OBVIOUS
    <3>3. m # 0 => m - 1 \in 0..n /\ ~(m <= m - 1)
      BY <1>0, <3>2
    <3>4. m # 0 => g[m - 1] = w[m - 1]
      BY <3>1, <3>3
    <3>5. g[m] = Step(g, m) /\ w[m] = Step(w, m)
      <4> HIDE DEF Step, w, T
      <4> QED
        BY <1>3, <1>4, <3>2
    <3> HIDE DEF w
    <3> QED
      BY <3>2, <3>4, <3>5
  <2> HIDE DEF w, Step
  <2> QED
    BY <1>3, <1>4, <2>1
<1>5. PlanObject(plan) = w[n]
  <2> DEFINE p == CHOOSE g : g = [k \in 0..n |-> Step(g, k)]
  <2>1. PlanObject(plan) = p[n]
    BY DEF PlanObject
  <2> HIDE DEF w, Step
  <2>2. p = w
    BY <1>3, <1>4
  <2> QED
    BY <2>1, <2>2
<1>6. w[n] = Cols(n)
  BY <1>0
<1>7. Transpose(plan) = Cols(n)
  <2>1. n = 0 <=> samples = <<>>
    BY <1>0, EmptySeq, LenProperties
  <2>2. CASE n = 0
    BY <2>1, <2>2 DEF Transpose
  <2>3. CASE n # 0
    BY <1>0, <2>1, <2>3 DEF Transpose, IndexOf
  <2> QED
    BY <2>2, <2>3
<1> HIDE DEF w, Cols
<1> QED
  BY <1>5, <1>6, <1>7

\* So is that of a result that append does not refuse.
LEMMA ResultTransposed ==
  ASSUME NEW result, IsResult(result), ~Refused(result)
  PROVE  /\ \A p \in DOMAIN result : \A s \in Range(result[p].samples) :
              Len(s) = Len(result[p].group)
         /\ ResultObject(result) = [p \in DOMAIN result |-> Transpose(result[p])]
<1>1. \A p \in DOMAIN result : ~MissMatch(result[p])
  BY DEF Refused, Range
<1>2. \A p \in DOMAIN result : PlanObject(result[p]) = Transpose(result[p])
  BY <1>1, PlanTransposed DEF IsResult
<1> QED
  BY <1>1, <1>2 DEF MissMatch, ResultObject

-----------------------------------------------------------------------------
(* Sequences of rows.                                                      *)

\* Those that have a result to write which append takes.
Fit(result, r) == result[r] # NoResult /\ ~Refused(result[r])

\* After n rows of before, rows of different profilers, all among those who.
Behind(result, rows, n, who) ==
  /\ n <= Len(rows) /\ \A i \in 1..n : rows[i] = Old
  /\ \A i \in n + 1..Len(rows) :
       /\ rows[i] # Old /\ rows[i].by \in who /\ Fit(result, rows[i].by)
       /\ rows[i] = RowOf(rows[i].by, result[rows[i].by])
  /\ \A i, j \in n + 1..Len(rows) : i # j => rows[i].by # rows[j].by

\* All rows of before, then one of each that has written.
All(before, rows, who) ==
  /\ Len(rows) = Len(before) + Len(who)
  /\ \A i \in 1..Len(before) : rows[i] = before[i]
  /\ \A i \in DOMAIN who : rows[Len(before) + i].by = who[i]

\* They may be among more.
LEMMA BehindMore ==
  ASSUME NEW result, NEW rows, NEW n, NEW S, NEW T, S \subseteq T,
         Behind(result, rows, n, S)
  PROVE  Behind(result, rows, n, T)
  BY DEF Behind

\* No rows are behind none.
LEMMA BehindEmpty ==
  ASSUME NEW result, NEW S PROVE Behind(result, <<>>, 0, S)
  BY DEF Behind

\* A row can be added of a profiler that has none.
LEMMA BehindAppend ==
  ASSUME NEW result, NEW V, NEW rows \in Seq(V), NEW n \in Nat, NEW S,
         Behind(result, rows, n, S), NEW r, r \notin S, Fit(result, r),
         RowOf(r, result[r]) # Old
  PROVE  Behind(result, Append(rows, RowOf(r, result[r])), n, S \cup {r})
<1> DEFINE row == RowOf(r, result[r])
           more == Append(rows, row)
           m == Len(rows)
<1>1. row.by = r /\ row # Old
  BY DEF RowOf
<1>2. m \in Nat /\ n <= m
  BY LenProperties DEF Behind
<1>3. Len(more) = m + 1 /\ more[m + 1] = row /\ \A i \in 1..m : more[i] = rows[i]
  <2>1. rows \in Seq(V \cup {row})
    BY SeqMonotonic
  <2> HIDE DEF row
  <2> QED
    BY <2>1, AppendProperties
<1> HIDE DEF more, m, row
<1>4. /\ n <= Len(more) /\ \A i \in 1..n : more[i] = Old
  BY <1>2, <1>3 DEF Behind, m
<1>5. \A i \in n + 1..m :
        /\ more[i] = rows[i] /\ more[i] # Old /\ more[i].by \in S
        /\ Fit(result, more[i].by)
        /\ more[i] = RowOf(more[i].by, result[more[i].by])
  BY <1>2, <1>3 DEF Behind, m
<1>6. \A i \in n + 1..Len(more) : i = m + 1 \/ i \in n + 1..m
  BY <1>2, <1>3
<1>7. \A i \in n + 1..Len(more) :
        /\ more[i] # Old /\ more[i].by \in S \cup {r} /\ Fit(result, more[i].by)
        /\ more[i] = RowOf(more[i].by, result[more[i].by])
  <2> SUFFICES ASSUME NEW i \in n + 1..Len(more)
               PROVE  /\ more[i] # Old /\ more[i].by \in S \cup {r}
                      /\ Fit(result, more[i].by)
                      /\ more[i] = RowOf(more[i].by, result[more[i].by])
    OBVIOUS
  <2>1. CASE i = m + 1
    <3>1. more[i] = row /\ row = RowOf(r, result[r])
      BY <1>3, <2>1 DEF row
    <3> QED
      BY <1>1, <3>1
  <2>2. CASE i \in n + 1..m
    BY <1>5, <2>2
  <2> QED
    BY <1>6, <2>1, <2>2
<1>8. \A i, j \in n + 1..Len(more) : i # j => more[i].by # more[j].by
  <2>1. \A i, j \in n + 1..m : i # j => more[i].by # more[j].by
    BY <1>5 DEF Behind, m
  <2>2. \A i \in n + 1..m : more[i].by # more[m + 1].by
    BY <1>1, <1>3, <1>5
  <2> QED
    BY <1>6, <2>1, <2>2
<1> QED
  BY <1>4, <1>7, <1>8 DEF Behind, more, row

\* The row of the next that has written.
LEMMA AllAppend ==
  ASSUME NEW V, NEW before \in Seq(V), NEW rows \in Seq(V),
         NEW W, NEW who \in Seq(W), All(before, rows, who),
         NEW r, NEW row, row.by = r
  PROVE  All(before, Append(rows, row), who \o <<r>>)
<1> DEFINE more == Append(rows, row)
           next == who \o <<r>>
<1>1. Len(before) \in Nat /\ Len(who) \in Nat /\ Len(rows) = Len(before) + Len(who)
  BY LenProperties DEF All
<1>2. /\ Len(more) = Len(rows) + 1 /\ more[Len(rows) + 1] = row
      /\ \A i \in 1..Len(rows) : more[i] = rows[i]
  <2>1. rows \in Seq(V \cup {row})
    BY SeqMonotonic
  <2> QED
    BY <2>1, AppendProperties
<1>3. /\ Len(next) = Len(who) + 1 /\ next[Len(who) + 1] = r
      /\ DOMAIN next = 1..(Len(who) + 1)
      /\ \A i \in 1..Len(who) : next[i] = who[i]
  <2>1. who \in Seq(W \cup {r}) /\ who \o <<r>> = Append(who, r)
    BY SeqMonotonic, AppendIsConcat
  <2> QED
    BY <2>1, AppendProperties, LenProperties
<1>4. DOMAIN who = 1..Len(who)
  BY LenProperties
<1> HIDE DEF more, next
<1>5. \A i \in 1..Len(before) : more[i] = before[i]
  BY <1>1, <1>2 DEF All
<1>6. \A i \in 1..Len(who) : more[Len(before) + i].by = next[i]
  <2>1. \A i \in 1..Len(who) : Len(before) + i \in 1..Len(rows)
    BY <1>1
  <2> QED
    BY <1>2, <1>3, <1>4, <2>1 DEF All
<1>7. more[Len(before) + (Len(who) + 1)].by = next[Len(who) + 1]
  BY <1>1, <1>2, <1>3
<1>8. \A i \in DOMAIN next : i = Len(who) + 1 \/ i \in 1..Len(who)
  BY <1>1, <1>3
<1>9. Len(more) = Len(before) + Len(next)
  BY <1>1, <1>2, <1>3
<1> QED
  BY <1>5, <1>6, <1>7, <1>8, <1>9 DEF All, more, next

\* A sequence that begins with the rows of another.
LEMMA PrefixOf ==
  ASSUME NEW V, NEW s \in Seq(V), NEW t \in Seq(V), Len(s) <= Len(t),
         \A i \in 1..Len(s) : t[i] = s[i]
  PROVE  IsPrefix(s, t)
<1> DEFINE m == Len(s)
<1>1. m \in Nat /\ \A i \in 1..m : s[i] \in V /\ t[i] \in V
  BY LenProperties
<1>2. /\ SubSeq(s, 1, m) \in Seq(V) /\ SubSeq(t, 1, m) \in Seq(V)
      /\ Len(SubSeq(s, 1, m)) = m /\ Len(SubSeq(t, 1, m)) = m
      /\ \A i \in 1..m : SubSeq(s, 1, m)[i] = s[i] /\ SubSeq(t, 1, m)[i] = t[i]
  <2>1. m - 1 + 1 = m /\ 1 \in Int /\ m \in Int /\ \A i \in 1..m : 1 + i - 1 = i
    BY <1>1
  <2> HIDE DEF m
  <2>2. /\ SubSeq(s, 1, m) \in Seq(V)
        /\ Len(SubSeq(s, 1, m)) = IF 1 <= m THEN m - 1 + 1 ELSE 0
        /\ \A i \in 1..(m - 1 + 1) : SubSeq(s, 1, m)[i] = s[1 + i - 1]
    BY <1>1, <2>1, SubSeqProperties
  <2>3. /\ SubSeq(t, 1, m) \in Seq(V)
        /\ Len(SubSeq(t, 1, m)) = IF 1 <= m THEN m - 1 + 1 ELSE 0
        /\ \A i \in 1..(m - 1 + 1) : SubSeq(t, 1, m)[i] = t[1 + i - 1]
    BY <1>1, <2>1, SubSeqProperties
  <2> QED
    BY <1>1, <2>1, <2>2, <2>3
<1> HIDE DEF m
<1>3. SubSeq(s, 1, m) = SubSeq(t, 1, m)
  BY <1>2, SeqEqual DEF m
<1> QED
  BY <1>3 DEF IsPrefix, m

-----------------------------------------------------------------------------
(* The file and the documents.                                             *)

Places == Inside \cup {"profiled", "exit", "exit(0)", "exit(-1)", "crashed"}
Before == given.file.rows
Content(kinds, V) == [kind : kinds, rows : Seq(V)]
RowSet == {Old} \cup {RowOf(r, given.result[r]) : r \in Profilers}

TypeInv ==
  /\ given \in Cases
  /\ DOMAIN m_doc = Profilers /\ pc \in [Profilers -> Places]
  /\ file \in Content(Kinds, RowSet)
  /\ \A r \in Profilers : m_doc[r] \in Content({"array", "object"}, RowSet)
  /\ m_doc = [r \in Profilers |-> m_doc[r]]

\* A document has what was written, and the row of its profiler once appended.
Written == {r \in Profilers : pc[r] = "exit(0)"}
Known(r) == Written \cup (IF pc[r] \in {"writing", "crashed"} THEN {r} ELSE {})
FileInv == \E n \in {0, Len(Before)} : Behind(given.result, file.rows, n, Written)
DocInv ==
  \A r \in Profilers : \E n \in {0, Len(Before)} :
    Behind(given.result, m_doc[r].rows, n, Known(r))
FitInv ==
  \A r \in Profilers :
    /\ pc[r] \in Inside => given.result[r] # NoResult
    /\ pc[r] = "writing" => Fit(given.result, r)
RowsInv == FileInv /\ DocInv /\ FitInv

\* With one profiler after another: what the file has, or the document of the
\* one that is inside.
Whole(before, doc, who) ==
  /\ All(before, doc.rows, who)
  /\ who # <<>> => doc.kind = "array"
  /\ doc.kind # "array" => doc.rows = <<>>
OneInside ==
  \A q, r \in Profilers : pc[q] \in Inside /\ pc[r] \in Inside => q = r
Untouched == \A r \in Profilers : pc[r] = "profiled" => m_doc[r] = Array(<<>>)
QuietInv == Quiet => Whole(Before, file, appended)
PlaceInv(r) ==
  /\ pc[r] \in Inside => Fit(given.result, r)
  /\ pc[r] \in {"parsed", "truncated"} =>
       /\ All(Before, m_doc[r].rows, appended)
       /\ m_doc[r].kind # "array" => m_doc[r].rows = <<>>
  /\ pc[r] \in {"truncated", "writing"} => file = Other("empty")
  /\ pc[r] = "writing" => /\ All(Before, m_doc[r].rows, appended \o <<r>>)
                          /\ m_doc[r].kind = "array"
OrderInv ==
  Orderly => OneInside /\ Untouched /\ QuietInv /\ \A r \in Profilers : PlaceInv(r)

IInv == TypeInv /\ RowsInv /\ appended \in Seq(Profilers) /\ OrderInv

\* What is assumed of the case.
LEMMA Given ==
  ASSUME given \in Cases
  PROVE  /\ given.file \in [kind : Kinds, rows : Seq({Old})]
         /\ given.file.kind # "array" => Before = <<>>
         /\ \A r \in Profilers : given.result[r] # NoResult =>
              IsResult(given.result[r]) /\ RowOf(r, given.result[r]) # Old
  BY ResultAssumption DEF Before

\* A file has what was there.
LEMMA InitInv == Init => IInv
<1> SUFFICES ASSUME Init PROVE IInv
  OBVIOUS
<1> DEFINE n == Len(Before)
<1>1. /\ given \in Cases /\ file = given.file /\ appended = <<>>
      /\ m_doc = [r \in Profilers |-> Array(<<>>)]
      /\ pc = [r \in Profilers |-> "profiled"]
  BY DEF Init
<1>2. /\ file.rows \in Seq({Old}) /\ Before \in Seq({Old})
      /\ n \in Nat /\ \A i \in 1..n : Before[i] = Old
  BY <1>1, Given, LenProperties DEF Before
<1>3. TypeInv
  <2>1. file.rows \in Seq(RowSet)
    BY <1>2, SeqMonotonic DEF RowSet
  <2>2. file \in Content(Kinds, RowSet)
    BY <1>1, <2>1, Given DEF Content
  <2>3. Array(<<>>) \in Content({"array", "object"}, RowSet)
    BY DEF Array, Content
  <2> QED
    BY <1>1, <2>2, <2>3 DEF TypeInv, Places
<1>4. RowsInv
  <2>1. Behind(given.result, file.rows, n, Written)
    BY <1>1, <1>2 DEF Behind, Before
  <2>2. \A r \in Profilers : Behind(given.result, m_doc[r].rows, 0, Known(r))
    BY <1>1, BehindEmpty DEF Array
  <2> QED
    BY <1>1, <2>1, <2>2 DEF RowsInv, FileInv, DocInv, FitInv, Inside
<1>5. OrderInv
  <2>1. Whole(Before, file, appended)
    BY <1>1, <1>2, Given DEF Whole, All, Before
  <2> QED
    BY <1>1, <2>1
       DEF OrderInv, OneInside, Untouched, QuietInv, PlaceInv, Inside
<1> QED
  BY <1>1, <1>3, <1>4, <1>5 DEF IInv

\* What a profiler may do to the file and its document: leave them, take the
\* one for the other, empty the file, and add its row.
Carried(r, l) ==
  \/ pc[r] = "profiled" /\ l = "parsed" /\ m_doc'[r].rows = file.rows
  \/ /\ pc[r] = "truncated" /\ l = "writing" /\ Fit(given.result, r)
     /\ m_doc'[r].rows = Append(m_doc[r].rows, Row(r))
  \/ l # "writing" /\ m_doc'[r] = m_doc[r]
Moved(r, l) ==
  /\ pc[r] \in Inside \cup {"profiled"} /\ l \in Places
  /\ Goto(r, l) /\ given' = given
  /\ \/ file'.rows \in {file.rows, <<>>}
     \/ pc[r] = "writing" /\ l = "exit(0)" /\ file'.rows = m_doc[r].rows
  /\ \A q \in Profilers \ {r} : m_doc'[q] = m_doc[q]
  /\ pc[r] = "writing" => l \in {"exit(0)", "crashed"}
  /\ l = "writing" => pc[r] = "truncated"
  /\ l \in Inside => given.result[r] # NoResult
  /\ Carried(r, l)

\* That keeps the rows as they should be.
LEMMA MovedInv ==
  ASSUME TypeInv, RowsInv, NEW r \in Profilers, NEW l, Moved(r, l)
  PROVE  RowsInv'
<1>0. /\ pc' = [pc EXCEPT ![r] = l] /\ pc \in [Profilers -> Places]
      /\ given' = given /\ Before' = Before /\ pc[r] # "exit(0)"
  BY DEF Moved, Goto, TypeInv, Before, Inside
<1>1. Written \subseteq Written'
  BY <1>0 DEF Written
<1>2. \A q \in Profilers : Known(q) \subseteq Known(q)'
  <2>1. \A q \in Profilers \ {r} : Known(q) \subseteq Known(q)'
    BY <1>0, <1>1 DEF Known
  <2>2. Known(r) \subseteq Known(r)'
    <3>1. CASE pc[r] = "writing"
      BY <1>0, <1>1, <3>1 DEF Known, Written, Moved
    <3>2. CASE pc[r] # "writing"
      BY <1>0, <1>1, <3>2 DEF Known, Moved, Inside
    <3> QED
      BY <3>1, <3>2
  <2> QED
    BY <2>1, <2>2
<1>3. \E n \in {0, Len(Before)} : Behind(given.result, file'.rows, n, Written')
  <2>1. CASE file'.rows = file.rows
    <3>1. PICK n \in {0, Len(Before)} :
            Behind(given.result, file.rows, n, Written)
      BY DEF RowsInv, FileInv
    <3> QED
      BY <1>1, <2>1, <3>1, BehindMore
  <2>2. CASE file'.rows = <<>>
    BY <2>2, BehindEmpty
  <2>3. CASE pc[r] = "writing" /\ l = "exit(0)" /\ file'.rows = m_doc[r].rows
    <3>1. PICK n \in {0, Len(Before)} :
            Behind(given.result, m_doc[r].rows, n, Known(r))
      BY DEF RowsInv, DocInv
    <3>2. Known(r) \subseteq Written'
      BY <1>0, <1>1, <2>3 DEF Known, Written
    <3> QED
      BY <2>3, <3>1, <3>2, BehindMore
  <2> QED
    BY <2>1, <2>2, <2>3 DEF Moved
<1>4. \A q \in Profilers : \E n \in {0, Len(Before)} :
        Behind(given.result, m_doc'[q].rows, n, Known(q)')
  <2> SUFFICES ASSUME NEW q \in Profilers
               PROVE  \E n \in {0, Len(Before)} :
                        Behind(given.result, m_doc'[q].rows, n, Known(q)')
    OBVIOUS
  <2>1. PICK n \in {0, Len(Before)} :
          Behind(given.result, m_doc[q].rows, n, Known(q))
    BY DEF RowsInv, DocInv
  <2>2. CASE m_doc'[q].rows = m_doc[q].rows
    BY <1>2, <2>1, <2>2, BehindMore
  <2>3. CASE q = r /\ m_doc'[r].rows = file.rows
    <3>1. PICK k \in {0, Len(Before)} :
            Behind(given.result, file.rows, k, Written)
      BY DEF RowsInv, FileInv
    <3>2. Written \subseteq Known(q)'
      BY <1>1 DEF Known
    <3> QED
      BY <2>3, <3>1, <3>2, BehindMore
  <2>4. CASE /\ q = r /\ pc[r] = "truncated" /\ l = "writing"
             /\ Fit(given.result, r)
             /\ m_doc'[r].rows = Append(m_doc[r].rows, Row(r))
    <3>1. Known(r) = Written /\ r \notin Written
      BY <2>4 DEF Known, Written
    <3>2. m_doc[r].rows \in Seq(RowSet) /\ n \in Nat
      <4>1. Before \in Seq({Old})
        BY Given DEF TypeInv, Before
      <4>2. n \in Nat
        BY <4>1, LenProperties
      <4> QED
        BY <4>2 DEF TypeInv, Content
    <3>3. RowOf(r, given.result[r]) # Old
      BY <2>4, Given DEF TypeInv, Fit
    <3>4. Behind(given.result, Append(m_doc[r].rows, RowOf(r, given.result[r])),
                 n, Written \cup {r})
      <4>1. Behind(given.result, m_doc[r].rows, n, Written)
        BY <2>1, <2>4, <3>1
      <4> QED
        BY <2>4, <3>1, <3>2, <3>3, <4>1, BehindAppend
    <3>5. Written \cup {r} \subseteq Known(q)'
      BY <1>0, <1>1, <2>4 DEF Known
    <3> QED
      BY <2>4, <3>4, <3>5, BehindMore DEF Row
  <2> QED
    BY <2>2, <2>3, <2>4 DEF Moved, Carried
<1>5. \A q \in Profilers : pc'[q] \in Inside => given'.result[q] # NoResult
  BY <1>0 DEF RowsInv, FitInv, Moved
<1>9. \A q \in Profilers : pc'[q] = "writing" => Fit(given'.result, q)
  BY <1>0 DEF RowsInv, FitInv, Moved, Carried
<1>6. FileInv'
  BY <1>0, <1>3 DEF FileInv
<1>7. DocInv'
  BY <1>0, <1>4 DEF DocInv
<1>8. FitInv'
  BY <1>5, <1>9 DEF FitInv
<1> QED
  BY <1>6, <1>7, <1>8 DEF RowsInv

\* The types of the rows.
LEMMA RowTyped ==
  ASSUME NEW S, NEW rows \in Seq(S), NEW row \in S
  PROVE  Append(rows, row) \in Seq(S)
  BY AppendProperties

\* Every step moves a profiler, or nothing.
LEMMA StepMoves ==
  ASSUME TypeInv, RowsInv, NEW r \in Profilers,
         \/ NoOutput(r) \/ ParseFile(r) \/ ResizeThrows(r) \/ Open(r)
         \/ OpenFails(r) \/ AppendResult(r) \/ AppendRefused(r) \/ Write(r)
         \/ DiskFull(r) \/ Killed(r)
  PROVE  TypeInv' /\ \E l : Moved(r, l)
<1> USE DEF Inside
<1>0. /\ DOMAIN m_doc = Profilers /\ m_doc = [q \in Profilers |-> m_doc[q]]
      /\ pc \in [Profilers -> Places] /\ given \in Cases
      /\ file \in Content(Kinds, RowSet)
      /\ m_doc[r] \in Content({"array", "object"}, RowSet)
      /\ \A q \in Profilers : m_doc[q] \in Content({"array", "object"}, RowSet)
  BY DEF TypeInv
<1>g. \A q \in Profilers : pc[q] \in Inside => given.result[q] # NoResult
  BY DEF RowsInv, FitInv
<1>e. \A k \in Kinds : Other(k) \in Content(Kinds, RowSet) /\ Other(k).rows = <<>>
  BY DEF Other, Content
<1>k. "empty" \in Kinds /\ "text" \in Kinds
  BY DEF Kinds
<1>f. \A l \in Places : Goto(r, l) => pc' \in [Profilers -> Places]
  BY <1>0 DEF Goto
<1>1. CASE NoOutput(r)
  <2>1. Moved(r, "exit")
    BY <1>1 DEF NoOutput, Moved, Carried, Places
  <2> QED
    BY <1>0, <1>1, <1>f, <2>1 DEF NoOutput, TypeInv, RowSet, Moved
<1>2. CASE ParseFile(r)
  <2>1. /\ given' = given /\ file' = file
        /\ \A q \in Profilers \ {r} : m_doc'[q] = m_doc[q]
        /\ m_doc' = [q \in Profilers |-> m_doc'[q]]
        /\ \/ m_doc'[r] = file /\ file.kind \in {"array", "object"}
           \/ m_doc'[r] = m_doc[r]
    BY <1>0, <1>2 DEF ParseFile
  <2>2. Moved(r, "parsed")
    BY <1>2, <2>1 DEF ParseFile, Moved, Carried, Places
  <2>3. m_doc'[r] \in Content({"array", "object"}, RowSet)
    BY <1>0, <2>1 DEF Content
  <2>4. \A q \in Profilers : m_doc'[q] \in Content({"array", "object"}, RowSet)
    BY <1>0, <2>1, <2>3
  <2>5. RowSet' = RowSet
    BY <2>1 DEF RowSet
  <2>6. pc' \in [Profilers -> Places]
    BY <1>f, <2>2 DEF Moved
  <2> QED
    BY <1>0, <2>1, <2>2, <2>4, <2>5, <2>6 DEF TypeInv
<1>3. CASE ResizeThrows(r)
  <2>1. Moved(r, "crashed")
    BY <1>3 DEF ResizeThrows, Moved, Carried, Places
  <2> QED
    BY <1>0, <1>3, <1>f, <2>1 DEF ResizeThrows, TypeInv, RowSet, Moved
<1>4. CASE Open(r)
  <2>1. file' = Other("empty") /\ file' \in Content(Kinds, RowSet)
    BY <1>4, <1>e, <1>k DEF Open
  <2>2. Moved(r, "truncated")
    BY <1>4, <1>g, <2>1, <1>e, <1>k DEF Open, Moved, Carried, Places
  <2> QED
    BY <1>0, <1>4, <1>f, <2>1, <2>2 DEF Open, TypeInv, RowSet, Moved
<1>5. CASE OpenFails(r)
  <2>1. Moved(r, "exit(-1)")
    BY <1>5 DEF OpenFails, Moved, Carried, Places
  <2> QED
    BY <1>0, <1>5, <1>f, <2>1 DEF OpenFails, TypeInv, RowSet, Moved
<1>6. CASE AppendResult(r)
  <2>1. /\ given' = given /\ file' = file /\ Fit(given.result, r)
        /\ \A q \in Profilers \ {r} : m_doc'[q] = m_doc[q]
        /\ m_doc' = [q \in Profilers |-> m_doc'[q]]
        /\ m_doc'[r] = [m_doc[r] EXCEPT !.rows = Append(m_doc[r].rows, Row(r))]
    BY <1>0, <1>6 DEF AppendResult, Fit, RowsInv, FitInv
  <2>2. m_doc'[r].rows = Append(m_doc[r].rows, Row(r))
    BY <1>0, <2>1 DEF Content
  <2>3. Moved(r, "writing")
    BY <1>6, <2>1, <2>2 DEF AppendResult, Moved, Carried, Places, Fit
  <2>4. Append(m_doc[r].rows, Row(r)) \in Seq(RowSet)
    <3>1. Row(r) \in RowSet
      BY DEF Row, RowSet
    <3>2. m_doc[r].rows \in Seq(RowSet)
      BY <1>0 DEF Content
    <3> QED
      BY <3>1, <3>2, RowTyped
  <2>5. m_doc'[r] \in Content({"array", "object"}, RowSet)
    BY <1>0, <2>1, <2>4 DEF Content
  <2>6. \A q \in Profilers : m_doc'[q] \in Content({"array", "object"}, RowSet)
    BY <1>0, <2>1, <2>5
  <2>7. RowSet' = RowSet
    BY <2>1 DEF RowSet
  <2>8. pc' \in [Profilers -> Places]
    BY <1>f, <2>3 DEF Moved
  <2> QED
    BY <1>0, <2>1, <2>3, <2>6, <2>7, <2>8 DEF TypeInv
<1>7. CASE AppendRefused(r)
  <2>1. Moved(r, "exit(-1)")
    BY <1>7 DEF AppendRefused, Moved, Carried, Places
  <2> QED
    BY <1>0, <1>7, <1>f, <2>1 DEF AppendRefused, TypeInv, RowSet, Moved
<1>8. CASE Write(r)
  <2>1. /\ file'.rows \in {m_doc[r].rows, <<>>}
        /\ file' \in Content(Kinds, RowSet)
    <3>1. m_doc[r] \in Content(Kinds, RowSet)
      BY <1>0 DEF Content, Kinds
    <3>2. file' = m_doc[r] \/ file' = Other("text")
      BY <1>8 DEF Write, Overwritten
    <3> QED
      BY <3>1, <3>2, <1>e, <1>k
  <2>2. Moved(r, "exit(0)")
    BY <1>8, <2>1 DEF Write, Moved, Carried, Places
  <2> QED
    BY <1>0, <1>8, <1>f, <2>1, <2>2 DEF Write, TypeInv, RowSet, Moved
<1>9. CASE DiskFull(r)
  <2>1. file'.rows \in {file.rows, <<>>} /\ file' \in Content(Kinds, RowSet)
    BY <1>0, <1>9, <1>e, <1>k DEF DiskFull
  <2>2. Moved(r, "exit(0)")
    BY <1>9, <2>1 DEF DiskFull, Moved, Carried, Places
  <2> QED
    BY <1>0, <1>9, <1>f, <2>1, <2>2 DEF DiskFull, TypeInv, RowSet, Moved
<1>10. CASE Killed(r)
  <2>1. file'.rows \in {file.rows, <<>>} /\ file' \in Content(Kinds, RowSet)
    BY <1>0, <1>10, <1>e, <1>k DEF Killed
  <2>2. Moved(r, "crashed")
    BY <1>10, <2>1 DEF Killed, Moved, Carried, Places
  <2> QED
    BY <1>0, <1>10, <1>f, <2>1, <2>2 DEF Killed, TypeInv, RowSet, Moved
<1> QED
  BY <1>1, <1>2, <1>3, <1>4, <1>5, <1>6, <1>7, <1>8, <1>9, <1>10

\* In the orderly case: while one profiler is inside, the others are not, and
\* what one does keeps the rows of those before it.
LEMMA OrderStep ==
  ASSUME IInv, NEW r \in Profilers,
         \/ NoOutput(r) \/ ParseFile(r) \/ ResizeThrows(r) \/ Open(r)
         \/ OpenFails(r) \/ AppendResult(r) \/ AppendRefused(r) \/ Write(r)
         \/ DiskFull(r) \/ Killed(r)
  PROVE  OrderInv' /\ appended' \in Seq(Profilers)
<1>0. /\ pc \in [Profilers -> Places] /\ given \in Cases /\ given' = given
      /\ DOMAIN m_doc = Profilers /\ appended \in Seq(Profilers)
      /\ file \in Content(Kinds, RowSet)
      /\ \A q \in Profilers : m_doc[q] \in Content({"array", "object"}, RowSet)
  BY DEF IInv, TypeInv, NoOutput, ParseFile, ResizeThrows, Open, OpenFails,
         AppendResult, AppendRefused, Write, DiskFull, Killed
<1>1. appended' \in Seq(Profilers)
  <2>1. appended \o <<r>> = Append(appended, r) /\ Append(appended, r) \in Seq(Profilers)
    BY <1>0, AppendIsConcat, AppendProperties
  <2>2. appended' \in {appended, appended \o <<r>>}
    BY DEF NoOutput, ParseFile, ResizeThrows, Open, OpenFails,
           AppendResult, AppendRefused, Write, DiskFull, Killed
  <2> QED
    BY <1>0, <2>1, <2>2
<1>2. SUFFICES ASSUME Orderly
               PROVE  /\ OneInside' /\ Untouched' /\ QuietInv'
                      /\ \A q \in Profilers : PlaceInv(q)'
  BY <1>0, <1>1 DEF OrderInv, Orderly
<1>3. OneInside /\ Untouched /\ QuietInv /\ \A q \in Profilers : PlaceInv(q)
  BY <1>2 DEF IInv, OrderInv
<1>4. /\ ~given.overlap /\ ~given.faulty /\ Before' = Before
      /\ given.result[r] # NoResult => Fit(given.result, r)
  BY <1>0, <1>2 DEF Orderly, Fit, Before
<1> USE DEF Inside
\* One that is inside is alone there.
<1>5. ASSUME pc[r] \in Inside PROVE \A q \in Profilers \ {r} : pc[q] \notin Inside
  BY <1>3, <1>5 DEF OneInside
\* Those that are not inside keep what is said of them.
<1>6. ASSUME NEW q \in Profilers, pc'[q] \notin Inside PROVE PlaceInv(q)'
  BY <1>6 DEF PlaceInv
<1>7. CASE NoOutput(r) \/ ResizeThrows(r)
  <2>1. /\ pc' = [pc EXCEPT ![r] = "exit"] \/ pc' = [pc EXCEPT ![r] = "crashed"]
        /\ pc[r] = "profiled" /\ UNCHANGED <<file, m_doc, appended>>
    BY <1>7 DEF NoOutput, ResizeThrows, Goto
  <2>2. \A q \in Profilers : /\ pc'[q] \in Inside <=> pc[q] \in Inside
                             /\ pc'[q] \in Inside \cup {"profiled"} => pc'[q] = pc[q]
    BY <1>0, <2>1
  <2>3. OneInside' /\ Untouched'
    BY <1>3, <2>1, <2>2 DEF OneInside, Untouched
  <2>4. QuietInv'
    BY <1>3, <1>4, <2>1, <2>2 DEF QuietInv, Quiet
  <2>5. ASSUME NEW q \in Profilers, pc'[q] \in Inside PROVE PlaceInv(q)'
    BY <1>0, <1>3, <1>4, <2>1, <2>2, <2>5 DEF PlaceInv
  <2> QED
    BY <1>6, <2>3, <2>4, <2>5
<1>8. CASE ParseFile(r)
  <2>1. /\ pc' = [pc EXCEPT ![r] = "parsed"] /\ pc[r] = "profiled"
        /\ UNCHANGED <<file, appended>> /\ Fit(given.result, r)
        /\ \A q \in Profilers : pc[q] \notin Inside
        /\ \A q \in Profilers \ {r} : m_doc'[q] = m_doc[q]
        /\ m_doc'[r] = IF file.kind \in {"array", "object"} THEN file ELSE m_doc[r]
    BY <1>0, <1>4, <1>8 DEF ParseFile, Turn, Goto
  <2>2. OneInside' /\ Untouched' /\ QuietInv'
    BY <1>0, <1>3, <2>1 DEF OneInside, Untouched, QuietInv, Quiet
  <2>3. /\ All(Before, m_doc'[r].rows, appended)
        /\ m_doc'[r].kind # "array" => m_doc'[r].rows = <<>>
    <3>1. Whole(Before, file, appended)
      BY <1>3, <2>1 DEF QuietInv, Quiet
    <3>2. CASE file.kind \in {"array", "object"}
      BY <2>1, <3>1, <3>2 DEF Whole
    <3>3. CASE file.kind \notin {"array", "object"}
      <4>1. m_doc'[r] = Array(<<>>)
        BY <1>3, <2>1, <3>3 DEF Untouched
      <4> QED
        BY <3>1, <3>3, <4>1 DEF Whole, Array
    <3> QED
      BY <3>2, <3>3
  <2>4. PlaceInv(r)'
    BY <1>0, <1>4, <2>1, <2>3 DEF PlaceInv
  <2>5. \A q \in Profilers \ {r} : pc'[q] \notin Inside
    BY <1>0, <2>1
  <2> QED
    BY <1>6, <2>2, <2>4, <2>5
<1>9. CASE Open(r)
  <2>1. /\ pc' = [pc EXCEPT ![r] = "truncated"] /\ pc[r] = "parsed"
        /\ UNCHANGED <<m_doc, appended>> /\ file' = Other("empty")
    BY <1>9 DEF Open, Goto
  <2>2. OneInside' /\ Untouched' /\ QuietInv'
    BY <1>0, <1>3, <2>1 DEF OneInside, Untouched, QuietInv, Quiet
  <2>3. PlaceInv(r)'
    BY <1>0, <1>3, <1>4, <2>1 DEF PlaceInv
  <2>4. \A q \in Profilers \ {r} : pc'[q] \notin Inside
    BY <1>0, <1>5, <2>1
  <2> QED
    BY <1>6, <2>2, <2>3, <2>4
<1>10. CASE AppendResult(r)
  <2>1. /\ pc' = [pc EXCEPT ![r] = "writing"] /\ pc[r] = "truncated"
        /\ UNCHANGED <<file, appended>> /\ m_doc[r].kind = "array"
        /\ \A q \in Profilers \ {r} : m_doc'[q] = m_doc[q]
        /\ m_doc'[r] = [m_doc[r] EXCEPT !.rows = Append(m_doc[r].rows, Row(r))]
    BY <1>0, <1>10 DEF AppendResult, Goto
  <2>2. OneInside' /\ Untouched' /\ QuietInv'
    BY <1>0, <1>3, <2>1 DEF OneInside, Untouched, QuietInv, Quiet
  <2>3. /\ m_doc'[r].kind = "array"
        /\ m_doc'[r].rows = Append(m_doc[r].rows, Row(r))
    BY <1>0, <2>1 DEF Content
  <2>4. All(Before, Append(m_doc[r].rows, Row(r)), appended \o <<r>>)
    <3>1. /\ All(Before, m_doc[r].rows, appended) /\ m_doc[r].rows \in Seq(RowSet)
          /\ Row(r).by = r
      BY <1>0, <1>3, <2>1 DEF PlaceInv, Content, Row, RowOf
    <3>2. Before \in Seq(RowSet)
      BY <1>0, Given, SeqMonotonic DEF Before, RowSet
    <3> HIDE DEF Inside
    <3> QED
      BY <1>0, <3>1, <3>2, AllAppend
  <2>5. PlaceInv(r)'
    BY <1>0, <1>3, <1>4, <2>1, <2>3, <2>4 DEF PlaceInv
  <2>6. \A q \in Profilers \ {r} : pc'[q] \notin Inside
    BY <1>0, <1>5, <2>1
  <2> QED
    BY <1>6, <2>2, <2>5, <2>6
<1>11. CASE AppendRefused(r)
  <2>1. /\ pc' = [pc EXCEPT ![r] = "exit(-1)"] /\ pc[r] = "truncated"
        /\ UNCHANGED <<file, m_doc, appended>>
        /\ m_doc[r].kind # "array" \/ Refused(given.result[r])
    BY <1>11 DEF AppendRefused, Goto
  <2>2. OneInside' /\ Untouched'
    BY <1>0, <1>3, <2>1 DEF OneInside, Untouched
  <2>3. file = Other("empty") /\ All(Before, <<>>, appended)
    BY <1>3, <2>1 DEF PlaceInv, Fit
  <2>4. appended = <<>>
    <3>1. Len(Before) \in Nat /\ Len(appended) \in Nat
      BY <1>0, Given, LenProperties DEF Before
    <3>2. Len(<<>>) = Len(Before) + Len(appended)
      BY <2>3 DEF All
    <3>3. Len(appended) = 0
      BY <3>1, <3>2
    <3> QED
      BY <1>0, <3>3, EmptySeq
  <2>5. Whole(Before, file, appended)
    BY <2>3, <2>4 DEF Whole, Other
  <2>6. QuietInv'
    BY <1>4, <2>1, <2>5 DEF QuietInv
  <2>7. \A q \in Profilers : pc'[q] \notin Inside
    BY <1>0, <1>5, <2>1
  <2> QED
    BY <1>6, <2>2, <2>6, <2>7
<1>12. CASE Write(r)
  <2>1. /\ pc' = [pc EXCEPT ![r] = "exit(0)"] /\ pc[r] = "writing"
        /\ m_doc' = m_doc /\ appended' = appended \o <<r>>
        /\ file' \in Overwritten(m_doc[r])
    BY <1>12 DEF Write, Goto
  <2>2. OneInside' /\ Untouched'
    BY <1>0, <1>3, <2>1 DEF OneInside, Untouched
  <2>3. /\ file = Other("empty") /\ m_doc[r].kind = "array"
        /\ All(Before, m_doc[r].rows, appended')
    BY <1>3, <2>1 DEF PlaceInv
  <2>4. file' = m_doc[r]
    BY <2>1, <2>3 DEF Overwritten, Other
  <2>5. QuietInv'
    BY <1>4, <2>3, <2>4 DEF QuietInv, Whole
  <2>6. \A q \in Profilers : pc'[q] \notin Inside
    BY <1>0, <1>5, <2>1
  <2> QED
    BY <1>6, <2>2, <2>5, <2>6
<1>13. CASE OpenFails(r) \/ DiskFull(r) \/ Killed(r)
  BY <1>4, <1>13 DEF OpenFails, DiskFull, Killed
<1> QED
  BY <1>7, <1>8, <1>9, <1>10, <1>11, <1>12, <1>13

\* Every step keeps the invariant.
LEMMA StepInv == IInv /\ [Next]_vars => IInv'
<1> SUFFICES ASSUME IInv, [Next]_vars PROVE IInv'
  OBVIOUS
<1>1. ASSUME NEW r \in Profilers,
             \/ NoOutput(r) \/ ParseFile(r) \/ ResizeThrows(r) \/ Open(r)
             \/ OpenFails(r) \/ AppendResult(r) \/ AppendRefused(r) \/ Write(r)
             \/ DiskFull(r) \/ Killed(r)
      PROVE  IInv'
  <2>1. TypeInv /\ RowsInv
    BY DEF IInv
  <2>2. TypeInv' /\ \E l : Moved(r, l)
    BY <1>1, <2>1, StepMoves
  <2>3. RowsInv'
    BY <2>1, <2>2, MovedInv
  <2>4. OrderInv' /\ appended' \in Seq(Profilers)
    BY <1>1, OrderStep
  <2> QED
    BY <2>2, <2>3, <2>4 DEF IInv
<1>2. CASE Ended \/ UNCHANGED vars
  <2>1. UNCHANGED <<given, file, m_doc, pc, appended>>
    BY <1>2 DEF Ended, vars
  <2>2. TypeInv' /\ RowsInv' /\ appended' \in Seq(Profilers)
    BY <2>1 DEF IInv, TypeInv, RowSet, RowsInv, FileInv, DocInv, FitInv, Before,
                Written, Known
  <2>3. OrderInv'
    BY <2>1 DEF IInv, OrderInv, Orderly, OneInside, Untouched, QuietInv, Quiet,
                PlaceInv, Before
  <2> QED
    BY <2>2, <2>3 DEF IInv
<1> QED
  BY <1>1, <1>2 DEF Next

\* So the invariant always holds.
LEMMA FileInvariant == Spec => []IInv
  BY InitInv, StepInv, PTL DEF Spec

-----------------------------------------------------------------------------

\* ResultParser.cpp and the end of main(): with one profiler after another,
\* complete samples and nobody killed, the file has all results, in order,
\* behind what was there; whatever was there, and however many profilers.
THEOREM EachResultStored == Spec => []Stored
<1>1. ASSUME IInv PROVE Stored
  <2> SUFFICES ASSUME Quiet, Orderly
               PROVE  /\ Len(file.rows) = Len(given.file.rows) + Len(appended)
                      /\ IsPrefix(given.file.rows, file.rows)
                      /\ \A i \in DOMAIN appended :
                           file.rows[Len(given.file.rows) + i].by = appended[i]
                      /\ appended # <<>> => file.kind = "array"
    BY DEF Stored
  <2>1. Whole(Before, file, appended)
    BY <1>1 DEF IInv, OrderInv, QuietInv
  <2>2. /\ Before \in Seq(RowSet) /\ file.rows \in Seq(RowSet)
        /\ Len(Before) \in Nat /\ Len(appended) \in Nat
    <3>1. Before \in Seq(RowSet)
      BY <1>1, Given, SeqMonotonic DEF IInv, TypeInv, Before, RowSet
    <3>2. file.rows \in Seq(RowSet) /\ appended \in Seq(Profilers)
      BY <1>1 DEF IInv, TypeInv, Content
    <3> QED
      BY <3>1, <3>2, LenProperties
  <2>3. Len(Before) <= Len(file.rows)
    BY <2>1, <2>2 DEF Whole, All
  <2>4. IsPrefix(Before, file.rows)
    BY <2>1, <2>2, <2>3, PrefixOf DEF Whole, All
  <2> QED
    BY <2>1, <2>4 DEF Whole, All, Before
<1> QED
  BY <1>1, FileInvariant, PTL

\* The same code with any profilers at the file at the same time, killed or out
\* of disk space: the file never shows a result twice, or one that was not
\* written, or what was there in part.
THEOREM OnlyResultsWritten == Spec => []Genuine
<1>1. ASSUME IInv PROVE Genuine
  <2>1. TypeOK
    <3>1. ASSUME NEW rows, NEW n \in {0, Len(Before)}, NEW S, S \subseteq Profilers,
                 rows \in Seq(RowSet), Behind(given.result, rows, n, S)
          PROVE  RowsOK(rows)
      <4>1. DOMAIN rows = 1..Len(rows) /\ Len(rows) \in Nat /\ n \in Nat
        <5>1. Len(Before) \in Nat
          BY <1>1, Given, LenProperties DEF IInv, TypeInv, Before
        <5> QED
          BY <3>1, <5>1, LenProperties
      <4>2. \A i \in DOMAIN rows : i \in 1..n \/ i \in n + 1..Len(rows)
        BY <4>1
      <4> QED
        BY <3>1, <4>2 DEF RowsOK, Range, Behind
    <3>2. RowsOK(file.rows)
      BY <1>1, <3>1 DEF IInv, TypeInv, Content, RowsInv, FileInv, Written
    <3>3. \A r \in Profilers : RowsOK(m_doc[r].rows)
      <4> SUFFICES ASSUME NEW r \in Profilers PROVE RowsOK(m_doc[r].rows)
        OBVIOUS
      <4>1. PICK n \in {0, Len(Before)} :
              Behind(given.result, m_doc[r].rows, n, Known(r))
        BY <1>1 DEF IInv, RowsInv, DocInv
      <4>2. Known(r) \subseteq Profilers /\ m_doc[r].rows \in Seq(RowSet)
        BY <1>1 DEF IInv, TypeInv, Content, Written, Known
      <4> QED
        BY <3>1, <4>1, <4>2
    <3> QED
      BY <1>1, <3>2, <3>3 DEF IInv, TypeInv, Content, TypeOK, Places
  <2>2. PICK n \in {0, Len(Before)} : Behind(given.result, file.rows, n, Written)
    BY <1>1 DEF IInv, RowsInv, FileInv
  <2>3. NewBehind(n)
    BY <2>2 DEF Behind, NewBehind, Written
  <2> QED
    BY <2>1, <2>2, <2>3 DEF Genuine, Before
<1> QED
  BY <1>1, FileInvariant, PTL

\* ResultParser::append: what the file shows of a profiler are its samples,
\* column by column, for any number of plans, events and samples.
THEOREM ColumnsNeverMixed == Spec => []Transposed
<1>1. ASSUME IInv PROVE Transposed
  <2> SUFFICES ASSUME NEW row \in Range(file.rows) \ {Old}
               PROVE  LET result == given.result[row.by]
                      IN /\ \A p \in DOMAIN result : \A s \in Range(result[p].samples) :
                              Len(s) = Len(result[p].group)
                         /\ row.object = [p \in DOMAIN result |-> Transpose(result[p])]
    BY DEF Transposed
  <2>1. PICK n \in {0, Len(Before)} : Behind(given.result, file.rows, n, Written)
    BY <1>1 DEF IInv, RowsInv, FileInv
  <2>2. PICK i \in DOMAIN file.rows : row = file.rows[i]
    BY DEF Range
  <2>3. i \in n + 1..Len(file.rows)
    <3>1. DOMAIN file.rows = 1..Len(file.rows) /\ Len(file.rows) \in Nat /\ n \in Nat
      BY <1>1, Given, LenProperties DEF IInv, TypeInv, Content, Before
    <3>2. i \notin 1..n
      BY <2>1, <2>2 DEF Behind
    <3> QED
      BY <2>2, <3>1, <3>2
  <2>4. /\ row.by \in Profilers /\ Fit(given.result, row.by)
        /\ row = RowOf(row.by, given.result[row.by])
    BY <2>1, <2>2, <2>3 DEF Behind, Written
  <2>5. row.object = ResultObject(given.result[row.by])
    BY <2>4 DEF RowOf
  <2>6. IsResult(given.result[row.by]) /\ ~Refused(given.result[row.by])
    BY <1>1, <2>4, Given DEF IInv, TypeInv, Fit
  <2> QED
    BY <2>5, <2>6, ResultTransposed
<1> QED
  BY <1>1, FileInvariant, PTL
=============================================================================
