---------------------------- MODULE ResultTable ----------------------------
(***************************************************************************)
(* The loops of ResultParser::append: from the samples of the plans, a row *)
(* of counters each, to the JSON object of the output, which has a column  *)
(* of values per event.                                                    *)
(*                                                                         *)
(* A result is a sequence with an entry per plan: its event group (leader  *)
(* and members, in this order, which is that of the counters in each       *)
(* sample) and its samples.                                                *)
(***************************************************************************)
EXTENDS SequencesExt, Naturals

\* A member made on the first value of its event.
Column(object, e) == IF e \in DOMAIN object THEN object[e] ELSE <<>>
Pushed(object, e, value) ==
  [d \in DOMAIN object \cup {e} |->
     IF d = e THEN Append(Column(object, e), value) ELSE object[d]]

\* The values of one sample, pushed from left to right.
PushSample_LeaderLast(group, object, sample) ==
  LET pushed[i \in 0..Len(sample)] ==
        IF i = 0 THEN object
        ELSE Pushed(pushed[i - 1], group[IF i = Len(sample) THEN 1 ELSE i + 1], sample[i])
  IN pushed[Len(sample)]
PushSample(group, object, sample) ==
  LET pushed[i \in 0..Len(sample)] ==
        IF i = 0 THEN object ELSE Pushed(pushed[i - 1], group[i], sample[i])
  IN pushed[Len(sample)]

\* The samples of a plan, from the first to the last.
PlanObject(plan) ==
  LET after[n \in 0..Len(plan.samples)] ==
        IF n = 0 THEN <<>>
        ELSE PushSample(plan.group, after[n - 1], plan.samples[n])
  IN after[Len(plan.samples)]

\* A sample that is not as long as the group is refused.
MissMatch(plan) == \E s \in Range(plan.samples) : Len(s) # Len(plan.group)
Refused(result) == \E plan \in Range(result) : MissMatch(plan)

ResultObject(result) == [p \in DOMAIN result |-> PlanObject(result[p])]

\* A result names an event of a group once, and its samples are rows of values.
IsResult(result) ==
  \A p \in DOMAIN result :
    /\ result[p].group \in Seq(Range(result[p].group)) /\ IsInjective(result[p].group)
    /\ result[p].samples \in Seq(Range(result[p].samples))
    /\ \A s \in Range(result[p].samples) : s \in Seq(Range(s))

-----------------------------------------------------------------------------

\* The table of a plan, by columns: each event's counter of every sample.
Transpose(plan) ==
  IF plan.samples = <<>> THEN <<>>
  ELSE [e \in Range(plan.group) |->
          LET i == CHOOSE i \in DOMAIN plan.group : plan.group[i] = e
          IN [s \in DOMAIN plan.samples |-> plan.samples[s][i]]]
=============================================================================
