------------------------------ MODULE MCInput -------------------------------
(***************************************************************************)
(* An instance of Input.  An entry of a configuration is one of a few good *)
(* ones, or one of these with a single member taken out or replaced; texts *)
(* are all texts of a few characters, parameters may have blanks, digits   *)
(* or nothing in them.                                                     *)
(***************************************************************************)
EXTENDS Input

S(t) == <<"string", t>>
U(n) == <<"uint", n>>
B(b) == <<"bool", b>>
A(s) == <<"array", s>>
O(members) == <<"object", members>>
Null == <<"null", <<>>>>

With(o, m, v) == O((m :> v) @@ o[2])
Without(o, m) == O([n \in DOMAIN o[2] \ {m} |-> o[2][n]])
Changed(o, changes) ==
  {Without(o, m) : m \in DOMAIN o[2]}
    \cup UNION {{With(o, m, v) : v \in changes[m]} : m \in DOMAIN changes}

FlagChanges ==
  [rt |-> {Null, B(TRUE)}, pincpu |-> {Null, B(TRUE)},
   phase |-> {Null, A(<<U(0)>>), A(<<U(0), Null>>), A(<<U(1), U(1)>>), A(<<U(0), U(2)>>)}]
PerfChanges ==
  [leader |-> {Null, S("")}, period |-> {Null, U(0)},
   member |-> {Null, A(<<Null>>), A(<<S("e2")>>)}]

GoodTasks == {O([id |-> S("t"), cmd |-> S("run")]), O([id |-> S("u"), cmd |-> S("walk")])}
MCTaskVals ==
  {Null} \cup GoodTasks \cup
    UNION {Changed(t, [id |-> {Null}, cmd |-> {Null, S("go")}, dir |-> {Null, S("/")}]) :
             t \in {u \in GoodTasks : u[2].id = S("t")}}

TaskAttr == O([id |-> S("t"), phase |-> A(<<U(0), U(1)>>)])
PerfAttr == O([leader |-> S("e1"), period |-> U(1)])
TaskAttrs ==
  {Null} \cup Changed(TaskAttr, FlagChanges @@
    [id |-> {Null, S("u"), S("none")}, param |-> {Null, A(<<Null>>), A(<<S("x")>>)}])
PerfAttrs == {Null} \cup Changed(PerfAttr, PerfChanges)

GoodPlan(id, type) == O([id |-> S(id), type |-> S(type), task |-> TaskAttr, perf |-> PerfAttr])
Types == {S(t) : t \in PlanType} \cup {Null, S("OTHER")}
NoTask == O([id |-> S("d"), type |-> S("DAEMON")])
GoodPlans == {GoodPlan("p", "SAMPLE_PHASE"), GoodPlan("q", "COUNT"), NoTask}
MCPlanVals ==
  {Null} \cup GoodPlans \cup
    Changed(GoodPlan("p", "SAMPLE_PHASE"),
      [id |-> {Null, S("")}, type |-> Types, task |-> TaskAttrs, perf |-> PerfAttrs]) \cup
    UNION {Changed(GoodPlan("p", type), [task |-> {With(TaskAttr, "phase", Null)},
                                         perf |-> PerfAttrs])
           : type \in PlanType \ {"SAMPLE_PHASE"}}

GoodJson(type) ==
  O([id |-> S("p"), task |-> S("run"), type |-> S(type), leader |-> S("e1"),
     period |-> U(1), phase |-> A(<<U(0), U(1)>>)])
MCJsonVals ==
  {Null} \cup
    Changed(GoodJson("SAMPLE_PHASE"), FlagChanges @@
      [id |-> {Null, S(""), S("j")}, task |-> {Null}, type |-> Types]) \cup
    UNION {{GoodJson(type)} \cup
             Changed(GoodJson(type), PerfChanges @@ [phase |-> {Null}]) : type \in PlanType}

AllCpuTexts == SeqOf({"1", "4", ",", "~", "-"}, 6)

Params ==
  {<<<<"x">>, <<>>>>, <<<<"1", " ", "x">>, <<"2">>>>, <<<<" ">>>>, <<>>,
   <<<<"x">>, <<"2">>>>, <<<<"1", "x">>>>}
AllCommands ==
  {c \in SeqOf({"$", "1", "2", " ", "a"}, 6) \X Params : Matches(c[2], c[1])}
=============================================================================
