---------------------------- MODULE InputProofs -----------------------------
(***************************************************************************)
(* What ConfigParser promises of the plans it hands to the profiler, and   *)
(* that it judges every entry as README.md describes it but for three      *)
(* things, for any entries and any number of files and options; what       *)
(* parseCPU and the commands make of a text, for any text.                 *)
(*                                                                         *)
(* That entries are judged rightly is a fact about the parse functions,    *)
(* one by one: on a JSON value, the members are looked at in some order    *)
(* and the first error counts; there is none if and only if every member   *)
(* that is there has its type and none that the code asks for is lacking.  *)
(*                                                                         *)
(* The facts about texts are shown by induction: Split, ReplaceEach and    *)
(* Expand recur along a text, so each has a lemma that says what it makes  *)
(* of <<>> and of a character and a text (Cons).                           *)
(***************************************************************************)
EXTENDS Input, DataInduction

-----------------------------------------------------------------------------
(* The parse functions.                                                    *)

\* A member that is there has its type if it has not the wrong one.
LEMMA MemberJudged ==
  ASSUME NEW val, NEW m, NEW type,
         type \in {"string", "bool", "uint", "object"}
  PROVE  (Has(val, m) => OfType(type, val[2][m])) <=> ~Wrong(val, m, type)
  BY DEF OfType, Wrong

\* An array of texts.
LEMMA StringsJudged ==
  ASSUME NEW val, NEW m
  PROVE  (Has(val, m) => OfType("strings", val[2][m]))
           <=> ~Wrong(val, m, "array") /\ ~WrongElement(val, m, "string")
  BY DEF OfType, Wrong, WrongElement, Get

\* A phase is an array of two numbers.
LEMMA PhaseJudged ==
  ASSUME NEW val, Has(val, "phase") => Flat(val[2]["phase"])
  PROVE  (Has(val, "phase") => OfType("two uints", val[2]["phase"]))
           <=> ~WrongPhase(val)
<1>1. CASE ~Has(val, "phase")
  BY <1>1 DEF WrongPhase, Wrong, WrongElement
<1>2. CASE Has(val, "phase") /\ ~Is("array", val[2]["phase"])
  BY <1>2 DEF WrongPhase, Wrong, OfType
<1>3. CASE Has(val, "phase") /\ Is("array", val[2]["phase"])
  <2> DEFINE s == val[2]["phase"][2]
  <2>1. DOMAIN s = 1..Len(s) /\ Len(s) \in Nat
    BY <1>3 DEF Flat
  <2>2. OfType("two uints", val[2]["phase"])
          <=> Len(s) = 2 /\ \A i \in 1..2 : Is("uint", s[i])
    BY <1>3 DEF OfType
  <2>3. WrongPhase(val)
          <=> (\E i \in DOMAIN s : ~Is("uint", s[i])) \/ Len(s) # 2
    BY <1>3 DEF WrongPhase, Wrong, WrongElement, Get
  <2> HIDE DEF s
  <2> QED
    BY <1>3, <2>1, <2>2, <2>3
<1> QED
  BY <1>1, <1>2, <1>3

\* A task.
LEMMA TaskJudged ==
  ASSUME NEW val PROVE TaskError(val) = "PARSE_OK" <=> TaskConforms(val)
<1> DEFINE req == [id |-> "string", cmd |-> "string"]
           opt == [dir |-> "string"]
<1>1. TaskConforms(val)
        <=> /\ Is("object", val) /\ Has(val, "id") /\ Has(val, "cmd")
            /\ OfType("string", val[2]["id"]) /\ OfType("string", val[2]["cmd"])
            /\ Has(val, "dir") => OfType("string", val[2]["dir"])
  <2>1. DOMAIN req = {"id", "cmd"} /\ DOMAIN opt = {"dir"}
    OBVIOUS
  <2>2. req["id"] = "string" /\ req["cmd"] = "string" /\ opt["dir"] = "string"
    OBVIOUS
  <2>3. TaskConforms(val) <=> Conforms(val, req, opt)
    BY DEF TaskConforms
  <2> HIDE DEF req, opt
  <2> QED
    BY <2>1, <2>2, <2>3 DEF Conforms
<1> QED
  BY <1>1, MemberJudged DEF TaskError

\* The flags of a task.
LEMMA FlagsConform ==
  ASSUME NEW val
  PROVE  Conforms(val, <<>>, Flags)
           <=> /\ Is("object", val)
               /\ Has(val, "rt") => OfType("bool", val[2]["rt"])
               /\ Has(val, "pincpu") => OfType("bool", val[2]["pincpu"])
               /\ Has(val, "phase") => OfType("two uints", val[2]["phase"])
<1>1. /\ DOMAIN Flags = {"rt", "pincpu", "phase"} /\ Flags["rt"] = "bool"
      /\ Flags["pincpu"] = "bool" /\ Flags["phase"] = "two uints"
  BY DEF Flags
<1>2. Conforms(val, <<>>, Flags)
        <=> /\ Is("object", val)
            /\ \A m \in DOMAIN Flags : Has(val, m) => OfType(Flags[m], val[2][m])
  BY DEF Conforms
<1> QED
  BY <1>1, <1>2, Zenon

\* They are judged one by one.
LEMMA FlagsJudged ==
  ASSUME NEW val, Is("object", val), Object(val)
  PROVE  FlagsError(val) = "PARSE_OK" <=> Conforms(val, <<>>, Flags)
<1>1. Has(val, "phase") => Flat(val[2]["phase"])
  BY DEF Object, Has
<1> QED
  BY <1>1, FlagsConform, MemberJudged, PhaseJudged DEF FlagsError

\* The perf attributes.
LEMMA PerfJudged ==
  ASSUME NEW val
  PROVE  PerfAttributeError(val) = "PARSE_OK" <=> Conforms(val, <<>>, Perf)
<1>1. Conforms(val, <<>>, Perf)
        <=> /\ Is("object", val)
            /\ Has(val, "leader") => OfType("string", val[2]["leader"])
            /\ Has(val, "period") => OfType("uint", val[2]["period"])
            /\ Has(val, "member") => OfType("strings", val[2]["member"])
  <2>1. /\ DOMAIN Perf = {"leader", "period", "member"}
        /\ Perf["leader"] = "string" /\ Perf["period"] = "uint"
        /\ Perf["member"] = "strings"
    BY DEF Perf
  <2> QED
    BY <2>1 DEF Conforms
<1> QED
  BY <1>1, MemberJudged, StringsJudged DEF PerfAttributeError

\* The attributes of a task in a plan.
LEMMA TaskAttributeJudged ==
  ASSUME NEW val, Object(val)
  PROVE  TaskAttributeError(val) = "PARSE_OK"
           <=> /\ Conforms(val, [id |-> "task"], [param |-> "strings"])
               /\ Conforms(val, <<>>, Flags)
<1> DEFINE req == [id |-> "task"]
           opt == [param |-> "strings"]
<1>1. Conforms(val, req, opt)
        <=> /\ Is("object", val)
            /\ Has(val, "id") /\ OfType("task", val[2]["id"])
            /\ Has(val, "param") => OfType("strings", val[2]["param"])
  <2>1. /\ DOMAIN req = {"id"} /\ DOMAIN opt = {"param"}
        /\ req["id"] = "task" /\ opt["param"] = "strings"
    OBVIOUS
  <2> HIDE DEF req, opt
  <2> QED
    BY <2>1 DEF Conforms
<1>2. Has(val, "id") =>
        (OfType("task", val[2]["id"])
           <=> ~Wrong(val, "id", "string") /\ Get(val, "id") \in DOMAIN m_taskMap)
  BY DEF OfType, Wrong, Get
<1>3. Conforms(val, <<>>, Flags) => Is("object", val)
  BY DEF Conforms
<1> HIDE DEF req, opt
<1>4. TaskAttributeError(val) = "PARSE_OK"
        <=> Conforms(val, req, opt) /\ Conforms(val, <<>>, Flags)
  BY <1>1, <1>2, <1>3, FlagsJudged, StringsJudged DEF TaskAttributeError
<1> QED
  BY <1>4 DEF req, opt

\* The type of a plan.
LEMMA TypeJudged ==
  ASSUME NEW val, Has(val, "type")
  PROVE  OfType("type", val[2]["type"])
           <=> ~Wrong(val, "type", "string") /\ ~UnknownType(val)
  BY DEF OfType, Wrong, UnknownType, Get

\* In a plan of SAMPLE_PHASE nothing is ignored.
LEMMA AskedAll ==
  Asked(Flags, "SAMPLE_PHASE") = Flags /\ Asked(Perf, "SAMPLE_PHASE") = Perf
<1>1. Ignored("SAMPLE_PHASE") = {}
  BY DEF Ignored
<1>2. Flags = [m \in DOMAIN Flags |-> Flags[m]] /\ Perf = [m \in DOMAIN Perf |-> Perf[m]]
  BY DEF Flags, Perf
<1> QED
  BY <1>1, <1>2 DEF Asked, Restrict

\* What has all the members' types has those of the members asked for.
LEMMA LessAsked ==
  ASSUME NEW val, NEW required, NEW members, NEW type, Conforms(val, required, members)
  PROVE  Conforms(val, required, Asked(members, type))
<1>1. /\ DOMAIN Asked(members, type) \subseteq DOMAIN members
      /\ \A m \in DOMAIN Asked(members, type) : Asked(members, type)[m] = members[m]
  BY DEF Asked, Restrict
<1> QED
  BY <1>1 DEF Conforms

\* A plan in which nothing is ignored is right for its type.
LEMMA FitsAnyType ==
  ASSUME NEW val, NEW type
  PROVE  /\ PlanFits(val, "SAMPLE_PHASE") => PlanFits(val, type)
         /\ JsonFits(val, "SAMPLE_PHASE") => JsonFits(val, type)
  BY AskedAll, LessAsked DEF PlanFits, JsonFits

\* A plan that parsePlan takes, and one that it does not.
LEMMA PlanJudged ==
  ASSUME NEW val, Entry(val)
  PROVE  PlanError(val) = "PARSE_OK" <=> PlanFits(val, "SAMPLE_PHASE")
<1> DEFINE req == [id |-> "string", type |-> "type"]
           opt == [task |-> "object"]
           TaskOK == /\ Conforms(val[2].task, [id |-> "task"], [param |-> "strings"])
                     /\ Conforms(val[2].task, <<>>, Flags)
           PerfOK == Conforms(val[2].perf, <<>>, Perf)
<1>1. Conforms(val, req, opt)
        <=> /\ Is("object", val) /\ Has(val, "id") /\ Has(val, "type")
            /\ OfType("string", val[2]["id"]) /\ OfType("type", val[2]["type"])
            /\ Has(val, "task") => OfType("object", val[2]["task"])
  <2>1. DOMAIN req = {"id", "type"} /\ DOMAIN opt = {"task"}
    OBVIOUS
  <2>2. req["id"] = "string" /\ req["type"] = "type" /\ opt["task"] = "object"
    OBVIOUS
  <2> HIDE DEF req, opt
  <2> QED
    BY <2>1, <2>2 DEF Conforms
<1>2. TaskOK => OfType("object", val[2]["task"])
  BY DEF Conforms, OfType
<1>3. Is("object", val) /\ Has(val, "task") =>
        (TaskAttributeError(val[2].task) = "PARSE_OK" <=> TaskOK)
  BY TaskAttributeJudged DEF Entry, Has
<1>4. PerfAttributeError(val[2].perf) = "PARSE_OK" <=> PerfOK
  BY PerfJudged
<1>5. PlanFits(val, "SAMPLE_PHASE")
        <=> /\ Conforms(val, req, opt)
            /\ Has(val, "task") => TaskOK
            /\ Has(val, "perf") => PerfOK
  BY AskedAll DEF PlanFits
<1> HIDE DEF req, opt, TaskOK, PerfOK
<1> QED
  BY <1>1, <1>2, <1>3, <1>4, <1>5, MemberJudged, TypeJudged DEF PlanError

\* A plan of --json-plan.
LEMMA JsonJudged ==
  ASSUME NEW val, Entry(val)
  PROVE  JsonPlanError(val) = "PARSE_OK" <=> JsonFits(val, "SAMPLE_PHASE")
<1> DEFINE req == [id |-> "string", task |-> "string", type |-> "type"]
<1>1. Conforms(val, req, Flags)
        <=> /\ Has(val, "id") /\ Has(val, "task") /\ Has(val, "type")
            /\ OfType("string", val[2]["id"]) /\ OfType("string", val[2]["task"])
            /\ OfType("type", val[2]["type"])
            /\ Conforms(val, <<>>, Flags)
  <2>1. /\ DOMAIN req = {"id", "task", "type"}
        /\ req["id"] = "string" /\ req["task"] = "string" /\ req["type"] = "type"
    OBVIOUS
  <2> HIDE DEF req
  <2> QED
    BY <2>1 DEF Conforms
<1>2. Object(val)
  BY DEF Entry
<1>3. (\E m \in {"id", "task", "type"} : ~Has(val, m) \/ Wrong(val, m, "string"))
        <=> \/ ~Has(val, "id") \/ Wrong(val, "id", "string")
            \/ ~Has(val, "task") \/ Wrong(val, "task", "string")
            \/ ~Has(val, "type") \/ Wrong(val, "type", "string")
  OBVIOUS
<1>4. JsonFits(val, "SAMPLE_PHASE")
        <=> Conforms(val, req, Flags) /\ Conforms(val, <<>>, Perf)
  BY AskedAll DEF JsonFits
<1>5. Conforms(val, <<>>, Flags) => Is("object", val)
  BY DEF Conforms
<1> HIDE DEF req
<1>6. JsonPlanError(val) = "PARSE_OK"
        <=> /\ Is("object", val)
            /\ Has(val, "id") /\ ~Wrong(val, "id", "string")
            /\ Has(val, "task") /\ ~Wrong(val, "task", "string")
            /\ Has(val, "type") /\ ~Wrong(val, "type", "string")
            /\ ~UnknownType(val)
            /\ FlagsError(val) = "PARSE_OK" /\ PerfAttributeError(val) = "PARSE_OK"
  BY <1>3 DEF JsonPlanError
<1> QED
  BY <1>1, <1>2, <1>4, <1>5, <1>6, MemberJudged, TypeJudged, FlagsJudged,
     PerfJudged

-----------------------------------------------------------------------------
(* What they make of a value that is as described.                         *)

\* Two numbers are a pair.
LEMMA Pair ==
  ASSUME NEW s, DOMAIN s = 1..2, \A i \in 1..2 : s[i][2] \in Nat
  PROVE  [i \in DOMAIN s |-> s[i][2]] \in Nat \X Nat
  OBVIOUS

\* A phase is a pair of numbers.
LEMMA PhaseTyped ==
  ASSUME NEW val,
         Has(val, "phase") => /\ Flat(val[2]["phase"])
                              /\ OfType("two uints", val[2]["phase"])
  PROVE  Phase(val) \in Nat \X Nat
<1>1. CASE ~Has(val, "phase")
  BY <1>1 DEF Phase
<1>2. CASE Has(val, "phase")
  <2> DEFINE s == val[2]["phase"][2]
  <2>1. /\ s \in Seq(Range(s)) /\ Len(s) = 2
        /\ \A v \in Range(s) : Scalar(v)
        /\ \A i \in 1..2 : Is("uint", s[i])
    BY <1>2 DEF Flat, OfType
  <2>2. Phase(val) = [i \in DOMAIN s |-> s[i][2]]
    BY <1>2 DEF Phase, Texts, GetOr, Get
  <2> HIDE DEF s
  <2>3. DOMAIN s = 1..2
    BY <2>1, LenProperties
  <2>4. \A i \in 1..2 : s[i] \in Range(s)
    BY <2>3 DEF Range
  <2>5. \A i \in 1..2 : s[i][2] \in Nat
    BY <2>1, <2>4 DEF Scalar
  <2>6. [i \in DOMAIN s |-> s[i][2]] \in Nat \X Nat
    BY <2>3, <2>5, Pair
  <2> QED
    BY <2>2, <2>6
<1> QED
  BY <1>1, <1>2

\* So are the flags booleans.
LEMMA FlagsTyped ==
  ASSUME NEW val, Object(val), Conforms(val, <<>>, Flags)
  PROVE  Phase(val) \in Nat \X Nat /\ GetOr(val, "rt", FALSE) \in BOOLEAN
<1>1. /\ Is("object", val)
      /\ Has(val, "rt") => OfType("bool", val[2]["rt"])
      /\ Has(val, "phase") => OfType("two uints", val[2]["phase"])
  BY FlagsConform
<1>2. Has(val, "phase") => Flat(val[2]["phase"])
  BY <1>1 DEF Object, Has
<1>3. Has(val, "rt") => Scalar(val[2]["rt"]) /\ Is("bool", val[2]["rt"])
  BY <1>1 DEF Object, Has, Flat, OfType
<1>4. GetOr(val, "rt", FALSE) \in BOOLEAN
  BY <1>3 DEF GetOr, Get, Scalar
<1> QED
  BY <1>1, <1>2, <1>4, PhaseTyped

\* And the period is a number.
LEMMA PerfTyped ==
  ASSUME NEW val, Object(val), Conforms(val, <<>>, Perf)
  PROVE  GetOr(val, "period", 0) \in Nat
<1>1. Is("object", val)
  BY DEF Conforms
<1>2. Has(val, "period") => OfType("uint", val[2]["period"])
  BY DEF Conforms, Perf
<1>3. Has(val, "period") => Scalar(val[2]["period"]) /\ Is("uint", val[2]["period"])
  BY <1>1, <1>2 DEF Object, Has, Flat, OfType
<1> QED
  BY <1>3 DEF GetOr, Get, Scalar

\* The types of a plan, as TypeOK has them.
Typed(plan) ==
  /\ plan.type \in PlanType
  /\ plan.task.phase \in Nat \X Nat /\ plan.task.rt \in BOOLEAN
  /\ plan.perf.period \in Nat

\* The task of a plan is that of the name it gives, or the default one.
TaskOf(val, plan) ==
  IF Has(val, "task")
    THEN /\ Get(val[2].task, "id") \in DOMAIN m_taskMap
         /\ plan.task.task = m_taskMap[Get(val[2].task, "id")]
    ELSE plan.task.task = defaultTask

\* A plan's type is one of the four.
LEMMA TypeKnown ==
  ASSUME NEW val, Has(val, "type"), OfType("type", val[2]["type"])
  PROVE  Get(val, "type") \in PlanType
  BY DEF OfType, Get

\* What PlanFits says of a plan's task and perf when nothing is ignored.
LEMMA FitsAll ==
  ASSUME NEW val, PlanFits(val, "SAMPLE_PHASE")
  PROVE  /\ Is("object", val) /\ Has(val, "type") /\ OfType("type", val[2]["type"])
         /\ Has(val, "task") =>
              /\ Conforms(val[2].task, [id |-> "task"], [param |-> "strings"])
              /\ Conforms(val[2].task, <<>>, Flags)
         /\ Has(val, "perf") => Conforms(val[2].perf, <<>>, Perf)
  BY AskedAll DEF PlanFits, Conforms

\* A plan that parsePlan takes has its types, its id and the task it names.
LEMMA PlanTyped ==
  ASSUME NEW val, Entry(val), PlanFits(val, "SAMPLE_PHASE")
  PROVE  /\ Typed(ParsedPlan(val)) /\ ParsedPlan(val).id = Get(val, "id")
         /\ TaskOf(val, ParsedPlan(val))
<1> DEFINE plan == ParsedPlan(val)
<1>1. /\ Is("object", val) /\ Has(val, "type")
      /\ OfType("type", val[2]["type"])
  BY FitsAll
<1>2. /\ plan.type = Get(val, "type") /\ plan.id = Get(val, "id")
      /\ plan.task = IF Has(val, "task")
           THEN TaskAttribute(val[2].task, m_taskMap[Get(val[2].task, "id")])
           ELSE defaultTaskAttribute(defaultTask)
  BY DEF ParsedPlan, Plan
<1>a. plan.perf = IF Has(val, "perf") THEN PerfAttribute(val[2].perf)
                  ELSE defaultPerfAttribute
  BY DEF ParsedPlan, Plan
<1> HIDE DEF plan
<1>3. plan.task.phase \in Nat \X Nat /\ plan.task.rt \in BOOLEAN
  <2>1. CASE Has(val, "task")
    <3>1. Object(val[2].task) /\ Conforms(val[2].task, <<>>, Flags)
      BY <1>1, <2>1, FitsAll DEF Entry, Has
    <3>2. /\ plan.task.phase = Phase(val[2].task)
          /\ plan.task.rt = GetOr(val[2].task, "rt", FALSE)
      BY <1>2, <2>1 DEF TaskAttribute
    <3> QED
      BY <3>1, <3>2, FlagsTyped
  <2>2. CASE ~Has(val, "task")
    BY <1>2, <2>2 DEF defaultTaskAttribute
  <2> QED
    BY <2>1, <2>2
<1>4. plan.perf.period \in Nat
  <2>1. CASE Has(val, "perf")
    <3>1. Object(val[2].perf) /\ Conforms(val[2].perf, <<>>, Perf)
      BY <1>1, <2>1, FitsAll DEF Entry, Has
    <3>2. plan.perf = PerfAttribute(val[2].perf)
      BY <1>a, <2>1
    <3>3. PerfAttribute(val[2].perf).period = GetOr(val[2].perf, "period", 0)
      BY DEF PerfAttribute
    <3> QED
      BY <3>1, <3>2, <3>3, PerfTyped
  <2>2. CASE ~Has(val, "perf")
    <3>1. plan.perf = defaultPerfAttribute
      BY <1>a, <2>2
    <3>2. defaultPerfAttribute.period = 0
      BY DEF defaultPerfAttribute
    <3> QED
      BY <3>1, <3>2
  <2> QED
    BY <2>1, <2>2
<1>5. TaskOf(val, plan)
  <2>1. CASE Has(val, "task")
    <3>1. Conforms(val[2].task, [id |-> "task"], [param |-> "strings"])
      BY <2>1, FitsAll
    <3>2. Get(val[2].task, "id") \in DOMAIN m_taskMap
      BY <3>1 DEF Conforms, OfType, Get
    <3> QED
      BY <1>2, <2>1, <3>2 DEF TaskAttribute, TaskOf
  <2>2. CASE ~Has(val, "task")
    BY <1>2, <2>2 DEF defaultTaskAttribute, TaskOf
  <2> QED
    BY <2>1, <2>2
<1> QED
  BY <1>1, <1>2, <1>3, <1>4, <1>5, TypeKnown DEF Typed, plan

\* So has one of --json-plan.
LEMMA JsonTyped ==
  ASSUME NEW val, Entry(val), JsonFits(val, "SAMPLE_PHASE")
  PROVE  /\ Typed(ParsedJsonPlan(val))
         /\ ParsedJsonPlan(val).id = Get(val, "id")
<1> DEFINE plan == ParsedJsonPlan(val)
<1>1. /\ Is("object", val) /\ Has(val, "type") /\ Object(val)
      /\ OfType("type", val[2]["type"])
  BY DEF JsonFits, Conforms, Entry
<1>2. Conforms(val, <<>>, Flags) /\ Conforms(val, <<>>, Perf)
  BY AskedAll DEF JsonFits, Conforms
<1>3. /\ plan.type = Get(val, "type") /\ plan.id = Get(val, "id")
      /\ plan.perf.period = GetOr(val, "period", 0)
      /\ plan.task.phase = Phase(val)
      /\ plan.task.rt = GetOr(val, "rt", FALSE)
  BY DEF ParsedJsonPlan, Plan, TaskAttribute, PerfAttribute
<1> HIDE DEF plan
<1> QED
  BY <1>1, <1>2, <1>3, TypeKnown, FlagsTyped, PerfTyped DEF Typed, plan

\* Plan::valid asks for what README.md does.
LEMMA ValidJudged ==
  ASSUME NEW plan, Typed(plan)
  PROVE  Valid(plan) <=> /\ plan.id # ""
                         /\ Complete(plan)
<1>1. /\ plan.task.phase[1] \in Nat /\ plan.task.phase[2] \in Nat
      /\ plan.perf.period \in Nat /\ plan.type \in PlanType
  BY DEF Typed
<1>2. plan.type # "DAEMON" <=> plan.type \in {"COUNT", "SAMPLE_ALL", "SAMPLE_PHASE"}
  BY <1>1 DEF PlanType
<1>3. plan.perf.period > 0 <=> plan.perf.period \in Nat \ {0}
  BY <1>1
<1>4. plan.task.phase[1] < plan.task.phase[2]
        <=> plan.task.phase[2] > plan.task.phase[1]
  BY <1>1
<1> QED
  BY <1>2, <1>3, <1>4 DEF Valid, Complete, TypeConforms

-----------------------------------------------------------------------------
(* The maps and the chosen plans.                                          *)

\* The task of a plan is the one of the map that it gives; the tasks of the map
\* are those read, one of each name.
MapInv ==
  /\ \A val \in declared : /\ Get(val, "id") \in DOMAIN m_taskMap
                           /\ m_taskMap[Get(val, "id")] = Task(val)
  /\ \A id \in DOMAIN m_taskMap : \E val \in declared : Get(val, "id") = id
  /\ \A id \in DOMAIN m_planMap :
       Valid(m_planMap[id]) /\ TaskOf(given[id], m_planMap[id])

\* exist has the names of the chosen plans, which are all different and valid.
ChosenInv ==
  /\ m_plan \in Seq(Range(m_plan))
  /\ exist = {m_plan[i].id : i \in DOMAIN m_plan}
  /\ \A i, j \in DOMAIN m_plan : i # j => m_plan[i].id # m_plan[j].id
  /\ \A i \in DOMAIN m_plan : Valid(m_plan[i])
  /\ pc = "profile" => m_plan # <<>>

\* The program ends where it reads what README.md does not want, and otherwise
\* only in the cases of odd.
JudgeInv ==
  /\ wanted \in BOOLEAN /\ odd \in {"none", "task", "ignored", "braces"}
  /\ JudgedButForThree

IInv == TypeOK /\ MapInv /\ ChosenInv /\ JudgeInv

\* Nothing has been read at first.
LEMMA InitInv == Init => IInv
<1> SUFFICES ASSUME Init PROVE IInv
  OBVIOUS
<1> USE DEF Init
<1>1. TypeOK
  BY DEF TypeOK
<1>2. MapInv
  BY DEF MapInv
<1>3. ChosenInv
  BY DEF ChosenInv, Range
<1>4. JudgeInv
  BY DEF JudgeInv, JudgedButForThree, JudgedAsDocumented
<1> QED
  BY <1>1, <1>2, <1>3, <1>4 DEF IInv

\* What neither is odd nor judged wrongly keeps JudgeInv.
LEMMA JudgeStep ==
  ASSUME wanted' \in BOOLEAN, odd' = "none", pc' = "exit" <=> ~wanted' PROVE JudgeInv'
  BY DEF JudgeInv, JudgedButForThree, JudgedAsDocumented

\* A chosen plan has a new name, or it is refused.
LEMMA TakeStep ==
  ASSUME ChosenInv, NEW plan, Valid(plan), Take(plan), pc # "profile"
  PROVE  /\ ChosenInv'
         /\ pc' = "exit" <=> (pc = "exit" \/ plan.id \in exist)
         /\ pc' = pc \/ pc' = "exit"
<1>1. CASE plan.id \in exist
  BY <1>1 DEF Take, Fail, chosen, ChosenInv
<1>2. CASE plan.id \notin exist
  <2> DEFINE n == Len(m_plan)
  <2>1. /\ m_plan' = Append(m_plan, plan) /\ exist' = exist \cup {plan.id}
        /\ pc' = pc
    BY <1>2 DEF Take
  <2>2. n \in Nat /\ DOMAIN m_plan = 1..n
    BY LenProperties DEF ChosenInv
  <2>3. /\ m_plan' \in Seq(Range(m_plan) \cup {plan})
        /\ DOMAIN m_plan' = 1..(n + 1) /\ m_plan'[n + 1] = plan
        /\ \A i \in 1..n : m_plan'[i] = m_plan[i]
    <3>1. m_plan \in Seq(Range(m_plan) \cup {plan})
      BY SeqMonotonic DEF ChosenInv
    <3> QED
      BY <2>1, <2>2, <3>1, AppendProperties
  <2> HIDE DEF n
  <2>4. Range(m_plan) \cup {plan} = Range(m_plan')
    BY <2>2, <2>3 DEF Range
  <2>5. exist' = {m_plan'[i].id : i \in DOMAIN m_plan'}
    BY <2>1, <2>2, <2>3 DEF ChosenInv
  <2>6. \A i \in 1..n : m_plan[i].id # plan.id
    BY <1>2, <2>2 DEF ChosenInv
  <2>7. \A i, j \in DOMAIN m_plan' : i # j => m_plan'[i].id # m_plan'[j].id
    BY <2>2, <2>3, <2>6 DEF ChosenInv
  <2>8. \A i \in DOMAIN m_plan' : Valid(m_plan'[i])
    BY <2>2, <2>3 DEF ChosenInv
  <2> QED
    BY <1>2, <2>1, <2>3, <2>4, <2>5, <2>7, <2>8 DEF ChosenInv
<1> QED
  BY <1>1, <1>2

\* A task is added if it is as described and new.
LEMMA AddTaskStep ==
  ASSUME IInv, NEW val \in TaskVals, AddTask(val) PROVE IInv'
<1> USE DEF maps, chosen
<1>0. /\ TypeOK /\ MapInv /\ ChosenInv /\ pc = "Task" /\ error = "PARSE_OK"
      /\ UNCHANGED <<m_planMap, chosen, given>> /\ odd' = "none"
      /\ TaskError(val) = "PARSE_OK" <=> TaskConforms(val)
  BY TaskJudged DEF AddTask, IInv, TypeOK
<1> DEFINE ok == /\ TaskError(val) = "PARSE_OK"
                 /\ Get(val, "id") \notin DOMAIN m_taskMap
<1>1. wanted' \in BOOLEAN /\ (wanted' <=> ok)
  <2>1. TaskWelcome(val) \in BOOLEAN
    BY DEF TaskWelcome
  <2>2. wanted' = TaskWelcome(val)
    BY DEF AddTask
  <2> QED
    BY <1>0, <2>1, <2>2 DEF TaskWelcome
<1>2. CASE ~ok
  <2>1. /\ pc' = "exit" /\ error' # "PARSE_OK"
        /\ UNCHANGED <<m_taskMap, declared>>
    BY <1>2 DEF AddTask, Fail
  <2>2. TypeOK' /\ MapInv' /\ ChosenInv'
    BY <1>0, <2>1 DEF TypeOK, MapInv, TaskOf, ChosenInv
  <2> QED
    BY <1>0, <1>1, <1>2, <2>1, <2>2, JudgeStep DEF IInv
<1>3. CASE ok
  <2> DEFINE id == Get(val, "id")
  <2>1. /\ m_taskMap' = Emplaced(m_taskMap, id, Task(val))
        /\ declared' = declared \cup {val} /\ pc' = pc /\ error' = error
    BY <1>3 DEF AddTask
  <2>2. /\ DOMAIN m_taskMap' = DOMAIN m_taskMap \cup {id}
        /\ m_taskMap'[id] = Task(val) /\ id \notin DOMAIN m_taskMap
        /\ \A k \in DOMAIN m_taskMap : m_taskMap'[k] = m_taskMap[k]
    <3>1. id \notin DOMAIN m_taskMap
      BY <1>3
    <3>2. m_taskMap' = [k \in DOMAIN m_taskMap \cup {id} |->
                     IF k = id THEN Task(val) ELSE m_taskMap[k]]
      BY <2>1 DEF Emplaced
    <3> HIDE DEF id
    <3>3. DOMAIN m_taskMap' = DOMAIN m_taskMap \cup {id}
      BY <3>2
    <3>4. m_taskMap'[id] = Task(val)
      BY <3>2
    <3>5. \A k \in DOMAIN m_taskMap : m_taskMap'[k] = m_taskMap[k]
      BY <3>1, <3>2
    <3> QED
      BY <3>1, <3>3, <3>4, <3>5
  <2>3. Task(val).id = id
    BY DEF Task
  <2>4. TypeOK'
    BY <1>0, <2>1, <2>2, <2>3 DEF TypeOK
  <2>5. MapInv'
    <3>1. ASSUME NEW k \in DOMAIN m_planMap
          PROVE  TaskOf(given[k], m_planMap[k]) => TaskOf(given[k], m_planMap[k])'
      BY <1>0, <2>2 DEF TaskOf
    <3> QED
      BY <1>0, <2>1, <2>2, <3>1 DEF MapInv
  <2>6. ChosenInv'
    BY <1>0, <2>1 DEF ChosenInv
  <2> QED
    BY <1>0, <1>1, <1>3, <2>1, <2>4, <2>5, <2>6, JudgeStep DEF IInv
<1> QED
  BY <1>2, <1>3

\* A plan is added if it is as described, valid and new, though it may lack its
\* task, and nothing is ignored.
LEMMA AddPlanStep ==
  ASSUME IInv, NEW val \in PlanVals, AddPlan(val) PROVE IInv'
<1> USE DEF maps, chosen
<1> DEFINE plan == ParsedPlan(val)
           id == Get(val, "id")
           ok == /\ PlanError(val) = "PARSE_OK" /\ Valid(plan)
                 /\ id \notin DOMAIN m_planMap
<1>0. /\ TypeOK /\ MapInv /\ ChosenInv /\ pc = "Plan" /\ error = "PARSE_OK"
      /\ UNCHANGED <<m_taskMap, chosen, declared>>
  BY DEF AddPlan, IInv, TypeOK
<1>a. /\ PlanError(val) = "PARSE_OK" <=> PlanFits(val, "SAMPLE_PHASE")
      /\ PlanFits(val, "SAMPLE_PHASE") =>
           /\ Typed(plan) /\ plan.id = id /\ TaskOf(val, plan)
           /\ Valid(plan) <=> id # "" /\ Complete(plan)
  BY PlanJudged, PlanTyped, ValidJudged, JsonAssumption
<1>1. /\ wanted' \in BOOLEAN /\ odd' \in {"none", "task", "ignored"}
      /\ odd' = "none" => (wanted' <=> ok)
      /\ odd' = "task" => ok /\ ~wanted'
      /\ odd' = "ignored" => ~ok /\ wanted'
  <2> DEFINE fits == PlanFits(val, "SAMPLE_PHASE")
             good == NewPlan(val) /\ Complete(plan)
             welcome == PlanWelcome(val)
  <2>1. ok <=> fits /\ good
    BY <1>a DEF NewPlan
  <2>2. /\ welcome => Has(val, "task") /\ good
        /\ fits /\ Has(val, "task") /\ good => welcome
        /\ welcome \in BOOLEAN
    BY FitsAnyType DEF PlanWelcome, PlanConforms
  <2>3. wanted' = welcome /\ odd' = PlanOdd(val)
    BY DEF AddPlan
  <2>4. PlanOdd(val) = IF welcome /\ ~fits THEN "ignored"
                       ELSE IF fits /\ ~Has(val, "task") /\ good THEN "task"
                       ELSE "none"
    BY DEF PlanOdd
  <2> HIDE DEF fits, good, welcome, ok
  <2> QED
    BY <2>1, <2>2, <2>3, <2>4
<1> HIDE DEF plan
<1>2. CASE ~ok
  <2>1. /\ pc' = "exit" /\ error' # "PARSE_OK" /\ UNCHANGED <<m_planMap, given>>
    BY <1>2 DEF AddPlan, Fail, plan
  <2>2. TypeOK' /\ MapInv' /\ ChosenInv'
    BY <1>0, <2>1 DEF TypeOK, MapInv, TaskOf, ChosenInv
  <2> QED
    BY <1>1, <1>2, <2>1, <2>2 DEF IInv, JudgeInv, JudgedButForThree, JudgedAsDocumented
<1>3. CASE ok
  <2>1. /\ m_planMap' = Emplaced(m_planMap, id, plan) /\ pc' = pc /\ error' = error
        /\ given' = Emplaced(given, id, val)
    BY <1>3 DEF AddPlan, plan
  <2>2. /\ DOMAIN m_planMap' = DOMAIN m_planMap \cup {id}
        /\ m_planMap'[id] = plan /\ id \notin DOMAIN m_planMap
        /\ \A k \in DOMAIN m_planMap : m_planMap'[k] = m_planMap[k]
        /\ DOMAIN given' = DOMAIN m_planMap' /\ given'[id] = val
        /\ \A k \in DOMAIN m_planMap : given'[k] = given[k]
    <3>1. id \notin DOMAIN m_planMap
      BY <1>3
    <3>2. m_planMap' = [k \in DOMAIN m_planMap \cup {id} |->
                     IF k = id THEN plan ELSE m_planMap[k]]
      BY <2>1 DEF Emplaced
    <3>6. given' = [k \in DOMAIN m_planMap \cup {id} |-> IF k = id THEN val ELSE given[k]]
      BY <1>0, <2>1 DEF Emplaced, TypeOK
    <3> HIDE DEF id
    <3>3. DOMAIN m_planMap' = DOMAIN m_planMap \cup {id}
      BY <3>2
    <3>4. m_planMap'[id] = plan
      BY <3>2
    <3>5. \A k \in DOMAIN m_planMap : m_planMap'[k] = m_planMap[k]
      BY <3>1, <3>2
    <3>7. DOMAIN given' = DOMAIN m_planMap' /\ given'[id] = val
      BY <3>3, <3>6
    <3>8. \A k \in DOMAIN m_planMap : given'[k] = given[k]
      BY <3>1, <3>6
    <3> QED
      BY <3>1, <3>3, <3>4, <3>5, <3>7, <3>8
  <2>3. TypeOK'
    BY <1>0, <1>a, <1>3, <2>1, <2>2 DEF TypeOK, Typed
  <2>4. MapInv'
    <3>1. ASSUME NEW k \in DOMAIN m_planMap'
          PROVE  /\ Valid(m_planMap'[k])
                 /\ TaskOf(given[k], m_planMap[k])'
      <4>1. CASE k = id
        BY <1>0, <1>a, <1>3, <2>2, <4>1 DEF TaskOf
      <4>2. CASE k \in DOMAIN m_planMap
        BY <1>0, <2>2, <4>2 DEF MapInv, TaskOf
      <4> QED
        BY <2>2, <4>1, <4>2
    <3> QED
      BY <1>0, <3>1 DEF MapInv, Valid
  <2>5. ChosenInv'
    BY <1>0, <2>1 DEF ChosenInv
  <2> QED
    BY <1>0, <1>1, <1>3, <2>1, <2>3, <2>4, <2>5
       DEF IInv, JudgeInv, JudgedButForThree, JudgedAsDocumented
<1> QED
  BY <1>2, <1>3

\* A plan of --plan is chosen if there is one of that name, and it is new.
LEMMA PickPlanStep ==
  ASSUME IInv, NEW id, PickPlan(id) PROVE IInv'
<1> USE DEF maps
<1>0. /\ TypeOK /\ MapInv /\ ChosenInv /\ pc = "plan" /\ error = "PARSE_OK"
      /\ UNCHANGED <<m_taskMap, m_planMap, declared, given>> /\ odd' = "none"
  BY DEF PickPlan, read, IInv, TypeOK
<1>a. wanted' \in BOOLEAN /\ (wanted' <=> id \in DOMAIN m_planMap \ exist)
  <2> DEFINE new == id \in DOMAIN m_planMap \ exist
  <2>1. wanted' = new
    BY DEF PickPlan
  <2>2. new \in BOOLEAN
    OBVIOUS
  <2>3. wanted' \in BOOLEAN /\ (wanted' <=> new)
    <3> HIDE DEF new
    <3> QED
      BY <2>1, <2>2
  <2> QED
    BY <2>3
<1>1. CASE id \in DOMAIN m_planMap
  <2>1. /\ Take(m_planMap[id]) /\ Valid(m_planMap[id])
        /\ m_planMap[id].id = id
    BY <1>0, <1>1 DEF PickPlan, MapInv, TypeOK
  <2>2. /\ ChosenInv' /\ (pc' = "exit" <=> id \in exist)
        /\ pc' = pc \/ pc' = "exit"
    BY <1>0, <2>1, TakeStep
  <2>3. IF pc' = "exit" THEN error' # "PARSE_OK" ELSE error' = error
    BY <1>0, <2>1 DEF Take, Fail
  <2>4. TypeOK' /\ MapInv'
    BY <1>0, <2>2, <2>3 DEF TypeOK, MapInv, TaskOf
  <2> QED
    BY <1>0, <1>a, <1>1, <2>2, <2>4, JudgeStep DEF IInv
<1>2. CASE id \notin DOMAIN m_planMap
  <2>1. pc' = "exit" /\ error' # "PARSE_OK" /\ UNCHANGED chosen
    BY <1>2 DEF PickPlan, Fail
  <2>2. TypeOK' /\ MapInv' /\ ChosenInv'
    BY <1>0, <2>1 DEF TypeOK, MapInv, TaskOf, ChosenInv, chosen
  <2> QED
    BY <1>0, <1>a, <1>2, <2>1, <2>2, JudgeStep DEF IInv
<1> QED
  BY <1>1, <1>2

\* A plan of --json-plan is chosen if it is as described, valid and new, and
\* nothing is ignored.
LEMMA WritePlanStep ==
  ASSUME IInv, NEW val \in JsonVals, WritePlan(val) PROVE IInv'
<1> USE DEF maps
<1> DEFINE plan == ParsedJsonPlan(val)
           ok == JsonPlanError(val) = "PARSE_OK" /\ Valid(plan)
<1>0. /\ TypeOK /\ MapInv /\ ChosenInv /\ pc = "json" /\ error = "PARSE_OK"
      /\ UNCHANGED <<m_taskMap, m_planMap, declared, given>>
  BY DEF WritePlan, read, IInv, TypeOK
<1>a. /\ JsonPlanError(val) = "PARSE_OK" <=> JsonFits(val, "SAMPLE_PHASE")
      /\ JsonFits(val, "SAMPLE_PHASE") =>
           /\ Typed(plan) /\ plan.id = Get(val, "id")
           /\ Valid(plan) <=> plan.id # "" /\ Complete(plan)
  BY JsonJudged, JsonTyped, ValidJudged, JsonAssumption
<1>1. /\ wanted' \in BOOLEAN /\ odd' \in {"none", "ignored"}
      /\ odd' = "none" => (wanted' <=> ok /\ plan.id \notin exist)
      /\ odd' = "ignored" => ~ok /\ wanted'
  <2> DEFINE fits == JsonFits(val, "SAMPLE_PHASE")
             good == Get(val, "id") \notin exist \cup {""} /\ Complete(plan)
             welcome == JsonWelcome(val)
  <2>1. ok /\ plan.id \notin exist <=> fits /\ good
    BY <1>a
  <2>2. /\ welcome => good
        /\ fits /\ good => welcome
        /\ welcome \in BOOLEAN
    BY FitsAnyType DEF JsonWelcome, JsonConforms
  <2>3. wanted' = welcome /\ odd' = JsonOdd(val)
    BY DEF WritePlan
  <2>4. JsonOdd(val) = IF welcome /\ ~fits THEN "ignored" ELSE "none"
    BY DEF JsonOdd
  <2>5. ok => fits
    BY <1>a
  <2> HIDE DEF fits, good, welcome, ok, plan
  <2> QED
    BY <2>1, <2>2, <2>3, <2>4, <2>5
<1> HIDE DEF plan
<1>2. CASE ok
  <2>1. Take(plan) /\ Valid(plan)
    BY <1>2 DEF WritePlan, plan
  <2>2. /\ ChosenInv' /\ (pc' = "exit" <=> plan.id \in exist)
        /\ pc' = pc \/ pc' = "exit"
    BY <1>0, <2>1, TakeStep
  <2>3. IF pc' = "exit" THEN error' # "PARSE_OK" ELSE error' = error
    BY <1>0, <2>1 DEF Take, Fail
  <2>4. TypeOK' /\ MapInv'
    BY <1>0, <2>2, <2>3 DEF TypeOK, MapInv, TaskOf
  <2> QED
    BY <1>0, <1>1, <1>2, <2>2, <2>4 DEF IInv, JudgeInv, JudgedButForThree, JudgedAsDocumented
<1>3. CASE ~ok
  <2>1. pc' = "exit" /\ error' # "PARSE_OK" /\ UNCHANGED chosen
    BY <1>3 DEF WritePlan, Fail, plan
  <2>2. TypeOK' /\ MapInv' /\ ChosenInv'
    BY <1>0, <2>1 DEF TypeOK, MapInv, TaskOf, ChosenInv, chosen
  <2> QED
    BY <1>1, <1>3, <2>1, <2>2 DEF IInv, JudgeInv, JudgedButForThree, JudgedAsDocumented
<1> QED
  BY <1>2, <1>3

\* A plan in braces after --plan is refused, though it may be welcome.
LEMMA PickBracesStep ==
  ASSUME IInv, NEW val, PickBraces(val) PROVE IInv'
<1> USE DEF maps, chosen
<1>1. /\ TypeOK /\ MapInv /\ ChosenInv
      /\ UNCHANGED <<m_taskMap, m_planMap, m_plan, exist, declared, given>>
      /\ pc' = "exit" /\ error' # "PARSE_OK"
  BY DEF PickBraces, read, Fail, IInv
<1>2. TypeOK' /\ MapInv' /\ ChosenInv'
  BY <1>1 DEF TypeOK, MapInv, TaskOf, ChosenInv
<1>3. JudgeInv'
  <2> DEFINE welcome == JsonWelcome(val)
  <2>1. welcome \in BOOLEAN
    BY DEF JsonWelcome
  <2>2. wanted' = welcome /\ odd' = IF welcome THEN "braces" ELSE "none"
    BY DEF PickBraces
  <2> HIDE DEF welcome
  <2> QED
    BY <1>1, <2>1, <2>2 DEF JudgeInv, JudgedButForThree, JudgedAsDocumented
<1> QED
  BY <1>2, <1>3 DEF IInv

\* The other steps keep the maps and the plans.
LEMMA OtherStep ==
  ASSUME IInv, UNCHANGED <<m_taskMap, m_planMap, m_plan, exist, declared, given>>,
         pc' \in {"config", "Task", "Plan", "plan", "json", "profile", "exit"},
         pc' = "exit" <=> error' # "PARSE_OK",
         pc' = "profile" => m_plan # <<>>,
         JudgeInv'
  PROVE  IInv'
  BY DEF IInv, TypeOK, MapInv, TaskOf, ChosenInv

\* Every step keeps the invariant.
LEMMA StepInv == IInv /\ [Next]_vars => IInv'
<1> SUFFICES ASSUME IInv, [Next]_vars PROVE IInv'
  OBVIOUS
<1> USE DEF maps, chosen, read
<1>0. /\ JudgeInv
      /\ pc = "exit" <=> error # "PARSE_OK"
      /\ pc \in {"config", "Task", "Plan", "plan", "json", "profile", "exit"}
      /\ pc = "profile" => m_plan # <<>>
  BY DEF IInv, TypeOK, ChosenInv
<1>1. CASE ReadFile
  <2>1. /\ pc = "config" /\ pc' \in {"exit", "Task"} /\ wanted' = (pc' # "exit")
        /\ odd' = "none"
        /\ UNCHANGED <<m_taskMap, m_planMap, m_plan, exist, declared, given>>
        /\ IF pc' = "exit" THEN error' \in FileErrors ELSE error' = error
    BY <1>1 DEF ReadFile, Fail
  <2>2. pc' = "exit" <=> error' # "PARSE_OK"
    BY <1>0, <2>1 DEF FileErrors
  <2>3. JudgeInv'
    BY <2>1, JudgeStep
  <2> QED
    BY <2>1, <2>2, <2>3, OtherStep
<1>2. CASE EndArray
  <2>1. /\ pc \in {"Task", "Plan"} /\ wanted' = (rest[pc] # "wrong")
        /\ odd' = "none"
        /\ UNCHANGED <<m_taskMap, m_planMap, m_plan, exist, declared, given>>
        /\ IF rest[pc] = "wrong" THEN pc' = "exit" /\ error' # "PARSE_OK"
           ELSE pc' \in {"Plan", "config"} /\ error' = error
    BY <1>2 DEF EndArray, Fail, Following
  <2>2. pc' = "exit" <=> error' # "PARSE_OK"
    BY <1>0, <2>1
  <2>3. JudgeInv'
    BY <2>1, JudgeStep
  <2>4. pc' \in {"Plan", "config", "exit"}
    BY <2>1
  <2> QED
    BY <2>1, <2>2, <2>3, <2>4, OtherStep
<1>3. CASE Choose
  <2>1. /\ pc' \in {"plan", "json", "profile"} /\ pc # "exit"
        /\ pc' = "profile" => m_plan # <<>>
        /\ UNCHANGED <<m_taskMap, m_planMap, m_plan, exist, declared, given>>
        /\ error' = error /\ wanted' = wanted /\ odd' = odd
    BY <1>3 DEF Choose, history, judged
  <2>2. JudgeInv'
    BY <1>0, <2>1 DEF JudgeInv, JudgedButForThree, JudgedAsDocumented
  <2> QED
    BY <1>0, <2>1, <2>2, OtherStep
<1>4. CASE NoPlanGiven
  <2>1. /\ pc' = "exit" /\ error' # "PARSE_OK" /\ wanted' = FALSE
        /\ odd' = "none"
        /\ UNCHANGED <<m_taskMap, m_planMap, m_plan, exist, declared, given>>
    BY <1>4 DEF NoPlanGiven, Fail
  <2>2. JudgeInv'
    BY <2>1, JudgeStep
  <2> QED
    BY <2>1, <2>2, OtherStep
<1>5. CASE Ended \/ UNCHANGED vars
  <2>1. /\ UNCHANGED <<m_taskMap, m_planMap, m_plan, exist, declared, given>>
        /\ UNCHANGED <<pc, error, wanted, odd>>
    BY <1>5 DEF Ended, vars, history, judged
  <2>2. JudgeInv'
    BY <1>0, <2>1 DEF JudgeInv, JudgedButForThree, JudgedAsDocumented
  <2> QED
    BY <1>0, <2>1, <2>2, OtherStep
<1>6. ASSUME NEW val \in TaskVals, AddTask(val) PROVE IInv'
  BY <1>6, AddTaskStep
<1>7. ASSUME NEW val \in PlanVals, AddPlan(val) PROVE IInv'
  BY <1>7, AddPlanStep
<1>8. ASSUME NEW val \in JsonVals, WritePlan(val) PROVE IInv'
  BY <1>8, WritePlanStep
<1>9. ASSUME NEW id \in PlanIds, PickPlan(id) PROVE IInv'
  BY <1>9, PickPlanStep
<1>10. ASSUME NEW val \in JsonVals, PickBraces(val) PROVE IInv'
  BY <1>10, PickBracesStep
<1> QED
  BY <1>1, <1>2, <1>3, <1>4, <1>5, <1>6, <1>7, <1>8, <1>9, <1>10 DEF Next

\* So the invariant always holds.
LEMMA ParserInvariant == Spec => []IInv
  BY InitInv, StepInv, PTL DEF Spec

\* The history of the tasks read has the one task a plan gives, and no other of
\* its name.
LEMMA Resolved == IInv => TaskResolved
<1> SUFFICES ASSUME IInv, NEW id \in DOMAIN m_planMap
             PROVE  LET task == m_planMap[id].task.task
                        val == given[id]
                    IN IF Has(val, "task")
                         THEN {Task(v) : v \in {u \in declared :
                                 Get(u, "id") = Get(val[2].task, "id")}} = {task}
                         ELSE task = defaultTask
  BY DEF TaskResolved
<1>1. TaskOf(given[id], m_planMap[id])
  BY DEF IInv, MapInv
<1>2. CASE ~Has(given[id], "task")
  BY <1>1, <1>2 DEF TaskOf
<1>3. CASE Has(given[id], "task")
  <2> DEFINE t == Get(given[id][2].task, "id")
  <2>1. t \in DOMAIN m_taskMap /\ m_planMap[id].task.task = m_taskMap[t]
    BY <1>1, <1>3 DEF TaskOf
  <2> HIDE DEF t
  <2>2. PICK v \in declared : Get(v, "id") = t
    BY <2>1 DEF IInv, MapInv
  <2>3. \A w \in declared : Get(w, "id") = t => Task(w) = m_taskMap[t]
    BY DEF IInv, MapInv
  <2>4. {Task(w) : w \in {u \in declared : Get(u, "id") = t}} = {m_planMap[id].task.task}
    BY <2>1, <2>2, <2>3
  <2> QED
    BY <1>3, <2>4 DEF t
<1> QED
  BY <1>2, <1>3

-----------------------------------------------------------------------------

\* profile.cpp:218-255 and ConfigParser.cpp: what the parser hands to the
\* profiler is at least one plan, all valid and of different names, each with the
\* one task of the name it gives; whatever the files and options.
THEOREM PlansAlwaysReady == Spec => []PlansReady
<1>1. IInv => PlansReady
  BY Resolved DEF IInv, ChosenInv, PlansReady
<1> QED
  BY <1>1, ParserInvariant, PTL

\* ConfigParser.cpp, every parse function, and Plan::valid: the program ends at
\* the first entry that is not as README.md describes it, and at no other, but
\* takes a plan without a task, and refuses a malformed member that is to be
\* ignored and a plan in braces after --plan.
THEOREM EveryEntryJudged == Spec => []JudgedButForThree
<1>1. IInv => JudgedButForThree
  BY DEF IInv, JudgeInv
<1> QED
  BY <1>1, ParserInvariant, PTL

-----------------------------------------------------------------------------
(* boost::split.                                                           *)

\* Lists of words, and a word with a text before its first one.
WordLists(C) == Seq(Seq(C)) \ {<<>>}
Onto(a, w) == [w EXCEPT ![1] = a \o @]
Also(w) == <<<<>>>> \o w

LEMMA OntoIs ==
  ASSUME NEW C, NEW a \in Seq(C), NEW w \in WordLists(C)
  PROVE  /\ Onto(a, w) \in WordLists(C) /\ Len(Onto(a, w)) = Len(w)
         /\ Onto(a, w)[1] = a \o w[1]
         /\ \A i \in 2..Len(w) : Onto(a, w)[i] = w[i]
<1>1. Len(w) \in Nat \ {0} /\ w \in Seq(Seq(C)) /\ w[1] \in Seq(C)
  BY EmptySeq, ElementOfSeq DEF WordLists
<1>2. a \o w[1] \in Seq(C)
  BY <1>1, ConcatProperties
<1>3. /\ Onto(a, w) \in Seq(Seq(C)) /\ Len(Onto(a, w)) = Len(w)
      /\ \A i \in 1..Len(w) : Onto(a, w)[i] = IF i = 1 THEN a \o w[1] ELSE w[i]
  BY <1>1, <1>2, ExceptSeq DEF Onto
<1>4. Onto(a, w) # <<>>
  BY <1>1, <1>3, EmptySeq
<1>5. \A i \in 2..Len(w) : Onto(a, w)[i] = w[i]
  BY <1>1, <1>3
<1>6. Onto(a, w)[1] = a \o w[1]
  <2>1. 1 \in 1..Len(w)
    BY <1>1
  <2> QED
    BY <1>3, <2>1
<1> QED
  BY <1>3, <1>4, <1>5, <1>6 DEF WordLists

LEMMA AlsoIs ==
  ASSUME NEW C, NEW w \in WordLists(C)
  PROVE  /\ Also(w) \in WordLists(C) /\ Len(Also(w)) = Len(w) + 1
         /\ Also(w)[1] = <<>> /\ \A i \in 1..Len(w) : Also(w)[i + 1] = w[i]
<1>1. Len(w) \in Nat \ {0} /\ w \in Seq(Seq(C))
  BY EmptySeq DEF WordLists
<1>2. <<<<>>>> \in Seq(Seq(C)) /\ Len(<<<<>>>>) = 1
  BY EmptySeq
<1>3. /\ Also(w) \in Seq(Seq(C)) /\ Len(Also(w)) = 1 + Len(w)
      /\ \A i \in 1..(1 + Len(w)) : Also(w)[i] = IF i <= 1 THEN <<<<>>>>[i] ELSE w[i - 1]
  BY <1>1, <1>2, ConcatProperties DEF Also
<1>4. Also(w) # <<>>
  BY <1>1, <1>3, EmptySeq
<1> QED
  BY <1>1, <1>3, <1>4 DEF WordLists

LEMMA OneEmptyWord ==
  ASSUME NEW C
  PROVE  <<<<>>>> \in WordLists(C) /\ Len(<<<<>>>>) = 1 /\ <<<<>>>>[1] = <<>>
BY EmptySeq DEF WordLists

\* What Split makes of the characters from the i-th on.
SplitAt(from, s, sep, i) ==
  IF i > Len(s) THEN <<<<>>>>
  ELSE IF s[i] # sep THEN Onto(<<s[i]>>, from[i + 1])
  ELSE IF i < Len(s) /\ s[i + 1] = sep THEN from[i + 1]
  ELSE Also(from[i + 1])
Splits(from, s, sep) == from = [i \in 1..(Len(s) + 1) |-> SplitAt(from, s, sep, i)]

\* There is such a function, and Split takes one.
LEMMA SplitExists ==
  ASSUME NEW C, NEW s \in Seq(C), NEW sep
  PROVE  \E from : Splits(from, s, sep)
<1> DEFINE n == Len(s)
           V == WordLists(C)
           g == [i \in 1..n |-> i + 1]
           F == [i \in 1..n |-> [x \in V |->
                   IF s[i] # sep THEN Onto(<<s[i]>>, x)
                   ELSE IF i < Len(s) /\ s[i + 1] = sep THEN x
                   ELSE Also(x)]]
<1>1. n \in Nat /\ \A i \in 1..n : s[i] \in C /\ <<s[i]>> \in Seq(C)
  BY LenProperties, ElementOfSeq
<1>2. Ahead(g, n)
  BY <1>1 DEF Ahead
<1>3. Closed(F, n, V)
  <2>1. \A i \in 1..n : \A x \in V : Onto(<<s[i]>>, x) \in V /\ Also(x) \in V
    BY <1>1, OntoIs, AlsoIs
  <2> HIDE DEF V
  <2> QED
    BY <2>1 DEF Closed
<1>4. <<<<>>>> \in V
  BY OneEmptyWord
<1> HIDE DEF V, F, g
<1>5. PICK f : Recursion(f, n, V, <<<<>>>>, g, F)
  <2>1. n \in Nat
    BY <1>1
  <2> HIDE DEF n
  <2> QED
    BY <2>1, <1>2, <1>3, <1>4, RecursionDown
<1>6. \A i \in 1..(n + 1) : f[i] = SplitAt(f, s, sep, i)
  <2> SUFFICES ASSUME NEW i \in 1..(n + 1) PROVE f[i] = SplitAt(f, s, sep, i)
    OBVIOUS
  <2>1. CASE i = n + 1
    BY <1>1, <1>5, <2>1 DEF SplitAt, Recursion
  <2>2. CASE i # n + 1
    <3>1. i \in 1..n /\ i + 1 \in 1..(n + 1) /\ ~(i > Len(s))
      BY <1>1, <2>2
    <3>2. f[i + 1] \in V /\ f[i] = F[i][f[i + 1]]
      BY <1>5, <3>1 DEF Recursion, g
    <3> QED
      BY <3>1, <3>2 DEF SplitAt, F
  <2> QED
    BY <2>1, <2>2
<1>7. f = [i \in 1..(n + 1) |-> f[i]]
  BY <1>5 DEF Recursion
<1>8. Splits(f, s, sep)
  BY <1>6, <1>7 DEF Splits
<1> QED
  BY <1>8

LEMMA SplitIs ==
  ASSUME NEW C, NEW s \in Seq(C), NEW sep
  PROVE  \E from : /\ Splits(from, s, sep) /\ Split(s, sep) = from[1]
                   /\ \A i \in 1..(Len(s) + 1) : from[i] \in WordLists(C)
<1> DEFINE from == CHOOSE f : Splits(f, s, sep)
           n == Len(s)
<1>1. Splits(from, s, sep)
  BY SplitExists
<1>2. Split(s, sep) = from[1]
  BY DEF Split, Splits, SplitAt, Onto, Also
<1> HIDE DEF from
<1>3. n \in Nat /\ \A i \in 1..n : s[i] \in C /\ <<s[i]>> \in Seq(C)
  BY LenProperties, ElementOfSeq
<1> DEFINE T == {i \in 1..(n + 1) : from[i] \in WordLists(C)}
<1>4. ASSUME NEW i \in 1..(n + 1), \A j \in 1..(n + 1) : j > i => j \in T
      PROVE  i \in T
  <2>1. from[i] = SplitAt(from, s, sep, i)
    BY <1>1 DEF Splits
  <2>2. CASE i = n + 1
    BY <1>3, <2>1, <2>2, OneEmptyWord DEF SplitAt
  <2>3. CASE i # n + 1
    <3>1. i \in 1..n /\ i + 1 \in 1..(n + 1) /\ ~(i > Len(s))
      BY <1>3, <2>3
    <3>2. from[i + 1] \in WordLists(C)
      BY <1>4, <3>1
    <3>3. /\ Onto(<<s[i]>>, from[i + 1]) \in WordLists(C)
          /\ Also(from[i + 1]) \in WordLists(C)
      BY <1>3, <3>1, <3>2, OntoIs, AlsoIs
    <3> QED
      BY <2>1, <3>1, <3>2, <3>3 DEF SplitAt
  <2> QED
    BY <2>2, <2>3
<1>5. 1..(n + 1) \subseteq T
  <2> HIDE DEF T, n
  <2> QED
    BY <1>3, <1>4, Downward
<1> QED
  BY <1>1, <1>2, <1>5

\* A run of other characters, from b to e; and one behind the i-th character.
Run(s, sep, b, e) ==
  /\ b \in 1..Len(s) /\ e \in b..Len(s)
  /\ \A k \in b..e : s[k] # sep
  /\ e = Len(s) \/ s[e + 1] = sep
NextRun(s, sep, i, b, e) == b > i /\ s[b - 1] = sep /\ Run(s, sep, b, e)

\* The words of the characters from the i-th on: first what is left of the word
\* there, then one for each run further on, and an empty one for a separator at
\* the end.
FirstWord(s, sep, i, w) ==
  IF i <= Len(s) /\ s[i] # sep
  THEN \E e \in 1..Len(s) : Run(s, sep, i, e) /\ w[1] = SubSeq(s, i, e)
  ELSE w[1] = <<>>
OnlyRuns(s, sep, i, w) ==
  \A k \in 2..Len(w) :
    \/ w[k] = <<>> /\ i <= Len(s) /\ s[Len(s)] = sep
    \/ \E b, e \in 1..Len(s) : NextRun(s, sep, i, b, e) /\ w[k] = SubSeq(s, b, e)
AllRuns(s, sep, i, w) ==
  /\ \A b, e \in 1..Len(s) : NextRun(s, sep, i, b, e) =>
       \E k \in 2..Len(w) : w[k] = SubSeq(s, b, e)
  /\ i <= Len(s) /\ s[Len(s)] = sep => \E k \in 2..Len(w) : w[k] = <<>>
WordsFrom(s, sep, i, w) ==
  FirstWord(s, sep, i, w) /\ OnlyRuns(s, sep, i, w) /\ AllRuns(s, sep, i, w)

\* A character of a word.
LEMMA RunsInWord ==
  ASSUME NEW C, NEW s \in Seq(C), NEW sep, NEW i \in 1..Len(s), s[i] # sep,
         NEW u \in WordLists(C), WordsFrom(s, sep, i + 1, u)
  PROVE  WordsFrom(s, sep, i, Onto(<<s[i]>>, u))
<1> DEFINE w == Onto(<<s[i]>>, u)
           n == Len(s)
<1>1. n \in Nat /\ s[i] \in C /\ <<s[i]>> \in Seq(C) /\ Len(u) \in Nat \ {0}
  BY LenProperties, ElementOfSeq, EmptySeq DEF WordLists
<1>2. /\ Len(w) = Len(u) /\ w[1] = <<s[i]>> \o u[1]
      /\ \A k \in 2..Len(u) : w[k] = u[k]
  BY <1>1, OntoIs
<1> HIDE DEF w
<1>3. FirstWord(s, sep, i, w)
  <2>1. CASE i < n /\ s[i + 1] # sep
    <3>1. PICK e \in 1..n : Run(s, sep, i + 1, e) /\ u[1] = SubSeq(s, i + 1, e)
      BY <1>1, <2>1 DEF WordsFrom, FirstWord
    <3>2. Run(s, sep, i, e)
      BY <1>1, <3>1 DEF Run
    <3>3. e \in i..n
      BY <1>1, <3>1 DEF Run
    <3>4. SubSeq(s, i, e) = <<s[i]>> \o SubSeq(s, i + 1, e)
      BY <3>3, SubSeqRecursiveFirst
    <3> QED
      BY <1>2, <3>1, <3>2, <3>4 DEF FirstWord
  <2>2. CASE ~(i < n /\ s[i + 1] # sep)
    <3>1. u[1] = <<>>
      BY <1>1, <2>2 DEF WordsFrom, FirstWord
    <3>2. Run(s, sep, i, i)
      BY <1>1, <2>2 DEF Run
    <3>3. SubSeq(s, i, i) = <<s[i]>> \o SubSeq(s, i + 1, i) /\ SubSeq(s, i + 1, i) = <<>>
      BY <1>1, SubSeqRecursiveFirst, SubSeqEmpty
    <3> QED
      BY <1>2, <3>1, <3>2, <3>3 DEF FirstWord
  <2> QED
    BY <2>1, <2>2
<1>4. ASSUME NEW b \in 1..n, NEW e \in 1..n
      PROVE  NextRun(s, sep, i, b, e) <=> NextRun(s, sep, i + 1, b, e)
  BY <1>1 DEF NextRun
<1>5. OnlyRuns(s, sep, i, w)
  <2> SUFFICES ASSUME NEW k \in 2..Len(w)
               PROVE  \/ w[k] = <<>> /\ i <= Len(s) /\ s[Len(s)] = sep
                      \/ \E b, e \in 1..Len(s) : NextRun(s, sep, i, b, e) /\ w[k] = SubSeq(s, b, e)
    BY DEF OnlyRuns
  <2>1. w[k] = u[k] /\ k \in 2..Len(u)
    BY <1>2
  <2>2. \/ u[k] = <<>> /\ i + 1 <= Len(s) /\ s[Len(s)] = sep
        \/ \E b, e \in 1..Len(s) : NextRun(s, sep, i + 1, b, e) /\ u[k] = SubSeq(s, b, e)
    BY <2>1 DEF WordsFrom, OnlyRuns
  <2>3. CASE u[k] = <<>> /\ i + 1 <= Len(s) /\ s[Len(s)] = sep
    BY <1>1, <2>1, <2>3
  <2>4. CASE \E b, e \in 1..Len(s) :
               NextRun(s, sep, i + 1, b, e) /\ u[k] = SubSeq(s, b, e)
    BY <1>4, <2>1, <2>4
  <2> QED
    BY <2>2, <2>3, <2>4
<1>6. AllRuns(s, sep, i, w)
  <2>1. ASSUME NEW b \in 1..n, NEW e \in 1..n, NextRun(s, sep, i, b, e)
        PROVE  \E k \in 2..Len(w) : w[k] = SubSeq(s, b, e)
    <3>1. NextRun(s, sep, i + 1, b, e)
      BY <1>4, <2>1
    <3>2. PICK k \in 2..Len(u) : u[k] = SubSeq(s, b, e)
      BY <3>1 DEF WordsFrom, AllRuns
    <3> QED
      BY <1>2, <3>2
  <2>2. ASSUME s[n] = sep PROVE \E k \in 2..Len(w) : w[k] = <<>>
    <3>1. n # i
      BY <2>2
    <3>2. PICK k \in 2..Len(u) : u[k] = <<>>
      BY <1>1, <2>2, <3>1 DEF WordsFrom, AllRuns
    <3> QED
      BY <1>2, <3>2
  <2> QED
    BY <2>1, <2>2 DEF AllRuns
<1> QED
  BY <1>3, <1>5, <1>6 DEF WordsFrom, w

\* A separator before another one.
LEMMA RunsAtSeparator ==
  ASSUME NEW C, NEW s \in Seq(C), NEW sep, NEW i \in 1..Len(s), s[i] = sep,
         i < Len(s), s[i + 1] = sep, NEW u, WordsFrom(s, sep, i + 1, u)
  PROVE  WordsFrom(s, sep, i, u)
<1>1. Len(s) \in Nat
  BY LenProperties
<1>2. ASSUME NEW b \in 1..Len(s), NEW e \in 1..Len(s)
      PROVE  NextRun(s, sep, i, b, e) <=> NextRun(s, sep, i + 1, b, e)
  BY <1>1 DEF NextRun, Run
<1>3. FirstWord(s, sep, i, u)
  BY <1>1 DEF FirstWord, WordsFrom
<1>4. OnlyRuns(s, sep, i, u)
  BY <1>1, <1>2 DEF OnlyRuns, WordsFrom
<1>5. AllRuns(s, sep, i, u)
  BY <1>1, <1>2 DEF AllRuns, WordsFrom
<1> QED
  BY <1>3, <1>4, <1>5 DEF WordsFrom

\* The last of some separators.
LEMMA RunsBehindSeparator ==
  ASSUME NEW C, NEW s \in Seq(C), NEW sep, NEW i \in 1..Len(s), s[i] = sep,
         i = Len(s) \/ s[i + 1] # sep,
         NEW u \in WordLists(C), WordsFrom(s, sep, i + 1, u)
  PROVE  WordsFrom(s, sep, i, Also(u))
<1> DEFINE w == Also(u)
           n == Len(s)
<1>1. n \in Nat /\ Len(u) \in Nat \ {0}
  BY LenProperties, EmptySeq DEF WordLists
<1>2. Len(w) = Len(u) + 1 /\ w[1] = <<>> /\ \A k \in 1..Len(u) : w[k + 1] = u[k]
  BY AlsoIs
<1> HIDE DEF w
<1>3. FirstWord(s, sep, i, w)
  BY <1>2 DEF FirstWord
<1>4. w[2] = u[1] /\ 2 \in 2..Len(w)
  <2>1. 1 \in 1..Len(u) /\ 1 + 1 = 2
    BY <1>1
  <2> QED
    BY <1>1, <1>2, <2>1
<1>5. ASSUME i # n
      PROVE  \E e \in 1..n : NextRun(s, sep, i, i + 1, e) /\ w[2] = SubSeq(s, i + 1, e)
  <2>1. PICK e \in 1..n : Run(s, sep, i + 1, e) /\ u[1] = SubSeq(s, i + 1, e)
    BY <1>1, <1>5 DEF WordsFrom, FirstWord
  <2>2. NextRun(s, sep, i, i + 1, e)
    BY <1>1, <2>1 DEF NextRun
  <2> QED
    BY <1>4, <2>1, <2>2
<1>6. ASSUME i = n PROVE w[2] = <<>>
  BY <1>1, <1>4, <1>6 DEF WordsFrom, FirstWord
<1>7. OnlyRuns(s, sep, i, w)
  <2> SUFFICES ASSUME NEW k \in 2..Len(w)
               PROVE  \/ w[k] = <<>> /\ i <= Len(s) /\ s[Len(s)] = sep
                      \/ \E b, e \in 1..Len(s) : NextRun(s, sep, i, b, e) /\ w[k] = SubSeq(s, b, e)
    BY DEF OnlyRuns
  <2>1. CASE k = 2 /\ i = n
    BY <1>6, <2>1
  <2>2. CASE k = 2 /\ i # n
    <3>1. i + 1 \in 1..n
      BY <1>1, <2>2
    <3> QED
      BY <1>5, <2>2, <3>1
  <2>3. CASE k # 2
    <3>1. k - 1 \in 2..Len(u) /\ k - 1 + 1 = k
      BY <1>1, <1>2, <2>3
    <3>2. w[k] = u[k - 1]
      BY <1>2, <3>1
    <3>3. \/ u[k - 1] = <<>> /\ i + 1 <= Len(s) /\ s[Len(s)] = sep
          \/ \E b, e \in 1..Len(s) :
               NextRun(s, sep, i + 1, b, e) /\ u[k - 1] = SubSeq(s, b, e)
      BY <3>1 DEF WordsFrom, OnlyRuns
    <3>4. \A b, e \in 1..Len(s) : NextRun(s, sep, i + 1, b, e) => NextRun(s, sep, i, b, e)
      BY <1>1 DEF NextRun
    <3> QED
      BY <1>1, <3>2, <3>3, <3>4
  <2> QED
    BY <2>1, <2>2, <2>3
<1>8. ASSUME NEW k \in 2..Len(u) PROVE k + 1 \in 2..Len(w) /\ w[k + 1] = u[k]
  BY <1>1, <1>2
<1>9. AllRuns(s, sep, i, w)
  <2>1. ASSUME NEW b \in 1..n, NEW e \in 1..n, NextRun(s, sep, i, b, e)
        PROVE  \E k \in 2..Len(w) : w[k] = SubSeq(s, b, e)
    <3>1. CASE b = i + 1
      <4>1. i # n
        BY <3>1, <1>1
      <4>2. PICK f \in 1..n : NextRun(s, sep, i, i + 1, f) /\ w[2] = SubSeq(s, i + 1, f)
        BY <1>5, <4>1
      <4>3. f = e
        BY <1>1, <2>1, <3>1, <4>2 DEF NextRun, Run
      <4> QED
        BY <1>4, <3>1, <4>2, <4>3
    <3>2. CASE b # i + 1
      <4>1. NextRun(s, sep, i + 1, b, e)
        BY <1>1, <2>1, <3>2 DEF NextRun
      <4>2. PICK k \in 2..Len(u) : u[k] = SubSeq(s, b, e)
        BY <4>1 DEF WordsFrom, AllRuns
      <4> QED
        BY <1>8, <4>2
    <3> QED
      BY <3>1, <3>2
  <2>2. ASSUME s[n] = sep PROVE \E k \in 2..Len(w) : w[k] = <<>>
    <3>1. CASE i = n
      BY <1>4, <1>6, <3>1
    <3>2. CASE i # n
      <4>1. PICK k \in 2..Len(u) : u[k] = <<>>
        BY <1>1, <2>2, <3>2 DEF WordsFrom, AllRuns
      <4> QED
        BY <1>8, <4>1
    <3> QED
      BY <3>1, <3>2
  <2> QED
    BY <2>1, <2>2 DEF AllRuns
<1> QED
  BY <1>3, <1>7, <1>9 DEF WordsFrom, w

\* So the words of a text are its runs, and an empty one for a separator at
\* either end.
LEMMA SplitRuns ==
  ASSUME NEW C, NEW s \in Seq(C), NEW sep
  PROVE  Split(s, sep) \in WordLists(C) /\ WordsFrom(s, sep, 1, Split(s, sep))
<1>1. PICK from : /\ Splits(from, s, sep) /\ Split(s, sep) = from[1]
                  /\ \A i \in 1..(Len(s) + 1) : from[i] \in WordLists(C)
  BY SplitIs
<1> DEFINE n == Len(s)
           T == {i \in 1..(n + 1) : WordsFrom(s, sep, i, from[i])}
<1>2. n \in Nat
  BY LenProperties
<1>3. ASSUME NEW i \in 1..(n + 1), \A j \in 1..(n + 1) : j > i => j \in T
      PROVE  i \in T
  <2>1. from[i] = SplitAt(from, s, sep, i)
    BY <1>1 DEF Splits
  <2>2. CASE i = n + 1
    <3>1. from[i] = <<<<>>>> /\ Len(from[i]) = 1 /\ from[i][1] = <<>>
      BY <1>2, <2>1, <2>2, OneEmptyWord DEF SplitAt
    <3>2. ~ \E b, e \in 1..n : NextRun(s, sep, i, b, e)
      BY <1>2, <2>2 DEF NextRun
    <3> QED
      BY <1>2, <2>2, <3>1, <3>2 DEF WordsFrom, FirstWord, OnlyRuns, AllRuns
  <2>3. CASE i # n + 1
    <3>1. i \in 1..n /\ i + 1 \in 1..(n + 1) /\ ~(i > Len(s))
      BY <1>2, <2>3
    <3>2. WordsFrom(s, sep, i + 1, from[i + 1]) /\ from[i + 1] \in WordLists(C)
      BY <1>1, <1>3, <3>1
    <3>3. CASE s[i] # sep
      BY <2>1, <3>1, <3>2, <3>3, RunsInWord DEF SplitAt
    <3>4. CASE s[i] = sep /\ i < n /\ s[i + 1] = sep
      BY <2>1, <3>1, <3>2, <3>4, RunsAtSeparator DEF SplitAt
    <3>5. CASE s[i] = sep /\ ~(i < n /\ s[i + 1] = sep)
      <4>1. i = n \/ s[i + 1] # sep
        BY <1>2, <3>1, <3>5
      <4> QED
        BY <2>1, <3>1, <3>2, <3>5, <4>1, RunsBehindSeparator DEF SplitAt
    <3> QED
      BY <3>3, <3>4, <3>5
  <2> QED
    BY <2>2, <2>3
<1>4. 1..(n + 1) \subseteq T
  <2> HIDE DEF T, n
  <2> QED
    BY <1>2, <1>3, Downward
<1>5. 1 \in 1..(n + 1)
  BY <1>2
<1> QED
  BY <1>1, <1>4, <1>5

-----------------------------------------------------------------------------
(* parseCPU.                                                               *)

\* The parts of a text are its words, but for empty ones at the ends.
LEMMA SplitParts ==
  ASSUME NEW C, NEW s \in Seq(C), s # <<>>
  PROVE  Range(Split(s, Comma)) =
           Parts(s) \cup (IF s[1] = Comma \/ s[Len(s)] = Comma THEN {<<>>} ELSE {})
<1> DEFINE n == Len(s)
           w == Split(s, Comma)
           Ends == s[1] = Comma \/ s[n] = Comma
<1>1. n \in Nat \ {0} /\ Len(w) \in Nat \ {0}
  BY SplitRuns, LenProperties, EmptySeq DEF WordLists
<1>2. DOMAIN s = 1..n /\ DOMAIN w = 1..Len(w)
  BY SplitRuns, LenProperties, EmptySeq DEF WordLists
<1>3. WordsFrom(s, Comma, 1, w)
  BY SplitRuns
<1>4. \A b, e \in 1..n : IsPart(s, b, e) <=>
        Run(s, Comma, b, e) /\ (b = 1 \/ NextRun(s, Comma, 1, b, e))
  <2> SUFFICES ASSUME NEW b \in 1..n, NEW e \in 1..n
               PROVE  IsPart(s, b, e) <=>
                        Run(s, Comma, b, e) /\ (b = 1 \/ NextRun(s, Comma, 1, b, e))
    OBVIOUS
  <2>1. b \in 1..Len(s) /\ (e \in b..Len(s) <=> b <= e)
    BY <1>1
  <2>2. Run(s, Comma, b, e) <=> /\ b <= e /\ (\A k \in b..e : s[k] # Comma)
                                /\ (e = Len(s) \/ s[e + 1] = Comma)
    BY <2>1 DEF Run
  <2>3. b = 1 \/ b > 1
    BY <1>1
  <2>4. NextRun(s, Comma, 1, b, e) <=>
          b > 1 /\ s[b - 1] = Comma /\ Run(s, Comma, b, e)
    BY DEF NextRun
  <2>5. IsPart(s, b, e) <=> /\ b <= e /\ (\A k \in b..e : s[k] # Comma)
                            /\ (b = 1 \/ s[b - 1] = Comma)
                            /\ (e = Len(s) \/ s[e + 1] = Comma)
    BY DEF IsPart
  <2> QED
    BY <2>2, <2>3, <2>4, <2>5
<1>5. \A x : x \in Parts(s) <=>
        \E b, e \in 1..n : IsPart(s, b, e) /\ x = SubSeq(s, b, e)
  <2>1. \A r \in (1..n) \X (1..n) : r[1] \in 1..n /\ r[2] \in 1..n
    OBVIOUS
  <2>2. \A b, e \in 1..n : /\ <<b, e>> \in (1..n) \X (1..n)
                           /\ <<b, e>>[1] = b /\ <<b, e>>[2] = e
    OBVIOUS
  <2>3. Parts(s) = {SubSeq(s, r[1], r[2]) : r \in
                      {r \in (1..n) \X (1..n) : IsPart(s, r[1], r[2])}}
    BY <1>2 DEF Parts
  <2>4. ASSUME NEW x \in Parts(s)
        PROVE  \E b, e \in 1..n : IsPart(s, b, e) /\ x = SubSeq(s, b, e)
    BY <2>1, <2>3
  <2>5. ASSUME NEW b \in 1..n, NEW e \in 1..n, IsPart(s, b, e)
        PROVE  SubSeq(s, b, e) \in Parts(s)
    <3> DEFINE q == <<b, e>>
    <3>1. q \in (1..n) \X (1..n) /\ q[1] = b /\ q[2] = e
      BY <2>2
    <3> HIDE DEF q
    <3> QED
      BY <2>3, <2>5, <3>1
  <2> QED
    BY <2>4, <2>5
<1> HIDE DEF w
<1>6. ASSUME NEW k \in 1..Len(w) PROVE w[k] \in Parts(s) \/ (w[k] = <<>> /\ Ends)
  <2>1. CASE k = 1
    <3>1. CASE s[1] = Comma
      BY <1>3, <1>1, <2>1, <3>1 DEF WordsFrom, FirstWord
    <3>2. CASE s[1] # Comma
      <4>1. PICK e \in 1..n : Run(s, Comma, 1, e) /\ w[1] = SubSeq(s, 1, e)
        BY <1>3, <1>1, <3>2 DEF WordsFrom, FirstWord
      <4>2. 1 \in 1..n
        BY <1>1
      <4> QED
        BY <1>4, <1>5, <2>1, <4>1, <4>2
    <3> QED
      BY <3>1, <3>2
  <2>2. CASE k # 1
    <3>1. k \in 2..Len(w)
      BY <1>1, <2>2
    <3>2. \/ w[k] = <<>> /\ s[n] = Comma
          \/ \E b, e \in 1..n : NextRun(s, Comma, 1, b, e) /\ w[k] = SubSeq(s, b, e)
      BY <1>3, <1>1, <3>1 DEF WordsFrom, OnlyRuns
    <3>3. ASSUME NEW b \in 1..n, NEW e \in 1..n, NextRun(s, Comma, 1, b, e)
          PROVE  SubSeq(s, b, e) \in Parts(s)
      BY <1>4, <1>5, <3>3 DEF NextRun
    <3> QED
      BY <3>2, <3>3
  <2> QED
    BY <2>1, <2>2
<1>7. ASSUME NEW x \in Parts(s) PROVE \E k \in 1..Len(w) : w[k] = x
  <2>1. PICK b \in 1..n, e \in 1..n : IsPart(s, b, e) /\ x = SubSeq(s, b, e)
    BY <1>5
  <2>2. Run(s, Comma, b, e) /\ (b = 1 \/ NextRun(s, Comma, 1, b, e))
    BY <1>4, <2>1
  <2>3. CASE b = 1
    <3>1. s[1] # Comma
      BY <1>1, <2>2, <2>3 DEF Run
    <3>2. PICK f \in 1..n : Run(s, Comma, 1, f) /\ w[1] = SubSeq(s, 1, f)
      BY <1>3, <1>1, <3>1 DEF WordsFrom, FirstWord
    <3>3. f = e
      BY <1>1, <2>2, <2>3, <3>2 DEF Run
    <3> QED
      BY <1>1, <2>1, <2>3, <3>2, <3>3
  <2>4. CASE NextRun(s, Comma, 1, b, e)
    <3>1. PICK k \in 2..Len(w) : w[k] = SubSeq(s, b, e)
      BY <1>3, <1>1, <2>4 DEF WordsFrom, AllRuns
    <3> QED
      BY <1>1, <2>1, <3>1
  <2> QED
    BY <2>2, <2>3, <2>4
<1>8. ASSUME Ends PROVE \E k \in 1..Len(w) : w[k] = <<>>
  <2>1. CASE s[1] = Comma
    BY <1>3, <1>1, <2>1 DEF WordsFrom, FirstWord
  <2>2. CASE s[n] = Comma
    <3>1. PICK k \in 2..Len(w) : w[k] = <<>>
      BY <1>3, <1>1, <2>2 DEF WordsFrom, AllRuns
    <3> QED
      BY <1>1, <3>1
  <2> QED
    BY <1>8, <2>1, <2>2
<1>9. Range(w) = {w[k] : k \in 1..Len(w)}
  BY <1>2 DEF Range
<1> HIDE DEF Ends
<1>10. Range(w) = Parts(s) \cup (IF Ends THEN {<<>>} ELSE {})
  BY <1>6, <1>7, <1>8, <1>9
<1> QED
  BY <1>10 DEF Ends, w

\* A part is no empty text.
LEMMA PartType ==
  ASSUME NEW C, NEW s \in Seq(C), NEW x \in Parts(s)
  PROVE  x \in Seq(C)
<1>1. PICK r \in (DOMAIN s) \X (DOMAIN s) : IsPart(s, r[1], r[2]) /\ x = SubSeq(s, r[1], r[2])
  BY DEF Parts
<1>2. DOMAIN s = 1..Len(s) /\ Len(s) \in Nat /\ r[1] \in 1..Len(s) /\ r[2] \in 1..Len(s)
  BY LenProperties
<1>3. \A i \in r[1]..r[2] : s[i] \in C
  BY <1>2, ElementOfSeq
<1> QED
  BY <1>1, <1>2, <1>3, SubSeqProperties

\* No number has a tilde in it.
LEMMA NoTilde ==
  ASSUME NEW C, NEW w \in Seq(C), Casts(w) PROVE Tildes(w) = {}
<1>1. DOMAIN w = 1..Len(w) /\ Len(w) \in Nat
  BY LenProperties
<1>2. ~ IsDigit("~")
  BY DEF IsDigit, Digits
<1>3. CASE Unsigned(w) = w
  BY <1>2, <1>3 DEF Casts, Tildes
<1>4. CASE w # <<>> /\ w[1] \in {"-", "+"} /\ Unsigned(w) = Tail(w)
  <2>1. /\ Tail(w) \in Seq(C) /\ Len(Tail(w)) = Len(w) - 1
        /\ \A i \in 1..Len(Tail(w)) : Tail(w)[i] = w[i + 1]
    BY <1>4, HeadTailProperties
  <2>2. DOMAIN Tail(w) = 1..(Len(w) - 1)
    BY <2>1, LenProperties
  <2>3. ASSUME NEW k \in Tildes(w) PROVE FALSE
    <3>1. k \in 1..Len(w) /\ w[k] = "~"
      BY <1>1 DEF Tildes
    <3>2. CASE k = 1
      BY <1>4, <3>1, <3>2
    <3>3. CASE k # 1
      <4>1. k - 1 \in 1..(Len(w) - 1) /\ k - 1 + 1 = k
        BY <1>1, <3>1, <3>3
      <4>2. Tail(w)[k - 1] = "~"
        BY <2>1, <3>1, <4>1
      <4> QED
        BY <1>2, <1>4, <2>2, <4>1, <4>2 DEF Casts
    <3> QED
      BY <3>2, <3>3
  <2> QED
    BY <2>3
<1> QED
  BY <1>3, <1>4 DEF Unsigned

\* The code reads a part in the only way it can be read, or refuses it.
LEMMA ReadOnce ==
  ASSUME NEW C, NEW w \in Seq(C)
  PROVE  Readings(w) = IF Refuses(w) THEN {} ELSE {<<Before(w), After(w)>>}
<1> DEFINE Cut(k) == <<SubSeq(w, 1, k - 1), SubSeq(w, k + 1, Len(w))>>
           All == {<<w, w>>} \cup {Cut(k) : k \in Tildes(w)}
<1>1. Readings(w) = {e \in All : Casts(e[1]) /\ Casts(e[2])}
  BY DEF Readings
<1>2. CASE Tildes(w) = {}
  <2>1. All = {<<w, w>>} /\ Before(w) = w /\ After(w) = w
    BY <1>2 DEF Before, After
  <2> QED
    BY <1>1, <2>1 DEF Refuses
<1>3. CASE Tildes(w) # {}
  <2>1. Tildes(w) \subseteq Nat /\ DOMAIN w = 1..Len(w) /\ Len(w) \in Nat
    BY LenProperties DEF Tildes
  <2>2. FirstTilde(w) \in Tildes(w) /\ \A l \in Tildes(w) : FirstTilde(w) <= l
    <3>1. \E m \in Tildes(w) : \A l \in Tildes(w) : m <= l
      BY <1>3, <2>1, LeastNat
    <3> QED
      BY <3>1 DEF FirstTilde
  <2>3. ~Casts(w)
    BY <1>3, NoTilde
  <2>4. Before(w) = Cut(FirstTilde(w))[1] /\ After(w) = Cut(FirstTilde(w))[2]
    BY <1>3 DEF Before, After
  <2>5. ASSUME NEW k \in Tildes(w), k # FirstTilde(w) PROVE ~Casts(Cut(k)[1])
    <3> DEFINE b == SubSeq(w, 1, k - 1)
               f == FirstTilde(w)
    <3>1. f \in 1..(k - 1) /\ k \in 1..Len(w) /\ w[f] = "~"
      BY <2>1, <2>2, <2>5 DEF Tildes
    <3>2. \A i \in 1..(k - 1) : w[i] \in C
      BY <2>1, <3>1, ElementOfSeq
    <3>3. /\ b \in Seq(C) /\ Len(b) = k - 1
          /\ \A i \in 1..(k - 1) : b[i] = w[i]
      <4> HIDE DEF f
      <4>1. /\ b \in Seq(C) /\ Len(b) = IF 1 <= k - 1 THEN k - 1 - 1 + 1 ELSE 0
            /\ \A i \in 1..(k - 1 - 1 + 1) : b[i] = w[1 + i - 1]
        BY <3>1, <3>2, SubSeqProperties
      <4> QED
        BY <2>1, <3>1, <4>1
    <3>4. f \in Tildes(b)
      <4> HIDE DEF b, f
      <4>1. DOMAIN b = 1..(k - 1)
        BY <3>3, LenProperties
      <4> QED
        BY <3>1, <3>3, <4>1 DEF Tildes
    <3> HIDE DEF b, f
    <3>5. ~Casts(b)
      BY <3>3, <3>4, NoTilde
    <3> QED
      BY <3>5 DEF b
  <2>6. ASSUME NEW e \in All, Casts(e[1]), Casts(e[2])
        PROVE  e = Cut(FirstTilde(w))
    <3>1. CASE e = <<w, w>>
      BY <2>3, <2>6, <3>1
    <3>2. CASE \E k \in Tildes(w) : e = Cut(k)
      <4>1. PICK k \in Tildes(w) : e = Cut(k)
        BY <3>2
      <4> HIDE DEF Cut
      <4> QED
        BY <2>5, <2>6, <4>1
    <3> QED
      BY <3>1, <3>2
  <2> DEFINE c == Cut(FirstTilde(w))
  <2>7. c \in All /\ c = <<c[1], c[2]>>
    BY <2>2
  <2> HIDE DEF All, Cut, c
  <2> QED
    BY <1>1, <2>4, <2>6, <2>7 DEF Refuses, c
<1> QED
  BY <1>2, <1>3

\* How many members of a set are less than a number grows along the set, by one
\* from member to member, so a sorted list has each member in its place.
LEMMA SortedIs ==
  ASSUME NEW S, S \subseteq Int, IsFiniteSet(S)
  PROVE  /\ Range(Sorted(S)) = S
         /\ \A k, l \in DOMAIN Sorted(S) : k < l => Sorted(S)[k] < Sorted(S)[l]
<1> DEFINE Less(n) == {m \in S : m < n}
           rank == [n \in S |-> Cardinality(Less(n)) + 1]
           list == Sorted(S)
           N == Cardinality(S)
<1>1. N \in Nat
  BY FS_CardinalityType
<1>2. \A n \in S : Cardinality(Less(n)) \in Nat /\ Cardinality(Less(n)) < N
  <2> SUFFICES ASSUME NEW n \in S
               PROVE  Cardinality(Less(n)) \in Nat /\ Cardinality(Less(n)) < N
    OBVIOUS
  <2>1. Less(n) \in SUBSET S /\ n \notin Less(n)
    OBVIOUS
  <2> HIDE DEF Less
  <2>2. IsFiniteSet(Less(n)) /\ Cardinality(Less(n)) <= N /\ (N = Cardinality(Less(n)) => S = Less(n))
    BY <2>1, FS_Subset
  <2>3. Cardinality(Less(n)) \in Nat
    BY <2>2, FS_CardinalityType
  <2> QED
    BY <1>1, <2>1, <2>2, <2>3
<1>3. ASSUME NEW m \in S, NEW n \in S, m < n PROVE rank[m] < rank[n]
  <2>1. /\ Less(m) \in SUBSET Less(n) /\ m \in Less(n) /\ m \notin Less(m)
        /\ Less(n) \in SUBSET S
    <3>1. m < n /\ ~(m < m) /\ \A x \in S : x < m => x < n
      BY <1>3
    <3> QED
      BY <3>1
  <2>2. rank[m] = Cardinality(Less(m)) + 1 /\ rank[n] = Cardinality(Less(n)) + 1
    OBVIOUS
  <2> HIDE DEF Less, rank
  <2>3. IsFiniteSet(Less(n))
    BY <2>1, FS_Subset
  <2>4. /\ Cardinality(Less(m)) <= Cardinality(Less(n))
        /\ Cardinality(Less(n)) = Cardinality(Less(m)) => Less(n) = Less(m)
    BY <2>1, <2>3, FS_Subset
  <2> QED
    BY <1>2, <2>1, <2>2, <2>4
<1>4. rank \in [S -> 1..N]
  <2> HIDE DEF Less
  <2> QED
    BY <1>1, <1>2
<1> HIDE DEF rank
<1>5. rank \in Injection(S, 1..N)
  <2>1. \A m, n \in S : rank[m] = rank[n] => m = n
    <3>1. ASSUME NEW m \in S, NEW n \in S, rank[m] = rank[n], m # n PROVE FALSE
      <4>1. m < n \/ n < m
        BY <3>1
      <4>2. rank[m] < rank[n] \/ rank[n] < rank[m]
        BY <1>3, <4>1
      <4> QED
        BY <1>1, <1>4, <3>1, <4>2
    <3> QED
      BY <3>1
  <2> QED
    BY <1>4, <2>1 DEF Injection, IsInjective
<1>6. rank \in Surjection(S, 1..N)
  <2>1. IsFiniteSet(1..N) /\ Cardinality(1..N) = N
    BY <1>1, FS_Interval
  <2> HIDE DEF N
  <2> QED
    BY <1>5, <2>1, FS_Injection DEF N
<1>7. ASSUME NEW k \in 1..N PROVE \E n \in S : rank[n] = k
  BY <1>6 DEF Surjection
<1>8. list = [k \in 1..N |-> CHOOSE n \in S : rank[n] = k]
  <2>1. \A k \in 1..N : \A n \in S : Cardinality(Less(n)) = k - 1 <=> rank[n] = k
    <3> HIDE DEF Less
    <3> QED
      BY <1>1, <1>2 DEF rank
  <2> DEFINE a(k) == CHOOSE n \in S : Cardinality(Less(n)) = k - 1
             b(k) == CHOOSE n \in S : rank[n] = k
  <2>2. \A k \in 1..N : a(k) = b(k)
    BY <2>1
  <2>3. list = [k \in 1..N |-> a(k)]
    BY DEF Sorted
  <2> HIDE DEF a, b, list
  <2>4. list = [k \in 1..N |-> b(k)]
    BY <2>2, <2>3
  <2> QED
    BY <2>4 DEF b
<1> HIDE DEF list, Less, N
<1>9. \A k \in 1..N : list[k] \in S /\ rank[list[k]] = k
  BY <1>7, <1>8
<1>10. DOMAIN list = 1..N
  BY <1>8
<1>11. \A n \in S : \E k \in 1..N : list[k] = n
  <2> SUFFICES ASSUME NEW n \in S PROVE \E k \in 1..N : list[k] = n
    OBVIOUS
  <2>1. rank[n] \in 1..N
    BY <1>4
  <2>2. list[rank[n]] \in S /\ rank[list[rank[n]]] = rank[n]
    BY <1>9, <2>1
  <2> QED
    BY <1>5, <2>1, <2>2 DEF Injection, IsInjective
<1>12. ASSUME NEW k \in 1..N, NEW l \in 1..N, k < l PROVE list[k] < list[l]
  <2>1. /\ list[k] \in S /\ list[l] \in S
        /\ rank[list[k]] = k /\ rank[list[l]] = l
    BY <1>9
  <2>2. list[l] < list[k] => rank[list[l]] < rank[list[k]]
    BY <1>3, <2>1
  <2>3. list[k] # list[l]
    BY <1>1, <1>12, <2>1
  <2>4. list[k] \in Int /\ list[l] \in Int
    BY <2>1
  <2> QED
    BY <1>1, <1>12, <2>1, <2>2, <2>3, <2>4
<1>13. Range(list) = S
  BY <1>9, <1>10, <1>11 DEF Range
<1> QED
  BY <1>10, <1>12, <1>13 DEF list

\* An empty word is refused.
LEMMA EmptyRefused ==
  Refuses(<<>>)
<1>1. ~Casts(<<>>)
  BY DEF Casts, Unsigned
<1>2. Tildes(<<>>) = {}
  BY DEF Tildes
<1> QED
  BY <1>1, <1>2 DEF Refuses, Before

\* The cpus of a part that is not refused are what it can be read as.
LEMMA CpusRange ==
  ASSUME NEW w, ~Refuses(w)
  PROVE  Cpus(w) \subseteq (-MaxInt - 1)..MaxInt
<1>1. Value(Before(w)) \in (-MaxInt - 1)..MaxInt /\ Value(After(w)) \in (-MaxInt - 1)..MaxInt
  BY DEF Refuses, Casts
<1> QED
  BY <1>1, CpuListAssumption DEF Cpus

LEMMA CpusOfPart ==
  ASSUME NEW C, NEW w \in Seq(C), ~Refuses(w)
  PROVE  /\ Readings(w) # {}
         /\ \A x : x \in Cpus(w) <=> \E e \in Readings(w) : x \in Value(e[1])..Value(e[2])
<1> DEFINE e == <<Before(w), After(w)>>
<1>1. Readings(w) = {e} /\ e[1] = Before(w) /\ e[2] = After(w)
  BY ReadOnce
<1> HIDE DEF e
<1> QED
  BY <1>1 DEF Cpus

\* What a text with a part names.
LEMMA NamedBy ==
  ASSUME NEW s
  PROVE  \A x : x \in Named(s) <=>
           \E w \in Parts(s) : \E e \in Readings(w) : x \in Value(e[1])..Value(e[2])
BY DEF Named

\* A text of which no word is refused is a list, and the words have its cpus.
LEMMA Accepted ==
  ASSUME NEW C, NEW s \in Seq(C), s # <<>>,
         \A w \in Range(Split(s, Comma)) : ~Refuses(w)
  PROVE  /\ Listable(s)
         /\ UNION {Cpus(w) : w \in Range(Split(s, Comma))} = Named(s)
<1> DEFINE W == Range(Split(s, Comma))
           Ends == s[1] = Comma \/ s[Len(s)] = Comma
<1>1. W = Parts(s) \cup (IF Ends THEN {<<>>} ELSE {})
  BY SplitParts
<1> HIDE DEF W
<1>2. ~Ends /\ W = Parts(s)
  BY <1>1, EmptyRefused DEF W
<1>3. \A w \in Parts(s) : w \in Seq(C) /\ ~Refuses(w)
  BY <1>2, PartType DEF W
<1>4. Listable(s)
  BY <1>2, <1>3, CpusOfPart DEF Listable
<1>5. \A x : x \in UNION {Cpus(w) : w \in W} <=> x \in Named(s)
  <2>1. \A x : x \in UNION {Cpus(w) : w \in W} <=> \E w \in Parts(s) : x \in Cpus(w)
    BY <1>2
  <2>2. \A w \in Parts(s) : \A x :
          x \in Cpus(w) <=> \E e \in Readings(w) : x \in Value(e[1])..Value(e[2])
    BY <1>3, CpusOfPart
  <2> QED
    BY <2>1, <2>2, NamedBy
<1>6. UNION {Cpus(w) : w \in W} = Named(s)
  BY <1>5
<1> QED
  BY <1>4, <1>6 DEF W

\* A text of which a word is refused is no list.
LEMMA NotListable ==
  ASSUME NEW C, NEW s \in Seq(C), s # <<>>,
         NEW w \in Range(Split(s, Comma)), Refuses(w)
  PROVE  ~Listable(s)
<1>1. w \in Parts(s) \/ s[1] = Comma \/ s[Len(s)] = Comma
  BY SplitParts
<1>2. ASSUME w \in Parts(s) PROVE Readings(w) = {}
  BY <1>2, PartType, ReadOnce
<1> QED
  BY <1>1, <1>2 DEF Listable

\* A word with the largest int in its range names it.
LEMMA Overflowing ==
  ASSUME NEW C, NEW s \in Seq(C), s # <<>>,
         NEW w \in Range(Split(s, Comma)), ~Refuses(w), MaxInt \in Cpus(w)
  PROVE  MaxInt \in Named(s)
<1>1. w \in Parts(s)
  BY SplitParts, EmptyRefused
<1>2. w \in Seq(C)
  BY <1>1, PartType
<1>3. \E e \in Readings(w) : MaxInt \in Value(e[1])..Value(e[2])
  BY <1>2, CpusOfPart
<1> QED
  BY <1>1, <1>3, NamedBy

LEMMA CpusFinite ==
  ASSUME NEW W, \A w \in W : ~Refuses(w)
  PROVE  LET S == UNION {Cpus(w) : w \in W} IN S \subseteq Int /\ IsFiniteSet(S)
<1> DEFINE S == UNION {Cpus(w) : w \in W}
           I == (-MaxInt - 1)..MaxInt
<1>1. S \in SUBSET I
  <2>1. ASSUME NEW x \in S PROVE x \in I
    <3>1. PICK w \in W : x \in Cpus(w)
      OBVIOUS
    <3> QED
      BY <3>1, CpusRange
  <2> QED
    BY <2>1
<1>2. IsFiniteSet(I) /\ I \subseteq Int
  BY FS_Interval, CpuListAssumption
<1> HIDE DEF S, I
<1>3. S \subseteq Int /\ IsFiniteSet(S)
  BY <1>1, <1>2, FS_Subset
<1> QED
  BY <1>3 DEF S

\* So parseCPU gives each cpu of a list once, in order, and refuses what is no
\* list.
LEMMA CpusParsed ==
  ASSUME NEW C, NEW s \in Seq(C), NEW r, r = parseCPU(s)
  PROVE  /\ r.end = "done" => /\ Listable(s) /\ Range(r.m_cpu) = Named(s)
                              /\ \A k, l \in DOMAIN r.m_cpu : k < l => r.m_cpu[k] < r.m_cpu[l]
         /\ r.end = "refused" => ~Listable(s)
         /\ r.end = "overflow" => MaxInt \in Named(s)
<1> DEFINE parts == IF s = <<>> THEN <<>> ELSE Split(s, Comma)
           bad == {k \in DOMAIN parts : Refuses(parts[k]) \/ Overflows(parts[k])}
           first == CHOOSE k \in bad : \A l \in bad : k <= l
           S == UNION {Cpus(w) : w \in Range(parts)}
<1>1. r = IF bad = {} THEN Done(Sorted(S))
          ELSE NoList(IF Refuses(parts[first]) THEN "refused" ELSE "overflow")
  BY DEF parseCPU
<1>2. DOMAIN parts \subseteq Nat
  <2>1. DOMAIN <<>> = {}
    OBVIOUS
  <2>2. DOMAIN Split(s, Comma) = 1..Len(Split(s, Comma)) /\ Len(Split(s, Comma)) \in Nat
    BY SplitRuns, LenProperties DEF WordLists
  <2> QED
    BY <2>1, <2>2
<1>3. \A w : w \in Range(parts) <=> \E k \in DOMAIN parts : w = parts[k]
  BY DEF Range
<1>4. s # <<>> => parts = Split(s, Comma)
  OBVIOUS
<1>5. s = <<>> => Range(parts) = {} /\ Listable(s) /\ Named(s) = {}
  <2>1. DOMAIN <<>> = {}
    OBVIOUS
  <2>2. ASSUME s = <<>> PROVE Parts(s) = {}
    BY <2>1, <2>2 DEF Parts
  <2>3. ASSUME s = <<>> PROVE Range(parts) = {}
    BY <2>1, <2>3 DEF Range
  <2>4. s = <<>> => Listable(s)
    BY DEF Listable
  <2>5. s = <<>> => \A x : x \notin Named(s)
    BY <2>2, NamedBy
  <2> QED
    BY <2>3, <2>4, <2>5
<1> HIDE DEF parts
<1>6. CASE bad = {}
  <2>1. \A w \in Range(parts) : ~Refuses(w)
    BY <1>3, <1>6
  <2>2. Listable(s) /\ S = Named(s)
    <3>1. CASE s = <<>>
      BY <1>5, <3>1
    <3>2. CASE s # <<>>
      BY <1>4, <2>1, <3>2, Accepted
    <3> QED
      BY <3>1, <3>2
  <2>3. S \subseteq Int /\ IsFiniteSet(S)
    BY <2>1, CpusFinite
  <2> HIDE DEF S
  <2>4. /\ Range(Sorted(S)) = S
        /\ \A k, l \in DOMAIN Sorted(S) : k < l => Sorted(S)[k] < Sorted(S)[l]
    BY <2>3, SortedIs
  <2>5. r.end = "done" /\ r.m_cpu = Sorted(S)
    BY <1>1, <1>6 DEF Done
  <2> QED
    BY <2>2, <2>4, <2>5
<1>7. CASE bad # {}
  <2>1. first \in bad
    <3>1. bad \subseteq Nat
      BY <1>2
    <3> HIDE DEF bad
    <3>2. \E k \in bad : \A l \in bad : k <= l
      BY <1>7, <3>1, LeastNat
    <3> QED
      BY <3>2
  <2> DEFINE w == parts[first]
  <2>2. first \in DOMAIN parts /\ (Refuses(w) \/ Overflows(w))
    BY <2>1
  <2>3. r.end = IF Refuses(w) THEN "refused" ELSE "overflow"
    BY <1>1, <1>7 DEF NoList
  <2> HIDE DEF bad, first
  <2>4. w \in Range(parts)
    BY <1>3, <2>2
  <2>5. s # <<>>
    BY <1>5, <2>4
  <2>6. w \in Range(Split(s, Comma))
    BY <1>4, <2>4, <2>5
  <2> HIDE DEF w
  <2>7. Refuses(w) => ~Listable(s)
    BY <2>5, <2>6, NotListable
  <2>8. ~Refuses(w) => MaxInt \in Named(s)
    BY <2>2, <2>5, <2>6, Overflowing DEF Overflows
  <2> QED
    BY <2>3, <2>7, <2>8
<1> QED
  BY <1>6, <1>7

-----------------------------------------------------------------------------
(* A text of a character and a text, and what the functions on texts make  *)
(* of it.                                                                  *)

LEMMA ConsIs ==
  ASSUME NEW C, NEW c \in C, NEW t \in Seq(C)
  PROVE  /\ Cons(c, t) \in Seq(C) /\ Cons(c, t) # <<>> /\ Len(t) \in Nat
         /\ Len(Cons(c, t)) = Len(t) + 1 /\ Cons(c, t)[1] = c
         /\ \A i \in 1..Len(t) : Cons(c, t)[i + 1] = t[i]
<1>1. <<c>> \in Seq(C) /\ Len(<<c>>) = 1 /\ <<c>>[1] = c
  OBVIOUS
<1>2. Len(t) \in Nat
  BY LenProperties
<1>3. /\ Cons(c, t) \in Seq(C) /\ Len(Cons(c, t)) = 1 + Len(t)
      /\ \A i \in 1..(1 + Len(t)) : Cons(c, t)[i] = IF i <= 1 THEN <<c>>[i] ELSE t[i - 1]
  BY <1>1, ConcatProperties DEF Cons
<1>4. Cons(c, t) # <<>>
  BY <1>2, <1>3, EmptySeq
<1> QED
  BY <1>1, <1>2, <1>3, <1>4

ConsAssociative(C) ==
  \A c \in C : \A t, u \in Seq(C) : Cons(c, t) \o u = Cons(c, t \o u)

LEMMA ConsAssoc ==
  ASSUME NEW C PROVE ConsAssociative(C)
<1> SUFFICES ASSUME NEW c \in C, NEW t \in Seq(C), NEW u \in Seq(C)
             PROVE  Cons(c, t) \o u = Cons(c, t \o u)
  BY DEF ConsAssociative
<1>1. <<c>> \in Seq(C)
  OBVIOUS
<1> QED
  BY <1>1, ConcatAssociative DEF Cons

\* A text is empty, or a character and a text.
Conses(C) ==
  \A s \in Seq(C) : s # <<>> =>
    \E c \in C : \E t \in Seq(C) : s = Cons(c, t) /\ Len(s) = Len(t) + 1 /\ Len(t) \in Nat

LEMMA ConsesIs ==
  ASSUME NEW C PROVE Conses(C)
<1> SUFFICES ASSUME NEW s \in Seq(C), s # <<>>
             PROVE  \E c \in C : \E t \in Seq(C) :
                      s = Cons(c, t) /\ Len(s) = Len(t) + 1 /\ Len(t) \in Nat
  BY DEF Conses
<1>1. s[1] \in C /\ Len(s) \in Nat \ {0}
  BY EmptySeq, ElementOfSeq
<1>2. s = <<s[1]>> \o SubSeq(s, 2, Len(s))
  <2>1. SubSeq(s, 1, Len(s)) = <<s[1]>> \o SubSeq(s, 1 + 1, Len(s))
    BY <1>1, SubSeqRecursiveFirst
  <2> QED
    BY <2>1, SubSeqFull
<1> DEFINE t == SubSeq(s, 2, Len(s))
<1>3. t \in Seq(C) /\ Len(t) = Len(s) - 1
  BY HeadTailProperties, TailIsSubSeq
<1> HIDE DEF t
<1>4. Len(s) = Len(t) + 1 /\ Len(t) \in Nat
  BY <1>1, <1>3
<1>5. s = Cons(s[1], t)
  BY <1>2 DEF t, Cons
<1> QED
  BY <1>1, <1>3, <1>4, <1>5

LEMMA RangeCons ==
  ASSUME NEW C, NEW c \in C, NEW t \in Seq(C)
  PROVE  Range(Cons(c, t)) = {c} \cup Range(t)
<1> DEFINE s == Cons(c, t)
<1>1. /\ s \in Seq(C) /\ Len(s) = Len(t) + 1 /\ s[1] = c /\ Len(t) \in Nat
      /\ \A i \in 1..Len(t) : s[i + 1] = t[i]
  BY ConsIs
<1> HIDE DEF s
<1>2. DOMAIN s = 1..(Len(t) + 1) /\ DOMAIN t = 1..Len(t)
  BY <1>1, LenProperties
<1>3. ASSUME NEW x \in Range(s) PROVE x = c \/ x \in Range(t)
  <2>1. PICK i \in 1..(Len(t) + 1) : x = s[i]
    BY <1>2, <1>3 DEF Range
  <2>2. i = 1 \/ (i - 1 \in 1..Len(t) /\ i - 1 + 1 = i)
    BY <1>1
  <2> QED
    BY <1>1, <1>2, <2>1, <2>2 DEF Range
<1>4. ASSUME NEW x, x = c \/ x \in Range(t) PROVE x \in Range(s)
  <2>1. CASE x = c
    <3>1. 1 \in 1..(Len(t) + 1)
      BY <1>1
    <3> QED
      BY <1>1, <1>2, <2>1, <3>1 DEF Range
  <2>2. CASE x \in Range(t)
    <3>1. PICK i \in 1..Len(t) : x = t[i]
      BY <1>2, <2>2 DEF Range
    <3>2. i + 1 \in 1..(Len(t) + 1) /\ s[i + 1] = x
      BY <1>1, <3>1
    <3> QED
      BY <1>2, <3>2 DEF Range
  <2> QED
    BY <1>4, <2>1, <2>2
<1> QED
  BY <1>3, <1>4 DEF s

\* Split.
LEMMA SplitShift ==
  ASSUME NEW C, NEW c \in C, NEW t \in Seq(C), NEW sep,
         NEW f, Splits(f, Cons(c, t), sep), NEW h, Splits(h, t, sep)
  PROVE  f[2] = h[1]
<1> DEFINE s == Cons(c, t)
           n == Len(t)
           T == {i \in 1..(n + 1) : f[i + 1] = h[i]}
<1>1. n \in Nat /\ Len(s) = n + 1 /\ \A i \in 1..n : s[i + 1] = t[i]
  BY ConsIs
<1>2. ASSUME NEW i \in 1..(n + 1), \A j \in 1..(n + 1) : j > i => j \in T
      PROVE  i \in T
  <2>1. i + 1 \in 1..(Len(s) + 1)
    BY <1>1
  <2>2. f[i + 1] = SplitAt(f, s, sep, i + 1) /\ h[i] = SplitAt(h, t, sep, i)
    BY <2>1 DEF Splits
  <2> HIDE DEF s
  <2>3. CASE i = n + 1
    <3>1. i + 1 > Len(s) /\ i > Len(t)
      BY <1>1, <2>3
    <3> QED
      BY <2>2, <3>1 DEF SplitAt
  <2>4. CASE i # n + 1
    <3>1. i \in 1..n /\ i + 1 \in 1..(n + 1) /\ ~(i > Len(t)) /\ ~(i + 1 > Len(s))
      BY <1>1, <2>4
    <3>2. f[i + 1 + 1] = h[i + 1] /\ s[i + 1] = t[i]
      BY <1>1, <1>2, <3>1
    <3>3. i + 1 < Len(s) <=> i < Len(t)
      BY <1>1
    <3>4. i < Len(t) => s[i + 1 + 1] = t[i + 1]
      BY <1>1, <3>1
    <3> QED
      BY <2>2, <3>1, <3>2, <3>3, <3>4 DEF SplitAt
  <2> QED
    BY <2>3, <2>4
<1>3. 1..(n + 1) \subseteq T
  <2> HIDE DEF T, n
  <2> QED
    BY <1>1, <1>2, Downward
<1>4. 1 \in 1..(n + 1)
  BY <1>1
<1> QED
  BY <1>3, <1>4

LEMMA SplitEmpty ==
  ASSUME NEW sep PROVE Split(<<>>, sep) = <<<<>>>>
<1>1. PICK f : Splits(f, <<>>, sep) /\ Split(<<>>, sep) = f[1]
  BY SplitIs, EmptySeq
<1>2. Len(<<>>) = 0 /\ 1 \in 1..(Len(<<>>) + 1) /\ 1 > Len(<<>>)
  OBVIOUS
<1>3. f[1] = SplitAt(f, <<>>, sep, 1)
  BY <1>1, <1>2 DEF Splits
<1> QED
  BY <1>1, <1>2, <1>3 DEF SplitAt

LEMMA SplitCons ==
  ASSUME NEW C, NEW c \in C, NEW t \in Seq(C), NEW sep
  PROVE  Split(Cons(c, t), sep) =
           IF c # sep THEN Onto(<<c>>, Split(t, sep))
           ELSE IF t # <<>> /\ t[1] = sep THEN Split(t, sep)
           ELSE Also(Split(t, sep))
<1> DEFINE s == Cons(c, t)
<1>1. s \in Seq(C) /\ Len(s) = Len(t) + 1 /\ Len(t) \in Nat /\ s[1] = c
  BY ConsIs
<1>2. Len(t) # 0 => s[2] = t[1]
  <2>1. Len(t) # 0 => 1 \in 1..Len(t)
    BY <1>1
  <2>2. \A i \in 1..Len(t) : s[i + 1] = t[i]
    BY ConsIs
  <2> QED
    BY <2>1, <2>2
<1> HIDE DEF s
<1>3. PICK f : Splits(f, s, sep) /\ Split(s, sep) = f[1]
  BY <1>1, SplitIs
<1>4. PICK h : Splits(h, t, sep) /\ Split(t, sep) = h[1]
  BY SplitIs
<1>5. f[2] = Split(t, sep)
  BY <1>3, <1>4, SplitShift DEF s
<1>6. f[1] = SplitAt(f, s, sep, 1)
  <2>1. 1 \in 1..(Len(s) + 1)
    BY <1>1
  <2> QED
    BY <1>3, <2>1 DEF Splits
<1>7. ~(1 > Len(s)) /\ 1 + 1 = 2 /\ (1 < Len(s) <=> Len(t) # 0)
  BY <1>1
<1>8. t # <<>> <=> Len(t) # 0
  BY EmptySeq
<1>9. SplitAt(f, s, sep, 1) =
        IF c # sep THEN Onto(<<c>>, f[2])
        ELSE IF Len(t) # 0 /\ t[1] = sep THEN f[2]
        ELSE Also(f[2])
  BY <1>1, <1>2, <1>7 DEF SplitAt
<1> QED
  BY <1>3, <1>5, <1>6, <1>8, <1>9 DEF s

-----------------------------------------------------------------------------
(* boost::replace_all, of a placeholder with one digit d.                  *)
Found(s, d, i) == i < Len(s) /\ s[i] = ARG_PREFIX /\ s[i + 1] = d
Replacing(after, s, d, to, i) ==
  IF i > Len(s) THEN <<>>
  ELSE IF Found(s, d, i) THEN to \o after[i + 2]
  ELSE <<s[i]>> \o after[i + 1]
Replaces(after, s, d, to) == after = [i \in 1..(Len(s) + 1) |-> Replacing(after, s, d, to, i)]

LEMMA FoundIs ==
  ASSUME NEW C, NEW s \in Seq(C), NEW d \in C, ARG_PREFIX \in C, NEW i \in 1..Len(s)
  PROVE  At(s, i, <<ARG_PREFIX, d>>) <=> Found(s, d, i)
<1> DEFINE p == <<ARG_PREFIX, d>>
<1>1. Len(p) = 2 /\ p \in Seq(C) /\ p[1] = ARG_PREFIX /\ p[2] = d /\ Len(s) \in Nat
  BY LenProperties
<1>2. i + Len(p) - 1 <= Len(s) <=> i < Len(s)
  BY <1>1
<1>3. CASE i < Len(s)
  <2> DEFINE q == SubSeq(s, i, i + 1)
  <2>1. \A k \in i..(i + 1) : s[k] \in C
    BY <1>1, <1>3, ElementOfSeq
  <2>2. q \in Seq(C) /\ Len(q) = 2 /\ q[1] = s[i] /\ q[2] = s[i + 1]
    <3>1. /\ q \in Seq(C) /\ Len(q) = IF i <= i + 1 THEN i + 1 - i + 1 ELSE 0
          /\ \A k \in 1..(i + 1 - i + 1) : q[k] = s[i + k - 1]
      BY <2>1, SubSeqProperties
    <3> HIDE DEF q
    <3>2. Len(q) = 2 /\ 1 \in 1..(i + 1 - i + 1) /\ 2 \in 1..(i + 1 - i + 1)
      BY <3>1
    <3>3. q[1] = s[i + 1 - 1] /\ q[2] = s[i + 2 - 1]
      BY <3>1, <3>2
    <3>4. i + 1 - 1 = i /\ i + 2 - 1 = i + 1
      OBVIOUS
    <3> QED
      BY <3>1, <3>2, <3>3, <3>4
  <2>3. i + Len(p) - 1 = i + 1
    BY <1>1
  <2> HIDE DEF p, q
  <2>4. q = p <=> q[1] = p[1] /\ q[2] = p[2]
    <3>1. ASSUME q[1] = p[1], q[2] = p[2] PROVE q = p
      <4>1. \A k \in 1..Len(q) : q[k] = p[k]
        BY <2>2, <3>1
      <4> QED
        BY <1>1, <2>2, <4>1, SeqEqual
    <3> QED
      BY <3>1
  <2>5. At(s, i, p) <=> q = p
    BY <1>2, <1>3, <2>3 DEF At, q
  <2> QED
    BY <1>1, <1>3, <2>2, <2>4, <2>5 DEF Found, p
<1>4. CASE ~(i < Len(s))
  BY <1>2, <1>4 DEF At, Found
<1> QED
  BY <1>3, <1>4

LEMMA ReplaceExists ==
  ASSUME NEW C, NEW s \in Seq(C), NEW d, NEW to \in Seq(C)
  PROVE  \E after : Replaces(after, s, d, to)
<1> DEFINE n == Len(s)
           V == Seq(C)
           g == [i \in 1..n |-> IF Found(s, d, i) THEN i + 2 ELSE i + 1]
           F == [i \in 1..n |-> [x \in V |->
                   IF Found(s, d, i) THEN to \o x ELSE <<s[i]>> \o x]]
<1>1. n \in Nat /\ \A i \in 1..n : s[i] \in C /\ <<s[i]>> \in Seq(C)
  BY LenProperties, ElementOfSeq
<1>2. Ahead(g, n)
  BY <1>1 DEF Ahead, Found
<1>3. Closed(F, n, V)
  <2>1. \A i \in 1..n : \A x \in V : to \o x \in V /\ <<s[i]>> \o x \in V
    BY <1>1, ConcatProperties
  <2> HIDE DEF V
  <2> QED
    BY <2>1 DEF Closed
<1>4. <<>> \in V
  BY EmptySeq
<1> HIDE DEF V, F, g
<1>5. PICK f : Recursion(f, n, V, <<>>, g, F)
  <2>1. n \in Nat
    BY <1>1
  <2> HIDE DEF n
  <2> QED
    BY <2>1, <1>2, <1>3, <1>4, RecursionDown
<1>6. \A i \in 1..(n + 1) : f[i] = Replacing(f, s, d, to, i)
  <2> SUFFICES ASSUME NEW i \in 1..(n + 1) PROVE f[i] = Replacing(f, s, d, to, i)
    OBVIOUS
  <2>1. CASE i = n + 1
    BY <1>1, <1>5, <2>1 DEF Replacing, Recursion
  <2>2. CASE i # n + 1
    <3>1. i \in 1..n /\ ~(i > Len(s))
      BY <1>1, <2>2
    <3>2. g[i] \in 1..(n + 1)
      BY <1>1, <1>2, <3>1 DEF Ahead
    <3>3. f[g[i]] \in V /\ f[i] = F[i][f[g[i]]]
      BY <1>5, <3>1, <3>2 DEF Recursion
    <3>4. g[i] = IF Found(s, d, i) THEN i + 2 ELSE i + 1
      BY <3>1 DEF g
    <3>5. F[i][f[g[i]]] = IF Found(s, d, i) THEN to \o f[g[i]] ELSE <<s[i]>> \o f[g[i]]
      BY <3>1, <3>3 DEF F
    <3> QED
      BY <3>1, <3>3, <3>4, <3>5 DEF Replacing
  <2> QED
    BY <2>1, <2>2
<1>7. f = [i \in 1..(n + 1) |-> f[i]]
  BY <1>5 DEF Recursion
<1>8. Replaces(f, s, d, to)
  BY <1>6, <1>7 DEF Replaces
<1> QED
  BY <1>8

LEMMA ReplaceIs ==
  ASSUME NEW C, ARG_PREFIX \in C, NEW s \in Seq(C), NEW d \in C, NEW to \in Seq(C)
  PROVE  /\ ReplaceEach(s, <<ARG_PREFIX, d>>, to) \in Seq(C)
         /\ \E after : Replaces(after, s, d, to) /\ ReplaceEach(s, <<ARG_PREFIX, d>>, to) = after[1]
<1> DEFINE after == CHOOSE f : Replaces(f, s, d, to)
           n == Len(s)
<1>1. Replaces(after, s, d, to)
  BY ReplaceExists
<1>3. n \in Nat /\ \A i \in 1..n : s[i] \in C /\ <<s[i]>> \in Seq(C)
  BY LenProperties, ElementOfSeq
<1>2. ReplaceEach(s, <<ARG_PREFIX, d>>, to) = after[1]
  <2> DEFINE p == <<ARG_PREFIX, d>>
             at(f, i) == IF i > Len(s) THEN <<>>
                         ELSE IF At(s, i, p) THEN to \o f[i + Len(p)]
                         ELSE <<s[i]>> \o f[i + 1]
             G(f) == f = [i \in 1..(Len(s) + 1) |-> at(f, i)]
  <2>1. ReplaceEach(s, p, to) = (CHOOSE f : G(f))[1]
    BY DEF ReplaceEach
  <2>2. Len(p) = 2
    OBVIOUS
  <2>3. \A i \in 1..n : At(s, i, p) <=> Found(s, d, i)
    BY FoundIs
  <2>4. \A f : \A i \in 1..(Len(s) + 1) : at(f, i) = Replacing(f, s, d, to, i)
    <3> SUFFICES ASSUME NEW f, NEW i \in 1..(n + 1)
                 PROVE  at(f, i) = Replacing(f, s, d, to, i)
      OBVIOUS
    <3>1. i > Len(s) \/ i \in 1..n
      BY <1>3
    <3> HIDE DEF p
    <3> QED
      BY <2>2, <2>3, <3>1 DEF Replacing
  <2> HIDE DEF at, p
  <2>5. \A f : G(f) <=> Replaces(f, s, d, to)
    BY <2>4 DEF Replaces
  <2> HIDE DEF G
  <2>6. (CHOOSE f : G(f)) = after
    BY <2>5
  <2> QED
    BY <2>1, <2>6 DEF p
<1> HIDE DEF after
<1> DEFINE T == {i \in 1..(n + 1) : after[i] \in Seq(C)}
<1>4. ASSUME NEW i \in 1..(n + 1), \A j \in 1..(n + 1) : j > i => j \in T
      PROVE  i \in T
  <2>1. after[i] = Replacing(after, s, d, to, i)
    BY <1>1 DEF Replaces
  <2>2. CASE i = n + 1
    <3>1. i > Len(s)
      BY <1>3, <2>2
    <3>2. after[i] = <<>>
      BY <2>1, <3>1 DEF Replacing
    <3> QED
      BY <3>2, EmptySeq
  <2>3. CASE i # n + 1
    <3>1. i \in 1..n /\ ~(i > Len(s))
      BY <1>3, <2>3
    <3>2. CASE Found(s, d, i)
      <4>1. i + 2 \in 1..(n + 1) /\ i + 2 > i
        BY <1>3, <3>1, <3>2 DEF Found
      <4>2. after[i + 2] \in Seq(C)
        BY <1>4, <4>1
      <4> QED
        BY <2>1, <3>1, <3>2, <4>2, ConcatProperties DEF Replacing
    <3>3. CASE ~Found(s, d, i)
      <4>1. i + 1 \in 1..(n + 1) /\ i + 1 > i
        BY <1>3, <3>1
      <4>2. after[i + 1] \in Seq(C)
        BY <1>4, <4>1
      <4> QED
        BY <1>3, <2>1, <3>1, <3>3, <4>2, ConcatProperties DEF Replacing
    <3> QED
      BY <3>2, <3>3
  <2> QED
    BY <2>2, <2>3
<1>5. 1..(n + 1) \subseteq T
  <2> HIDE DEF T, n
  <2> QED
    BY <1>3, <1>4, Downward
<1>6. 1 \in 1..(n + 1)
  BY <1>3
<1>7. after[1] \in Seq(C)
  BY <1>5, <1>6
<1> QED
  BY <1>1, <1>2, <1>7

LEMMA ReplaceShift ==
  ASSUME NEW C, NEW c \in C, NEW t \in Seq(C), NEW d, NEW to,
         NEW f, Replaces(f, Cons(c, t), d, to), NEW h, Replaces(h, t, d, to)
  PROVE  \A i \in 1..(Len(t) + 1) : f[i + 1] = h[i]
<1> DEFINE s == Cons(c, t)
           n == Len(t)
           T == {i \in 1..(n + 1) : f[i + 1] = h[i]}
<1>1. n \in Nat /\ Len(s) = n + 1 /\ \A i \in 1..n : s[i + 1] = t[i]
  BY ConsIs
<1>2. ASSUME NEW i \in 1..(n + 1), \A j \in 1..(n + 1) : j > i => j \in T
      PROVE  i \in T
  <2>1. i + 1 \in 1..(Len(s) + 1)
    BY <1>1
  <2>2. f[i + 1] = Replacing(f, s, d, to, i + 1) /\ h[i] = Replacing(h, t, d, to, i)
    BY <2>1 DEF Replaces
  <2> HIDE DEF s
  <2>3. CASE i = n + 1
    <3>1. i + 1 > Len(s) /\ i > Len(t)
      BY <1>1, <2>3
    <3> QED
      BY <2>2, <3>1 DEF Replacing
  <2>4. CASE i # n + 1
    <3>1. i \in 1..n /\ i + 1 \in 1..(n + 1) /\ ~(i > Len(t)) /\ ~(i + 1 > Len(s))
      BY <1>1, <2>4
    <3>2. f[i + 1 + 1] = h[i + 1] /\ s[i + 1] = t[i]
      BY <1>1, <1>2, <3>1
    <3>3. Found(s, d, i + 1) <=> Found(t, d, i)
      <4>1. i + 1 < Len(s) <=> i < Len(t)
        BY <1>1
      <4>2. i < Len(t) => s[i + 1 + 1] = t[i + 1]
        BY <1>1, <3>1
      <4> QED
        BY <3>2, <4>1, <4>2 DEF Found
    <3>4. Found(t, d, i) => f[i + 1 + 2] = h[i + 2]
      <4>1. Found(t, d, i) => i + 2 \in 1..(n + 1) /\ i + 2 > i
        BY <1>1, <3>1 DEF Found
      <4>2. i + 1 + 2 = i + 2 + 1
        OBVIOUS
      <4> QED
        BY <1>2, <4>1, <4>2
    <3> QED
      BY <2>2, <3>1, <3>2, <3>3, <3>4 DEF Replacing
  <2> QED
    BY <2>3, <2>4
<1>3. 1..(n + 1) \subseteq T
  <2> HIDE DEF T, n
  <2> QED
    BY <1>1, <1>2, Downward
<1> QED
  BY <1>3

\* replace_all takes a text from left to right.
LEMMA ReplaceEmpty ==
  ASSUME NEW C, ARG_PREFIX \in C, NEW d \in C, NEW to \in Seq(C)
  PROVE  ReplaceEach(<<>>, <<ARG_PREFIX, d>>, to) = <<>>
<1>1. PICK f : Replaces(f, <<>>, d, to) /\ ReplaceEach(<<>>, <<ARG_PREFIX, d>>, to) = f[1]
  <2>1. \A x \in Seq(C) :
          \E f : Replaces(f, x, d, to) /\ ReplaceEach(x, <<ARG_PREFIX, d>>, to) = f[1]
    BY ReplaceIs
  <2>2. <<>> \in Seq(C)
    BY EmptySeq
  <2> QED
    BY <2>1, <2>2
<1>2. Len(<<>>) = 0 /\ 1 \in 1..(Len(<<>>) + 1) /\ 1 > Len(<<>>)
  OBVIOUS
<1>3. f[1] = Replacing(f, <<>>, d, to, 1)
  BY <1>1, <1>2 DEF Replaces
<1> QED
  BY <1>1, <1>2, <1>3 DEF Replacing

LEMMA ReplaceCons ==
  ASSUME NEW C, ARG_PREFIX \in C, NEW c \in C, NEW t \in Seq(C), NEW d \in C, NEW to \in Seq(C),
         ~(c = ARG_PREFIX /\ t # <<>> /\ t[1] = d)
  PROVE  ReplaceEach(Cons(c, t), <<ARG_PREFIX, d>>, to) = Cons(c, ReplaceEach(t, <<ARG_PREFIX, d>>, to))
<1> DEFINE s == Cons(c, t)
<1>1. s \in Seq(C) /\ Len(s) = Len(t) + 1 /\ Len(t) \in Nat /\ s[1] = c
  BY ConsIs
<1>2. Len(t) # 0 => s[2] = t[1] /\ t # <<>>
  <2>1. Len(t) # 0 => 1 \in 1..Len(t)
    BY <1>1
  <2>2. \A i \in 1..Len(t) : s[i + 1] = t[i]
    BY ConsIs
  <2> QED
    BY <2>1, <2>2, EmptySeq
<1>3. PICK f : Replaces(f, s, d, to) /\ ReplaceEach(s, <<ARG_PREFIX, d>>, to) = f[1]
  BY <1>1, ReplaceIs
<1>4. PICK h : Replaces(h, t, d, to) /\ ReplaceEach(t, <<ARG_PREFIX, d>>, to) = h[1]
  BY ReplaceIs
<1>5. f[2] = h[1]
  <2>1. 1 \in 1..(Len(t) + 1) /\ 1 + 1 = 2
    BY <1>1
  <2> QED
    BY <1>3, <1>4, <2>1, ReplaceShift
<1> HIDE DEF s
<1>6. f[1] = Replacing(f, s, d, to, 1)
  <2>1. 1 \in 1..(Len(s) + 1)
    BY <1>1
  <2> QED
    BY <1>3, <2>1 DEF Replaces
<1>7. ~Found(s, d, 1) /\ ~(1 > Len(s)) /\ 1 + 1 = 2
  BY <1>1, <1>2 DEF Found
<1>8. f[1] = <<c>> \o f[2]
  BY <1>1, <1>6, <1>7 DEF Replacing
<1> QED
  BY <1>3, <1>4, <1>5, <1>8 DEF Cons, s

LEMMA ReplaceHere ==
  ASSUME NEW C, ARG_PREFIX \in C, NEW u \in Seq(C), NEW d \in C, NEW to \in Seq(C)
  PROVE  ReplaceEach(Cons(ARG_PREFIX, Cons(d, u)), <<ARG_PREFIX, d>>, to)
           = to \o ReplaceEach(u, <<ARG_PREFIX, d>>, to)
<1> DEFINE t == Cons(d, u)
           s == Cons(ARG_PREFIX, t)
<1>0. \A c \in C : \A x \in Seq(C) :
        /\ Cons(c, x) \in Seq(C) /\ Len(Cons(c, x)) = Len(x) + 1
        /\ Cons(c, x)[1] = c /\ \A i \in 1..Len(x) : Cons(c, x)[i + 1] = x[i]
  BY ConsIs
<1>1. t \in Seq(C) /\ Len(t) = Len(u) + 1 /\ Len(u) \in Nat /\ t[1] = d
  BY ConsIs
<1> HIDE DEF t
<1>2. s \in Seq(C) /\ Len(s) = Len(t) + 1 /\ s[1] = ARG_PREFIX /\ \A i \in 1..Len(t) : s[i + 1] = t[i]
  BY <1>0, <1>1
<1> HIDE DEF s
<1>3. s[2] = d
  <2>1. 1 \in 1..Len(t) /\ 1 + 1 = 2
    BY <1>1
  <2> QED
    BY <1>1, <1>2, <2>1
<1>4. PICK f : Replaces(f, s, d, to) /\ ReplaceEach(s, <<ARG_PREFIX, d>>, to) = f[1]
  BY <1>2, ReplaceIs
<1>5. PICK h : Replaces(h, t, d, to)
  BY <1>1, ReplaceIs
<1>6. PICK k : Replaces(k, u, d, to) /\ ReplaceEach(u, <<ARG_PREFIX, d>>, to) = k[1]
  BY ReplaceIs
<1>7. f[3] = h[2]
  <2>1. 2 \in 1..(Len(t) + 1) /\ 2 + 1 = 3
    BY <1>1
  <2> QED
    BY <1>1, <1>4, <1>5, <2>1, ReplaceShift DEF s
<1>8. h[2] = k[1]
  <2>1. 1 \in 1..(Len(u) + 1) /\ 1 + 1 = 2
    BY <1>1
  <2> QED
    BY <1>5, <1>6, <2>1, ReplaceShift DEF t
<1>9. f[1] = Replacing(f, s, d, to, 1)
  <2>1. 1 \in 1..(Len(s) + 1)
    BY <1>1, <1>2
  <2> QED
    BY <1>4, <2>1 DEF Replaces
<1>10. Found(s, d, 1) /\ ~(1 > Len(s)) /\ 1 + 2 = 3 /\ 1 + 1 = 2
  BY <1>1, <1>2, <1>3 DEF Found
<1>11. f[1] = to \o f[3]
  BY <1>9, <1>10 DEF Replacing
<1> QED
  BY <1>4, <1>6, <1>7, <1>8, <1>11 DEF s, t

\* It leaves what comes in front and has no $ as it is.
LEMMA ReplaceBehind ==
  ASSUME NEW C, ARG_PREFIX \in C, NEW d \in C, NEW to \in Seq(C), NEW t \in Seq(C)
  PROVE  \A a \in Seq(C) : ARG_PREFIX \notin Range(a) =>
           ReplaceEach(a \o t, <<ARG_PREFIX, d>>, to) = a \o ReplaceEach(t, <<ARG_PREFIX, d>>, to)
<1> DEFINE R(x) == ReplaceEach(x, <<ARG_PREFIX, d>>, to)
           T == {a \in Seq(C) : ARG_PREFIX \notin Range(a) => R(a \o t) = a \o R(t)}
<1>0. Conses(C)
  BY ConsesIs
<1>1. \A x \in Seq(C) : R(x) \in Seq(C)
  BY ReplaceIs
<1>4. \A c \in C : \A b, x \in Seq(C) : Cons(c, b) \o x = Cons(c, b \o x)
  <2>1. ConsAssociative(C)
    BY ConsAssoc
  <2> QED
    BY <2>1 DEF ConsAssociative
<1>5. \A c \in C : \A x \in Seq(C) : c # ARG_PREFIX => R(Cons(c, x)) = Cons(c, R(x))
  BY ReplaceCons
<1>2. ASSUME NEW a \in Seq(C), \A b \in Seq(C) : Len(b) < Len(a) => b \in T
      PROVE  a \in T
  <2> HIDE DEF R
  <2>1. CASE a = <<>>
    BY <1>1, <2>1, ConcatEmptySeq
  <2>2. CASE a # <<>>
    <3>1. PICK c \in C, b \in Seq(C) :
            a = Cons(c, b) /\ Len(a) = Len(b) + 1 /\ Len(b) \in Nat
      BY <1>0, <2>2 DEF Conses
    <3>2. Len(b) < Len(a)
      BY <3>1
    <3>3. SUFFICES ASSUME ARG_PREFIX \notin Range(a) PROVE R(a \o t) = a \o R(t)
      OBVIOUS
    <3>4. c # ARG_PREFIX /\ ARG_PREFIX \notin Range(b)
      BY <3>1, <3>3, RangeCons
    <3>5. R(b \o t) = b \o R(t)
      BY <1>2, <3>2, <3>4
    <3>6. b \o t \in Seq(C)
      BY ConcatProperties
    <3>7. Cons(c, b) \o t = Cons(c, b \o t) /\ Cons(c, b) \o R(t) = Cons(c, b \o R(t))
      BY <1>1, <1>4
    <3>8. R(Cons(c, b \o t)) = Cons(c, R(b \o t))
      BY <1>5, <3>4, <3>6
    <3> QED
      BY <3>1, <3>5, <3>7, <3>8
  <2> QED
    BY <2>1, <2>2
<1>3. Seq(C) \subseteq T
  <2> HIDE DEF T
  <2> QED
    BY <1>2, TextInduction
<1> QED
  BY <1>3

-----------------------------------------------------------------------------
(* Placeholders of less than ten parameters: a $ and one digit, without a  *)
(* second one behind it.                                                   *)
Holder(args, s, i, n) ==
  /\ n \in 1..Len(args) /\ i < Len(s) /\ s[i] = ARG_PREFIX /\ s[i + 1] = Digits[n + 1]
  /\ i + 1 = Len(s) \/ ~IsDigit(s[i + 2])

LEMMA DigitsDistinct ==
  /\ \A m, n \in 1..10 : Digits[m] = Digits[n] => m = n
  /\ \A n \in 1..10 : IsDigit(Digits[n]) /\ Digits[n] # ARG_PREFIX
<1>1. DOMAIN Digits = 1..10
  BY DEF Digits
<1>2. \A n \in 1..10 : Digits[n] # ARG_PREFIX
  BY DEF Digits, ARG_PREFIX
<1>3. \A m, n \in 1..10 : Digits[m] = Digits[n] => m = n
  BY DEF Digits
<1> QED
  BY <1>1, <1>2, <1>3 DEF IsDigit

LEMMA RunIs ==
  ASSUME NEW C, NEW s \in Seq(C), NEW i \in 1..(Len(s) + 1)
  PROVE  /\ DigitRun(s, i) \in 0..Len(s)
         /\ \A k \in i..i + DigitRun(s, i) - 1 : k <= Len(s) /\ IsDigit(s[k])
         /\ i + DigitRun(s, i) > Len(s) \/ ~IsDigit(s[i + DigitRun(s, i)])
<1> DEFINE L == Len(s)
           Stop == {n \in 0..L : i + n > L \/ ~IsDigit(s[i + n])}
           RunHere(m) == /\ \A k \in i..i + m - 1 : k <= Len(s) /\ IsDigit(s[k])
                         /\ i + m > Len(s) \/ ~IsDigit(s[i + m])
<1>1. L \in Nat
  BY LenProperties
<1>2. L \in Stop /\ Stop \subseteq Nat
  BY <1>1
<1>3. PICK m \in Stop : \A n \in Stop : m <= n
  <2> HIDE DEF Stop
  <2> QED
    BY <1>2, LeastNat
<1>4. ASSUME NEW k \in i..i + m - 1 PROVE k <= L /\ IsDigit(s[k])
  <2>1. k - i \in 0..L /\ k - i < m /\ i + (k - i) = k
    BY <1>1, <1>3
  <2>2. k - i \notin Stop
    <3>1. m \in Nat
      BY <1>2, <1>3
    <3> HIDE DEF Stop
    <3> QED
      BY <1>3, <2>1, <3>1
  <2> QED
    BY <2>1, <2>2
<1>5. m \in 0..Len(s) /\ RunHere(m)
  BY <1>3, <1>4
<1>6. DigitRun(s, i) = CHOOSE n \in 0..Len(s) : RunHere(n)
  BY DEF DigitRun
<1> HIDE DEF RunHere
<1>7. DigitRun(s, i) \in 0..Len(s) /\ RunHere(DigitRun(s, i))
  BY <1>5, <1>6
<1> QED
  BY <1>7 DEF RunHere

LEMMA OneCharacter ==
  ASSUME NEW C, NEW s \in Seq(C), NEW k \in 1..Len(s)
  PROVE  SubSeq(s, k, k) = <<s[k]>>
<1>1. k \in k..Len(s) /\ Len(s) \in Nat /\ s[k] \in C
  BY LenProperties, ElementOfSeq
<1>2. SubSeq(s, k, k) = <<s[k]>> \o SubSeq(s, k + 1, k)
  BY <1>1, SubSeqRecursiveFirst
<1>3. SubSeq(s, k + 1, k) = <<>>
  BY <1>1, SubSeqEmpty
<1>4. <<s[k]>> \in Seq(C)
  BY <1>1
<1> QED
  BY <1>2, <1>3, <1>4, ConcatEmptySeq

LEMMA NumberIs ==
  ASSUME NEW C, NEW s \in Seq(C), NEW args \in Seq(Seq(C)), Len(args) < 10,
         NEW i \in 1..Len(s)
  PROVE  /\ \A n : s[i] = ARG_PREFIX /\ n \in Numbers(args, s, i) <=> Holder(args, s, i, n)
         /\ (\E n : Holder(args, s, i, n)) => DigitRun(s, i + 1) = 1
<1> DEFINE m == DigitRun(s, i + 1)
           L == Len(s)
<1>1. L \in Nat /\ i + 1 \in 1..(Len(s) + 1)
  BY LenProperties
<1>2. /\ m \in 0..L
      /\ \A k \in (i + 1)..(i + 1 + m - 1) : k <= L /\ IsDigit(s[k])
      /\ i + 1 + m > L \/ ~IsDigit(s[i + 1 + m])
  BY <1>1, RunIs
<1>3. \A n \in 1..Len(args) : Number(n) = <<Digits[n + 1]>>
  <2>1. \A n \in 1..Len(args) : n < 10
    BY LenProperties
  <2> QED
    BY <2>1, Zenon DEF Number
<1>4. \A n \in 1..Len(args) : n + 1 \in 1..10 /\ IsDigit(Digits[n + 1])
  <2>1. \A n \in 1..Len(args) : n + 1 \in 1..10
    BY LenProperties
  <2> QED
    BY <2>1, DigitsDistinct, Zenon
<1>5. \A n : n \in Numbers(args, s, i) <=>
               n \in 1..Len(args) /\ <<Digits[n + 1]>> = SubSeq(s, i + 1, i + m)
  BY <1>3 DEF Numbers
<1> HIDE DEF m
<1>6. ASSUME NEW n, n \in Numbers(args, s, i)
      PROVE  m = 1 /\ n \in 1..Len(args) /\ s[i + 1] = Digits[n + 1]
  <2>1. n \in 1..Len(args) /\ <<Digits[n + 1]>> = SubSeq(s, i + 1, i + m)
    BY <1>5, <1>6
  <2>2. \A k \in (i + 1)..(i + m) : s[k] \in C
    <3>1. ASSUME NEW k \in (i + 1)..(i + m) PROVE s[k] \in C
      <4>1. k \in (i + 1)..(i + 1 + m - 1)
        BY <1>1, <1>2
      <4>2. k \in 1..Len(s)
        BY <1>1, <1>2, <4>1
      <4> QED
        BY <4>2, ElementOfSeq
    <3> QED
      BY <3>1
  <2>3. Len(SubSeq(s, i + 1, i + m)) = IF i + 1 <= i + m THEN i + m - (i + 1) + 1 ELSE 0
    BY <1>1, <1>2, <2>2, SubSeqProperties
  <2>4. m = 1
    BY <1>1, <1>2, <2>1, <2>3
  <2>5. i + 1 \in 1..Len(s)
    BY <1>1, <1>2, <2>4
  <2>6. <<Digits[n + 1]>> = <<s[i + 1]>>
    BY <2>1, <2>4, <2>5, OneCharacter
  <2> QED
    BY <2>1, <2>4, <2>6
<1>7. ASSUME NEW n, s[i] = ARG_PREFIX, n \in Numbers(args, s, i) PROVE Holder(args, s, i, n)
  <2>1. m = 1 /\ n \in 1..Len(args) /\ s[i + 1] = Digits[n + 1]
    BY <1>6, <1>7
  <2>2. i + 1 \in (i + 1)..(i + 1 + m - 1) /\ i + 1 + m = i + 2
    BY <1>1, <2>1
  <2>3. i + 1 <= L /\ (i + 2 > L \/ ~IsDigit(s[i + 2]))
    BY <1>2, <2>2
  <2>4. i < Len(s) /\ (i + 1 = Len(s) \/ ~IsDigit(s[i + 2]))
    BY <1>1, <2>3
  <2> QED
    BY <1>7, <2>1, <2>4 DEF Holder
<1>8. ASSUME NEW n, Holder(args, s, i, n)
      PROVE  m = 1 /\ n \in Numbers(args, s, i) /\ s[i] = ARG_PREFIX
  <2>1. /\ n \in 1..Len(args) /\ i < Len(s) /\ s[i] = ARG_PREFIX
        /\ s[i + 1] = Digits[n + 1] /\ (i + 1 = Len(s) \/ ~IsDigit(s[i + 2]))
    BY <1>8 DEF Holder
  <2>2. IsDigit(s[i + 1])
    BY <1>4, <2>1
  <2>3. m # 0
    <3>1. CASE m = 0
      <4>1. i + 1 + m = i + 1 /\ ~(i + 1 > L)
        BY <1>1, <2>1, <3>1
      <4> QED
        BY <1>2, <2>2, <4>1
    <3> QED
      BY <3>1
  <2>4. m < 2
    <3>1. CASE m >= 2
      <4>1. i + 2 \in (i + 1)..(i + 1 + m - 1)
        BY <1>1, <1>2, <3>1
      <4>2. i + 2 <= L /\ IsDigit(s[i + 2])
        BY <1>2, <4>1
      <4> QED
        BY <1>1, <2>1, <4>2
    <3> QED
      BY <1>2, <3>1
  <2>5. m = 1
    BY <1>2, <2>3, <2>4
  <2>6. i + 1 \in 1..Len(s)
    BY <1>1, <2>1
  <2>7. SubSeq(s, i + 1, i + m) = <<s[i + 1]>>
    BY <2>5, <2>6, OneCharacter
  <2> QED
    BY <1>5, <2>1, <2>5, <2>7
<1> QED
  BY <1>7, <1>8 DEF m

-----------------------------------------------------------------------------
(* Expand.                                                                 *)
HeldAt(args, s, i) == CHOOSE n : Holder(args, s, i, n)
IsHolder(args, s, i) == \E n : Holder(args, s, i, n)
Expanding(after, args, s, i) ==
  IF i > Len(s) THEN <<>>
  ELSE IF IsHolder(args, s, i) THEN args[HeldAt(args, s, i)] \o after[i + 2]
  ELSE <<s[i]>> \o after[i + 1]
Expands(after, args, s) == after = [i \in 1..(Len(s) + 1) |-> Expanding(after, args, s, i)]

\* A placeholder is that of one parameter.
LEMMA HeldOnce ==
  ASSUME NEW C, NEW args \in Seq(Seq(C)), Len(args) < 10, NEW s, NEW i, NEW n,
         Holder(args, s, i, n)
  PROVE  HeldAt(args, s, i) = n /\ args[n] \in Seq(C) /\ i < Len(s)
<1>1. \A m : Holder(args, s, i, m) => m \in 1..Len(args) /\ s[i + 1] = Digits[m + 1]
  BY DEF Holder
<1>2. \A m \in 1..Len(args) : m \in Nat /\ m + 1 \in 1..10
  BY LenProperties
<1>3. \A m : Holder(args, s, i, m) => m = n
  <2> SUFFICES ASSUME NEW m, Holder(args, s, i, m) PROVE m = n
    OBVIOUS
  <2>0. Digits[m + 1] = Digits[n + 1]
    BY <1>1
  <2>1. Digits[m + 1] = Digits[n + 1] /\ m + 1 \in 1..10 /\ n + 1 \in 1..10
    BY <1>1, <1>2, <2>0, Zenon
  <2>2. m + 1 = n + 1
    BY <2>1, DigitsDistinct, Zenon
  <2>3. m \in Nat /\ n \in Nat
    BY <1>1, <1>2
  <2> QED
    BY <2>2, <2>3
<1>4. HeldAt(args, s, i) = n
  BY <1>3 DEF HeldAt
<1>5. n \in 1..Len(args) /\ i < Len(s)
  BY DEF Holder
<1> QED
  BY <1>4, <1>5, ElementOfSeq

LEMMA ExpandExists ==
  ASSUME NEW C, NEW s \in Seq(C), NEW args \in Seq(Seq(C)), Len(args) < 10
  PROVE  \E after : Expands(after, args, s)
<1> DEFINE n == Len(s)
           V == Seq(C)
           g == [i \in 1..n |-> IF IsHolder(args, s, i) THEN i + 2 ELSE i + 1]
           F == [i \in 1..n |-> [x \in V |->
                   IF IsHolder(args, s, i) THEN args[HeldAt(args, s, i)] \o x ELSE <<s[i]>> \o x]]
<1>1. n \in Nat /\ \A i \in 1..n : s[i] \in C /\ <<s[i]>> \in Seq(C)
  BY LenProperties, ElementOfSeq
<1>2. \A i \in 1..n : IsHolder(args, s, i) => args[HeldAt(args, s, i)] \in Seq(C) /\ i < n
  BY HeldOnce DEF IsHolder
<1>3. Ahead(g, n)
  BY <1>1, <1>2 DEF Ahead
<1>4. Closed(F, n, V)
  <2>1. \A i \in 1..n : \A x \in V :
          /\ IsHolder(args, s, i) => args[HeldAt(args, s, i)] \o x \in V
          /\ <<s[i]>> \o x \in V
    BY <1>1, <1>2, ConcatProperties
  <2> HIDE DEF V
  <2> QED
    BY <2>1 DEF Closed
<1>5. <<>> \in V
  BY EmptySeq
<1> HIDE DEF V, F, g
<1>6. PICK f : Recursion(f, n, V, <<>>, g, F)
  <2>1. n \in Nat
    BY <1>1
  <2> HIDE DEF n
  <2> QED
    BY <2>1, <1>3, <1>4, <1>5, RecursionDown
<1>7. \A i \in 1..(n + 1) : f[i] = Expanding(f, args, s, i)
  <2> SUFFICES ASSUME NEW i \in 1..(n + 1) PROVE f[i] = Expanding(f, args, s, i)
    OBVIOUS
  <2>1. CASE i = n + 1
    BY <1>1, <1>6, <2>1 DEF Expanding, Recursion
  <2>2. CASE i # n + 1
    <3>1. i \in 1..n /\ ~(i > Len(s))
      BY <1>1, <2>2
    <3>2. g[i] \in 1..(n + 1)
      BY <1>1, <1>3, <3>1 DEF Ahead
    <3>3. f[g[i]] \in V /\ f[i] = F[i][f[g[i]]]
      BY <1>6, <3>1, <3>2 DEF Recursion
    <3>4. g[i] = IF IsHolder(args, s, i) THEN i + 2 ELSE i + 1
      BY <3>1 DEF g
    <3>5. F[i][f[g[i]]] = IF IsHolder(args, s, i) THEN args[HeldAt(args, s, i)] \o f[g[i]]
                          ELSE <<s[i]>> \o f[g[i]]
      BY <3>1, <3>3 DEF F
    <3> QED
      BY <3>1, <3>3, <3>4, <3>5 DEF Expanding
  <2> QED
    BY <2>1, <2>2
<1>8. f = [i \in 1..(n + 1) |-> f[i]]
  BY <1>6 DEF Recursion
<1>9. Expands(f, args, s)
  BY <1>7, <1>8 DEF Expands
<1> QED
  BY <1>9

LEMMA ExpandIs ==
  ASSUME NEW C, NEW s \in Seq(C), NEW args \in Seq(Seq(C)), Len(args) < 10
  PROVE  /\ Expand(args, s) \in Seq(C)
         /\ \E after : Expands(after, args, s) /\ Expand(args, s) = after[1]
<1> DEFINE after == CHOOSE f : Expands(f, args, s)
           n == Len(s)
<1>1. Expands(after, args, s)
  BY ExpandExists
<1>2. n \in Nat /\ \A i \in 1..n : s[i] \in C /\ <<s[i]>> \in Seq(C)
  BY LenProperties, ElementOfSeq
<1>3. \A i \in 1..n : IsHolder(args, s, i) => args[HeldAt(args, s, i)] \in Seq(C) /\ i < n
  BY HeldOnce DEF IsHolder
<1>4. Expand(args, s) = after[1]
  <2> DEFINE held(i) == CHOOSE m \in Numbers(args, s, i) : TRUE
             at(f, i) == IF i > Len(s) THEN <<>>
                         ELSE IF s[i] = ARG_PREFIX /\ Numbers(args, s, i) # {}
                              THEN args[held(i)] \o f[i + 1 + DigitRun(s, i + 1)]
                         ELSE <<s[i]>> \o f[i + 1]
             G(f) == f = [i \in 1..(Len(s) + 1) |-> at(f, i)]
  <2>1. Expand(args, s) = (CHOOSE f : G(f))[1]
    BY DEF Expand
  <2>2. \A i \in 1..n : s[i] = ARG_PREFIX /\ Numbers(args, s, i) # {} <=> IsHolder(args, s, i)
    BY NumberIs DEF IsHolder
  <2>3. \A i \in 1..n : IsHolder(args, s, i) =>
          held(i) = HeldAt(args, s, i) /\ i + 1 + DigitRun(s, i + 1) = i + 2
    <3> SUFFICES ASSUME NEW i \in 1..n, IsHolder(args, s, i)
                 PROVE  held(i) = HeldAt(args, s, i) /\ i + 1 + DigitRun(s, i + 1) = i + 2
      OBVIOUS
    <3>1. s[i] = ARG_PREFIX /\ Numbers(args, s, i) # {}
      BY <2>2
    <3>2. held(i) \in Numbers(args, s, i)
      BY <3>1
    <3>3. Holder(args, s, i, held(i)) /\ DigitRun(s, i + 1) = 1
      BY <3>1, <3>2, NumberIs
    <3> HIDE DEF held
    <3> QED
      BY <3>3, HeldOnce
  <2>4. \A f : \A i \in 1..(Len(s) + 1) : at(f, i) = Expanding(f, args, s, i)
    <3> SUFFICES ASSUME NEW f, NEW i \in 1..(n + 1)
                 PROVE  at(f, i) = Expanding(f, args, s, i)
      OBVIOUS
    <3>1. i > Len(s) \/ i \in 1..n
      BY <1>2
    <3> HIDE DEF held
    <3> QED
      BY <2>2, <2>3, <3>1 DEF Expanding
  <2> HIDE DEF at
  <2>5. \A f : G(f) <=> Expands(f, args, s)
    BY <2>4 DEF Expands
  <2> HIDE DEF G
  <2>6. (CHOOSE f : G(f)) = after
    BY <2>5
  <2> QED
    BY <2>1, <2>6
<1> HIDE DEF after
<1> DEFINE T == {i \in 1..(n + 1) : after[i] \in Seq(C)}
<1>5. ASSUME NEW i \in 1..(n + 1), \A j \in 1..(n + 1) : j > i => j \in T
      PROVE  i \in T
  <2>1. after[i] = Expanding(after, args, s, i)
    BY <1>1 DEF Expands
  <2>2. CASE i = n + 1
    <3>1. i > Len(s)
      BY <1>2, <2>2
    <3>2. after[i] = <<>>
      BY <2>1, <3>1 DEF Expanding
    <3> QED
      BY <3>2, EmptySeq
  <2>3. CASE i # n + 1
    <3>1. i \in 1..n /\ ~(i > Len(s))
      BY <1>2, <2>3
    <3>2. CASE IsHolder(args, s, i)
      <4>1. i + 2 \in 1..(n + 1) /\ i + 2 > i
        BY <1>2, <1>3, <3>1, <3>2
      <4>2. after[i + 2] \in Seq(C) /\ args[HeldAt(args, s, i)] \in Seq(C)
        BY <1>3, <1>5, <3>1, <3>2, <4>1
      <4>3. after[i] = args[HeldAt(args, s, i)] \o after[i + 2]
        BY <2>1, <3>1, <3>2 DEF Expanding
      <4> QED
        BY <4>2, <4>3, ConcatProperties
    <3>3. CASE ~IsHolder(args, s, i)
      <4>1. i + 1 \in 1..(n + 1) /\ i + 1 > i
        BY <1>2, <3>1
      <4>2. after[i + 1] \in Seq(C) /\ <<s[i]>> \in Seq(C)
        BY <1>2, <1>5, <3>1, <4>1
      <4>3. after[i] = <<s[i]>> \o after[i + 1]
        BY <2>1, <3>1, <3>3 DEF Expanding
      <4> QED
        BY <4>2, <4>3, ConcatProperties
    <3> QED
      BY <3>2, <3>3
  <2> QED
    BY <2>2, <2>3
<1>6. 1..(n + 1) \subseteq T
  <2> HIDE DEF T, n
  <2> QED
    BY <1>2, <1>5, Downward
<1>7. 1 \in 1..(n + 1)
  BY <1>2
<1>8. after[1] \in Seq(C)
  BY <1>6, <1>7
<1> QED
  BY <1>1, <1>4, <1>8

\* A placeholder is one wherever the text in front of it begins.
LEMMA HolderShift ==
  ASSUME NEW C, NEW c \in C, NEW t \in Seq(C), NEW args, NEW i \in 1..Len(t)
  PROVE  /\ \A n : Holder(args, Cons(c, t), i + 1, n) <=> Holder(args, t, i, n)
         /\ IsHolder(args, Cons(c, t), i + 1) <=> IsHolder(args, t, i)
         /\ HeldAt(args, Cons(c, t), i + 1) = HeldAt(args, t, i)
<1> DEFINE s == Cons(c, t)
<1>1. /\ Len(t) \in Nat /\ Len(s) = Len(t) + 1
      /\ \A k \in 1..Len(t) : s[k + 1] = t[k]
  BY ConsIs
<1> HIDE DEF s
<1>2. ASSUME NEW n PROVE Holder(args, s, i + 1, n) <=> Holder(args, t, i, n)
  <2>1. i + 1 < Len(s) <=> i < Len(t)
    BY <1>1
  <2>2. i + 1 + 1 = Len(s) <=> i + 1 = Len(t)
    BY <1>1
  <2>3. s[i + 1] = t[i]
    BY <1>1
  <2>4. i < Len(t) => s[i + 1 + 1] = t[i + 1]
    BY <1>1
  <2>5. i < Len(t) /\ i + 1 # Len(t) => s[i + 1 + 2] = t[i + 2]
    <3>1. i < Len(t) /\ i + 1 # Len(t) => i + 2 \in 1..Len(t)
      BY <1>1
    <3>2. i + 1 + 2 = i + 2 + 1
      OBVIOUS
    <3> QED
      BY <1>1, <3>1, <3>2
  <2> QED
    BY <2>1, <2>2, <2>3, <2>4, <2>5 DEF Holder
<1>3. HeldAt(args, s, i + 1) = HeldAt(args, t, i)
  BY <1>2 DEF HeldAt
<1>4. IsHolder(args, s, i + 1) <=> IsHolder(args, t, i)
  BY <1>2 DEF IsHolder
<1> QED
  BY <1>2, <1>3, <1>4 DEF s

LEMMA ExpandShift ==
  ASSUME NEW C, NEW c \in C, NEW t \in Seq(C), NEW args,
         NEW f, Expands(f, args, Cons(c, t)), NEW h, Expands(h, args, t)
  PROVE  \A i \in 1..(Len(t) + 1) : f[i + 1] = h[i]
<1> DEFINE s == Cons(c, t)
           n == Len(t)
           T == {i \in 1..(n + 1) : f[i + 1] = h[i]}
<1>1. n \in Nat /\ Len(s) = n + 1 /\ \A i \in 1..n : s[i + 1] = t[i]
  BY ConsIs
<1>2. ASSUME NEW i \in 1..(n + 1), \A j \in 1..(n + 1) : j > i => j \in T
      PROVE  i \in T
  <2>1. i + 1 \in 1..(Len(s) + 1)
    BY <1>1
  <2>2. f[i + 1] = Expanding(f, args, s, i + 1) /\ h[i] = Expanding(h, args, t, i)
    BY <2>1 DEF Expands
  <2>3. CASE i = n + 1
    <3>1. i + 1 > Len(s) /\ i > Len(t)
      BY <1>1, <2>3
    <3> HIDE DEF s
    <3> QED
      BY <2>2, <3>1 DEF Expanding
  <2>4. CASE i # n + 1
    <3>1. i \in 1..n /\ i + 1 \in 1..(n + 1) /\ ~(i > Len(t)) /\ ~(i + 1 > Len(s))
      BY <1>1, <2>4
    <3>2. f[i + 1 + 1] = h[i + 1] /\ s[i + 1] = t[i]
      BY <1>1, <1>2, <3>1
    <3>3. /\ IsHolder(args, s, i + 1) <=> IsHolder(args, t, i)
          /\ HeldAt(args, s, i + 1) = HeldAt(args, t, i)
      BY <3>1, HolderShift
    <3>4. IsHolder(args, t, i) => f[i + 1 + 2] = h[i + 2]
      <4>1. IsHolder(args, t, i) => i + 2 \in 1..(n + 1) /\ i + 2 > i
        BY <1>1, <3>1 DEF IsHolder, Holder
      <4>2. i + 1 + 2 = i + 2 + 1
        OBVIOUS
      <4> QED
        BY <1>2, <4>1, <4>2
    <3> HIDE DEF s
    <3> QED
      BY <2>2, <3>1, <3>2, <3>3, <3>4 DEF Expanding
  <2> QED
    BY <2>3, <2>4
<1>3. 1..(n + 1) \subseteq T
  <2> HIDE DEF T, n
  <2> QED
    BY <1>1, <1>2, Downward
<1> QED
  BY <1>3

LEMMA ExpandEmpty ==
  ASSUME NEW args, Len(args) < 10, NEW C, args \in Seq(Seq(C))
  PROVE  Expand(args, <<>>) = <<>>
<1>1. PICK f : Expands(f, args, <<>>) /\ Expand(args, <<>>) = f[1]
  <2>1. \A x \in Seq(C) : \E f : Expands(f, args, x) /\ Expand(args, x) = f[1]
    BY ExpandIs
  <2>2. <<>> \in Seq(C)
    BY EmptySeq
  <2> QED
    BY <2>1, <2>2
<1>2. Len(<<>>) = 0 /\ 1 \in 1..(Len(<<>>) + 1) /\ 1 > Len(<<>>)
  OBVIOUS
<1>3. f[1] = Expanding(f, args, <<>>, 1)
  BY <1>1, <1>2 DEF Expands
<1> QED
  BY <1>1, <1>2, <1>3 DEF Expanding

\* A character that begins no placeholder stays.
LEMMA ExpandCons ==
  ASSUME NEW C, NEW c \in C, NEW t \in Seq(C), NEW args \in Seq(Seq(C)), Len(args) < 10,
         ~IsHolder(args, Cons(c, t), 1)
  PROVE  Expand(args, Cons(c, t)) = Cons(c, Expand(args, t))
<1> DEFINE s == Cons(c, t)
<1>1. s \in Seq(C) /\ Len(s) = Len(t) + 1 /\ Len(t) \in Nat /\ s[1] = c
  BY ConsIs
<1>2. PICK f : Expands(f, args, s) /\ Expand(args, s) = f[1]
  BY <1>1, ExpandIs
<1>3. PICK h : Expands(h, args, t) /\ Expand(args, t) = h[1]
  BY ExpandIs
<1>4. f[2] = h[1]
  <2>1. 1 \in 1..(Len(t) + 1) /\ 1 + 1 = 2
    BY <1>1
  <2> QED
    BY <1>2, <1>3, <2>1, ExpandShift
<1>5. ~IsHolder(args, s, 1)
  OBVIOUS
<1> HIDE DEF s
<1>6. f[1] = Expanding(f, args, s, 1)
  <2>1. 1 \in 1..(Len(s) + 1)
    BY <1>1
  <2> QED
    BY <1>2, <2>1 DEF Expands
<1>7. ~(1 > Len(s)) /\ 1 + 1 = 2
  BY <1>1
<1>8. f[1] = <<c>> \o f[2]
  BY <1>1, <1>5, <1>6, <1>7 DEF Expanding
<1> QED
  BY <1>2, <1>3, <1>4, <1>8 DEF Cons, s

\* The text of a placeholder with something behind it.
Placeholder(n, u) == Cons(ARG_PREFIX, Cons(Digits[n + 1], u))
NoDigitAhead(u) == u = <<>> \/ ~IsDigit(u[1])

LEMMA PlaceholderIs ==
  ASSUME NEW C, ARG_PREFIX \in C, NEW n, Digits[n + 1] \in C, NEW u \in Seq(C)
  PROVE  LET s == Placeholder(n, u)
         IN  /\ s \in Seq(C) /\ Len(s) = Len(u) + 2 /\ Len(u) \in Nat
             /\ s[1] = ARG_PREFIX /\ s[2] = Digits[n + 1]
             /\ u # <<>> => s[3] = u[1]
<1> DEFINE t == Cons(Digits[n + 1], u)
           s == Placeholder(n, u)
<1>0. \A c \in C : \A x \in Seq(C) :
        /\ Cons(c, x) \in Seq(C) /\ Len(Cons(c, x)) = Len(x) + 1
        /\ Cons(c, x)[1] = c /\ \A i \in 1..Len(x) : Cons(c, x)[i + 1] = x[i]
  BY ConsIs
<1>1. /\ t \in Seq(C) /\ Len(t) = Len(u) + 1 /\ Len(u) \in Nat /\ t[1] = Digits[n + 1]
      /\ \A i \in 1..Len(u) : t[i + 1] = u[i]
  BY <1>0, LenProperties
<1>2. s = Cons(ARG_PREFIX, t)
  BY DEF Placeholder
<1> HIDE DEF t, s
<1>3. /\ s \in Seq(C) /\ Len(s) = Len(t) + 1 /\ s[1] = ARG_PREFIX
      /\ \A i \in 1..Len(t) : s[i + 1] = t[i]
  BY <1>0, <1>1, <1>2
<1>4. s[2] = t[1]
  <2>1. 1 \in 1..Len(t) /\ 1 + 1 = 2
    BY <1>1
  <2> QED
    BY <1>3, <2>1
<1>5. ASSUME u # <<>> PROVE s[3] = u[1]
  <2>1. Len(u) \in Nat \ {0}
    BY <1>5, EmptySeq
  <2>2. 1 \in 1..Len(u) /\ 1 + 1 = 2 /\ 2 \in 1..Len(t) /\ 2 + 1 = 3
    BY <1>1, <2>1
  <2> QED
    BY <1>1, <1>3, <2>2
<1> QED
  BY <1>1, <1>3, <1>4, <1>5 DEF s

LEMMA PlaceholderHolds ==
  ASSUME NEW C, ARG_PREFIX \in C, NEW n, Digits[n + 1] \in C, NEW u \in Seq(C),
         NoDigitAhead(u), NEW args, n \in 1..Len(args)
  PROVE  Holder(args, Placeholder(n, u), 1, n)
<1> DEFINE s == Placeholder(n, u)
<1>1. /\ s \in Seq(C) /\ Len(s) = Len(u) + 2 /\ Len(u) \in Nat
      /\ s[1] = ARG_PREFIX /\ s[2] = Digits[n + 1] /\ (u # <<>> => s[3] = u[1])
  BY PlaceholderIs
<1> HIDE DEF s
<1>2. 1 < Len(s) /\ 1 + 1 = 2 /\ 1 + 2 = 3
  BY <1>1
<1>3. 1 + 1 = Len(s) \/ ~IsDigit(s[3])
  <2>1. CASE u = <<>>
    <3>1. Len(u) = 0
      BY <2>1
    <3> QED
      BY <1>1, <3>1
  <2>2. CASE u # <<>>
    BY <1>1, <2>2 DEF NoDigitAhead
  <2> QED
    BY <2>1, <2>2
<1>4. Holder(args, s, 1, n)
  BY <1>1, <1>2, <1>3 DEF Holder
<1> QED
  BY <1>4 DEF s

\* A placeholder is replaced by its parameter.
LEMMA ExpandHere ==
  ASSUME NEW C, ARG_PREFIX \in C, NEW n, Digits[n + 1] \in C, NEW u \in Seq(C),
         NoDigitAhead(u), NEW args \in Seq(Seq(C)), Len(args) < 10, n \in 1..Len(args)
  PROVE  Expand(args, Placeholder(n, u)) = args[n] \o Expand(args, u)
<1> DEFINE t == Cons(Digits[n + 1], u)
           s == Placeholder(n, u)
<1>1. t \in Seq(C) /\ Len(t) = Len(u) + 1 /\ Len(u) \in Nat
  BY ConsIs
<1>2. s = Cons(ARG_PREFIX, t)
  BY DEF Placeholder
<1> HIDE DEF t
<1>3. s \in Seq(C) /\ Len(s) = Len(u) + 2
  BY PlaceholderIs
<1>4. Holder(args, s, 1, n)
  BY PlaceholderHolds
<1> HIDE DEF s
<1>5. PICK f : Expands(f, args, s) /\ Expand(args, s) = f[1]
  BY <1>3, ExpandIs
<1>6. PICK h : Expands(h, args, t)
  BY <1>1, ExpandIs
<1>7. PICK k : Expands(k, args, u) /\ Expand(args, u) = k[1]
  BY ExpandIs
<1>8. f[3] = h[2]
  <2>1. 2 \in 1..(Len(t) + 1) /\ 2 + 1 = 3
    BY <1>1
  <2> QED
    BY <1>1, <1>2, <1>5, <1>6, <2>1, ExpandShift
<1>9. h[2] = k[1]
  <2>1. 1 \in 1..(Len(u) + 1) /\ 1 + 1 = 2
    BY <1>1
  <2> QED
    BY <1>6, <1>7, <2>1, ExpandShift DEF t
<1>10. f[1] = Expanding(f, args, s, 1)
  <2>1. 1 \in 1..(Len(s) + 1)
    BY <1>1, <1>3
  <2> QED
    BY <1>5, <2>1 DEF Expands
<1>11. ~(1 > Len(s)) /\ 1 + 2 = 3
  BY <1>1, <1>3
<1>12. IsHolder(args, s, 1) /\ HeldAt(args, s, 1) = n
  BY <1>4, HeldOnce DEF IsHolder
<1>13. f[1] = args[n] \o f[3]
  BY <1>10, <1>11, <1>12 DEF Expanding
<1> QED
  BY <1>5, <1>7, <1>8, <1>9, <1>13 DEF s

\* One of a parameter that is not there stays.
LEMMA ExpandNotHere ==
  ASSUME NEW C, ARG_PREFIX \in C, NEW n \in 1..9, Digits[n + 1] \in C, NEW u \in Seq(C),
         NEW args \in Seq(Seq(C)), Len(args) < 10, n \notin 1..Len(args)
  PROVE  Expand(args, Placeholder(n, u)) = Placeholder(n, Expand(args, u))
<1> DEFINE t == Cons(Digits[n + 1], u)
           s == Placeholder(n, u)
<1>0. \A c \in C : \A x \in Seq(C) :
        /\ Cons(c, x) \in Seq(C) /\ Len(Cons(c, x)) = Len(x) + 1 /\ Len(x) \in Nat
        /\ Cons(c, x)[1] = c /\ \A i \in 1..Len(x) : Cons(c, x)[i + 1] = x[i]
  BY ConsIs
<1>1. t \in Seq(C) /\ Len(t) = Len(u) + 1 /\ Len(u) \in Nat /\ t[1] = Digits[n + 1]
  BY <1>0
<1>2. s = Cons(ARG_PREFIX, t)
  BY DEF Placeholder
<1>3. s \in Seq(C) /\ s[2] = Digits[n + 1]
  BY PlaceholderIs
<1>4. ~IsHolder(args, s, 1)
  <2>1. ASSUME NEW m, Holder(args, s, 1, m) PROVE FALSE
    <3>1. m \in 1..Len(args) /\ s[1 + 1] = Digits[m + 1]
      BY <2>1 DEF Holder
    <3>2. 1 + 1 = 2
      OBVIOUS
    <3>3. Digits[m + 1] = Digits[n + 1]
      BY <1>3, <3>1, <3>2
    <3>4. m \in Nat /\ m + 1 \in 1..10 /\ n + 1 \in 1..10
      BY <3>1, LenProperties
    <3>5. m + 1 = n + 1
      BY <3>3, <3>4, DigitsDistinct, Zenon
    <3> QED
      BY <3>1, <3>4, <3>5
  <2> QED
    BY <2>1 DEF IsHolder
<1>5. ~IsHolder(args, t, 1)
  <2>1. n + 1 \in 1..10
    OBVIOUS
  <2>2. Digits[n + 1] # ARG_PREFIX
    BY <2>1, DigitsDistinct, Zenon
  <2> HIDE DEF t
  <2> QED
    BY <1>1, <2>2 DEF IsHolder, Holder
<1>6. Expand(args, t) = Cons(Digits[n + 1], Expand(args, u))
  BY <1>5, ExpandCons
<1> HIDE DEF t
<1>7. Expand(args, Cons(ARG_PREFIX, t)) = Cons(ARG_PREFIX, Expand(args, t))
  BY <1>1, <1>2, <1>4, ExpandCons
<1> QED
  BY <1>2, <1>6, <1>7 DEF Placeholder, s

\* What Matches asks for.
LEMMA MatchesIs ==
  ASSUME NEW C, NEW s \in Seq(C), NEW args \in Seq(Seq(C)), Len(args) < 10
  PROVE  Matches(args, s) <=>
           \A i \in 1..Len(s) : s[i] = ARG_PREFIX => IsHolder(args, s, i)
<1>1. DOMAIN s = 1..Len(s)
  BY LenProperties
<1>2. \A i \in 1..Len(s) :
        s[i] = ARG_PREFIX /\ Numbers(args, s, i) # {} <=> IsHolder(args, s, i)
  BY NumberIs DEF IsHolder
<1> QED
  BY <1>1, <1>2 DEF Matches

LEMMA MatchesTail ==
  ASSUME NEW C, NEW c \in C, NEW t \in Seq(C), NEW args \in Seq(Seq(C)), Len(args) < 10,
         Matches(args, Cons(c, t))
  PROVE  Matches(args, t)
<1> DEFINE s == Cons(c, t)
<1>1. /\ s \in Seq(C) /\ Len(s) = Len(t) + 1 /\ Len(t) \in Nat
      /\ \A i \in 1..Len(t) : s[i + 1] = t[i]
  BY ConsIs
<1>2. \A i \in 1..Len(s) : s[i] = ARG_PREFIX => IsHolder(args, s, i)
  BY <1>1, MatchesIs
<1>3. \A i \in 1..Len(t) : IsHolder(args, s, i + 1) <=> IsHolder(args, t, i)
  BY HolderShift
<1> HIDE DEF s
<1>4. ASSUME NEW i \in 1..Len(t), t[i] = ARG_PREFIX PROVE IsHolder(args, t, i)
  <2>1. i + 1 \in 1..Len(s) /\ s[i + 1] = ARG_PREFIX
    BY <1>1, <1>4
  <2> QED
    BY <1>2, <1>3, <2>1
<1> QED
  BY <1>4, MatchesIs

\* A text that begins with a placeholder.
LEMMA HeldHere ==
  ASSUME NEW C, NEW t \in Seq(C), ARG_PREFIX \in C, NEW args \in Seq(Seq(C)), Len(args) < 10,
         IsHolder(args, Cons(ARG_PREFIX, t), 1)
  PROVE  \E n \in 1..Len(args) : \E u \in Seq(C) :
           /\ Digits[n + 1] \in C /\ t = Cons(Digits[n + 1], u) /\ NoDigitAhead(u)
           /\ Len(t) = Len(u) + 1
<1> DEFINE s == Cons(ARG_PREFIX, t)
<1>0. \A c \in C : \A x \in Seq(C) :
        /\ Cons(c, x) \in Seq(C) /\ Len(Cons(c, x)) = Len(x) + 1 /\ Len(x) \in Nat
        /\ Cons(c, x)[1] = c /\ \A i \in 1..Len(x) : Cons(c, x)[i + 1] = x[i]
  BY ConsIs
<1>1. /\ s \in Seq(C) /\ Len(s) = Len(t) + 1 /\ Len(t) \in Nat /\ s[1] = ARG_PREFIX
      /\ \A i \in 1..Len(t) : s[i + 1] = t[i]
  BY ConsIs
<1>3. PICK n : Holder(args, s, 1, n)
  BY DEF IsHolder
<1> HIDE DEF s
<1>4. /\ n \in 1..Len(args) /\ 1 < Len(s) /\ s[1 + 1] = Digits[n + 1]
      /\ 1 + 1 = Len(s) \/ ~IsDigit(s[1 + 2])
  BY <1>3 DEF Holder
<1>5. t # <<>> /\ 1 \in 1..Len(t)
  <2>1. Len(t) # 0
    BY <1>1, <1>4
  <2> QED
    BY <1>1, <2>1, EmptySeq
<1>6. PICK c \in C, u \in Seq(C) : t = Cons(c, u) /\ Len(t) = Len(u) + 1
  <2>1. Conses(C)
    BY ConsesIs
  <2> QED
    BY <1>5, <2>1 DEF Conses
<1>7. t[1] = c /\ Len(u) \in Nat /\ \A i \in 1..Len(u) : t[i + 1] = u[i]
  BY <1>0, <1>6
<1>8. c = Digits[n + 1]
  BY <1>1, <1>4, <1>5, <1>7
<1>9. NoDigitAhead(u)
  <2>1. CASE u # <<>>
    <3>1. Len(u) \in Nat \ {0}
      BY <2>1, EmptySeq
    <3>2. 1 \in 1..Len(u) /\ 2 \in 1..Len(t) /\ 1 + 1 = 2 /\ 2 + 1 = 3 /\ 1 + 2 = 3
      BY <1>6, <3>1
    <3>3. s[3] = u[1]
      BY <1>1, <1>7, <3>2
    <3>4. 1 + 1 # Len(s)
      BY <1>1, <1>6, <3>1
    <3> QED
      BY <1>4, <3>2, <3>3, <3>4 DEF NoDigitAhead
  <2> QED
    BY <2>1 DEF NoDigitAhead
<1> QED
  BY <1>4, <1>6, <1>8, <1>9

LEMMA MatchesHere ==
  ASSUME NEW C, NEW t \in Seq(C), ARG_PREFIX \in C, NEW args \in Seq(Seq(C)), Len(args) < 10,
         Matches(args, Cons(ARG_PREFIX, t))
  PROVE  \E n \in 1..Len(args) : \E u \in Seq(C) :
           /\ Digits[n + 1] \in C /\ t = Cons(Digits[n + 1], u) /\ NoDigitAhead(u)
           /\ Len(t) = Len(u) + 1 /\ Matches(args, u)
<1> DEFINE s == Cons(ARG_PREFIX, t)
<1>1. s \in Seq(C) /\ Len(s) = Len(t) + 1 /\ Len(t) \in Nat /\ s[1] = ARG_PREFIX
  BY ConsIs
<1>2. IsHolder(args, s, 1)
  <2>1. 1 \in 1..Len(s)
    BY <1>1
  <2> HIDE DEF s
  <2> QED
    BY <1>1, <2>1, MatchesIs DEF s
<1>3. PICK n \in 1..Len(args), u \in Seq(C) :
        /\ Digits[n + 1] \in C /\ t = Cons(Digits[n + 1], u) /\ NoDigitAhead(u)
        /\ Len(t) = Len(u) + 1
  BY <1>2, HeldHere
<1>4. Matches(args, t)
  BY MatchesTail
<1>5. Matches(args, u)
  BY <1>3, <1>4, MatchesTail
<1> QED
  BY <1>3, <1>5

-----------------------------------------------------------------------------
(* One replace_all after another.                                          *)

\* A set of characters with all that placeholders are written with.
Characters(C) == ARG_PREFIX \in C /\ \A k \in 1..10 : Digits[k] \in C

First(args, j) == SubSeq(args, 1, j)

LEMMA FirstIs ==
  ASSUME NEW C, NEW args \in Seq(Seq(C)), NEW j \in 0..Len(args)
  PROVE  /\ First(args, j) \in Seq(Seq(C)) /\ Len(First(args, j)) = j
         /\ \A k \in 1..j : First(args, j)[k] = args[k]
<1>1. Len(args) \in Nat
  BY LenProperties
<1>2. \A k \in 1..j : args[k] \in Seq(C)
  <2>1. \A k \in 1..j : k \in 1..Len(args)
    BY <1>1
  <2> QED
    BY <2>1, ElementOfSeq
<1>3. /\ First(args, j) \in Seq(Seq(C))
      /\ Len(First(args, j)) = IF 1 <= j THEN j - 1 + 1 ELSE 0
      /\ \A k \in 1..(j - 1 + 1) : First(args, j)[k] = args[1 + k - 1]
  BY <1>1, <1>2, SubSeqProperties DEF First
<1> QED
  BY <1>1, <1>3

LEMMA VarIs ==
  ASSUME NEW j \in 1..9
  PROVE  Var(j - 1) = <<ARG_PREFIX, Digits[j + 1]>>
<1>1. j - 1 + 1 = j /\ j < 10
  OBVIOUS
<1>2. Number(j) = <<Digits[j + 1]>>
  BY <1>1 DEF Number
<1>3. Var(j - 1) = <<ARG_PREFIX>> \o <<Digits[j + 1]>>
  BY <1>1, <1>2 DEF Var
<1> QED
  BY <1>3

\* Without parameters nothing is replaced.
LEMMA ExpandNone ==
  ASSUME NEW C
  PROVE  \A s \in Seq(C) : Expand(<<>>, s) = s
<1> DEFINE T == {s \in Seq(C) : Expand(<<>>, s) = s}
<1>0. Conses(C)
  BY ConsesIs
<1>1. <<>> \in Seq(Seq(C)) /\ Len(<<>>) = 0 /\ Len(<<>>) < 10
  BY EmptySeq
<1>2. \A s : ~IsHolder(<<>>, s, 1)
  BY <1>1 DEF IsHolder, Holder
<1>3. \A c \in C : \A t \in Seq(C) : Expand(<<>>, Cons(c, t)) = Cons(c, Expand(<<>>, t))
  BY <1>1, <1>2, ExpandCons
<1>4. Expand(<<>>, <<>>) = <<>>
  BY <1>1, ExpandEmpty
<1>5. ASSUME NEW s \in Seq(C), \A t \in Seq(C) : Len(t) < Len(s) => t \in T
      PROVE  s \in T
  <2>1. CASE s = <<>>
    BY <1>4, <2>1
  <2>2. CASE s # <<>>
    <3>1. PICK c \in C, t \in Seq(C) :
            s = Cons(c, t) /\ Len(s) = Len(t) + 1 /\ Len(t) \in Nat
      BY <1>0, <2>2 DEF Conses
    <3>2. Len(t) < Len(s)
      BY <3>1
    <3> QED
      BY <1>3, <1>5, <3>1, <3>2
  <2> QED
    BY <2>1, <2>2
<1>6. Seq(C) \subseteq T
  <2> HIDE DEF T
  <2> QED
    BY <1>5, TextInduction
<1> QED
  BY <1>6

\* Replacing one more parameter in a text where those before it are replaced.
LEMMA ReplaceNext ==
  ASSUME NEW C, Characters(C), NEW args \in Seq(Seq(C)), Plain(args), NEW j \in 1..Len(args)
  PROVE  \A s \in Seq(C) : Matches(args, s) =>
           ReplaceEach(Expand(First(args, j - 1), s), Var(j - 1), args[j])
             = Expand(First(args, j), s)
<1> DEFINE P == ARG_PREFIX
           d == Digits[j + 1]
           R(x) == ReplaceEach(x, <<ARG_PREFIX, Digits[j + 1]>>, args[j])
           B == First(args, j - 1)
           A == First(args, j)
           T == {s \in Seq(C) : Matches(args, s) => R(Expand(B, s)) = Expand(A, s)}
<1>0. Conses(C)
  BY ConsesIs
<1>1. /\ Len(args) \in Nat /\ Len(args) < 10 /\ j \in 1..9 /\ j + 1 \in 1..10
      /\ j - 1 \in 0..Len(args) /\ j \in 0..Len(args)
  <2>1. Len(args) < 10 /\ Len(args) \in Nat
    BY LenProperties DEF Plain
  <2> QED
    BY <2>1
<1>2. P \in C /\ d \in C /\ args[j] \in Seq(C) /\ (\A k \in 1..9 : Digits[k + 1] \in C)
  <2>1. \A k \in 1..9 : k + 1 \in 1..10
    OBVIOUS
  <2> QED
    BY <1>1, <2>1, ElementOfSeq DEF Characters
<1>3. /\ B \in Seq(Seq(C)) /\ Len(B) = j - 1 /\ \A k \in 1..(j - 1) : B[k] = args[k]
      /\ A \in Seq(Seq(C)) /\ Len(A) = j /\ \A k \in 1..j : A[k] = args[k]
  BY <1>1, FirstIs
<1> HIDE DEF A, B
<1>4. Len(A) < 10 /\ Len(B) < 10
  BY <1>1, <1>3
<1>12. \A x \in Seq(C) : \A a \in Seq(C) : ARG_PREFIX \notin Range(a) => R(a \o x) = a \o R(x)
  BY <1>2, ReplaceBehind
<1>13. \A n \in 1..Len(A) : \A u \in Seq(C) : Digits[n + 1] \in C /\ NoDigitAhead(u) =>
         Expand(A, Placeholder(n, u)) = A[n] \o Expand(A, u)
  BY <1>2, <1>3, <1>4, ExpandHere
<1>14. \A n \in 1..Len(B) : \A u \in Seq(C) : Digits[n + 1] \in C /\ NoDigitAhead(u) =>
         Expand(B, Placeholder(n, u)) = B[n] \o Expand(B, u)
  BY <1>2, <1>3, <1>4, ExpandHere
<1>5. \A s \in Seq(C) : Expand(A, s) \in Seq(C) /\ Expand(B, s) \in Seq(C)
  BY <1>3, <1>4, ExpandIs
<1>6. ASSUME NEW c \in C, c # P, NEW t \in Seq(C)
      PROVE  /\ Expand(A, Cons(c, t)) = Cons(c, Expand(A, t))
             /\ Expand(B, Cons(c, t)) = Cons(c, Expand(B, t))
             /\ R(Cons(c, t)) = Cons(c, R(t))
  <2>1. Cons(c, t)[1] = c
    BY ConsIs
  <2>2. ~IsHolder(A, Cons(c, t), 1) /\ ~IsHolder(B, Cons(c, t), 1)
    BY <1>6, <2>1 DEF IsHolder, Holder
  <2>3. Expand(A, Cons(c, t)) = Cons(c, Expand(A, t))
    BY <1>3, <1>4, <2>2, ExpandCons
  <2>4. Expand(B, Cons(c, t)) = Cons(c, Expand(B, t))
    BY <1>3, <1>4, <2>2, ExpandCons
  <2>5. R(Cons(c, t)) = Cons(c, R(t))
    BY <1>2, <1>6, ReplaceCons
  <2> QED
    BY <2>3, <2>4, <2>5
<1>7. ASSUME NEW n \in 1..Len(args), NEW u \in Seq(C), NoDigitAhead(u),
             R(Expand(B, u)) = Expand(A, u)
      PROVE  R(Expand(B, Placeholder(n, u))) = Expand(A, Placeholder(n, u))
  <2>0. n \in 1..9 /\ Digits[n + 1] \in C /\ Expand(B, u) \in Seq(C)
    <3>1. n \in 1..9
      BY <1>1
    <3> QED
      BY <1>2, <1>5, <3>1
  <2>1. CASE n < j
    <3>1. n \in 1..Len(A) /\ n \in 1..Len(B) /\ A[n] = args[n] /\ B[n] = args[n]
      <4>1. n \in 1..j /\ n \in 1..(j - 1)
        BY <1>1, <2>0, <2>1
      <4> QED
        BY <1>3, <4>1
    <3>2. Expand(A, Placeholder(n, u)) = args[n] \o Expand(A, u)
      BY <1>7, <1>13, <2>0, <3>1
    <3>3. Expand(B, Placeholder(n, u)) = args[n] \o Expand(B, u)
      BY <1>7, <1>14, <2>0, <3>1
    <3>4. args[n] \in Seq(C) /\ ARG_PREFIX \notin Range(args[n])
      <4>1. args[n] \in Range(args)
        BY LenProperties DEF Range
      <4> QED
        BY <4>1, ElementOfSeq DEF Plain
    <3>5. R(args[n] \o Expand(B, u)) = args[n] \o R(Expand(B, u))
      BY <1>12, <2>0, <3>4
    <3> QED
      BY <1>7, <3>2, <3>3, <3>5
  <2>2. CASE n = j
    <3>1. n \in 1..Len(A) /\ n \notin 1..Len(B) /\ A[n] = args[n]
      BY <1>1, <1>3, <2>2
    <3>2. Expand(A, Placeholder(n, u)) = args[n] \o Expand(A, u)
      BY <1>7, <1>13, <2>0, <3>1
    <3>3. Expand(B, Placeholder(n, u)) = Placeholder(n, Expand(B, u))
      BY <1>2, <1>3, <1>4, <2>0, <3>1, ExpandNotHere
    <3>4. R(Placeholder(j, Expand(B, u))) = args[j] \o R(Expand(B, u))
      BY <1>2, <2>0, ReplaceHere DEF Placeholder
    <3> QED
      BY <1>7, <2>2, <3>2, <3>3, <3>4
  <2>3. CASE n > j
    <3>1. n \notin 1..Len(A) /\ n \notin 1..Len(B)
      BY <1>1, <1>3, <2>3
    <3>2. Expand(A, Placeholder(n, u)) = Placeholder(n, Expand(A, u))
      BY <1>2, <1>3, <1>4, <2>0, <3>1, ExpandNotHere
    <3>3. Expand(B, Placeholder(n, u)) = Placeholder(n, Expand(B, u))
      BY <1>2, <1>3, <1>4, <2>0, <3>1, ExpandNotHere
    <3> DEFINE e == Digits[n + 1]
               t == Cons(e, Expand(B, u))
    <3>4. e # P /\ e # d
      <4>1. n + 1 \in 1..10 /\ j + 1 \in 1..10 /\ n + 1 # j + 1
        BY <1>1, <2>0, <2>3
      <4> QED
        BY <4>1, DigitsDistinct, Zenon
    <3>5. R(t) = Cons(e, R(Expand(B, u)))
      BY <1>6, <2>0, <3>4
    <3>6. t \in Seq(C) /\ t[1] = e
      BY <2>0, ConsIs
    <3> HIDE DEF t
    <3>7. R(Cons(P, t)) = Cons(P, R(t))
      BY <1>2, <3>4, <3>6, ReplaceCons
    <3>8. R(Placeholder(n, Expand(B, u))) = Placeholder(n, R(Expand(B, u)))
      BY <3>5, <3>7 DEF Placeholder, t
    <3> QED
      BY <1>7, <3>2, <3>3, <3>8
  <2> QED
    BY <1>1, <2>0, <2>1, <2>2, <2>3
<1>8. R(Expand(B, <<>>)) = Expand(A, <<>>)
  <2>1. Expand(A, <<>>) = <<>> /\ Expand(B, <<>>) = <<>>
    BY <1>3, <1>4, ExpandEmpty
  <2>2. R(<<>>) = <<>>
    BY <1>2, ReplaceEmpty
  <2> QED
    BY <2>1, <2>2
<1> HIDE DEF R, P
<1>9. ASSUME NEW s \in Seq(C), \A t \in Seq(C) : Len(t) < Len(s) => t \in T
      PROVE  s \in T
  <2> SUFFICES ASSUME Matches(args, s) PROVE R(Expand(B, s)) = Expand(A, s)
    OBVIOUS
  <2>1. CASE s = <<>>
    BY <1>8, <2>1
  <2>2. CASE s # <<>>
    <3>1. PICK c \in C, t \in Seq(C) :
            s = Cons(c, t) /\ Len(s) = Len(t) + 1 /\ Len(t) \in Nat
      BY <1>0, <2>2 DEF Conses
    <3>2. Len(t) \in Nat /\ Len(t) < Len(s)
      BY <3>1
    <3>0. Len(args) < 10
      BY DEF Plain
    <3>3. CASE c # P
      <4>1. Matches(args, t)
        BY <3>0, <3>1, MatchesTail
      <4>2. R(Expand(B, t)) = Expand(A, t)
        BY <1>9, <3>2, <4>1
      <4> QED
        BY <1>5, <1>6, <3>1, <3>3, <4>2
    <3>4. CASE c = P
      <4>1. PICK n \in 1..Len(args), u \in Seq(C) :
              /\ t = Cons(Digits[n + 1], u) /\ NoDigitAhead(u)
              /\ Len(t) = Len(u) + 1 /\ Matches(args, u)
        BY <1>2, <3>0, <3>1, <3>4, MatchesHere DEF P
      <4>2. Len(u) < Len(s)
        BY <3>1, <3>2, <4>1, LenProperties
      <4>3. R(Expand(B, u)) = Expand(A, u)
        BY <1>9, <4>1, <4>2
      <4>4. s = Placeholder(n, u)
        BY <3>1, <3>4, <4>1 DEF Placeholder, P
      <4> QED
        BY <1>7, <4>1, <4>3, <4>4
    <3> QED
      BY <3>3, <3>4
  <2> QED
    BY <2>1, <2>2
<1>10. Seq(C) \subseteq T
  <2> HIDE DEF T
  <2> QED
    BY <1>9, TextInduction
<1>11. Var(j - 1) = <<ARG_PREFIX, Digits[j + 1]>>
  BY <1>1, VarIs
<1> QED
  BY <1>10, <1>11 DEF R, A, B

\* With all of them replaced, the text is expanded.
LEMMA ReplacedIs ==
  ASSUME NEW C, Characters(C), NEW args \in Seq(Seq(C)), Plain(args),
         NEW s \in Seq(C), Matches(args, s)
  PROVE  Replaced(s, args) = Expand(args, s)
<1> DEFINE n == Len(args)
           E(j) == Expand(First(args, j), s)
           G(f) == f = [j \in 0..n |->
                          IF j = 0 THEN s ELSE ReplaceEach(f[j - 1], Var(j - 1), args[j])]
           f0 == CHOOSE f : G(f)
           e == [j \in 0..n |-> E(j)]
<1>1. n \in Nat
  BY LenProperties
<1>2. Replaced(s, args) = f0[n]
  BY DEF Replaced
<1>3. E(0) = s
  <2>1. First(args, 0) = <<>>
    BY SubSeqEmpty DEF First
  <2> QED
    BY <2>1, ExpandNone
<1>4. E(n) = Expand(args, s)
  BY SubSeqFull DEF First
<1>5. \A j \in 1..n : ReplaceEach(E(j - 1), Var(j - 1), args[j]) = E(j)
  BY ReplaceNext
<1> HIDE DEF E
<1>6. G(e)
  <2>1. \A j \in 1..n : j - 1 \in 0..n /\ e[j - 1] = E(j - 1)
    BY <1>1
  <2>2. \A j \in 0..n : E(j) = IF j = 0 THEN s ELSE ReplaceEach(e[j - 1], Var(j - 1), args[j])
    <3> SUFFICES ASSUME NEW j \in 0..n
                 PROVE  E(j) = IF j = 0 THEN s
                               ELSE ReplaceEach(e[j - 1], Var(j - 1), args[j])
      OBVIOUS
    <3>1. j = 0 \/ j \in 1..n
      BY <1>1
    <3> HIDE DEF e
    <3> QED
      BY <1>3, <1>5, <2>1, <3>1
  <2>3. e = [j \in 0..n |-> E(j)]
    OBVIOUS
  <2> HIDE DEF e
  <2> QED
    BY <2>2, <2>3
<1>7. G(f0)
  BY <1>6
<1> HIDE DEF f0
<1> DEFINE Wrongs == {j \in 0..n : f0[j] # E(j)}
<1>8. Wrongs = {}
  <2>1. SUFFICES ASSUME Wrongs # {} PROVE FALSE
    OBVIOUS
  <2>2. Wrongs \subseteq Nat
    BY <1>1
  <2>3. PICK j \in Wrongs : \A k \in Wrongs : j <= k
    <3> HIDE DEF Wrongs
    <3> QED
      BY <2>1, <2>2, LeastNat
  <2>4. j \in 0..n /\ f0[j] # E(j)
    OBVIOUS
  <2>5. \A k \in 0..n : f0[k] = IF k = 0 THEN s ELSE ReplaceEach(f0[k - 1], Var(k - 1), args[k])
    BY <1>7
  <2>6. j # 0
    BY <1>3, <2>4, <2>5
  <2>7. j - 1 \in 0..n /\ j \in 1..n /\ j - 1 < j
    BY <1>1, <2>4, <2>6
  <2>8. f0[j - 1] = E(j - 1)
    BY <2>2, <2>3, <2>7
  <2> HIDE DEF Wrongs, G
  <2> QED
    BY <1>5, <2>4, <2>5, <2>6, <2>7, <2>8
<1>9. f0[n] = E(n)
  BY <1>1, <1>8
<1> QED
  BY <1>2, <1>4, <1>9

-----------------------------------------------------------------------------
(* The words of an expanded text.                                          *)

\* Something in front of the first word.
LEMMA SplitBehind ==
  ASSUME NEW C, NEW sep, NEW x \in Seq(C)
  PROVE  \A a \in Seq(C) : sep \notin Range(a) => Split(a \o x, sep) = Onto(a, Split(x, sep))
<1> DEFINE W == Split(x, sep)
           T == {a \in Seq(C) : sep \notin Range(a) => Split(a \o x, sep) = Onto(a, W)}
<1>1. Conses(C) /\ ConsAssociative(C)
  BY ConsesIs, ConsAssoc
<1>2. W \in WordLists(C)
  BY SplitRuns
<1>3. \A c \in C : \A t \in Seq(C) : c # sep => Split(Cons(c, t), sep) = Onto(<<c>>, Split(t, sep))
  <2> SUFFICES ASSUME NEW c \in C, NEW t \in Seq(C), c # sep
               PROVE  Split(Cons(c, t), sep) = Onto(<<c>>, Split(t, sep))
    OBVIOUS
  <2> HIDE DEF W, T
  <2> QED
    BY SplitCons
<1>4. Onto(<<>>, W) = W
  <2>1. Len(W) \in Nat \ {0} /\ W \in Seq(Seq(C)) /\ W[1] \in Seq(C)
    BY <1>2, EmptySeq, ElementOfSeq DEF WordLists
  <2>2. <<>> \o W[1] = W[1]
    BY <2>1, ConcatEmptySeq
  <2>3. Onto(<<>>, W) = [W EXCEPT ![1] = W[1]]
    BY <2>2 DEF Onto
  <2>4. W \in [1..Len(W) -> Seq(C)]
    BY <2>1, LenProperties
  <2> HIDE DEF W
  <2> QED
    BY <2>1, <2>3, <2>4
<1> HIDE DEF W
<1>5. \A c \in C : \A b \in Seq(C) : Onto(<<c>>, Onto(b, W)) = Onto(Cons(c, b), W)
  <2> SUFFICES ASSUME NEW c \in C, NEW b \in Seq(C)
               PROVE  Onto(<<c>>, Onto(b, W)) = Onto(Cons(c, b), W)
    OBVIOUS
  <2>1. Len(W) \in Nat \ {0} /\ W \in Seq(Seq(C)) /\ W[1] \in Seq(C)
    BY <1>2, EmptySeq, ElementOfSeq DEF WordLists
  <2>2. W \in [1..Len(W) -> Seq(C)] /\ 1 \in 1..Len(W)
    BY <2>1, LenProperties
  <2>3. <<c>> \o (b \o W[1]) = Cons(c, b) \o W[1]
    BY <1>1, <2>1 DEF ConsAssociative, Cons
  <2>4. Onto(b, W) = [W EXCEPT ![1] = b \o W[1]]
    BY DEF Onto
  <2>5. Onto(<<c>>, Onto(b, W)) = [Onto(b, W) EXCEPT ![1] = <<c>> \o Onto(b, W)[1]]
    BY DEF Onto
  <2>6. Onto(Cons(c, b), W) = [W EXCEPT ![1] = Cons(c, b) \o W[1]]
    BY DEF Onto
  <2>7. Onto(b, W)[1] = b \o W[1]
    BY <2>2, <2>4
  <2>8. Onto(<<c>>, Onto(b, W)) = [W EXCEPT ![1] = <<c>> \o (b \o W[1])]
    BY <2>2, <2>4, <2>5, <2>7
  <2> QED
    BY <2>3, <2>6, <2>8
<1>6. ASSUME NEW a \in Seq(C), \A b \in Seq(C) : Len(b) < Len(a) => b \in T
      PROVE  a \in T
  <2>1. CASE a = <<>>
    BY <1>4, <2>1, ConcatEmptySeq DEF W
  <2>2. CASE a # <<>>
    <3>1. PICK c \in C, b \in Seq(C) :
            a = Cons(c, b) /\ Len(a) = Len(b) + 1 /\ Len(b) \in Nat
      BY <1>1, <2>2 DEF Conses
    <3>2. Len(b) < Len(a)
      BY <3>1
    <3>3. SUFFICES ASSUME sep \notin Range(a) PROVE Split(a \o x, sep) = Onto(a, W)
      OBVIOUS
    <3>4. c # sep /\ sep \notin Range(b)
      BY <3>1, <3>3, RangeCons
    <3>5. Split(b \o x, sep) = Onto(b, W)
      BY <1>6, <3>2, <3>4
    <3>6. b \o x \in Seq(C)
      BY ConcatProperties
    <3>7. Cons(c, b) \o x = Cons(c, b \o x)
      BY <1>1 DEF ConsAssociative
    <3>8. Split(Cons(c, b \o x), sep) = Onto(<<c>>, Split(b \o x, sep))
      BY <1>3, <3>4, <3>6
    <3> QED
      BY <1>5, <3>1, <3>5, <3>7, <3>8
  <2> QED
    BY <2>1, <2>2
<1>7. Seq(C) \subseteq T
  <2> HIDE DEF T
  <2> QED
    BY <1>6, TextInduction
<1> QED
  BY <1>7 DEF W

\* A first word that is not empty begins as the text does, and only the last
\* word behind the first one can be empty.
LEMMA FirstOfSplit ==
  ASSUME NEW C, NEW s \in Seq(C), NEW sep
  PROVE  LET w == Split(s, sep)[1]
         IN  /\ w \in Seq(C)
             /\ w = <<>> \/ (s # <<>> /\ s[1] # sep /\ w[1] = s[1])
             /\ s # <<>> /\ s[1] # sep => w # <<>>
<1> DEFINE W == Split(s, sep)
           w == W[1]
<1>1. W \in WordLists(C) /\ FirstWord(s, sep, 1, W)
  BY SplitRuns DEF WordsFrom
<1>2. Len(W) \in Nat \ {0} /\ W \in Seq(Seq(C)) /\ w \in Seq(C)
  BY <1>1, EmptySeq, ElementOfSeq DEF WordLists
<1>3. Len(s) \in Nat /\ (s # <<>> => Len(s) \in Nat \ {0})
  BY LenProperties, EmptySeq
<1> HIDE DEF W
<1>4. CASE s # <<>> /\ s[1] # sep
  <2>1. 1 <= Len(s)
    BY <1>3, <1>4
  <2>2. PICK e \in 1..Len(s) : Run(s, sep, 1, e) /\ w = SubSeq(s, 1, e)
    BY <1>1, <1>4, <2>1 DEF FirstWord
  <2>3. \A k \in 1..e : s[k] \in C
    <3>1. \A k \in 1..e : k \in 1..Len(s)
      BY <1>3
    <3> QED
      BY <3>1, ElementOfSeq
  <2>4. /\ Len(SubSeq(s, 1, e)) = IF 1 <= e THEN e - 1 + 1 ELSE 0
        /\ \A k \in 1..(e - 1 + 1) : SubSeq(s, 1, e)[k] = s[1 + k - 1]
    BY <1>3, <2>3, SubSeqProperties
  <2>5. Len(w) = e /\ 1 \in 1..(e - 1 + 1) /\ 1 + 1 - 1 = 1
    BY <1>3, <2>2, <2>4
  <2>6. w[1] = s[1]
    BY <2>2, <2>4, <2>5
  <2>7. w # <<>>
    <3>1. Len(w) # 0
      BY <1>3, <2>5
    <3> QED
      BY <3>1
  <2> QED
    BY <1>2, <1>4, <2>6, <2>7 DEF W
<1>5. CASE ~(s # <<>> /\ s[1] # sep)
  <2>1. ~(1 <= Len(s) /\ s[1] # sep)
    <3>1. s = <<>> => Len(s) = 0
      OBVIOUS
    <3> QED
      BY <1>3, <1>5, <3>1
  <2>2. w = <<>>
    BY <1>1, <2>1 DEF FirstWord
  <2> QED
    BY <1>2, <1>5, <2>2 DEF W
<1> QED
  BY <1>4, <1>5

LEMMA EmptyWordLast ==
  ASSUME NEW C, NEW sep
  PROVE  \A s \in Seq(C) : \A k \in 2..Len(Split(s, sep)) :
           Split(s, sep)[k] = <<>> => k = Len(Split(s, sep))
<1> DEFINE W(s) == Split(s, sep)
           T == {s \in Seq(C) : \A k \in 2..Len(W(s)) : W(s)[k] = <<>> => k = Len(W(s))}
<1>1. Conses(C)
  BY ConsesIs
<1>2. \A s \in Seq(C) : W(s) \in WordLists(C)
  BY SplitRuns
<1>3. \A c \in C : \A t \in Seq(C) :
        W(Cons(c, t)) = IF c # sep THEN Onto(<<c>>, W(t))
                        ELSE IF t # <<>> /\ t[1] = sep THEN W(t)
                        ELSE Also(W(t))
  BY SplitCons
<1>4. W(<<>>) = <<<<>>>>
  BY SplitEmpty
<1>5. \A t \in Seq(C) : t # <<>> /\ t[1] # sep => W(t)[1] # <<>>
  BY FirstOfSplit
<1>6. \A w \in WordLists(C) : Len(w) \in Nat \ {0}
  BY EmptySeq DEF WordLists
<1>7. \A w \in WordLists(C) : \A c \in C :
        /\ Len(Onto(<<c>>, w)) = Len(w)
        /\ \A i \in 2..Len(w) : Onto(<<c>>, w)[i] = w[i]
  <2> SUFFICES ASSUME NEW w \in WordLists(C), NEW c \in C
               PROVE  /\ Len(Onto(<<c>>, w)) = Len(w)
                      /\ \A i \in 2..Len(w) : Onto(<<c>>, w)[i] = w[i]
    OBVIOUS
  <2> DEFINE a == <<c>>
  <2>1. a \in Seq(C)
    OBVIOUS
  <2> HIDE DEF W, T, a
  <2>2. Len(Onto(a, w)) = Len(w) /\ \A i \in 2..Len(w) : Onto(a, w)[i] = w[i]
    BY <2>1, OntoIs
  <2> QED
    BY <2>2 DEF a
<1>8. \A w \in WordLists(C) : /\ Len(Also(w)) = Len(w) + 1
                              /\ \A i \in 1..Len(w) : Also(w)[i + 1] = w[i]
  BY AlsoIs
<1> HIDE DEF W
<1>9. ASSUME NEW s \in Seq(C), \A t \in Seq(C) : Len(t) < Len(s) => t \in T
      PROVE  s \in T
  <2>1. CASE s = <<>>
    <3>1. Len(W(s)) = 1
      BY <1>4, <2>1
    <3>2. ~ \E k : k \in 2..1
      OBVIOUS
    <3> QED
      BY <3>1, <3>2
  <2>2. CASE s # <<>>
    <3>1. PICK c \in C, t \in Seq(C) :
            s = Cons(c, t) /\ Len(s) = Len(t) + 1 /\ Len(t) \in Nat
      BY <1>1, <2>2 DEF Conses
    <3>2. t \in T
      BY <1>9, <3>1
    <3> DEFINE w == W(t)
    <3>3. w \in WordLists(C) /\ Len(w) \in Nat \ {0}
      BY <1>2, <1>6
    <3>4. \A k \in 2..Len(w) : w[k] = <<>> => k = Len(w)
      BY <3>2
    <3> HIDE DEF w
    <3>5. CASE c # sep
      <4>1. W(s) = Onto(<<c>>, w)
        BY <1>3, <3>1, <3>5 DEF w
      <4> QED
        BY <1>7, <3>3, <3>4, <4>1
    <3>6. CASE c = sep /\ t # <<>> /\ t[1] = sep
      <4>1. W(s) = w
        BY <1>3, <3>1, <3>6 DEF w
      <4> QED
        BY <3>4, <4>1
    <3>7. CASE c = sep /\ ~(t # <<>> /\ t[1] = sep)
      <4>1. W(s) = Also(w)
        BY <1>3, <3>1, <3>7 DEF w
      <4>2. Len(Also(w)) = Len(w) + 1 /\ \A i \in 1..Len(w) : Also(w)[i + 1] = w[i]
        BY <1>8, <3>3
      <4>3. w[1] # <<>> \/ Len(w) = 1
        <5>1. t = <<>> => Len(w) = 1
          BY <1>4 DEF w
        <5> QED
          BY <1>5, <3>7, <5>1 DEF w
      <4>4. ASSUME NEW k \in 2..Len(Also(w)), Also(w)[k] = <<>> PROVE k = Len(Also(w))
        <5>1. k - 1 \in 1..Len(w) /\ k - 1 + 1 = k
          BY <3>3, <4>2
        <5>2. w[k - 1] = <<>>
          BY <4>2, <4>4, <5>1
        <5>3. CASE k - 1 = 1
          BY <4>2, <4>3, <5>1, <5>2, <5>3
        <5>4. CASE k - 1 # 1
          <6>1. k - 1 \in 2..Len(w)
            BY <3>3, <5>1, <5>4
          <6>2. k - 1 = Len(w)
            BY <3>4, <5>2, <6>1
          <6> QED
            BY <3>3, <4>2, <5>1, <6>2
        <5> QED
          BY <5>3, <5>4
      <4> QED
        BY <4>1, <4>4
    <3> QED
      BY <3>5, <3>6, <3>7
  <2> QED
    BY <2>1, <2>2
<1>10. Seq(C) \subseteq T
  <2> HIDE DEF T
  <2> QED
    BY <1>9, TextInduction
<1> QED
  BY <1>10 DEF W

\* A blank is neither $ nor a digit.
LEMMA BlankIs == Blank # ARG_PREFIX /\ \A k \in 1..10 : Digits[k] # Blank
<1>1. Blank # ARG_PREFIX
  BY Zenon DEF Blank, ARG_PREFIX
<1>2. \A k \in 1..10 : Digits[k] \in {"0", "1", "2", "3", "4", "5", "6", "7", "8", "9"}
  BY DEF Digits
<1>3. Blank \notin {"0", "1", "2", "3", "4", "5", "6", "7", "8", "9"}
  BY Zenon DEF Blank
<1> QED
  BY <1>1, <1>2, <1>3

\* Parameters that are words.
WordParams(args) == Len(args) < 10 /\ \A a \in Range(args) : OneWord(a)

LEMMA ParamIs ==
  ASSUME NEW C, NEW args \in Seq(Seq(C)), WordParams(args), NEW n \in 1..Len(args)
  PROVE  /\ args[n] \in Seq(C) /\ args[n] # <<>> /\ args[n][1] # Blank
         /\ Blank \notin Range(args[n]) /\ Len(args[n]) \in Nat \ {0}
<1>1. args[n] \in Seq(C)
  BY ElementOfSeq
<1>2. args[n] # <<>> /\ Blank \notin Range(args[n])
  BY LenProperties DEF WordParams, OneWord, Range
<1>3. Len(args[n]) \in Nat \ {0}
  BY <1>1, <1>2, EmptySeq
<1>4. args[n][1] # Blank
  <2> DEFINE a == args[n]
  <2>1. 1 \in DOMAIN a
    BY <1>1, <1>3, LenProperties
  <2> HIDE DEF a
  <2>2. a[1] \in Range(a)
    BY <2>1 DEF Range
  <2> QED
    BY <1>2, <2>2 DEF a
<1> QED
  BY <1>1, <1>2, <1>3, <1>4

LEMMA ConcatHead ==
  ASSUME NEW C, NEW a \in Seq(C), a # <<>>, NEW x \in Seq(C)
  PROVE  a \o x # <<>> /\ (a \o x)[1] = a[1]
<1>1. Len(a) \in Nat \ {0} /\ Len(x) \in Nat
  BY EmptySeq, LenProperties
<1>2. /\ a \o x \in Seq(C) /\ Len(a \o x) = Len(a) + Len(x)
      /\ \A i \in 1..(Len(a) + Len(x)) : (a \o x)[i] = IF i <= Len(a) THEN a[i] ELSE x[i - Len(a)]
  BY ConcatProperties
<1>3. 1 \in 1..(Len(a) + Len(x)) /\ 1 <= Len(a)
  BY <1>1
<1>4. Len(a \o x) # 0
  BY <1>1, <1>2
<1> QED
  BY <1>2, <1>3, <1>4, EmptySeq

\* Expanded with words, a text stays empty or not, and its first character a
\* blank or not.
LEMMA ExpandHead ==
  ASSUME NEW C, Characters(C), NEW args \in Seq(Seq(C)), WordParams(args),
         NEW s \in Seq(C), s # <<>>
  PROVE  Expand(args, s) # <<>> /\ (Expand(args, s)[1] = Blank <=> s[1] = Blank)
<1>1. PICK c \in C, t \in Seq(C) : s = Cons(c, t)
  <2>1. Conses(C)
    BY ConsesIs
  <2> QED
    BY <2>1 DEF Conses
<1>2. s[1] = c
  BY <1>1, ConsIs
<1>3. ARG_PREFIX \in C /\ Len(args) < 10
  BY DEF Characters, WordParams
<1>4. CASE ~IsHolder(args, s, 1)
  <2>1. Expand(args, s) = Cons(c, Expand(args, t))
    BY <1>1, <1>3, <1>4, ExpandCons
  <2>2. Expand(args, t) \in Seq(C)
    BY <1>3, ExpandIs
  <2>3. /\ Cons(c, Expand(args, t)) # <<>>
        /\ Cons(c, Expand(args, t))[1] = c
    BY <2>2, ConsIs
  <2> QED
    BY <1>2, <2>1, <2>3
<1>5. CASE IsHolder(args, s, 1)
  <2>1. c = ARG_PREFIX
    BY <1>2, <1>5 DEF IsHolder, Holder
  <2>2. PICK n \in 1..Len(args), u \in Seq(C) :
          /\ Digits[n + 1] \in C /\ t = Cons(Digits[n + 1], u) /\ NoDigitAhead(u)
    BY <1>1, <1>3, <1>5, <2>1, HeldHere
  <2>3. s = Placeholder(n, u)
    BY <1>1, <2>1, <2>2 DEF Placeholder
  <2>4. Expand(args, s) = args[n] \o Expand(args, u)
    BY <1>3, <2>2, <2>3, ExpandHere
  <2>5. Expand(args, u) \in Seq(C)
    BY <1>3, ExpandIs
  <2>6. args[n] \in Seq(C) /\ args[n] # <<>> /\ args[n][1] # Blank
    BY ParamIs
  <2>7. Expand(args, s) # <<>> /\ Expand(args, s)[1] = args[n][1]
    BY <2>4, <2>5, <2>6, ConcatHead
  <2> QED
    BY <1>2, <2>1, <2>6, <2>7, BlankIs
<1> QED
  BY <1>4, <1>5

\* The words, each expanded.
EachExpanded(args, w) == [i \in DOMAIN w |-> Expand(args, w[i])]

LEMMA EachOnto ==
  ASSUME NEW C, NEW args, NEW a \in Seq(C), NEW b \in Seq(C), NEW w \in WordLists(C),
         Expand(args, a \o w[1]) = b \o Expand(args, w[1])
  PROVE  EachExpanded(args, Onto(a, w)) = Onto(b, EachExpanded(args, w))
<1>1. Len(w) \in Nat \ {0} /\ w \in [1..Len(w) -> Seq(C)]
  BY EmptySeq, LenProperties DEF WordLists
<1> DEFINE o == [w EXCEPT ![1] = a \o w[1]]
           x == [i \in 1..Len(w) |-> Expand(args, w[i])]
<1>2. Onto(a, w) = o /\ DOMAIN o = 1..Len(w) /\ 1 \in 1..Len(w)
  BY <1>1 DEF Onto
<1>3. EachExpanded(args, w) = x
  BY <1>1 DEF EachExpanded
<1>4. EachExpanded(args, o) = [i \in 1..Len(w) |-> Expand(args, o[i])]
  BY <1>2 DEF EachExpanded
<1>5. Onto(b, x) = [x EXCEPT ![1] = b \o x[1]]
  BY DEF Onto
<1>6. \A i \in 1..Len(w) : Expand(args, o[i]) = [x EXCEPT ![1] = b \o x[1]][i]
  <2>1. Expand(args, o[1]) = b \o x[1]
    BY <1>1, <1>2
  <2>2. \A i \in 1..Len(w) : i # 1 => o[i] = w[i]
    BY <1>1
  <2> QED
    BY <1>1, <1>2, <2>1, <2>2
<1>7. [i \in 1..Len(w) |-> Expand(args, o[i])] = [x EXCEPT ![1] = b \o x[1]]
  BY <1>6
<1> QED
  BY <1>2, <1>3, <1>4, <1>5, <1>7

LEMMA EachAlso ==
  ASSUME NEW C, NEW args \in Seq(Seq(C)), Len(args) < 10, NEW w \in WordLists(C)
  PROVE  EachExpanded(args, Also(w)) = Also(EachExpanded(args, w))
<1> DEFINE n == Len(w)
           x == EachExpanded(args, w)
<1>1. n \in Nat \ {0} /\ w \in [1..n -> Seq(C)]
  BY EmptySeq, LenProperties DEF WordLists
<1>2. \A i \in 1..n : Expand(args, w[i]) \in Seq(C)
  <2>1. \A i \in 1..n : w[i] \in Seq(C)
    BY <1>1
  <2> QED
    BY <2>1, ExpandIs
<1> HIDE DEF n
<1>3. x = [i \in 1..n |-> Expand(args, w[i])]
  BY <1>1 DEF EachExpanded
<1>4. x \in WordLists(C) /\ Len(x) = n
  <2>1. x \in [1..n -> Seq(C)]
    BY <1>2, <1>3
  <2> HIDE DEF x
  <2>2. x \in Seq(Seq(C)) /\ Len(x) = n
    BY <1>1, <2>1
  <2> QED
    BY <1>1, <2>2, EmptySeq DEF WordLists
<1>5. /\ Also(w) \in WordLists(C) /\ Len(Also(w)) = n + 1
      /\ Also(w)[1] = <<>> /\ \A i \in 1..n : Also(w)[i + 1] = w[i]
  BY AlsoIs DEF n
<1>6. /\ Also(x) \in WordLists(C) /\ Len(Also(x)) = n + 1
      /\ Also(x)[1] = <<>> /\ \A i \in 1..n : Also(x)[i + 1] = x[i]
  BY <1>4, AlsoIs
<1>7. DOMAIN Also(w) = 1..(n + 1) /\ Also(x) \in [1..(n + 1) -> Seq(C)]
  BY <1>5, <1>6, LenProperties DEF WordLists
<1>8. \A i \in 1..(n + 1) : Expand(args, Also(w)[i]) = Also(x)[i]
  <2>1. Expand(args, Also(w)[1]) = Also(x)[1]
    BY <1>5, <1>6, ExpandEmpty
  <2>2. \A i \in 1..n : Expand(args, Also(w)[i + 1]) = Also(x)[i + 1]
    BY <1>3, <1>5, <1>6
  <2>3. \A i \in 1..(n + 1) : i # 1 => i - 1 \in 1..n /\ i - 1 + 1 = i
    BY <1>1
  <2> HIDE DEF x
  <2> QED
    BY <2>1, <2>2, <2>3
<1> HIDE DEF x
<1>9. EachExpanded(args, Also(w)) = [i \in 1..(n + 1) |-> Expand(args, Also(w)[i])]
  BY <1>7 DEF EachExpanded
<1> QED
  BY <1>7, <1>8, <1>9 DEF x

\* A text that begins with a placeholder, cut at the end of the placeholder.
LEMMA PlaceholderBehind ==
  ASSUME NEW C, Characters(C), NEW n \in 1..9
  PROVE  LET p == Placeholder(n, <<>>)
         IN  /\ p \in Seq(C) /\ Blank \notin Range(p)
             /\ \A x \in Seq(C) : Placeholder(n, x) = p \o x
<1> DEFINE d == Digits[n + 1]
           p == Placeholder(n, <<>>)
<1>1. d \in C /\ ARG_PREFIX \in C /\ d # Blank /\ ARG_PREFIX # Blank /\ <<>> \in Seq(C)
  <2>1. n + 1 \in 1..10
    OBVIOUS
  <2> QED
    BY <2>1, BlankIs, EmptySeq DEF Characters
<1> HIDE DEF d
<1>2. Cons(d, <<>>) \in Seq(C) /\ Range(Cons(d, <<>>)) = {d} \cup Range(<<>>)
  BY <1>1, ConsIs, RangeCons
<1>3. p = Cons(ARG_PREFIX, Cons(d, <<>>))
  BY DEF d, Placeholder
<1>4. p \in Seq(C) /\ Range(p) = {ARG_PREFIX} \cup Range(Cons(d, <<>>))
  BY <1>1, <1>2, <1>3, ConsIs, RangeCons
<1>5. Blank \notin Range(p)
  <2>1. Range(<<>>) = {}
    BY DEF Range
  <2> HIDE DEF p
  <2> QED
    BY <1>1, <1>2, <1>4, <2>1
<1>6. ASSUME NEW x \in Seq(C) PROVE Placeholder(n, x) = p \o x
  <2>1. ConsAssociative(C)
    BY ConsAssoc
  <2>2. Cons(d, <<>>) \o x = Cons(d, x)
    <3>1. Cons(d, <<>>) \o x = Cons(d, <<>> \o x)
      BY <1>1, <2>1 DEF ConsAssociative
    <3> QED
      BY <3>1, ConcatEmptySeq
  <2>3. Cons(ARG_PREFIX, Cons(d, <<>>)) \o x = Cons(ARG_PREFIX, Cons(d, <<>>) \o x)
    BY <1>1, <1>2, <2>1 DEF ConsAssociative
  <2> QED
    BY <1>3, <2>2, <2>3 DEF Placeholder, d
<1> QED
  BY <1>4, <1>5, <1>6

\* An expanded text has as many words as the text, each the word expanded.
LEMMA ExpandWords ==
  ASSUME NEW C, Characters(C), NEW args \in Seq(Seq(C)), WordParams(args)
  PROVE  \A s \in Seq(C) : Matches(args, s) =>
           Split(Expand(args, s), Blank) = EachExpanded(args, Split(s, Blank))
<1> DEFINE E(s) == Expand(args, s)
           W(s) == Split(s, Blank)
           T == {s \in Seq(C) : Matches(args, s) => W(E(s)) = EachExpanded(args, W(s))}
<1>1. ARG_PREFIX \in C /\ Len(args) < 10 /\ Len(args) \in Nat
  BY LenProperties DEF Characters, WordParams
<1>2. \A s \in Seq(C) : W(s) \in WordLists(C) /\ E(s) \in Seq(C)
  BY <1>1, SplitRuns, ExpandIs
<1>3. E(<<>>) = <<>> /\ W(<<>>) = <<<<>>>>
  BY <1>1, ExpandEmpty, SplitEmpty
<1>4. ASSUME NEW s \in Seq(C), \A t \in Seq(C) : Len(t) < Len(s) => t \in T
      PROVE  s \in T
  <2>1. CASE s = <<>>
    <3>1. EachExpanded(args, <<<<>>>>) = <<E(<<>>)>>
      BY DEF EachExpanded
    <3> HIDE DEF E, W
    <3> QED
      BY <1>3, <2>1, <3>1
  <2>2. CASE s # <<>>
    <3>1. PICK c \in C, t \in Seq(C) :
            s = Cons(c, t) /\ Len(s) = Len(t) + 1 /\ Len(t) \in Nat
      <4>1. Conses(C)
        BY ConsesIs
      <4> HIDE DEF T
      <4> QED
        BY <2>2, <4>1 DEF Conses
    <3>2. SUFFICES ASSUME Matches(args, s) PROVE W(E(s)) = EachExpanded(args, W(s))
      OBVIOUS
    <3>3. Matches(args, t) /\ W(E(t)) = EachExpanded(args, W(t))
      <4>1. Matches(args, t)
        BY <1>1, <3>1, <3>2, MatchesTail
      <4>2. t \in T
        BY <1>4, <3>1
      <4> QED
        BY <4>1, <4>2
    <3>4. ASSUME c # ARG_PREFIX PROVE E(s) = Cons(c, E(t))
      <4>1. s[1] = c
        BY <3>1, ConsIs
      <4>2. ~IsHolder(args, s, 1)
        BY <3>4, <4>1 DEF IsHolder, Holder
      <4> QED
        BY <1>1, <3>1, <4>2, ExpandCons
    <3>5. CASE c # ARG_PREFIX /\ c # Blank
      <4> DEFINE a == <<c>>
                 w == W(t)
      <4>1. a \in Seq(C)
        OBVIOUS
      <4>2. w \in WordLists(C) /\ w[1] \in Seq(C)
        BY <1>2, EmptySeq, ElementOfSeq DEF WordLists
      <4>3. W(s) = Onto(a, w)
        BY <3>1, <3>5, SplitCons
      <4>4. W(E(s)) = Onto(a, W(E(t)))
        <5>1. E(t) \in Seq(C)
          BY <1>2
        <5>2. Split(Cons(c, E(t)), Blank) = Onto(<<c>>, Split(E(t), Blank))
          <6> HIDE DEF E
          <6> QED
            BY <3>5, <5>1, SplitCons
        <5> QED
          BY <3>4, <3>5, <5>2
      <4>5. Expand(args, a \o w[1]) = a \o Expand(args, w[1])
        <5> HIDE DEF w
        <5>1. Cons(c, w[1])[1] = c
          BY <4>2, ConsIs
        <5>2. ~IsHolder(args, Cons(c, w[1]), 1)
          BY <3>5, <5>1 DEF IsHolder, Holder
        <5>3. Expand(args, Cons(c, w[1])) = Cons(c, Expand(args, w[1]))
          BY <1>1, <4>2, <5>2, ExpandCons
        <5> QED
          BY <5>3 DEF Cons
      <4> HIDE DEF a
      <4>6. EachExpanded(args, Onto(a, w)) = Onto(a, EachExpanded(args, w))
        <5> HIDE DEF w
        <5> QED
          BY <4>1, <4>2, <4>5, EachOnto
      <4> QED
        BY <3>3, <4>3, <4>4, <4>6
    <3>6. CASE c = Blank
      <4>1. E(s) = Cons(Blank, E(t)) /\ E(t) \in Seq(C)
        BY <1>2, <3>4, <3>6, BlankIs
      <4>2. t # <<>> /\ t[1] = Blank <=> E(t) # <<>> /\ E(t)[1] = Blank
        BY <1>3, ExpandHead
      <4>3. /\ t # <<>> /\ t[1] = Blank => W(s) = W(t)
            /\ ~(t # <<>> /\ t[1] = Blank) => W(s) = Also(W(t))
        <5>1. Split(Cons(c, t), Blank) =
                IF c # Blank THEN Onto(<<c>>, Split(t, Blank))
                ELSE IF t # <<>> /\ t[1] = Blank THEN Split(t, Blank)
                ELSE Also(Split(t, Blank))
          BY SplitCons
        <5> QED
          BY <3>1, <3>6, <5>1
      <4>4. /\ E(t) # <<>> /\ E(t)[1] = Blank => W(E(s)) = W(E(t))
            /\ ~(E(t) # <<>> /\ E(t)[1] = Blank) => W(E(s)) = Also(W(E(t)))
        <5> DEFINE x == E(t)
        <5>1. x \in Seq(C) /\ Blank \in C /\ E(s) = Cons(Blank, x)
          BY <3>6, <4>1
        <5> HIDE DEF x, E
        <5>2. Split(Cons(Blank, x), Blank) =
                IF x # <<>> /\ x[1] = Blank THEN Split(x, Blank) ELSE Also(Split(x, Blank))
          BY <5>1, SplitCons
        <5> QED
          BY <5>1, <5>2 DEF x
      <4>5. EachExpanded(args, Also(W(t))) = Also(EachExpanded(args, W(t)))
        BY <1>1, <1>2, EachAlso
      <4> HIDE DEF E, W
      <4> QED
        BY <3>3, <4>2, <4>3, <4>4, <4>5
    <3>7. CASE c = ARG_PREFIX
      <4>1. PICK n \in 1..Len(args), u \in Seq(C) :
              /\ t = Cons(Digits[n + 1], u) /\ NoDigitAhead(u)
              /\ Digits[n + 1] \in C /\ Len(t) = Len(u) + 1 /\ Matches(args, u)
        BY <1>1, <3>1, <3>2, <3>7, MatchesHere
      <4>2. s = Placeholder(n, u) /\ n \in 1..9
        <5>1. s = Placeholder(n, u)
          BY <3>1, <3>7, <4>1 DEF Placeholder
        <5>2. n \in 1..9
          BY <1>1
        <5> QED
          BY <5>1, <5>2
      <4>3. W(E(u)) = EachExpanded(args, W(u))
        <5>1. Len(u) < Len(s)
          <6>1. Len(u) \in Nat
            BY LenProperties
          <6> QED
            BY <3>1, <4>1, <6>1
        <5>2. u \in T
          BY <1>4, <5>1
        <5> QED
          BY <4>1, <5>2
      <4>4. E(s) = args[n] \o E(u) /\ E(u) \in Seq(C)
        <5>1. Expand(args, Placeholder(n, u)) = args[n] \o Expand(args, u)
          BY <1>1, <4>1, ExpandHere
        <5>2. E(u) \in Seq(C)
          BY <1>2
        <5> QED
          BY <4>2, <5>1, <5>2
      <4>5. args[n] \in Seq(C) /\ Blank \notin Range(args[n])
        BY ParamIs
      <4>6. W(E(s)) = Onto(args[n], W(E(u)))
        <5> DEFINE x == E(u)
        <5>1. x \in Seq(C) /\ E(s) = args[n] \o x
          BY <4>4
        <5> HIDE DEF x, E
        <5>2. Split(args[n] \o x, Blank) = Onto(args[n], Split(x, Blank))
          BY <4>5, <5>1, SplitBehind
        <5> QED
          BY <5>1, <5>2 DEF x
      <4> DEFINE p == Placeholder(n, <<>>)
                 w == W(u)
      <4>7. /\ p \in Seq(C) /\ Blank \notin Range(p)
            /\ \A x \in Seq(C) : Placeholder(n, x) = p \o x
        BY <4>2, PlaceholderBehind
      <4> HIDE DEF p
      <4>8. W(s) = Onto(p, w)
        BY <4>2, <4>7, SplitBehind
      <4>9. w \in WordLists(C) /\ w[1] \in Seq(C) /\ NoDigitAhead(w[1])
        <5>1. w \in WordLists(C)
          BY <1>2
        <5>2. w[1] \in Seq(C) /\ (w[1] = <<>> \/ (u # <<>> /\ w[1][1] = u[1]))
          BY FirstOfSplit
        <5> HIDE DEF w
        <5> QED
          BY <4>1, <5>1, <5>2 DEF NoDigitAhead
      <4> HIDE DEF w
      <4>10. Expand(args, p \o w[1]) = args[n] \o Expand(args, w[1])
        <5>1. Placeholder(n, w[1]) = p \o w[1]
          BY <4>7, <4>9
        <5>2. Expand(args, Placeholder(n, w[1])) = args[n] \o Expand(args, w[1])
          BY <1>1, <4>1, <4>9, ExpandHere
        <5> QED
          BY <5>1, <5>2
      <4>11. EachExpanded(args, Onto(p, w)) = Onto(args[n], EachExpanded(args, w))
        <5> DEFINE b == args[n]
        <5>1. /\ p \in Seq(C) /\ b \in Seq(C) /\ w \in WordLists(C)
              /\ Expand(args, p \o w[1]) = b \o Expand(args, w[1])
          BY <4>5, <4>7, <4>9, <4>10
        <5> HIDE DEF b, E, W, T
        <5>2. EachExpanded(args, Onto(p, w)) = Onto(b, EachExpanded(args, w))
          <6>1. \A x \in Seq(C) : \A y \in Seq(C) : \A v \in WordLists(C) :
                  Expand(args, x \o v[1]) = y \o Expand(args, v[1]) =>
                    EachExpanded(args, Onto(x, v)) = Onto(y, EachExpanded(args, v))
            BY EachOnto
          <6> QED
            BY <5>1, <6>1
        <5> QED
          BY <5>2 DEF b
      <4> HIDE DEF E, W
      <4> QED
        BY <4>3, <4>6, <4>8, <4>11 DEF w
    <3> QED
      BY <3>5, <3>6, <3>7
  <2> QED
    BY <2>1, <2>2
<1>5. Seq(C) \subseteq T
  <2> HIDE DEF T
  <2> QED
    BY <1>4, TextInduction
<1> QED
  BY <1>5

\* A last word that is empty follows a blank.
LEMMA EmptyAtEnd ==
  ASSUME NEW C, NEW s \in Seq(C), NEW sep, NEW k \in 2..Len(Split(s, sep)), Split(s, sep)[k] = <<>>
  PROVE  s # <<>> /\ s[Len(s)] = sep /\ k = Len(Split(s, sep))
<1> DEFINE w == Split(s, sep)
<1>1. OnlyRuns(s, sep, 1, w)
  BY SplitRuns DEF WordsFrom
<1>2. k = Len(w)
  BY EmptyWordLast
<1> HIDE DEF w
<1>3. Len(s) \in Nat
  BY LenProperties
<1>4. ASSUME NEW b \in 1..Len(s), NEW e \in 1..Len(s), NextRun(s, sep, 1, b, e)
      PROVE  SubSeq(s, b, e) # <<>>
  <2>1. e \in b..Len(s)
    BY <1>4 DEF NextRun, Run
  <2>2. \A i \in b..e : s[i] \in C
    <3>1. \A i \in b..e : i \in 1..Len(s)
      BY <1>3
    <3> QED
      BY <3>1, ElementOfSeq
  <2>3. Len(SubSeq(s, b, e)) = IF b <= e THEN e - b + 1 ELSE 0
    BY <1>3, <2>2, SubSeqProperties
  <2>4. Len(SubSeq(s, b, e)) # 0
    BY <1>3, <2>1, <2>3
  <2> QED
    BY <2>4
<1>5. k \in 2..Len(w) /\ w[k] = <<>>
  BY DEF w
<1>6. 1 <= Len(s) /\ s[Len(s)] = sep
  BY <1>1, <1>4, <1>5 DEF OnlyRuns
<1>7. s # <<>>
  <2>1. s = <<>> => Len(s) = 0
    OBVIOUS
  <2> QED
    BY <1>3, <1>6, <2>1
<1> QED
  BY <1>2, <1>6, <1>7 DEF w

\* With parameters that are words, a command is expanded word by word.
LEMMA WordsExpanded ==
  ASSUME NEW C, Characters(C), NEW args \in Seq(Seq(C)), WordParams(args),
         NEW s \in Seq(C), Matches(args, s), s # <<>>
  PROVE  LET words == Words(Expand(args, s))
         IN  /\ words = EachExpanded(args, Split(s, Blank))
             /\ \A i \in DOMAIN words : words[i] = <<>> =>
                  \/ i = 1 /\ s[1] = Blank
                  \/ i = Len(words) /\ s[Len(s)] = Blank
<1> DEFINE x == Expand(args, s)
           w == Split(s, Blank)
           words == Words(x)
<1>1. x # <<>>
  BY ExpandHead
<1>2. words = Split(x, Blank) /\ words = EachExpanded(args, w)
  BY <1>1, ExpandWords DEF Words
<1>3. x \in Seq(C)
  BY ExpandIs DEF WordParams
<1>4. w \in WordLists(C) /\ words \in WordLists(C)
  <2> HIDE DEF x, words
  <2> QED
    BY <1>2, <1>3, SplitRuns DEF w
<1>5. s[1] # Blank => w[1] # <<>>
  BY FirstOfSplit
<1>6. \A i \in 2..Len(w) : w[i] = <<>> => i = Len(w) /\ s[Len(s)] = Blank
  BY EmptyAtEnd
<1> HIDE DEF w, words
<1>7. /\ DOMAIN w = 1..Len(w) /\ Len(w) \in Nat \ {0}
      /\ DOMAIN words = 1..Len(words) /\ Len(words) \in Nat \ {0}
      /\ \A i \in 1..Len(w) : w[i] \in Seq(C)
  BY <1>4, EmptySeq, LenProperties, ElementOfSeq DEF WordLists
<1>8. DOMAIN words = DOMAIN w /\ \A i \in DOMAIN w : words[i] = Expand(args, w[i])
  BY <1>2 DEF EachExpanded
<1>9. Len(words) = Len(w)
  <2> DEFINE m == Len(words)
             n == Len(w)
  <2>1. 1..m = 1..n /\ m \in Nat \ {0} /\ n \in Nat \ {0}
    BY <1>7, <1>8
  <2> HIDE DEF m, n
  <2>2. m \in 1..n /\ n \in 1..m
    BY <2>1
  <2>3. m = n
    BY <2>1, <2>2
  <2> QED
    BY <2>3 DEF m, n
<1>10. ASSUME NEW i \in DOMAIN words, words[i] = <<>>
       PROVE  \/ i = 1 /\ s[1] = Blank
              \/ i = Len(words) /\ s[Len(s)] = Blank
  <2>1. i \in 1..Len(w) /\ w[i] \in Seq(C) /\ Expand(args, w[i]) = <<>>
    BY <1>7, <1>8, <1>10
  <2>2. w[i] = <<>>
    BY <2>1, ExpandHead
  <2>3. CASE i = 1
    BY <1>5, <2>2, <2>3
  <2>4. CASE i # 1
    <3>1. i \in 2..Len(w)
      BY <1>7, <2>1, <2>4
    <3> QED
      BY <1>6, <1>9, <2>2, <3>1
  <2> QED
    BY <2>3, <2>4
<1> QED
  BY <1>2, <1>10 DEF w, words

-----------------------------------------------------------------------------
(* The three things that are read.                                         *)

\* What has been made of a text is what its function makes of it.
Made(cmd) == [end |-> "done", cmd |-> cmd, words |-> Words(cmd)]
TextInv ==
  /\ reading = "cpus" => text \in CpuTexts /\ result \in {Unread, parseCPU(text)}
  /\ reading = "command" => /\ \E c \in Commands : text = c[1] /\ param = c[2]
                            /\ result \in {Unread, Made(Replaced(text, param))}

LEMMA TextInvariant == InputSpec => []TextInv
<1>1. InputInit => TextInv
  BY DEF InputInit, TextInv
<1>2. TextInv /\ [InputNext]_inputVars => TextInv'
  <2> SUFFICES ASSUME TextInv, [InputNext]_inputVars PROVE TextInv'
    OBVIOUS
  <2>1. CASE UNCHANGED textVars
    BY <2>1 DEF textVars, TextInv
  <2>2. CASE ReadCpus
    BY <2>2 DEF ReadCpus, TextInv
  <2>3. CASE ReadCommand
    BY <2>3 DEF ReadCommand, TextInv, Made
  <2> QED
    BY <2>1, <2>2, <2>3 DEF InputNext, TextRead, inputVars
<1> QED
  BY <1>1, <1>2, PTL DEF InputSpec

\* ProfilerArguments::parseCPU: the cpu list has every cpu the text names and
\* no other, once, and a text is refused if and only if it is no such list; for
\* texts of any characters and length and any largest int.
THEOREM CpusAlwaysAsNamed == InputSpec => []CpusAsNamed
<1>1. TextInv => CpusAsNamed
  <2> SUFFICES ASSUME TextInv, reading = "cpus", result # Unread
               PROVE  /\ result.end = "done" => Listable(text) /\ Listed
                      /\ result.end = "refused" => ~Listable(text)
                      /\ result.end = "overflow" => MaxInt \in Named(text)
    BY DEF CpusAsNamed, CpusRead
  <2>1. text \in Seq(STRING) /\ result = parseCPU(text)
    BY InputAssumption DEF TextInv
  <2> QED
    BY <2>1, CpusParsed DEF Listed
<1> QED
  BY <1>1, TextInvariant, PTL

LEMMA MoreTexts ==
  ASSUME NEW S, NEW C, S \subseteq C PROVE Seq(S) \subseteq Seq(C)
<1> SUFFICES ASSUME NEW s \in Seq(S) PROVE s \in Seq(C)
  OBVIOUS
<1>1. s \in [1..Len(s) -> S] /\ Len(s) \in Nat
  BY LenProperties
<1>2. s \in [1..Len(s) -> C]
  BY <1>1
<1> QED
  BY <1>1, <1>2

\* ParallelProfiler.cpp:800-807: one replace_all per parameter replaces every
\* placeholder by its parameter, and the split then gives the words of the
\* command, each expanded; for any command and fewer than ten parameters
\* without a $.
THEOREM AlwaysExpanded == InputSpec => []Expanded
<1>1. TextInv => Expanded
  <2> SUFFICES ASSUME TextInv, reading = "command", result # Unread, Plain(param)
               PROVE  /\ result.cmd = Expand(param, text)
                      /\ text # <<>> /\ (\A a \in Range(param) : OneWord(a)) => WordByWord
    BY DEF Expanded, CommandRead
  <2>1. result = Made(Replaced(text, param))
    BY DEF TextInv
  <2> DEFINE C == STRING \cup {ARG_PREFIX} \cup {Digits[k] : k \in 1..10}
  <2>2. Characters(C)
    BY DEF Characters
  <2>3. text \in Seq(C) /\ param \in Seq(Seq(C)) /\ Matches(param, text)
    <3>1. text \in Seq(STRING) /\ param \in Seq(Seq(STRING)) /\ Matches(param, text)
      BY InputAssumption DEF TextInv
    <3>2. STRING \subseteq C
      OBVIOUS
    <3>3. Seq(STRING) \subseteq Seq(C)
      BY <3>2, MoreTexts
    <3> QED
      BY <3>1, <3>3, MoreTexts
  <2> HIDE DEF C
  <2>4. Replaced(text, param) = Expand(param, text)
    BY <2>2, <2>3, ReplacedIs
  <2>5. result.cmd = Expand(param, text) /\ result.words = Words(Expand(param, text))
    BY <2>1, <2>4 DEF Made
  <2>6. ASSUME text # <<>>, \A a \in Range(param) : OneWord(a) PROVE WordByWord
    <3>1. WordParams(param)
      BY <2>6 DEF WordParams, Plain
    <3> DEFINE words == Words(Expand(param, text))
    <3>2. /\ words = EachExpanded(param, Split(text, Blank))
          /\ \A i \in DOMAIN words : words[i] = <<>> =>
               \/ i = 1 /\ text[1] = Blank
               \/ i = Len(words) /\ text[Len(text)] = Blank
      BY <2>2, <2>3, <2>6, <3>1, WordsExpanded
    <3> HIDE DEF words
    <3>3. result.words = words
      BY <2>5 DEF words
    <3> QED
      BY <3>2, <3>3 DEF WordByWord, EachExpanded
  <2> QED
    BY <2>5, <2>6
<1> QED
  BY <1>1, TextInvariant, PTL

-----------------------------------------------------------------------------
(* Files and plans.                                                        *)

\* What reads a text leaves the parser alone, so its theorems hold of InputSpec.
THEOREM FilesRead == InputSpec => Spec
<1>1. InputInit => Init
  BY DEF InputInit
<1>2. [InputNext]_inputVars => [Next]_vars
  BY DEF InputNext, ReadCpus, ReadCommand, TextRead, inputVars
<1> QED
  BY <1>1, <1>2, PTL DEF InputSpec, Spec
=============================================================================
