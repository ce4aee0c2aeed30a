--------------------------- MODULE ConfigParser ----------------------------
(***************************************************************************)
(* From the command line to the profiler's plans: ConfigParser, which      *)
(* reads tasks and plans from the configuration files, and the part of     *)
(* main() in profile.cpp that calls it, with the plans named by --plan and *)
(* those written out by --json-plan.                                       *)
(*                                                                         *)
(* A JSON value is a tuple of its type and what it holds: a text, a        *)
(* number, a sequence of values, or a record of values.  Texts that differ *)
(* in nothing the parser looks at are one.                                 *)
(***************************************************************************)
EXTENDS Naturals, SequencesExt

CONSTANTS
  TaskVals,   \* What may stand in a "Task" array.
  PlanVals,   \* What may stand in a "Plan" array.
  JsonVals,   \* What may follow --json-plan, or --plan in braces.
  PlanIds,    \* The ids that may follow --plan.
  MaxFiles,   \* Bound: --config options.
  MaxVals,    \* Bound: entries of all arrays.
  MaxPicks,   \* Bound: --plan options.
  MaxJson     \* Bound: --json-plan options.

ASSUME ParserAssumption ==
  MaxFiles \in Nat /\ MaxVals \in Nat /\ MaxPicks \in Nat /\ MaxJson \in Nat

\* What rapidjson makes of a text, as deep as the parser looks into it.
Is(type, val) == val[1] = type
Scalar(val) == /\ Is("uint", val) => val[2] \in Nat
               /\ Is("bool", val) => val[2] \in BOOLEAN
Flat(val) == /\ Scalar(val)
             /\ Is("array", val) => /\ val[2] \in Seq(Range(val[2]))
                                   /\ \A v \in Range(val[2]) : Scalar(v)
Object(val) ==
  /\ Flat(val)
  /\ Is("object", val) => \A m \in DOMAIN val[2] : Flat(val[2][m])
Entry(val) ==
  /\ Object(val)
  /\ Is("object", val) => \A m \in DOMAIN val[2] : Object(val[2][m])

ASSUME JsonAssumption == \A val \in TaskVals \cup PlanVals \cup JsonVals : Entry(val)

VARIABLES
  m_taskMap, m_planMap, \* The parser's maps, by id.
  m_plan,               \* The profiler's plans.
  exist,                \* The ids of m_plan.
  pc,                   \* config, Task, Plan, plan, json, profile or exit.
  rest,                 \* The arrays of the file that are still to be read.
  error,                \* What the last parse returned.
  files, vals, picks,   \* How many of each have been read.
  declared,             \* History: the tasks read, as JSON values.
  given,                \* History: the plans of m_planMap, as JSON values, by id.
  wanted,               \* History: is what was read last as README.md wants it?
  odd                   \* History: in what README.md and the code differ on it.

maps == <<m_taskMap, m_planMap>>
chosen == <<m_plan, exist>>
counts == <<files, vals, picks>>
read == <<declared, given>>
judged == <<wanted, odd>>
history == <<read, judged>>
vars == <<maps, chosen, pc, rest, error, counts, history>>

Init ==
  /\ m_taskMap = <<>> /\ m_planMap = <<>>
  /\ m_plan = <<>> /\ exist = {}
  /\ pc = "config" /\ rest = <<>> /\ error = "PARSE_OK"
  /\ files = 0 /\ vals = 0 /\ picks = 0
  /\ declared = {} /\ given = <<>> /\ wanted = TRUE /\ odd = "none"

-----------------------------------------------------------------------------
(* JSON values.                                                            *)

Has(val, m) == m \in DOMAIN val[2]
Get(val, m) == val[2][m][2]
GetOr(val, m, default) == IF Has(val, m) THEN Get(val, m) ELSE default

\* Member m is there, and is not of the type.
Wrong(val, m, type) == Has(val, m) /\ ~Is(type, val[2][m])
WrongElement(val, m, type) ==
  Has(val, m) /\ \E i \in DOMAIN Get(val, m) : ~Is(type, Get(val, m)[i])
WrongPhase(val) ==
  Wrong(val, "phase", "array") \/ WrongElement(val, "phase", "uint")
    \/ (Has(val, "phase") /\ Len(Get(val, "phase")) # 2)

Texts(val, m) == LET s == GetOr(val, m, <<>>) IN [i \in DOMAIN s |-> s[i][2]]
Phase(val) == IF Has(val, "phase") THEN Texts(val, "phase") ELSE <<0, 0>>

-----------------------------------------------------------------------------
(* ConfigParser: what a parse function returns, and its error.             *)

PlanType == {"DAEMON", "COUNT", "SAMPLE_ALL", "SAMPLE_PHASE"}

\* The default task has neither name nor command.
defaultTask == [id |-> "", cmd |-> "", dir |-> ""]
Task(val) == [id |-> Get(val, "id"), cmd |-> Get(val, "cmd"), dir |-> GetOr(val, "dir", ".")]

TaskError(val) ==
  IF ~Is("object", val) \/ ~Has(val, "id") \/ ~Has(val, "cmd")
    THEN "TASK_LOST_MEMBER"
  ELSE IF Wrong(val, "id", "string") \/ Wrong(val, "cmd", "string")
    THEN "TASK_INVALID_MEMBER"
  ELSE IF Wrong(val, "dir", "string")
    THEN "TASK_INVALID_DIR"
  ELSE "PARSE_OK"

\* The attributes of a task, from a "task" member or a --json-plan.
defaultTaskAttribute(task) ==
  [task |-> task, param |-> <<>>, rt |-> FALSE, pincpu |-> FALSE, phase |-> <<0, 0>>]
TaskAttribute(val, task) ==
  [task |-> task, param |-> Texts(val, "param"), rt |-> GetOr(val, "rt", FALSE),
   pincpu |-> GetOr(val, "pincpu", FALSE), phase |-> Phase(val)]

FlagsError(val) ==
  IF Wrong(val, "rt", "bool") THEN "TASKATTR_INVALID_RT"
  ELSE IF Wrong(val, "pincpu", "bool") THEN "TASKATTR_INVALID_PINCPU"
  ELSE IF WrongPhase(val) THEN "TASKATTR_INVALID_PHASE"
  ELSE "PARSE_OK"

TaskAttributeError(val) ==
  IF ~Is("object", val)
    THEN "TASKATTR_INVALID_FORMAT"
  ELSE IF ~Has(val, "id") \/ Wrong(val, "id", "string")
    THEN "TASKATTR_INVALID_ID"
  ELSE IF Get(val, "id") \notin DOMAIN m_taskMap
    THEN "TASKATTR_INVALID_TASK"
  ELSE IF Wrong(val, "param", "array")
    THEN "TASKATTR_INVALID_PARAM"
  ELSE IF WrongElement(val, "param", "string")
    THEN "TASKATTR_INVALID_PARAMARG"
  ELSE FlagsError(val)

defaultPerfAttribute == [leader |-> "", period |-> 0, events |-> <<>>]
PerfAttribute(val) ==
  [leader |-> GetOr(val, "leader", ""), period |-> GetOr(val, "period", 0),
   events |-> Texts(val, "member")]

PerfAttributeError(val) ==
  IF ~Is("object", val) THEN "PERFATTR_INVALID_FORMAT"
  ELSE IF Wrong(val, "leader", "string") THEN "PERFATTR_INVALID_LEADER"
  ELSE IF Wrong(val, "period", "uint") THEN "PERFATTR_INVALID_PERIOD"
  ELSE IF Wrong(val, "member", "array") THEN "PERFATTR_INVALID_MEMBER"
  ELSE IF WrongElement(val, "member", "string") THEN "PERFATTR_INVALID_EVENT"
  ELSE "PARSE_OK"

Plan(id, type, task, perf) == [id |-> id, type |-> type, task |-> task, perf |-> perf]

\* A type that planType does not have.
UnknownType(val) == Get(val, "type") \notin PlanType

\* parsePlan: a plan need not have a task.
PlanError(val) ==
  IF ~Is("object", val) \/ ~Has(val, "id") \/ ~Has(val, "type")
    THEN "PLAN_LOST_MEMBER"
  ELSE IF Wrong(val, "id", "string") \/ Wrong(val, "type", "string")
          \/ UnknownType(val)
    THEN "PLAN_INVALID_MEMBER"
  ELSE IF Has(val, "task") /\ TaskAttributeError(val[2].task) # "PARSE_OK"
    THEN TaskAttributeError(val[2].task)
  ELSE IF Has(val, "perf") THEN PerfAttributeError(val[2].perf)
  ELSE "PARSE_OK"
ParsedPlan(val) ==
  Plan(Get(val, "id"), Get(val, "type"),
    IF Has(val, "task")
      THEN TaskAttribute(val[2].task, m_taskMap[Get(val[2].task, "id")])
      ELSE defaultTaskAttribute(defaultTask),
    IF Has(val, "perf") THEN PerfAttribute(val[2].perf) ELSE defaultPerfAttribute)

\* parseJsonPlan: everything is at the top, and the task is its command.
JsonPlanError(val) ==
  IF \/ ~Is("object", val)
     \/ \E m \in {"id", "task", "type"} : ~Has(val, m) \/ Wrong(val, m, "string")
     \/ UnknownType(val)
    THEN "CONF_PARSE_ERROR"
  ELSE IF FlagsError(val) # "PARSE_OK" THEN FlagsError(val)
  ELSE PerfAttributeError(val)
ParsedJsonPlan(val) ==
  Plan(Get(val, "id"), Get(val, "type"),
    [TaskAttribute(val, [id |-> "diy", cmd |-> Get(val, "task"), dir |-> "."]) EXCEPT !.param = <<>>],
    PerfAttribute(val))

\* Plan::valid.
Valid_PhaseAnyOrder(plan) ==
  /\ plan.id # ""
  /\ plan.type # "DAEMON" => plan.perf.leader # ""
  /\ plan.type \in {"SAMPLE_ALL", "SAMPLE_PHASE"} => plan.perf.period > 0
Valid(plan) ==
  /\ plan.id # ""
  /\ plan.type # "DAEMON" => plan.perf.leader # ""
  /\ plan.type \in {"SAMPLE_ALL", "SAMPLE_PHASE"} => plan.perf.period > 0
  /\ plan.type = "SAMPLE_PHASE" => plan.task.phase[1] < plan.task.phase[2]
-----------------------------------------------------------------------------

\* What README.md says of each member of a task, a plan and a --json-plan: its
\* type, and whether it is required.
OfType(type, val) ==
  CASE type = "strings" ->
         Is("array", val) /\ \A i \in DOMAIN val[2] : Is("string", val[2][i])
    [] type = "two uints" ->
         Is("array", val) /\ Len(val[2]) = 2 /\ \A i \in 1..2 : Is("uint", val[2][i])
    [] type = "type" -> Is("string", val) /\ val[2] \in PlanType
    [] type = "task" -> Is("string", val) /\ val[2] \in DOMAIN m_taskMap
    [] OTHER -> Is(type, val)
Conforms(val, required, optional) ==
  /\ Is("object", val)
  /\ \A m \in DOMAIN required : Has(val, m) /\ OfType(required[m], val[2][m])
  /\ \A m \in DOMAIN optional : Has(val, m) => OfType(optional[m], val[2][m])

Flags == [rt |-> "bool", pincpu |-> "bool", phase |-> "two uints"]
Perf == [leader |-> "string", period |-> "uint", member |-> "strings"]

TaskConforms(val) ==
  Conforms(val, [id |-> "string", cmd |-> "string"], [dir |-> "string"])

\* What a plan of this type is described to ignore, and what is left.
Ignored(type) ==
  CASE type = "DAEMON" -> {"phase"} \cup DOMAIN Perf
    [] type = "COUNT" -> {"phase", "period"}
    [] type = "SAMPLE_ALL" -> {"phase"}
    [] OTHER -> {}
Asked(members, type) == Restrict(members, DOMAIN members \ Ignored(type))

\* The members that are there are of their types, but for what is ignored in a
\* plan of this type: in one of SAMPLE_PHASE, nothing.
PlanFits(val, type) ==
  /\ Conforms(val, [id |-> "string", type |-> "type"], [task |-> "object"])
  /\ Has(val, "task") =>
       /\ Conforms(val[2].task, [id |-> "task"], [param |-> "strings"])
       /\ Conforms(val[2].task, <<>>, Asked(Flags, type))
  /\ type # "DAEMON" /\ Has(val, "perf") => Conforms(val[2].perf, <<>>, Asked(Perf, type))
JsonFits(val, type) ==
  /\ Conforms(val, [id |-> "string", task |-> "string", type |-> "type"], Asked(Flags, type))
  /\ Conforms(val, <<>>, Asked(Perf, type))

\* A plan; id, type and task:id are required.
PlanConforms(val) == PlanFits(val, Get(val, "type")) /\ Has(val, "task")
JsonConforms(val) == JsonFits(val, Get(val, "type"))

\* What the type of a plan asks of the members that may be absent otherwise.
TypeConforms(type, perf, phase) ==
  /\ type \in {"COUNT", "SAMPLE_ALL", "SAMPLE_PHASE"} => perf.leader # ""
  /\ type \in {"SAMPLE_ALL", "SAMPLE_PHASE"} => perf.period \in Nat \ {0}
  /\ type = "SAMPLE_PHASE" => phase[2] > phase[1]
Complete(plan) == TypeConforms(plan.type, plan.perf, plan.task.phase)

\* An entry is welcome if it is as described and its name is new in its list.
TaskWelcome(val) == TaskConforms(val) /\ Get(val, "id") \notin DOMAIN m_taskMap
NewPlan(val) == Get(val, "id") \notin DOMAIN m_planMap \cup {""}
PlanWelcome(val) ==
  PlanConforms(val) /\ NewPlan(val) /\ Complete(ParsedPlan(val))
JsonWelcome(val) ==
  /\ JsonConforms(val) /\ Get(val, "id") \notin exist \cup {""}
  /\ Complete(ParsedJsonPlan(val))

(***************************************************************************)
(* Where README.md and the code differ: a plan that lacks nothing but its  *)
(* task is unwelcome, and taken; a member that is to be ignored, and has   *)
(* not its type, is refused; so is a plan written out in braces after      *)
(* --plan.                                                                 *)
(***************************************************************************)
PlanOdd(val) ==
  IF PlanWelcome(val) /\ ~PlanFits(val, "SAMPLE_PHASE") THEN "ignored"
  ELSE IF /\ PlanFits(val, "SAMPLE_PHASE") /\ ~Has(val, "task")
          /\ NewPlan(val) /\ Complete(ParsedPlan(val))
    THEN "task"
  ELSE "none"
JsonOdd(val) ==
  IF JsonWelcome(val) /\ ~JsonFits(val, "SAMPLE_PHASE") THEN "ignored" ELSE "none"

-----------------------------------------------------------------------------
(* parseFile and parseJson: one file after another, the tasks of a file    *)
(* before its plans.  The first error ends the program.                    *)

Fail(e) == pc' = "exit" /\ error' = e

\* A map with one more entry, under a new key.
Emplaced(map, id, x) == [k \in DOMAIN map \cup {id} |-> IF k = id THEN x ELSE map[k]]

\* The ways a file may be no configuration; where its size cannot be had, it
\* is -1, and resize throws.
FileErrors ==
  {"FILE_NOT_EXIST", "length_error", "FILE_SEEK_ERROR", "CONF_PARSE_ERROR",
   "CONF_INVALID_FORMAT"}
Section == {"absent", "array", "wrong"}

ReadFile ==
  /\ pc = "config" /\ files < MaxFiles
  /\ files' = files + 1
  /\ \/ \E e \in FileErrors : Fail(e) /\ UNCHANGED rest
     \/ /\ pc' = "Task" /\ rest' \in [Task : Section, Plan : Section]
        /\ UNCHANGED error
  /\ wanted' = (pc' # "exit") /\ odd' = "none"
  /\ UNCHANGED <<maps, chosen, vals, picks, read>>

\* The end of an array, or none.
Following == IF pc = "Task" THEN "Plan" ELSE "config"
EndArray ==
  /\ pc \in {"Task", "Plan"}
  /\ IF rest[pc] = "wrong"
     THEN Fail(IF pc = "Task" THEN "TASK_INVALID_FORMAT" ELSE "PLAN_INVALID_FORMAT")
     ELSE pc' = Following /\ UNCHANGED error
  /\ wanted' = (rest[pc] # "wrong") /\ odd' = "none"
  /\ UNCHANGED <<maps, chosen, rest, counts, read>>

AddTask(val) ==
  /\ pc = "Task" /\ rest.Task = "array" /\ vals < MaxVals
  /\ vals' = vals + 1 /\ wanted' = TaskWelcome(val) /\ odd' = "none"
  /\ IF TaskError(val) # "PARSE_OK"
       THEN Fail(TaskError(val)) /\ UNCHANGED <<m_taskMap, declared>>
     ELSE IF Get(val, "id") \in DOMAIN m_taskMap
       THEN Fail("TASK_ALREADY_EXIST") /\ UNCHANGED <<m_taskMap, declared>>
     ELSE /\ m_taskMap' = Emplaced(m_taskMap, Get(val, "id"), Task(val))
          /\ declared' = declared \cup {val}
          /\ UNCHANGED <<pc, error>>
  /\ UNCHANGED <<m_planMap, chosen, rest, files, picks, given>>

AddPlan(val) ==
  /\ pc = "Plan" /\ rest.Plan = "array" /\ vals < MaxVals
  /\ vals' = vals + 1 /\ wanted' = PlanWelcome(val) /\ odd' = PlanOdd(val)
  /\ IF PlanError(val) # "PARSE_OK"
       THEN Fail(PlanError(val)) /\ UNCHANGED <<m_planMap, given>>
     ELSE IF ~Valid(ParsedPlan(val))
       THEN Fail("PLAN_INVALID") /\ UNCHANGED <<m_planMap, given>>
     ELSE IF Get(val, "id") \in DOMAIN m_planMap
       THEN Fail("PLAN_ALREADY_EXIST") /\ UNCHANGED <<m_planMap, given>>
     ELSE /\ m_planMap' = Emplaced(m_planMap, Get(val, "id"), ParsedPlan(val))
          /\ given' = Emplaced(given, Get(val, "id"), val)
          /\ UNCHANGED <<pc, error>>
  /\ UNCHANGED <<m_taskMap, chosen, rest, files, picks, declared>>

-----------------------------------------------------------------------------
(* main(): the plans to profile.                                           *)

\* A command line without a plan is refused by ProfilerArguments::parse before
\* a file is read, which comes to the same.
NoPlanGiven ==
  /\ pc = "json" /\ m_plan = <<>>
  /\ Fail("provide one plan at least") /\ wanted' = FALSE /\ odd' = "none"
  /\ UNCHANGED <<maps, chosen, rest, counts, read>>

Choose ==
  /\ pc \in {"config", "plan", "json"}
  /\ pc' = CASE pc = "config" -> "plan" [] pc = "plan" -> "json" [] pc = "json" -> "profile"
  /\ pc = "json" => m_plan # <<>>
  /\ picks' = 0
  /\ UNCHANGED <<maps, chosen, rest, error, files, vals, history>>

Take_NotNoted(plan) ==
  /\ picks' = picks + 1
  /\ IF plan.id \in exist THEN Fail("conflict") /\ UNCHANGED chosen
     ELSE m_plan' = Append(m_plan, plan) /\ UNCHANGED <<exist, pc, error>>
Take(plan) ==
  /\ picks' = picks + 1
  /\ IF plan.id \in exist THEN Fail("conflict") /\ UNCHANGED chosen
     ELSE /\ m_plan' = Append(m_plan, plan) /\ exist' = exist \cup {plan.id}
          /\ UNCHANGED <<pc, error>>

PickPlan(id) ==
  /\ pc = "plan" /\ picks < MaxPicks
  /\ wanted' = (id \in DOMAIN m_planMap \ exist) /\ odd' = "none"
  /\ IF id \in DOMAIN m_planMap THEN Take(m_planMap[id])
     ELSE Fail("no such plan") /\ UNCHANGED <<chosen, picks>>
  /\ UNCHANGED <<maps, rest, files, vals, read>>

\* A plan written out in braces after --plan is taken for an id, which no plan
\* of the files has.
PickBraces(val) ==
  /\ pc = "plan" /\ picks < MaxPicks
  /\ wanted' = JsonWelcome(val) /\ odd' = (IF JsonWelcome(val) THEN "braces" ELSE "none")
  /\ Fail("no such plan")
  /\ UNCHANGED <<maps, chosen, rest, counts, read>>

WritePlan(val) ==
  /\ pc = "json" /\ picks < MaxJson
  /\ wanted' = JsonWelcome(val) /\ odd' = JsonOdd(val)
  /\ IF JsonPlanError(val) # "PARSE_OK"
       THEN Fail(JsonPlanError(val)) /\ UNCHANGED <<chosen, picks>>
     ELSE IF ~Valid(ParsedJsonPlan(val))
       THEN Fail("invalid plan") /\ UNCHANGED <<chosen, picks>>
     ELSE Take(ParsedJsonPlan(val))
  /\ UNCHANGED <<maps, rest, files, vals, read>>

Ended == pc \in {"profile", "exit"} /\ UNCHANGED vars

Next ==
  \/ ReadFile \/ EndArray \/ Choose \/ NoPlanGiven \/ Ended
  \/ \E val \in TaskVals : AddTask(val)
  \/ \E val \in PlanVals : AddPlan(val)
  \/ \E val \in JsonVals : WritePlan(val) \/ PickBraces(val)
  \/ \E id \in PlanIds : PickPlan(id)

Spec == Init /\ [][Next]_vars

-----------------------------------------------------------------------------

TypeOK ==
  /\ \A id \in DOMAIN m_taskMap : m_taskMap[id].id = id
  /\ \A id \in DOMAIN m_planMap :
       LET plan == m_planMap[id]
       IN /\ plan.id = id /\ plan.type \in PlanType
          /\ plan.task.phase \in Nat \X Nat /\ plan.task.rt \in BOOLEAN
          /\ plan.perf.period \in Nat
  /\ pc \in {"config", "Task", "Plan", "plan", "json", "profile", "exit"}
  /\ pc = "exit" <=> error # "PARSE_OK"
  /\ DOMAIN given = DOMAIN m_planMap

\* The program goes on exactly as long as what it reads is as README.md has it:
\* required members and types by the type of the plan, ids new in their list,
\* tasks defined in this file or one before; "id, type and task:id are required"
\* (README.md:94).  The code takes a plan without a task.
JudgedAsDocumented == pc = "exit" <=> ~wanted

\* Three things apart, it is so: the order in which the code looks at the members
\* lets no wrong entry through and refuses no right one.  In these three, the
\* code takes a plan without its task, and refuses a malformed member though
\* it is to be ignored, and a plan in braces after --plan.
JudgedButForThree ==
  /\ odd = "none" => JudgedAsDocumented
  /\ odd = "task" => pc # "exit" /\ ~wanted
  /\ odd \in {"ignored", "braces"} => pc = "exit" /\ wanted

\* The task of a plan of the files is the one, and only, that was declared under
\* the name the plan gives; one that gives none has the default task.
TaskResolved ==
  \A id \in DOMAIN m_planMap :
    LET task == m_planMap[id].task.task
        val == given[id]
    IN IF Has(val, "task")
         THEN {Task(v) : v \in {u \in declared : Get(u, "id") = Get(val[2].task, "id")}} = {task}
         ELSE task = defaultTask

\* What the parser lets through is of the type the profiler expects.  A plan
\* runs the task of the name it gives, and there is only one of that name in all
\* the files.  The profiler gets at least one plan, all of different names, by
\* whatever option they came, and none that argsCheck would refuse as invalid.
PlansReady ==
  /\ TypeOK /\ TaskResolved
  /\ pc = "profile" =>
       /\ m_plan # <<>>
       /\ \A i, j \in DOMAIN m_plan : i # j => m_plan[i].id # m_plan[j].id
       /\ \A i \in DOMAIN m_plan : Valid(m_plan[i])
=============================================================================
