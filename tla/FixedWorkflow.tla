--------------------------- MODULE FixedWorkflow ---------------------------
(***************************************************************************)
(* The fixed workflow: a planner makes a graph of tasks, one per agent     *)
(* call, and the supervisor executes it in rounds.  A task reads the       *)
(* findings that its inputs name, or those of its dependencies; a finding  *)
(* is recorded with its Evidence, and the report is made at the end.       *)
(*                                                                         *)
(* The planner is Python (the fixed plan) or a model, whose plan is taken  *)
(* when it is a graph over the required agents.  Nothing relates the       *)
(* findings a model's task names to the tasks it depends on: the           *)
(* supervisor finds out when it executes the task.                         *)
(***************************************************************************)
EXTENDS Naturals, FiniteSets, Sequences, SequencesExt

CONSTANT
  Proposals        \* the plans a model may answer with

VARIABLES
  planner,         \* "deterministic" or "llm"
  job,             \* [lot |-> a Lot is known, subject |-> a Lot or product is, status]
  step,            \* "planning", "round", "tasks", "report", "done" or "raised"
  plan,            \* the tasks, in the planner's order
  ready,           \* the positions in the plan of what this round still has to execute
  status,          \* the status of each task
  current,         \* current_task_id, or NoTask
  completed,       \* completed_task_ids
  findings,        \* the findings, in the order of their recording
  authority,       \* the task of the authoritative RCA finding, or NoTask
  failure          \* why the run raised, or "none"

workflowVars == <<planner, job, step, plan, ready, status, current, completed, findings, authority, failure>>
fixed == <<planner, plan>>

NoTask == "no_task"
Specialists == {"mes", "fdc", "defect_wat", "knowledge"}
RequiredAgents == Specialists \union {"rca_reasoning", "improvement"}
Task(id, agent, kind, deps, from) == [id |-> id, agent |-> agent, kind |-> kind, deps |-> deps, from |-> from]
Ids(p) == {p[i].id : i \in DOMAIN p}
TaskOf(id) == CHOOSE t \in ToSet(plan) : t.id = id

\* A list of tasks, which list other tasks.  current_task_id is None between two
\* tasks, and None names no task.
IsList(s) == s \in Seq(ToSet(s))
IsPlan(p) ==
  IsList(p) /\ NoTask \notin Ids(p) /\ \A i \in DOMAIN p : IsList(p[i].deps) /\ IsList(p[i].from)

ASSUME ProposalsAssumption == \A p \in Proposals : IsPlan(p)

-----------------------------------------------------------------------------
(* Planning.                                                               *)

Observed == <<"mes", "fdc", "defect">>

\* A bug: the assessment waits only for what was observed.
DefaultPlanHasty ==
  << Task("mes", "mes", "observation", <<>>, <<>>),
     Task("fdc", "fdc", "observation", <<"mes">>, <<"mes">>),
     Task("defect", "defect_wat", "observation", <<"mes">>, <<"mes">>),
     Task("discovery", "knowledge", "knowledge_discovery", Observed, Observed),
     Task("validation", "knowledge", "knowledge_validation", <<"discovery">>, Append(Observed, "discovery")),
     Task("rca", "rca_reasoning", "hypothesis_ranking", Observed, Observed \o <<"discovery", "validation">>),
     Task("improvement", "improvement", "improvement", <<"rca">>, Observed \o <<"discovery", "validation", "rca">>) >>

DefaultPlan ==
  << Task("mes", "mes", "observation", <<>>, <<>>),
     Task("fdc", "fdc", "observation", <<"mes">>, <<"mes">>),
     Task("defect", "defect_wat", "observation", <<"mes">>, <<"mes">>),
     Task("discovery", "knowledge", "knowledge_discovery", Observed, Observed),
     Task("validation", "knowledge", "knowledge_validation", <<"discovery">>, Append(Observed, "discovery")),
     Task("rca", "rca_reasoning", "hypothesis_ranking",
          Observed \o <<"discovery", "validation">>, Observed \o <<"discovery", "validation">>),
     Task("improvement", "improvement", "improvement", <<"rca">>, Observed \o <<"discovery", "validation", "rca">>) >>

Agents(p) == {p[i].agent : i \in DOMAIN p}

\* A bug: a plan may depend on itself.
IsTaskGraphCyclic(p) ==
  /\ p # <<>>
  /\ Cardinality(Ids(p)) = Len(p)
  /\ \A i \in DOMAIN p : ToSet(p[i].deps) \subseteq Ids(p)

\* A non-empty graph with distinct ids, known dependencies and no cycle: no
\* set of tasks in which every task waits for another of them.
IsTaskGraph(p) ==
  /\ p # <<>>
  /\ Cardinality(Ids(p)) = Len(p)
  /\ \A i \in DOMAIN p : ToSet(p[i].deps) \subseteq Ids(p)
  /\ \A S \in (SUBSET DOMAIN p) \ {{}} : \E i \in S : \A j \in S : p[j].id \notin ToSet(p[i].deps)

Accepted(p) == IsTaskGraph(p) /\ Agents(p) = RequiredAgents

WorkflowInit ==
  /\ planner \in {"deterministic", "llm"}
  /\ job \in {[lot |-> l, subject |-> s, status |-> "pending"] : l \in BOOLEAN, s \in BOOLEAN}
  /\ job.lot => job.subject
  /\ step = "planning" /\ plan = <<>> /\ ready = {} /\ status = <<>> /\ current = NoTask
  /\ completed = {} /\ findings = <<>> /\ authority = NoTask /\ failure = "none"

Start(p) ==
  /\ step = "planning"
  /\ plan' = p
  /\ status' = [id \in Ids(p) |-> "pending"]
  /\ job' = [job EXCEPT !.status = "running"]
  /\ step' = "round"
  /\ UNCHANGED <<planner, ready, current, completed, findings, authority, failure>>

PlanByPython == planner = "deterministic" /\ Start(DefaultPlan)
PlanByModel == step = "planning" /\ planner = "llm" /\ \E p \in {q \in Proposals : Accepted(q)} : Start(p)

\* The call fails, or the plan is refused: nothing has been executed.
NoPlan ==
  /\ step = "planning" /\ planner = "llm"
  /\ \/ failure' = "call"
     \/ failure' = "plan" /\ {p \in Proposals : ~Accepted(p)} # {}
  /\ step' = "raised"
  /\ UNCHANGED <<fixed, job, ready, status, current, completed, findings, authority>>

-----------------------------------------------------------------------------
(* Rounds and tasks.                                                       *)

Remaining == Ids(plan) \ completed
StartRound ==
  /\ step = "round" /\ Remaining # {}
  /\ ready' = {i \in DOMAIN plan : plan[i].id \in Remaining /\ ToSet(plan[i].deps) \subseteq completed}
  /\ IF ready' = {} THEN step' = "raised" /\ failure' = "stuck"
                    ELSE step' = "tasks" /\ UNCHANGED failure
  /\ UNCHANGED <<fixed, job, status, current, completed, findings, authority>>

\* The ready tasks are executed in the order of the plan.
BeginTask ==
  /\ step = "tasks" /\ current = NoTask
  /\ \E i \in ready :
       /\ \A j \in ready : i <= j
       /\ current' = plan[i].id
       /\ status' = [status EXCEPT ![plan[i].id] = "running"]
  /\ UNCHANGED <<fixed, job, step, ready, completed, findings, authority, failure>>

Recorded == {findings[i].task : i \in DOMAIN findings}
FindingOf(id) == CHOOSE f \in ToSet(findings) : f.task = id

\* The tasks whose findings a task reads, in the order it names them.
Named(t) == IF t.from = <<>> THEN t.deps ELSE t.from

\* A bug: findings that do not exist yet are passed over.
CanReadWhatExists(t) == Cardinality(ToSet(Named(t))) = Len(Named(t))

CanRead(t) == Cardinality(ToSet(Named(t))) = Len(Named(t)) /\ ToSet(Named(t)) \subseteq Recorded
Inputs(t) == {f \in ToSet(findings) : f.task \in ToSet(Named(t))}
By(t, agent) == {f \in Inputs(t) : f.agent = agent}
One(t, agent) == \E f \in By(t, agent) : By(t, agent) = {f}
The(t, agent) == CHOOSE f \in By(t, agent) : TRUE

\* The findings of another stage of the workflow are unique for the RCA agent.
StagesDiffer(t) ==
  \A f, g \in Inputs(t) : f # g /\ f.kind = g.kind => f.kind = "observation"

InputsFit(t) ==
  CASE t.agent = "mes" -> job.subject
    [] t.agent = "fdc" -> CanRead(t) /\ One(t, "mes") /\ The(t, "mes").data # "none"
    [] t.agent = "defect_wat" -> CanRead(t) /\ One(t, "mes")
    [] t.agent = "knowledge" -> CanRead(t) /\ \A a \in {"mes", "fdc", "defect_wat"} : One(t, a)
    [] t.agent = "rca_reasoning" ->
         CanRead(t) /\ Inputs(t) # {} /\ StagesDiffer(t) /\ \A f \in Inputs(t) : f.agent \in Specialists
    [] t.agent = "improvement" ->
         /\ CanRead(t)
         /\ \A a \in RequiredAgents \ {"knowledge", "improvement"} : One(t, a)
         /\ By(t, "knowledge") # {} /\ By(t, "improvement") = {}

\* The historical case that the recommendations consider: the last discovery,
\* or the first finding of the Knowledge agent.
Position(t, f) == CHOOSE i \in DOMAIN Named(t) : Named(t)[i] = f.task
Precedent(t) ==
  LET found == By(t, "knowledge")
      discoveries == {f \in found : f.kind = "knowledge_discovery"}
  IN IF discoveries = {}
     THEN CHOOSE f \in found : \A g \in found : Position(t, f) <= Position(t, g)
     ELSE CHOOSE f \in discoveries : \A g \in discoveries : Position(t, g) <= Position(t, f)

Advice(t) ==
  LET cause == The(t, "rca_reasoning").data = "supported"
      lots == The(t, "mes").data
  IN (IF lots # "none" THEN {"containment"} ELSE {})
       \union (IF cause THEN {"corrective"} ELSE {})
       \union (IF cause /\ (lots = "many" \/ Precedent(t).data = "match") THEN {"fab"} ELSE {})

\* What an agent may find: how many Lots are affected, a historical case, a
\* cause, the recommendations.
Outcomes(t) ==
  CASE t.agent = "mes" -> IF job.lot THEN {"one", "many"} ELSE {"none", "one", "many"}
    [] t.agent \in {"fdc", "defect_wat"} -> {The(t, "mes").data}
    [] t.agent = "knowledge" -> {"match", "no_match"}
    [] t.agent = "rca_reasoning" -> {"supported", "inconclusive"}
    [] t.agent = "improvement" -> {"advice"}

FindingFor(t, data) ==
  [task |-> t.id, agent |-> t.agent, kind |-> t.kind, data |-> data,
   from |-> IF t.agent = "mes" THEN {} ELSE {f.task : f \in Inputs(t)},
   rca |-> IF t.agent = "improvement" THEN The(t, "rca_reasoning").task ELSE NoTask,
   advice |-> IF t.agent = "improvement" THEN Advice(t) ELSE {}]

\* The Evidence of a Specialist has fixed ids: a second task of its kind
\* conflicts with the first unless both saw the same.
Conflicts(f) ==
  f.agent \in Specialists /\ \E i \in DOMAIN findings :
    findings[i].agent = f.agent /\ findings[i].kind = f.kind /\ findings[i].data # f.data

FailTask(t, why) ==
  /\ job' = [job EXCEPT !.status = "failed"]
  /\ status' = [status EXCEPT ![t.id] = "failed"] /\ current' = NoTask
  /\ step' = "raised" /\ failure' = why
  /\ UNCHANGED <<fixed, ready, completed, findings, authority>>

Record(t, f) ==
  /\ findings' = Append(findings, f)
  /\ status' = [status EXCEPT ![t.id] = "completed"] /\ current' = NoTask
  /\ completed' = completed \union {t.id}
  /\ authority' = IF t.agent = "rca_reasoning" THEN t.id ELSE authority
  /\ ready' = {i \in ready : plan[i].id # t.id}
  /\ step' = IF ready' # {} THEN "tasks" ELSE IF completed' = Ids(plan) THEN "report" ELSE "round"
  /\ UNCHANGED <<fixed, job, failure>>

Executing(t) == step = "tasks" /\ current = t.id

TaskHasNoInputs(t) ==
  /\ Executing(t) /\ ~InputsFit(t)
  /\ FailTask(t, CASE t.agent = "mes" -> "no_subject"
                   [] t.agent = "fdc" /\ CanRead(t) /\ One(t, "mes") -> "no_lots"
                   [] OTHER -> "inputs")

\* A Tool, a model's call or the check of its answer raises.
AgentRaises(t) == Executing(t) /\ InputsFit(t) /\ FailTask(t, "agent")

AgentFinds(t) ==
  /\ Executing(t) /\ InputsFit(t)
  /\ \E data \in Outcomes(t) :
       LET f == FindingFor(t, data) IN
       IF Conflicts(f) THEN FailTask(t, "conflict") ELSE Record(t, f)

-----------------------------------------------------------------------------
(* The report, made from the authoritative assessment and the one          *)
(* improvement finding there may be.                                       *)

Improvements == {f \in ToSet(findings) : f.kind = "improvement"}

MakeReport ==
  /\ step = "report" /\ Cardinality(Improvements) = 1
  /\ step' = "done" /\ job' = [job EXCEPT !.status = "completed"]
  /\ UNCHANGED <<fixed, ready, status, current, completed, findings, authority, failure>>

\* The exception leaves the job running and the findings behind.
ReportRaises ==
  /\ step = "report" /\ Cardinality(Improvements) > 1
  /\ step' = "raised" /\ failure' = "report"
  /\ UNCHANGED <<fixed, job, ready, status, current, completed, findings, authority>>

WorkflowNext ==
  \/ PlanByPython \/ PlanByModel \/ NoPlan \/ StartRound \/ BeginTask
  \/ \E t \in ToSet(plan) : TaskHasNoInputs(t) \/ AgentRaises(t) \/ AgentFinds(t)
  \/ MakeReport \/ ReportRaises

WorkflowSpec == WorkflowInit /\ [][WorkflowNext]_workflowVars

-----------------------------------------------------------------------------
(* The properties.                                                         *)

\* A finding rests only on findings recorded before it, whatever the plan of a
\* model says of dependencies and inputs.
InputsPrecede ==
  \A i \in DOMAIN findings :
    LET t == TaskOf(findings[i].task)
        earlier == {findings[j].task : j \in 1 .. i - 1}
    IN findings[i].from \subseteq earlier /\ (t.agent # "mes" => ToSet(Named(t)) \subseteq earlier)

\* An accepted plan always has a task to execute until all are done, and when one
\* fails, what was recorded before stays complete and nothing after it has started.
FailureIsLocal ==
  /\ failure # "stuck"
  /\ failure \in {"inputs", "no_lots", "no_subject", "agent", "conflict"} =>
      /\ job.status = "failed" /\ current = NoTask
      /\ Recorded = completed /\ Len(findings) = Cardinality(completed)
      /\ \E id \in Ids(plan) \ completed :
           /\ ToSet(TaskOf(id).deps) \subseteq completed
           /\ status = [j \in Ids(plan) |-> IF j \in completed THEN "completed" ELSE IF j = id THEN "failed" ELSE "pending"]

\* The fixed plan fails only when an agent does, or when the question names no
\* subject or no Lot is affected: its tasks always have the findings they read,
\* and its report is about the one cause that the recommendations rest on.
FixedPlanIsSound ==
  plan = DefaultPlan =>
    /\ failure \in {"none", "agent", "no_subject", "no_lots"}
    /\ step = "done" => \A f \in Improvements : f.rca = authority

\* Recommendations against a cause need an assessment that supported it, and
\* one to the whole fab needs several affected Lots or a confirmed case that
\* the run itself found.
AdviceIsEarned ==
  \A f \in Improvements :
    /\ f.advice \intersect {"corrective", "fab"} # {} => FindingOf(f.rca).data = "supported"
    /\ "fab" \in f.advice => \E i \in DOMAIN findings : findings[i].data \in {"many", "match"}

\* What a report says and recommends follows from what the tasks found.
ReportIsConsistent == FixedPlanIsSound /\ AdviceIsEarned
=============================================================================
