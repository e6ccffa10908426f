---------------------------- MODULE Investigation ----------------------------
(***************************************************************************)
(* One investigation, from its goal to its conclusion: the controlled loop *)
(* (InvestigationPolicy asks for the next Action), the LLM loop (the       *)
(* planner proposes an Action or a stop, Python validates it), and the     *)
(* hand-over from the second to the first when the planner gives up.       *)
(* Findings are abstracted to what later decisions read of them, Evidence  *)
(* to the (Question, group) pairs it supports.                             *)
(***************************************************************************)
EXTENDS InvestigationActions, Sequences, FiniteSetsExt

CONSTANTS Goals,          \* the goals to start from, see GoalType
          QuestionSets,   \* the Question kinds an IntentPlan may open with
          NewQuestions,   \* kinds the planner may add on the way
          Gaps,           \* claims an RCA Finding may leave unsupported
          Lanes,          \* causal lanes
          Proposals,      \* conclusion levels the model may propose
          MaxQuestions,   \* MAX_INITIAL_QUESTIONS
          MaxRounds,      \* _MAX_CANDIDATE_GENERATION_ROUNDS
          MaxNoGain,      \* _MAX_CONSECUTIVE_NO_GAIN_ACTIONS
          OutputAttempts, \* _OUTPUT_ATTEMPTS
          MaxSpecialistCalls \* the Tool calls one Specialist may make

Intents == {"impact_scope", "spc_check", "root_cause", "historical_lookup"}
GoalType == [intent : Intents, lot : BOOLEAN, context : BOOLEAN, advanced : BOOLEAN,
             lanes : SUBSET Lanes, maxSteps : Nat, maxTools : Nat]

ASSUME GoalAssumption == Goals \subseteq GoalType
ASSUME LimitAssumption == {MaxRounds, OutputAttempts, MaxSpecialistCalls} \subseteq Nat \ {0}
ASSUME TableAssumption == /\ QuestionSets \subseteq SUBSET Questions
                          /\ NewQuestions \subseteq Questions \ Unsupported
                          /\ Gaps \subseteq Claims
                          /\ Proposals \subseteq {"signal", "candidate", "supported",
                                                 "conflicted", "inconclusive"}

VARIABLES
  goal,      \* intent, lot_id known, process context known, advanced SPC,
             \* the lanes in its data, budgets
  mode,      \* "controlled", "llm", or "fallback" once the planner has given up
  pc,        \* "run", "stopped" with a conclusion, or "failed" with an error
  attempt,   \* output attempt of the planner decision under way
  steps,     \* len(action_history)
  tools,     \* len(tool_latencies)
  done,      \* <<kind, scope, causal gap>> of the completed Actions
  mes,       \* the latest MES Finding: has it affected Lots, a commonality
  lanes,     \* every causal lane a MES Finding has named
  match,     \* source and comparison Lots share a defect pattern
  verdicts,  \* the status of each hypothesis, in order
  gaps,      \* causal gaps of the authoritative RCA Finding
  questions, \* status of each Question
  supported, \* <<Question, group>> with a supporting link
  missing,   \* Questions with an unavailable link
  barren,    \* <<Question, kind>>: the latest try for it gained nothing
  noGain,    \* consecutive Actions without new relevant Evidence
  status, level, reason

findings == <<mes, lanes, match, verdicts, gaps>>
links == <<supported, missing, barren, noGain>>
ending == <<status, level, reason>>
vars == <<goal, mode, pc, attempt, steps, tools, done, findings, questions, links, ending>>

---------------------------------------------------------------------------
Tried(k) == \E a \in done : a[1] = k
Agents == {AgentOf[a[1]] : a \in done}
Remaining == goal.maxTools - tools
BudgetGone == steps >= goal.maxSteps \/ tools >= goal.maxTools

OpenQuestions == {q \in Questions : questions[q] = "open"}
Lacking(q) == {g \in Closure[q] : <<q, g>> \notin supported}
Rounds == Len(verdicts)

NoLots == [affected |-> FALSE, exposure |-> FALSE]

Init ==
  /\ goal \in Goals
  /\ mode \in {"controlled", "llm"}
  /\ \E Q \in QuestionSets :
       questions = [q \in Questions |->
         IF mode = "controlled" \/ q \notin Q THEN "absent"
         ELSE IF q \in Unsupported THEN "unavailable" ELSE "open"]
  /\ pc = "run" /\ attempt = 1 /\ steps = 0 /\ tools = 0 /\ done = {}
  /\ mes = NoLots /\ lanes = {} /\ match = FALSE /\ verdicts = <<>> /\ gaps = {}
  /\ supported = {} /\ missing = {} /\ barren = {} /\ noGain = 0
  /\ status = "in_progress" /\ level = "none" /\ reason = "none"

Stop(s, l, r) ==
  /\ pc' = "stopped" /\ status' = s /\ level' = l /\ reason' = r
  /\ UNCHANGED <<goal, mode, attempt, steps, tools, done, findings, links>>

(* An error that nothing catches: the workflow fails, before the failing   *)
(* Action has made any Tool call or after all it may make.                 *)
Fail(cost) ==
  /\ pc' = "failed"
  /\ tools' \in {tools, tools + cost}
  /\ UNCHANGED <<goal, mode, attempt, steps, done, findings, questions, links, ending>>

---------------------------------------------------------------------------
(* _record_controlled_finding.  What an Action finds out is free: a Lot    *)
(* has affected Lots always, a product window when a second call asked     *)
(* for its commonality and found some.                                     *)
Exposures(calls) ==
  {m \in [affected : BOOLEAN, exposure : BOOLEAN] :
     IF mode = "llm" THEN /\ goal.lot => m.affected
                          /\ m.exposure = (calls >= 2 /\ m.affected)
                     ELSE m = [affected |-> calls >= 2, exposure |-> calls >= 2]}

RecordFinding(k, scope, gap, calls) ==
  /\ steps' = steps + 1
  /\ tools' = tools + calls
  /\ done' = done \cup {<<k, scope, gap>>}
  /\ mes' \in IF k = EXPOSE THEN Exposures(calls) ELSE {mes}
  /\ IF k = EXPOSE /\ mode = "llm" /\ mes'.exposure
     THEN \E new \in SUBSET goal.lanes : lanes' = lanes \cup new
     ELSE UNCHANGED lanes
  /\ match' \in IF k = VALIDATE /\ ~Tried(VALIDATE) THEN BOOLEAN ELSE {match}
  /\ \/ /\ k = REASON
        /\ \E v \in {"supported", "inconclusive"} : verdicts' = Append(verdicts, v)
        /\ gaps' \in SUBSET Gaps
     \/ k # REASON /\ UNCHANGED <<verdicts, gaps>>

Answerable(k) == {q \in Questions \ Unsupported : questions[q] # "absent" /\ k \in Allowed(q)}

(* QuestionEvidenceResolver.resolve: a produced item supports a group,     *)
(* contradicts it, or says that the source has no data.  Only an item no   *)
(* earlier Action produced is a gain; older ones support nothing more.     *)
ResolveLinks(k, targets) ==
  \E gained \in SUBSET {q \in Answerable(k) : Linkable(q, k) # {}},
     noData \in BOOLEAN :
       /\ \E pairs \in SUBSET (UNION {{q} \X Linkable(q, k) : q \in gained}) :
            supported' = supported \cup pairs
       /\ missing' = missing \cup (IF noData THEN Answerable(k) ELSE {})
       /\ noGain' = IF gained # {} THEN 0 ELSE noGain + 1
       /\ barren' = (barren \ {<<q, k>> : q \in targets})
                      \cup {<<q, k>> : q \in targets \ gained}

---------------------------------------------------------------------------
(* InvestigationPolicy.next_action                                         *)

(* The first need that is not met, or "none".                              *)
FirstOf(needs) ==
  LET unmet == {i \in DOMAIN needs : needs[i][2]}
  IN  IF unmet = {} THEN "none" ELSE needs[Min(unmet)][1]

RootCauseNext ==
  FirstOf(<< <<EXPOSE,   "mes" \notin Agents /\ ~goal.lot>>,
             <<INSPECT,  "defect" \notin Agents>>,
             <<EXPOSE,   "mes" \notin Agents>>,
             <<VALIDATE, ~Tried(VALIDATE)>>,
             <<FDC,      "fdc" \notin Agents>>,
             <<REASON,   "rca" \notin Agents>> >>)

Wanted ==
  CASE goal.intent = "impact_scope" -> FirstOf(<< <<EXPOSE, "mes" \notin Agents>> >>)
    [] goal.intent = "spc_check" ->
         FirstOf(<< <<EXPOSE, "mes" \notin Agents /\ ~goal.context>>,
                    <<FDC,    "fdc" \notin Agents>> >>)
    [] goal.intent = "historical_lookup" /\ {"mes", "fdc", "defect"} \subseteq Agents ->
         FirstOf(<< <<HISTORY, "knowledge" \notin Agents>> >>)
    [] OTHER -> RootCauseNext

PolicyActs == ~BudgetGone /\ Wanted # "none" /\ ~Tried(Wanted)

(* The level of a satisfied goal; a root cause is judged by the first RCA  *)
(* Finding.                                                                *)
SatisfiedLevel ==
  IF goal.intent \in {"impact_scope", "spc_check"} THEN "signal"
  ELSE IF goal.intent = "historical_lookup" \/ ~match THEN "candidate" ELSE verdicts[1]

---------------------------------------------------------------------------
(* The controlled loop                                                     *)
Controlled == pc = "run" /\ mode # "llm"

(* _controlled_action_tool_cost, the price an Action is checked at ...     *)
Cost(k) ==
  CASE k \in {INSPECT, VALIDATE, HISTORY} -> 1
    [] k = EXPOSE -> IF goal.lot THEN 3 ELSE 2
    [] k = FDC    -> IF goal.advanced THEN 4 ELSE 3
    [] OTHER      -> 0

(* ... and the calls the agents then make.                                 *)
Calls(k) ==
  CASE k = EXPOSE /\ ~goal.lot  -> {1, 2}
    [] k = FDC /\ goal.advanced -> {3, 4}
    [] OTHER                    -> {Cost(k)}

Affordable(k) == Cost(k) <= Remaining

(* What either dispatcher reads of the latest MES Finding.                 *)
Dispatchable(k) ==
  CASE k \in {INSPECT, VALIDATE} -> goal.lot \/ mes.affected
    [] k = FDC                   -> mes.exposure
    [] OTHER                     -> TRUE

ControlledAct ==
  /\ Controlled
  /\ UNCHANGED <<goal, mode, pc, attempt, questions, ending>>
  /\ PolicyActs /\ Affordable(Wanted) /\ Dispatchable(Wanted)
  /\ \E calls \in Calls(Wanted) : RecordFinding(Wanted, "goal", "none", calls)
  /\ ResolveLinks(Wanted, {})

(* Inputs that are not there, or a Tool or agent error.                    *)
ControlledActFails ==
  /\ Controlled
  /\ PolicyActs /\ Affordable(Wanted)
  /\ Fail(Cost(Wanted))

(* _reconcile_satisfied_questions: with any Evidence at all, a satisfied   *)
(* goal closes every Question that is still open.                          *)
Reconciled == [q \in Questions |->
                 IF done # {} /\ questions[q] = "open" THEN "closed" ELSE questions[q]]

ControlledStop ==
  /\ Controlled
  /\ \/ /\ BudgetGone \/ (PolicyActs /\ ~Affordable(Wanted))
        /\ Stop("budget_exhausted", "inconclusive", "budget_exhausted")
        /\ UNCHANGED questions
     \/ /\ ~BudgetGone /\ Wanted # "none" /\ Tried(Wanted)
        /\ Stop("blocked", "inconclusive", "no_allowed_action")
        /\ UNCHANGED questions
     \/ /\ ~BudgetGone /\ Wanted = "none"
        /\ Stop("satisfied", SatisfiedLevel, "goal_satisfied")
        /\ questions' = Reconciled

---------------------------------------------------------------------------
(* The Question/Action matrix of the planner                               *)

(* validate_action_for_questions: the Action can fill what is lacking, or  *)
(* nothing is lacking and it reasons.                                      *)
Fills(q, k) ==
  /\ k \in Allowed(q)
  /\ IF Lacking(q) = {} THEN "hypothesis_synthesis" \in Contribution(q, k)
                        ELSE Lacking(q) \cap Contribution(q, k) # {}

Ready(k) == /\ Requires[k] \subseteq Agents
            /\ k = REASON => Rounds < MaxRounds

(* _legal_causal_gap_ids_by_action                                         *)
LegalGaps(k) ==
  {c \in gaps : /\ questions[GapQuestion(c)] = "open"
                /\ k \in GapActions(c) /\ Ready(k)
                /\ ~\E a \in done : a[1] = k /\ a[3] = c}

(* _legal_action_targets                                                   *)
LegalTargets(k) ==
  {q \in OpenQuestions : Fills(q, k) /\ Ready(k) /\ ~(k = EXPOSE /\ Tried(EXPOSE))}
    \cup {GapQuestion(c) : c \in LegalGaps(k)}

LegalActions == {k \in Actions : LegalTargets(k) # {}}

(* The single legal Action that fills a single gap is not left to the LLM. *)
OwnChoice == {k \in LegalActions : LegalActions = {k} /\ Cardinality(LegalGaps(k)) = 1}

NeedsLane(k) == k \in LaneAware /\ Cardinality(lanes) > 1

(* _validate_no_gain_boundary                                              *)
WorthTrying(k, targets) == \A q \in targets : <<q, k>> \notin barren

(* _terminal_question_updates                                              *)
Settled == {q \in OpenQuestions : Lacking(q) = {} \/ q \in missing}
PythonUpdates == [q \in Questions |->
                    IF q \notin Settled THEN questions[q]
                    ELSE IF Lacking(q) = {} THEN "closed" ELSE "unavailable"]

\* A bug: one supporting link is enough to close a Question.
UpdatesOnAnyLink(targets) ==
  LET free == OpenQuestions \ targets
  IN  {[q \in Questions |-> IF q \in u[1] THEN "closed"
                            ELSE IF q \in u[2] THEN "unavailable" ELSE questions[q]] :
         u \in (SUBSET {q \in free : \E g \in Closure[q] : <<q, g>> \in supported})
                 \X (SUBSET (free \cap missing))}

(* review_question_updates: the terminal updates of the model that are     *)
(* accepted, none of them for a Question the decision still targets.       *)
Updates(targets) ==
  LET free == OpenQuestions \ targets
  IN  {[q \in Questions |-> IF q \in u[1] THEN "closed"
                            ELSE IF q \in u[2] THEN "unavailable" ELSE questions[q]] :
         u \in (SUBSET {q \in free : Lacking(q) = {}}) \X (SUBSET (free \cap missing))}

---------------------------------------------------------------------------
(* The level a stop may claim                                              *)

(* _conclusion_cap: one supported hypothesis is enough, whichever RCA      *)
(* Finding is the authoritative one.                                       *)
Cap ==
  LET looked == \/ goal.intent = "historical_lookup" /\ "knowledge" \in Agents
                \/ goal.intent = "root_cause" /\ {"mes", "fdc", "defect"} \subseteq Agents
  IN IF \E i \in DOMAIN verdicts : verdicts[i] = "supported" THEN "supported"
     ELSE IF verdicts # <<>> \/ done = {} THEN "inconclusive"
     ELSE IF looked THEN "candidate" ELSE "signal"

Strength == [l \in {"signal", "candidate", "supported"} |->
               CASE l = "signal" -> 1 [] l = "candidate" -> 2 [] l = "supported" -> 3]

\* A bug: the cap only applies to what is inconclusive.
GateTrustsModel(proposed) == IF Cap = "inconclusive" THEN Cap ELSE proposed

(* _gate_conclusion_level                                                  *)
Gate(proposed) ==
  IF "inconclusive" \in {proposed, Cap} \/ proposed = "conflicted" THEN "inconclusive"
  ELSE IF Strength[proposed] < Strength[Cap] THEN proposed ELSE Cap

---------------------------------------------------------------------------
(* The LLM loop                                                            *)
LlmMode == pc = "run" /\ mode = "llm"

(* Nothing that was asked can be investigated here.                        *)
NothingSupported ==
  /\ LlmMode /\ OpenQuestions = {}
  /\ Stop("blocked", "inconclusive", "data_unavailable")
  /\ UNCHANGED questions

LlmTurn == LlmMode /\ OpenQuestions # {}
Exhausted == noGain >= MaxNoGain
NoWayOn == gaps # {} /\ LegalActions = {}
Repeats == \E k \in OwnChoice : ~NeedsLane(k) /\ ~WorthTrying(k, LegalTargets(k))

(* The stops Python decides before the model is asked.                     *)
PythonStop ==
  /\ LlmTurn
  /\ IF BudgetGone THEN Stop("budget_exhausted", "inconclusive", "budget_exhausted")
     ELSE /\ Exhausted \/ NoWayOn \/ Repeats
          /\ Stop("blocked", "inconclusive", "no_allowed_action")
  /\ questions' = PythonUpdates

(* The planner asks: past the boundaries above.                            *)
Deciding == LlmTurn /\ ~BudgetGone /\ ~Exhausted /\ ~NoWayOn
ModelAsked == Deciding /\ OwnChoice = {}

(* What one Specialist may spend (SpecialistContract), reasoning nothing.  *)
Allowance(k) == IF k = REASON THEN 0 ELSE Min({MaxSpecialistCalls, Remaining})
LlmCalls(k) == IF k = REASON THEN {0} ELSE 1 .. Allowance(k)

Execute(k, scope, gap, targets) ==
  /\ Dispatchable(k)
  /\ \E calls \in LlmCalls(k) : RecordFinding(k, scope, gap, calls)
  /\ ResolveLinks(k, targets)
  /\ attempt' = 1

\* A bug: an Action that was executed before is accepted again.
ValidActAgain(k, scope, gap, targets) ==
  /\ targets # {} /\ targets \subseteq LegalTargets(k)
  /\ IF LegalGaps(k) = {} THEN gap = "none" ELSE gap \in LegalGaps(k)
  /\ NeedsLane(k) => scope \in lanes
  /\ WorthTrying(k, targets)
  /\ k = INSPECT /\ ~goal.lot => "mes" \in Agents
  /\ k = REASON /\ goal.intent = "root_cause" => Tried(VALIDATE)

(* _validate_candidate, for an Action.                                     *)
ValidAct(k, scope, gap, targets) ==
  /\ targets # {} /\ targets \subseteq LegalTargets(k)
  /\ IF LegalGaps(k) = {} THEN gap = "none" ELSE gap \in LegalGaps(k)
  /\ NeedsLane(k) => scope \in lanes
  /\ WorthTrying(k, targets)
  /\ k = INSPECT /\ ~goal.lot => "mes" \in Agents
  /\ k = REASON /\ goal.intent = "root_cause" => Tried(VALIDATE)
  /\ <<k, scope, gap>> \notin done

(* A scope names a lane or something that is not one: "goal".              *)
Scopes == {"goal"} \cup lanes
ValidActs == {a \in Actions \X Scopes \X (gaps \cup {"none"}) \X (SUBSET OpenQuestions) :
                ValidAct(a[1], a[2], a[3], a[4])}

Proposed(new) == {q \in Questions : questions[q] # "absent"} \cup new

LlmAct ==
  /\ LlmTurn
  /\ UNCHANGED <<goal, mode, pc, ending>>
  /\ ModelAsked
  /\ \E a \in ValidActs, new \in SUBSET NewQuestions :
       /\ \A q \in new : questions[q] = "absent"
       /\ Cardinality(Proposed(new)) <= MaxQuestions
       /\ Execute(a[1], a[2], a[3], a[4])
       /\ \E u \in Updates(a[4]) :
            questions' = [q \in Questions |-> IF q \in new THEN "open" ELSE u[q]]

LlmActFails ==
  /\ LlmTurn /\ pc' = "failed"
  /\ ModelAsked
  /\ \E a \in ValidActs : Fail(Allowance(a[1]))

(* The only Action left, taken without asking the model.                   *)
PythonAct ==
  /\ LlmTurn
  /\ UNCHANGED <<goal, mode, pc, questions, ending>>
  /\ Deciding
  /\ \E k \in OwnChoice, c \in gaps :
       /\ ~NeedsLane(k) /\ ~Repeats /\ c \in LegalGaps(k)
       /\ Execute(k, "goal", c, LegalTargets(k))

(* With several lanes known it names none of them, and the error of its    *)
(* validation leaves the planner; otherwise its Specialist fails.          *)
PythonActFails ==
  /\ LlmTurn /\ pc' = "failed"
  /\ Deciding
  /\ \E k \in OwnChoice : ~Repeats /\ Fail(IF NeedsLane(k) THEN 0 ELSE Allowance(k))

(* The policy has no Action for an open Question.                          *)
BaselineStops == ~PolicyActs \/ \A q \in OpenQuestions : ~Fills(q, Wanted)

(* A stop of the model.  One that claims the goal is satisfied must settle *)
(* every open Question, by Python's updates when these suffice.  (A claim  *)
(* of critical_contradiction is treated like no_allowed_action, a goal     *)
(* status of budget_exhausted like blocked.)                               *)
LlmStop ==
  /\ LlmTurn /\ pc' = "stopped"
  /\ ModelAsked
  /\ \E s \in {"satisfied", "blocked"},
        r \in {"goal_satisfied", "no_allowed_action", "data_unavailable"},
        l \in Proposals :
       /\ Stop(s, Gate(l), r)
       /\ IF s = "satisfied" /\ r = "goal_satisfied" /\ BaselineStops /\ Settled = OpenQuestions
          THEN questions' = PythonUpdates
          ELSE /\ questions' \in Updates({})
               /\ LET open == \E q \in Questions : questions'[q] = "open"
                  IN  /\ r = "goal_satisfied" => ~open
                      /\ r = "data_unavailable" => ~open \/ questions' = questions

\* A bug: the attempts are counted from the start again.
InvalidOutputForEver ==
  /\ LlmTurn
  /\ UNCHANGED <<goal, mode, pc, steps, tools, done, findings, questions, links, ending>>
  /\ ModelAsked
  /\ attempt' = (attempt % OutputAttempts) + 1

(* An answer that is not valid is asked for once more ...                  *)
InvalidOutput ==
  /\ LlmTurn
  /\ UNCHANGED <<goal, mode, pc, steps, tools, done, findings, questions, links, ending>>
  /\ ModelAsked
  /\ attempt < OutputAttempts
  /\ attempt' = attempt + 1

(* ... and then, or when a call fails for good, the policy takes over.     *)
FallBack ==
  /\ LlmTurn /\ mode' = "fallback"
  /\ ModelAsked
  /\ UNCHANGED <<goal, pc, attempt, steps, tools, done, findings, questions, links, ending>>

Terminated == pc # "run" /\ UNCHANGED vars

Next == \/ ControlledAct \/ ControlledActFails \/ ControlledStop
        \/ NothingSupported \/ PythonStop \/ PythonAct \/ PythonActFails
        \/ LlmAct \/ LlmActFails \/ LlmStop \/ InvalidOutput \/ FallBack
        \/ Terminated

Spec == Init /\ [][Next]_vars

(* Tools and model calls answer or time out: a run that has not ended      *)
(* takes another step.  As some step is enabled as long as pc = "run" (TLC *)
(* checks for deadlock) this is WF_vars(Next), without the price of        *)
(* ENABLED Next in every state.                                            *)
FairSpec == Spec /\ ([]<>(pc # "run") \/ []<><<TRUE>>_vars)

---------------------------------------------------------------------------
(* Types of the run's own books.                                           *)
TypeOK ==
  /\ goal \in GoalType
  /\ mode \in {"controlled", "llm", "fallback"}
  /\ pc \in {"run", "stopped", "failed"}
  /\ attempt \in 1 .. OutputAttempts
  /\ steps \in Nat /\ tools \in Nat
  /\ done \subseteq Actions \X ({"goal"} \cup Lanes) \X (Gaps \cup {"none"})
  /\ mes \in [affected : BOOLEAN, exposure : BOOLEAN]
  /\ lanes \subseteq Lanes
  /\ match \in BOOLEAN
  /\ verdicts \in Seq({"supported", "inconclusive"})
  /\ gaps \subseteq Gaps
  /\ questions \in [Questions -> {"absent", "open", "closed", "unavailable"}]
  /\ missing \subseteq Questions
  /\ noGain \in Nat

(* No run makes more Tool calls than its goal allows: not the LLM loop,    *)
(* whose Specialists spend a call at a time, not the controlled loop,      *)
(* whose agents make several calls at one go, and not the two together     *)
(* when the second inherits what the first has left.                       *)
ToolBudget == tools <= goal.maxTools

(* A supported conclusion rests on a hypothesis that RCA reasoning found   *)
(* supported, after the scope, the mechanism and the outcome were looked   *)
(* into and, for a root cause, the Lots of the shared exposure compared,   *)
(* whatever level the model proposed and whichever loop stopped.           *)
SupportedIsEarned ==
  level = "supported" =>
    /\ \E i \in DOMAIN verdicts : verdicts[i] = "supported"
    /\ {"mes", "fdc", "defect", "rca"} \subseteq Agents
    /\ goal.intent = "root_cause" => Tried(VALIDATE)

(* As long as the planner is trusted, a Question is closed only by         *)
(* Evidence of every group its kind asks for.                              *)
ClosedByEvidence ==
  mode = "llm" => \A q \in Questions : questions[q] = "closed" => Lacking(q) = {}

(* No Action is executed twice on one scope for one gap, the Actions the   *)
(* policy adds after a fallback included.                                  *)
NoActionTwice == Cardinality(done) = steps

(* The work of a run is bounded by its goal and none of it is repeated.    *)
WorkIsBounded == ToolBudget /\ NoActionTwice

(* A run that reports its goal satisfied has done something for it, has    *)
(* left no Question open, and has reasoned if it stops on its own policy   *)
(* for a root cause.                                                       *)
StopIsHonest ==
  reason = "goal_satisfied" =>
    /\ done # {} /\ OpenQuestions = {}
    /\ goal.intent = "root_cause" /\ mode # "llm" => "rca" \in Agents

(* Neither the level that a run concludes nor the reason for which it says *)
(* that it stopped claims more than the run did.                           *)
ConclusionIsEarned == SupportedIsEarned /\ StopIsHonest

(* Whatever the model answers and whatever the agents find, the run comes  *)
(* to a conclusion or to an error.                                         *)
Ends == <>(pc # "run")
=============================================================================
