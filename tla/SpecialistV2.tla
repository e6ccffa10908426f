---------------------------- MODULE SpecialistV2 ----------------------------
(***************************************************************************)
(* SpecialistV2Executor.execute: the bounded local loop of one Specialist  *)
(* action.  Python lists the Tools that may run next, the model picks one  *)
(* or finishes, Python runs it; two invalid answers in a row give way to   *)
(* the deterministic choice; an advanced SPC with nothing to analyze is    *)
(* superseded by the basic SPC.  Texts, confidences and figures are left   *)
(* out; a Tool output is what later control tests of it.                   *)
(***************************************************************************)
EXTENDS Integers, Sequences, FiniteSets, SequencesExt

CONSTANTS
  MaxSteps,             \* MAX_SPECIALIST_TOOL_STEPS
  OutputAttempts,       \* _OUTPUT_ATTEMPTS
  Allowances            \* the values max_tool_calls takes (a bound of the run)

ASSUME LimitsAssumption ==
  /\ MaxSteps \in Nat \ {0}
  /\ OutputAttempts \in Nat \ {0}
  /\ Allowances \subseteq Int

VARIABLES
  action,               \* the authorized action and its trusted context
  tools,                \* the configured Tools
  direct,               \* direct_single_candidate
  allowance,            \* max_tool_calls
  pc,                   \* where execute() stands
  chosen,               \* the Tool about to run
  invalid,              \* invalid model answers to the current question
  executed,             \* Tools that returned an output, in order
  effective,            \* the observations the Finding will rest on
  spent,                \* Tool calls made, the failing one included
  outcome,              \* "none", "finding" or "error"
  reason                \* stop_reason, or the reason of the error

vars == <<action, tools, direct, allowance, pc, chosen, invalid, executed,
          effective, spent, outcome, reason>>

(***************************************************************************)
(* The allowlist: Tools by domain, and what may run next.                  *)
(***************************************************************************)
DomainTools ==
  [mes       |-> {"get_lot_context", "find_impact_lots",
                  "find_affected_lots", "analyze_lot_genealogy"},
   fdc       |-> {"analyze_parameter_shift", "find_ooc_events",
                  "perform_basic_spc_analysis", "analyze_spc_evidence"},
   defect    |-> {"summarize_defect_wat"},
   knowledge |-> {"retrieve_similar_case"}]

Agents == DOMAIN DomainTools
AllTools == UNION {DomainTools[a] : a \in Agents}
NoTool == "none"

\* An observation: the Tool, whether it found what the next step is about
\* (affected Lots, analyzable parameters), whether it carries Evidence.
Observation == [tool : AllTools, found : BOOLEAN, evidence : BOOLEAN]

Names(observations) == {o.tool : o \in observations}

\* A bug: the hard limit replaces what is left of the run's budget.
BudgetOfItsOwn == MaxSteps

Budget == IF allowance < MaxSteps THEN allowance ELSE MaxSteps
Remaining == Budget - Len(executed)

SpcTools == {"perform_basic_spc_analysis", "analyze_spc_evidence"}

\* A Lot is first resolved, then its impact is searched; a product window
\* first yields its affected Lots, and their genealogy when there are any.
MesCandidates ==
  IF action.lot
  THEN IF "get_lot_context" \notin Names(effective) THEN {"get_lot_context"}
       ELSE {"find_impact_lots"} \ Names(effective)
  ELSE IF "find_affected_lots" \notin Names(effective)
       THEN {"find_affected_lots"}
       ELSE IF \E o \in effective : o.tool = "find_affected_lots" /\ o.found
            THEN {"analyze_lot_genealogy"} \ Names(effective)
            ELSE {}

\* A bug: the advanced SPC offered although its fallback no longer fits.
FdcOffersTooMuch ==
  ({"analyze_parameter_shift", "find_ooc_events"} \ Names(effective))
    \cup (IF Names(effective) \cap SpcTools # {} THEN {} ELSE SpcTools)

FdcCandidates ==
  ({"analyze_parameter_shift", "find_ooc_events"} \ Names(effective))
    \cup (IF Names(effective) \cap SpcTools # {} THEN {}
          ELSE {"perform_basic_spc_analysis"}
               \cup (IF /\ Remaining >= 2
                        /\ "perform_basic_spc_analysis" \in tools
                     THEN {"analyze_spc_evidence"} ELSE {}))

DomainCandidates ==
  CASE action.agent = "mes" -> MesCandidates
    [] action.agent = "fdc" -> FdcCandidates
    [] OTHER -> DomainTools[action.agent]

Candidates ==
  {t \in DomainCandidates : /\ t \notin Range(executed)
                            /\ t \in DomainTools[action.agent]
                            /\ t \in tools}

\* The order in which the deterministic choice prefers Tools.
Preference ==
  CASE action.agent = "fdc" /\ action.spcCheck ->
         <<"analyze_spc_evidence", "perform_basic_spc_analysis",
           "analyze_parameter_shift", "find_ooc_events">>
    [] action.agent = "fdc" /\ ~action.spcCheck ->
         <<"analyze_parameter_shift", "perform_basic_spc_analysis",
           "find_ooc_events", "analyze_spc_evidence">>
    [] OTHER ->
         <<"get_lot_context", "find_impact_lots", "find_affected_lots",
           "analyze_lot_genealogy", "summarize_defect_wat",
           "retrieve_similar_case">>

DeterministicDecision ==
  CHOOSE t \in Candidates :
    \E i \in DOMAIN Preference :
      /\ Preference[i] = t
      /\ \A j \in 1..(i - 1) : Preference[j] \notin Candidates

\* A bug: a MES Specialist may stop after its first observation.
CanFinishEarly == effective # {}

\* The model may finish after an observation, and a MES Specialist only once
\* the shared exposure is known or no Lot is affected.
CanFinish ==
  /\ effective # {}
  /\ \/ action.agent # "mes"
     \/ /\ "get_lot_context" \in Names(effective)
        /\ "find_impact_lots" \in Names(effective)
     \/ /\ "get_lot_context" \notin Names(effective)
        /\ \E o \in effective :
             /\ o.tool = "find_affected_lots"
             /\ ~o.found \/ "analyze_lot_genealogy" \in Names(effective)

(***************************************************************************)
(* The loop.                                                               *)
(***************************************************************************)
Init ==
  /\ action \in [agent : Agents, lot : BOOLEAN, spcCheck : BOOLEAN,
                 scoped : BOOLEAN]
  /\ action.agent # "mes" => action.lot
  /\ action.agent = "mes" /\ action.lot => action.scoped
  /\ action.agent # "fdc" => ~action.spcCheck
  /\ tools \in SUBSET DomainTools[action.agent]
  /\ direct \in BOOLEAN
  /\ allowance \in Allowances
  /\ pc = "start"
  /\ chosen = NoTool
  /\ invalid = 0
  /\ executed = <<>>
  /\ effective = {}
  /\ spent = 0
  /\ outcome = "none"
  /\ reason = "none"

request == <<action, tools, direct, allowance>>

Fail(why) ==
  /\ pc' = "failed"
  /\ outcome' = "error"
  /\ reason' = why

\* execute() refuses an allowance that is not positive.
Start ==
  /\ pc = "start"
  /\ \/ allowance > 0 /\ pc' = "loop" /\ UNCHANGED <<outcome, reason>>
     \/ allowance <= 0 /\ Fail("tool_budget_exhausted")
  /\ UNCHANGED <<request, chosen, invalid, executed, effective, spent>>

\* The head of the loop: leave it when the budget is spent or no candidate is
\* left, refuse a context without scope, or ask for the next Tool.
LoopHead ==
  /\ pc = "loop"
  /\ \/ /\ Remaining <= 0
        /\ pc' = "assemble" /\ reason' = "tool_budget_exhausted"
        /\ UNCHANGED <<outcome, chosen, invalid>>
     \/ /\ Remaining > 0 /\ ~action.scoped
        /\ Fail("missing_scope")
        /\ UNCHANGED <<chosen, invalid>>
     \/ /\ Remaining > 0 /\ action.scoped /\ Candidates = {}
        /\ pc' = "assemble"
        /\ reason' = IF effective # {} THEN "required_local_evidence_collected"
                     ELSE "no_configured_tool_candidate"
        /\ UNCHANGED <<outcome, chosen, invalid>>
     \/ /\ Remaining > 0 /\ action.scoped /\ Candidates # {}
        /\ IF direct /\ Cardinality(Candidates) = 1
           THEN pc' = "run" /\ chosen' = DeterministicDecision
           ELSE pc' = "choose" /\ chosen' = NoTool
        /\ invalid' = 0
        /\ UNCHANGED <<outcome, reason>>
  /\ UNCHANGED <<request, executed, effective, spent>>

\* One answer of the tool planner: a candidate, an allowed finish, or an
\* invalid answer (a failed call included); the last invalid one gives way
\* to the deterministic decision.
ModelChooses ==
  /\ pc = "choose"
  /\ \/ /\ chosen' \in Candidates
        /\ pc' = "run"
        /\ UNCHANGED <<invalid, reason>>
     \/ /\ CanFinish
        /\ pc' = "assemble" /\ reason' = "specialist_finished"
        /\ UNCHANGED <<chosen, invalid>>
     \/ /\ invalid' = invalid + 1
        /\ IF invalid' < OutputAttempts
           THEN UNCHANGED <<pc, chosen>>
           ELSE pc' = "run" /\ chosen' = DeterministicDecision
        /\ UNCHANGED reason
  /\ UNCHANGED <<request, executed, effective, spent, outcome>>

\* _execute_candidate: the Tool runs and its output joins the observations.
RunTool ==
  /\ pc = "run"
  /\ \E o \in Observation :
       /\ o.tool = chosen
       /\ executed' = Append(executed, chosen)
       /\ effective' = effective \cup {o}
       /\ pc' = IF chosen = "analyze_spc_evidence" /\ ~o.found
                THEN "spc_fallback" ELSE "loop"
  /\ spent' = spent + 1
  /\ UNCHANGED <<request, chosen, invalid, outcome, reason>>

FallbackFits == "perform_basic_spc_analysis" \in tools /\ Remaining > 0

BasicInstead ==
  /\ \E o \in Observation :
       /\ o.tool = "perform_basic_spc_analysis"
       /\ executed' = Append(executed, o.tool)
       /\ effective' = {p \in effective : p.tool # "analyze_spc_evidence"}
                         \cup {o}
  /\ spent' = spent + 1
  /\ pc' = "assemble"
  /\ reason' = "advanced_spc_fell_back_to_basic"
  /\ UNCHANGED outcome

\* The basic SPC replaces the advanced one that had nothing to analyze, or
\* the action ends with an error when it cannot.
SpcFallback ==
  /\ pc = "spc_fallback"
  /\ IF FallbackFits THEN BasicInstead
     ELSE /\ Fail("advanced_spc_fallback_unavailable")
          /\ UNCHANGED <<executed, effective, spent>>
  /\ UNCHANGED <<request, chosen, invalid>>

\* A Tool that raises, or whose output is not its own, ends the action.
ToolFails ==
  /\ pc = "run" \/ (pc = "spc_fallback" /\ FallbackFits)
  /\ Fail("tool_call_failed")
  /\ spent' = spent + 1
  /\ UNCHANGED <<request, chosen, invalid, executed, effective>>

\* The Finding is assembled from the effective observations, and needs some.
Assemble ==
  /\ pc = "assemble"
  /\ \/ /\ effective = {}
        /\ Fail("no_tool_evidence")
     \/ /\ effective # {} /\ \A o \in effective : ~o.evidence
        /\ Fail("missing_evidence_payload")
     \/ /\ \E o \in effective : o.evidence
        /\ pc' = "analyze"
        /\ UNCHANGED <<outcome, reason>>
  /\ invalid' = 0
  /\ UNCHANGED <<request, chosen, executed, effective, spent>>

\* One answer of the analysis: its Evidence closure is exact, or it is
\* rejected; the last rejection gives way to the deterministic analysis.
Analyze ==
  /\ pc = "analyze"
  /\ \/ /\ pc' = "done" /\ outcome' = "finding"
        /\ UNCHANGED invalid
     \/ /\ invalid' = invalid + 1
        /\ IF invalid' < OutputAttempts
           THEN UNCHANGED <<pc, outcome>>
           ELSE pc' = "done" /\ outcome' = "finding"
  /\ UNCHANGED <<request, chosen, executed, effective, spent, reason>>

Terminated == pc \in {"done", "failed"} /\ UNCHANGED vars

Next ==
  \/ Start \/ LoopHead \/ ModelChooses \/ RunTool
  \/ SpcFallback \/ ToolFails
  \/ Assemble \/ Analyze \/ Terminated

Spec == Init /\ [][Next]_vars

(***************************************************************************)
(* What the Finding says (_assemble_mes and _assemble_fdc).                *)
(***************************************************************************)
\* Where a MES Finding takes the shared exposure (target_commonality) from.
ExposureSource ==
  CASE "find_impact_lots" \in Names(effective) -> "impact"
    [] /\ "find_impact_lots" \notin Names(effective)
       /\ "analyze_lot_genealogy" \in Names(effective) -> "genealogy"
    [] OTHER -> "none"

\* The SPC an FDC Finding reports: the advanced one when it is effective.
SpcSource ==
  {o \in effective :
     \/ o.tool = "analyze_spc_evidence"
     \/ /\ o.tool = "perform_basic_spc_analysis"
        /\ "analyze_spc_evidence" \notin Names(effective)}

(***************************************************************************)
(* Properties.                                                             *)
(***************************************************************************)
TypeOK ==
  /\ action \in [agent : Agents, lot : BOOLEAN, spcCheck : BOOLEAN,
                 scoped : BOOLEAN]
  /\ tools \subseteq DomainTools[action.agent]
  /\ direct \in BOOLEAN
  /\ allowance \in Allowances
  /\ pc \in {"start", "loop", "choose", "run", "spc_fallback", "assemble",
             "analyze", "done", "failed"}
  /\ chosen \in AllTools \cup {NoTool}
  /\ invalid \in 0..OutputAttempts
  /\ executed \in Seq(AllTools)
  /\ effective \subseteq Observation
  /\ spent \in Nat
  /\ outcome \in {"none", "finding", "error"}

\* No Tool runs twice in one Specialist action, whatever the model answers
\* and whichever fallback is taken.
NoToolTwice == IsInjective(executed)

\* The advanced SPC is only offered when its fallback still fits, so the
\* error for a fallback that is not available is never raised.
FallbackAlwaysFits == reason # "advanced_spc_fallback_unavailable"

\* A Finding never reports an SPC that had nothing to analyze, and a MES
\* Finding lacks the shared exposure only when the run had one call left,
\* the Tool for it is not configured, or no Lot is affected.
FindingIsComplete ==
  outcome = "finding" =>
    /\ \A o \in SpcSource : o.tool = "analyze_spc_evidence" => o.found
    /\ \A o, p \in SpcSource : o = p
    /\ \/ action.agent # "mes"
       \/ ExposureSource # "none"
       \/ Budget = 1
       \/ action.lot /\ "find_impact_lots" \notin tools
       \/ ~action.lot /\ "analyze_lot_genealogy" \notin tools
       \/ \E o \in effective : o.tool = "find_affected_lots" /\ ~o.found

\* The executor keeps the promise of the contract: one to
\* min(2, max_tool_calls) calls and a Finding, or an error within that limit.
Contract == INSTANCE SpecialistContract
ImplementsContract == Contract!Spec
=============================================================================
