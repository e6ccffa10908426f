------------------------ MODULE InvestigationActions ------------------------
(***************************************************************************)
(* The tables an investigation is steered by: ACTION_REGISTRY, the         *)
(* Question capability registry, and the Questions and Actions that can    *)
(* fill a causal Evidence gap.  All of it is Python-owned; the model only  *)
(* chooses among what these tables allow.                                  *)
(***************************************************************************)
EXTENDS Naturals, FiniteSets

INSPECT  == "inspect_defect_pattern"
VALIDATE == "validate_shared_defect_pattern"
EXPOSE   == "find_shared_exposure"
FDC      == "inspect_fdc_spc"
HISTORY  == "validate_historical_case"
REASON   == "run_rca_reasoning"

(* LLM_REACT_EXECUTABLE_ACTION_KINDS: the other registered kinds have no   *)
(* dispatcher and neither the policy nor the planner may name them.        *)
Actions == {INSPECT, VALIDATE, EXPOSE, FDC, HISTORY, REASON}

AgentOf == [k \in Actions |->
              CASE k \in {INSPECT, VALIDATE} -> "defect"
                [] k = EXPOSE                -> "mes"
                [] k = FDC                   -> "fdc"
                [] k = HISTORY               -> "knowledge"
                [] k = REASON                -> "rca"]

(* required_finding_agents                                                 *)
Requires == [k \in Actions |->
               CASE k \in {INSPECT, EXPOSE}   -> {}
                 [] k = VALIDATE              -> {"mes", "defect"}
                 [] k = FDC                   -> {"mes"}
                 [] k \in {HISTORY, REASON}   -> {"mes", "fdc", "defect"}]

LaneAware == {INSPECT, VALIDATE, FDC, HISTORY}

---------------------------------------------------------------------------
(* Questions, by kind; at most one Question of a kind is modelled.         *)
Unsupported == {"material_trace", "unsupported"}
Questions == {"defect_signature", "impact_scope", "spc_signal", "process_mechanism",
              "product_outcome", "historical_match", "tool_history", "recipe_history",
              "metrology_correlation"} \cup Unsupported

(* closure_evidence_groups                                                 *)
Closure == [q \in Questions |->
  CASE q \in {"defect_signature", "product_outcome"} -> {"product_signal"}
    [] q = "impact_scope"          -> {"shared_exposure", "impact_scope"}
    [] q = "spc_signal"            -> {"shared_exposure", "process_anomaly"}
    [] q = "process_mechanism"     -> {"process_anomaly", "product_signal",
                                       "shared_exposure", "shared_product_signal"}
    [] q = "historical_match"      -> {"process_anomaly", "product_signal",
                                       "shared_exposure", "shared_product_signal",
                                       "historical_context"}
    [] q = "tool_history"          -> {"lot_context", "process_exposure"}
    [] q = "recipe_history"        -> {"recipe_context"}
    [] q = "metrology_correlation" -> {"metrology_signal"}
    [] q = "material_trace"        -> {"material_trace"}
    [] OTHER                       -> {}]

(* contribution_for: what the two questions about a cause have in common.  *)
CausalGroup == [k \in Actions |->
  CASE k = INSPECT  -> {"product_signal"}
    [] k = VALIDATE -> {"shared_product_signal"}
    [] k = EXPOSE   -> {"shared_exposure"}
    [] k = FDC      -> {"process_anomaly"}
    [] k = HISTORY  -> {"historical_context"}
    [] k = REASON   -> {"hypothesis_synthesis"}]

Contribution(q, k) ==
  CASE q = "process_mechanism" -> CausalGroup[k]
    [] q = "historical_match" /\ k # REASON -> CausalGroup[k]
    [] q = "spc_signal" /\ k \in {FDC, EXPOSE} -> CausalGroup[k]
    [] q = "impact_scope" /\ k = EXPOSE -> {"shared_exposure", "impact_scope"}
    [] q = "impact_scope" /\ k = VALIDATE -> {"shared_exposure"}
    [] q \in {"defect_signature", "product_outcome"} /\ k \in {INSPECT, VALIDATE}
         -> {"product_signal"}
    [] q = "defect_signature" /\ k = EXPOSE -> {"context"}
    [] q = "tool_history" /\ k = EXPOSE -> {"lot_context", "process_exposure"}
    [] q = "recipe_history" /\ k = EXPOSE -> {"recipe_context"}
    [] q = "metrology_correlation" /\ k \in {INSPECT, VALIDATE} -> {"metrology_signal"}
    [] OTHER -> {}

(* allowed_actions: an Action may be supporting and contribute nothing.    *)
Allowed(q) == {k \in Actions : Contribution(q, k) # {}}
                \cup (IF q = "product_outcome" THEN {EXPOSE} ELSE {})
                \cup (IF q = "tool_history" THEN {FDC} ELSE {})

(* The contributions some Evidence type is mapped to (_GROUP_PREFERENCES): *)
(* none is mapped to process_exposure, and reasoning yields no group.      *)
Linkable(q, k) == Contribution(q, k) \ {"process_exposure", "hypothesis_synthesis"}

---------------------------------------------------------------------------
(* Causal Evidence gaps, by the claim that is not supported.  A control is *)
(* never a gap; the discrimination gap stays until the candidate has been  *)
(* told from its strongest alternative.                                    *)
Claims == {"equipment", "chamber", "operation", "parameter", "outcome", "mechanism",
           "temporal", "scope", "contradiction", "hypothesis_discrimination"}

GapQuestion(c) ==
  CASE c \in {"equipment", "chamber", "operation", "scope"} -> "impact_scope"
    [] c \in {"parameter", "temporal"} -> "spc_signal"
    [] c = "outcome" -> "product_outcome"
    [] c \in {"mechanism", "contradiction", "hypothesis_discrimination"}
         -> "process_mechanism"

ClaimGroups(c) ==
  CASE c \in {"equipment", "chamber", "operation"} -> {"shared_exposure"}
    [] c = "parameter"     -> {"process_anomaly"}
    [] c = "outcome"       -> {"product_signal"}
    [] c = "mechanism"     -> {"process_anomaly", "historical_context"}
    [] c = "temporal"      -> {"process_anomaly", "shared_exposure"}
    [] c = "scope"         -> {"shared_exposure", "impact_scope"}
    [] c = "contradiction" -> {"process_anomaly", "product_signal"}
    [] OTHER               -> {}

GapActions(c) ==
  {k \in Allowed(GapQuestion(c)) :
     c = "hypothesis_discrimination"
       \/ ClaimGroups(c) \cap Contribution(GapQuestion(c), k) # {}}
=============================================================================
