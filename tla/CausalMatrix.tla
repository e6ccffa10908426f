---------------------------- MODULE CausalMatrix ----------------------------
(***************************************************************************)
(* The gates between a proposed root cause and a conclusion: the claims    *)
(* Python derives from the Evidence a proposal cites                       *)
(* (causal_evidence_matrix.py), the gate of a model's proposal             *)
(* (hypothesis_engine.py _llm_candidate_payload), the final confirmation   *)
(* and the gate of the impact Lots (causal_confirmation.py), and the       *)
(* status of the search for alternatives (causal_adversarial.py).          *)
(*                                                                         *)
(* Words are labels: a proposal and a piece of Evidence speak of the same  *)
(* thing when they share a label, which stands for the token comparisons   *)
(* of the source.  A timestamp is inside or outside of the window that is  *)
(* declared for it.                                                        *)
(***************************************************************************)
EXTENDS Integers, FiniteSets

CONSTANTS
  Evidence,      \* ids of the typed Evidence the Specialists may find
  About,         \* id -> [type, agent, labels, direction, at, window]
  Kind,          \* label -> "lot", "equipment", ..., "parameter" or "outcome"
  Cause,         \* root causes, numbered in the alphabetical order of their names
  Wording        \* cause -> [labels, direction], what its name and explanation say

EvidenceType == {"exposure", "process", "outcome", "negative", "control", "knowledge", "missing"}

ASSUME MatrixAssumption ==
  /\ Cause \subseteq Nat
  /\ \A e \in Evidence : About[e].type \in EvidenceType /\ About[e].labels \subseteq DOMAIN Kind
  /\ \A c \in Cause : Wording[c].labels \subseteq DOMAIN Kind

\* A proposal: [cause, supports, contradicts], the two sets disjoint sets of Evidence.
-----------------------------------------------------------------------------
Labels(e, kind) == {l \in About[e].labels : Kind[l] = kind}
AllLabels(E, kind) == UNION {Labels(e, kind) : e \in E}
Of(E, type) == {e \in E : About[e].type = type}
Said(c, kind) == {l \in Wording[c].labels : Kind[l] = kind}

\* Normal signals, controls and missing data never support a cause, and Knowledge only
\* once an engineer has confirmed it: the type "knowledge" is Knowledge that is confirmed.
CanSupport(e) == About[e].type \notin {"negative", "control", "missing"}

EntityClaim(p, kind) ==
  LET found == AllLabels(p.supports, kind)
      said == Said(p.cause, kind)
  IN IF found = {} THEN "unavailable"
     ELSE IF said \cap found # {} THEN "supported"
     ELSE IF said # {} THEN "conflicted" ELSE "incomplete"

ParameterClaim(p) ==
  LET measured == {e \in Of(p.supports, "process") : Labels(e, "parameter") # {}}
      aligned == {e \in measured : Labels(e, "parameter") \cap Said(p.cause, "parameter") # {}}
      directions == {About[e].direction : e \in aligned} \ {"none"}
      opposed == /\ Wording[p.cause].direction # "none" /\ directions # {}
                 /\ Wording[p.cause].direction \notin directions
  IN IF measured = {} THEN "unavailable"
     ELSE IF opposed THEN "conflicted"
     ELSE IF aligned # {} THEN "supported"
     ELSE IF Said(p.cause, "parameter") # {} THEN "conflicted" ELSE "incomplete"

OutcomeClaim(p) ==
  LET seen == AllLabels(Of(p.supports, "outcome"), "outcome")
      said == Said(p.cause, "outcome")
  IN IF Of(p.supports, "outcome") = {} THEN "unavailable"
     ELSE IF said \cap seen # {} THEN "supported"
     ELSE IF said # {} /\ seen # {} THEN "conflicted" ELSE "incomplete"

\* Confirmed Knowledge on a parameter or an outcome the proposal names, or an anomaly and
\* an outcome that both match it.  No Tool produces the mechanism rules of the source.
MechanismClaim(p) ==
  LET known == Of(p.supports, "knowledge")
      named == Said(p.cause, "parameter") \cup Said(p.cause, "outcome")
      relevant == {e \in known : About[e].labels \cap named # {}}
  IN IF relevant # {} \/ (ParameterClaim(p) = "supported" /\ OutcomeClaim(p) = "supported") THEN "supported"
     ELSE IF \E type \in {"process", "outcome", "knowledge"} : Of(p.supports, type) # {} THEN "incomplete"
     ELSE "unavailable"

SharedLots(E) ==
  LET placed == {e \in E : Labels(e, "lot") # {}}
  IN {l \in AllLabels(E, "lot") : \A e \in placed : l \in Labels(e, "lot")}

ScopeClaim(p) ==
  IF AllLabels(p.supports, "lot") = {} THEN "incomplete"
  ELSE IF SharedLots(p.supports) = {} THEN "conflicted" ELSE "supported"

TemporalClaim(p) ==
  LET process == Of(p.supports, "process")
      global == \E e \in Of(p.supports, "exposure") : About[e].window
      checked == {e \in process : About[e].at # "none" /\ (About[e].window \/ global)}
  IN IF \A e \in p.supports : About[e].at = "none" THEN "unavailable"
     ELSE IF ~ global /\ \A e \in process : ~ About[e].window THEN "incomplete"
     ELSE IF \E e \in checked : About[e].at = "outside" THEN "conflicted"
     ELSE IF checked = {} THEN "incomplete" ELSE "supported"

ContradictionClaim(p) == IF p.contradicts # {} THEN "conflicted" ELSE "supported"

\* Controls inform the reader and gate nothing: they are not a critical claim.
Matrix(p) ==
  [equipment |-> EntityClaim(p, "equipment"), chamber |-> EntityClaim(p, "chamber"),
   operation |-> EntityClaim(p, "operation"), parameter |-> ParameterClaim(p),
   outcome |-> OutcomeClaim(p), mechanism |-> MechanismClaim(p), scope |-> ScopeClaim(p),
   temporal |-> TemporalClaim(p), contradiction |-> ContradictionClaim(p)]

HasCriticalConflict(m) == \E claim \in DOMAIN m : m[claim] = "conflicted"
SupportedClaims(m) == Cardinality({claim \in DOMAIN m : m[claim] = "supported"})

-----------------------------------------------------------------------------
\* Normal signals of a parameter the cited anomalies are about, on Lots they may be about,
\* contradict the proposal whether the model cites them or not.
ContradictedBy(p, known) ==
  LET anomalies == AllLabels(Of(p.supports, "process"), "parameter")
      lots == AllLabels(p.supports, "lot")
  IN {e \in Of(known, "negative") :
        /\ anomalies \cap Labels(e, "parameter") # {}
        /\ lots = {} \/ Labels(e, "lot") = {} \/ lots \cap Labels(e, "lot") # {}}

\* A bug: only what the model itself cites counts against a proposal.
CheckedAsCited(p, known) == p

\* What the engine makes of a proposal before it is ranked.
Checked(p, known) == [p EXCEPT !.contradicts = @ \cup ContradictedBy(p, known)]

Lane == {"exposure", "process", "outcome"}
Sources(p) == {About[e].agent : e \in {f \in p.supports : About[f].type # "knowledge"}}
LaneLots(p) == {AllLabels(Of(p.supports, t), "lot") : t \in Lane} \ {{}}
CommonLots(p) == {l \in UNION LaneLots(p) : \A L \in LaneLots(p) : l \in L}
CompleteLanes(p) == {t \in Lane : Of(p.supports, t) # {}}

\* gate_checks of _llm_candidate_payload and no contradiction; m is the matrix of p.
LlmGate(p, m) ==
  LET anomaly == UNION {About[e].labels : e \in Of(p.supports, "process")}
      product == UNION {About[e].labels : e \in Of(p.supports, "outcome")}
      cause == {l \in Wording[p.cause].labels : Kind[l] # "outcome"}
  IN /\ \A e \in p.supports : CanSupport(e)
     /\ CompleteLanes(p) = Lane
     /\ CommonLots(p) # {}
     /\ Cardinality(Sources(p)) >= 3
     /\ cause \cap anomaly # {}
     /\ Wording[p.cause].labels \cap product # {}
     /\ Said(p.cause, "equipment") \subseteq UNION {About[e].labels : e \in p.supports}
     /\ ~ HasCriticalConflict(m)
     /\ p.contradicts = {}

LlmConfidence(p) ==
  LET sum == 45 + 10 * Cardinality(CompleteLanes(p))
               + (IF Cardinality(Sources(p)) >= 3 THEN 5 ELSE 0)
               + (IF CommonLots(p) # {} THEN 5 ELSE 0)
  IN IF sum > 90 THEN 90 ELSE sum

KnowledgeOf(p) ==
  {e \in Of(p.supports, "knowledge") :
     About[e].labels \cap (Said(p.cause, "parameter") \cup Said(p.cause, "outcome")) # {}}

\* _matrix_score; of the sources of a mechanism only confirmed Knowledge counts here, and
\* the control claim, over all the Evidence there is, adds the same to every proposal.
Score(m, knowledge) ==
  LET of(status) == Cardinality({claim \in DOMAIN m : m[claim] = status})
  IN 2 * of("supported") + of("incomplete") - 2 * of("conflicted")
     + (IF knowledge # {} THEN 1 ELSE 0) - (IF HasCriticalConflict(m) THEN 5 ELSE 0)

\* confirm_candidate, strict: m is the matrix of p, search is the status of the search
\* for alternatives, and others are the matrices of the other proposals.
Confirmation(p, m, others, search) ==
  LET required == {"parameter", "outcome", "mechanism", "scope"}
      placed == {e \in p.supports : \E k \in {"equipment", "chamber", "operation"} : Labels(e, k) # {}}
      hard == /\ Of(placed, "exposure") # {}
              /\ \A claim \in required \cup {"temporal"} : m[claim] = "supported"
              /\ \A claim \in {"equipment", "chamber", "operation", "contradiction"} : m[claim] # "conflicted"
              /\ search = "alternatives_eliminated"
              /\ \A o \in others : SupportedClaims(o) # SupportedClaims(m)
  IN IF hard THEN "supported"
     ELSE IF \E claim \in required : m[claim] = "unavailable" THEN "insufficient_evidence"
     ELSE "inconclusive"

-----------------------------------------------------------------------------
\* A bug: a challenge that is still open does not keep the search open.
SearchStatusIgnoringOpen(challenges, proposals, active, eliminated) ==
  IF challenges = {} THEN "not_searched"
  ELSE IF \E ch \in challenges : ch.status = "blocked" THEN "blocked_by_missing_data"
  ELSE IF \E ch \in challenges : ch.alternative THEN "alternative_found"
  ELSE "alternatives_eliminated"

\* derive_alternative_search_status: the first proposal is taken as the winner.
SearchStatus(challenges, proposals, active, eliminated) ==
  LET rest == {proposals[i] : i \in DOMAIN proposals \ {1}}
      open == \E ch \in challenges : ch.status \in {"open", "unresolved", "alternative_identified"}
      unsearched == /\ active # {} /\ ~ active \subseteq eliminated
                    /\ rest = {} \/ \E p \in rest : ~ HasCriticalConflict(Matrix(p))
  IN IF challenges = {} THEN "not_searched"
     ELSE IF \E ch \in challenges : ch.status = "blocked" THEN "blocked_by_missing_data"
     ELSE IF \E ch \in challenges : ch.alternative THEN "alternative_found"
     ELSE IF open \/ unsearched THEN "unresolved" ELSE "alternatives_eliminated"

-----------------------------------------------------------------------------
\* _compatible_with_candidate: an entity the proposal names is not another one.
Compatible(e, c) ==
  \A kind \in {"equipment", "chamber", "operation", "recipe"} :
    (Said(c, kind) # {} /\ Labels(e, kind) # {}) => Said(c, kind) \cap Labels(e, kind) # {}

\* evaluate_impact_lot_gate: one Lot, from all the typed Evidence there is.
ImpactConfirmed(c, known, lot) ==
  LET here == {e \in known : lot \in Labels(e, "lot")}
      exposure == {e \in Of(here, "exposure") : Compatible(e, c)}
      process == {e \in Of(here, "process") : Compatible(e, c)}
      both(kind) == AllLabels(exposure, kind) \cap AllLabels(process, kind)
      recipes == AllLabels(exposure \cup process, "recipe")
      directions == {About[e].direction : e \in process} \ {"none"}
      timed == {e \in process : About[e].at # "none"}
  IN /\ exposure # {} /\ process # {}
     /\ both("equipment") # {} /\ both("chamber") # {} /\ both("operation") # {}
     /\ recipes = {} \/ both("recipe") # {}
     /\ AllLabels(process, "parameter") \cap Said(c, "parameter") # {}
     /\ Wording[c].direction = "none" \/ directions = {} \/ Wording[c].direction \in directions
     /\ \E e \in exposure \cup process : About[e].window
     /\ timed # {} /\ \A e \in timed : About[e].at = "inside"
     /\ AllLabels(Of(here, "outcome"), "outcome") \cap Said(c, "outcome") # {}
=============================================================================
