--------------------------- MODULE HypothesisGate ---------------------------
(***************************************************************************)
(* One call of RCAReasoningAgent.analyze (rca_reasoning_agent.py): the     *)
(* model proposes at most two causes (hypothesis_candidate_generator.py),  *)
(* compares them (causal_candidate_comparison.py) and challenges them      *)
(* (causal_adversarial.py); Python then ranks what was proposed and        *)
(* decides (hypothesis_engine.py, causal_confirmation.py).  Every call of  *)
(* the model can fail or answer with something invalid.  Without a model   *)
(* the candidates are Python's own: an equipment signature, a recipe       *)
(* change and the cases of the Knowledge base.                             *)
(***************************************************************************)
EXTENDS CausalMatrix, Sequences

CONSTANTS
  Registers,     \* the sets of typed Evidence a run may end up with
  Citations,     \* the sets of Evidence the model may cite as support
  Denials,       \* the sets of Evidence the model may cite as contradicting
  Lot,           \* the Lots the MES found affected
  SourceLot,     \* the Lot the request is about
  None           \* no cause

ASSUME GateAssumption ==
  /\ Registers \subseteq SUBSET Evidence
  /\ \A K \in Registers : K # {}
  /\ None \notin Cause /\ Lot \subseteq DOMAIN Kind /\ SourceLot \in Lot

OutputAttempts == 2
ScoreValue == {0, 70, 90}

VARIABLES
  mode,          \* "llm" or "deterministic"
  known,         \* the typed Evidence of the Specialists' findings
  facts,         \* what the findings say beside their Evidence
  pc, attempt,
  proposals,     \* the model's candidates, in its order
  preferred,     \* the index of the preferred proposal, 0 for none
  challenges,    \* the challenges of the proposals that are valid
  search,        \* alternative_search_status
  failed,        \* the calls of the model that came to nothing
  finding        \* the conclusion

vars == <<mode, known, facts, pc, attempt, proposals, preferred, challenges, search, failed, finding>>

Facts == [opposed : BOOLEAN, lanes : BOOLEAN, signature : Cause \cup {None},
          recipe : Cause \cup {None}, similar : [Cause -> ScoreValue],
          validated : [Cause -> {"none", "supporting", "contradicting"}],
          mes : BOOLEAN, fdc : BOOLEAN, wat : BOOLEAN]

\* What is known of the proposals of a model, that no deterministic rule looks at.
NoRule == [signature |-> None, recipe |-> None, similar |-> [c \in Cause |-> 0],
           validated |-> [c \in Cause |-> "none"], mes |-> FALSE, fdc |-> FALSE, wat |-> FALSE]

Challenge == [of : {1, 2}, status : {"open", "blocked", "resolved"}, alternative : BOOLEAN]
Proposal == [cause : Cause, supports : SUBSET Evidence, contradicts : SUBSET Evidence]

TypeOK ==
  /\ mode \in {"llm", "deterministic"} /\ known \in Registers /\ facts \in Facts
  /\ pc \in {"generate", "compare", "challenge", "decide", "done"}
  /\ attempt \in 1..OutputAttempts
  /\ proposals \in Seq(Proposal) /\ Len(proposals) <= 2 /\ preferred \in 0..2
  /\ challenges \subseteq Challenge
  /\ search \in {"not_searched", "blocked_by_missing_data", "alternative_found",
                 "unresolved", "alternatives_eliminated"}
  /\ failed \subseteq {"generate", "compare", "challenge"}
  /\ finding \in [status : {"none", "supported", "inconclusive"}, cause : Cause \cup {None},
                  lots : SUBSET Lot]

Init ==
  /\ mode \in {"llm", "deterministic"}
  /\ known \in Registers
  /\ facts \in Facts
  /\ mode = "llm" => facts = [k \in DOMAIN facts |-> IF k \in DOMAIN NoRule THEN NoRule[k] ELSE facts[k]]
  /\ mode = "deterministic" => ~ facts.lanes
  /\ facts.recipe # None => facts.recipe # facts.signature
  /\ pc = (IF mode = "llm" THEN "generate" ELSE "decide")
  /\ attempt = 1 /\ proposals = <<>> /\ preferred = 0 /\ challenges = {}
  /\ search = "not_searched" /\ failed = {}
  /\ finding = [status |-> "none", cause |-> None, lots |-> {}]

-----------------------------------------------------------------------------
Proposable ==
  {p \in [cause : Cause, supports : Citations, contradicts : Denials] :
     /\ p.supports # {} /\ p.supports \cup p.contradicts \subseteq known
     /\ p.supports \cap p.contradicts = {}
     /\ \A e \in p.supports : CanSupport(e)}

\* An output with something valid in it: what is not valid and near duplicates are dropped,
\* and no candidate is an answer, too.
Generate ==
  /\ pc = "generate"
  /\ \E n \in 0..2 : \E ps \in [1..n -> Proposable] :
       /\ n = 2 => ps[1].cause # ps[2].cause
       /\ proposals' = ps
       /\ pc' = (CASE n = 0 -> "decide" [] n = 1 -> "challenge" [] OTHER -> "compare")
  /\ attempt' = 1
  /\ UNCHANGED <<mode, known, facts, preferred, challenges, search, failed, finding>>

\* An output without a valid part is asked again once; the second one fails the call.
GenerateInvalid ==
  /\ pc = "generate"
  /\ IF attempt < OutputAttempts
       THEN attempt' = attempt + 1 /\ UNCHANGED <<pc, failed>>
       ELSE pc' = "decide" /\ failed' = failed \cup {"generate"} /\ UNCHANGED attempt
  /\ UNCHANGED <<mode, known, facts, proposals, preferred, challenges, search, finding>>

\* The provider fails: no second attempt, and no candidate.
GenerateFails ==
  /\ pc = "generate"
  /\ pc' = "decide" /\ failed' = failed \cup {"generate"}
  /\ UNCHANGED <<mode, known, facts, attempt, proposals, preferred, challenges, search, finding>>

\* A proposal with what contradicts it, cited or not, as Python compares and ranks it.
Candidate(i) == Checked(proposals[i], known)
MatrixScore(i) == Score(Matrix(Candidate(i)), KnowledgeOf(Candidate(i)))

\* compare_candidate_matrices
PythonPreferred ==
  CASE MatrixScore(1) > MatrixScore(2) -> 1
    [] MatrixScore(1) < MatrixScore(2) -> 2
    [] OTHER -> 0

\* The model prefers one of two proposals or none.
Compare ==
  /\ pc = "compare"
  /\ preferred' \in 0..2
  /\ pc' = "challenge"
  /\ UNCHANGED <<mode, known, facts, attempt, proposals, challenges, search, failed, finding>>

\* The call fails or its output is invalid: it is not repeated, and Python's answer counts.
CompareFails ==
  /\ pc = "compare"
  /\ preferred' = PythonPreferred
  /\ pc' = "challenge" /\ failed' = failed \cup {"compare"}
  /\ UNCHANGED <<mode, known, facts, attempt, proposals, challenges, search, finding>>

\* A bug: a challenge that failed leaves nothing to search.
NoSearchAfter(lost) == IF lost THEN "alternatives_eliminated" ELSE "not_searched"

\* The status of the search when no challenge came back.
SearchAfter(lost) == IF lost THEN "unresolved" ELSE "not_searched"

\* Findings without concrete Lanes: every proposal counts as challenged, without a call.
SkipChallenge ==
  /\ pc = "challenge" /\ ~ facts.lanes
  /\ challenges' = {[of |-> i, status |-> "resolved", alternative |-> FALSE] : i \in DOMAIN proposals}
  /\ search' = "alternatives_eliminated" /\ pc' = "decide"
  /\ UNCHANGED <<mode, known, facts, attempt, proposals, preferred, failed, finding>>

\* The model challenges some of the proposals; nothing asks for all of them.  No code
\* ever marks a Lane as eliminated.
ChallengeProposals ==
  /\ pc = "challenge" /\ facts.lanes
  /\ \E asked \in SUBSET DOMAIN proposals :
       \E answer \in [asked -> [status : {"open", "blocked", "resolved"}, alternative : BOOLEAN]] :
         challenges' = {[of |-> i, status |-> answer[i].status, alternative |-> answer[i].alternative]
                          : i \in asked}
  /\ search' = SearchStatus(challenges', proposals, {"lane"}, {})
  /\ pc' = "decide"
  /\ UNCHANGED <<mode, known, facts, attempt, proposals, preferred, failed, finding>>

ChallengeInvalid ==
  /\ pc = "challenge" /\ facts.lanes
  /\ IF attempt < OutputAttempts
       THEN attempt' = attempt + 1 /\ UNCHANGED <<pc, search, failed>>
       ELSE /\ pc' = "decide" /\ search' = SearchAfter(TRUE) /\ failed' = failed \cup {"challenge"}
            /\ UNCHANGED attempt
  /\ UNCHANGED <<mode, known, facts, proposals, preferred, challenges, finding>>

ChallengeFails ==
  /\ pc = "challenge" /\ facts.lanes
  /\ pc' = "decide" /\ search' = SearchAfter(TRUE) /\ failed' = failed \cup {"challenge"}
  /\ UNCHANGED <<mode, known, facts, attempt, proposals, preferred, challenges, finding>>

-----------------------------------------------------------------------------
\* _has_conflicting_physics: the slurry rule, or a normal MES signal of a parameter the
\* FDC found abnormal.
ConflictingPhysics ==
  \/ facts.opposed
  \/ \E e \in Of(known, "negative"), f \in Of(known, "process") :
       /\ About[e].agent = "mes" /\ About[f].agent = "fdc"
       /\ Labels(e, "parameter") \cap Labels(f, "parameter") # {}

\* passes_decision_gate of a model's proposal, under strict confirmation.
PassesGate(p, m) ==
  /\ ~ ConflictingPhysics /\ LlmGate(p, m)
  /\ search = "alternatives_eliminated"
  /\ Confirmation(p, m, {}, search) = "supported"

\* What is known of a checked proposal when it is ranked.
Weighed(p, m) ==
  [proposal |-> p, matrix |-> m, passes |-> PassesGate(p, m), confidence |-> LlmConfidence(p)]

\* The order of the ranking where the comparison prefers the proposal pref; i # j.
Before(i, j, q, pref) ==
  LET favoured(k) == q[k].passes /\ pref = k
  IN IF q[i].passes # q[j].passes THEN q[i].passes
     ELSE IF favoured(i) # favoured(j) THEN favoured(i)
     ELSE IF q[i].confidence # q[j].confidence THEN q[i].confidence > q[j].confidence
     ELSE q[i].proposal.cause < q[j].proposal.cause

Firsts(q, pref) == {i \in DOMAIN q : \A j \in DOMAIN q \ {i} : Before(i, j, q, pref)}

Inconclusive == [status |-> "inconclusive", cause |-> None, lots |-> {}]

\* The Lots are those of the first candidate, and are published only with a conclusion.
Supported(cause) ==
  [status |-> "supported", cause |-> cause,
   lots |-> {l \in Lot \ {SourceLot} : ImpactConfirmed(cause, known, l)}]

\* Strict confirmation has the last word on the first of the ranking, whether the
\* decision gate let it pass or not.
Conclusion(q, pref) ==
  LET first == CHOOSE i \in Firsts(q, pref) : TRUE
      others == {q[j].matrix : j \in DOMAIN q \ {first}}
  IN IF q # <<>> /\ Confirmation(q[first].proposal, q[first].matrix, others, search) = "supported"
       THEN Supported(q[first].proposal.cause) ELSE Inconclusive

Ranked == [i \in DOMAIN proposals |-> Weighed(Candidate(i), Matrix(Candidate(i)))]

DecideProposals(pref) == Conclusion(Ranked, pref)

-----------------------------------------------------------------------------
\* _candidate_payload of a deterministic candidate that starts from base.
Confidence(c, base) ==
  LET start == IF facts.similar[c] > base THEN facts.similar[c] ELSE base
      moved == CASE facts.validated[c] = "supporting"    -> IF start > 95 THEN 100 ELSE start + 5
                 [] facts.validated[c] = "contradicting" -> IF start < 20 THEN 0 ELSE start - 20
                 [] OTHER -> start
  IN IF moved > 95 THEN 95 ELSE moved

\* A later basis replaces an earlier one only with a higher confidence, and it never has one.
Candidates ==
  LET of(c) == CASE c = facts.signature -> [cause |-> c, basis |-> "signature", confidence |-> Confidence(c, 95)]
                 [] c = facts.recipe    -> [cause |-> c, basis |-> "recipe", confidence |-> Confidence(c, 80)]
                 [] OTHER -> [cause |-> c, basis |-> "knowledge", confidence |-> Confidence(c, 0)]
  IN {of(c) : c \in {d \in Cause : d \in {facts.signature, facts.recipe} \/ facts.similar[d] > 0}}

\* A bug: a case of the Knowledge base that is similar enough is a conclusion.
PassesOnSimilarity(k) ==
  /\ k.confidence >= 75 /\ facts.validated[k.cause] # "contradicting" /\ ~ ConflictingPhysics
  /\ facts.mes /\ facts.wat

PassesRules(k) ==
  /\ k.confidence >= 75 /\ facts.validated[k.cause] # "contradicting" /\ ~ ConflictingPhysics
  /\ facts.mes /\ facts.wat
  /\ k.basis # "recipe" => k.cause = facts.signature /\ facts.fdc

DecideCandidates ==
  LET passing == {k \in Candidates : PassesRules(k)}
      best == CHOOSE k \in passing : \A o \in passing \ {k} :
                \/ k.confidence > o.confidence
                \/ k.confidence = o.confidence /\ k.cause < o.cause
  IN IF passing # {} THEN Supported(best.cause) ELSE Inconclusive

Decide ==
  /\ pc = "decide"
  /\ finding' = (IF mode = "llm" THEN DecideProposals(preferred) ELSE DecideCandidates)
  /\ pc' = "done"
  /\ UNCHANGED <<mode, known, facts, attempt, proposals, preferred, challenges, search, failed>>

Next ==
  \/ Generate \/ GenerateInvalid \/ GenerateFails
  \/ Compare \/ CompareFails
  \/ SkipChallenge \/ ChallengeProposals \/ ChallengeInvalid \/ ChallengeFails
  \/ Decide

Spec == Init /\ [][Next]_vars

-----------------------------------------------------------------------------
SupportedNow == finding.status = "supported"
Chosen == CHOOSE p \in {proposals[i] : i \in DOMAIN proposals} : p.cause = finding.cause

\* A cause a model proposed is a conclusion only if its citations meet: one Lot carries an
\* exposure, an anomaly of a parameter the cause names and an outcome it explains, and no
\* normal signal anybody found speaks of that parameter on one of the cited Lots.
SupportedIsGrounded ==
  (SupportedNow /\ mode = "llm") =>
    LET p == Chosen
        on(type, lot) == {e \in Of(p.supports, type) : Labels(e, "lot") = {} \/ lot \in Labels(e, "lot")}
    IN /\ \E lot \in AllLabels(p.supports, "lot") :
            /\ on("exposure", lot) # {}
            /\ \E e \in on("process", lot) : Labels(e, "parameter") \cap Said(p.cause, "parameter") # {}
            /\ \E e \in on("outcome", lot) : Labels(e, "outcome") \cap Said(p.cause, "outcome") # {}
       /\ \A e \in Of(known, "negative") :
            \/ Labels(e, "parameter") \cap AllLabels(Of(p.supports, "process"), "parameter") = {}
            \/ Labels(e, "lot") # {} /\ Labels(e, "lot") \cap AllLabels(p.supports, "lot") = {}

\* No conclusion leaves a rival standing: every challenge that was made is answered, and
\* where there are Lanes to compare every other proposal contradicts its own citations.
NoLiveRival ==
  (SupportedNow /\ mode = "llm") =>
    /\ \A ch \in challenges : ch.status = "resolved" /\ ~ ch.alternative
    /\ facts.lanes => /\ challenges # {} /\ Len(proposals) = 2
                      /\ \A i \in DOMAIN proposals :
                           proposals[i].cause # finding.cause => HasCriticalConflict(Matrix(proposals[i]))

\* There is no conclusion without a proposal and a search: a generation or a challenge that
\* failed, or was answered with nothing valid twice, leaves the cause open.  A first answer
\* that was repaired is no failure.
OpenWithoutSearch ==
  (mode = "llm" /\ (failed \cap {"generate", "challenge"} # {} \/ proposals = <<>>)) => ~ SupportedNow

\* Where Lanes had to be searched, the comparison of the proposals, failed or not, has no
\* say in what is concluded: the search has left at most one of them.
ComparisonHasNoSay ==
  (mode = "llm" /\ facts.lanes /\ pc = "done") => \A pref \in 0..2 : finding = DecideProposals(pref)

\* Where it has a say and has failed, the stronger matrix wins: no other proposal that
\* passes the gate scores higher than the one that was concluded.
MatrixStandsIn ==
  (mode = "llm" /\ "compare" \in failed /\ SupportedNow) =>
    \E k \in DOMAIN proposals :
      /\ proposals[k].cause = finding.cause
      /\ \A i \in DOMAIN proposals : Ranked[i].passes => MatrixScore(i) <= MatrixScore(k)

\* A call of the model that fails never decides: the cause stays open, or it is the one
\* that would have been concluded, or that Python's own comparison puts first.
FailureNeverDecides == OpenWithoutSearch /\ ComparisonHasNoSay /\ MatrixStandsIn

\* Without a model, Knowledge alone never concludes: the cause is one the current Lot's
\* equipment or recipe points to, and neither its history nor its physics is against it.
KnowledgeNeverDecides ==
  (SupportedNow /\ mode = "deterministic") =>
    /\ finding.cause \in {facts.signature, facts.recipe}
    /\ facts.validated[finding.cause] # "contradicting" /\ ~ ConflictingPhysics
    /\ \A l \in finding.lots : \A type \in Lane : \E e \in Of(known, type) : l \in Labels(e, "lot")
=============================================================================
