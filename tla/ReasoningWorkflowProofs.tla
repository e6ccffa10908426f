------------------------ MODULE ReasoningWorkflowProofs ------------------------
(***************************************************************************)
(* What holds of the confirmation of a cause and of the fixed workflow     *)
(* that asks for it, for every Evidence, every answer of the model, every  *)
(* plan that a model may propose and every outcome of the agents.          *)
(***************************************************************************)
EXTENDS HypothesisGate, FixedWorkflow, SequenceTheorems, FiniteSetTheorems, WellFoundedInduction, TLAPS

(***************************************************************************)
(* The gate of the reasoning agent, for every Evidence, every wording and  *)
(* every answer of the model.                                              *)
(***************************************************************************)

\* A recipe change and an equipment signature never name the same cause.
RulesDiffer == facts.recipe # None => facts.recipe # facts.signature

\* Near duplicates are gone: the proposals name different causes.
CausesDiffer == Len(proposals) = 2 => proposals[1].cause # proposals[2].cause

\* Nothing but the comparison has failed, and nothing has been searched, while the model is
\* still to be asked.
NothingSearchedYet ==
  pc \in {"generate", "compare", "challenge"} => failed \subseteq {"compare"} /\ search = "not_searched"

\* There are two proposals where there is something to compare, and a comparison that
\* failed is Python's own.
ComparisonIsPythons ==
  /\ pc = "compare" => Len(proposals) = 2
  /\ "compare" \in failed => Len(proposals) = 2 /\ preferred = PythonPreferred /\ pc \notin {"generate", "compare"}

\* What the status of the search promises the confirmation that reads it.
SearchIsHonest ==
  search = "alternatives_eliminated" =>
    /\ failed \subseteq {"compare"}
    /\ \A ch \in challenges : ch.status = "resolved" /\ ~ ch.alternative
    /\ facts.lanes => /\ challenges # {} /\ Len(proposals) = 2
                      /\ HasCriticalConflict(Matrix(proposals[2]))

GateProperties ==
  /\ FailureNeverDecides /\ NoLiveRival /\ SupportedIsGrounded /\ KnowledgeNeverDecides

GateInv ==
  /\ TypeOK /\ RulesDiffer /\ CausesDiffer /\ NothingSearchedYet /\ SearchIsHonest /\ ComparisonIsPythons
  /\ pc # "done" => finding.status = "none"
  /\ GateProperties

-----------------------------------------------------------------------------
\* What Python makes of a proposal keeps its cause and its citations, and only adds to what
\* contradicts it (hypothesis_engine.py _llm_candidate_payload).
LEMMA CheckedKeeps ==
  ASSUME NEW p \in Proposal, NEW K
  PROVE  /\ Checked(p, K).cause = p.cause
         /\ Checked(p, K).supports = p.supports
         /\ Checked(p, K).contradicts = p.contradicts \cup ContradictedBy(p, K)
BY DEF Checked, Proposal

\* A claim that conflicts still conflicts once a proposal has been checked.
LEMMA ConflictsRemain ==
  ASSUME NEW p \in Proposal, NEW K, HasCriticalConflict(Matrix(p))
  PROVE  HasCriticalConflict(Matrix(Checked(p, K)))
<1> DEFINE q == Checked(p, K)
<1>1. q.cause = p.cause /\ q.supports = p.supports /\ p.contradicts \subseteq q.contradicts
  BY CheckedKeeps
<1> HIDE DEF q
<1>2. /\ EntityClaim(q, "equipment") = EntityClaim(p, "equipment")
      /\ EntityClaim(q, "chamber") = EntityClaim(p, "chamber")
      /\ EntityClaim(q, "operation") = EntityClaim(p, "operation")
  BY <1>1 DEF EntityClaim
<1>3. ParameterClaim(q) = ParameterClaim(p) /\ OutcomeClaim(q) = OutcomeClaim(p)
  BY <1>1 DEF ParameterClaim, OutcomeClaim
<1>4. MechanismClaim(q) = MechanismClaim(p)
  BY <1>1, <1>3 DEF MechanismClaim
<1>5. ScopeClaim(q) = ScopeClaim(p) /\ TemporalClaim(q) = TemporalClaim(p)
  BY <1>1 DEF ScopeClaim, TemporalClaim
<1>6. ContradictionClaim(p) = "conflicted" => ContradictionClaim(q) = "conflicted"
  BY <1>1 DEF ContradictionClaim
<1>7. \A claim \in DOMAIN Matrix(p) : Matrix(p)[claim] = "conflicted" => Matrix(q)[claim] = "conflicted"
  BY <1>2, <1>3, <1>4, <1>5, <1>6 DEF Matrix
<1>8. DOMAIN Matrix(p) = DOMAIN Matrix(q)
  BY DEF Matrix
<1>9. HasCriticalConflict(Matrix(q))
  BY <1>7, <1>8 DEF HasCriticalConflict
<1>10. QED BY <1>9 DEF q

\* What confirm_candidate requires of the proposal it confirms.
LEMMA ConfirmedMeans ==
  ASSUME NEW p, NEW others, NEW s, Confirmation(p, Matrix(p), others, s) = "supported"
  PROVE  /\ s = "alternatives_eliminated"
         /\ Of(p.supports, "exposure") # {}
         /\ ParameterClaim(p) = "supported" /\ OutcomeClaim(p) = "supported"
         /\ ScopeClaim(p) = "supported" /\ p.contradicts = {}
         /\ ~ HasCriticalConflict(Matrix(p))
<1> DEFINE m == Matrix(p)
           placed == {e \in p.supports : \E k \in {"equipment", "chamber", "operation"} : Labels(e, k) # {}}
<1>1. /\ Of(placed, "exposure") # {}
      /\ \A claim \in {"parameter", "outcome", "mechanism", "scope", "temporal"} : m[claim] = "supported"
      /\ \A claim \in {"equipment", "chamber", "operation", "contradiction"} : m[claim] # "conflicted"
      /\ s = "alternatives_eliminated"
  BY DEF Confirmation
<1>2. DOMAIN m = {"equipment", "chamber", "operation", "parameter", "outcome", "mechanism",
                  "scope", "temporal", "contradiction"}
  BY DEF Matrix
<1>3. ~ HasCriticalConflict(m)
  BY <1>1, <1>2 DEF HasCriticalConflict
<1>4. m.parameter = ParameterClaim(p) /\ m.outcome = OutcomeClaim(p) /\ m.scope = ScopeClaim(p)
      /\ m.contradiction = ContradictionClaim(p)
  BY DEF Matrix
<1>5. Of(p.supports, "exposure") # {}
  BY <1>1 DEF Of
<1>6. p.contradicts = {}
  BY <1>1, <1>4 DEF ContradictionClaim
<1>7. QED BY <1>1, <1>3, <1>4, <1>5, <1>6

\* A search that eliminated the alternatives has compared every challenged proposal
\* (causal_adversarial.py derive_alternative_search_status).
LEMMA SearchStatusMeans ==
  ASSUME NEW chs \in SUBSET Challenge, NEW ps \in Seq(Proposal), Len(ps) <= 2
  PROVE  /\ SearchStatus(chs, ps, {"lane"}, {}) \in
              {"not_searched", "blocked_by_missing_data", "alternative_found", "unresolved",
               "alternatives_eliminated"}
         /\ SearchStatus(chs, ps, {"lane"}, {}) = "alternatives_eliminated" =>
              /\ chs # {} /\ \A ch \in chs : ch.status = "resolved" /\ ~ ch.alternative
              /\ Len(ps) = 2 /\ HasCriticalConflict(Matrix(ps[2]))
<1> DEFINE rest == {ps[i] : i \in DOMAIN ps \ {1}}
           s == SearchStatus(chs, ps, {"lane"}, {})
<1>1. s \in {"not_searched", "blocked_by_missing_data", "alternative_found", "unresolved",
             "alternatives_eliminated"}
  BY Zenon DEF SearchStatus
<1>2. ASSUME s = "alternatives_eliminated"
      PROVE  /\ chs # {} /\ \A ch \in chs : ch.status \notin {"blocked", "open"} /\ ~ ch.alternative
             /\ rest # {} /\ \A p \in rest : HasCriticalConflict(Matrix(p))
  BY <1>2 DEF SearchStatus
<1>3. \A ch \in chs : ch.status \in {"open", "blocked", "resolved"}
  BY DEF Challenge
<1>4. ASSUME rest # {}
      PROVE  Len(ps) = 2 /\ ps[2] \in rest
  <2>1. Len(ps) \in Nat /\ DOMAIN ps = 1..Len(ps)
    BY LenProperties
  <2>2. PICK i \in DOMAIN ps : i # 1
    BY <1>4
  <2>3. Len(ps) = 2 /\ i = 2
    BY <2>1, <2>2
  <2>4. QED BY <2>2, <2>3
<1> HIDE DEF rest
<1>5. ASSUME s = "alternatives_eliminated"
      PROVE  /\ chs # {} /\ \A ch \in chs : ch.status = "resolved" /\ ~ ch.alternative
             /\ Len(ps) = 2 /\ HasCriticalConflict(Matrix(ps[2]))
  BY <1>2, <1>3, <1>4, <1>5
<1> HIDE DEF s
<1>6. QED BY <1>1, <1>5 DEF s

\* The confidence of a model's proposal is a number.
LEMMA ConfidenceIsANumber ==
  ASSUME NEW p
  PROVE  LlmConfidence(p) \in Int
<1>1. Cardinality(CompleteLanes(p)) \in Nat
  <2>1. IsFiniteSet(Lane)
    <3>1. IsFiniteSet({"exposure"})
      BY FS_Singleton
    <3>2. IsFiniteSet({"exposure"} \cup {"process"})
      BY <3>1, FS_AddElement
    <3>3. IsFiniteSet(({"exposure"} \cup {"process"}) \cup {"outcome"})
      BY <3>2, FS_AddElement
    <3>4. Lane = ({"exposure"} \cup {"process"}) \cup {"outcome"}
      BY DEF Lane
    <3>5. QED BY <3>3, <3>4
  <2>2. CompleteLanes(p) \subseteq Lane
    BY DEF CompleteLanes
  <2>3. QED BY <2>1, <2>2, FS_Subset, FS_CardinalityType
<1>2. QED BY <1>1 DEF LlmConfidence

\* The score of a matrix is a number.
LEMMA ScoreIsANumber ==
  ASSUME NEW p, NEW knowledge
  PROVE  Score(Matrix(p), knowledge) \in Int
<1> DEFINE m == Matrix(p)
           of(s) == Cardinality({claim \in DOMAIN m : m[claim] = s})
<1>1. IsFiniteSet(DOMAIN m)
  <2>1. DOMAIN m = {"equipment", "chamber", "operation", "parameter", "outcome", "mechanism",
                    "scope", "temporal"} \cup {"contradiction"}
    BY DEF Matrix
  <2>2. IsFiniteSet({"equipment", "chamber", "operation", "parameter", "outcome", "mechanism",
                     "scope", "temporal"})
    <3>1. IsFiniteSet({"equipment", "chamber", "operation", "parameter"})
      <4>1. IsFiniteSet({"equipment"} \cup {"chamber"})
        BY FS_Singleton, FS_AddElement
      <4>2. IsFiniteSet(({"equipment"} \cup {"chamber"}) \cup {"operation"})
        BY <4>1, FS_AddElement
      <4>3. IsFiniteSet((({"equipment"} \cup {"chamber"}) \cup {"operation"}) \cup {"parameter"})
        BY <4>2, FS_AddElement
      <4>4. QED BY <4>3
    <3>2. IsFiniteSet({"outcome", "mechanism", "scope", "temporal"})
      <4>1. IsFiniteSet({"outcome"} \cup {"mechanism"})
        BY FS_Singleton, FS_AddElement
      <4>2. IsFiniteSet(({"outcome"} \cup {"mechanism"}) \cup {"scope"})
        BY <4>1, FS_AddElement
      <4>3. IsFiniteSet((({"outcome"} \cup {"mechanism"}) \cup {"scope"}) \cup {"temporal"})
        BY <4>2, FS_AddElement
      <4>4. QED BY <4>3
    <3>3. IsFiniteSet({"equipment", "chamber", "operation", "parameter"}
                        \cup {"outcome", "mechanism", "scope", "temporal"})
      BY <3>1, <3>2, FS_Union
    <3>4. QED BY <3>3
  <2>3. QED BY <2>1, <2>2, FS_AddElement
<1> HIDE DEF m
<1>2. \A s : of(s) \in Nat
  BY <1>1, FS_Subset, FS_CardinalityType
<1>3. of("supported") \in Nat /\ of("incomplete") \in Nat /\ of("conflicted") \in Nat
  BY <1>2
<1>4. Score(m, knowledge) \in Int
  BY <1>3 DEF Score
<1>5. QED BY <1>4 DEF m

\* What is ranked is the checked proposal, with its cause, its matrix and its confidence.
LEMMA RankedIs ==
  ASSUME NEW i \in DOMAIN proposals, proposals[i] \in Proposal
  PROVE  /\ Ranked[i].proposal = Candidate(i)
         /\ Ranked[i].matrix = Matrix(Candidate(i))
         /\ Ranked[i].proposal.cause = proposals[i].cause
         /\ Ranked[i].confidence \in Int /\ Ranked[i].passes \in BOOLEAN
         /\ Ranked[i].passes => /\ search = "alternatives_eliminated"
                               /\ ~ HasCriticalConflict(Matrix(Candidate(i)))
<1> DEFINE c == Candidate(i)
           b == PassesGate(c, Matrix(c))
<1>1. Ranked[i] = Weighed(c, Matrix(c))
  BY DEF Ranked
<1>2. c.cause = proposals[i].cause
  BY CheckedKeeps DEF Candidate
<1>3. LlmConfidence(c) \in Int
  BY ConfidenceIsANumber
<1>4. b \in BOOLEAN
  BY Zenon DEF PassesGate
<1>5. b => search = "alternatives_eliminated" /\ ~ HasCriticalConflict(Matrix(c))
  BY DEF PassesGate, LlmGate
<1> HIDE DEF c
<1>6. /\ Ranked[i].proposal = c /\ Ranked[i].matrix = Matrix(c)
      /\ Ranked[i].confidence = LlmConfidence(c)
  BY <1>1 DEF Weighed
<1> HIDE DEF b
<1>7. Ranked[i].passes = b
  BY <1>1 DEF Weighed, b
<1>8. QED BY <1>2, <1>3, <1>4, <1>5, <1>6, <1>7 DEF c

\* The ranking of one or two proposals with different causes has a first.
LEMMA RankingHasFirst ==
  ASSUME NEW n \in 1..2, NEW q, DOMAIN q = 1..n,
         \A i \in DOMAIN q : q[i].proposal.cause \in Cause,
         \A i \in DOMAIN q : q[i].confidence \in Int,
         \A i \in DOMAIN q : q[i].passes \in BOOLEAN,
         n = 2 => q[1].proposal.cause # q[2].proposal.cause,
         NEW pref
  PROVE  Firsts(q, pref) # {}
<1> SUFFICES \E i \in DOMAIN q : \A j \in DOMAIN q \ {i} : Before(i, j, q, pref)
  BY DEF Firsts
<1>1. CASE n = 1
  <2>1. DOMAIN q = {1}
    BY <1>1
  <2>2. QED BY <2>1
<1>2. CASE n = 2
  <2>1. DOMAIN q = {1, 2}
    BY <1>2
  <2>2. q[1].proposal.cause \in Nat /\ q[2].proposal.cause \in Nat
    BY <2>1, MatrixAssumption
  <2>3. Before(1, 2, q, pref) \/ Before(2, 1, q, pref)
    BY <1>2, <2>1, <2>2 DEF Before
  <2>4. QED BY <2>1, <2>3
<1>3. QED BY <1>1, <1>2

\* What is concluded from proposals is the first of the ranking, and was confirmed
\* (hypothesis_engine.py rank, rca_reasoning_agent.py analyze).
LEMMA ConclusionMeans ==
  ASSUME proposals \in Seq(Proposal), Len(proposals) <= 2, CausesDiffer,
         NEW pref, DecideProposals(pref) # Inconclusive
  PROVE  \E k \in Firsts(Ranked, pref) : \E others :
           /\ k \in DOMAIN proposals
           /\ DecideProposals(pref) = Supported(proposals[k].cause)
           /\ Confirmation(Candidate(k), Matrix(Candidate(k)), others, search) = "supported"
<1> DEFINE q == Ranked
           first == CHOOSE i \in Firsts(q, pref) : TRUE
           others == {q[j].matrix : j \in DOMAIN q \ {first}}
<1>1. Len(proposals) \in Nat /\ DOMAIN proposals = 1..Len(proposals) /\ DOMAIN q = DOMAIN proposals
  BY LenProperties DEF Ranked
<1>2. \A i \in DOMAIN proposals : proposals[i] \in Proposal
  BY ElementOfSeq, <1>1
<1>3. \A i \in DOMAIN proposals :
        /\ q[i].proposal = Candidate(i) /\ q[i].matrix = Matrix(Candidate(i))
        /\ q[i].proposal.cause = proposals[i].cause
        /\ q[i].confidence \in Int /\ q[i].passes \in BOOLEAN
  BY <1>2, RankedIs
<1>4. /\ q # <<>> /\ Confirmation(q[first].proposal, q[first].matrix, others, search) = "supported"
      /\ DecideProposals(pref) = Supported(q[first].proposal.cause)
  <2>1. DecideProposals(pref) = Conclusion(q, pref)
    BY DEF DecideProposals
  <2>2. Conclusion(q, pref) # Inconclusive
    BY <2>1
  <2> HIDE DEF q
  <2>3. QED BY <2>1, <2>2 DEF Conclusion
<1>5. Len(proposals) # 0
  <2>1. ASSUME Len(proposals) = 0
        PROVE  q = <<>>
    BY <1>1, <2>1 DEF Ranked
  <2>2. QED BY <1>4, <2>1
<1>6. Firsts(q, pref) # {}
  <2>1. \A i \in DOMAIN q : q[i].proposal.cause \in Cause
    BY <1>1, <1>2, <1>3 DEF Proposal
  <2>2. Len(proposals) = 2 => q[1].proposal.cause # q[2].proposal.cause
    BY <1>1, <1>3 DEF CausesDiffer
  <2>3. Len(proposals) \in 1..2 /\ DOMAIN q = 1..Len(proposals)
    BY <1>1, <1>5
  <2> HIDE DEF q
  <2>4. QED BY <1>1, <1>3, <2>1, <2>2, <2>3, RankingHasFirst
<1>7. first \in Firsts(q, pref)
  BY <1>6
<1>8. first \in DOMAIN proposals
  BY <1>1, <1>7 DEF Firsts
<1> HIDE DEF q, first, others
<1>9. QED BY <1>3, <1>4, <1>7, <1>8 DEF q

\* Where at most one proposal passes the gate, the comparison has no say in the ranking.
LEMMA OnePassIgnoresComparison ==
  ASSUME NEW k, NEW l,
         \A i, j \in DOMAIN Ranked : (Ranked[i].passes /\ Ranked[j].passes) => i = j
  PROVE  DecideProposals(k) = DecideProposals(l)
<1> DEFINE q == Ranked
<1>1. \A i \in DOMAIN q : \A j \in DOMAIN q \ {i} : Before(i, j, q, k) <=> Before(i, j, q, l)
  <2> SUFFICES ASSUME NEW i \in DOMAIN q, NEW j \in DOMAIN q \ {i}
               PROVE  Before(i, j, q, k) <=> Before(i, j, q, l)
    OBVIOUS
  <2>1. ~ (q[i].passes /\ q[j].passes)
    OBVIOUS
  <2> HIDE DEF q
  <2>2. CASE q[i].passes # q[j].passes
    BY <2>2 DEF Before
  <2>3. CASE q[i].passes = q[j].passes
    <3>1. ~ q[i].passes /\ ~ q[j].passes
      BY <2>1, <2>3
    <3>2. QED BY <2>3, <3>1 DEF Before
  <2>4. QED BY <2>2, <2>3
<1>2. Firsts(q, k) = Firsts(q, l)
  BY <1>1 DEF Firsts
<1>3. Conclusion(q, k) = Conclusion(q, l)
  BY <1>2 DEF Conclusion
<1>4. QED BY <1>3 DEF DecideProposals

\* What Python's rules conclude is an equipment signature or a recipe change that neither
\* history nor physics speaks against (hypothesis_engine.py _candidate_payload).
LEMMA RulesMean ==
  ASSUME facts \in Facts, facts.recipe # None => facts.recipe # facts.signature,
         DecideCandidates # Inconclusive
  PROVE  \E c \in Cause :
           /\ DecideCandidates = Supported(c) /\ c \in {facts.signature, facts.recipe}
           /\ facts.validated[c] # "contradicting" /\ ~ ConflictingPhysics
<1> DEFINE of(c) == CASE c = facts.signature -> [cause |-> c, basis |-> "signature", confidence |-> Confidence(c, 95)]
                      [] c = facts.recipe    -> [cause |-> c, basis |-> "recipe", confidence |-> Confidence(c, 80)]
                      [] OTHER -> [cause |-> c, basis |-> "knowledge", confidence |-> Confidence(c, 0)]
           passing == {k \in Candidates : PassesRules(k)}
           better(k, o) == k.confidence > o.confidence \/ (k.confidence = o.confidence /\ k.cause < o.cause)
           best == CHOOSE k \in passing : \A o \in passing \ {k} :
                     \/ k.confidence > o.confidence
                     \/ k.confidence = o.confidence /\ k.cause < o.cause
<1>1. passing # {} /\ DecideCandidates = Supported(best.cause)
  BY DEF DecideCandidates
<1>2. \A c \in Cause : Confidence(c, 95) \in Int /\ Confidence(c, 80) \in Int /\ Confidence(c, 0) \in Int
  <2> SUFFICES ASSUME NEW c \in Cause
               PROVE  Confidence(c, 95) \in Int /\ Confidence(c, 80) \in Int /\ Confidence(c, 0) \in Int
    OBVIOUS
  <2>1. facts.similar[c] \in Int
    BY DEF Facts, ScoreValue
  <2>2. QED BY <2>1 DEF Confidence
<1>3. ASSUME NEW k \in passing
      PROVE  /\ k.cause \in Cause /\ k.cause \in {facts.signature, facts.recipe}
             /\ k = of(k.cause) /\ k.confidence \in Int
             /\ facts.validated[k.cause] # "contradicting" /\ ~ ConflictingPhysics
  <2>1. PICK c \in Cause : k = of(c)
    BY <1>3 DEF Candidates
  <2>2. k.cause = c /\ k.confidence \in {Confidence(c, 95), Confidence(c, 80), Confidence(c, 0)}
    BY <2>1
  <2>3. k.basis = "recipe" => c = facts.recipe
    BY <2>1
  <2>4. PassesRules(k)
    BY <1>3
  <2> HIDE DEF of, passing
  <2>5. c \in {facts.signature, facts.recipe}
    BY <2>2, <2>3, <2>4 DEF PassesRules
  <2>6. facts.validated[k.cause] # "contradicting" /\ ~ ConflictingPhysics
    BY <2>4 DEF PassesRules
  <2>7. QED BY <1>2, <2>1, <2>2, <2>5, <2>6
<1> HIDE DEF of, passing
<1>4. best \in passing
  <2>1. \A k, l \in passing : k.cause = l.cause => k = l
    BY <1>3
  <2>2. PICK k \in passing : TRUE
    BY <1>1
  <2>3. CASE \A o \in passing \ {k} : better(k, o)
    BY <2>3
  <2>4. CASE \E o \in passing \ {k} : ~ better(k, o)
    <3>1. PICK o \in passing \ {k} : ~ better(k, o)
      BY <2>4
    <3>2. k.cause \in Nat /\ o.cause \in Nat /\ k.confidence \in Int /\ o.confidence \in Int
      BY <1>3, <3>1, MatrixAssumption
    <3>3. k.cause # o.cause
      BY <2>1, <3>1
    <3>4. better(o, k)
      BY <3>1, <3>2, <3>3
    <3>5. \A x \in passing \ {o} : x = k
      BY <1>3, <2>1, <3>1, <3>3
    <3>6. QED BY <3>1, <3>4, <3>5
  <2>5. QED BY <2>3, <2>4
<1> HIDE DEF best
<1>5. QED BY <1>1, <1>3, <1>4

-----------------------------------------------------------------------------
\* What SupportedIsGrounded says of the proposal p that was concluded from the Evidence K.
Grounded(p, K) ==
  LET on(type, lot) == {e \in Of(p.supports, type) : Labels(e, "lot") = {} \/ lot \in Labels(e, "lot")}
  IN /\ \E lot \in AllLabels(p.supports, "lot") :
          /\ on("exposure", lot) # {}
          /\ \E e \in on("process", lot) : Labels(e, "parameter") \cap Said(p.cause, "parameter") # {}
          /\ \E e \in on("outcome", lot) : Labels(e, "outcome") \cap Said(p.cause, "outcome") # {}
     /\ \A e \in Of(K, "negative") :
          \/ Labels(e, "parameter") \cap AllLabels(Of(p.supports, "process"), "parameter") = {}
          \/ Labels(e, "lot") # {} /\ Labels(e, "lot") \cap AllLabels(p.supports, "lot") = {}

\* It speaks of the state through the chosen proposal and the known Evidence alone.
LEMMA GroundedIsGrounded ==
  ASSUME SupportedNow' => (mode' = "llm" => Grounded(Chosen', known'))
  PROVE  SupportedIsGrounded'
BY DEF SupportedIsGrounded, Grounded

\* A cause whose proposal was confirmed rests on citations that meet on one Lot.
LEMMA ConfirmedIsGrounded ==
  ASSUME NEW p \in Proposal, NEW others, NEW s,
         Confirmation(Checked(p, known), Matrix(Checked(p, known)), others, s) = "supported"
  PROVE  Grounded(p, known)
<1> DEFINE c == Checked(p, known)
           on(type, lot) == {e \in Of(p.supports, type) : Labels(e, "lot") = {} \/ lot \in Labels(e, "lot")}
<1>1. c.cause = p.cause /\ c.supports = p.supports /\ c.contradicts = p.contradicts \cup ContradictedBy(p, known)
  BY CheckedKeeps
<1> HIDE DEF c
<1>2. /\ Of(c.supports, "exposure") # {} /\ ParameterClaim(c) = "supported"
      /\ OutcomeClaim(c) = "supported" /\ ScopeClaim(c) = "supported" /\ c.contradicts = {}
  BY ConfirmedMeans DEF c
<1>3. PICK lot \in AllLabels(p.supports, "lot") :
        \A e \in p.supports : Labels(e, "lot") # {} => lot \in Labels(e, "lot")
  <2>1. SharedLots(p.supports) # {}
    BY <1>1, <1>2 DEF ScopeClaim
  <2>2. QED BY <2>1 DEF SharedLots
<1>4. \A type : \A e \in Of(p.supports, type) : e \in on(type, lot)
  BY <1>3 DEF Of
<1>5. on("exposure", lot) # {}
  BY <1>1, <1>2, <1>4
<1>6. \E e \in on("process", lot) : Labels(e, "parameter") \cap Said(p.cause, "parameter") # {}
  <2>1. \E e \in Of(p.supports, "process") : Labels(e, "parameter") \cap Said(p.cause, "parameter") # {}
    BY <1>1, <1>2 DEF ParameterClaim
  <2>2. QED BY <1>4, <2>1
<1>7. \E e \in on("outcome", lot) : Labels(e, "outcome") \cap Said(p.cause, "outcome") # {}
  <2>1. Said(p.cause, "outcome") \cap AllLabels(Of(p.supports, "outcome"), "outcome") # {}
    BY <1>1, <1>2 DEF OutcomeClaim
  <2>2. \E e \in Of(p.supports, "outcome") : Labels(e, "outcome") \cap Said(p.cause, "outcome") # {}
    BY <2>1 DEF AllLabels
  <2>3. QED BY <1>4, <2>2
<1>8. ASSUME NEW e \in Of(known, "negative")
      PROVE  \/ Labels(e, "parameter") \cap AllLabels(Of(p.supports, "process"), "parameter") = {}
             \/ Labels(e, "lot") # {} /\ Labels(e, "lot") \cap AllLabels(p.supports, "lot") = {}
  <2>1. e \notin ContradictedBy(p, known)
    BY <1>1, <1>2
  <2>2. QED BY <1>8, <2>1 DEF ContradictedBy
<1>9. QED BY <1>3, <1>5, <1>6, <1>7, <1>8 DEF Grounded

\* A confirmed impact Lot has Evidence of its own in every Lane.
LEMMA ConfirmedImpactHasLanes ==
  ASSUME NEW c, NEW lot, ImpactConfirmed(c, known, lot)
  PROVE  \A type \in Lane : \E e \in Of(known, type) : lot \in Labels(e, "lot")
<1> DEFINE here == {e \in known : lot \in Labels(e, "lot")}
<1>1. /\ \E e \in Of(here, "exposure") : TRUE
      /\ \E e \in Of(here, "process") : TRUE
      /\ AllLabels(Of(here, "outcome"), "outcome") # {}
  BY DEF ImpactConfirmed
<1>2. \E e \in Of(here, "outcome") : TRUE
  BY <1>1 DEF AllLabels
<1>3. \A type : \A e \in Of(here, type) : e \in Of(known, type) /\ lot \in Labels(e, "lot")
  BY DEF Of
<1> HIDE DEF here
<1>4. QED BY <1>1, <1>2, <1>3 DEF Lane

-----------------------------------------------------------------------------
\* Without a conclusion there is nothing to justify, and before the decision nothing to repeat.
LEMMA NothingConcluded ==
  ASSUME finding'.status # "supported", pc' # "done" \/ ComparisonHasNoSay'
  PROVE  GateProperties'
BY DEF GateProperties, FailureNeverDecides, OpenWithoutSearch, ComparisonHasNoSay, MatrixStandsIn,
       NoLiveRival, SupportedIsGrounded, KnowledgeNeverDecides, SupportedNow

\* What Python makes of the proposals depends on the proposals, the Evidence and the search.
LEMMA RankingIsKept ==
  ASSUME UNCHANGED <<proposals, known>>
  PROVE  /\ PythonPreferred' = PythonPreferred
         /\ \A i : MatrixScore(i)' = MatrixScore(i)
         /\ UNCHANGED <<facts, search>> => Ranked' = Ranked /\ \A pref : DecideProposals(pref)' = DecideProposals(pref)
<1>1. \A i : Candidate(i)' = Candidate(i)
  BY DEF Candidate
<1>2. \A i : MatrixScore(i)' = MatrixScore(i)
  BY <1>1 DEF MatrixScore
<1>3. PythonPreferred' = PythonPreferred
  BY <1>2 DEF PythonPreferred
<1>4. ASSUME UNCHANGED <<facts, search>>
      PROVE  Ranked' = Ranked /\ \A pref : DecideProposals(pref)' = DecideProposals(pref)
  <2>1. ConflictingPhysics' = ConflictingPhysics
    BY <1>4 DEF ConflictingPhysics
  <2>2. \A p, m : PassesGate(p, m)' = PassesGate(p, m)
    BY <1>4, <2>1 DEF PassesGate
  <2>3. \A p, m : Weighed(p, m)' = Weighed(p, m)
    BY <2>2 DEF Weighed
  <2>4. Ranked' = Ranked
    BY <1>1, <2>3 DEF Ranked
  <2>5. \A c : Supported(c)' = Supported(c)
    BY DEF Supported
  <2>6. \A q, pref : Conclusion(q, pref)' = Conclusion(q, pref)
    BY <1>4, <2>5 DEF Conclusion
  <2>7. \A pref : DecideProposals(pref)' = DecideProposals(pref)
    BY <2>4, <2>6 DEF DecideProposals
  <2>8. QED BY <2>4, <2>7
<1>5. QED BY <1>2, <1>3, <1>4

\* The agent starts with nothing asked and nothing concluded.
LEMMA InitGateInv == Init => GateInv
<1> SUFFICES ASSUME Init
             PROVE  GateInv
  OBVIOUS
<1>1. proposals \in Seq(Proposal) /\ Len(proposals) = 0
  BY DEF Init
<1>2. TypeOK
  <2>1. mode \in {"llm", "deterministic"} /\ known \in Registers /\ facts \in Facts
    BY DEF Init
  <2>2. /\ pc \in {"generate", "decide"} /\ attempt = 1 /\ preferred = 0 /\ challenges = {}
        /\ search = "not_searched" /\ failed = {}
        /\ finding = [status |-> "none", cause |-> None, lots |-> {}]
    BY DEF Init
  <2>3. finding \in [status : {"none", "supported", "inconclusive"}, cause : Cause \cup {None}, lots : SUBSET Lot]
    BY <2>2
  <2>4. challenges \subseteq Challenge
    BY <2>2
  <2>5. attempt \in 1..OutputAttempts
    BY <2>2 DEF OutputAttempts
  <2>6. failed \subseteq {"generate", "compare", "challenge"}
    BY <2>2
  <2>7. QED BY <1>1, <2>1, <2>2, <2>3, <2>4, <2>5, <2>6 DEF TypeOK
<1>3. RulesDiffer /\ CausesDiffer /\ NothingSearchedYet /\ SearchIsHonest /\ ComparisonIsPythons
  BY <1>1 DEF Init, RulesDiffer, CausesDiffer, NothingSearchedYet, SearchIsHonest, ComparisonIsPythons
<1>4. finding.status = "none" /\ pc # "done"
  BY DEF Init
<1>5. GateProperties
  BY <1>4 DEF GateProperties, FailureNeverDecides, OpenWithoutSearch, ComparisonHasNoSay, MatrixStandsIn,
              NoLiveRival, SupportedIsGrounded, KnowledgeNeverDecides, SupportedNow
<1>6. QED BY <1>2, <1>3, <1>4, <1>5 DEF GateInv

\* A valid output of the model: its proposals name different causes.
LEMMA GenerateKeeps ==
  ASSUME GateInv, Generate
  PROVE  GateInv'
<1>1. PICK n \in 0..2 : \E ps \in [1..n -> Proposable] :
        /\ n = 2 => ps[1].cause # ps[2].cause
        /\ proposals' = ps
        /\ pc' = (CASE n = 0 -> "decide" [] n = 1 -> "challenge" [] OTHER -> "compare")
  BY DEF Generate
<1>2. PICK ps \in [1..n -> Proposable] :
        /\ n = 2 => ps[1].cause # ps[2].cause
        /\ proposals' = ps
        /\ pc' = (CASE n = 0 -> "decide" [] n = 1 -> "challenge" [] OTHER -> "compare")
  BY <1>1
<1>3. known \subseteq Evidence
  BY GateAssumption DEF GateInv, TypeOK
<1>4. Proposable \subseteq Proposal
  BY <1>3 DEF Proposable, Proposal
<1>5. ps \in Seq(Proposal) /\ Len(ps) = n
  BY <1>4
<1>6. TypeOK'
  BY <1>2, <1>5 DEF Generate, GateInv, TypeOK, OutputAttempts
<1>7. RulesDiffer' /\ CausesDiffer' /\ NothingSearchedYet' /\ SearchIsHonest' /\ ComparisonIsPythons'
  BY <1>2, <1>5 DEF Generate, GateInv, RulesDiffer, CausesDiffer, NothingSearchedYet, SearchIsHonest,
                    ComparisonIsPythons
<1>8. finding'.status = "none" /\ pc' # "done"
  BY <1>2 DEF Generate, GateInv
<1>9. QED BY <1>6, <1>7, <1>8, NothingConcluded DEF GateInv

\* A call for proposals that fails, or is answered with something invalid, leaves none.
LEMMA GenerateFailureKeeps ==
  ASSUME GateInv, GenerateInvalid \/ GenerateFails
  PROVE  GateInv'
<1> USE DEF GenerateInvalid, GenerateFails, OutputAttempts
<1>1. TypeOK'
  <2>1. /\ UNCHANGED <<mode, known, facts, proposals, preferred, challenges, search, finding>>
        /\ pc' \in {"generate", "decide"}
    BY DEF GateInv, TypeOK
  <2>2. attempt \in 1..2 /\ failed \subseteq {"generate", "compare", "challenge"}
    BY DEF GateInv, TypeOK
  <2>3. attempt' \in 1..2
    BY <2>2
  <2>4. failed' \subseteq {"generate", "compare", "challenge"}
    BY <2>2
  <2>5. QED BY <2>1, <2>3, <2>4 DEF GateInv, TypeOK
<1>2. RulesDiffer' /\ CausesDiffer' /\ NothingSearchedYet' /\ SearchIsHonest'
  BY DEF GateInv, RulesDiffer, CausesDiffer, NothingSearchedYet, SearchIsHonest
<1>3. finding'.status = "none" /\ pc' # "done"
  BY DEF GateInv
<1>4. ComparisonIsPythons'
  BY RankingIsKept DEF GateInv, ComparisonIsPythons
<1>5. QED BY <1>1, <1>2, <1>3, <1>4, NothingConcluded DEF GateInv

\* A preference decides nothing yet.
LEMMA CompareKeeps ==
  ASSUME GateInv, Compare \/ CompareFails
  PROVE  GateInv'
<1> USE DEF Compare, CompareFails
<1>1. PythonPreferred \in 0..2
  <2>1. PythonPreferred \in {0, 1, 2}
    BY Zenon DEF PythonPreferred
  <2>2. QED BY <2>1
<1>2. TypeOK'
  BY <1>1 DEF GateInv, TypeOK
<1>3. RulesDiffer' /\ CausesDiffer' /\ NothingSearchedYet' /\ SearchIsHonest'
  BY DEF GateInv, RulesDiffer, CausesDiffer, NothingSearchedYet, SearchIsHonest
<1>4. finding'.status = "none" /\ pc' # "done"
  BY DEF GateInv
<1>5. ComparisonIsPythons'
  BY RankingIsKept DEF GateInv, ComparisonIsPythons
<1>6. QED BY <1>2, <1>3, <1>4, <1>5, NothingConcluded DEF GateInv

\* Without Lanes to compare every proposal counts as challenged.
LEMMA SkipKeeps ==
  ASSUME GateInv, SkipChallenge
  PROVE  GateInv'
<1>1. DOMAIN proposals \subseteq {1, 2}
  BY LenProperties DEF GateInv, TypeOK
<1>2. challenges' \subseteq Challenge
  <2>1. challenges' = {[of |-> i, status |-> "resolved", alternative |-> FALSE] : i \in DOMAIN proposals}
    BY DEF SkipChallenge
  <2>2. \A i \in {1, 2} : [of |-> i, status |-> "resolved", alternative |-> FALSE] \in Challenge
    BY DEF Challenge
  <2>3. QED BY <1>1, <2>1, <2>2
<1>3. TypeOK'
  BY <1>2 DEF SkipChallenge, GateInv, TypeOK
<1>4. RulesDiffer' /\ CausesDiffer' /\ NothingSearchedYet'
  BY DEF SkipChallenge, GateInv, RulesDiffer, CausesDiffer, NothingSearchedYet
<1>5. SearchIsHonest'
  BY DEF SkipChallenge, GateInv, NothingSearchedYet, SearchIsHonest
<1>6. finding'.status = "none" /\ pc' # "done"
  BY DEF SkipChallenge, GateInv
<1>7. ComparisonIsPythons'
  BY RankingIsKept DEF SkipChallenge, GateInv, ComparisonIsPythons
<1>8. QED BY <1>3, <1>4, <1>5, <1>6, <1>7, NothingConcluded DEF GateInv

\* Challenges that were made are what the status of the search sums up.
LEMMA ChallengeKeeps ==
  ASSUME GateInv, ChallengeProposals
  PROVE  GateInv'
<1>1. PICK asked \in SUBSET DOMAIN proposals :
        \E answer \in [asked -> [status : {"open", "blocked", "resolved"}, alternative : BOOLEAN]] :
          challenges' = {[of |-> i, status |-> answer[i].status, alternative |-> answer[i].alternative] : i \in asked}
  BY DEF ChallengeProposals
<1>2. proposals \in Seq(Proposal) /\ Len(proposals) <= 2
  BY DEF GateInv, TypeOK
<1>3. DOMAIN proposals \subseteq {1, 2}
  BY <1>2, LenProperties
<1>4. challenges' \in SUBSET Challenge
  <2>1. PICK answer \in [asked -> [status : {"open", "blocked", "resolved"}, alternative : BOOLEAN]] :
          challenges' = {[of |-> i, status |-> answer[i].status, alternative |-> answer[i].alternative] : i \in asked}
    BY <1>1
  <2>2. QED BY <1>3, <2>1 DEF Challenge
<1>5. search' = SearchStatus(challenges', proposals, {"lane"}, {})
  BY DEF ChallengeProposals
<1>6. /\ search' \in {"not_searched", "blocked_by_missing_data", "alternative_found", "unresolved",
                      "alternatives_eliminated"}
      /\ search' = "alternatives_eliminated" =>
           /\ challenges' # {} /\ \A ch \in challenges' : ch.status = "resolved" /\ ~ ch.alternative
           /\ Len(proposals) = 2 /\ HasCriticalConflict(Matrix(proposals[2]))
  <2> DEFINE chs == challenges'
             s == search'
  <2>1. chs \in SUBSET Challenge /\ s = SearchStatus(chs, proposals, {"lane"}, {})
    BY <1>4, <1>5
  <2> HIDE DEF chs, s
  <2>2. QED BY <1>2, <2>1, SearchStatusMeans DEF chs, s
<1>7. TypeOK'
  BY <1>4, <1>6 DEF ChallengeProposals, GateInv, TypeOK
<1>8. RulesDiffer' /\ CausesDiffer' /\ NothingSearchedYet'
  BY DEF ChallengeProposals, GateInv, RulesDiffer, CausesDiffer, NothingSearchedYet
<1>9. SearchIsHonest'
  BY <1>6 DEF ChallengeProposals, GateInv, NothingSearchedYet, SearchIsHonest
<1>10. finding'.status = "none" /\ pc' # "done"
  BY DEF ChallengeProposals, GateInv
<1>11. ComparisonIsPythons'
  BY RankingIsKept DEF ChallengeProposals, GateInv, ComparisonIsPythons
<1>12. QED BY <1>7, <1>8, <1>9, <1>10, <1>11, NothingConcluded DEF GateInv

\* A challenge that fails leaves the search unresolved.
LEMMA ChallengeFailureKeeps ==
  ASSUME GateInv, ChallengeInvalid \/ ChallengeFails
  PROVE  GateInv'
<1> USE DEF ChallengeInvalid, ChallengeFails, SearchAfter, OutputAttempts
<1>1. TypeOK'
  <2>1. /\ UNCHANGED <<mode, known, facts, proposals, preferred, challenges, finding>>
        /\ pc' \in {"challenge", "decide"} /\ search' \in {search, "unresolved"}
    BY DEF GateInv, TypeOK
  <2>2. attempt \in 1..2 /\ failed \subseteq {"generate", "compare", "challenge"}
    BY DEF GateInv, TypeOK
  <2>3. attempt' \in 1..2
    BY <2>2
  <2>4. failed' \subseteq {"generate", "compare", "challenge"}
    BY <2>2
  <2>5. QED BY <2>1, <2>3, <2>4 DEF GateInv, TypeOK
<1>2. RulesDiffer' /\ CausesDiffer' /\ NothingSearchedYet' /\ SearchIsHonest'
  BY DEF GateInv, RulesDiffer, CausesDiffer, NothingSearchedYet, SearchIsHonest
<1>3. finding'.status = "none" /\ pc' # "done"
  BY DEF GateInv
<1>4. ComparisonIsPythons'
  BY RankingIsKept DEF GateInv, ComparisonIsPythons
<1>5. QED BY <1>1, <1>2, <1>3, <1>4, NothingConcluded DEF GateInv

-----------------------------------------------------------------------------
\* Where Lanes had to be searched at most one proposal passes the gate, and the decision is
\* the same whichever the comparison prefers.
LEMMA DecisionIgnoresComparison ==
  ASSUME GateInv, Decide
  PROVE  ComparisonHasNoSay'
<1> SUFFICES ASSUME mode = "llm", facts.lanes
             PROVE  \A pref \in 0..2 : finding' = DecideProposals(pref)'
  BY DEF ComparisonHasNoSay, Decide
<1>1. /\ UNCHANGED <<known, facts, proposals, search>>
      /\ finding' = DecideProposals(preferred)
  BY DEF Decide
<1>2. /\ Len(proposals) \in Nat /\ Len(proposals) <= 2 /\ DOMAIN proposals = 1..Len(proposals)
      /\ \A i \in DOMAIN proposals : proposals[i] \in Proposal
  BY LenProperties, ElementOfSeq DEF GateInv, TypeOK
<1>3. DOMAIN Ranked = DOMAIN proposals
  BY DEF Ranked
<1>4. \A i \in DOMAIN Ranked :
        Ranked[i].passes => /\ search = "alternatives_eliminated"
                            /\ ~ HasCriticalConflict(Matrix(Candidate(i)))
  BY <1>2, <1>3, RankedIs
<1>5. \A i, j \in DOMAIN Ranked : (Ranked[i].passes /\ Ranked[j].passes) => i = j
  <2>1. CASE search # "alternatives_eliminated"
    BY <1>4, <2>1
  <2>2. CASE search = "alternatives_eliminated"
    <3>1. Len(proposals) = 2 /\ HasCriticalConflict(Matrix(proposals[2]))
      BY <2>2 DEF GateInv, SearchIsHonest
    <3>2. proposals[2] \in Proposal
      BY <1>2, <3>1
    <3>3. HasCriticalConflict(Matrix(Candidate(2)))
      BY <3>1, <3>2, ConflictsRemain DEF Candidate
    <3>4. \A i \in DOMAIN Ranked : Ranked[i].passes => i = 1
      BY <1>2, <1>3, <1>4, <3>1, <3>3
    <3>5. QED BY <3>4
  <2>3. QED BY <2>1, <2>2
<1>6. \A pref : DecideProposals(pref) = DecideProposals(preferred)
  BY <1>5, OnePassIgnoresComparison
<1>7. \A pref : DecideProposals(pref)' = DecideProposals(pref)
  BY <1>1, RankingIsKept
<1>8. QED BY <1>1, <1>6, <1>7

\* What comes before a proposal that passes the gate passes it too, and the other one was
\* not preferred.
LEMMA FirstPassesToo ==
  ASSUME NEW q, NEW k, NEW i, NEW pref, k # i, Before(k, i, q, pref),
         q[k].passes \in BOOLEAN, q[i].passes \in BOOLEAN, q[i].passes
  PROVE  q[k].passes /\ pref # i
<1>1. ASSUME ~ q[k].passes
      PROVE  FALSE
  <2>1. q[k].passes # q[i].passes
    BY <1>1
  <2>2. QED BY <1>1, <2>1 DEF Before
<1>2. ASSUME q[k].passes, pref = i
      PROVE  FALSE
  <2>1. q[k].passes = q[i].passes
    BY <1>2
  <2>2. (q[k].passes /\ pref = k) = FALSE /\ (q[i].passes /\ pref = i) = TRUE
    BY <1>2
  <2>3. QED BY <1>2, <2>1, <2>2 DEF Before
<1>3. QED BY <1>1, <1>2

\* Where the comparison failed, the first of the ranking has the strongest matrix of those
\* that pass the gate.
LEMMA FirstIsStrongest ==
  ASSUME GateInv, "compare" \in failed, NEW k \in DOMAIN proposals, k \in Firsts(Ranked, preferred),
         NEW i \in DOMAIN proposals, Ranked[i].passes
  PROVE  MatrixScore(i) <= MatrixScore(k)
<1>1. Len(proposals) = 2 /\ preferred = PythonPreferred
  BY DEF GateInv, ComparisonIsPythons
<1>2. /\ DOMAIN proposals = {1, 2} /\ DOMAIN Ranked = DOMAIN proposals
      /\ \A j \in DOMAIN proposals : proposals[j] \in Proposal
  <2>1. DOMAIN proposals = 1..2
    BY <1>1, LenProperties DEF GateInv, TypeOK
  <2>2. DOMAIN Ranked = DOMAIN proposals
    BY DEF Ranked
  <2>3. \A j \in 1..2 : proposals[j] \in Proposal
    BY <1>1, ElementOfSeq DEF GateInv, TypeOK
  <2>4. QED BY <2>1, <2>2, <2>3
<1>3. MatrixScore(1) \in Int /\ MatrixScore(2) \in Int
  BY ScoreIsANumber DEF MatrixScore
<1>4. CASE i = k
  BY <1>2, <1>3, <1>4
<1>5. CASE i # k
  <2>1. Before(k, i, Ranked, preferred)
    BY <1>2, <1>5 DEF Firsts
  <2>2. Ranked[k].passes \in BOOLEAN /\ Ranked[i].passes \in BOOLEAN
    BY <1>2, RankedIs
  <2>3. Ranked[k].passes /\ preferred # i
    BY <1>5, <2>1, <2>2, FirstPassesToo
  <2>4. QED BY <1>1, <1>2, <1>3, <1>5, <2>3 DEF PythonPreferred
<1>6. QED BY <1>4, <1>5

\* A conclusion on a model's proposal was confirmed after an honest search.
LEMMA DecidedByModel ==
  ASSUME GateInv, Decide, mode = "llm", DecideProposals(preferred) # Inconclusive
  PROVE  GateProperties' /\ finding'.cause \in Cause /\ finding'.lots \subseteq Lot /\ finding'.status = "supported"
<1>1. /\ proposals \in Seq(Proposal) /\ Len(proposals) <= 2 /\ Len(proposals) \in Nat
      /\ DOMAIN proposals = 1..Len(proposals)
  BY LenProperties DEF GateInv, TypeOK
<1>k. PICK k \in DOMAIN proposals :
        \E others :
          /\ k \in Firsts(Ranked, preferred)
          /\ DecideProposals(preferred) = Supported(proposals[k].cause)
          /\ Confirmation(Checked(proposals[k], known), Matrix(Checked(proposals[k], known)), others, search) = "supported"
  BY <1>1, ConclusionMeans DEF GateInv, Candidate
<1>2. PICK others :
        /\ k \in Firsts(Ranked, preferred)
        /\ DecideProposals(preferred) = Supported(proposals[k].cause)
        /\ Confirmation(Checked(proposals[k], known), Matrix(Checked(proposals[k], known)), others, search) = "supported"
  BY <1>k
<1>3. proposals[k] \in Proposal
  BY <1>1, <1>2, ElementOfSeq
<1>4. search = "alternatives_eliminated" /\ ~ HasCriticalConflict(Matrix(Checked(proposals[k], known)))
  BY <1>2, ConfirmedMeans
<1>5. /\ UNCHANGED <<mode, known, facts, proposals, challenges, search, failed>>
      /\ finding' = Supported(proposals[k].cause)
  BY <1>2 DEF Decide
<1>6. finding'.status = "supported" /\ finding'.cause = proposals[k].cause /\ finding'.lots \subseteq Lot
  BY <1>5 DEF Supported
<1>7. \A i \in DOMAIN proposals : proposals[i].cause = proposals[k].cause => i = k
  BY <1>1 DEF GateInv, CausesDiffer
<1>8. FailureNeverDecides'
  <2>1. OpenWithoutSearch'
    <3>1. failed \subseteq {"compare"}
      BY <1>4 DEF GateInv, SearchIsHonest
    <3>2. proposals # <<>>
      BY <1>1
    <3>3. QED BY <1>5, <3>1, <3>2 DEF OpenWithoutSearch
  <2>2. MatrixStandsIn'
    <3>1. Ranked' = Ranked /\ \A i : MatrixScore(i)' = MatrixScore(i)
      BY <1>5, RankingIsKept
    <3>2. ASSUME "compare" \in failed
          PROVE  \A i \in DOMAIN proposals : Ranked[i].passes => MatrixScore(i) <= MatrixScore(k)
      BY <1>2, <3>2, FirstIsStrongest
    <3>3. QED BY <1>5, <1>6, <3>1, <3>2 DEF MatrixStandsIn
  <2>3. QED BY <2>1, <2>2, DecisionIgnoresComparison DEF FailureNeverDecides
<1>9. NoLiveRival'
  <2>1. \A ch \in challenges : ch.status = "resolved" /\ ~ ch.alternative
    BY <1>4 DEF GateInv, SearchIsHonest
  <2>2. ASSUME facts.lanes
        PROVE  /\ challenges # {} /\ Len(proposals) = 2
               /\ \A i \in DOMAIN proposals :
                    proposals[i].cause # proposals[k].cause => HasCriticalConflict(Matrix(proposals[i]))
    <3>1. challenges # {} /\ Len(proposals) = 2 /\ HasCriticalConflict(Matrix(proposals[2]))
      BY <1>4, <2>2 DEF GateInv, SearchIsHonest
    <3>2. k # 2
      BY <1>3, <1>4, <3>1, ConflictsRemain
    <3>3. QED BY <1>1, <3>1, <3>2
  <2>3. QED BY <1>5, <1>6, <2>1, <2>2 DEF NoLiveRival
<1>10. SupportedIsGrounded'
  <2>1. Chosen' = proposals[k]
    <3>1. \A p : (p \in {proposals'[i] : i \in DOMAIN proposals'} /\ p.cause = finding'.cause) <=> p = proposals[k]
      BY <1>5, <1>6, <1>7
    <3>2. QED BY <3>1 DEF Chosen
  <2>2. known' = known
    BY <1>5
  <2>3. Grounded(proposals[k], known)
    BY <1>2, <1>3, ConfirmedIsGrounded
  <2>4. QED BY <2>1, <2>2, <2>3, GroundedIsGrounded
<1>11. KnowledgeNeverDecides'
  BY <1>5 DEF KnowledgeNeverDecides
<1>12. QED BY <1>3, <1>6, <1>8, <1>9, <1>10, <1>11 DEF GateProperties, Proposal

\* A conclusion of Python's own rules has a signature or a recipe change behind it.
LEMMA DecidedByRules ==
  ASSUME GateInv, Decide, mode = "deterministic", DecideCandidates # Inconclusive
  PROVE  GateProperties' /\ finding'.cause \in Cause /\ finding'.lots \subseteq Lot /\ finding'.status = "supported"
<1>1. PICK c \in Cause :
        /\ DecideCandidates = Supported(c) /\ c \in {facts.signature, facts.recipe}
        /\ facts.validated[c] # "contradicting" /\ ~ ConflictingPhysics
  BY RulesMean DEF GateInv, TypeOK, RulesDiffer
<1>2. /\ UNCHANGED <<mode, known, facts>>
      /\ finding' = Supported(c)
  BY <1>1 DEF Decide
<1>3. /\ finding'.status = "supported" /\ finding'.cause = c
      /\ finding'.lots = {l \in Lot \ {SourceLot} : ImpactConfirmed(c, known, l)}
  BY <1>2 DEF Supported
<1>4. \A l \in finding'.lots : \A type \in Lane : \E e \in Of(known, type) : l \in Labels(e, "lot")
  BY <1>3, ConfirmedImpactHasLanes
<1>5. ~ ConflictingPhysics'
  BY <1>1, <1>2 DEF ConflictingPhysics
<1>6. KnowledgeNeverDecides'
  BY <1>1, <1>2, <1>3, <1>4, <1>5 DEF KnowledgeNeverDecides
<1>7. FailureNeverDecides' /\ NoLiveRival' /\ SupportedIsGrounded'
  BY <1>2 DEF FailureNeverDecides, OpenWithoutSearch, ComparisonHasNoSay, MatrixStandsIn, NoLiveRival,
              SupportedIsGrounded
<1>8. QED BY <1>3, <1>6, <1>7 DEF GateProperties

\* The decision preserves the invariant.
LEMMA DecideKeeps ==
  ASSUME GateInv, Decide
  PROVE  GateInv'
<1>1. /\ pc' = "done" /\ finding' = (IF mode = "llm" THEN DecideProposals(preferred) ELSE DecideCandidates)
      /\ UNCHANGED <<mode, known, facts, attempt, proposals, preferred, challenges, search, failed>>
  BY DEF Decide
<1>2. mode \in {"llm", "deterministic"}
  BY DEF GateInv, TypeOK
<1>3. /\ GateProperties'
      /\ finding' \in [status : {"none", "supported", "inconclusive"}, cause : Cause \cup {None}, lots : SUBSET Lot]
  <2>1. CASE finding' = Inconclusive
    BY <2>1, NothingConcluded, DecisionIgnoresComparison DEF Inconclusive
  <2>2. CASE finding' # Inconclusive
    <3>1. GateProperties' /\ finding'.cause \in Cause /\ finding'.lots \subseteq Lot /\ finding'.status = "supported"
      BY <1>1, <1>2, <2>2, DecidedByModel, DecidedByRules
    <3>2. PICK c : finding' = Supported(c)
      BY <1>1, <2>2, <1>2, ConclusionMeans, RulesMean DEF GateInv, TypeOK, RulesDiffer
    <3>3. QED BY <3>1, <3>2 DEF Supported
  <2>3. QED BY <2>1, <2>2
<1>4. TypeOK'
  BY <1>1, <1>3 DEF GateInv, TypeOK
<1>5. RulesDiffer' /\ CausesDiffer' /\ NothingSearchedYet' /\ SearchIsHonest'
  BY <1>1 DEF GateInv, RulesDiffer, CausesDiffer, NothingSearchedYet, SearchIsHonest
<1>6. ComparisonIsPythons'
  BY <1>1, RankingIsKept DEF GateInv, ComparisonIsPythons
<1>7. QED BY <1>1, <1>3, <1>4, <1>5, <1>6 DEF GateInv

-----------------------------------------------------------------------------
\* Every step of the reasoning agent preserves the invariant.
LEMMA NextKeepsGateInv == GateInv /\ [Next]_vars => GateInv'
<1> SUFFICES ASSUME GateInv, [Next]_vars
             PROVE  GateInv'
  OBVIOUS
<1>1. CASE UNCHANGED vars
  <2>1. TypeOK'
    BY <1>1 DEF vars, GateInv, TypeOK
  <2>2. RulesDiffer' /\ CausesDiffer' /\ NothingSearchedYet' /\ SearchIsHonest' /\ ComparisonIsPythons'
    BY <1>1, RankingIsKept DEF vars, GateInv, RulesDiffer, CausesDiffer, NothingSearchedYet, SearchIsHonest,
                               ComparisonIsPythons
  <2>3. FailureNeverDecides' /\ NoLiveRival'
    <3>1. /\ Ranked' = Ranked /\ \A i : MatrixScore(i)' = MatrixScore(i)
          /\ \A pref : DecideProposals(pref)' = DecideProposals(pref)
      BY <1>1, RankingIsKept DEF vars
    <3>2. OpenWithoutSearch' /\ NoLiveRival'
      BY <1>1 DEF vars, GateInv, GateProperties, FailureNeverDecides, OpenWithoutSearch, NoLiveRival, SupportedNow
    <3>3. ComparisonHasNoSay'
      BY <1>1, <3>1 DEF vars, GateInv, GateProperties, FailureNeverDecides, ComparisonHasNoSay
    <3>4. MatrixStandsIn'
      BY <1>1, <3>1 DEF vars, GateInv, GateProperties, FailureNeverDecides, MatrixStandsIn, SupportedNow
    <3>5. QED BY <3>2, <3>3, <3>4 DEF FailureNeverDecides
  <2>4. SupportedIsGrounded'
    <3>1. UNCHANGED <<mode, known, proposals, finding>> /\ (SupportedNow /\ mode = "llm" => Grounded(Chosen, known))
      BY <1>1 DEF vars, GateInv, GateProperties, SupportedIsGrounded, Grounded
    <3>2. Chosen' = Chosen /\ (SupportedNow' <=> SupportedNow)
      BY <3>1 DEF Chosen, SupportedNow
    <3>3. QED BY <3>1, <3>2, GroundedIsGrounded
  <2>5. KnowledgeNeverDecides'
    BY <1>1 DEF vars, GateInv, GateProperties, KnowledgeNeverDecides, SupportedNow, ConflictingPhysics
  <2>6. pc' # "done" => finding'.status = "none"
    BY <1>1 DEF vars, GateInv
  <2>7. QED BY <2>1, <2>2, <2>3, <2>4, <2>5, <2>6 DEF GateInv, GateProperties
<1>2. CASE Next
  BY <1>2, GenerateKeeps, GenerateFailureKeeps, CompareKeeps, SkipKeeps, ChallengeKeeps,
     ChallengeFailureKeeps, DecideKeeps DEF Next
<1>3. QED BY <1>1, <1>2

\* The invariant holds in every reachable state of the reasoning agent.
THEOREM GateInvariance == Spec => []GateInv
BY InitGateInv, NextKeepsGateInv, PTL DEF Spec

\* A generation or a challenge that failed leaves the cause open; a comparison that failed
\* has no say where Lanes were searched, and elsewhere leaves the choice to the score of the
\* matrices (rca_reasoning_agent.py analyze, causal_candidate_comparison.py).
THEOREM FailuresNeverDecide == Spec => []FailureNeverDecides
<1>1. GateInv => FailureNeverDecides
  BY DEF GateInv, GateProperties
<1>2. QED BY GateInvariance, <1>1, PTL

\* No conclusion leaves a challenge open or a rival without a contradiction of its own
\* (causal_adversarial.py, causal_confirmation.py).
THEOREM RivalsAreEliminated == Spec => []NoLiveRival
<1>1. GateInv => NoLiveRival
  BY DEF GateInv, GateProperties
<1>2. QED BY GateInvariance, <1>1, PTL

\* A concluded cause rests on an exposure, an anomaly and an outcome that meet on one Lot,
\* and no normal signal speaks against it (causal_evidence_matrix.py).
THEOREM ConclusionsAreGrounded == Spec => []SupportedIsGrounded
<1>1. GateInv => SupportedIsGrounded
  BY DEF GateInv, GateProperties
<1>2. QED BY GateInvariance, <1>1, PTL

\* Without a model, similar cases of the Knowledge base alone never conclude
\* (hypothesis_engine.py _candidate_payload).
THEOREM KnowledgeIsNoProof == Spec => []KnowledgeNeverDecides
<1>1. GateInv => KnowledgeNeverDecides
  BY DEF GateInv, GateProperties
<1>2. QED BY GateInvariance, <1>1, PTL

-----------------------------------------------------------------------------
(***************************************************************************)
(* The fixed workflow, for every plan a model may propose and every        *)
(* outcome of the agents.                                                  *)
(***************************************************************************)

\* The job's question and status.
Jobs == [lot : BOOLEAN, subject : BOOLEAN, status : {"pending", "running", "completed", "failed"}]

\* The plan is a graph of tasks as soon as there is one.
PlanOK ==
  /\ IsPlan(plan)
  /\ plan # <<>> => Accepted(plan)
  /\ step = "planning" => plan = <<>>

\* What was completed is what was recorded, once, and its dependencies were completed, too.
BooksOK ==
  /\ IsList(findings)
  /\ completed \subseteq Ids(plan) /\ completed = Recorded
  /\ \A i, j \in DOMAIN findings : findings[i].task = findings[j].task => i = j
  /\ \A i \in DOMAIN plan : plan[i].id \in completed => ToSet(plan[i].deps) \subseteq completed

\* While nothing has failed: the status that each task has.
Running == step \in {"round", "tasks", "report", "done"}
StatusNow ==
  [j \in Ids(plan) |-> IF j \in completed THEN "completed" ELSE IF j = current THEN "running" ELSE "pending"]

\* While nothing has failed the statuses tell of what is completed and of the current task.
RoundOK ==
  /\ step \in {"planning", "round", "tasks", "report", "done", "raised"}
  /\ job \in Jobs
  /\ step # "raised" => failure = "none"
  /\ Running => status = StatusNow
  /\ step # "tasks" => current = NoTask
  /\ step = "tasks" =>
       /\ ready \subseteq DOMAIN plan /\ ready # {}
       /\ \A i \in ready : plan[i].id \notin completed /\ ToSet(plan[i].deps) \subseteq completed
       /\ current # NoTask => \E i \in ready : plan[i].id = current

\* A finding bears the name of its task's agent and kind.
FindingsFit ==
  \A i \in DOMAIN findings :
    findings[i].agent = TaskOf(findings[i].task).agent /\ findings[i].kind = TaskOf(findings[i].task).kind

-----------------------------------------------------------------------------
\* A set of numbers has a least one.
LEMMA LeastNumber ==
  ASSUME NEW S \in SUBSET Nat, S # {}
  PROVE  \E m \in S : \A k \in S : m <= k
<1>1. PICK m \in S : \A k \in S : <<k, m>> \notin OpToRel(<, Nat)
  BY WFMin, NatLessThanWellFounded, Zenon
<1>2. \A k \in S : ~ (k < m)
  BY <1>1, Zenon DEF OpToRel
<1>3. QED BY <1>2

\* A list has as many members as it has positions exactly when no member occurs twice.
LEMMA DistinctMembers ==
  ASSUME NEW n \in Nat, NEW f, DOMAIN f = 1..n, f = [i \in 1..n |-> f[i]]
  PROVE  LET R == {f[i] : i \in 1..n}
         IN  IsFiniteSet(R) /\ (Cardinality(R) = n <=> \A i, j \in 1..n : f[i] = f[j] => i = j)
<1> DEFINE R == {f[i] : i \in 1..n}
<1>1. f \in Surjection(1..n, R)
  BY DEF Surjection
<1>2. IsFiniteSet(1..n) /\ Cardinality(1..n) = n
  BY FS_Interval
<1>3. IsFiniteSet(R) /\ (Cardinality(R) = n <=> f \in Injection(1..n, R))
  BY <1>1, <1>2, FS_Surjection
<1>4. f \in Injection(1..n, R) <=> \A i, j \in 1..n : f[i] = f[j] => i = j
  BY <1>1 DEF Injection, Surjection, IsInjective
<1>5. QED BY <1>3, <1>4

\* No two tasks of a graph have the same id (models.py TaskPlan._validate_task_graph).
LEMMA IdsDiffer ==
  ASSUME NEW p, IsList(p)
  PROVE  Cardinality(Ids(p)) = Len(p) <=> \A i, j \in DOMAIN p : p[i].id = p[j].id => i = j
<1> DEFINE f == [i \in 1..Len(p) |-> p[i].id]
<1>1. Len(p) \in Nat /\ DOMAIN p = 1..Len(p)
  BY LenProperties DEF IsList
<1>2. DOMAIN f = 1..Len(p) /\ f = [i \in 1..Len(p) |-> f[i]] /\ \A i \in 1..Len(p) : f[i] = p[i].id
  OBVIOUS
<1>3. Ids(p) = {f[i] : i \in 1..Len(p)}
  BY <1>1, <1>2 DEF Ids
<1> HIDE DEF f
<1> DEFINE n == Len(p)
<1>4. Cardinality({f[i] : i \in 1..n}) = n <=> \A i, j \in 1..n : f[i] = f[j] => i = j
  <2>1. n \in Nat /\ DOMAIN f = 1..n /\ f = [i \in 1..n |-> f[i]]
    BY <1>1, <1>2
  <2> HIDE DEF n
  <2>2. QED BY <2>1, DistinctMembers
<1>5. QED BY <1>1, <1>2, <1>3, <1>4

\* A list that another member is appended to.
LEMMA AppendedList ==
  ASSUME NEW s, IsList(s), NEW x
  PROVE  /\ Len(s) \in Nat /\ DOMAIN s = 1..Len(s)
         /\ IsList(Append(s, x)) /\ DOMAIN Append(s, x) = 1..(Len(s) + 1)
         /\ \A i \in 1..Len(s) : Append(s, x)[i] = s[i]
         /\ Append(s, x)[Len(s) + 1] = x
         /\ ToSet(Append(s, x)) = ToSet(s) \union {x}
<1> DEFINE S == ToSet(s) \union {x}
<1>1. s \in Seq(ToSet(s)) /\ Len(s) \in Nat /\ DOMAIN s = 1..Len(s)
  BY LenProperties DEF IsList
<1>2. s \in Seq(S) /\ x \in S
  BY <1>1
<1> HIDE DEF S
<1>3. /\ Append(s, x) \in Seq(S) /\ Len(Append(s, x)) = Len(s) + 1 /\ Append(s, x)[Len(s) + 1] = x
      /\ \A i \in 1..Len(s) : Append(s, x)[i] = s[i]
  BY <1>2, AppendProperties
<1>4. DOMAIN Append(s, x) = 1..(Len(s) + 1)
  BY <1>3, LenProperties
<1>5. ToSet(Append(s, x)) = ToSet(s) \union {x}
  BY <1>1, <1>3, <1>4 DEF ToSet
<1>6. S = ToSet(Append(s, x))
  BY <1>5 DEF S
<1>7. QED BY <1>1, <1>3, <1>4, <1>5, <1>6 DEF IsList

\* The ids of a plan find its tasks.
LEMMA TaskOfFinds ==
  ASSUME PlanOK, NEW i \in DOMAIN plan
  PROVE  TaskOf(plan[i].id) = plan[i]
<1>1. plan # <<>>
  OBVIOUS
<1>2. \A j \in DOMAIN plan : plan[j].id = plan[i].id => j = i
  BY <1>1, IdsDiffer DEF PlanOK, IsPlan, Accepted, IsTaskGraph
<1>3. \A t : (t \in ToSet(plan) /\ t.id = plan[i].id) <=> t = plan[i]
  BY <1>2 DEF ToSet
<1>4. QED BY <1>3 DEF TaskOf

\* A round always finds a task to execute: the graph has no cycle.
LEMMA RoundFindsTask ==
  ASSUME PlanOK, BooksOK, plan # <<>>, Remaining # {}
  PROVE  \E i \in DOMAIN plan : plan[i].id \in Remaining /\ ToSet(plan[i].deps) \subseteq completed
<1> DEFINE S == {i \in DOMAIN plan : plan[i].id \notin completed}
<1>1. S # {}
  BY DEF Remaining, Ids
<1>2. PICK i \in S : \A j \in S : plan[j].id \notin ToSet(plan[i].deps)
  BY <1>1 DEF PlanOK, Accepted, IsTaskGraph
<1>3. ToSet(plan[i].deps) \subseteq Ids(plan)
  BY <1>2 DEF PlanOK, Accepted, IsTaskGraph
<1>4. ToSet(plan[i].deps) \subseteq completed
  BY <1>2, <1>3 DEF Ids
<1>5. QED BY <1>2, <1>4 DEF Remaining, Ids

\* As many findings as completed tasks.
LEMMA BooksBalance ==
  ASSUME BooksOK
  PROVE  Len(findings) = Cardinality(completed)
<1> DEFINE f == [i \in 1..Len(findings) |-> findings[i].task]
<1>1. Len(findings) \in Nat /\ DOMAIN findings = 1..Len(findings)
  BY LenProperties DEF BooksOK, IsList
<1>2. DOMAIN f = 1..Len(findings) /\ f = [i \in 1..Len(findings) |-> f[i]]
      /\ \A i \in 1..Len(findings) : f[i] = findings[i].task
  OBVIOUS
<1>3. completed = {f[i] : i \in 1..Len(findings)}
  BY <1>1, <1>2 DEF BooksOK, Recorded
<1>4. \A i, j \in 1..Len(findings) : f[i] = f[j] => i = j
  BY <1>1, <1>2 DEF BooksOK
<1> HIDE DEF f
<1>5. QED BY <1>1, <1>2, <1>3, <1>4, DistinctMembers

\* What every step of the workflow keeps.
WorkflowBooks ==
  PlanOK /\ BooksOK /\ RoundOK /\ FindingsFit /\ InputsPrecede /\ FailureIsLocal

\* What the books say of the findings depends on the plan and the findings alone.
LEMMA FindingsKept ==
  ASSUME BooksOK, FindingsFit, InputsPrecede, UNCHANGED <<plan, completed, findings>>
  PROVE  BooksOK' /\ FindingsFit' /\ InputsPrecede'
<1>1. BooksOK'
  BY DEF BooksOK, Recorded
<1>2. \A id : TaskOf(id)' = TaskOf(id)
  BY DEF TaskOf
<1>3. FindingsFit'
  BY <1>2 DEF FindingsFit
<1>4. InputsPrecede'
  BY <1>2 DEF InputsPrecede
<1>5. QED BY <1>1, <1>3, <1>4

\* A change of the job's status leaves the rest of it.
LEMMA JobStatusSet ==
  ASSUME NEW j \in Jobs, NEW s \in {"pending", "running", "completed", "failed"}
  PROVE  /\ [j EXCEPT !.status = s] \in Jobs
         /\ [j EXCEPT !.status = s].status = s
         /\ [j EXCEPT !.status = s].lot = j.lot
  BY DEF Jobs

\* A plan that was accepted starts with every task pending.
LEMMA StartKeeps ==
  ASSUME WorkflowBooks, NEW p, IsPlan(p), Accepted(p), Start(p)
  PROVE  WorkflowBooks'
<1>1. /\ step = "planning" /\ plan = <<>> /\ plan' = p /\ step' = "round"
      /\ status' = [id \in Ids(p) |-> "pending"]
      /\ job' = [job EXCEPT !.status = "running"]
      /\ UNCHANGED <<planner, ready, current, completed, findings, authority, failure>>
  BY DEF Start, WorkflowBooks, PlanOK
<1>2. Ids(plan) = {}
  BY <1>1 DEF Ids
<1>3. completed = {} /\ DOMAIN findings = {} /\ IsList(findings) /\ Recorded = {}
  BY <1>2 DEF WorkflowBooks, BooksOK, Recorded
<1>4. PlanOK'
  BY <1>1 DEF PlanOK
<1>5. BooksOK'
  <2>1. Ids(plan)' = Ids(p) /\ Recorded' = {} /\ completed' = {} /\ findings' = findings
    BY <1>1, <1>3 DEF Ids, Recorded
  <2>2. QED BY <1>1, <1>3, <2>1 DEF BooksOK
<1>6. FindingsFit' /\ InputsPrecede'
  BY <1>1, <1>3 DEF FindingsFit, InputsPrecede
<1>7. current = NoTask /\ failure = "none"
  BY <1>1 DEF WorkflowBooks, RoundOK
<1>8. status' = StatusNow'
  BY <1>1, <1>3, <1>7 DEF StatusNow, IsPlan
<1>9. RoundOK'
  <2>1. job' \in Jobs
    <3>1. job \in Jobs
      BY DEF WorkflowBooks, RoundOK
    <3>2. QED BY <1>1, <3>1, JobStatusSet
  <2>2. QED BY <1>1, <1>7, <1>8, <2>1 DEF WorkflowBooks, RoundOK, Running
<1>10. FailureIsLocal'
  BY <1>1, <1>7 DEF FailureIsLocal
<1>11. QED BY <1>4, <1>5, <1>6, <1>9, <1>10 DEF WorkflowBooks

\* Without a plan nothing has been executed.
LEMMA NoPlanKeeps ==
  ASSUME WorkflowBooks, NoPlan
  PROVE  WorkflowBooks'
<1>1. /\ step = "planning" /\ step' = "raised" /\ failure' \in {"call", "plan"}
      /\ UNCHANGED <<planner, plan, job, ready, status, current, completed, findings, authority>>
  BY DEF NoPlan, fixed
<1>2. PlanOK'
  BY <1>1 DEF WorkflowBooks, PlanOK
<1>3. RoundOK'
  BY <1>1 DEF WorkflowBooks, RoundOK, Running
<1>4. FailureIsLocal'
  BY <1>1 DEF FailureIsLocal
<1>5. QED BY <1>1, <1>2, <1>3, <1>4, FindingsKept DEF WorkflowBooks

\* A round that starts has a task to execute.
LEMMA StartRoundKeeps ==
  ASSUME WorkflowBooks, StartRound
  PROVE  WorkflowBooks'
<1>1. /\ step = "round" /\ Remaining # {}
      /\ ready' = {i \in DOMAIN plan : plan[i].id \in Remaining /\ ToSet(plan[i].deps) \subseteq completed}
      /\ UNCHANGED <<planner, plan, job, status, current, completed, findings, authority>>
  BY DEF StartRound, fixed
<1>2. plan # <<>>
  BY <1>1 DEF Remaining, Ids
<1>3. ready' # {}
  BY <1>1, <1>2, RoundFindsTask DEF WorkflowBooks
<1>4. step' = "tasks" /\ failure' = failure
  BY <1>3 DEF StartRound
<1>5. PlanOK'
  BY <1>1, <1>4 DEF WorkflowBooks, PlanOK
<1>6. status' = StatusNow' /\ current = NoTask /\ failure = "none"
  BY <1>1 DEF WorkflowBooks, RoundOK, Running, StatusNow
<1>7. RoundOK'
  BY <1>1, <1>3, <1>4, <1>6 DEF WorkflowBooks, RoundOK, Running, Remaining
<1>8. FailureIsLocal'
  BY <1>4, <1>6 DEF FailureIsLocal
<1>9. QED BY <1>1, <1>5, <1>7, <1>8, FindingsKept DEF WorkflowBooks

\* The task that begins is one of the round.
LEMMA BeginTaskKeeps ==
  ASSUME WorkflowBooks, BeginTask
  PROVE  WorkflowBooks'
<1>1. /\ step = "tasks" /\ current = NoTask
      /\ UNCHANGED <<planner, plan, job, step, ready, completed, findings, authority, failure>>
  BY DEF BeginTask, fixed
<1>2. PICK i \in ready : current' = plan[i].id /\ status' = [status EXCEPT ![plan[i].id] = "running"]
  BY DEF BeginTask
<1>3. PlanOK'
  BY <1>1 DEF WorkflowBooks, PlanOK
<1>4. failure = "none"
  BY <1>1 DEF WorkflowBooks, RoundOK
<1>5. status = StatusNow /\ plan[i].id \notin completed /\ i \in DOMAIN plan
  BY <1>1, <1>2 DEF WorkflowBooks, RoundOK, Running
<1>6. plan[i].id \in Ids(plan) /\ NoTask \notin Ids(plan)
  BY <1>5 DEF WorkflowBooks, PlanOK, IsPlan, Ids
<1>7. status' = StatusNow'
  BY <1>1, <1>2, <1>5, <1>6 DEF StatusNow
<1>8. RoundOK'
  BY <1>1, <1>2, <1>4, <1>7 DEF WorkflowBooks, RoundOK, Running
<1>9. FailureIsLocal'
  BY <1>1, <1>4 DEF FailureIsLocal
<1>10. QED BY <1>1, <1>3, <1>8, <1>9, FindingsKept DEF WorkflowBooks

\* The task an agent executes is a ready one, and the plan's only one of its name.
LEMMA ExecutingMeans ==
  ASSUME WorkflowBooks, NEW t \in ToSet(plan), Executing(t)
  PROVE  /\ step = "tasks" /\ failure = "none" /\ status = StatusNow
         /\ t.id \in Ids(plan) \ completed /\ TaskOf(t.id) = t /\ t.id # NoTask
         /\ ToSet(t.deps) \subseteq completed /\ IsList(Named(t))
         /\ \E i \in ready : i \in DOMAIN plan /\ plan[i] = t
         /\ t.agent \in RequiredAgents
<1>1. PICK k \in DOMAIN plan : plan[k] = t
  BY DEF ToSet
<1>2. step = "tasks" /\ failure = "none" /\ status = StatusNow /\ current = t.id
  BY DEF Executing, WorkflowBooks, RoundOK, Running
<1>3. t.id \in Ids(plan) /\ t.id # NoTask /\ TaskOf(t.id) = t
  BY <1>1, TaskOfFinds DEF WorkflowBooks, PlanOK, IsPlan, Ids
<1>4. PICK i \in ready : plan[i].id = t.id
  BY <1>2, <1>3 DEF WorkflowBooks, RoundOK
<1>5. i \in DOMAIN plan /\ plan[i].id \notin completed /\ ToSet(plan[i].deps) \subseteq completed
  BY <1>2, <1>4 DEF WorkflowBooks, RoundOK
<1>6. plan[i] = t
  BY <1>3, <1>4, <1>5, TaskOfFinds DEF WorkflowBooks
<1>7. IsList(Named(t))
  BY <1>1 DEF WorkflowBooks, PlanOK, IsPlan, Named
<1>8. t.agent \in RequiredAgents
  BY <1>1 DEF WorkflowBooks, PlanOK, Accepted, Agents
<1>9. QED BY <1>2, <1>3, <1>4, <1>5, <1>6, <1>7, <1>8

\* A task that fails leaves what was recorded before it, and nothing after it has begun.
LEMMA FailTaskKeeps ==
  ASSUME WorkflowBooks, NEW t \in ToSet(plan), Executing(t), NEW why, why # "stuck", FailTask(t, why)
  PROVE  WorkflowBooks'
<1>1. /\ job' = [job EXCEPT !.status = "failed"] /\ status' = [status EXCEPT ![t.id] = "failed"]
      /\ current' = NoTask /\ step' = "raised" /\ failure' = why
      /\ UNCHANGED <<planner, plan, ready, completed, findings, authority>>
  BY DEF FailTask, fixed
<1>2. /\ status = StatusNow /\ t.id \in Ids(plan) \ completed /\ TaskOf(t.id) = t
      /\ ToSet(t.deps) \subseteq completed /\ current = t.id
  BY ExecutingMeans DEF Executing
<1>3. PlanOK'
  BY <1>1 DEF WorkflowBooks, PlanOK
<1>4. job' \in Jobs /\ job'.status = "failed"
  <2>1. job \in Jobs
    BY DEF WorkflowBooks, RoundOK
  <2>2. QED BY <1>1, <2>1, JobStatusSet
<1>7. RoundOK'
  BY <1>1, <1>4 DEF WorkflowBooks, RoundOK, Running
<1>5. FailureIsLocal'
  <2>1. TaskOf(t.id)' = t
    BY <1>1, <1>2 DEF TaskOf
  <2>2. status' = [j \in Ids(plan) |-> IF j \in completed THEN "completed" ELSE IF j = t.id THEN "failed" ELSE "pending"]
    BY <1>1, <1>2 DEF StatusNow
  <2>3. Recorded' = completed' /\ Len(findings') = Cardinality(completed')
    BY <1>1, BooksBalance DEF WorkflowBooks, BooksOK, Recorded
  <2>4. t.id \in (Ids(plan) \ completed)' /\ (ToSet(TaskOf(t.id).deps) \subseteq completed)'
    BY <1>1, <1>2, <2>1 DEF Ids
  <2>5. (status = [j \in Ids(plan) |-> IF j \in completed THEN "completed" ELSE IF j = t.id THEN "failed" ELSE "pending"])'
    <3>1. Ids(plan)' = Ids(plan) /\ completed' = completed
      BY <1>1 DEF Ids
    <3>2. QED BY <2>2, <3>1
  <2>6. QED
    BY <1>1, <1>4, <2>3, <2>4, <2>5 DEF FailureIsLocal
<1>8. QED BY <1>1, <1>3, <1>7, <1>5, FindingsKept DEF WorkflowBooks

\* What is recorded is a task's first finding, and it completes the task.
LEMMA RecordKeeps ==
  ASSUME WorkflowBooks, NEW t \in ToSet(plan), Executing(t), NEW f,
         f.task = t.id, f.agent = t.agent, f.kind = t.kind, f.from \subseteq Recorded,
         t.agent # "mes" => ToSet(Named(t)) \subseteq Recorded, Record(t, f)
  PROVE  WorkflowBooks'
<1>1. /\ findings' = Append(findings, f)
      /\ status' = [status EXCEPT ![t.id] = "completed"] /\ current' = NoTask
      /\ completed' = completed \union {t.id}
      /\ ready' = {i \in ready : plan[i].id # t.id}
      /\ step' = IF ready' # {} THEN "tasks" ELSE IF completed' = Ids(plan) THEN "report" ELSE "round"
      /\ UNCHANGED <<planner, plan, job, failure>>
  BY DEF Record, fixed
<1>2. /\ step = "tasks" /\ failure = "none" /\ status = StatusNow
      /\ t.id \in Ids(plan) /\ t.id \notin completed /\ TaskOf(t.id) = t
      /\ ToSet(t.deps) \subseteq completed /\ t.id # NoTask
  BY ExecutingMeans
<1>3. current = t.id
  BY DEF Executing
<1>4. /\ IsList(findings) /\ completed = Recorded
      /\ \A i, j \in DOMAIN findings : findings[i].task = findings[j].task => i = j
      /\ completed \subseteq Ids(plan)
      /\ \A i \in DOMAIN plan : plan[i].id \in completed => ToSet(plan[i].deps) \subseteq completed
  BY DEF WorkflowBooks, BooksOK
<1> DEFINE n == Len(findings)
<1>5. /\ n \in Nat /\ DOMAIN findings = 1..n /\ IsList(findings') /\ DOMAIN findings' = 1..(n + 1)
      /\ \A i \in 1..n : findings'[i] = findings[i]
      /\ findings'[n + 1] = f
  BY <1>1, <1>4, AppendedList
<1> HIDE DEF n
<1>6. \A i \in 1..(n + 1) : i \in 1..n \/ i = n + 1
  BY <1>5
<1>7. \A i \in 1..n : findings[i].task \in completed /\ findings[i].task # t.id
  BY <1>2, <1>4, <1>5 DEF Recorded
<1>8. PlanOK'
  BY <1>1, <1>2 DEF WorkflowBooks, PlanOK
<1>9. BooksOK'
  <2>1. Recorded' = completed'
    BY <1>1, <1>4, <1>5, <1>6 DEF Recorded
  <2>2. \A i, j \in DOMAIN findings' : findings'[i].task = findings'[j].task => i = j
    BY <1>4, <1>5, <1>6, <1>7
  <2>3. (completed \subseteq Ids(plan))'
    BY <1>1, <1>2, <1>4 DEF Ids
  <2>4. \A i \in DOMAIN plan : plan[i].id \in completed' => ToSet(plan[i].deps) \subseteq completed'
    <3>1. \A i \in DOMAIN plan : plan[i].id = t.id => plan[i] = t
      BY <1>2, TaskOfFinds DEF WorkflowBooks
    <3>2. QED BY <1>1, <1>2, <1>4, <3>1
  <2>5. QED BY <1>1, <1>5, <2>1, <2>2, <2>3, <2>4 DEF BooksOK
<1>10. \A id : TaskOf(id)' = TaskOf(id)
  BY <1>1 DEF TaskOf
<1>11. FindingsFit'
  BY <1>2, <1>5, <1>6, <1>10 DEF WorkflowBooks, FindingsFit
<1>12. RoundOK'
  <2>1. status' = StatusNow'
    <3>1. Ids(plan)' = Ids(plan) /\ current' = NoTask
      BY <1>1 DEF Ids
    <3>2. StatusNow' = [j \in Ids(plan) |->
                         IF j \in completed' THEN "completed" ELSE IF j = NoTask THEN "running" ELSE "pending"]
      BY <3>1 DEF StatusNow
    <3>3. NoTask \notin Ids(plan)
      BY DEF WorkflowBooks, PlanOK, IsPlan
    <3>4. QED BY <1>1, <1>2, <1>3, <3>2, <3>3 DEF StatusNow
  <2>2. step' \in {"tasks", "report", "round"} /\ (step' = "tasks" => ready' # {})
    BY <1>1
  <2>3. \A i \in ready' : i \in DOMAIN plan /\ plan[i].id \notin completed' /\ ToSet(plan[i].deps) \subseteq completed'
    BY <1>1, <1>2 DEF WorkflowBooks, RoundOK
  <2>4. QED BY <1>1, <1>2, <2>1, <2>2, <2>3 DEF WorkflowBooks, RoundOK, Running
<1>13. InputsPrecede'
  <2>1. \A i \in 1..(n + 1) : {findings'[j].task : j \in 1 .. i - 1} = {findings[j].task : j \in 1 .. i - 1}
    BY <1>5
  <2>2. {findings[j].task : j \in 1 .. (n + 1) - 1} = Recorded
    BY <1>5 DEF Recorded
  <2>3. ASSUME NEW i \in DOMAIN findings'
        PROVE  LET u == TaskOf(findings'[i].task)
                   earlier == {findings'[j].task : j \in 1 .. i - 1}
               IN findings'[i].from \subseteq earlier /\ (u.agent # "mes" => ToSet(Named(u)) \subseteq earlier)
    <3>1. CASE i \in 1..n
      BY <1>5, <2>1, <3>1 DEF WorkflowBooks, InputsPrecede
    <3>2. CASE i = n + 1
      BY <1>2, <1>5, <2>1, <2>2, <3>2
    <3>3. QED BY <1>5, <1>6, <3>1, <3>2
  <2>4. QED BY <1>10, <2>3 DEF InputsPrecede
<1>14. FailureIsLocal'
  BY <1>1, <1>2 DEF FailureIsLocal
<1>15. QED BY <1>8, <1>9, <1>11, <1>12, <1>13, <1>14 DEF WorkflowBooks

\* The one finding of an agent among the inputs of a task is a recorded one.
LEMMA TheFound ==
  ASSUME NEW t, NEW agent, One(t, agent)
  PROVE  The(t, agent) \in By(t, agent) /\ By(t, agent) = {The(t, agent)}
<1>1. PICK f \in By(t, agent) : By(t, agent) = {f}
  BY DEF One
<1>2. QED BY <1>1, Zenon DEF The

\* Every agent but MES reads findings that exist, and the improvement needs one cause.
LEMMA FitMeans ==
  ASSUME NEW t, t.agent \in RequiredAgents, InputsFit(t)
  PROVE  /\ t.agent # "mes" => CanRead(t)
         /\ t.agent \in {"fdc", "defect_wat"} => One(t, "mes")
         /\ t.agent = "improvement" => One(t, "mes") /\ One(t, "rca_reasoning") /\ By(t, "knowledge") # {}
<1>1. t.agent \in {"mes", "fdc", "defect_wat", "knowledge", "rca_reasoning", "improvement"}
  BY DEF RequiredAgents, Specialists
<1>2. t.agent \in {"fdc", "defect_wat"} => CanRead(t) /\ One(t, "mes")
  BY DEF InputsFit
<1>3. t.agent \in {"knowledge", "rca_reasoning"} => CanRead(t)
  BY DEF InputsFit
<1>4. t.agent = "improvement" =>
        CanRead(t) /\ (\A a \in RequiredAgents \ {"knowledge", "improvement"} : One(t, a)) /\ By(t, "knowledge") # {}
  BY DEF InputsFit
<1>5. {"mes", "rca_reasoning"} \subseteq RequiredAgents \ {"knowledge", "improvement"}
  BY DEF RequiredAgents, Specialists
<1>6. QED BY <1>1, <1>2, <1>3, <1>4, <1>5

\* What an agent finds is a finding of its task, about findings recorded before.
LEMMA FoundFits ==
  ASSUME WorkflowBooks, NEW t \in ToSet(plan), Executing(t), InputsFit(t), NEW data \in Outcomes(t)
  PROVE  LET f == FindingFor(t, data)
         IN  /\ f.task = t.id /\ f.agent = t.agent /\ f.kind = t.kind /\ f.data = data
             /\ f.from \subseteq Recorded
             /\ t.agent # "mes" => ToSet(Named(t)) \subseteq Recorded
             /\ t.agent = "improvement" => f.rca = The(t, "rca_reasoning").task /\ f.advice = Advice(t)
             /\ t.agent # "improvement" => f.advice = {}
<1>1. t.agent \in RequiredAgents
  BY ExecutingMeans
<1>2. {f.task : f \in Inputs(t)} \subseteq Recorded
  BY DEF Inputs, ToSet, Recorded
<1>3. t.agent # "mes" => ToSet(Named(t)) \subseteq Recorded
  BY <1>1, FitMeans DEF CanRead
<1> DEFINE from == IF t.agent = "mes" THEN {} ELSE {f.task : f \in Inputs(t)}
           rca == IF t.agent = "improvement" THEN The(t, "rca_reasoning").task ELSE NoTask
           advice == IF t.agent = "improvement" THEN Advice(t) ELSE {}
<1>4. FindingFor(t, data) =
        [task |-> t.id, agent |-> t.agent, kind |-> t.kind, data |-> data,
         from |-> from, rca |-> rca, advice |-> advice]
  BY DEF FindingFor
<1>5. /\ from \subseteq Recorded
      /\ t.agent = "improvement" => rca = The(t, "rca_reasoning").task /\ advice = Advice(t)
      /\ t.agent # "improvement" => advice = {}
  BY <1>2
<1> HIDE DEF from, rca, advice
<1>6. QED BY <1>3, <1>4, <1>5

\* An agent's call, whatever comes of it.
LEMMA AgentKeeps ==
  ASSUME WorkflowBooks, NEW t \in ToSet(plan), TaskHasNoInputs(t) \/ AgentRaises(t) \/ AgentFinds(t)
  PROVE  WorkflowBooks'
<1>1. CASE TaskHasNoInputs(t)
  <2> DEFINE why == CASE t.agent = "mes" -> "no_subject"
                      [] t.agent = "fdc" /\ CanRead(t) /\ One(t, "mes") -> "no_lots"
                      [] OTHER -> "inputs"
  <2>1. why # "stuck"
    OBVIOUS
  <2>2. Executing(t) /\ FailTask(t, why)
    BY <1>1 DEF TaskHasNoInputs
  <2> HIDE DEF why
  <2>3. QED BY <2>1, <2>2, FailTaskKeeps
<1>2. CASE AgentRaises(t)
  BY <1>2, FailTaskKeeps DEF AgentRaises
<1>3. CASE AgentFinds(t)
  <2>1. Executing(t) /\ InputsFit(t)
    BY <1>3 DEF AgentFinds
  <2>2. PICK data \in Outcomes(t) :
          IF Conflicts(FindingFor(t, data)) THEN FailTask(t, "conflict") ELSE Record(t, FindingFor(t, data))
    BY <1>3 DEF AgentFinds
  <2>3. CASE Conflicts(FindingFor(t, data))
    BY <2>1, <2>2, <2>3, FailTaskKeeps
  <2>4. CASE ~Conflicts(FindingFor(t, data))
    <3> DEFINE f == FindingFor(t, data)
    <3>1. Record(t, f)
      BY <2>2, <2>4
    <3>2. /\ f.task = t.id /\ f.agent = t.agent /\ f.kind = t.kind
          /\ f.from \subseteq Recorded /\ (t.agent # "mes" => ToSet(Named(t)) \subseteq Recorded)
      BY <2>1, FoundFits
    <3> HIDE DEF f
    <3>3. QED BY <2>1, <3>1, <3>2, RecordKeeps
  <2>5. QED BY <2>3, <2>4
<1>4. QED BY <1>1, <1>2, <1>3

\* The report and the error of its making touch no book.
LEMMA ReportKeeps ==
  ASSUME WorkflowBooks, MakeReport \/ ReportRaises
  PROVE  WorkflowBooks'
<1>1. /\ step = "report" /\ step' \in {"done", "raised"}
      /\ step' = "done" => failure' = failure
      /\ failure' \in {failure, "report"}
      /\ job' = job \/ job' = [job EXCEPT !.status = "completed"]
      /\ UNCHANGED <<planner, plan, ready, status, current, completed, findings, authority>>
  BY DEF MakeReport, ReportRaises, fixed
<1>2. failure = "none" /\ status = StatusNow /\ current = NoTask /\ job \in Jobs
  BY <1>1 DEF WorkflowBooks, RoundOK, Running
<1>3. PlanOK'
  BY <1>1 DEF WorkflowBooks, PlanOK
<1>4. job' \in Jobs
  BY <1>1, <1>2, JobStatusSet
<1>5. status' = StatusNow'
  BY <1>1, <1>2 DEF StatusNow
<1>6. RoundOK'
  BY <1>1, <1>2, <1>4, <1>5 DEF RoundOK, Running
<1>7. FailureIsLocal'
  BY <1>1, <1>2 DEF FailureIsLocal
<1>8. QED BY <1>1, <1>3, <1>6, <1>7, FindingsKept DEF WorkflowBooks

\* A list made of two others has their members in turn.
LEMMA ListsJoin ==
  ASSUME NEW S, NEW s \in Seq(S), NEW u \in Seq(S), NEW x \in Seq(S), Len(x) = Len(s) + Len(u),
         \A i \in 1..Len(s) : x[i] = s[i], \A i \in 1..Len(u) : x[Len(s) + i] = u[i]
  PROVE  s \o u = x
<1> DEFINE y == s \o u
<1>1. y \in Seq(S) /\ Len(y) = Len(s) + Len(u) /\ Len(s) \in Nat /\ Len(u) \in Nat
  BY ConcatProperties, LenProperties
<1>2. (\A i \in 1..Len(s) : y[i] = s[i]) /\ (\A i \in 1..Len(u) : y[Len(s) + i] = u[i])
  BY ConcatProperties
<1> HIDE DEF y
<1>3. \A i \in 1..Len(y) : i \in 1..Len(s) \/ \E j \in 1..Len(u) : i = Len(s) + j
  <2> TAKE i \in 1..Len(y)
  <2>1. i \in 1..Len(s) \/ i - Len(s) \in 1..Len(u)
    BY <1>1
  <2>2. i = Len(s) + (i - Len(s))
    BY <1>1
  <2>3. QED BY <2>1, <2>2
<1>4. \A i \in 1..Len(y) : y[i] = x[i]
  BY <1>2, <1>3
<1>5. y = x
  BY <1>1, <1>4, SeqEqual
<1>6. QED BY <1>5 DEF y

\* The lists of the fixed plan.
LEMMA ObservedLists ==
  /\ Append(Observed, "discovery") = <<"mes", "fdc", "defect", "discovery">>
  /\ Observed \o <<"discovery", "validation">> = <<"mes", "fdc", "defect", "discovery", "validation">>
  /\ Observed \o <<"discovery", "validation", "rca">> = <<"mes", "fdc", "defect", "discovery", "validation", "rca">>
<1> DEFINE S == {"mes", "fdc", "defect", "discovery", "validation", "rca"}
<1>1. Observed \in Seq(S) /\ Len(Observed) = 3 /\ Observed[1] = "mes" /\ Observed[2] = "fdc" /\ Observed[3] = "defect"
  BY DEF Observed
<1>2. "discovery" \in S
  OBVIOUS
<1>3. Observed \o <<"discovery">> = <<"mes", "fdc", "defect", "discovery">>
  <2> DEFINE u == <<"discovery">>
             x == <<"mes", "fdc", "defect", "discovery">>
  <2>1. u \in Seq(S) /\ Len(u) = 1 /\ u[1] = "discovery"
    OBVIOUS
  <2>2. x \in Seq(S) /\ Len(x) = 4 /\ x[1] = "mes" /\ x[2] = "fdc" /\ x[3] = "defect" /\ x[4] = "discovery"
    OBVIOUS
  <2> HIDE DEF S, u, x
  <2>3. Observed \in Seq(S) /\ u \in Seq(S) /\ x \in Seq(S)
    BY <1>1, <2>1, <2>2
  <2>4. (\A i \in 1..Len(Observed) : x[i] = Observed[i]) /\ Len(x) = Len(Observed) + Len(u)
    BY <1>1, <2>1, <2>2
  <2>5. \A i \in 1..Len(u) : x[Len(Observed) + i] = u[i]
    BY <1>1, <2>1, <2>2
  <2>6. Observed \o u = x
    BY <2>3, <2>4, <2>5, ListsJoin
  <2>7. QED BY <2>6 DEF u, x
<1>4. Observed \o <<"discovery", "validation">> = <<"mes", "fdc", "defect", "discovery", "validation">>
  <2> DEFINE u == <<"discovery", "validation">>
             x == <<"mes", "fdc", "defect", "discovery", "validation">>
  <2>1. u \in Seq(S) /\ Len(u) = 2 /\ u[1] = "discovery" /\ u[2] = "validation"
    OBVIOUS
  <2>2. x \in Seq(S) /\ Len(x) = 5 /\ x[1] = "mes" /\ x[2] = "fdc" /\ x[3] = "defect" /\ x[4] = "discovery" /\ x[5] = "validation"
    OBVIOUS
  <2> HIDE DEF S, u, x
  <2>3. Observed \in Seq(S) /\ u \in Seq(S) /\ x \in Seq(S)
    BY <1>1, <2>1, <2>2
  <2>4. (\A i \in 1..Len(Observed) : x[i] = Observed[i]) /\ Len(x) = Len(Observed) + Len(u)
    BY <1>1, <2>1, <2>2
  <2>5. \A i \in 1..Len(u) : x[Len(Observed) + i] = u[i]
    BY <1>1, <2>1, <2>2
  <2>6. Observed \o u = x
    BY <2>3, <2>4, <2>5, ListsJoin
  <2>7. QED BY <2>6 DEF u, x
<1>5. Observed \o <<"discovery", "validation", "rca">> = <<"mes", "fdc", "defect", "discovery", "validation", "rca">>
  <2> DEFINE u == <<"discovery", "validation", "rca">>
             x == <<"mes", "fdc", "defect", "discovery", "validation", "rca">>
  <2>1. u \in Seq(S) /\ Len(u) = 3 /\ u[1] = "discovery" /\ u[2] = "validation" /\ u[3] = "rca"
    OBVIOUS
  <2>2. x \in Seq(S) /\ Len(x) = 6 /\ x[1] = "mes" /\ x[2] = "fdc" /\ x[3] = "defect" /\ x[4] = "discovery" /\ x[5] = "validation" /\ x[6] = "rca"
    OBVIOUS
  <2> HIDE DEF S, u, x
  <2>3. Observed \in Seq(S) /\ u \in Seq(S) /\ x \in Seq(S)
    BY <1>1, <2>1, <2>2
  <2>4. (\A i \in 1..Len(Observed) : x[i] = Observed[i]) /\ Len(x) = Len(Observed) + Len(u)
    BY <1>1, <2>1, <2>2
  <2>5. \A i \in 1..Len(u) : x[Len(Observed) + i] = u[i]
    BY <1>1, <2>1, <2>2
  <2>6. Observed \o u = x
    BY <2>3, <2>4, <2>5, ListsJoin
  <2>7. QED BY <2>6 DEF u, x
<1> HIDE DEF S
<1>6. Append(Observed, "discovery") = Observed \o <<"discovery">>
  BY <1>1, <1>2, AppendIsConcat
<1>7. QED BY <1>3, <1>4, <1>5, <1>6

\* Seven tasks make a list.
LEMMA SevenTasks ==
  ASSUME NEW a, NEW b, NEW c, NEW d, NEW e, NEW f, NEW g
  PROVE  LET s == <<a, b, c, d, e, f, g>>
         IN  /\ IsList(s) /\ Len(s) = 7 /\ DOMAIN s = 1..7 /\ s # <<>>
             /\ s[1] = a /\ s[2] = b /\ s[3] = c /\ s[4] = d /\ s[5] = e /\ s[6] = f /\ s[7] = g
             /\ ToSet(s) = {a, b, c, d, e, f, g}
<1> DEFINE s == <<a, b, c, d, e, f, g>>
<1>1. /\ Len(s) = 7 /\ DOMAIN s = 1..7 /\ s # <<>>
      /\ s[1] = a /\ s[2] = b /\ s[3] = c /\ s[4] = d /\ s[5] = e /\ s[6] = f /\ s[7] = g
  OBVIOUS
<1>2. s \in Seq({a, b, c, d, e, f, g})
  OBVIOUS
<1>3. ToSet(s) = {a, b, c, d, e, f, g}
  BY <1>1 DEF ToSet
<1>4. QED BY <1>1, <1>2, <1>3 DEF IsList

\* The tasks of the fixed plan and what they wait for and read (planner_agent.py plan).
LEMMA DefaultTasks ==
  LET m == Task("mes", "mes", "observation", <<>>, <<>>)
      f == Task("fdc", "fdc", "observation", <<"mes">>, <<"mes">>)
      d == Task("defect", "defect_wat", "observation", <<"mes">>, <<"mes">>)
      k == Task("discovery", "knowledge", "knowledge_discovery", Observed, Observed)
      v == Task("validation", "knowledge", "knowledge_validation", <<"discovery">>, <<"mes", "fdc", "defect", "discovery">>)
      r == Task("rca", "rca_reasoning", "hypothesis_ranking", <<"mes", "fdc", "defect", "discovery", "validation">>,
                <<"mes", "fdc", "defect", "discovery", "validation">>)
      i == Task("improvement", "improvement", "improvement", <<"rca">>,
                <<"mes", "fdc", "defect", "discovery", "validation", "rca">>)
  IN  /\ IsList(DefaultPlan) /\ Len(DefaultPlan) = 7 /\ DOMAIN DefaultPlan = 1..7 /\ DefaultPlan # <<>>
      /\ DefaultPlan[1] = m /\ DefaultPlan[2] = f /\ DefaultPlan[3] = d /\ DefaultPlan[4] = k
      /\ DefaultPlan[5] = v /\ DefaultPlan[6] = r /\ DefaultPlan[7] = i
      /\ ToSet(DefaultPlan) = {m, f, d, k, v, r, i}
<1> DEFINE m == Task("mes", "mes", "observation", <<>>, <<>>)
      f == Task("fdc", "fdc", "observation", <<"mes">>, <<"mes">>)
      d == Task("defect", "defect_wat", "observation", <<"mes">>, <<"mes">>)
      k == Task("discovery", "knowledge", "knowledge_discovery", Observed, Observed)
      v == Task("validation", "knowledge", "knowledge_validation", <<"discovery">>, <<"mes", "fdc", "defect", "discovery">>)
      r == Task("rca", "rca_reasoning", "hypothesis_ranking", <<"mes", "fdc", "defect", "discovery", "validation">>,
                <<"mes", "fdc", "defect", "discovery", "validation">>)
      i == Task("improvement", "improvement", "improvement", <<"rca">>,
                <<"mes", "fdc", "defect", "discovery", "validation", "rca">>)
<1>1. DefaultPlan = <<m, f, d, k, v, r, i>>
  BY ObservedLists, Zenon DEF DefaultPlan
<1> HIDE DEF m, f, d, k, v, r, i
<1>2. /\ IsList(DefaultPlan) /\ Len(DefaultPlan) = 7 /\ DOMAIN DefaultPlan = 1..7 /\ DefaultPlan # <<>>
      /\ DefaultPlan[1] = m /\ DefaultPlan[2] = f /\ DefaultPlan[3] = d /\ DefaultPlan[4] = k
      /\ DefaultPlan[5] = v /\ DefaultPlan[6] = r /\ DefaultPlan[7] = i
      /\ ToSet(DefaultPlan) = {m, f, d, k, v, r, i}
  BY <1>1, SevenTasks
<1>3. QED BY <1>2 DEF m, f, d, k, v, r, i

\* The names, agents and kinds in the fixed plan: no two tasks have the same, and every
\* task waits only for earlier ones.
LEMMA DefaultNames ==
  /\ Ids(DefaultPlan) = {"mes", "fdc", "defect", "discovery", "validation", "rca", "improvement"}
  /\ \A i, j \in 1..7 : DefaultPlan[i].id = DefaultPlan[j].id => i = j
  /\ \A i, j \in 1..7 : DefaultPlan[j].id \in ToSet(DefaultPlan[i].deps) => j < i
  /\ \A i \in 1..7 : ToSet(DefaultPlan[i].deps) \subseteq Ids(DefaultPlan)
  /\ Agents(DefaultPlan) = RequiredAgents
<1>1. /\ DefaultPlan[1].id = "mes" /\ DefaultPlan[2].id = "fdc" /\ DefaultPlan[3].id = "defect"
      /\ DefaultPlan[4].id = "discovery" /\ DefaultPlan[5].id = "validation" /\ DefaultPlan[6].id = "rca"
      /\ DefaultPlan[7].id = "improvement"
  BY DefaultTasks DEF Task
<1>2. /\ DefaultPlan[1].agent = "mes" /\ DefaultPlan[2].agent = "fdc" /\ DefaultPlan[3].agent = "defect_wat"
      /\ DefaultPlan[4].agent = "knowledge" /\ DefaultPlan[5].agent = "knowledge"
      /\ DefaultPlan[6].agent = "rca_reasoning" /\ DefaultPlan[7].agent = "improvement"
  BY DefaultTasks DEF Task
<1>3. /\ DefaultPlan[1].deps = <<>> /\ DefaultPlan[2].deps = <<"mes">> /\ DefaultPlan[3].deps = <<"mes">>
      /\ DefaultPlan[4].deps = <<"mes", "fdc", "defect">> /\ DefaultPlan[5].deps = <<"discovery">>
      /\ DefaultPlan[6].deps = <<"mes", "fdc", "defect", "discovery", "validation">>
      /\ DefaultPlan[7].deps = <<"rca">>
  BY DefaultTasks DEF Task, Observed
<1>4. /\ ToSet(DefaultPlan[1].deps) = {} /\ ToSet(DefaultPlan[2].deps) = {"mes"} /\ ToSet(DefaultPlan[3].deps) = {"mes"}
      /\ ToSet(DefaultPlan[4].deps) = {"mes", "fdc", "defect"} /\ ToSet(DefaultPlan[5].deps) = {"discovery"}
      /\ ToSet(DefaultPlan[6].deps) = {"mes", "fdc", "defect", "discovery", "validation"}
      /\ ToSet(DefaultPlan[7].deps) = {"rca"}
  BY <1>3 DEF ToSet
<1>5. DOMAIN DefaultPlan = 1..7 /\ 1..7 = {1, 2, 3, 4, 5, 6, 7}
  BY DefaultTasks
<1>6. Ids(DefaultPlan) = {"mes", "fdc", "defect", "discovery", "validation", "rca", "improvement"}
  BY <1>1, <1>5 DEF Ids
<1>7. Agents(DefaultPlan) = RequiredAgents
  BY <1>2, <1>5 DEF Agents, RequiredAgents, Specialists
<1>8. \A i, j \in 1..7 : DefaultPlan[i].id = DefaultPlan[j].id => i = j
  BY <1>1, <1>5
<1>9. \A i \in 1..7 : ToSet(DefaultPlan[i].deps) \subseteq Ids(DefaultPlan)
  BY <1>4, <1>5, <1>6
<1>10. ASSUME NEW i \in 1..7, NEW j \in 1..7, DefaultPlan[j].id \in ToSet(DefaultPlan[i].deps)
       PROVE  j < i
  BY <1>1, <1>4, <1>5, <1>10
<1>11. QED BY <1>6, <1>7, <1>8, <1>9, <1>10

\* The fixed plan is a graph over the required agents: no task waits for a later one.
LEMMA DefaultPlanAccepted ==
  IsPlan(DefaultPlan) /\ Accepted(DefaultPlan)
<1>1. IsList(DefaultPlan) /\ DOMAIN DefaultPlan = 1..7 /\ DefaultPlan # <<>>
  BY DefaultTasks
<1>2. IsPlan(DefaultPlan)
  <2>1. NoTask \notin Ids(DefaultPlan)
    BY DefaultNames DEF NoTask
  <2>2. /\ IsList(<<>>) /\ IsList(<<"mes">>) /\ IsList(<<"discovery">>) /\ IsList(<<"rca">>)
        /\ IsList(<<"mes", "fdc", "defect">>) /\ IsList(<<"mes", "fdc", "defect", "discovery">>)
        /\ IsList(<<"mes", "fdc", "defect", "discovery", "validation">>)
        /\ IsList(<<"mes", "fdc", "defect", "discovery", "validation", "rca">>)
    BY DEF IsList, ToSet
  <2>3. \A i \in 1..7 : IsList(DefaultPlan[i].deps) /\ IsList(DefaultPlan[i].from)
    <3>1. 1..7 = {1, 2, 3, 4, 5, 6, 7}
      OBVIOUS
    <3>2. /\ DefaultPlan[1].deps = <<>> /\ DefaultPlan[2].deps = <<"mes">> /\ DefaultPlan[3].deps = <<"mes">>
          /\ DefaultPlan[4].deps = <<"mes", "fdc", "defect">> /\ DefaultPlan[5].deps = <<"discovery">>
          /\ DefaultPlan[6].deps = <<"mes", "fdc", "defect", "discovery", "validation">>
          /\ DefaultPlan[7].deps = <<"rca">>
      BY DefaultTasks DEF Task, Observed
    <3>3. /\ DefaultPlan[1].from = <<>> /\ DefaultPlan[2].from = <<"mes">> /\ DefaultPlan[3].from = <<"mes">>
          /\ DefaultPlan[4].from = <<"mes", "fdc", "defect">>
          /\ DefaultPlan[5].from = <<"mes", "fdc", "defect", "discovery">>
          /\ DefaultPlan[6].from = <<"mes", "fdc", "defect", "discovery", "validation">>
          /\ DefaultPlan[7].from = <<"mes", "fdc", "defect", "discovery", "validation", "rca">>
      BY DefaultTasks DEF Task, Observed
    <3>4. \A i \in 1..7 : IsList(DefaultPlan[i].deps)
      BY <3>1, <3>2, <2>2
    <3>5. \A i \in 1..7 : IsList(DefaultPlan[i].from)
      BY <3>1, <3>3, <2>2
    <3>6. QED BY <3>4, <3>5
  <2>4. QED BY <1>1, <2>1, <2>3 DEF IsPlan
<1>3. Cardinality(Ids(DefaultPlan)) = Len(DefaultPlan)
  BY <1>1, DefaultNames, IdsDiffer
<1>4. ASSUME NEW S \in (SUBSET DOMAIN DefaultPlan) \ {{}}
      PROVE  \E i \in S : \A j \in S : DefaultPlan[j].id \notin ToSet(DefaultPlan[i].deps)
  <2>1. S \in SUBSET Nat /\ S # {} /\ S \subseteq 1..7
    BY <1>1
  <2>2. PICK i \in S : \A j \in S : i <= j
    BY <2>1, LeastNumber
  <2>3. \A j \in S : ~(j < i)
    BY <2>1, <2>2
  <2>4. QED BY <2>1, <2>2, <2>3, DefaultNames
<1>5. QED BY <1>1, <1>2, <1>3, <1>4, DefaultNames DEF Accepted, IsTaskGraph

\* The workflow's books hold from the start.
LEMMA InitBooks == WorkflowInit => WorkflowBooks
<1> SUFFICES ASSUME WorkflowInit PROVE WorkflowBooks
  OBVIOUS
<1>1. /\ step = "planning" /\ plan = <<>> /\ current = NoTask /\ completed = {} /\ findings = <<>>
      /\ failure = "none"
  BY DEF WorkflowInit
<1>2. job \in Jobs
  BY DEF WorkflowInit, Jobs
<1>3. IsList(<<>>) /\ Ids(<<>>) = {} /\ Recorded = {}
  BY <1>1 DEF IsList, ToSet, Ids, Recorded
<1>4. PlanOK
  BY <1>1, <1>3 DEF PlanOK, IsPlan
<1>5. BooksOK
  BY <1>1, <1>3 DEF BooksOK
<1>6. RoundOK
  BY <1>1, <1>2 DEF RoundOK, Running
<1>7. FindingsFit /\ InputsPrecede /\ FailureIsLocal
  BY <1>1 DEF FindingsFit, InputsPrecede, FailureIsLocal
<1>8. QED BY <1>4, <1>5, <1>6, <1>7 DEF WorkflowBooks

\* Every step keeps the workflow's books.
LEMMA NextBooks == WorkflowBooks /\ [WorkflowNext]_workflowVars => WorkflowBooks'
<1> SUFFICES ASSUME WorkflowBooks, [WorkflowNext]_workflowVars PROVE WorkflowBooks'
  OBVIOUS
<1>1. CASE PlanByPython
  BY <1>1, DefaultPlanAccepted, StartKeeps DEF PlanByPython
<1>2. CASE PlanByModel
  <2>1. PICK p \in Proposals : Accepted(p) /\ Start(p)
    BY <1>2 DEF PlanByModel
  <2>2. QED BY <2>1, ProposalsAssumption, StartKeeps
<1>3. CASE NoPlan
  BY <1>3, NoPlanKeeps
<1>4. CASE StartRound
  BY <1>4, StartRoundKeeps
<1>5. CASE BeginTask
  BY <1>5, BeginTaskKeeps
<1>6. CASE \E t \in ToSet(plan) : TaskHasNoInputs(t) \/ AgentRaises(t) \/ AgentFinds(t)
  BY <1>6, AgentKeeps
<1>7. CASE MakeReport \/ ReportRaises
  BY <1>7, ReportKeeps
<1>8. CASE UNCHANGED workflowVars
  <2>1. UNCHANGED <<planner, job, step, plan, ready, status, current, completed, findings, authority, failure>>
    BY <1>8 DEF workflowVars
  <2>2. PlanOK' /\ StatusNow' = StatusNow
    BY <2>1 DEF WorkflowBooks, PlanOK, StatusNow
  <2>3. RoundOK'
    BY <2>1, <2>2 DEF WorkflowBooks, RoundOK, Running
  <2>4. FailureIsLocal'
    <3>1. \A id : TaskOf(id)' = TaskOf(id)
      BY <2>1 DEF TaskOf
    <3>2. Recorded' = Recorded /\ Ids(plan)' = Ids(plan)
      BY <2>1 DEF Recorded, Ids
    <3>3. FailureIsLocal
      BY DEF WorkflowBooks
    <3>4. QED BY <2>1, <3>1, <3>2, <3>3 DEF FailureIsLocal
  <2>5. QED BY <2>1, <2>2, <2>3, <2>4, FindingsKept DEF WorkflowBooks
<1>9. QED BY <1>1, <1>2, <1>3, <1>4, <1>5, <1>6, <1>7, <1>8 DEF WorkflowNext

\* The books of the workflow always balance (supervisor.py execute).
THEOREM WorkflowInvariance == WorkflowSpec => []WorkflowBooks
BY InitBooks, NextBooks, PTL DEF WorkflowSpec

\* A finding rests only on findings recorded before it, whatever the plan of a model says
\* of dependencies and inputs (supervisor.py _input_findings).
THEOREM InputsComeFirst == WorkflowSpec => []InputsPrecede
<1>1. WorkflowBooks => InputsPrecede
  BY DEF WorkflowBooks
<1>2. QED BY <1>1, WorkflowInvariance, PTL

\* No accepted plan gets stuck, and a task that fails leaves what was recorded before it
\* complete and nothing after it begun (supervisor.py execute, _execute_task).
THEOREM FailuresAreLocal == WorkflowSpec => []FailureIsLocal
<1>1. WorkflowBooks => FailureIsLocal
  BY DEF WorkflowBooks
<1>2. QED BY <1>1, WorkflowInvariance, PTL

\* Recommendations against a cause name the finding that supported it, and one for the
\* whole fab has the finding that justifies it.
AdviceRests ==
  \A i \in DOMAIN findings :
    /\ findings[i].advice \intersect {"corrective", "fab"} # {} =>
         \E j \in DOMAIN findings : findings[j].task = findings[i].rca /\ findings[j].data = "supported"
    /\ "fab" \in findings[i].advice => \E j \in DOMAIN findings : findings[j].data \in {"many", "match"}

\* What the fixed plan adds to the books: the one assessment is authoritative.
DefaultBooks ==
  plan = DefaultPlan =>
    /\ failure \in {"none", "agent", "no_subject", "no_lots"}
    /\ "rca" \in completed => authority = "rca"
    /\ \A i \in DOMAIN findings : findings[i].kind = "improvement" => findings[i].rca = "rca"

-----------------------------------------------------------------------------
\* The historical case that the recommendations consider is a finding of the Knowledge agent
\* (improvement_agent.py _finding_index).
LEMMA PrecedentFound ==
  ASSUME NEW t, IsList(Named(t)), By(t, "knowledge") # {}
  PROVE  Precedent(t) \in By(t, "knowledge")
<1> DEFINE found == By(t, "knowledge")
           discoveries == {f \in found : f.kind = "knowledge_discovery"}
           n == Len(Named(t))
<1>1. n \in Nat /\ DOMAIN Named(t) = 1..n
  BY LenProperties DEF IsList
<1>2. ASSUME NEW f \in found PROVE Position(t, f) \in 1..n
  <2>1. f.task \in ToSet(Named(t))
    BY DEF By, Inputs
  <2>2. \E i \in DOMAIN Named(t) : Named(t)[i] = f.task
    BY <2>1 DEF ToSet
  <2>3. Position(t, f) \in DOMAIN Named(t)
    BY <2>2, Zenon DEF Position
  <2>4. QED BY <1>1, <2>3
<1> HIDE DEF n
<1>3. CASE discoveries = {}
  <2> DEFINE S == {Position(t, f) : f \in found}
  <2>1. S \in SUBSET Nat /\ S # {}
    BY <1>1, <1>2
  <2>2. PICK m \in S : \A k \in S : m <= k
    BY <2>1, LeastNumber
  <2>3. \E f \in found : \A g \in found : Position(t, f) <= Position(t, g)
    BY <2>2
  <2>4. Precedent(t) = CHOOSE f \in found : \A g \in found : Position(t, f) <= Position(t, g)
    BY <1>3 DEF Precedent
  <2>5. (CHOOSE f \in found : \A g \in found : Position(t, f) <= Position(t, g)) \in found
    BY <2>3, Zenon
  <2>6. QED BY <2>4, <2>5
<1>4. CASE discoveries # {}
  <2> DEFINE S == {n - Position(t, f) : f \in discoveries}
  <2>1. S \in SUBSET Nat /\ S # {}
    BY <1>1, <1>2, <1>4
  <2>2. PICK m \in S : \A k \in S : m <= k
    BY <2>1, LeastNumber
  <2>3. \E f \in discoveries : \A g \in discoveries : Position(t, g) <= Position(t, f)
    <3>1. PICK f \in discoveries : m = n - Position(t, f)
      BY <2>2
    <3>2. ASSUME NEW g \in discoveries PROVE Position(t, g) <= Position(t, f)
      <4>1. m <= n - Position(t, g)
        BY <2>2
      <4>2. Position(t, f) \in Nat /\ Position(t, g) \in Nat
        BY <1>1, <1>2
      <4>3. QED BY <1>1, <3>1, <4>1, <4>2
    <3>3. QED BY <3>2
  <2>4. Precedent(t) = CHOOSE f \in discoveries : \A g \in discoveries : Position(t, g) <= Position(t, f)
    BY <1>4 DEF Precedent
  <2>5. (CHOOSE f \in discoveries : \A g \in discoveries : Position(t, g) <= Position(t, f)) \in discoveries
    BY <2>3, Zenon
  <2>6. QED BY <2>4, <2>5
<1>5. QED BY <1>3, <1>4

\* What the recommendations need is among the findings their task read.
LEMMA AdviceOfTask ==
  ASSUME NEW t, t.agent = "improvement", InputsFit(t), IsList(Named(t))
  PROVE  /\ Advice(t) \intersect {"corrective", "fab"} # {} =>
              \E j \in DOMAIN findings :
                findings[j].task = The(t, "rca_reasoning").task /\ findings[j].data = "supported"
         /\ "fab" \in Advice(t) => \E j \in DOMAIN findings : findings[j].data \in {"many", "match"}
<1>1. One(t, "mes") /\ One(t, "rca_reasoning") /\ By(t, "knowledge") # {}
  BY FitMeans DEF RequiredAgents
<1>2. {The(t, "mes"), The(t, "rca_reasoning"), Precedent(t)} \subseteq ToSet(findings)
  BY <1>1, TheFound, PrecedentFound DEF By, Inputs
<1>3. Advice(t) \intersect {"corrective", "fab"} # {} => The(t, "rca_reasoning").data = "supported"
  BY DEF Advice
<1>4. "fab" \in Advice(t) => The(t, "mes").data = "many" \/ Precedent(t).data = "match"
  BY DEF Advice
<1>5. QED BY <1>2, <1>3, <1>4 DEF ToSet

\* An agent's call keeps the ground of the recommendations.
LEMMA AdviceKept ==
  ASSUME WorkflowBooks, AdviceRests, [WorkflowNext]_workflowVars
  PROVE  AdviceRests'
<1>1. CASE UNCHANGED findings
  BY <1>1 DEF AdviceRests
<1>2. ASSUME NEW t \in ToSet(plan), AgentFinds(t), findings' # findings
      PROVE  AdviceRests'
  <2>1. Executing(t) /\ InputsFit(t)
    BY <1>2 DEF AgentFinds
  <2>2. PICK data \in Outcomes(t) : Record(t, FindingFor(t, data))
    BY <1>2 DEF AgentFinds, FailTask
  <2> DEFINE f == FindingFor(t, data)
  <2>3. /\ t.agent = "improvement" => f.rca = The(t, "rca_reasoning").task /\ f.advice = Advice(t)
        /\ t.agent # "improvement" => f.advice = {}
    BY <2>1, FoundFits
  <2>4. findings' = Append(findings, f)
    BY <2>2 DEF Record
  <2> HIDE DEF f
  <2>5. /\ Len(findings) \in Nat /\ DOMAIN findings = 1..Len(findings) /\ DOMAIN findings' = 1..(Len(findings) + 1)
        /\ \A i \in 1..Len(findings) : findings'[i] = findings[i]
        /\ findings'[Len(findings) + 1] = f
    BY <2>4, AppendedList DEF WorkflowBooks, BooksOK
  <2>6. DOMAIN findings \subseteq DOMAIN findings'
    BY <2>5
  <2>7. ASSUME NEW i \in DOMAIN findings'
        PROVE  /\ findings'[i].advice \intersect {"corrective", "fab"} # {} =>
                    \E j \in DOMAIN findings : findings[j].task = findings'[i].rca /\ findings[j].data = "supported"
               /\ "fab" \in findings'[i].advice => \E j \in DOMAIN findings : findings[j].data \in {"many", "match"}
    <3>1. CASE i \in 1..Len(findings)
      BY <2>5, <3>1 DEF AdviceRests
    <3>2. CASE i = Len(findings) + 1
      <4>1. findings'[i] = f
        BY <2>5, <3>2
      <4>2. CASE t.agent = "improvement"
        <5>1. IsList(Named(t))
          BY <2>1, ExecutingMeans
        <5>2. QED BY <2>1, <2>3, <4>1, <4>2, <5>1, AdviceOfTask
      <4>3. QED BY <2>3, <4>1, <4>2
    <3>3. QED BY <2>5, <3>1, <3>2
  <2>8. QED BY <2>5, <2>6, <2>7 DEF AdviceRests
<1>3. \/ UNCHANGED findings \/ \E t \in ToSet(plan) : AgentFinds(t)
  BY DEF WorkflowNext, PlanByPython, PlanByModel, Start, NoPlan, StartRound, BeginTask, TaskHasNoInputs, AgentRaises,
         FailTask, MakeReport, ReportRaises, workflowVars
<1>4. QED BY <1>1, <1>2, <1>3

-----------------------------------------------------------------------------
\* In the fixed plan a task's name tells its agent and kind, and the other way round.
LEMMA DefaultTaskIs ==
  ASSUME NEW t \in ToSet(DefaultPlan)
  PROVE  /\ t.id = "mes" <=> t.agent = "mes"
         /\ t.id = "fdc" <=> t.agent = "fdc"
         /\ t.id = "defect" <=> t.agent = "defect_wat"
         /\ t.id = "discovery" <=> t.kind = "knowledge_discovery"
         /\ t.id = "validation" <=> t.kind = "knowledge_validation"
         /\ t.agent = "knowledge" <=> t.id \in {"discovery", "validation"}
         /\ t.id = "rca" <=> t.agent = "rca_reasoning"
         /\ t.id = "rca" <=> t.kind = "hypothesis_ranking"
         /\ t.id = "improvement" <=> t.agent = "improvement"
         /\ t.id = "improvement" <=> t.kind = "improvement"
         /\ t.id \in {"mes", "fdc", "defect"} <=> t.kind = "observation"
         /\ t.id \in {"mes", "fdc", "defect", "discovery", "validation", "rca", "improvement"}
<1> DEFINE Goal(u) ==
         /\ u.id = "mes" <=> u.agent = "mes"
         /\ u.id = "fdc" <=> u.agent = "fdc"
         /\ u.id = "defect" <=> u.agent = "defect_wat"
         /\ u.id = "discovery" <=> u.kind = "knowledge_discovery"
         /\ u.id = "validation" <=> u.kind = "knowledge_validation"
         /\ u.agent = "knowledge" <=> u.id \in {"discovery", "validation"}
         /\ u.id = "rca" <=> u.agent = "rca_reasoning"
         /\ u.id = "rca" <=> u.kind = "hypothesis_ranking"
         /\ u.id = "improvement" <=> u.agent = "improvement"
         /\ u.id = "improvement" <=> u.kind = "improvement"
         /\ u.id \in {"mes", "fdc", "defect"} <=> u.kind = "observation"
         /\ u.id \in {"mes", "fdc", "defect", "discovery", "validation", "rca", "improvement"}
<1>1. ASSUME NEW d, NEW s PROVE Goal(Task("mes", "mes", "observation", d, s))
  BY DEF Task
<1>2. ASSUME NEW d, NEW s PROVE Goal(Task("fdc", "fdc", "observation", d, s))
  BY DEF Task
<1>3. ASSUME NEW d, NEW s PROVE Goal(Task("defect", "defect_wat", "observation", d, s))
  BY DEF Task
<1>4. ASSUME NEW d, NEW s PROVE Goal(Task("discovery", "knowledge", "knowledge_discovery", d, s))
  BY DEF Task
<1>5. ASSUME NEW d, NEW s PROVE Goal(Task("validation", "knowledge", "knowledge_validation", d, s))
  BY DEF Task
<1>6. ASSUME NEW d, NEW s PROVE Goal(Task("rca", "rca_reasoning", "hypothesis_ranking", d, s))
  BY DEF Task
<1>7. ASSUME NEW d, NEW s PROVE Goal(Task("improvement", "improvement", "improvement", d, s))
  BY DEF Task
<1> HIDE DEF Goal
<1>8. Goal(t)
  BY <1>1, <1>2, <1>3, <1>4, <1>5, <1>6, <1>7, DefaultTasks
<1>9. QED BY <1>8 DEF Goal

\* What each task of the fixed plan waits for and reads.
LEMMA DefaultReads ==
  ASSUME NEW t \in ToSet(DefaultPlan), t.id # "mes"
  PROVE  /\ Cardinality(ToSet(Named(t))) = Len(Named(t))
         /\ t.id \in {"fdc", "defect"} => ToSet(Named(t)) = {"mes"} /\ ToSet(t.deps) = {"mes"}
         /\ t.id = "discovery" => ToSet(Named(t)) = {"mes", "fdc", "defect"} /\ ToSet(t.deps) = {"mes", "fdc", "defect"}
         /\ t.id = "validation" =>
              ToSet(Named(t)) = {"mes", "fdc", "defect", "discovery"} /\ ToSet(t.deps) = {"discovery"}
         /\ t.id = "rca" => ToSet(Named(t)) = {"mes", "fdc", "defect", "discovery", "validation"}
                            /\ ToSet(t.deps) = {"mes", "fdc", "defect", "discovery", "validation"}
         /\ t.id = "improvement" => ToSet(Named(t)) = {"mes", "fdc", "defect", "discovery", "validation", "rca"}
                                    /\ ToSet(t.deps) = {"rca"}
<1> DEFINE o1 == <<"mes">>
           o3 == <<"mes", "fdc", "defect">>
           o4 == <<"mes", "fdc", "defect", "discovery">>
           o5 == <<"mes", "fdc", "defect", "discovery", "validation">>
           o6 == <<"mes", "fdc", "defect", "discovery", "validation", "rca">>
<1>1. ASSUME NEW s, IsList(s), \A i, j \in DOMAIN s : s[i] = s[j] => i = j
      PROVE  Cardinality(ToSet(s)) = Len(s)
  <2>1. Len(s) \in Nat /\ DOMAIN s = 1..Len(s) /\ s = [i \in 1..Len(s) |-> s[i]]
    BY <1>1, LenProperties DEF IsList
  <2>2. ToSet(s) = {s[i] : i \in 1..Len(s)}
    BY <2>1 DEF ToSet
  <2> DEFINE n == Len(s)
  <2>3. n \in Nat /\ DOMAIN s = 1..n /\ s = [i \in 1..n |-> s[i]] /\ \A i, j \in 1..n : s[i] = s[j] => i = j
    BY <1>1, <2>1
  <2> HIDE DEF n
  <2>4. Cardinality({s[i] : i \in 1..n}) = n
    BY <2>3, DistinctMembers
  <2>5. QED BY <2>2, <2>4 DEF n
<1>2. IsList(o1) /\ IsList(o3) /\ IsList(o4) /\ IsList(o5) /\ IsList(o6)
  BY DEF IsList, ToSet
<1>3. /\ \A i, j \in DOMAIN o1 : o1[i] = o1[j] => i = j
      /\ \A i, j \in DOMAIN o3 : o3[i] = o3[j] => i = j
      /\ \A i, j \in DOMAIN o4 : o4[i] = o4[j] => i = j
  OBVIOUS
<1>4. \A i, j \in DOMAIN o5 : o5[i] = o5[j] => i = j
  OBVIOUS
<1>5. \A i, j \in DOMAIN o6 : o6[i] = o6[j] => i = j
  OBVIOUS
<1>6. ToSet(o1) = {"mes"} /\ ToSet(o3) = {"mes", "fdc", "defect"} /\ ToSet(o4) = {"mes", "fdc", "defect", "discovery"}
  BY DEF ToSet
<1>7. ToSet(o5) = {"mes", "fdc", "defect", "discovery", "validation"}
  BY DEF ToSet
<1>8. ToSet(o6) = {"mes", "fdc", "defect", "discovery", "validation", "rca"}
  BY DEF ToSet
<1>9. ToSet(<<"discovery">>) = {"discovery"} /\ ToSet(<<"rca">>) = {"rca"}
  BY DEF ToSet
<1>10. /\ t.id \in {"fdc", "defect"} => Named(t) = o1 /\ t.deps = o1
       /\ t.id = "discovery" => Named(t) = o3 /\ t.deps = o3
       /\ t.id = "validation" => Named(t) = o4 /\ t.deps = <<"discovery">>
       /\ t.id = "rca" => Named(t) = o5 /\ t.deps = o5
       /\ t.id = "improvement" => Named(t) = o6 /\ t.deps = <<"rca">>
  BY DefaultTasks DEF Task, Named, Observed
<1> HIDE DEF o1, o3, o4, o5, o6
<1>11. \A s \in {o1, o3, o4, o5, o6} : Cardinality(ToSet(s)) = Len(s)
  BY <1>1, <1>2, <1>3, <1>4, <1>5
<1>12. Named(t) \in {o1, o3, o4, o5, o6}
  BY <1>10, DefaultTaskIs
<1>13. Cardinality(ToSet(Named(t))) = Len(Named(t))
  BY <1>11, <1>12
<1>14. QED BY <1>6, <1>7, <1>8, <1>9, <1>10, <1>13

\* Two findings of one task are one finding.
LEMMA SameFinding ==
  ASSUME WorkflowBooks, NEW f \in ToSet(findings), NEW g \in ToSet(findings), f.task = g.task
  PROVE  f = g
BY DEF WorkflowBooks, BooksOK, ToSet

\* A finding of the fixed plan bears the name, the agent and the kind of one of its tasks.
LEMMA DefaultFinding ==
  ASSUME WorkflowBooks, plan = DefaultPlan, NEW f \in ToSet(findings)
  PROVE  \E u \in ToSet(DefaultPlan) : f.task = u.id /\ f.agent = u.agent /\ f.kind = u.kind
<1>1. PICK i \in DOMAIN findings : findings[i] = f
  BY DEF ToSet
<1>2. f.task \in Ids(plan)
  BY <1>1 DEF WorkflowBooks, BooksOK, Recorded
<1>3. PICK k \in DOMAIN plan : plan[k].id = f.task
  BY <1>2 DEF Ids
<1>4. TaskOf(f.task) = plan[k]
  BY <1>3, TaskOfFinds DEF WorkflowBooks
<1>5. f.agent = plan[k].agent /\ f.kind = plan[k].kind
  BY <1>1, <1>4 DEF WorkflowBooks, FindingsFit
<1>6. plan[k] \in ToSet(DefaultPlan)
  BY <1>3 DEF ToSet
<1>7. QED BY <1>3, <1>5, <1>6

\* An agent with one task in the fixed plan has one finding, when that task is done.
LEMMA OneByDefault ==
  ASSUME WorkflowBooks, plan = DefaultPlan, NEW t, NEW agent, NEW id,
         \A u \in ToSet(DefaultPlan) : u.id = id <=> u.agent = agent,
         id \in ToSet(Named(t)), id \in Recorded
  PROVE  One(t, agent)
<1>1. PICK f \in ToSet(findings) : f.task = id
  BY DEF Recorded, ToSet
<1>2. f.agent = agent
  BY <1>1, DefaultFinding
<1>3. f \in By(t, agent)
  BY <1>1, <1>2 DEF By, Inputs
<1>4. ASSUME NEW g \in By(t, agent) PROVE g = f
  <2>1. g \in ToSet(findings) /\ g.agent = agent
    BY DEF By, Inputs
  <2>2. g.task = id
    BY <2>1, DefaultFinding
  <2>3. QED BY <1>1, <2>1, <2>2, SameFinding
<1>5. QED BY <1>3, <1>4 DEF One

\* The tasks of the fixed plan always have the findings they read.
LEMMA DefaultInputsFit ==
  ASSUME WorkflowBooks, plan = DefaultPlan, NEW t \in ToSet(DefaultPlan), Executing(t)
  PROVE  /\ t.agent = "fdc" => CanRead(t) /\ One(t, "mes")
         /\ t.agent \notin {"mes", "fdc"} => InputsFit(t)
<1>1. ToSet(t.deps) \subseteq completed /\ completed = Recorded
  BY ExecutingMeans DEF WorkflowBooks, BooksOK
<1>2. \A u \in ToSet(DefaultPlan) : u.id \in completed => ToSet(u.deps) \subseteq completed
  BY DEF WorkflowBooks, BooksOK, ToSet
<1>3. PICK v \in ToSet(DefaultPlan) : v.id = "discovery"
  BY DefaultTasks DEF Task
<1>4. PICK r \in ToSet(DefaultPlan) : r.id = "rca"
  BY DefaultTasks DEF Task
<1>5. "discovery" \in completed => {"mes", "fdc", "defect"} \subseteq completed
  BY <1>2, <1>3, DefaultReads
<1>6. "rca" \in completed => {"mes", "fdc", "defect", "discovery", "validation"} \subseteq completed
  BY <1>2, <1>4, DefaultReads
<1>7. t.id # "mes" => CanRead(t)
  <2> SUFFICES ASSUME t.id # "mes" PROVE CanRead(t)
    OBVIOUS
  <2>1. t.id \in {"fdc", "defect", "discovery", "validation", "rca", "improvement"}
    BY DefaultTaskIs
  <2>2. ToSet(Named(t)) \subseteq completed
    <3>1. CASE t.id \in {"fdc", "defect", "discovery", "rca"}
      <4>1. ToSet(Named(t)) = ToSet(t.deps)
        BY <3>1, DefaultReads
      <4>2. QED BY <1>1, <4>1
    <3>2. CASE t.id = "validation"
      <4>1. "discovery" \in completed
        BY <1>1, <3>2, DefaultReads
      <4>2. ToSet(Named(t)) = {"mes", "fdc", "defect", "discovery"}
        BY <3>2, DefaultReads
      <4>3. QED BY <1>5, <4>1, <4>2
    <3>3. CASE t.id = "improvement"
      <4>1. "rca" \in completed
        BY <1>1, <3>3, DefaultReads
      <4>2. ToSet(Named(t)) = {"mes", "fdc", "defect", "discovery", "validation", "rca"}
        BY <3>3, DefaultReads
      <4>3. QED BY <1>6, <4>1, <4>2
    <3>4. QED BY <2>1, <3>1, <3>2, <3>3
  <2>3. QED BY <1>1, <2>2, DefaultReads DEF CanRead
<1>8. /\ \A u \in ToSet(DefaultPlan) : u.id = "mes" <=> u.agent = "mes"
      /\ \A u \in ToSet(DefaultPlan) : u.id = "fdc" <=> u.agent = "fdc"
      /\ \A u \in ToSet(DefaultPlan) : u.id = "defect" <=> u.agent = "defect_wat"
      /\ \A u \in ToSet(DefaultPlan) : u.id = "rca" <=> u.agent = "rca_reasoning"
  BY DefaultTaskIs
<1>9. CanRead(t) =>
        /\ "mes" \in ToSet(Named(t)) => One(t, "mes")
        /\ "fdc" \in ToSet(Named(t)) => One(t, "fdc")
        /\ "defect" \in ToSet(Named(t)) => One(t, "defect_wat")
        /\ "rca" \in ToSet(Named(t)) => One(t, "rca_reasoning")
  BY <1>8, OneByDefault DEF CanRead
<1>10. \A f \in Inputs(t) : f \in ToSet(findings) /\ f.task \in ToSet(Named(t))
  BY DEF Inputs
<1>11. CASE t.agent = "fdc"
  BY <1>7, <1>9, <1>11, DefaultTaskIs, DefaultReads
<1>12. CASE t.agent = "defect_wat"
  <2>1. t.id = "defect"
    BY <1>12, DefaultTaskIs
  <2>2. CanRead(t) /\ One(t, "mes")
    BY <1>7, <1>9, <2>1, DefaultReads
  <2>3. QED BY <1>12, <2>2 DEF InputsFit
<1>13. CASE t.agent = "knowledge"
  <2>1. t.id \in {"discovery", "validation"}
    BY <1>13, DefaultTaskIs
  <2>2. CanRead(t) /\ One(t, "mes") /\ One(t, "fdc") /\ One(t, "defect_wat")
    BY <1>7, <1>9, <2>1, DefaultReads
  <2>3. \A a \in {"mes", "fdc", "defect_wat"} : One(t, a)
    BY <2>2
  <2>4. QED BY <1>13, <2>2, <2>3 DEF InputsFit
<1>14. CASE t.agent = "rca_reasoning"
  <2>1. t.id = "rca"
    BY <1>14, DefaultTaskIs
  <2>2. CanRead(t) /\ One(t, "mes") /\ ToSet(Named(t)) = {"mes", "fdc", "defect", "discovery", "validation"}
    BY <1>7, <1>9, <2>1, DefaultReads
  <2>3. Inputs(t) # {}
    BY <2>2, TheFound DEF By
  <2>4. ASSUME NEW f \in Inputs(t) PROVE f.agent \in Specialists
    <3>1. PICK u \in ToSet(DefaultPlan) : f.task = u.id /\ f.agent = u.agent /\ f.kind = u.kind
      BY <1>10, DefaultFinding
    <3>2. u.id \in {"mes", "fdc", "defect", "discovery", "validation"}
      BY <1>10, <2>2, <3>1
    <3>3. QED BY <3>1, <3>2, DefaultTaskIs DEF Specialists
  <2>5. ASSUME NEW f \in Inputs(t), NEW g \in Inputs(t), f # g, f.kind = g.kind PROVE f.kind = "observation"
    <3>1. PICK u \in ToSet(DefaultPlan) : f.task = u.id /\ f.kind = u.kind
      BY <1>10, DefaultFinding
    <3>2. PICK w \in ToSet(DefaultPlan) : g.task = w.id /\ g.kind = w.kind
      BY <1>10, DefaultFinding
    <3>3. u.id # w.id
      BY <1>10, <2>5, <3>1, <3>2, SameFinding
    <3>4. QED BY <2>5, <3>1, <3>2, <3>3, DefaultTaskIs
  <2>6. StagesDiffer(t)
    BY <2>5 DEF StagesDiffer
  <2>7. QED BY <1>14, <2>2, <2>3, <2>4, <2>6 DEF InputsFit
<1>15. CASE t.agent = "improvement"
  <2>1. t.id = "improvement"
    BY <1>15, DefaultTaskIs
  <2>2. CanRead(t) /\ ToSet(Named(t)) = {"mes", "fdc", "defect", "discovery", "validation", "rca"}
    BY <1>7, <2>1, DefaultReads
  <2>3. One(t, "mes") /\ One(t, "fdc") /\ One(t, "defect_wat") /\ One(t, "rca_reasoning")
    BY <1>9, <2>2
  <2>4. \A a \in RequiredAgents \ {"knowledge", "improvement"} : One(t, a)
    BY <2>3 DEF RequiredAgents, Specialists
  <2>5. By(t, "knowledge") # {}
    <3>1. PICK f \in ToSet(findings) : f.task = "discovery"
      BY <2>2 DEF CanRead, Recorded, ToSet
    <3>2. f.agent = "knowledge"
      BY <3>1, DefaultFinding, DefaultTaskIs
    <3>3. QED BY <2>2, <3>1, <3>2 DEF By, Inputs
  <2>6. By(t, "improvement") = {}
    <3>1. ASSUME NEW f \in By(t, "improvement") PROVE FALSE
      <4>1. f \in Inputs(t) /\ f.agent = "improvement"
        BY DEF By
      <4>2. f.task = "improvement"
        BY <1>10, <4>1, DefaultFinding, DefaultTaskIs
      <4>3. QED BY <1>10, <2>2, <4>1, <4>2
    <3>2. QED BY <3>1
  <2>7. QED BY <1>15, <2>2, <2>4, <2>5, <2>6 DEF InputsFit
<1>16. t.agent \in {"mes", "fdc", "defect_wat", "knowledge", "rca_reasoning", "improvement"}
  BY DefaultTaskIs
<1>17. QED BY <1>11, <1>12, <1>13, <1>14, <1>15, <1>16

\* With the fixed plan only an agent, a question without a subject or a lack of Lots stops
\* the workflow, and the recommendations rest on the authoritative assessment.
LEMMA DefaultKept ==
  ASSUME WorkflowBooks, WorkflowBooks', DefaultBooks, [WorkflowNext]_workflowVars
  PROVE  DefaultBooks'
<1> SUFFICES ASSUME plan' = DefaultPlan
             PROVE  /\ failure' \in {"none", "agent", "no_subject", "no_lots"}
                    /\ "rca" \in completed' => authority' = "rca"
                    /\ \A i \in DOMAIN findings' : findings'[i].kind = "improvement" => findings'[i].rca = "rca"
  BY DEF DefaultBooks
<1>1. CASE step = "planning"
  <2>1. plan = <<>> /\ completed = {} /\ DOMAIN findings = {} /\ failure = "none"
    <3>1. plan = <<>> /\ failure = "none"
      BY <1>1 DEF WorkflowBooks, PlanOK, RoundOK
    <3>2. completed = {} /\ completed = Recorded
      BY <3>1 DEF WorkflowBooks, BooksOK, Ids
    <3>3. QED BY <3>1, <3>2 DEF Recorded
  <2>2. DefaultPlan # <<>>
    BY DefaultTasks
  <2>3. PlanByPython \/ PlanByModel
    <3>1. plan' # plan
      BY <2>1, <2>2
    <3>2. UNCHANGED plan \/ PlanByPython \/ PlanByModel
      BY DEF WorkflowNext, NoPlan, StartRound, BeginTask, TaskHasNoInputs, AgentRaises, AgentFinds, Record,
             FailTask, MakeReport, ReportRaises, workflowVars, fixed
    <3>3. QED BY <3>1, <3>2
  <2>4. UNCHANGED <<completed, findings, failure>>
    BY <2>3 DEF PlanByPython, PlanByModel, Start
  <2>5. QED BY <2>1, <2>4
<1>2. CASE step # "planning"
  <2>1. plan = DefaultPlan
    BY <1>2 DEF WorkflowNext, PlanByPython, PlanByModel, Start, NoPlan, StartRound, BeginTask, TaskHasNoInputs,
                AgentRaises, AgentFinds, Record, FailTask, MakeReport, ReportRaises, workflowVars, fixed
  <2>2. /\ failure \in {"none", "agent", "no_subject", "no_lots"}
        /\ "rca" \in completed => authority = "rca"
        /\ \A i \in DOMAIN findings : findings[i].kind = "improvement" => findings[i].rca = "rca"
    BY <2>1 DEF DefaultBooks
  <2>3. CASE UNCHANGED <<completed, findings, authority, failure>>
    BY <2>2, <2>3
  <2>4. CASE StartRound
    <3>1. failure' # "stuck"
      BY DEF WorkflowBooks, FailureIsLocal
    <3>2. UNCHANGED <<completed, findings, authority, failure>>
      BY <2>4, <3>1 DEF StartRound
    <3>3. QED BY <2>2, <3>2
  <2>5. ASSUME NEW t \in ToSet(plan), NEW why, why \in {"agent", "no_subject", "no_lots"}, FailTask(t, why)
        PROVE  /\ failure' \in {"none", "agent", "no_subject", "no_lots"}
               /\ UNCHANGED <<completed, findings, authority>>
    BY <2>5 DEF FailTask
  <2>6. ASSUME NEW t \in ToSet(plan), TaskHasNoInputs(t) PROVE FailTask(t, "no_subject") \/ FailTask(t, "no_lots")
    <3>1. Executing(t) /\ ~InputsFit(t)
      BY <2>6 DEF TaskHasNoInputs
    <3>2. t.agent = "mes" \/ (t.agent = "fdc" /\ CanRead(t) /\ One(t, "mes"))
      BY <2>1, <3>1, DefaultInputsFit
    <3>3. QED BY <2>6, <3>2 DEF TaskHasNoInputs
  <2>7. ASSUME NEW t \in ToSet(plan), AgentRaises(t) PROVE FailTask(t, "agent")
    BY <2>7 DEF AgentRaises
  <2>8. ASSUME NEW t \in ToSet(plan), AgentFinds(t)
        PROVE  /\ failure' \in {"none", "agent", "no_subject", "no_lots"}
               /\ "rca" \in completed' => authority' = "rca"
               /\ \A i \in DOMAIN findings' : findings'[i].kind = "improvement" => findings'[i].rca = "rca"
    <3>1. Executing(t) /\ InputsFit(t) /\ t \in ToSet(DefaultPlan)
      BY <2>1, <2>8 DEF AgentFinds
    <3>2. PICK data \in Outcomes(t) :
            IF Conflicts(FindingFor(t, data)) THEN FailTask(t, "conflict") ELSE Record(t, FindingFor(t, data))
      BY <2>8 DEF AgentFinds
    <3> DEFINE f == FindingFor(t, data)
    <3>3. /\ f.task = t.id /\ f.agent = t.agent /\ f.kind = t.kind
          /\ t.agent = "improvement" => f.rca = The(t, "rca_reasoning").task
      BY <3>1, FoundFits
    <3> HIDE DEF f
    <3>4. t.id \notin Recorded
      BY <3>1, ExecutingMeans DEF WorkflowBooks, BooksOK
    <3>5. ~Conflicts(f)
      <4> SUFFICES ASSUME NEW i \in DOMAIN findings, f.agent \in Specialists,
                          findings[i].agent = f.agent, findings[i].kind = f.kind
                   PROVE  FALSE
        BY DEF Conflicts
      <4>1. findings[i] \in ToSet(findings) /\ findings[i].task \in Recorded
        BY DEF ToSet, Recorded
      <4>2. PICK u \in ToSet(DefaultPlan) : findings[i].task = u.id /\ findings[i].agent = u.agent /\ findings[i].kind = u.kind
        BY <2>1, <4>1, DefaultFinding
      <4>3. u.agent = t.agent /\ u.kind = t.kind /\ t.agent \in Specialists
        BY <3>3, <4>2
      <4>4. u.id = t.id
        BY <3>1, <4>3, DefaultTaskIs DEF Specialists
      <4>5. QED BY <3>4, <4>1, <4>2, <4>4
    <3>6. Record(t, f)
      BY <3>2, <3>5 DEF f
    <3>7. /\ findings' = Append(findings, f) /\ completed' = completed \union {t.id} /\ failure' = failure
          /\ authority' = IF t.agent = "rca_reasoning" THEN t.id ELSE authority
      BY <3>6 DEF Record
    <3>8. "rca" \in completed' => authority' = "rca"
      BY <2>2, <3>1, <3>7, DefaultTaskIs
    <3>9. f.kind = "improvement" => f.rca = "rca"
      <4> SUFFICES ASSUME f.kind = "improvement" PROVE f.rca = "rca"
        OBVIOUS
      <4>1. t.agent = "improvement"
        BY <3>1, <3>3, DefaultTaskIs
      <4>2. One(t, "rca_reasoning")
        BY <3>1, <4>1, FitMeans DEF RequiredAgents
      <4>3. The(t, "rca_reasoning") \in ToSet(findings) /\ The(t, "rca_reasoning").agent = "rca_reasoning"
        BY <4>2, TheFound DEF By, Inputs
      <4>4. The(t, "rca_reasoning").task = "rca"
        BY <2>1, <4>3, DefaultFinding, DefaultTaskIs
      <4>5. QED BY <3>3, <4>1, <4>4
    <3>10. /\ Len(findings) \in Nat /\ DOMAIN findings = 1..Len(findings) /\ DOMAIN findings' = 1..(Len(findings) + 1)
           /\ \A i \in 1..Len(findings) : findings'[i] = findings[i]
           /\ findings'[Len(findings) + 1] = f
      BY <3>7, AppendedList DEF WorkflowBooks, BooksOK
    <3>11. \A i \in DOMAIN findings' : i \in DOMAIN findings \/ i = Len(findings) + 1
      BY <3>10
    <3>12. QED BY <2>2, <3>7, <3>8, <3>9, <3>10, <3>11
  <2>9. CASE ReportRaises
    <3>1. Cardinality(Improvements) > 1
      BY <2>9 DEF ReportRaises
    <3>2. \A f, g \in Improvements : f = g
      <4> SUFFICES ASSUME NEW f \in Improvements, NEW g \in Improvements PROVE f = g
        OBVIOUS
      <4>1. f \in ToSet(findings) /\ g \in ToSet(findings) /\ f.kind = "improvement" /\ g.kind = "improvement"
        BY DEF Improvements
      <4>2. f.task = "improvement" /\ g.task = "improvement"
        BY <2>1, <4>1, DefaultFinding, DefaultTaskIs
      <4>3. QED BY <4>1, <4>2, SameFinding
    <3>3. CASE Improvements = {}
      BY <3>1, <3>3, FS_EmptySet
    <3>4. CASE Improvements # {}
      <4>1. PICK f \in Improvements : TRUE
        BY <3>4
      <4>2. Improvements = {f}
        BY <3>2
      <4>3. Cardinality(Improvements) = 1
        BY <4>2, FS_Singleton
      <4>4. QED BY <3>1, <4>3
    <3>5. QED BY <3>3, <3>4
  <2>10. \/ StartRound \/ ReportRaises \/ UNCHANGED <<completed, findings, authority, failure>>
         \/ \E t \in ToSet(plan) : TaskHasNoInputs(t) \/ AgentRaises(t) \/ AgentFinds(t)
    BY <1>2 DEF WorkflowNext, PlanByPython, PlanByModel, Start, NoPlan, BeginTask, MakeReport, workflowVars
  <2>11. CASE \E t \in ToSet(plan) : TaskHasNoInputs(t) \/ AgentRaises(t) \/ AgentFinds(t)
    <3>1. PICK t \in ToSet(plan) : TaskHasNoInputs(t) \/ AgentRaises(t) \/ AgentFinds(t)
      BY <2>11
    <3>2. CASE AgentFinds(t)
      BY <2>8, <3>1, <3>2
    <3>3. CASE TaskHasNoInputs(t) \/ AgentRaises(t)
      <4>1. \E why \in {"agent", "no_subject", "no_lots"} : FailTask(t, why)
        BY <2>6, <2>7, <3>3
      <4>2. QED BY <2>2, <2>5, <4>1
    <3>4. QED BY <3>1, <3>2, <3>3
  <2>12. QED BY <2>3, <2>4, <2>9, <2>10, <2>11
<1>3. QED BY <1>1, <1>2

\* What the books and their additions say of the report.
LEMMA ReportFollows ==
  ASSUME WorkflowBooks, DefaultBooks, AdviceRests
  PROVE  ReportIsConsistent
<1>1. FixedPlanIsSound
  <2> SUFFICES ASSUME plan = DefaultPlan
               PROVE  /\ failure \in {"none", "agent", "no_subject", "no_lots"}
                      /\ \A f \in Improvements : f.rca = authority
    BY DEF FixedPlanIsSound
  <2>1. failure \in {"none", "agent", "no_subject", "no_lots"}
    BY DEF DefaultBooks
  <2>2. ASSUME NEW f \in Improvements PROVE f.rca = authority
    <3>1. f \in ToSet(findings) /\ f.kind = "improvement"
      BY DEF Improvements
    <3>2. PICK u \in ToSet(DefaultPlan) : f.task = u.id /\ f.kind = u.kind
      BY <3>1, DefaultFinding
    <3>3. u.id = "improvement"
      BY <3>1, <3>2, DefaultTaskIs
    <3>4. ToSet(u.deps) = {"rca"}
      BY <3>3, DefaultReads
    <3>5. u.id \in completed
      BY <3>1, <3>2 DEF WorkflowBooks, BooksOK, Recorded, ToSet
    <3>6. "rca" \in completed
      BY <3>4, <3>5 DEF WorkflowBooks, BooksOK, ToSet
    <3>7. f.rca = "rca"
      BY <3>1 DEF DefaultBooks, ToSet
    <3>8. QED BY <3>6, <3>7 DEF DefaultBooks
  <2>3. QED BY <2>1, <2>2
<1>2. AdviceIsEarned
  <2> SUFFICES ASSUME NEW f \in Improvements
               PROVE  /\ f.advice \intersect {"corrective", "fab"} # {} => FindingOf(f.rca).data = "supported"
                      /\ "fab" \in f.advice => \E i \in DOMAIN findings : findings[i].data \in {"many", "match"}
    BY DEF AdviceIsEarned
  <2>1. PICK i \in DOMAIN findings : findings[i] = f
    BY DEF Improvements, ToSet
  <2>2. "fab" \in f.advice => \E j \in DOMAIN findings : findings[j].data \in {"many", "match"}
    BY <2>1 DEF AdviceRests
  <2>3. ASSUME f.advice \intersect {"corrective", "fab"} # {} PROVE FindingOf(f.rca).data = "supported"
    <3>1. PICK j \in DOMAIN findings : findings[j].task = f.rca /\ findings[j].data = "supported"
      BY <2>1, <2>3 DEF AdviceRests
    <3>2. \A g : (g \in ToSet(findings) /\ g.task = f.rca) <=> g = findings[j]
      BY <3>1, SameFinding DEF ToSet
    <3>3. FindingOf(f.rca) = findings[j]
      BY <3>2 DEF FindingOf
    <3>4. QED BY <3>1, <3>3
  <2>4. QED BY <2>2, <2>3
<1>3. QED BY <1>1, <1>2 DEF ReportIsConsistent

\* The fixed plan fails only where an agent or the question does, its report is about the
\* authoritative cause, and recommendations follow from what the tasks found
\* (planner_agent.py plan, improvement_agent.py analyze, report_generator.py).
THEOREM ReportsAreConsistent == WorkflowSpec => []ReportIsConsistent
<1>1. WorkflowInit => DefaultBooks /\ AdviceRests
  <2> SUFFICES ASSUME WorkflowInit PROVE DefaultBooks /\ AdviceRests
    OBVIOUS
  <2>1. plan = <<>> /\ findings = <<>>
    BY DEF WorkflowInit
  <2>2. QED BY <2>1, DefaultTasks DEF DefaultBooks, AdviceRests
<1>2. WorkflowBooks /\ WorkflowBooks' /\ (DefaultBooks /\ AdviceRests) /\ [WorkflowNext]_workflowVars
        => (DefaultBooks /\ AdviceRests)'
  BY DefaultKept, AdviceKept
<1>3. WorkflowBooks /\ DefaultBooks /\ AdviceRests => ReportIsConsistent
  BY ReportFollows
<1>4. QED BY <1>1, <1>2, <1>3, WorkflowInvariance, PTL DEF WorkflowSpec
================================================================================
