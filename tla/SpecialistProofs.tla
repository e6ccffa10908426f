-------------------------- MODULE SpecialistProofs --------------------------
(***************************************************************************)
(* Proofs about the specialist agents.                                     *)
(*                                                                         *)
(* SpecialistV2, for any budgets and any configured Tools, whatever the    *)
(* model answers: the invariant counts the Tool calls, and says what the   *)
(* candidates of a step exclude, a Tool that ran and an advanced SPC whose *)
(* fallback would not fit.                                                 *)
(*                                                                         *)
(* FabAnalysis, for any tables of a fab and any request: the invariant     *)
(* says that every answer that a later Tool or a property looks at is what *)
(* its Tool said of these tables, so that each property is one of a Tool's *)
(* output.                                                                 *)
(***************************************************************************)
EXTENDS SpecialistV2, FabAnalysis, FiniteSetTheorems, WellFoundedInduction, TLAPS

Counted ==
  /\ pc # "failed" => spent = Len(executed)
  /\ pc = "start" => executed = <<>>
  /\ pc \notin {"start", "failed"} => allowance > 0 /\ Len(executed) <= Budget
  /\ pc \in {"choose", "run"} => Len(executed) < Budget

\* A model that is asked again has an attempt left.
AsksAgain == pc \in {"choose", "analyze"} => invalid < OutputAttempts

OutcomeFollows ==
  /\ pc = "done" => outcome = "finding"
  /\ pc = "failed" => outcome = "error"
  /\ pc \notin {"done", "failed"} => outcome = "none"

\* What is observed comes from the Tools that ran, one observation a Tool.
Observed ==
  /\ pc \in {"start", "loop", "choose", "run", "spc_fallback"} =>
       Names(effective) = Range(executed)
  /\ Names(effective) \subseteq Range(executed)
  /\ \A o, p \in effective : o.tool = p.tool => o = p
  /\ pc \in {"analyze", "done"} => effective # {}
  /\ pc \notin {"spc_fallback", "failed"} =>
       \A o \in effective : o.tool = "analyze_spc_evidence" => o.found

\* The Tool about to run is a candidate, and an advanced SPC leaves room for the basic one.
ChosenFits ==
  /\ pc = "choose" => Candidates # {}
  /\ pc = "run" => chosen \in Candidates
  /\ pc = "spc_fallback" =>
       /\ FallbackFits
       /\ action.agent = "fdc"
       /\ "perform_basic_spc_analysis" \notin Range(executed)

\* A MES Specialist first resolves what it searches from.
MesOrder ==
  action.agent = "mes" =>
    IF action.lot
    THEN executed \in {<<>>, <<"get_lot_context">>, <<"get_lot_context", "find_impact_lots">>}
    ELSE executed \in {<<>>, <<"find_affected_lots">>,
                       <<"find_affected_lots", "analyze_lot_genealogy">>}

ExposureKnown ==
  \/ action.agent # "mes"
  \/ ExposureSource # "none"
  \/ Budget = 1
  \/ action.lot /\ "find_impact_lots" \notin tools
  \/ ~action.lot /\ "analyze_lot_genealogy" \notin tools
  \/ \E o \in effective : o.tool = "find_affected_lots" /\ ~o.found

Complete ==
  pc \in {"assemble", "analyze", "done"} /\ effective # {} => ExposureKnown

IInv ==
  /\ TypeOK /\ Counted /\ AsksAgain /\ OutcomeFollows /\ Observed /\ ChosenFits
  /\ MesOrder /\ Complete /\ NoToolTwice /\ FallbackAlwaysFits

-----------------------------------------------------------------------------
\* What Append adds to a sequence, and what it keeps.
LEMMA AppendFacts ==
  ASSUME NEW S, NEW s \in Seq(S), NEW t \in S
  PROVE  /\ Append(s, t) \in Seq(S)
         /\ Len(Append(s, t)) = Len(s) + 1
         /\ Range(Append(s, t)) = Range(s) \cup {t}
         /\ IsInjective(s) /\ t \notin Range(s) => IsInjective(Append(s, t))
<1> DEFINE a == Append(s, t)
<1>1. /\ a \in Seq(S) /\ Len(a) = Len(s) + 1 /\ Len(s) \in Nat
      /\ DOMAIN a = 1..(Len(s) + 1) /\ DOMAIN s = 1..Len(s)
      /\ \A i \in 1..Len(s) : a[i] = s[i]
      /\ a[Len(s) + 1] = t
  OBVIOUS
<1> HIDE DEF a
<1>2. Range(a) = Range(s) \cup {t}
  <2>1. \A i \in DOMAIN a : i \in DOMAIN s \/ i = Len(s) + 1
    BY <1>1
  <2>2. Range(a) \subseteq Range(s) \cup {t}
    BY <1>1, <2>1 DEF Range
  <2>3. DOMAIN s \subseteq DOMAIN a /\ Len(s) + 1 \in DOMAIN a
    BY <1>1
  <2>4. Range(s) \cup {t} \subseteq Range(a)
    BY <1>1, <2>3 DEF Range
  <2>5. QED BY <2>2, <2>4
<1>3. ASSUME IsInjective(s), t \notin Range(s) PROVE IsInjective(a)
  <2> SUFFICES ASSUME NEW i \in DOMAIN a, NEW j \in DOMAIN a, a[i] = a[j] PROVE i = j
    BY DEF IsInjective
  <2>1. \A k \in DOMAIN s : s[k] # t
    BY <1>3 DEF Range
  <2>2. CASE i \in DOMAIN s /\ j \in DOMAIN s
    BY <1>1, <1>3, <2>2 DEF IsInjective
  <2>3. CASE i \notin DOMAIN s
    BY <1>1, <2>1, <2>3
  <2>4. CASE j \notin DOMAIN s
    BY <1>1, <2>1, <2>4
  <2>5. QED BY <2>2, <2>3, <2>4
<1>4. QED BY <1>1, <1>2, <1>3 DEF a

LEMMA AppendToOne ==
  ASSUME NEW x, NEW y
  PROVE  Append(<<x>>, y) = <<x, y>>
<1> DEFINE S == {x, y}
           a == Append(<<x>>, y)
           b == <<x, y>>
<1>1. <<x>> \in Seq(S) /\ Len(<<x>>) = 1
  OBVIOUS
<1>2. a \in Seq(S) /\ Len(a) = 2 /\ a[1] = x /\ a[2] = y
  BY <1>1
<1>3. b \in Seq(S) /\ Len(b) = 2 /\ b[1] = x /\ b[2] = y
  OBVIOUS
<1> HIDE DEF a, b, S
<1>4. a \in [1..2 -> S] /\ b \in [1..2 -> S]
  BY <1>2, <1>3
<1>5. \A i \in 1..2 : a[i] = b[i]
  BY <1>2, <1>3
<1>6. a = b
  BY <1>4, <1>5
<1>7. QED BY <1>6 DEF a, b

LEMMA ToolsByDomain ==
  /\ Agents = {"mes", "fdc", "defect", "knowledge"}
  /\ DomainTools["mes"] = {"get_lot_context", "find_impact_lots",
                           "find_affected_lots", "analyze_lot_genealogy"}
  /\ DomainTools["fdc"] = {"analyze_parameter_shift", "find_ooc_events",
                           "perform_basic_spc_analysis", "analyze_spc_evidence"}
  /\ DomainTools["defect"] = {"summarize_defect_wat"}
  /\ DomainTools["knowledge"] = {"retrieve_similar_case"}
BY DEF Agents, DomainTools

LEMMA ToolsAreTools ==
  ASSUME TypeOK, NEW t \in DomainTools[action.agent]
  PROVE  t \in AllTools
<1>1. action.agent \in Agents
  BY DEF TypeOK
<1>2. QED BY <1>1 DEF AllTools

\* Every Tool of the allowlist has its place in the deterministic order.
LEMMA PreferenceCovers ==
  ASSUME TypeOK, NEW t \in Candidates
  PROVE  \E i \in DOMAIN Preference : Preference[i] = t
<1>0. action.agent \in Agents /\ action.spcCheck \in BOOLEAN
  BY DEF TypeOK
<1>1. t \in DomainTools[action.agent]
  BY DEF Candidates
<1>2. CASE action.agent = "fdc" /\ action.spcCheck
  BY <1>1, <1>2, ToolsByDomain DEF Preference
<1>3. CASE action.agent = "fdc" /\ ~action.spcCheck
  BY <1>1, <1>3, ToolsByDomain DEF Preference
<1>4. CASE action.agent = "mes"
  BY <1>1, <1>4, ToolsByDomain DEF Preference
<1>5. CASE action.agent = "defect"
  BY <1>1, <1>5, ToolsByDomain DEF Preference
<1>6. CASE action.agent = "knowledge"
  BY <1>1, <1>6, ToolsByDomain DEF Preference
<1>7. QED BY <1>0, <1>2, <1>3, <1>4, <1>5, <1>6, ToolsByDomain

LEMMA PreferenceLength == DOMAIN Preference \in {1..4, 1..6}
<1>1. CASE action.agent = "fdc" /\ action.spcCheck
  BY <1>1 DEF Preference
<1>2. CASE action.agent = "fdc" /\ ~action.spcCheck
  BY <1>2 DEF Preference
<1>3. CASE action.agent # "fdc"
  BY <1>3 DEF Preference
<1>4. QED BY <1>1, <1>2, <1>3

\* The deterministic choice is one of the candidates.
LEMMA DeterministicIsCandidate ==
  ASSUME TypeOK, Candidates # {}
  PROVE  DeterministicDecision \in Candidates
<1> DEFINE Hit(i) == i \in DOMAIN Preference /\ Preference[i] \in Candidates
<1>1. PICK t \in Candidates : TRUE
  OBVIOUS
<1>2. \E i \in DOMAIN Preference : Hit(i)
  BY <1>1, PreferenceCovers
<1>3. \A i \in DOMAIN Preference : i \in 1..6
  BY PreferenceLength
<1>3a. \A i \in DOMAIN Preference : \A j \in 1..(i - 1) : j \in DOMAIN Preference
  BY PreferenceLength
<1> HIDE DEF Hit
<1>4. \E i \in 1..6 : Hit(i) /\ \A j \in 1..(i - 1) : ~Hit(j)
  <2>1. CASE Hit(1)
    BY <2>1
  <2>2. CASE ~Hit(1) /\ Hit(2)
    BY <2>2
  <2>3. CASE ~Hit(1) /\ ~Hit(2) /\ Hit(3)
    BY <2>3
  <2>4. CASE ~Hit(1) /\ ~Hit(2) /\ ~Hit(3) /\ Hit(4)
    BY <2>4
  <2>5. CASE ~Hit(1) /\ ~Hit(2) /\ ~Hit(3) /\ ~Hit(4) /\ Hit(5)
    BY <2>5
  <2>6. CASE ~Hit(1) /\ ~Hit(2) /\ ~Hit(3) /\ ~Hit(4) /\ ~Hit(5) /\ Hit(6)
    BY <2>6
  <2>7. QED BY <1>2, <1>3, <2>1, <2>2, <2>3, <2>4, <2>5, <2>6
<1>5. PICK i \in 1..6 : Hit(i) /\ \A j \in 1..(i - 1) : ~Hit(j)
  BY <1>4
<1>6. /\ Preference[i] \in Candidates /\ i \in DOMAIN Preference
      /\ \A j \in 1..(i - 1) : Preference[j] \notin Candidates
  BY <1>5, <1>3a DEF Hit
<1>7. QED BY <1>6 DEF DeterministicDecision

\* What a candidate excludes.
LEMMA CandidateFacts ==
  ASSUME TypeOK, NEW t \in Candidates
  PROVE  /\ t \notin Range(executed) /\ t \in AllTools
         /\ t = "analyze_spc_evidence" =>
              /\ action.agent = "fdc" /\ Remaining >= 2
              /\ "perform_basic_spc_analysis" \in tools
              /\ "perform_basic_spc_analysis" \notin Names(effective)
         /\ action.agent = "mes" => t \in MesCandidates
<1>1. t \notin Range(executed) /\ t \in DomainTools[action.agent] /\ t \in DomainCandidates
  BY DEF Candidates
<1>2. t \in AllTools
  BY <1>1, ToolsAreTools
<1>3. action.agent \in Agents
  BY DEF TypeOK
<1>4. ASSUME t = "analyze_spc_evidence"
      PROVE  action.agent = "fdc" /\ t \in FdcCandidates
  <2>1. action.agent = "fdc"
    BY <1>1, <1>3, <1>4, ToolsByDomain
  <2>2. QED BY <2>1, <1>1 DEF DomainCandidates
<1>5. ASSUME t = "analyze_spc_evidence"
      PROVE  /\ Remaining >= 2 /\ "perform_basic_spc_analysis" \in tools
             /\ "perform_basic_spc_analysis" \notin Names(effective)
  BY <1>4, <1>5 DEF FdcCandidates, SpcTools
<1>6. action.agent = "mes" => t \in MesCandidates
  BY <1>1 DEF DomainCandidates
<1>7. QED BY <1>1, <1>2, <1>4, <1>5, <1>6

\* The budget of a step and its use are numbers; a positive allowance gives a budget.
LEMMA BudgetFacts ==
  ASSUME TypeOK
  PROVE  /\ allowance \in Int /\ Budget \in Int /\ Len(executed) \in Nat
         /\ allowance > 0 => Budget >= 1
         /\ Remaining = Budget - Len(executed)
BY LimitsAssumption DEF TypeOK, Budget, Remaining

-----------------------------------------------------------------------------
LEMMA InitIInv == Init => IInv
<1> SUFFICES ASSUME Init PROVE IInv
  OBVIOUS
<1> USE LimitsAssumption
<1>1. TypeOK
  BY DEF Init, TypeOK
<1>2. Counted /\ AsksAgain /\ OutcomeFollows
  BY DEF Init, Counted, AsksAgain, OutcomeFollows
<1>3. Observed
  BY DEF Init, Observed, Names, Range
<1>4. ChosenFits /\ Complete /\ NoToolTwice /\ FallbackAlwaysFits
  BY DEF Init, ChosenFits, Complete, NoToolTwice, FallbackAlwaysFits, IsInjective
<1>5. MesOrder
  BY DEF Init, MesOrder
<1>6. QED BY <1>1, <1>2, <1>3, <1>4, <1>5 DEF IInv

\* Steps that run no Tool: what they have to keep.
LEMMA QuietSteps ==
  ASSUME IInv,
         UNCHANGED <<action, tools, allowance, executed, effective, spent>>,
         TypeOK', Counted', AsksAgain', OutcomeFollows', FallbackAlwaysFits', Complete',
         pc' = "choose" => Candidates # {},
         pc' = "run" => chosen' \in Candidates,
         pc' # "spc_fallback" \/ pc = "spc_fallback",
         pc # "spc_fallback" \/ pc' = "spc_fallback",
         pc # "failed" \/ pc' = "failed",
         pc' \in {"start", "loop", "choose", "run"} => pc \in {"start", "loop", "choose", "run"},
         pc' \in {"analyze", "done"} => effective # {}
  PROVE  IInv'
<1>2. Observed'
  BY DEF IInv, Observed
<1>3. Candidates' = Candidates
  BY DEF Candidates, DomainCandidates, MesCandidates, FdcCandidates, Remaining, Budget
<1>4. ChosenFits'
  <2>1. pc' = "spc_fallback" => FallbackFits' /\ action'.agent = "fdc"
            /\ "perform_basic_spc_analysis" \notin Range(executed')
    BY DEF IInv, ChosenFits, FallbackFits, Remaining, Budget
  <2>2. QED BY <1>3, <2>1 DEF ChosenFits
<1>5. MesOrder' /\ NoToolTwice'
  BY DEF IInv, MesOrder, NoToolTwice
<1>6. QED BY <1>2, <1>4, <1>5 DEF IInv

LEMMA StartStep ==
  ASSUME IInv, Start
  PROVE  IInv'
<1>0. /\ pc = "start" /\ executed = <<>> /\ outcome = "none"
      /\ \/ pc' = "loop" /\ allowance > 0 /\ UNCHANGED <<outcome, reason>>
         \/ pc' = "failed" /\ outcome' = "error" /\ reason' = "tool_budget_exhausted"
      /\ UNCHANGED <<request, chosen, invalid, executed, effective, spent>>
  BY DEF Start, Fail, IInv, Counted, OutcomeFollows
<1>1. TypeOK'
  BY <1>0 DEF request, IInv, TypeOK
<1>2. Counted'
  BY <1>0, BudgetFacts DEF request, IInv, Counted, Budget
<1>3. AsksAgain' /\ OutcomeFollows' /\ FallbackAlwaysFits' /\ Complete'
  BY <1>0 DEF IInv, AsksAgain, OutcomeFollows, FallbackAlwaysFits, Complete
<1>4. QED BY <1>0, <1>1, <1>2, <1>3, QuietSteps DEF request

\* With nothing left to run, a MES Specialist knows the exposure or cannot.
LEMMA ExhaustedMesIsComplete ==
  ASSUME IInv, action.agent = "mes", pc \in {"loop", "choose"}, effective # {},
         Candidates = {} \/ Remaining <= 0 \/ CanFinish
  PROVE  ExposureKnown
<1>0. TypeOK /\ Names(effective) = Range(executed)
  BY DEF IInv, Observed
<1>1. executed # <<>>
  <2>1. Names(effective) # {}
    BY DEF Names
  <2>2. Range(<<>>) = {}
    BY DEF Range
  <2>3. QED BY <1>0, <2>1, <2>2
<1>2. DomainTools["mes"] = {"get_lot_context", "find_impact_lots",
                            "find_affected_lots", "analyze_lot_genealogy"}
  BY ToolsByDomain
<1>3. CASE action.lot
  <2>1. executed \in {<<"get_lot_context">>, <<"get_lot_context", "find_impact_lots">>}
    BY <1>1, <1>3 DEF IInv, MesOrder
  <2>2. CASE executed = <<"get_lot_context", "find_impact_lots">>
    <3>1. "find_impact_lots" \in Names(effective)
      BY <1>0, <2>2 DEF Range
    <3>2. QED BY <3>1 DEF ExposureKnown, ExposureSource
  <2>3. CASE executed = <<"get_lot_context">>
    <3>1. Names(effective) = {"get_lot_context"} /\ Len(executed) = 1
      BY <1>0, <2>3 DEF Range
    <3>2. Remaining <= 0 => Budget = 1
      BY <1>0, <3>1, BudgetFacts DEF IInv, Counted
    <3>3. ~CanFinish
      BY <3>1 DEF CanFinish
    <3>4. Candidates = {} => "find_impact_lots" \notin tools
      <4>1. "find_impact_lots" \in DomainCandidates
        BY <3>1, <1>3 DEF DomainCandidates, MesCandidates
      <4>2. "find_impact_lots" \notin Range(executed)
        BY <3>1, <1>0
      <4>3. QED BY <4>1, <4>2, <1>2 DEF Candidates
    <3>5. QED BY <1>3, <3>2, <3>3, <3>4 DEF ExposureKnown
  <2>4. QED BY <2>1, <2>2, <2>3
<1>4. CASE ~action.lot
  <2>1. executed \in {<<"find_affected_lots">>, <<"find_affected_lots", "analyze_lot_genealogy">>}
    BY <1>1, <1>4 DEF IInv, MesOrder
  <2>2. CASE executed = <<"find_affected_lots", "analyze_lot_genealogy">>
    <3>1. "analyze_lot_genealogy" \in Names(effective)
      BY <1>0, <2>2 DEF Range
    <3>2. ExposureSource # "none"
      BY <3>1 DEF ExposureSource
    <3>3. QED BY <3>2 DEF ExposureKnown
  <2>3. CASE executed = <<"find_affected_lots">>
    <3>1. Names(effective) = {"find_affected_lots"} /\ Len(executed) = 1
      BY <1>0, <2>3 DEF Range
    <3>2. Remaining <= 0 => Budget = 1
      BY <1>0, <3>1, BudgetFacts DEF IInv, Counted
    <3>3. CanFinish => \E o \in effective : o.tool = "find_affected_lots" /\ ~o.found
      BY <3>1 DEF CanFinish
    <3>4. ASSUME Candidates = {}
          PROVE  \/ "analyze_lot_genealogy" \notin tools
                 \/ \E o \in effective : o.tool = "find_affected_lots" /\ ~o.found
      <4>1. PICK o \in effective : o.tool = "find_affected_lots"
        BY <3>1 DEF Names
      <4>2. CASE ~o.found
        BY <4>1, <4>2
      <4>3. CASE o.found
        <5>1. "analyze_lot_genealogy" \in DomainCandidates
          BY <3>1, <1>4, <4>1, <4>3 DEF DomainCandidates, MesCandidates
        <5>2. "analyze_lot_genealogy" \notin Range(executed)
          BY <3>1, <1>0
        <5>3. QED BY <5>1, <5>2, <1>2, <3>4 DEF Candidates
      <4>4. QED BY <4>2, <4>3
    <3>5. QED BY <1>4, <3>2, <3>3, <3>4 DEF ExposureKnown
  <2>4. QED BY <2>1, <2>2, <2>3
<1>5. QED BY <1>3, <1>4

LEMMA LoopHeadStep ==
  ASSUME IInv, LoopHead
  PROVE  IInv'
<1>0. /\ pc = "loop" /\ outcome = "none" /\ TypeOK
      /\ UNCHANGED <<action, tools, direct, allowance, executed, effective, spent>>
  BY DEF LoopHead, request, IInv, OutcomeFollows
<1>1. CASE pc' = "assemble" /\ (Candidates = {} \/ Remaining <= 0)
           /\ UNCHANGED <<outcome, chosen, invalid>>
           /\ reason' # "advanced_spc_fallback_unavailable"
  <2>1. TypeOK' /\ AsksAgain' /\ OutcomeFollows' /\ FallbackAlwaysFits'
    BY <1>0, <1>1 DEF TypeOK, AsksAgain, OutcomeFollows, FallbackAlwaysFits
  <2>2. Counted'
    BY <1>0, <1>1 DEF IInv, Counted, Budget
  <2>3. action.agent = "mes" /\ effective # {} => ExposureKnown
    BY <1>0, <1>1, ExhaustedMesIsComplete
  <2>4. effective # {} => ExposureKnown'
    BY <1>0, <2>3 DEF ExposureKnown, ExposureSource, Budget
  <2>5. Complete'
    BY <1>0, <2>4 DEF Complete
  <2>6. QED BY <1>0, <1>1, <2>1, <2>2, <2>5, QuietSteps
<1>2. CASE Fail("missing_scope") /\ UNCHANGED <<chosen, invalid>>
  <2>1. TypeOK' /\ AsksAgain' /\ OutcomeFollows' /\ FallbackAlwaysFits' /\ Complete'
    BY <1>0, <1>2 DEF Fail, TypeOK, AsksAgain, OutcomeFollows, FallbackAlwaysFits, Complete
  <2>2. pc' = "failed"
    BY <1>2 DEF Fail
  <2>3. Counted'
    BY <2>2 DEF Counted
  <2>4. QED BY <1>0, <2>1, <2>2, <2>3, QuietSteps
<1>3. CASE /\ Remaining > 0 /\ Candidates # {} /\ invalid' = 0 /\ UNCHANGED <<outcome, reason>>
           /\ \/ pc' = "run" /\ chosen' = DeterministicDecision
              \/ pc' = "choose" /\ chosen' = NoTool
  <2>1. pc' = "run" => chosen' \in Candidates
    BY <1>0, <1>3, DeterministicIsCandidate
  <2>2. pc' = "run" => chosen' \in AllTools
    BY <1>0, <2>1, CandidateFacts
  <2>3. TypeOK' /\ AsksAgain' /\ OutcomeFollows' /\ FallbackAlwaysFits' /\ Complete'
    BY <1>0, <1>3, <2>2, LimitsAssumption
      DEF IInv, TypeOK, AsksAgain, OutcomeFollows, FallbackAlwaysFits, Complete
  <2>4. Len(executed) < Budget
    BY <1>0, <1>3, BudgetFacts
  <2>5. Counted'
    BY <1>0, <1>3, <2>4 DEF IInv, Counted, Budget
  <2>6. QED BY <1>0, <1>3, <2>1, <2>3, <2>5, QuietSteps
<1>4. QED BY <1>0, <1>1, <1>2, <1>3 DEF LoopHead, IInv, FallbackAlwaysFits

LEMMA ModelChoosesStep ==
  ASSUME IInv, ModelChooses
  PROVE  IInv'
<1>0. /\ pc = "choose" /\ TypeOK
      /\ UNCHANGED <<action, tools, direct, allowance, executed, effective, spent, outcome>>
  BY DEF ModelChooses, request, IInv
<1>1. Candidates # {} /\ outcome = "none"
  BY <1>0 DEF IInv, ChosenFits, OutcomeFollows
<1>2. ASSUME pc' = "run", chosen' \in Candidates, invalid' \in 0..OutputAttempts, UNCHANGED reason
      PROVE  IInv'
  <2>1. TypeOK' /\ AsksAgain' /\ OutcomeFollows' /\ FallbackAlwaysFits' /\ Complete'
    BY <1>0, <1>1, <1>2, CandidateFacts
      DEF IInv, TypeOK, AsksAgain, OutcomeFollows, FallbackAlwaysFits, Complete
  <2>2. Counted'
    BY <1>0, <1>2 DEF IInv, Counted, Budget
  <2>3. QED BY <1>0, <1>2, <2>1, <2>2, QuietSteps
<1>3. CASE CanFinish /\ pc' = "assemble" /\ reason' = "specialist_finished" /\ UNCHANGED <<chosen, invalid>>
  <2>1. TypeOK' /\ AsksAgain' /\ OutcomeFollows' /\ FallbackAlwaysFits'
    BY <1>0, <1>1, <1>3 DEF TypeOK, AsksAgain, OutcomeFollows, FallbackAlwaysFits
  <2>2. Counted'
    BY <1>0, <1>3 DEF IInv, Counted, Budget
  <2>3. action.agent = "mes" /\ effective # {} => ExposureKnown
    BY <1>0, <1>3, ExhaustedMesIsComplete
  <2>4. effective # {} => ExposureKnown'
    BY <1>0, <2>3 DEF ExposureKnown, ExposureSource, Budget
  <2>5. Complete'
    BY <1>0, <2>4 DEF Complete
  <2>6. QED BY <1>0, <1>3, <2>1, <2>2, <2>5, QuietSteps
<1>4. CASE invalid' = invalid + 1 /\ invalid' < OutputAttempts /\ UNCHANGED <<pc, chosen, reason>>
  <2>1. TypeOK' /\ AsksAgain' /\ OutcomeFollows' /\ FallbackAlwaysFits' /\ Complete'
    BY <1>0, <1>1, <1>4, LimitsAssumption
      DEF IInv, TypeOK, AsksAgain, OutcomeFollows, FallbackAlwaysFits, Complete
  <2>2. Counted'
    BY <1>0, <1>4 DEF IInv, Counted, Budget
  <2>3. QED BY <1>0, <1>1, <1>4, <2>1, <2>2, QuietSteps
<1>5. invalid < OutputAttempts
  BY <1>0 DEF IInv, AsksAgain
<1>6. CASE pc' = "run" /\ chosen' = DeterministicDecision /\ invalid' = invalid + 1 /\ UNCHANGED reason
  BY <1>0, <1>1, <1>2, <1>5, <1>6, DeterministicIsCandidate, LimitsAssumption DEF TypeOK
<1>7. CASE pc' = "run" /\ chosen' \in Candidates /\ UNCHANGED <<invalid, reason>>
  BY <1>0, <1>2, <1>7 DEF TypeOK
<1>8. QED BY <1>3, <1>4, <1>6, <1>7 DEF ModelChooses

\* A Tool that returned joins the Tools that ran and the observations.
LEMMA RunToolStep ==
  ASSUME IInv, RunTool
  PROVE  IInv'
<1>0. /\ pc = "run" /\ outcome = "none" /\ chosen \in Candidates
      /\ TypeOK /\ IsInjective(executed) /\ Names(effective) = Range(executed)
      /\ spent = Len(executed) /\ allowance > 0 /\ Len(executed) < Budget
      /\ \A o \in effective : o.tool = "analyze_spc_evidence" => o.found
  BY DEF RunTool, IInv, OutcomeFollows, ChosenFits, NoToolTwice, Observed, Counted
<1>1. PICK o \in Observation :
        /\ o.tool = chosen
        /\ executed' = Append(executed, chosen)
        /\ effective' = effective \cup {o}
        /\ pc' = IF chosen = "analyze_spc_evidence" /\ ~o.found THEN "spc_fallback" ELSE "loop"
  BY DEF RunTool
<1>2. spent' = spent + 1 /\ UNCHANGED <<action, tools, direct, allowance, chosen, invalid, outcome, reason>>
  BY DEF RunTool, request
<1>3. /\ chosen \notin Range(executed) /\ chosen \in AllTools
      /\ chosen = "analyze_spc_evidence" =>
           /\ action.agent = "fdc" /\ Remaining >= 2
           /\ "perform_basic_spc_analysis" \in tools
           /\ "perform_basic_spc_analysis" \notin Names(effective)
      /\ action.agent = "mes" => chosen \in MesCandidates
  BY <1>0, CandidateFacts
<1>4. /\ executed' \in Seq(AllTools) /\ Len(executed') = Len(executed) + 1
      /\ Range(executed') = Range(executed) \cup {chosen} /\ IsInjective(executed')
  BY <1>0, <1>1, <1>3, AppendFacts DEF TypeOK
<1>5. Len(executed) \in Nat /\ Budget \in Int
  BY <1>0, BudgetFacts
<1>6. TypeOK'
  BY <1>0, <1>1, <1>2, <1>4 DEF TypeOK
<1>7. Counted'
  BY <1>0, <1>1, <1>2, <1>4, <1>5 DEF Counted, Budget
<1>8. AsksAgain' /\ OutcomeFollows' /\ NoToolTwice' /\ FallbackAlwaysFits' /\ Complete'
  BY <1>0, <1>1, <1>2, <1>4
    DEF IInv, AsksAgain, OutcomeFollows, NoToolTwice, FallbackAlwaysFits, Complete
<1>9. Observed'
  <2>1. Names(effective)' = Names(effective) \cup {chosen}
    BY <1>1 DEF Names
  <2>2. \A p \in effective : p.tool # chosen
    BY <1>0, <1>3 DEF Names
  <2>3. \A p, q \in effective' : p.tool = q.tool => p = q
    BY <1>1, <2>2 DEF IInv, Observed
  <2>4. pc' # "spc_fallback" => \A p \in effective' : p.tool = "analyze_spc_evidence" => p.found
    BY <1>0, <1>1
  <2>5. QED BY <1>0, <1>1, <1>4, <2>1, <2>3, <2>4 DEF Observed
<1>10. ChosenFits'
  <2>1. ASSUME chosen = "analyze_spc_evidence"
        PROVE  FallbackFits' /\ action'.agent = "fdc" /\ "perform_basic_spc_analysis" \notin Range(executed')
    <3>1. Remaining' > 0
      BY <1>2, <1>3, <1>4, <1>5, <2>1 DEF Remaining, Budget
    <3>2. QED BY <1>0, <1>2, <1>3, <1>4, <2>1, <3>1 DEF FallbackFits
  <2>2. QED BY <1>1, <2>1 DEF ChosenFits
<1>11. MesOrder'
  <2> SUFFICES ASSUME action.agent = "mes" PROVE MesOrder'
    BY <1>2 DEF MesOrder
  <2>1. chosen \in MesCandidates
    BY <1>3
  <2>2. CASE action.lot
    <3>1. CASE executed = <<>>
      <4>1. Names(effective) = {}
        BY <1>0, <3>1 DEF Range
      <4>2. chosen = "get_lot_context"
        BY <2>1, <2>2, <4>1 DEF MesCandidates
      <4>3. QED BY <1>1, <1>2, <2>2, <3>1, <4>2 DEF MesOrder
    <3>2. CASE executed = <<"get_lot_context">>
      <4>1. Names(effective) = {"get_lot_context"}
        BY <1>0, <3>2 DEF Range
      <4>2. chosen = "find_impact_lots"
        BY <2>1, <2>2, <4>1 DEF MesCandidates
      <4>3. Append(<<"get_lot_context">>, "find_impact_lots") = <<"get_lot_context", "find_impact_lots">>
        BY AppendToOne
      <4>4. executed' = <<"get_lot_context", "find_impact_lots">>
        BY <1>1, <3>2, <4>2, <4>3
      <4>5. QED BY <1>2, <2>2, <4>4 DEF MesOrder
    <3>3. CASE executed = <<"get_lot_context", "find_impact_lots">>
      <4>1. Names(effective) = {"get_lot_context", "find_impact_lots"}
        BY <1>0, <3>3 DEF Range
      <4>2. QED BY <2>1, <2>2, <4>1 DEF MesCandidates
    <3>4. QED BY <2>2, <3>1, <3>2, <3>3 DEF IInv, MesOrder
  <2>3. CASE ~action.lot
    <3>1. CASE executed = <<>>
      <4>1. Names(effective) = {}
        BY <1>0, <3>1 DEF Range
      <4>2. chosen = "find_affected_lots"
        BY <2>1, <2>3, <4>1 DEF MesCandidates
      <4>3. QED BY <1>1, <1>2, <2>3, <3>1, <4>2 DEF MesOrder
    <3>2. CASE executed = <<"find_affected_lots">>
      <4>1. Names(effective) = {"find_affected_lots"}
        BY <1>0, <3>2 DEF Range
      <4>2. chosen = "analyze_lot_genealogy"
        BY <2>1, <2>3, <4>1 DEF MesCandidates
      <4>3. Append(<<"find_affected_lots">>, "analyze_lot_genealogy") = <<"find_affected_lots", "analyze_lot_genealogy">>
        BY AppendToOne
      <4>4. executed' = <<"find_affected_lots", "analyze_lot_genealogy">>
        BY <1>1, <3>2, <4>2, <4>3
      <4>5. QED BY <1>2, <2>3, <4>4 DEF MesOrder
    <3>3. CASE executed = <<"find_affected_lots", "analyze_lot_genealogy">>
      <4>1. Names(effective) = {"find_affected_lots", "analyze_lot_genealogy"}
        BY <1>0, <3>3 DEF Range
      <4>2. QED BY <2>1, <2>3, <4>1 DEF MesCandidates
    <3>4. QED BY <2>3, <3>1, <3>2, <3>3 DEF IInv, MesOrder
  <2>4. QED BY <2>2, <2>3
<1>12. QED BY <1>6, <1>7, <1>8, <1>9, <1>10, <1>11 DEF IInv

\* The basic SPC fits whenever it has to replace the advanced one.
LEMMA SpcFallbackStep ==
  ASSUME IInv, SpcFallback
  PROVE  IInv' /\ spent' = spent + 1 /\ outcome' = outcome
<1> DEFINE basic == "perform_basic_spc_analysis"
<1>0. /\ pc = "spc_fallback" /\ outcome = "none" /\ TypeOK /\ FallbackFits
      /\ action.agent = "fdc" /\ basic \notin Range(executed)
      /\ spent = Len(executed) /\ allowance > 0 /\ IsInjective(executed)
      /\ Names(effective) = Range(executed)
  BY DEF SpcFallback, IInv, OutcomeFollows, ChosenFits, NoToolTwice, Observed, Counted
<1>1. BasicInstead /\ UNCHANGED <<action, tools, direct, allowance, chosen, invalid>>
  BY <1>0 DEF SpcFallback, request
<1>2. PICK o \in Observation :
        /\ o.tool = basic
        /\ executed' = Append(executed, o.tool)
        /\ effective' = {p \in effective : p.tool # "analyze_spc_evidence"} \cup {o}
  BY <1>1 DEF BasicInstead
<1>3. /\ spent' = spent + 1 /\ pc' = "assemble" /\ outcome' = outcome
      /\ reason' = "advanced_spc_fell_back_to_basic"
  BY <1>1 DEF BasicInstead
<1>4. basic \in AllTools
  BY <1>2 DEF Observation
<1>5. /\ executed' \in Seq(AllTools) /\ Len(executed') = Len(executed) + 1
      /\ Range(executed') = Range(executed) \cup {basic} /\ IsInjective(executed')
  BY <1>0, <1>2, <1>4, AppendFacts DEF TypeOK
<1>6. Len(executed) \in Nat /\ Budget \in Int /\ Len(executed) < Budget
  BY <1>0, BudgetFacts DEF FallbackFits
<1>7. TypeOK'
  BY <1>0, <1>1, <1>2, <1>3, <1>5 DEF TypeOK
<1>8. Counted'
  BY <1>0, <1>1, <1>3, <1>5, <1>6 DEF Counted, Budget
<1>9. AsksAgain' /\ OutcomeFollows' /\ NoToolTwice' /\ FallbackAlwaysFits' /\ ChosenFits'
  BY <1>0, <1>3, <1>5 DEF AsksAgain, OutcomeFollows, NoToolTwice, FallbackAlwaysFits, ChosenFits
<1>10. Observed'
  <2>1. Names(effective)' \subseteq Names(effective) \cup {basic}
    BY <1>2 DEF Names
  <2>2. \A p \in effective : p.tool # basic
    BY <1>0 DEF Names
  <2>3. \A p, q \in effective' : p.tool = q.tool => p = q
    BY <1>2, <2>2 DEF IInv, Observed
  <2>4. \A p \in effective' : p.tool = "analyze_spc_evidence" => p.found
    BY <1>2
  <2>5. QED BY <1>0, <1>3, <1>5, <2>1, <2>3, <2>4 DEF Observed
<1>11. MesOrder' /\ Complete'
  BY <1>0, <1>1 DEF MesOrder, Complete, ExposureKnown
<1>12. QED BY <1>3, <1>7, <1>8, <1>9, <1>10, <1>11 DEF IInv

LEMMA ToolFailsStep ==
  ASSUME IInv, ToolFails
  PROVE  /\ IInv' /\ outcome = "none" /\ spent < Budget
         /\ spent' = spent + 1 /\ outcome' = "error" /\ allowance' = allowance
<1>0. /\ pc \in {"run", "spc_fallback"} /\ outcome = "none" /\ TypeOK
      /\ spent = Len(executed) /\ NoToolTwice
  BY DEF ToolFails, IInv, OutcomeFollows, Counted
<1>1. /\ pc' = "failed" /\ outcome' = "error" /\ reason' = "tool_call_failed" /\ spent' = spent + 1
      /\ UNCHANGED <<action, tools, direct, allowance, chosen, invalid, executed, effective>>
  BY DEF ToolFails, Fail, request
<1>2. spent < Budget
  <2>1. CASE pc = "run"
    BY <1>0, <2>1 DEF IInv, Counted
  <2>2. CASE pc = "spc_fallback"
    BY <1>0, <2>2, BudgetFacts DEF IInv, ChosenFits, FallbackFits
  <2>3. QED BY <1>0, <2>1, <2>2
<1>3. TypeOK' /\ Counted' /\ AsksAgain' /\ OutcomeFollows' /\ NoToolTwice' /\ FallbackAlwaysFits'
      /\ ChosenFits' /\ MesOrder' /\ Complete'
  BY <1>0, <1>1 DEF IInv, TypeOK, Counted, AsksAgain, OutcomeFollows, NoToolTwice,
    FallbackAlwaysFits, ChosenFits, MesOrder, Complete
<1>4. Names(effective) \subseteq Range(executed) /\ \A o, p \in effective : o.tool = p.tool => o = p
  BY DEF IInv, Observed
<1>5. QED BY <1>0, <1>1, <1>2, <1>3, <1>4 DEF IInv, Observed

LEMMA AssembleStep ==
  ASSUME IInv, Assemble
  PROVE  IInv'
<1>0. /\ pc = "assemble" /\ outcome = "none" /\ TypeOK
      /\ UNCHANGED <<action, tools, direct, allowance, chosen, executed, effective, spent>>
      /\ invalid' = 0
  BY DEF Assemble, request, IInv, OutcomeFollows
<1>1. \/ /\ pc' = "failed" /\ outcome' = "error"
         /\ reason' # "advanced_spc_fallback_unavailable"
      \/ pc' = "analyze" /\ effective # {} /\ UNCHANGED <<outcome, reason>>
  BY DEF Assemble, Fail
<1>2. TypeOK' /\ AsksAgain' /\ OutcomeFollows' /\ FallbackAlwaysFits'
  BY <1>0, <1>1, LimitsAssumption DEF IInv, TypeOK, AsksAgain, OutcomeFollows, FallbackAlwaysFits
<1>3. Counted'
  BY <1>0, <1>1 DEF IInv, Counted, Budget
<1>4. Complete'
  <2>1. ExposureKnown => ExposureKnown'
    BY <1>0 DEF ExposureKnown, ExposureSource, Budget
  <2>2. QED BY <1>0, <1>1, <2>1 DEF IInv, Complete
<1>5. QED BY <1>0, <1>1, <1>2, <1>3, <1>4, QuietSteps

LEMMA AnalyzeStep ==
  ASSUME IInv, Analyze
  PROVE  IInv' /\ spent > 0
<1>0. /\ pc = "analyze" /\ outcome = "none" /\ TypeOK /\ effective # {} /\ invalid < OutputAttempts
      /\ UNCHANGED <<action, tools, direct, allowance, chosen, executed, effective, spent, reason>>
  BY DEF Analyze, request, IInv, OutcomeFollows, Observed, AsksAgain
<1>1. \/ pc' = "done" /\ outcome' = "finding" /\ invalid' \in {invalid, invalid + 1}
      \/ UNCHANGED <<pc, outcome>> /\ invalid' = invalid + 1 /\ invalid' < OutputAttempts
  BY DEF Analyze
<1>2. TypeOK' /\ AsksAgain' /\ OutcomeFollows' /\ FallbackAlwaysFits'
  BY <1>0, <1>1, LimitsAssumption DEF IInv, TypeOK, AsksAgain, OutcomeFollows, FallbackAlwaysFits
<1>3. Counted'
  BY <1>0, <1>1 DEF IInv, Counted, Budget
<1>4. Complete'
  <2>1. ExposureKnown => ExposureKnown'
    BY <1>0 DEF ExposureKnown, ExposureSource, Budget
  <2>2. QED BY <1>0, <1>1, <2>1 DEF IInv, Complete
<1>5. IInv'
  BY <1>0, <1>1, <1>2, <1>3, <1>4, QuietSteps
<1>6. spent > 0
  <2>1. PICK o \in effective : TRUE
    BY <1>0
  <2>2. o.tool \in Range(executed)
    BY <2>1 DEF IInv, Observed, Names
  <2>3. executed # <<>>
    BY <2>2 DEF Range
  <2>4. Len(executed) > 0
    BY <2>3, <1>0 DEF TypeOK
  <2>5. QED BY <2>4, <1>0 DEF IInv, Counted
<1>7. QED BY <1>5, <1>6

LEMMA StutterStep ==
  ASSUME IInv, UNCHANGED vars
  PROVE  IInv'
<1>1. UNCHANGED <<action, tools, direct, allowance, pc, chosen, invalid, executed, effective, spent,
                  outcome, reason>>
  BY DEF vars
<1>2. TypeOK' /\ Counted' /\ AsksAgain' /\ OutcomeFollows' /\ Observed'
  BY <1>1 DEF IInv, TypeOK, Counted, AsksAgain, OutcomeFollows, Observed, Names, Budget
<1>3. ChosenFits'
  BY <1>1 DEF IInv, ChosenFits, FallbackFits, Candidates, DomainCandidates, MesCandidates,
    FdcCandidates, Remaining, Budget, Names
<1>4. MesOrder' /\ Complete' /\ NoToolTwice' /\ FallbackAlwaysFits'
  BY <1>1 DEF IInv, MesOrder, Complete, ExposureKnown, ExposureSource, Budget, NoToolTwice,
    FallbackAlwaysFits, Names
<1>5. QED BY <1>2, <1>3, <1>4 DEF IInv

LEMMA NextKeepsIInv == IInv /\ [Next]_vars => IInv'
BY StartStep, LoopHeadStep, ModelChoosesStep, RunToolStep, SpcFallbackStep, ToolFailsStep,
  AssembleStep, AnalyzeStep, StutterStep DEF Next, Terminated

LEMMA IInvCompletes == IInv => FindingIsComplete
<1> SUFFICES ASSUME IInv, outcome = "finding" PROVE FindingIsComplete
  BY DEF FindingIsComplete
<1>1. pc = "done" /\ effective # {}
  BY DEF IInv, TypeOK, OutcomeFollows, Observed
<1>2. ExposureKnown
  BY <1>1 DEF IInv, Complete
<1>3. \A o \in SpcSource : o.tool = "analyze_spc_evidence" => o.found
  BY <1>1 DEF IInv, Observed, SpcSource
<1>4. \A o, p \in SpcSource : o.tool = p.tool
  BY DEF SpcSource, Names
<1>5. \A o, p \in SpcSource : o = p
  BY <1>4 DEF IInv, Observed, SpcSource
<1>6. QED BY <1>2, <1>3, <1>5 DEF FindingIsComplete, ExposureKnown

\* The error for a fallback that is not available is never raised: the advanced SPC is only
\* offered while the basic one still fits (_candidates, _execute_candidate).
THEOREM FallbacksFit == Spec => []FallbackAlwaysFits
<1>1. IInv => FallbackAlwaysFits
  BY DEF IInv
<1>2. QED BY InitIInv, NextKeepsIInv, <1>1, PTL DEF Spec

\* A Finding never reports an SPC that had nothing to analyze, and lacks the shared exposure only
\* for a reason it can give (_assemble_fdc, _assemble_mes).
THEOREM FindingsAreComplete == Spec => []FindingIsComplete
BY InitIInv, NextKeepsIInv, IInvCompletes, PTL DEF Spec

\* No Tool runs twice in one Specialist action, whatever the model answers and whichever fallback
\* is taken.
THEOREM ToolsRunOnce == Spec => []NoToolTwice
<1>1. IInv => NoToolTwice
  BY DEF IInv
<1>2. QED BY InitIInv, NextKeepsIInv, <1>1, PTL DEF Spec

-----------------------------------------------------------------------------
LEMMA InitRefines == Init => Contract!Init
BY LimitsAssumption DEF Init, Contract!Init

LEMMA NextRefines ==
  IInv /\ [Next]_vars => [Contract!Next]_<<allowance, spent, outcome>>
<1> SUFFICES ASSUME IInv, [Next]_vars
             PROVE  Contract!Next \/ UNCHANGED <<allowance, spent, outcome>>
  OBVIOUS
<1> USE DEF Contract!Next, Contract!Spend, Contract!Answer, Contract!Fail
<1>0. Contract!Budget = Budget
  BY DEF Contract!Budget, Budget
<1>1. CASE Start
  BY <1>1 DEF Start, Fail, request, IInv, OutcomeFollows
<1>2. CASE LoopHead
  BY <1>2 DEF LoopHead, Fail, request, IInv, OutcomeFollows
<1>3. CASE ModelChooses
  BY <1>3 DEF ModelChooses, request
<1>4. CASE RunTool
  BY <1>0, <1>4, BudgetFacts DEF RunTool, request, IInv, OutcomeFollows, Counted
<1>5. CASE SpcFallback
  <2>1. spent' = spent + 1 /\ outcome' = outcome /\ allowance' = allowance
    BY <1>5, SpcFallbackStep DEF SpcFallback, request
  <2>2. spent < Budget /\ outcome = "none"
    BY <1>5, BudgetFacts DEF SpcFallback, IInv, OutcomeFollows, Counted, ChosenFits, FallbackFits
  <2>3. QED BY <1>0, <2>1, <2>2
<1>6. CASE ToolFails
  BY <1>0, <1>6, ToolFailsStep
<1>7. CASE Assemble
  BY <1>7 DEF Assemble, Fail, request, IInv, OutcomeFollows
<1>8. CASE Analyze
  <2>1. outcome = "none" /\ spent > 0
    BY <1>8, AnalyzeStep DEF Analyze, IInv, OutcomeFollows
  <2>2. QED BY <1>8, <2>1 DEF Analyze, request
<1>9. CASE Terminated \/ UNCHANGED vars
  BY <1>9 DEF Terminated, vars
<1>10. QED BY <1>1, <1>2, <1>3, <1>4, <1>5, <1>6, <1>7, <1>8, <1>9 DEF Next

\* The executor keeps its promise to the Supervisor: one to min(MaxSteps, max_tool_calls) Tool
\* calls and a Finding, or an error within that limit (SpecialistV2Executor.execute).
THEOREM SpecialistKeepsContract == Spec => ImplementsContract
<1>1. QED
  BY InitIInv, NextKeepsIInv, InitRefines, NextRefines, PTL
    DEF Spec, ImplementsContract, Contract!Spec

-----------------------------------------------------------------------------
(* What the Tools answer, for any tables.                                  *)

\* An exposure of a Lot is a row of its process history.
LEMMA ExposuresAreOfTheLot ==
  ASSUME NEW tables, NEW lot, NEW op, NEW lane, NEW x \in ImpactExposures(tables, lot, op, lane)
  PROVE  x \in tables.process /\ x.lot = lot
<1>1. PICK o \in TargetOps(tables, lot, op) : x \in Exposures(tables, lot, o, lane)
  BY DEF ImpactExposures
<1> QED BY <1>1 DEF Exposures, Of

\* The answer names the exposure that it was computed for, and the source Lot among the exposed.
LEMMA ImpactKeepsTheExposure ==
  ASSUME NEW tables, NEW lot, NEW x
  PROVE  ImpactOf(tables, lot, x).exposure = x /\ lot \in ImpactOf(tables, lot, x).exposed
<1> SUFFICES ASSUME NEW bad, NEW events, NEW window, NEW rows, NEW known
             PROVE  LET i == ImpactAnswer(tables, lot, x, bad, events, window, rows, known)
                    IN i.exposure = x /\ lot \in i.exposed
  BY DEF ImpactOf, ImpactWithin
<1> QED BY DEF ImpactAnswer

\* An impacted Lot met the window of a signal, a control came after it.
Earned(tables, i) ==
  /\ \A l \in i.impact :
       /\ \E r \in Of(tables.process, {l}) :
            /\ r.op = i.exposure.op /\ r.chamber = i.exposure.chamber
            /\ r.start <= i.window[2] /\ r.end >= i.window[1]
       /\ \/ \E e \in tables.events : e.op = i.exposure.op /\ e.chamber = i.exposure.chamber
          \/ \E r \in Of(tables.fdc, {i.source}) : r.severity # "NORMAL"
  /\ \A l \in i.controls :
       /\ l \notin i.exposed
       /\ \E r \in Of(tables.fdc, {l}) : r.severity = "NORMAL" /\ ~r.ooc /\ r.at > i.window[2]

\* Every impacted Lot of an answer ran in the window and has a sign, every control ran normally after it.
LEMMA ImpactAnswerIsEarned ==
  ASSUME NEW tables, NEW lot, NEW x, x.lot = lot
  PROVE  Earned(tables, ImpactOf(tables, lot, x))
<1> DEFINE bad == ChamberAbnormal(tables, lot, x)
           events == EventsAt(tables, x.op, x.chamber)
           rows == ExcursionRows(tables, lot, x)
           from == Min({r.start : r \in rows})
           to == Max({r.end : r \in rows})
           known == events # {} \/ (bad # {} /\ Abnormal(Of(tables.fdc, {lot})) # {})
           met == IF known THEN ExposedIn(tables, x, from, to) ELSE {x}
           i == ImpactOf(tables, lot, x)
<1>1. i = ImpactAnswer(tables, lot, x, bad, events, <<from, to>>, met, known)
  BY DEF ImpactOf, ImpactWithin
<1>2. known => \/ \E e \in tables.events : e.op = x.op /\ e.chamber = x.chamber
               \/ \E r \in Of(tables.fdc, {lot}) : r.severity # "NORMAL"
  BY DEF EventsAt, Abnormal
<1>3. \A r \in ExposedIn(tables, x, from, to) :
        r \in tables.process /\ r.op = x.op /\ r.chamber = x.chamber /\ r.start <= to /\ r.end >= from
  BY DEF ExposedIn
<1> HIDE DEF bad, events, rows, from, to, known
<1>4. /\ i.source = lot /\ i.exposure = x
      /\ i.exposed = Lots(met) \union {lot}
      /\ i.impact = i.exposed \ {lot}
      /\ i.window = <<from, to>>
      /\ i.controls = Lots(RecoveryControls(tables, x, i.exposed, to))
  BY <1>1 DEF ImpactAnswer
<1> HIDE DEF i
<1>5. ASSUME NEW l \in i.impact
      PROVE  /\ \E r \in Of(tables.process, {l}) :
                  r.op = x.op /\ r.chamber = x.chamber /\ r.start <= to /\ r.end >= from
             /\ known
  <2>1. PICK r \in met : r.lot = l /\ l # lot
    BY <1>4, <1>5 DEF Lots
  <2>2. known
    BY <2>1
  <2>3. r \in ExposedIn(tables, x, from, to)
    BY <2>1, <2>2
  <2> QED BY <1>3, <2>1, <2>2, <2>3 DEF Of
<1>6. ASSUME NEW l \in i.controls
      PROVE  /\ l \notin i.exposed
             /\ \E r \in Of(tables.fdc, {l}) : r.severity = "NORMAL" /\ ~r.ooc /\ r.at > to
  BY <1>4, <1>6 DEF Lots, RecoveryControls, Of
<1>7. i.window[1] = from /\ i.window[2] = to
  BY <1>4
<1>8. Earned(tables, i)
  BY <1>2, <1>4, <1>5, <1>6, <1>7 DEF Earned
<1> QED BY <1>8 DEF i

\* The genealogy of Lots with the source Lot names the exposure of the source Lot.
LEMMA GenealogyFollowsImpact ==
  ASSUME NEW tables, NEW lots, NEW x \in tables.process, x.lot \in lots, x.op # None, x.chamber # NoChamber,
         NEW o \in GenealogyOps(tables, lots, x.op),
         NEW g \in CommonGroups(tables, lots, o, [AnyLane EXCEPT !.chamber = x.chamber])
  PROVE  LET out == GenealogyOf(tables, lots, g)
         IN out.op = x.op /\ out.chamber = x.chamber /\ out.common \subseteq lots
<1> DEFINE lane == [AnyLane EXCEPT !.chamber = x.chamber]
           at == {r \in Of(tables.process, lots) : r.op = o}
           groups == Assignments(at)
           on == {h \in groups : OneOf(h).chamber = x.chamber /\ OfRecipe(OneOf(h), lane)}
<1>1. o = x.op
  BY DEF GenealogyOps
<1>2. lane.chamber = x.chamber /\ lane.recipe = None
  BY DEF AnyLane
<1>3. Preferred(tables, lots, o, lane) = {x.chamber}
  BY <1>2 DEF Preferred
<1>4. x \in at
  BY <1>1 DEF Of
<1>5. on # {}
  <2> DEFINE h == {r \in at : r.chamber = x.chamber /\ r.recipe = x.recipe}
  <2>1. h \in groups
    BY <1>4 DEF Assignments
  <2>2. OneOf(h) \in h
    BY <1>4 DEF OneOf
  <2> QED BY <1>2, <2>1, <2>2 DEF OfRecipe
<1>6. g \in Leading(on)
  BY <1>3, <1>5 DEF CommonGroups
<1>7. g \in groups /\ OneOf(g).chamber = x.chamber
  BY <1>6 DEF Leading
<1>8. PICK p \in at : g = {r \in at : r.chamber = p.chamber /\ r.recipe = p.recipe}
  BY <1>7 DEF Assignments
<1>9. OneOf(g) \in g
  BY <1>8 DEF OneOf
<1>10. OneOf(g).op = x.op
  BY <1>1, <1>8, <1>9
<1>11. Lots(g) \subseteq lots
  BY <1>8 DEF Lots, Of
<1> QED BY <1>7, <1>10, <1>11 DEF GenealogyOf

\* A baseline is chosen from what may be compared, and is large enough or empty.
LEMMA ReferenceFacts ==
  ASSUME NEW rows, NEW chamber
  PROVE  LET b == Reference(rows, chamber)
         IN b \subseteq rows /\ (b = {} \/ Cardinality(b) >= BasicBaseline)
  BY DEF Reference

LEMMA NothingDoesNotVary == ~Varies({})
  BY FS_EmptySet DEF Varies

\* A basic baseline is long enough, of Lots outside the target set, and all measured before the target.
LEMMA BasicBaselineIsPast ==
  ASSUME NEW tables, NEW lots, NEW op, NEW chamber,
         NEW r \in BasicSpc(tables, lots, op, chamber).results
  PROVE  /\ Cardinality(r.baseline) >= BasicBaseline
         /\ \A b \in r.baseline, t \in r.target : b.lot \notin lots /\ b.at < t.at
<1> DEFINE rows == At(Of(tables.fdc, lots), op, chamber)
           target(p) == OfParam(rows, p)
           baseline(p) == Reference(Comparable(tables, lots, op, p, target(p)), chamber)
           result(p) == [param |-> p, baseline |-> baseline(p), target |-> target(p), rules |-> BasicRules(InOrder(target(p)))]
<1>1. r \in {q \in {result(p) : p \in Params(rows)} : Varies(q.baseline)}
  BY DEF BasicSpc, BasicAnswer
<1>2. PICK p \in Params(rows) : r = result(p) /\ Varies(r.baseline)
  BY <1>1
<1>3. r.baseline = baseline(p) /\ r.target = target(p)
  BY <1>2
<1>4. r.baseline # {}
  BY <1>2, NothingDoesNotVary
<1>5. r.baseline \subseteq Comparable(tables, lots, op, p, r.target) /\ Cardinality(r.baseline) >= BasicBaseline
  BY <1>3, <1>4, ReferenceFacts
<1> QED BY <1>5 DEF Comparable

\* A chain of holds is told only when it is complete.
LEMMA HoldsAreComplete ==
  ASSUME NEW tables, NEW op, NEW chamber,
         NEW e \in OocEvents(tables, op, chamber).evidence, e.id = <<"spc_hold">>
  PROVE  /\ e.lots \subseteq Lots(tables.holds)
         /\ \E v \in OocEvents(tables, op, chamber).spc :
              \A s \in tables.scopes : s.excursion = v.excursion => s.lot \in Lots(tables.holds)
<1> DEFINE events == At(tables.events, op, chamber)
           spc == {v \in events : v.source = "SPC"}
           held == {v \in spc : HoldsLinked(tables, v)}
           linked == {v \in spc : ExcursionLinked(tables, v)}
           both == held \intersect linked
           triggers(E) == {v.trigger : v \in E} \ {None}
           lots(E) == triggers(E) \union UNION {ImpactedBy(tables, v) : v \in E}
           missing == MissingContext(held, linked, spc, triggers(events))
           out == OocEvents(tables, op, chamber)
<1>1. \A h \in tables.holds : h.lot \in Lots(tables.holds)
  BY DEF Lots
<1>2. \A v \in held :
        /\ v.trigger \in Lots(tables.holds)
        /\ \A s \in tables.scopes : s.excursion = v.excursion => s.lot \in Lots(tables.holds)
  BY <1>1 DEF HoldsLinked, HoldOf
<1>3. lots(both) \subseteq Lots(tables.holds)
  BY <1>2 DEF ImpactedBy
<1>4. out.spc = spc
  BY DEF OocEvents
<1>5. out.evidence =
        {Ev(<<"ooc_events">>, IF events # {} THEN "OOC_EVENT" ELSE "NEGATIVE_SIGNAL", triggers(events))}
          \union (IF linked # {} THEN {Ev(<<"spc_context">>, "EXCURSION_WINDOW", triggers(events) \union lots(linked))} ELSE {})
          \union (IF both # {} THEN {Ev(<<"spc_hold">>, "HOLD_EVENT", lots(both))} ELSE {})
          \union missing
  BY DEF OocEvents
<1>6. \A d \in missing : d.id # <<"spc_hold">>
  BY DEF MissingContext, Ev
<1> HIDE DEF events, spc, held, linked, triggers, lots, missing, out
<1>7. both # {} /\ e.lots = lots(both)
  BY <1>5, <1>6 DEF Ev, out
<1> QED BY <1>2, <1>3, <1>4, <1>7 DEF held, out

-----------------------------------------------------------------------------
(* Negative Evidence, Tool by Tool.                                        *)

\* Negative Evidence that rests on records of each Lot it names.
Grounded(e) == e.type = "NEGATIVE_SIGNAL" => \A l \in e.lots : NormalBasis(e.id, l)

LEMMA OfOne ==
  ASSUME NEW rows, NEW l
  PROVE  /\ Of(rows, {l}) = {r \in rows : r.lot = l}
         /\ l \in Lots(rows) <=> Of(rows, {l}) # {}
  BY DEF Of, Lots

\* find_affected_lots: of the Lots that negative Evidence names, those that did
\* not pass are named untested.
LEMMA AffectedOrUntested ==
  ASSUME NEW e \in FindAffectedLots(fab, ask).evidence, e.type = "NEGATIVE_SIGNAL"
  PROVE  /\ e.id = <<"affected_lots">>
         /\ \A l \in e.lots :
              \/ Passed(l)
              \/ \E d \in FindAffectedLots(fab, ask).evidence : d.id = <<"wat_missing">> /\ l \in d.lots
<1> DEFINE ids == InWindow(fab, ask)
           wat == Of(fab.wat, ids)
           c == Classify(fab, ids)
           type == IF wat = {} THEN "DATA_MISSING" ELSE IF c.affected # {} THEN "IMPACT_SCOPE" ELSE "NEGATIVE_SIGNAL"
           missing == IF wat # {} /\ c.untested # {} THEN {Ev(<<"wat_missing">>, "DATA_MISSING", c.untested)} ELSE {}
<1>1. FindAffectedLots(fab, ask).evidence = {Ev(<<"affected_lots">>, type, ids)} \union missing
  BY DEF FindAffectedLots
<1>2. \A l \in ids : l \in c.affected \/ Passed(l) \/ l \in c.untested
  BY DEF Classify, Passed, Of
<1> HIDE DEF ids, wat, c
<1>3. e = Ev(<<"affected_lots">>, type, ids)
  BY <1>1 DEF Ev
<1>4. wat # {} /\ c.affected = {}
  BY <1>3 DEF Ev
<1>5. c.untested # {} => Ev(<<"wat_missing">>, "DATA_MISSING", c.untested) \in missing
  BY <1>4
<1> HIDE DEF missing, type
<1>6. ASSUME NEW l \in ids, ~Passed(l)
      PROVE  \E d \in FindAffectedLots(fab, ask).evidence : d.id = <<"wat_missing">> /\ l \in d.lots
  <2>1. l \in c.untested
    BY <1>2, <1>4, <1>6
  <2>2. Ev(<<"wat_missing">>, "DATA_MISSING", c.untested) \in FindAffectedLots(fab, ask).evidence
    BY <1>1, <1>5, <2>1
  <2> QED BY <2>1, <2>2 DEF Ev
<1> QED BY <1>3, <1>6 DEF Ev

\* get_lot_context: negative Evidence has its records.
LEMMA LotContextIsGrounded ==
  ASSUME NEW changes, ask.lot \in Lots(fab.lots)
  PROVE  \A e \in GetLotContext(fab, ask.lot, changes).evidence : Grounded(e)
<1> DEFINE wat == Of(fab.wat, {ask.lot})
           normalCmp == {r \in Of(fab.fdc, {ask.lot}) : r.op \in CmpOps /\ r.severity = "NORMAL" /\ ~r.ooc}
           failed == \E r \in wat : r.result = "false"
           anomaly == IF wat = {} THEN "DATA_MISSING" ELSE IF failed THEN "ELECTRICAL_FAILURE" ELSE "NEGATIVE_SIGNAL"
           cmp == IF normalCmp # {} THEN {Ev(<<"cmp_normal">>, "NEGATIVE_SIGNAL", {ask.lot})} ELSE {}
<1>1. GetLotContext(fab, ask.lot, changes).evidence \subseteq
        {Ev(<<"lot_context">>, "LOT_CONTEXT", {ask.lot}), Ev(<<"lot_anomaly">>, anomaly, {ask.lot})}
          \union cmp \union RecipeEvidence(fab, ask.lot, changes)
  BY DEF GetLotContext
<1>2. \A e \in RecipeEvidence(fab, ask.lot, changes) : e.type # "NEGATIVE_SIGNAL"
  BY DEF RecipeEvidence, RecipeHistoryMissing, Ev
<1>3. Grounded(Ev(<<"lot_anomaly">>, anomaly, {ask.lot}))
  BY DEF Grounded, NormalBasis, Ev
<1>4. \A e \in cmp : Grounded(e)
  BY DEF Grounded, NormalBasis, Ev
<1> HIDE DEF anomaly, cmp
<1> QED BY <1>1, <1>2, <1>3, <1>4 DEF Grounded, Ev

\* The Evidence of an exposure is never of a normal result.
LEMMA LanesAreNotNegative ==
  ASSUME NEW lanes, NEW token PROVE \A e \in LaneEvidence(lanes, token) : e.type # "NEGATIVE_SIGNAL"
  BY DEF LaneEvidence, Ev

\* find_impact_lots: negative Evidence has its records.
LEMMA ImpactIsGrounded ==
  ASSUME Of(fab.process, {ask.lot}) # {}, NEW x
  PROVE  \A e \in ImpactOf(fab, ask.lot, x).evidence : Grounded(e)
<1>1. SUFFICES ASSUME NEW bad, NEW events, NEW window, NEW rows, NEW known
               PROVE  \A e \in ImpactAnswer(fab, ask.lot, x, bad, events, window, rows, known).evidence : Grounded(e)
  BY <1>1 DEF ImpactOf, ImpactWithin
<1> DEFINE out == ImpactAnswer(fab, ask.lot, x, bad, events, window, rows, known)
           exposed == Lots(rows) \union {ask.lot}
           controls == Lots(RecoveryControls(fab, x, exposed, window[2]))
<1>2. \A l \in controls : \E r \in Of(fab.fdc, {l}) : r.severity = "NORMAL"
  BY DEF Lots, RecoveryControls, Of
<1>3. \E impactWafers, lanes : out.evidence \subseteq
        {Ev(<<"excursion_window">>, "EXCURSION_WINDOW", {ask.lot}), Ev(<<"recovery_controls">>, "NEGATIVE_SIGNAL", controls),
         ScopeEvidence(ask.lot, exposed, impactWafers)} \union LaneEvidence(lanes, <<"impact", ask.lot, x.op>>)
  <2> DEFINE impactWafers == IF bad = {} THEN {} ELSE IF exposed = {ask.lot} THEN Wafers(rows)
                             ELSE Wafers({r \in rows : r.lot # ask.lot})
             lanes == WithLane(SharedLanes(Of(fab.process, exposed), Of(fab.fdc, exposed)),
                        Lane(x.op, x.chamber, x.recipe, exposed, Wafers(rows), bad))
  <2>1. out.evidence =
          (IF events # {} THEN {Ev(<<"excursion_window">>, "EXCURSION_WINDOW", {ask.lot})} ELSE {})
          \union (IF controls # {} THEN {Ev(<<"recovery_controls">>, "NEGATIVE_SIGNAL", controls)} ELSE {})
          \union {ScopeEvidence(ask.lot, exposed, impactWafers)}
          \union LaneEvidence(lanes, <<"impact", ask.lot, x.op>>)
    BY DEF ImpactAnswer
  <2> HIDE DEF impactWafers, lanes, out, controls, exposed
  <2> QED BY <2>1
<1>4. PICK impactWafers, lanes : out.evidence \subseteq
        {Ev(<<"excursion_window">>, "EXCURSION_WINDOW", {ask.lot}), Ev(<<"recovery_controls">>, "NEGATIVE_SIGNAL", controls),
         ScopeEvidence(ask.lot, exposed, impactWafers)} \union LaneEvidence(lanes, <<"impact", ask.lot, x.op>>)
  BY <1>3
<1>5. Grounded(Ev(<<"recovery_controls">>, "NEGATIVE_SIGNAL", controls))
  BY <1>2 DEF Grounded, NormalBasis, Ev
<1>6. Grounded(ScopeEvidence(ask.lot, exposed, impactWafers))
  <2>1. CASE exposed # {ask.lot}
    BY <2>1 DEF Grounded, ScopeEvidence, Ev
  <2>2. CASE exposed = {ask.lot}
    BY <2>2 DEF Grounded, ScopeEvidence, Ev, NormalBasis
  <2> QED BY <2>1, <2>2
<1>7. Grounded(Ev(<<"excursion_window">>, "EXCURSION_WINDOW", {ask.lot}))
  BY DEF Grounded, Ev
<1>8. \A e \in LaneEvidence(lanes, <<"impact", ask.lot, x.op>>) : Grounded(e)
  BY LanesAreNotNegative DEF Grounded
<1> HIDE DEF out, exposed, controls
<1>9. \A e \in out.evidence : Grounded(e)
  BY <1>4, <1>5, <1>6, <1>7, <1>8
<1> QED BY <1>9 DEF out

\* analyze_lot_genealogy tells no normal result.
LEMMA GenealogyIsGrounded ==
  ASSUME NEW lots, NEW g PROVE \A e \in GenealogyOf(fab, lots, g).evidence : Grounded(e)
<1> DEFINE key == OneOf(g)
           lanes == WithLane(SharedLanes(Of(fab.process, lots), Of(fab.fdc, lots)),
                        Lane(key.op, key.chamber, key.recipe, Lots(g), Wafers(g), {}))
<1>1. GenealogyOf(fab, lots, g).evidence =
        {Ev(<<"common_chamber">>, "EQUIPMENT_EXPOSURE", lots)} \union LaneEvidence(lanes, <<"common", lots>>)
          \union HoldEvidence(fab, lots)
  BY DEF GenealogyOf
<1>2. \A e \in HoldEvidence(fab, lots) : e.type # "NEGATIVE_SIGNAL"
  BY DEF HoldEvidence, Ev
<1> HIDE DEF lanes
<1> QED BY <1>1, <1>2, LanesAreNotNegative DEF Grounded, Ev

\* analyze_parameter_shift: negative Evidence has its records.
LEMMA ShiftIsGrounded ==
  ASSUME NEW lots, NEW op, NEW chamber PROVE \A e \in ParameterShift(fab, lots, op, chamber).evidence : Grounded(e)
<1> DEFINE rows == At(Of(fab.fdc, lots), op, chamber)
           type(p) == IF Abnormal(OfParam(rows, p)) \union Ooc(OfParam(rows, p)) # {}
                      THEN "PARAMETER_DEVIATION" ELSE "NEGATIVE_SIGNAL"
<1>1. ParameterShift(fab, lots, op, chamber).evidence \subseteq
        {Ev(<<"fdc", p>>, type(p), Lots(OfParam(rows, p))) : p \in Params(rows)}
          \union {Ev(<<"fdc_missing">>, "DATA_MISSING", lots)}
  BY DEF ParameterShift
<1>2. \A p : \A l \in Lots(OfParam(rows, p)) : OfParam(Of(fab.fdc, {l}), p) # {}
  BY DEF Lots, OfParam, At, Of
<1> HIDE DEF rows, type
<1>3. \A p \in Params(rows) : Grounded(Ev(<<"fdc", p>>, type(p), Lots(OfParam(rows, p))))
  BY <1>2 DEF Grounded, NormalBasis, Ev
<1> QED BY <1>1, <1>3 DEF Grounded, Ev

\* find_ooc_events: negative Evidence has its records.
LEMMA OocIsGrounded ==
  ASSUME NEW op, NEW chamber PROVE \A e \in OocEvents(fab, op, chamber).evidence : Grounded(e)
<1> DEFINE events == At(fab.events, op, chamber)
           spc == {v \in events : v.source = "SPC"}
           held == {v \in spc : HoldsLinked(fab, v)}
           linked == {v \in spc : ExcursionLinked(fab, v)}
           triggers(E) == {v.trigger : v \in E} \ {None}
           lots(E) == triggers(E) \union UNION {ImpactedBy(fab, v) : v \in E}
           missing == MissingContext(held, linked, spc, triggers(events))
           first == Ev(<<"ooc_events">>, IF events # {} THEN "OOC_EVENT" ELSE "NEGATIVE_SIGNAL", triggers(events))
<1>1. OocEvents(fab, op, chamber).evidence \subseteq
        {first, Ev(<<"spc_context">>, "EXCURSION_WINDOW", triggers(events) \union lots(linked)),
         Ev(<<"spc_hold">>, "HOLD_EVENT", lots(held \intersect linked))} \union missing
  BY DEF OocEvents
<1>2. Grounded(first)
  BY DEF Grounded, Ev
<1>3. \A e \in missing : e.type # "NEGATIVE_SIGNAL"
  BY DEF MissingContext, Ev
<1> HIDE DEF events, held, linked, triggers, lots, missing, first
<1> QED BY <1>1, <1>2, <1>3 DEF Grounded, Ev

\* perform_basic_spc_analysis: negative Evidence has its records.
LEMMA BasicIsGrounded ==
  ASSUME NEW lots, NEW op, NEW chamber PROVE \A e \in BasicSpc(fab, lots, op, chamber).evidence : Grounded(e)
<1> DEFINE rows == At(Of(fab.fdc, lots), op, chamber)
           target(p) == OfParam(rows, p)
           baseline(p) == Reference(Comparable(fab, lots, op, p, target(p)), chamber)
           result(p) == [param |-> p, baseline |-> baseline(p), target |-> target(p), rules |-> BasicRules(InOrder(target(p)))]
           results == {r \in {result(p) : p \in Params(rows)} : Varies(r.baseline)}
           type(r) == IF r.rules # {} THEN "SPC_VIOLATION" ELSE "NEGATIVE_SIGNAL"
<1>1. BasicSpc(fab, lots, op, chamber) = BasicAnswer(rows, lots, results)
  BY DEF BasicSpc
<1>2. \A r \in results : r.target = OfParam(rows, r.param)
  OBVIOUS
<1> HIDE DEF results
<1>3. BasicAnswer(rows, lots, results).evidence \subseteq
        {Ev(<<"spc", r.param>>, type(r), Lots(r.target)) : r \in results} \union {Ev(<<"spc_baseline_status">>, "DATA_MISSING", lots)}
  BY DEF BasicAnswer
<1>4. \A p : \A l \in Lots(OfParam(rows, p)) : OfParam(Of(fab.fdc, {l}), p) # {}
  BY DEF Lots, OfParam, At, Of
<1> HIDE DEF rows, type
<1>5. \A r \in results : Grounded(Ev(<<"spc", r.param>>, type(r), Lots(r.target)))
  BY <1>2, <1>4 DEF Grounded, NormalBasis, Ev
<1>6. \A e \in BasicAnswer(rows, lots, results).evidence : Grounded(e)
  BY <1>3, <1>5 DEF Grounded, Ev
<1> QED BY <1>1, <1>6

\* Advanced results name the Lots of the excursion's scope too, and are the ones excepted.
LEMMA AdvancedIsSpc ==
  ASSUME NEW lots, NEW op, NEW chamber,
         NEW e \in AdvancedSpc(fab, lots, op, chamber).evidence, e.type = "NEGATIVE_SIGNAL"
  PROVE  e.id[1] = "spc"
<1>1. SUFFICES ASSUME NEW results, NEW analyzed, NEW all,
                      e \in AdvancedAnswer(results, MissingSpc(SpcProfiles(fab, lots, op, chamber), analyzed, all), all).evidence
               PROVE  e.id[1] = "spc"
  BY <1>1 DEF AdvancedSpc
<1> DEFINE missing == MissingSpc(SpcProfiles(fab, lots, op, chamber), analyzed, all)
           type(r) == IF ChartStatus(r.violations) = "OOC" THEN "SPC_VIOLATION" ELSE "NEGATIVE_SIGNAL"
<1>2. \A d \in missing : d.type # "NEGATIVE_SIGNAL"
  BY DEF MissingSpc, Ev
<1>3. e \in {Ev(<<"spc", r.param>>, type(r), all) : r \in results} \union missing
  BY <1>1 DEF AdvancedAnswer
<1> HIDE DEF missing, type
<1> QED BY <1>2, <1>3 DEF Ev

\* summarize_defect_wat: negative Evidence has its records.
LEMMA QualityIsGrounded ==
  ASSUME NEW lots, NEW scope PROVE \A e \in SummarizeDefectWat(fab, lots, scope).evidence : Grounded(e)
<1> DEFINE wat == Of(fab.wat, lots)
           defects == Of(fab.defects, lots)
           metrology == Of(fab.metrology, lots)
           id(name) == <<name, scope>>
           metrics == MetrologyEvidence(metrology, scope)
           normal == NoImpactEvidence(fab, lots, scope)
           untested == UntestedEvidence(fab, lots, scope)
<1>1. SummarizeDefectWat(fab, lots, scope).evidence \subseteq
        {Ev(id("defect"), "DEFECT_SIGNAL", Lots(defects)), Ev(id("wat"), "ELECTRICAL_FAILURE", Lots(Failing(wat))),
         Ev(id("wat_controls"), "NEGATIVE_SIGNAL", Lots(Passing(wat)))} \union metrics \union normal \union untested
  BY DEF SummarizeDefectWat
<1>2. Grounded(Ev(id("wat_controls"), "NEGATIVE_SIGNAL", Lots(Passing(wat))))
  BY DEF Grounded, NormalBasis, Ev, Lots, Passing, Of
<1>3. \A e \in metrics : Grounded(e)
  <2>1. \A m : \A l \in Lots(OfMetric(metrology, m)) : Of(fab.metrology, {l}) # {}
    BY DEF Lots, OfMetric, Of
  <2> QED BY <2>1 DEF MetrologyEvidence, Grounded, NormalBasis, Ev
<1>4. \A e \in normal : Grounded(e)
  <2>1. \A l \in Lots(QualityRows(fab, lots)) : QualityRows(fab, {l}) # {}
    BY DEF Lots, QualityRows, Of
  <2> QED BY <2>1 DEF NoImpactEvidence, Grounded, NormalBasis, Ev
<1>5. \A e \in untested : e.type # "NEGATIVE_SIGNAL"
  BY DEF UntestedEvidence, Ev
<1> HIDE DEF wat, defects, metrology, metrics, normal, untested
<1> QED BY <1>1, <1>2, <1>3, <1>4, <1>5 DEF Grounded, Ev

\* A Lot that is called normal passed, and one without a conclusive result is named.
LEMMA UntestedIsNotNormal ==
  /\ \A l \in FindAffectedLots(fab, ask).lots.normal : Passed(l)
  /\ Of(fab.wat, InWindow(fab, ask)) # {} =>
       \A l \in InWindow(fab, ask) :
         \/ Passed(l)
         \/ \E r \in Of(fab.wat, {l}) : r.result = "false"
         \/ \E e \in FindAffectedLots(fab, ask).evidence : e.id = <<"wat_missing">> /\ l \in e.lots
<1> DEFINE ids == InWindow(fab, ask)
           wat == Of(fab.wat, ids)
           c == Classify(fab, ids)
<1>1. \A l \in c.normal : Passed(l)
  BY DEF Classify, Passed, Of
<1>2. \A l \in ids : Passed(l) \/ (\E r \in Of(fab.wat, {l}) : r.result = "false") \/ l \in c.untested
  BY DEF Classify, Passed, Of
<1>3. /\ FindAffectedLots(fab, ask).lots = c
      /\ wat # {} /\ c.untested # {} => Ev(<<"wat_missing">>, "DATA_MISSING", c.untested) \in FindAffectedLots(fab, ask).evidence
  BY DEF FindAffectedLots
<1> HIDE DEF c
<1>4. ASSUME NEW l \in c.untested, wat # {}
      PROVE  \E e \in FindAffectedLots(fab, ask).evidence : e.id = <<"wat_missing">> /\ l \in e.lots
  BY <1>3, <1>4 DEF Ev
<1> QED BY <1>1, <1>2, <1>3, <1>4

-----------------------------------------------------------------------------
(* The analysis.                                                           *)

\* Each Tool is called once, in its turn, so an answer is never replaced.
InTurn ==
  /\ "lots" \in DOMAIN found
  /\ stage \in {"mes", "lookup"} => DOMAIN found = {"lots"} /\ evidence = {}
  /\ stage = "impact" => ask.kind = "lot" /\ ask.lot \in Lots(fab.lots) /\ ~Has("impact")
  /\ stage = "genealogy" => (ask.kind = "lot" <=> Has("impact"))
  /\ stage \in {"impact", "genealogy"} => DOMAIN found \intersect {"genealogy", "ooc", "advanced", "basic"} = {}
  /\ stage \in {"shift", "ooc"} => DOMAIN found \intersect {"ooc", "advanced", "basic"} = {}
  /\ stage \in {"advanced", "basic"} => ~Has("basic")
  /\ stage \in {"shift", "ooc", "advanced", "basic"} \/ Has("ooc") \/ Has("basic") => Has("genealogy")

AskedFor == \E c \in Cases : fab = c.fab /\ ask = c.ask

MesAnswered ==
  ask.kind = "product" /\ Has("mes") =>
    found.mes = FindAffectedLots(fab, ask) /\ FindAffectedLots(fab, ask).evidence \subseteq evidence

ImpactAnswered ==
  Has("impact") =>
    /\ ask.kind = "lot" /\ ask.lot \in Lots(fab.lots)
    /\ \E x \in ImpactExposures(fab, ask.lot, ask.op, AnyLane) : found.impact = ImpactOf(fab, ask.lot, x)
    /\ found.lots = found.impact.exposed

FdcAnswered ==
  /\ Has("ooc") => found.ooc = OocEvents(fab, found.genealogy.op, found.genealogy.chamber)
  /\ Has("basic") => found.basic = BasicSpc(fab, found.lots, found.genealogy.op, found.genealogy.chamber)

\* What find_affected_lots said of the Lots of a product.
OfProduct(e) == ask.kind = "product" /\ Has("mes") /\ e \in FindAffectedLots(fab, ask).evidence

NegativeIsGrounded == \A e \in evidence : Grounded(e) \/ OfProduct(e) \/ (e.id[1] = "spc" /\ Has("advanced"))

ImpactComesFirst == ask.kind = "lot" /\ Has("genealogy") => Has("impact")

\* The inductive invariant.
AnalysisInv ==
  /\ InTurn /\ AskedFor /\ MesAnswered /\ ImpactAnswered
  /\ ImpactComesFirst /\ OneStory /\ FdcAnswered /\ NegativeIsGrounded

\* An answer is added, the others stay.
LEMMA WithFacts ==
  ASSUME NEW tool, NEW output
  PROVE  /\ DOMAIN With(tool, output) = DOMAIN found \union {tool}
         /\ With(tool, output)[tool] = output
         /\ \A t \in DOMAIN found : t # tool => With(tool, output)[t] = found[t]
  BY DEF With

LEMMA InitAnalysisInv == AnalysisInit => AnalysisInv
<1> SUFFICES ASSUME AnalysisInit PROVE AnalysisInv
  OBVIOUS
<1>1. /\ AskedFor /\ stage \in {"mes", "lookup"} /\ evidence = {}
      /\ DOMAIN found = {"lots"}
  BY DEF AnalysisInit, AskedFor, Nothing
<1> QED BY <1>1 DEF AnalysisInv, InTurn, MesAnswered, ImpactAnswered, ImpactComesFirst, OneStory, FdcAnswered, NegativeIsGrounded, Has

\* Evidence only grows, by what a Tool answers.
LEMMA CallFacts ==
  ASSUME NEW output, NEW next, NEW answer, Call(output, next, answer)
  PROVE  /\ stage' = next /\ found' = answer /\ fab' = fab /\ ask' = ask
         /\ evidence \subseteq evidence'
         /\ evidence' \subseteq evidence \union output.evidence
         /\ evidence = {} => evidence' = output.evidence
  BY DEF Call, Kept

\* Whether Evidence is grounded depends on the tables only, which no step changes.
LEMMA GroundedStays ==
  ASSUME fab' = fab, NEW e
  PROVE  Grounded(e)' <=> Grounded(e)
<1>1. \A id, l : NormalBasis(id, l)' = NormalBasis(id, l)
  BY DEF NormalBasis, Passed
<1> QED BY <1>1 DEF Grounded

\* What is said of a product stays said.
LEMMA OfProductStays ==
  ASSUME fab' = fab, ask' = ask, DOMAIN found \subseteq DOMAIN found', NEW e, OfProduct(e)
  PROVE  OfProduct(e)'
  BY DEF OfProduct, Has

\* What a call adds is grounded, is said of a product, or is an advanced result.
LEMMA EvidenceStaysGrounded ==
  ASSUME NegativeIsGrounded, fab' = fab, ask' = ask, DOMAIN found \subseteq DOMAIN found',
         NEW added, evidence' \subseteq evidence \union added,
         \A e \in added : Grounded(e) \/ OfProduct(e)' \/ (e.id[1] = "spc" /\ Has("advanced")')
  PROVE  NegativeIsGrounded'
<1>1. \A e : Grounded(e)' <=> Grounded(e)
  BY GroundedStays
<1>2. Has("advanced") => Has("advanced")'
  BY DEF Has
<1>3. \A e : OfProduct(e) => OfProduct(e)'
  BY OfProductStays
<1> QED BY <1>1, <1>2, <1>3 DEF NegativeIsGrounded

\* A step that adds nothing.
LEMMA NothingAddedStaysGrounded ==
  ASSUME NegativeIsGrounded, fab' = fab, ask' = ask, found' = found, evidence' = evidence
  PROVE  NegativeIsGrounded'
<1>1. \A e : Grounded(e)' <=> Grounded(e)
  BY GroundedStays
<1>2. \A e : OfProduct(e) => OfProduct(e)'
  BY OfProductStays
<1> QED BY <1>1, <1>2 DEF NegativeIsGrounded, Has

\* A Tool that answers: its answer is added, the others stay, Evidence grows.
LEMMA AnswerFacts ==
  ASSUME NEW tool, NEW output, NEW next, Answer(tool, output, next)
  PROVE  /\ stage' = next /\ fab' = fab /\ ask' = ask
         /\ DOMAIN found' = DOMAIN found \union {tool}
         /\ found'[tool] = output
         /\ \A t \in DOMAIN found : t # tool => found'[t] = found[t]
         /\ evidence \subseteq evidence' /\ evidence' \subseteq evidence \union output.evidence
<1>1. /\ stage' = next /\ fab' = fab /\ ask' = ask /\ found' = With(tool, output)
      /\ evidence \subseteq evidence' /\ evidence' \subseteq evidence \union output.evidence
  BY CallFacts DEF Answer
<1> QED BY <1>1, WithFacts

LEMMA RaiseStep == AnalysisInv /\ Raise => AnalysisInv'
<1> SUFFICES ASSUME AnalysisInv, Raise PROVE AnalysisInv'
  OBVIOUS
<1>1. stage' = "raised" /\ fab' = fab /\ ask' = ask /\ found' = found /\ evidence' = evidence
  BY DEF Raise
<1>2. /\ InTurn' /\ AskedFor' /\ MesAnswered' /\ ImpactAnswered' /\ ImpactComesFirst' /\ OneStory' /\ FdcAnswered'
  BY <1>1 DEF AnalysisInv, InTurn, AskedFor, MesAnswered, ImpactAnswered, ImpactComesFirst, OneStory, FdcAnswered, Has
<1>3. NegativeIsGrounded'
  BY <1>1, NothingAddedStaysGrounded DEF AnalysisInv
<1> QED BY <1>2, <1>3 DEF AnalysisInv

LEMMA AffectedLotsStep == AnalysisInv /\ AffectedLots => AnalysisInv'
<1> SUFFICES ASSUME AnalysisInv, AffectedLots PROVE AnalysisInv'
  OBVIOUS
<1> DEFINE out == FindAffectedLots(fab, ask)
           none == out.lots.affected = {}
           told == [evidence |-> out.evidence,
                    cites |-> IF none THEN {e.id : e \in out.evidence}
                              ELSE {e.id : e \in {e \in out.evidence : e.id = <<"wat_missing">> \/ e.type = "DATA_MISSING"}}]
           answer == [With("mes", out) EXCEPT !.lots = out.lots.affected]
<1>1. stage = "mes" /\ ask.kind = "product" /\ Call(told, IF none THEN "done" ELSE "genealogy", answer)
  BY DEF AffectedLots, Affected
<1>2. /\ DOMAIN found = {"lots"} /\ evidence = {}
  BY <1>1 DEF AnalysisInv, InTurn
<1>3. DOMAIN answer = {"lots", "mes"} /\ answer.mes = out
  BY <1>2, WithFacts DEF With
<1>4. /\ stage' \in {"done", "genealogy"} /\ found' = answer /\ fab' = fab /\ ask' = ask
      /\ evidence' = out.evidence
  BY <1>1, <1>2, CallFacts
<1> HIDE DEF out, none, told, answer
<1>5. InTurn'
  BY <1>1, <1>3, <1>4 DEF InTurn, Has
<1>6. MesAnswered'
  <2>1. out' = out
    BY <1>4 DEF out
  <2> QED BY <1>3, <1>4, <2>1 DEF MesAnswered, out
<1>7. AskedFor' /\ ImpactAnswered' /\ FdcAnswered' /\ OneStory'
  BY <1>1, <1>3, <1>4 DEF AnalysisInv, AskedFor, ImpactAnswered, FdcAnswered, OneStory, Has
<1>8. NegativeIsGrounded'
  <2>1. \A e \in out.evidence : OfProduct(e)'
    BY <1>1, <1>3, <1>4 DEF OfProduct, Has, out
  <2> QED BY <1>2, <1>3, <1>4, <2>1, EvidenceStaysGrounded DEF AnalysisInv
<1>9. ImpactComesFirst'
  BY <1>1, <1>4 DEF ImpactComesFirst
<1> QED BY <1>5, <1>6, <1>7, <1>8, <1>9 DEF AnalysisInv

\* A Tool of no named answer: what the named ones say stays true.
LEMMA OtherAnswerStep ==
  ASSUME AnalysisInv, NEW tool, tool \notin {"lots", "mes", "impact", "genealogy", "ooc", "basic"},
         NEW output, NEW next \in {"quality", "knowledge", "done"}, Answer(tool, output, next),
         \A e \in output.evidence : Grounded(e) \/ (e.id[1] = "spc" /\ tool = "advanced")
  PROVE  AnalysisInv'
<1>1. /\ stage' = next /\ fab' = fab /\ ask' = ask
      /\ DOMAIN found' = DOMAIN found \union {tool}
      /\ found'[tool] = output
      /\ \A t \in DOMAIN found : t # tool => found'[t] = found[t]
      /\ evidence \subseteq evidence' /\ evidence' \subseteq evidence \union output.evidence
  BY AnswerFacts
<1>2. \A t \in {"lots", "mes", "impact", "genealogy", "ooc", "basic"} :
        /\ t \in DOMAIN found' <=> t \in DOMAIN found
        /\ t \in DOMAIN found => found'[t] = found[t]
  BY <1>1
<1>3. "lots" \in DOMAIN found
  BY DEF AnalysisInv, InTurn
<1>4. InTurn'
  BY <1>1, <1>2, <1>3 DEF AnalysisInv, InTurn, Has
<1>5. AskedFor' /\ ImpactComesFirst'
  BY <1>1, <1>2 DEF AnalysisInv, AskedFor, ImpactComesFirst, Has
<1>6. MesAnswered'
  BY <1>1, <1>2 DEF AnalysisInv, MesAnswered, Has
<1>7. ImpactAnswered'
  BY <1>1, <1>2, <1>3 DEF AnalysisInv, ImpactAnswered, Has
<1>8. OneStory'
  BY <1>1, <1>2 DEF AnalysisInv, ImpactComesFirst, OneStory, Has
<1>9. FdcAnswered'
  BY <1>1, <1>2, <1>3 DEF AnalysisInv, InTurn, FdcAnswered, Has
<1>10. NegativeIsGrounded'
  <2>1. \A e \in output.evidence : Grounded(e) \/ (e.id[1] = "spc" /\ Has("advanced")')
    BY <1>1 DEF Has
  <2> QED BY <1>1, <2>1, EvidenceStaysGrounded DEF AnalysisInv
<1> QED BY <1>4, <1>5, <1>6, <1>7, <1>8, <1>9, <1>10 DEF AnalysisInv

LEMMA LotContextStep == AnalysisInv /\ LotContext => AnalysisInv'
<1> SUFFICES ASSUME AnalysisInv, LotContext PROVE AnalysisInv'
  OBVIOUS
<1>1. stage = "mes" /\ ask.kind = "lot" /\ DOMAIN found = {"lots"}
  BY DEF LotContext, AnalysisInv, InTurn
<1>2. CASE Raise
  BY <1>2, RaiseStep
<1>3. ASSUME ask.lot \in Lots(fab.lots), NEW changes, Answer("mes", GetLotContext(fab, ask.lot, changes), "impact")
      PROVE  AnalysisInv'
  <2>1. /\ stage' = "impact" /\ fab' = fab /\ ask' = ask
        /\ DOMAIN found' = {"lots", "mes"}
        /\ evidence' \subseteq evidence \union GetLotContext(fab, ask.lot, changes).evidence
    BY <1>1, <1>3, AnswerFacts
  <2>2. InTurn'
    BY <1>1, <1>3, <2>1 DEF InTurn, Has
  <2>3. AskedFor' /\ MesAnswered' /\ ImpactAnswered' /\ ImpactComesFirst' /\ FdcAnswered' /\ OneStory'
    BY <1>1, <2>1 DEF AnalysisInv, AskedFor, MesAnswered, ImpactAnswered, ImpactComesFirst, FdcAnswered, OneStory, Has
  <2>4. \A e \in GetLotContext(fab, ask.lot, changes).evidence : Grounded(e)
    BY <1>3, LotContextIsGrounded
  <2>5. NegativeIsGrounded'
    BY <1>1, <2>1, <2>4, EvidenceStaysGrounded DEF AnalysisInv
  <2> QED BY <2>2, <2>3, <2>5 DEF AnalysisInv
<1> QED BY <1>2, <1>3 DEF LotContext

LEMMA ImpactLotsStep == AnalysisInv /\ ImpactLots => AnalysisInv'
<1> SUFFICES ASSUME AnalysisInv, ImpactLots PROVE AnalysisInv'
  OBVIOUS
<1>1. /\ stage = "impact" /\ ask.kind = "lot" /\ ask.lot \in Lots(fab.lots) /\ ~Has("impact")
      /\ DOMAIN found \intersect {"genealogy", "ooc", "advanced", "basic"} = {}
  BY DEF ImpactLots, AnalysisInv, InTurn
<1>2. CASE Raise
  BY <1>2, RaiseStep
<1>3. ASSUME NEW x \in ImpactExposures(fab, ask.lot, ask.op, AnyLane), Impacted(ImpactOf(fab, ask.lot, x))
      PROVE  AnalysisInv'
  <2> DEFINE out == ImpactOf(fab, ask.lot, x)
             answer == [With("impact", out) EXCEPT !.lots = out.exposed]
  <2>1. Call(out, "genealogy", answer)
    BY <1>3 DEF Impacted
  <2>2. out' = out /\ (fab' = fab => ImpactExposures(fab, ask.lot, ask.op, AnyLane)' = ImpactExposures(fab, ask.lot, ask.op, AnyLane))
    BY <2>1 DEF Call
  <2>3. \A e \in out.evidence : Grounded(e)
    <3>1. x \in Of(fab.process, {ask.lot})
      BY <1>3 DEF ImpactExposures, Exposures, Of
    <3> QED BY <3>1, ImpactIsGrounded
  <2>4. x \in ImpactExposures(fab, ask.lot, ask.op, AnyLane) /\ out = ImpactOf(fab, ask.lot, x)
    BY <1>3
  <2> HIDE DEF out
  <2>5. /\ DOMAIN answer = DOMAIN found \union {"impact"}
        /\ answer.impact = out /\ answer.lots = out.exposed
    BY WithFacts DEF AnalysisInv, InTurn, With
  <2> HIDE DEF answer
  <2>6. /\ stage' = "genealogy" /\ fab' = fab /\ ask' = ask
        /\ DOMAIN found' = DOMAIN found \union {"impact"}
        /\ found'.impact = out /\ found'.lots = out.exposed
        /\ evidence' \subseteq evidence \union out.evidence
    BY <2>1, <2>5, CallFacts
  <2>7. InTurn'
    BY <1>1, <2>6 DEF AnalysisInv, InTurn, Has
  <2>8. AskedFor' /\ MesAnswered' /\ ImpactComesFirst' /\ FdcAnswered' /\ OneStory'
    BY <1>1, <2>6 DEF AnalysisInv, AskedFor, MesAnswered, ImpactComesFirst, FdcAnswered, OneStory, Has
  <2>9. ImpactAnswered'
    <3>1. ask.lot \in Lots(fab.lots)'
      BY <1>1, <2>6
    <3> QED BY <1>1, <2>4, <2>6, <3>1 DEF ImpactAnswered
  <2>10. NegativeIsGrounded'
    BY <2>3, <2>6, EvidenceStaysGrounded DEF AnalysisInv
  <2> QED BY <2>7, <2>8, <2>9, <2>10 DEF AnalysisInv
<1> QED BY <1>2, <1>3 DEF ImpactLots

LEMMA GenealogyStep == AnalysisInv /\ Genealogy => AnalysisInv'
<1> SUFFICES ASSUME AnalysisInv, Genealogy PROVE AnalysisInv'
  OBVIOUS
<1> DEFINE op == IF ask.kind = "lot" THEN found.impact.exposure.op ELSE ask.op
           lane == IF ask.kind = "lot" THEN [AnyLane EXCEPT !.chamber = found.impact.exposure.chamber] ELSE AnyLane
<1>1. /\ stage = "genealogy" /\ (ask.kind = "lot" <=> Has("impact")) /\ "lots" \in DOMAIN found
      /\ DOMAIN found \intersect {"genealogy", "ooc", "advanced", "basic"} = {}
  BY DEF Genealogy, AnalysisInv, InTurn
<1>2. CASE Raise
  BY <1>2, RaiseStep
<1>3. ASSUME NEW o \in GenealogyOps(fab, found.lots, op), NEW g \in CommonGroups(fab, found.lots, o, lane),
             Answer("genealogy", GenealogyOf(fab, found.lots, g), "shift")
      PROVE  AnalysisInv'
  <2> DEFINE out == GenealogyOf(fab, found.lots, g)
  <2>1. ask.kind = "lot" =>
          /\ out.op = found.impact.exposure.op /\ out.chamber = found.impact.exposure.chamber
          /\ out.common \subseteq found.impact.exposed
    <3> SUFFICES ASSUME ask.kind = "lot"
                 PROVE  /\ out.op = found.impact.exposure.op /\ out.chamber = found.impact.exposure.chamber
                        /\ out.common \subseteq found.impact.exposed
      OBVIOUS
    <3>1. PICK x \in ImpactExposures(fab, ask.lot, ask.op, AnyLane) : found.impact = ImpactOf(fab, ask.lot, x)
      BY <1>1 DEF AnalysisInv, ImpactAnswered
    <3>2. x \in fab.process /\ x.lot = ask.lot
      BY ExposuresAreOfTheLot
    <3>3. found.impact.exposure = x /\ ask.lot \in found.impact.exposed
      BY <3>1, ImpactKeepsTheExposure
    <3>4. found.lots = found.impact.exposed
      BY <1>1 DEF AnalysisInv, ImpactAnswered
    <3>5. x.op # None /\ x.chamber # NoChamber
      <4>1. PICK c \in Cases : fab = c.fab
        BY DEF AnalysisInv, AskedFor
      <4> QED BY <3>2, <4>1, CasesAssumption DEF Tables
    <3>6. o \in GenealogyOps(fab, found.lots, x.op) /\ g \in CommonGroups(fab, found.lots, o, [AnyLane EXCEPT !.chamber = x.chamber])
      BY <1>3, <3>3
    <3> QED BY <3>2, <3>3, <3>4, <3>5, <3>6, GenealogyFollowsImpact
  <2>2. /\ stage' = "shift" /\ fab' = fab /\ ask' = ask
        /\ DOMAIN found' = DOMAIN found \union {"genealogy"}
        /\ found'["genealogy"] = out
        /\ \A t \in DOMAIN found : t # "genealogy" => found'[t] = found[t]
        /\ evidence \subseteq evidence' /\ evidence' \subseteq evidence \union out.evidence
    BY <1>3, AnswerFacts
  <2>3. \A e \in out.evidence : Grounded(e)
    BY GenealogyIsGrounded
  <2> HIDE DEF out
  <2>4. \A t \in {"lots", "mes", "impact", "ooc", "basic"} :
          /\ t \in DOMAIN found' <=> t \in DOMAIN found
          /\ t \in DOMAIN found => found'[t] = found[t]
    BY <2>2
  <2>5. InTurn'
    BY <1>1, <2>2, <2>4 DEF InTurn, Has
  <2>6. AskedFor' /\ ImpactComesFirst'
    BY <1>1, <2>2, <2>4 DEF AnalysisInv, AskedFor, ImpactComesFirst, Has
  <2>7. MesAnswered' /\ ImpactAnswered'
    <3>1. MesAnswered'
      BY <2>2, <2>4 DEF AnalysisInv, MesAnswered, Has
    <3>2. ImpactAnswered'
      BY <1>1, <2>2, <2>4 DEF AnalysisInv, ImpactAnswered, Has
    <3> QED BY <3>1, <3>2
  <2>8. OneStory'
    BY <1>1, <2>1, <2>2, <2>4 DEF OneStory, Has
  <2>9. FdcAnswered'
    BY <1>1, <2>2, <2>4 DEF FdcAnswered, Has
  <2>10. NegativeIsGrounded'
    BY <2>2, <2>3, EvidenceStaysGrounded DEF AnalysisInv
  <2> QED BY <2>5, <2>6, <2>7, <2>8, <2>9, <2>10 DEF AnalysisInv
<1> HIDE DEF op, lane
<1>4. \/ Raise
      \/ \E g \in UNION {CommonGroups(fab, found.lots, o, lane) : o \in GenealogyOps(fab, found.lots, op)} :
           Answer("genealogy", GenealogyOf(fab, found.lots, g), "shift")
  BY DEF Genealogy, op, lane
<1> QED BY <1>2, <1>3, <1>4

LEMMA ShiftStep == AnalysisInv /\ Shift => AnalysisInv'
<1> SUFFICES ASSUME AnalysisInv, Shift PROVE AnalysisInv'
  OBVIOUS
<1> DEFINE out == ParameterShift(fab, found.lots, found.genealogy.op, found.genealogy.chamber)
<1>1. stage = "shift" /\ Call(out, "ooc", found)
  BY DEF Shift
<1>2. \A e \in out.evidence : Grounded(e)
  BY ShiftIsGrounded
<1> HIDE DEF out
<1>3. /\ stage' = "ooc" /\ found' = found /\ fab' = fab /\ ask' = ask
      /\ evidence \subseteq evidence' /\ evidence' \subseteq evidence \union out.evidence
  BY <1>1, CallFacts
<1>4. InTurn' /\ AskedFor' /\ ImpactAnswered' /\ ImpactComesFirst' /\ OneStory' /\ FdcAnswered'
  BY <1>1, <1>3 DEF AnalysisInv, InTurn, AskedFor, ImpactAnswered, ImpactComesFirst, OneStory, FdcAnswered, Has
<1>5. MesAnswered'
  BY <1>3 DEF AnalysisInv, MesAnswered, Has
<1>6. NegativeIsGrounded'
  BY <1>2, <1>3, EvidenceStaysGrounded DEF AnalysisInv
<1> QED BY <1>4, <1>5, <1>6 DEF AnalysisInv

LEMMA OocEventsStep == AnalysisInv /\ OocEventsOf => AnalysisInv'
<1> SUFFICES ASSUME AnalysisInv, OocEventsOf PROVE AnalysisInv'
  OBVIOUS
<1> DEFINE out == OocEvents(fab, found.genealogy.op, found.genealogy.chamber)
           told == [out EXCEPT !.cites = @ \union (IF out.events = {} THEN {<<"ooc_events">>} ELSE {})]
           next == IF ask.setting.advanced THEN "advanced" ELSE "basic"
<1>1. stage = "ooc" /\ Call(told, next, With("ooc", out))
  BY DEF OocEventsOf, Recorded
<1>2. told.evidence = out.evidence
  <2>1. out = [events |-> out.events, spc |-> out.spc, evidence |-> out.evidence, cites |-> out.cites]
    BY DEF OocEvents
  <2> HIDE DEF out
  <2> QED BY <2>1
<1>3. \A e \in out.evidence : Grounded(e)
  BY OocIsGrounded
<1> HIDE DEF told, out
<1>4. /\ stage' \in {"advanced", "basic"} /\ fab' = fab /\ ask' = ask /\ found' = With("ooc", out)
      /\ evidence \subseteq evidence' /\ evidence' \subseteq evidence \union out.evidence
  BY <1>1, <1>2, CallFacts
<1>5. /\ DOMAIN found' = DOMAIN found \union {"ooc"}
      /\ found'["ooc"] = out
      /\ \A t \in DOMAIN found : t # "ooc" => found'[t] = found[t]
  BY <1>4 DEF With
<1>6. /\ ~Has("ooc") /\ ~Has("basic") /\ Has("genealogy") /\ "lots" \in DOMAIN found
      /\ DOMAIN found \intersect {"ooc", "advanced", "basic"} = {}
  BY <1>1 DEF AnalysisInv, InTurn, Has
<1>7. \A t \in {"lots", "mes", "impact", "genealogy", "basic"} :
        /\ t \in DOMAIN found' <=> t \in DOMAIN found
        /\ t \in DOMAIN found => found'[t] = found[t]
  BY <1>5
<1>8. InTurn'
  BY <1>4, <1>5, <1>6, <1>7 DEF InTurn, Has
<1>9. AskedFor' /\ ImpactComesFirst'
  BY <1>4, <1>7 DEF AnalysisInv, AskedFor, ImpactComesFirst, Has
<1>10. MesAnswered'
  BY <1>4, <1>7 DEF AnalysisInv, MesAnswered, Has
<1>11. ImpactAnswered'
  BY <1>4, <1>6, <1>7 DEF AnalysisInv, ImpactAnswered, Has
<1>12. OneStory'
  BY <1>4, <1>7 DEF AnalysisInv, ImpactComesFirst, OneStory, Has
<1>13. FdcAnswered'
  <2>1. found'.genealogy = found.genealogy
    BY <1>6, <1>7 DEF Has
  <2>2. out' = out
    BY <1>4, <2>1 DEF out
  <2> QED BY <1>4, <1>5, <1>6, <1>7, <2>1, <2>2 DEF FdcAnswered, Has, out
<1>14. NegativeIsGrounded'
  BY <1>3, <1>4, <1>5, EvidenceStaysGrounded DEF AnalysisInv
<1> QED BY <1>8, <1>9, <1>10, <1>11, <1>12, <1>13, <1>14 DEF AnalysisInv

LEMMA AdvancedStep == AnalysisInv /\ Advanced => AnalysisInv'
<1> SUFFICES ASSUME AnalysisInv, Advanced PROVE AnalysisInv'
  OBVIOUS
<1> DEFINE out == AdvancedSpc(fab, found.lots, found.genealogy.op, found.genealogy.chamber)
<1>1. CASE Raise
  BY <1>1, RaiseStep
<1>2. ASSUME Answer("advanced", out, "quality")
      PROVE  AnalysisInv'
  <2>1. \A e \in out.evidence : Grounded(e) \/ e.id[1] = "spc"
    BY AdvancedIsSpc DEF Grounded
  <2> HIDE DEF out
  <2> QED BY <1>2, <2>1, OtherAnswerStep
<1>3. ASSUME stage' = "basic", UNCHANGED <<fab, ask, found, evidence, cites>>
      PROVE  AnalysisInv'
  <2>1. stage = "advanced"
    BY DEF Advanced
  <2>2. InTurn' /\ AskedFor' /\ ImpactAnswered' /\ ImpactComesFirst' /\ OneStory' /\ FdcAnswered'
    BY <1>3, <2>1 DEF AnalysisInv, InTurn, AskedFor, ImpactAnswered, ImpactComesFirst, OneStory, FdcAnswered, Has
  <2>3. MesAnswered'
    BY <1>3 DEF AnalysisInv, MesAnswered, Has
  <2>4. NegativeIsGrounded'
    BY <1>3, NothingAddedStaysGrounded DEF AnalysisInv
  <2> QED BY <2>2, <2>3, <2>4 DEF AnalysisInv
<1> QED BY <1>1, <1>2, <1>3 DEF Advanced

LEMMA BasicStep == AnalysisInv /\ Basic => AnalysisInv'
<1> SUFFICES ASSUME AnalysisInv, Basic PROVE AnalysisInv'
  OBVIOUS
<1> DEFINE out == BasicSpc(fab, found.lots, found.genealogy.op, found.genealogy.chamber)
<1>1. stage = "basic" /\ Answer("basic", out, "quality")
  BY DEF Basic
<1>2. \A e \in out.evidence : Grounded(e)
  BY BasicIsGrounded
<1> HIDE DEF out
<1>3. /\ stage' = "quality" /\ fab' = fab /\ ask' = ask
      /\ DOMAIN found' = DOMAIN found \union {"basic"}
      /\ found'["basic"] = out
      /\ \A t \in DOMAIN found : t # "basic" => found'[t] = found[t]
      /\ evidence \subseteq evidence' /\ evidence' \subseteq evidence \union out.evidence
  BY <1>1, AnswerFacts
<1>4. ~Has("basic") /\ Has("genealogy") /\ "lots" \in DOMAIN found
  BY <1>1 DEF AnalysisInv, InTurn
<1>5. \A t \in {"lots", "mes", "impact", "genealogy", "ooc"} :
        /\ t \in DOMAIN found' <=> t \in DOMAIN found
        /\ t \in DOMAIN found => found'[t] = found[t]
  BY <1>3
<1>6. InTurn'
  BY <1>3, <1>4, <1>5 DEF InTurn, Has
<1>7. AskedFor' /\ ImpactComesFirst'
  BY <1>3, <1>5 DEF AnalysisInv, AskedFor, ImpactComesFirst, Has
<1>8. MesAnswered'
  BY <1>3, <1>5 DEF AnalysisInv, MesAnswered, Has
<1>9. ImpactAnswered'
  BY <1>3, <1>4, <1>5 DEF AnalysisInv, ImpactAnswered, Has
<1>10. OneStory'
  BY <1>3, <1>5 DEF AnalysisInv, ImpactComesFirst, OneStory, Has
<1>11. FdcAnswered'
  <2>1. found'.genealogy = found.genealogy /\ found'.lots = found.lots
    BY <1>4, <1>5 DEF Has
  <2> QED BY <1>3, <1>5, <2>1 DEF AnalysisInv, FdcAnswered, Has, out
<1>12. NegativeIsGrounded'
  BY <1>2, <1>3, EvidenceStaysGrounded DEF AnalysisInv
<1> QED BY <1>6, <1>7, <1>8, <1>9, <1>10, <1>11, <1>12 DEF AnalysisInv

LEMMA QualityStep == AnalysisInv /\ Quality => AnalysisInv'
<1> SUFFICES ASSUME AnalysisInv, Answer("quality", SummarizeDefectWat(fab, found.lots, "selected_lots"), "knowledge")
             PROVE  AnalysisInv'
  BY DEF Quality
<1> DEFINE out == SummarizeDefectWat(fab, found.lots, "selected_lots")
<1>1. \A e \in out.evidence : Grounded(e)
  BY QualityIsGrounded
<1> HIDE DEF out
<1> QED BY <1>1, OtherAnswerStep DEF out

LEMMA KnowledgeSteps == AnalysisInv /\ (Knowledge \/ LookupKnowledge) => AnalysisInv'
<1>1. ASSUME AnalysisInv, Knowledge PROVE AnalysisInv'
  <2> DEFINE out == SimilarCases(fab, ObservedFailure, ask.setting)
  <2>1. Answer("cases", out, "done")
    BY <1>1 DEF Knowledge
  <2>2. \A e \in out.evidence : Grounded(e)
    BY DEF SimilarCases, KnowledgeEvidence, Grounded, Ev
  <2> HIDE DEF out
  <2> QED BY <1>1, <2>1, <2>2, OtherAnswerStep
<1>2. ASSUME AnalysisInv, LookupKnowledge PROVE AnalysisInv'
  <2> DEFINE out == Lookup(fab, ask.question, ask.setting)
  <2>1. Answer("lookup", out, "done") \/ Raise
    BY <1>2 DEF LookupKnowledge
  <2>2. out.evidence = {}
    BY DEF Lookup
  <2> HIDE DEF out
  <2> QED BY <1>2, <2>1, <2>2, OtherAnswerStep, RaiseStep
<1> QED BY <1>1, <1>2

LEMMA AnalysisStutterStep == AnalysisInv /\ UNCHANGED analysis => AnalysisInv'
<1> SUFFICES ASSUME AnalysisInv, UNCHANGED analysis PROVE AnalysisInv'
  OBVIOUS
<1>1. fab' = fab /\ ask' = ask /\ stage' = stage /\ found' = found /\ evidence' = evidence
  BY DEF analysis
<1>2. InTurn' /\ AskedFor' /\ ImpactAnswered' /\ ImpactComesFirst' /\ OneStory' /\ FdcAnswered'
  BY <1>1 DEF AnalysisInv, InTurn, AskedFor, ImpactAnswered, ImpactComesFirst, OneStory, FdcAnswered, Has
<1>3. MesAnswered'
  BY <1>1 DEF AnalysisInv, MesAnswered, Has
<1>4. NegativeIsGrounded'
  BY <1>1, NothingAddedStaysGrounded DEF AnalysisInv
<1> QED BY <1>2, <1>3, <1>4 DEF AnalysisInv

LEMMA NextKeepsAnalysisInv == AnalysisInv /\ [AnalysisNext]_analysis => AnalysisInv'
BY AffectedLotsStep, LotContextStep, ImpactLotsStep, GenealogyStep, ShiftStep, OocEventsStep, AdvancedStep, BasicStep,
   QualityStep, KnowledgeSteps, AnalysisStutterStep DEF AnalysisNext

-----------------------------------------------------------------------------
(* What follows.                                                           *)

\* The analysis keeps its books: every answer that a later Tool or a property
\* looks at is what its Tool said of the same tables, and one story is told.
THEOREM AnalysisInvariance == AnalysisSpec => []AnalysisInv
<1>1. AnalysisInit => AnalysisInv
  BY InitAnalysisInv
<1>2. AnalysisInv /\ [AnalysisNext]_analysis => AnalysisInv'
  BY NextKeepsAnalysisInv
<1> QED BY <1>1, <1>2, PTL DEF AnalysisSpec

\* The excursion of the invariant is the one of the property.
LEMMA AnalysisInvEarnsImpact == AnalysisInv => ImpactIsEarned
<1> SUFFICES ASSUME AnalysisInv, Has("impact") PROVE ImpactIsEarned
  BY DEF ImpactIsEarned
<1>1. PICK x \in ImpactExposures(fab, ask.lot, ask.op, AnyLane) : found.impact = ImpactOf(fab, ask.lot, x)
  BY DEF AnalysisInv, ImpactAnswered
<1>2. x.lot = ask.lot
  BY ExposuresAreOfTheLot
<1>3. Earned(fab, found.impact)
  BY <1>1, <1>2, ImpactAnswerIsEarned
<1> QED BY <1>3 DEF Earned, ImpactIsEarned, RunsIn

\* Genealogy and impact assessment tell one story of an excursion: the chamber
\* whose sensors are analysed is the one in which it was found, every Lot that
\* is compared was exposed, every impacted Lot ran in its window, and every
\* control ran normally after it (find_impact_lots, analyze_lot_genealogy).
THEOREM ExcursionsAreOne == AnalysisSpec => []ExcursionIsOne
<1>1. AnalysisInv => ExcursionIsOne
  BY AnalysisInvEarnsImpact DEF ExcursionIsOne, AnalysisInv
<1> QED BY <1>1, AnalysisInvariance, PTL

\* The Evidence of the invariant is the one of the property.
LEMMA AnalysisInvIsNotSilent == AnalysisInv => SilenceIsNotNormal
<1> SUFFICES ASSUME AnalysisInv PROVE SilenceIsNotNormal
  OBVIOUS
<1>1. ASSUME ask.kind = "product", Has("mes")
      PROVE  /\ found.mes = FindAffectedLots(fab, ask)
             /\ \A l : (\E e \in FindAffectedLots(fab, ask).evidence : e.id = <<"wat_missing">> /\ l \in e.lots) => NamedUntested(l)
  BY <1>1 DEF AnalysisInv, MesAnswered, NamedUntested
<1>2. ASSUME NEW e \in evidence, e.type = "NEGATIVE_SIGNAL", NEW l \in e.lots
      PROVE  \/ NormalBasis(e.id, l)
             \/ e.id = <<"affected_lots">> /\ NamedUntested(l)
             \/ e.id[1] = "spc" /\ Has("advanced")
  <2>1. Grounded(e) \/ OfProduct(e) \/ (e.id[1] = "spc" /\ Has("advanced"))
    BY <1>2 DEF AnalysisInv, NegativeIsGrounded
  <2>2. CASE Grounded(e)
    BY <1>2, <2>2 DEF Grounded
  <2>3. CASE OfProduct(e)
    <3>1. e.id = <<"affected_lots">>
      BY <1>2, <2>3, AffectedOrUntested DEF OfProduct
    <3>2. Passed(l) \/ NamedUntested(l)
      BY <1>1, <1>2, <2>3, AffectedOrUntested DEF OfProduct
    <3> QED BY <3>1, <3>2 DEF NormalBasis
  <2> QED BY <2>1, <2>2, <2>3
<1>3. ASSUME ask.kind = "product", Has("mes")
      PROVE  /\ \A l \in found.mes.lots.normal : Passed(l)
             /\ Of(fab.wat, InWindow(fab, ask)) # {} =>
                  \A l \in InWindow(fab, ask) :
                    Passed(l) \/ (\E r \in Of(fab.wat, {l}) : r.result = "false") \/ NamedUntested(l)
  BY <1>1, <1>3, UntestedIsNotNormal
<1> QED BY <1>2, <1>3 DEF SilenceIsNotNormal

\* Whatever is missing from the tables of a fab, the basic analyses call no Lot
\* normal without a record of it, name every untested Lot of a tested product as
\* such, and call no Lot held that has no hold (the Tools of MES, FDC, and Defect
\* and WAT; an advanced chart speaks of its whole excursion).
THEOREM EvidenceIsGrounded == AnalysisSpec => []EvidenceHasBasis
<1>1. AnalysisInv => HoldChainComplete
  BY HoldsAreComplete DEF AnalysisInv, FdcAnswered, HoldChainComplete
<1>2. AnalysisInv => EvidenceHasBasis
  BY <1>1, AnalysisInvIsNotSilent DEF EvidenceHasBasis
<1> QED BY <1>2, AnalysisInvariance, PTL

\* The baseline of a basic analysis is never smaller than the minimum, and
\* holds only what other Lots measured before every row it is compared with
\* (perform_basic_spc_analysis).
THEOREM BaselinesArePast == AnalysisSpec => []BaselineIsPast
<1>1. AnalysisInv => BaselineIsPast
  BY BasicBaselineIsPast DEF AnalysisInv, FdcAnswered, BaselineIsPast
<1> QED BY <1>1, AnalysisInvariance, PTL

-----------------------------------------------------------------------------
(* Numbers and finite sets.                                                *)

\* A set of numbers has a least one.
LEMMA LeastNumber ==
  ASSUME NEW S, S \subseteq Nat, S # {}
  PROVE  \E m \in S : \A k \in S : m <= k
<1>1. PICK m \in S : \A k \in S : ~ (<<k, m>> \in OpToRel(<, Nat))
  BY WFMin, NatLessThanWellFounded, Zenon
<1>2. \A k \in S : ~ (k < m)
  BY <1>1 DEF OpToRel
<1> QED BY <1>2

LEMMA MinFacts ==
  ASSUME NEW S, S \subseteq Nat, S # {}
  PROVE  Min(S) \in S /\ \A k \in S : Min(S) <= k
  BY LeastNumber DEF Min

\* The image of a finite set.
LEMMA FiniteImage ==
  ASSUME NEW S, IsFiniteSet(S), NEW f, DOMAIN f = S, NEW T, T = {f[x] : x \in S}
  PROVE  IsFiniteSet(T) /\ Cardinality(T) <= Cardinality(S)
<1>1. [x \in S |-> f[x]] \in Surjection(S, T)
  BY DEF Surjection
<1> QED BY <1>1, FS_Surjection

\* A finite set of numbers has a largest one.
LEMMA LargestNumber ==
  ASSUME NEW S, S \subseteq Nat, IsFiniteSet(S), S # {}
  PROVE  \E m \in S : \A k \in S : k <= m
<1> DEFINE above(m) == {k \in S : m < k}
           counts == {Cardinality(above(m)) : m \in S}
<1>1. \A m \in S : IsFiniteSet(above(m)) /\ Cardinality(above(m)) \in Nat
  BY FS_Subset, FS_CardinalityType
<1>2. PICK c \in counts : \A d \in counts : c <= d
  <2>1. counts \subseteq Nat /\ counts # {}
    BY <1>1
  <2> HIDE DEF counts
  <2> QED BY <2>1, LeastNumber
<1>3. PICK m \in S : c = Cardinality(above(m))
  BY <1>2
<1>4. ASSUME NEW k \in S, m < k PROVE FALSE
  <2>1. above(k) \subseteq above(m) /\ k \in above(m) /\ k \notin above(k)
    <3>1. m \in Nat /\ k \in Nat /\ \A y \in S : y \in Nat
      BY <1>4
    <3>2. \A y \in S : k < y => m < y
      BY <1>4, <3>1
    <3>3. k \notin above(k)
      BY <3>1
    <3> QED BY <1>4, <3>2, <3>3
  <2>2. Cardinality(above(k)) <= Cardinality(above(m)) /\ above(k) # above(m)
    BY <2>1, <1>1, FS_Subset
  <2>3. Cardinality(above(k)) # Cardinality(above(m))
    BY <2>1, <2>2, <1>1, FS_Subset
  <2>4. Cardinality(above(m)) <= Cardinality(above(k))
    BY <1>2, <1>3
  <2> HIDE DEF above
  <2> QED BY <2>2, <2>3, <2>4, <1>1
<1> QED BY <1>4

-----------------------------------------------------------------------------
(* Rankings.                                                               *)

IsRanking(R) ==
  /\ IsFiniteSet(R) /\ \A r \in R : r.rank \in 1 .. Cardinality(R)
  /\ \A r, q \in R : r.rank = q.rank => r = q

\* What is ranked by its score, of one hit per asset, has a rank of its own.
LEMMA RankedByBetter ==
  ASSUME NEW B, IsFiniteSet(B), \A h \in B : h.score \in Nat /\ h.asset \in Nat,
         \A h, k \in B : h.asset = k.asset => h = k
  PROVE  IsRanking(Ranked(B, Better)) /\ Items(Ranked(B, Better)) = B
<1> DEFINE above(x) == {y \in B : Better(y, x)}
           R == {[rank |-> 1 + Cardinality(above(x)), item |-> x] : x \in B}
<1>1. Ranked(B, Better) = R
  BY DEF Ranked
<1>2. \A x \in B : IsFiniteSet(above(x)) /\ Cardinality(above(x)) \in Nat
  BY FS_Subset, FS_CardinalityType
<1>3. \A x \in B : ~Better(x, x)
  BY DEF Better
<1>4. \A x, y \in B : x # y => Better(x, y) \/ Better(y, x)
  BY DEF Better
<1>5. \A x, y, z \in B : Better(x, y) /\ Better(y, z) => Better(x, z)
  BY DEF Better
<1>6. ASSUME NEW x \in B, NEW y \in B, Better(y, x) PROVE Cardinality(above(y)) < Cardinality(above(x))
  <2>1. above(y) \subseteq above(x) /\ y \in above(x) /\ y \notin above(y)
    BY <1>3, <1>5, <1>6
  <2>2. Cardinality(above(y)) <= Cardinality(above(x)) /\ Cardinality(above(y)) # Cardinality(above(x))
    BY <2>1, <1>2, FS_Subset
  <2> HIDE DEF above
  <2> QED BY <2>2, <1>2
<1>7. IsFiniteSet(R) /\ Cardinality(R) = Cardinality(B)
  <2> DEFINE f == [x \in B |-> [rank |-> 1 + Cardinality(above(x)), item |-> x]]
  <2>1. R = {f[x] : x \in B} /\ DOMAIN f = B
    OBVIOUS
  <2>2. \A x, y \in B : f[x] = f[y] => x = y
    <3>1. \A x \in B : f[x].item = x
      OBVIOUS
    <3> HIDE DEF f
    <3> QED BY <3>1
  <2>3. f \in Bijection(B, R)
    <3> HIDE DEF R
    <3>1. f \in [B -> R] /\ \A r \in R : \E x \in B : f[x] = r
      BY <2>1
    <3> HIDE DEF f
    <3> QED BY <2>2, <3>1 DEF Bijection, Injection, Surjection, IsInjective
  <2> HIDE DEF f, R
  <2> QED BY <2>3, FS_Bijection DEF ExistsBijection
<1>8. ASSUME NEW x \in B PROVE 1 + Cardinality(above(x)) \in 1 .. Cardinality(R)
  <2>1. above(x) \subseteq B /\ x \notin above(x)
    BY <1>3
  <2>2. Cardinality(above(x)) <= Cardinality(B) /\ Cardinality(above(x)) # Cardinality(B) /\ Cardinality(B) \in Nat
    BY <2>1, FS_Subset, FS_CardinalityType
  <2> HIDE DEF above, R
  <2> QED BY <2>2, <1>2, <1>7
<1>9. ASSUME NEW x \in B, NEW y \in B, Cardinality(above(x)) = Cardinality(above(y)) PROVE x = y
  <2>1. Cardinality(above(x)) \in Nat /\ Cardinality(above(y)) \in Nat
    BY <1>2
  <2>2. ~Better(x, y) /\ ~Better(y, x)
    <3>1. Better(x, y) => Cardinality(above(x)) < Cardinality(above(y))
      BY <1>6
    <3>2. Better(y, x) => Cardinality(above(y)) < Cardinality(above(x))
      BY <1>6
    <3> HIDE DEF above
    <3> QED BY <2>1, <3>1, <3>2, <1>9
  <2> QED BY <2>2, <1>4
<1> HIDE DEF above
<1>10. \A r \in R : r.rank \in 1 .. Cardinality(R)
  <2>1. \A r \in R : \E x \in B : r.rank = 1 + Cardinality(above(x))
    OBVIOUS
  <2> HIDE DEF R
  <2> QED BY <2>1, <1>8
<1>11. \A r, q \in R : r.rank = q.rank => r = q
  <2>1. \A r \in R : \E x \in B : r = [rank |-> 1 + Cardinality(above(x)), item |-> x]
    OBVIOUS
  <2> HIDE DEF R
  <2>2. ASSUME NEW r \in R, NEW q \in R, r.rank = q.rank PROVE r = q
    <3>1. PICK x \in B : r = [rank |-> 1 + Cardinality(above(x)), item |-> x]
      BY <2>1
    <3>2. PICK y \in B : q = [rank |-> 1 + Cardinality(above(y)), item |-> y]
      BY <2>1
    <3>3. Cardinality(above(x)) = Cardinality(above(y))
      BY <2>2, <3>1, <3>2, <1>2
    <3> QED BY <3>1, <3>2, <3>3, <1>9
  <2> QED BY <2>2
<1>12. Items(R) = B
  <2>1. \A r \in R : r.item \in B
    OBVIOUS
  <2>2. \A x \in B : [rank |-> 1 + Cardinality(above(x)), item |-> x] \in R
    OBVIOUS
  <2> HIDE DEF R
  <2>3. \A x \in B : \E r \in R : r.item = x
    BY <2>2
  <2> QED BY <2>1, <2>3 DEF Items
<1> HIDE DEF R
<1> QED BY <1>1, <1>7, <1>10, <1>11, <1>12 DEF IsRanking

\* The assets of a ranking are no more than its rows.
LEMMA AssetsAreFinite ==
  ASSUME NEW R, IsFiniteSet(R)
  PROVE  IsFiniteSet(AssetsOf(R)) /\ Cardinality(AssetsOf(R)) <= Cardinality(R)
<1> DEFINE f == [r \in R |-> r.item.asset]
<1>1. AssetsOf(R) = {f[r] : r \in R} /\ DOMAIN f = R
  BY DEF AssetsOf
<1> HIDE DEF f
<1> QED BY <1>1, FiniteImage

-----------------------------------------------------------------------------
(* The share of a lane.                                                    *)

\* A lane's share is added to the selection, holds at most its minimum of
\* assets that were not in it, and is not empty while there is room.
LEMMA ShareFacts ==
  ASSUME NEW hits, NEW S, IsFiniteSet(S), NEW lane, IsRanking(hits[lane]), NEW top \in Nat
  PROVE  LET T == LaneShare(hits, S, lane, top)
         IN /\ S \subseteq T /\ T \subseteq S \union AssetsOf(hits[lane])
            /\ IsFiniteSet(T)
            /\ Cardinality(T) <= Cardinality(S) + LaneMinimum
            /\ hits[lane] = {} => T = S
            /\ hits[lane] # {} /\ Cardinality(S) < top => T \intersect AssetsOf(hits[lane]) # {}
<1> DEFINE R == hits[lane]
           A == AssetsOf(R)
           with(n) == S \union AssetsOf(Take(R, n))
           enough(n) == Cardinality(with(n) \intersect A) >= LaneMinimum
           stops == {n \in 1 .. Cardinality(R) : enough(n) \/ Cardinality(with(n)) >= top}
           T == LaneShare(hits, S, lane, top)
<1>0. LaneMinimum \in Nat \ {0}
  BY RetrievalAssumption
<1>1. T = IF Cardinality(S) >= top THEN S ELSE IF stops # {} THEN with(Min(stops)) ELSE S \union A
  BY DEF LaneShare
<1>2. /\ IsFiniteSet(R) /\ Cardinality(R) \in Nat
      /\ \A r \in R : r.rank \in 1 .. Cardinality(R)
      /\ \A r, q \in R : r.rank = q.rank => r = q
  BY FS_CardinalityType DEF IsRanking
<1>3. \A n : Take(R, n) \subseteq R /\ AssetsOf(Take(R, n)) \subseteq A
  BY DEF Take, AssetsOf
<1>4. IsFiniteSet(A) /\ IsFiniteSet(S) /\ Cardinality(S) \in Nat
  BY <1>2, AssetsAreFinite, FS_CardinalityType
<1>5. \A n : IsFiniteSet(with(n)) /\ IsFiniteSet(AssetsOf(Take(R, n))) /\ IsFiniteSet(with(n) \intersect A)
  <2> TAKE n
  <2>1. IsFiniteSet(AssetsOf(Take(R, n)))
    BY <1>3, <1>4, FS_Subset
  <2>2. IsFiniteSet(with(n))
    BY <1>4, <2>1, FS_Union
  <2> QED BY <2>1, <2>2, FS_Intersection
<1>6. S \subseteq T /\ T \subseteq S \union A
  BY <1>1, <1>3
<1>7. IsFiniteSet(T)
  <2>1. IsFiniteSet(S \union A)
    BY <1>4, FS_Union
  <2> QED BY <2>1, <1>6, FS_Subset
<1>8. Take(R, 0) = {}
  BY <1>2 DEF Take
<1>9. Take(R, Cardinality(R)) = R
  BY <1>2 DEF Take
<1>10. stops # {} => Min(stops) \in stops /\ \A k \in stops : Min(stops) <= k
  <2>1. stops \subseteq Nat
    BY <1>2
  <2> HIDE DEF stops
  <2> QED BY <2>1, MinFacts
<1>11. \A n \in Nat : ~enough(n) /\ n # 0 => Cardinality(AssetsOf(Take(R, n))) < LaneMinimum
  <2> SUFFICES ASSUME NEW n \in Nat, ~enough(n) PROVE Cardinality(AssetsOf(Take(R, n))) < LaneMinimum
    OBVIOUS
  <2>1. AssetsOf(Take(R, n)) \subseteq with(n) \intersect A
    BY <1>3
  <2>2. Cardinality(AssetsOf(Take(R, n))) <= Cardinality(with(n) \intersect A)
    BY <2>1, <1>5, FS_Subset
  <2>3. Cardinality(AssetsOf(Take(R, n))) \in Nat /\ Cardinality(with(n) \intersect A) \in Nat
    BY <1>5, FS_CardinalityType
  <2>4. Cardinality(with(n) \intersect A) < LaneMinimum
    BY <2>3, <1>0
  <2> QED BY <2>2, <2>3, <2>4, <1>0
<1>12. ASSUME NEW n \in Nat \ {0}
       PROVE  Cardinality(AssetsOf(Take(R, n))) <= Cardinality(AssetsOf(Take(R, n - 1))) + 1
  <2>1. CASE \E q \in R : q.rank = n
    <3>1. PICK q \in R : q.rank = n
      BY <2>1
    <3>2. Take(R, n) = Take(R, n - 1) \union {q}
      BY <1>2, <3>1 DEF Take
    <3>3. AssetsOf(Take(R, n)) = AssetsOf(Take(R, n - 1)) \union {q.item.asset}
      BY <3>2 DEF AssetsOf
    <3>4. Cardinality(AssetsOf(Take(R, n - 1))) \in Nat
      BY <1>5, FS_CardinalityType
    <3> DEFINE less == AssetsOf(Take(R, n - 1))
    <3>5. Cardinality(less \union {q.item.asset}) = IF q.item.asset \in less THEN Cardinality(less) ELSE Cardinality(less) + 1
      <4>1. IsFiniteSet(less)
        BY <1>5
      <4> HIDE DEF less
      <4> QED BY <4>1, FS_AddElement
    <3> QED BY <3>3, <3>4, <3>5
  <2>2. CASE ~\E q \in R : q.rank = n
    <3>1. Take(R, n) = Take(R, n - 1)
      BY <1>2, <2>2 DEF Take
    <3>2. Cardinality(AssetsOf(Take(R, n - 1))) \in Nat
      BY <1>5, FS_CardinalityType
    <3> QED BY <3>1, <3>2
  <2> QED BY <2>1, <2>2
<1>13. Cardinality(AssetsOf(Take(R, 0))) = 0
  BY <1>8, FS_EmptySet DEF AssetsOf
<1>14. \A n : Cardinality(with(n)) <= Cardinality(S) + Cardinality(AssetsOf(Take(R, n)))
  <2> TAKE n
  <2>1. Cardinality(with(n)) = Cardinality(S) + Cardinality(AssetsOf(Take(R, n))) - Cardinality(S \intersect AssetsOf(Take(R, n)))
    BY <1>4, <1>5, FS_Union
  <2>2. Cardinality(AssetsOf(Take(R, n))) \in Nat /\ Cardinality(S \intersect AssetsOf(Take(R, n))) \in Nat
    BY <1>4, <1>5, FS_Intersection, FS_CardinalityType
  <2> HIDE DEF with
  <2> QED BY <2>1, <2>2, <1>4
<1>15. Cardinality(T) <= Cardinality(S) + LaneMinimum
  <2>1. CASE Cardinality(S) >= top
    BY <2>1, <1>0, <1>1, <1>4
  <2>2. CASE ~(Cardinality(S) >= top) /\ stops # {}
    <3> DEFINE n == Min(stops)
    <3>1. T = with(n)
      BY <1>1, <2>2
    <3>2. n \in 1 .. Cardinality(R) /\ \A k \in stops : n <= k
      BY <1>10, <2>2
    <3> HIDE DEF n, T
    <3>3. Cardinality(AssetsOf(Take(R, n - 1))) < LaneMinimum
      <4>1. CASE n = 1
        BY <4>1, <1>0, <1>13
      <4>2. CASE n # 1
        <5>1. n - 1 \in 1 .. Cardinality(R) /\ n - 1 \notin stops
          <6> HIDE DEF stops
          <6>1. n \in Nat /\ n > 1 /\ n <= Cardinality(R)
            BY <4>2, <3>2, <1>2
          <6>2. ~(n <= n - 1)
            BY <6>1
          <6> QED BY <6>1, <6>2, <3>2, <1>2
        <5>2. ~enough(n - 1)
          BY <5>1
        <5> HIDE DEF enough, stops
        <5> QED BY <5>1, <5>2, <1>2, <1>11
      <4> QED BY <4>1, <4>2
    <3>4. Cardinality(AssetsOf(Take(R, n))) <= Cardinality(AssetsOf(Take(R, n - 1))) + 1
      BY <3>2, <1>2, <1>12
    <3>5. /\ Cardinality(AssetsOf(Take(R, n))) \in Nat /\ Cardinality(AssetsOf(Take(R, n - 1))) \in Nat
          /\ Cardinality(with(n)) \in Nat
      BY <1>5, FS_CardinalityType
    <3>6. Cardinality(with(n)) <= Cardinality(S) + Cardinality(AssetsOf(Take(R, n)))
      BY <1>14
    <3> HIDE DEF with
    <3> QED BY <3>1, <3>3, <3>4, <3>5, <3>6, <1>0, <1>4
  <2>3. CASE ~(Cardinality(S) >= top) /\ stops = {}
    <3>1. T = S \union A /\ with(Cardinality(R)) = S \union A
      BY <1>1, <2>3, <1>9
    <3>2. Cardinality(AssetsOf(Take(R, Cardinality(R)))) < LaneMinimum
      <4>1. CASE Cardinality(R) = 0
        BY <4>1, <1>0, <1>13
      <4>2. CASE Cardinality(R) # 0
        <5>1. Cardinality(R) \in 1 .. Cardinality(R) /\ Cardinality(R) \notin stops
          BY <4>2, <2>3, <1>2
        <5>2. ~enough(Cardinality(R))
          BY <5>1
        <5> HIDE DEF enough, stops
        <5> QED BY <4>2, <5>2, <1>2, <1>11
      <4> QED BY <4>1, <4>2
    <3>3. Cardinality(AssetsOf(Take(R, Cardinality(R)))) \in Nat /\ Cardinality(with(Cardinality(R))) \in Nat
      BY <1>5, FS_CardinalityType
    <3>4. Cardinality(with(Cardinality(R))) <= Cardinality(S) + Cardinality(AssetsOf(Take(R, Cardinality(R))))
      BY <1>14
    <3> HIDE DEF T, with
    <3> QED BY <3>1, <3>2, <3>3, <3>4, <1>0, <1>4
  <2> QED BY <2>1, <2>2, <2>3
<1>16. ASSUME R = {} PROVE T = S
  <2>1. Cardinality(R) = 0 /\ A = {} /\ stops = {}
    BY <1>16, FS_EmptySet DEF AssetsOf
  <2> HIDE DEF stops, A
  <2> QED BY <1>1, <2>1
<1>17. ASSUME R # {}, Cardinality(S) < top PROVE T \intersect A # {}
  <2>1. A # {} /\ ~(Cardinality(S) >= top)
    BY <1>17, <1>4 DEF AssetsOf
  <2>2. CASE stops = {}
    BY <2>1, <2>2, <1>1
  <2>3. CASE stops # {}
    <3> DEFINE n == Min(stops)
    <3>1. T = with(n) /\ n \in stops
      BY <1>1, <1>10, <2>1, <2>3
    <3> HIDE DEF n, T
    <3>2. CASE enough(n)
      <4>1. Cardinality(with(n) \intersect A) \in Nat /\ Cardinality(with(n) \intersect A) # 0
        <5>1. Cardinality(with(n) \intersect A) \in Nat
          BY <1>5, FS_CardinalityType
        <5> QED BY <5>1, <1>0, <3>2
      <4> HIDE DEF A, with
      <4> QED BY <3>1, <4>1, FS_EmptySet
    <3>3. CASE Cardinality(with(n)) >= top
      <4>1. Cardinality(with(n)) \in Nat
        BY <1>5, FS_CardinalityType
      <4>2. with(n) # S
        <5> HIDE DEF with
        <5> QED BY <3>3, <4>1, <1>4, <1>17
      <4>3. AssetsOf(Take(R, n)) # {}
        BY <4>2
      <4> HIDE DEF A
      <4> QED BY <3>1, <4>3, <1>3
    <3> QED BY <3>1, <3>2, <3>3
  <2> QED BY <2>2, <2>3
<1> HIDE DEF T, A
<1> QED BY <1>6, <1>7, <1>15, <1>16, <1>17 DEF T, A

Live(hits) == {lane \in DOMAIN hits : hits[lane] # {}}

\* The lanes of P have had their turns, and each live one is in the selection.
Placed(hits, P, S) ==
  /\ IsFiniteSet(S) /\ Cardinality(S) <= Cardinality(P \intersect Live(hits)) * LaneMinimum
  /\ \A lane \in P \intersect Live(hits) : S \intersect AssetsOf(hits[lane]) # {}

LEMMA LanesAreFinite == IsFiniteSet(CausalLanes)
<1>1. IsFiniteSet({"same_step"} \union {"upstream_route"})
  BY FS_Singleton, FS_Union
<1>2. IsFiniteSet(({"same_step"} \union {"upstream_route"}) \union {"shared_resource"})
  BY <1>1, FS_AddElement
<1>3. IsFiniteSet((({"same_step"} \union {"upstream_route"}) \union {"shared_resource"}) \union {"global_semantic"})
  BY <1>2, FS_AddElement
<1>4. ((({"same_step"} \union {"upstream_route"}) \union {"shared_resource"}) \union {"global_semantic"}) = CausalLanes
  BY DEF CausalLanes
<1> QED BY <1>3, <1>4

LEMMA Multiples ==
  ASSUME NEW m \in Nat, NEW n \in Nat, m <= n, NEW k \in Nat
  PROVE  m * k <= n * k /\ (m + 1) * k = m * k + k /\ m * k \in Nat
  OBVIOUS

\* The next lane takes its turn: there is room for it, and it takes no more than its minimum.
LEMMA PlacedStep ==
  ASSUME NEW hits, DOMAIN hits = CausalLanes, \A lane \in CausalLanes : IsRanking(hits[lane]),
         NEW top \in Nat, Cardinality(Live(hits)) * LaneMinimum <= top,
         NEW P, P \subseteq CausalLanes, NEW lane \in CausalLanes, lane \notin P, NEW S, Placed(hits, P, S)
  PROVE  Placed(hits, P \union {lane}, LaneShare(hits, S, lane, top))
<1> DEFINE T == LaneShare(hits, S, lane, top)
           Q == P \intersect Live(hits)
           A == AssetsOf(hits[lane])
<1>0. LaneMinimum \in Nat \ {0}
  BY RetrievalAssumption
<1>1. /\ IsFiniteSet(S) /\ IsFiniteSet(T) /\ S \subseteq T
      /\ Cardinality(T) <= Cardinality(S) + LaneMinimum
      /\ hits[lane] = {} => T = S
      /\ hits[lane] # {} /\ Cardinality(S) < top => T \intersect A # {}
  BY ShareFacts DEF Placed
<1>2. IsFiniteSet(Live(hits)) /\ Live(hits) \subseteq CausalLanes
  <2> QED BY LanesAreFinite, FS_Subset DEF Live
<1>3. /\ IsFiniteSet(Q) /\ Cardinality(Q) \in Nat /\ Cardinality(Live(hits)) \in Nat
      /\ Cardinality(S) \in Nat /\ Cardinality(T) \in Nat
  BY <1>1, <1>2, FS_Subset, FS_CardinalityType
<1>4. CASE hits[lane] = {}
  <2>1. (P \union {lane}) \intersect Live(hits) = Q
    BY <1>4 DEF Live
  <2> HIDE DEF T, Q
  <2> QED BY <2>1, <1>1, <1>4 DEF Placed, Q, T
<1>5. CASE hits[lane] # {}
  <2>1. lane \in Live(hits) /\ lane \notin Q /\ (P \union {lane}) \intersect Live(hits) = Q \union {lane}
    BY <1>5 DEF Live
  <2>2. IsFiniteSet(Q \union {lane}) /\ Cardinality(Q \union {lane}) = Cardinality(Q) + 1
    <3> HIDE DEF Q
    <3> QED BY <1>3, <2>1, FS_AddElement
  <2>3. Cardinality(Q) + 1 <= Cardinality(Live(hits))
    <3>1. Q \union {lane} \subseteq Live(hits)
      BY <2>1
    <3> QED BY <3>1, <2>2, <1>2, FS_Subset
  <2>4. Cardinality(S) <= Cardinality(Q) * LaneMinimum
    BY DEF Placed
  <2>5. /\ (Cardinality(Q) + 1) * LaneMinimum <= Cardinality(Live(hits)) * LaneMinimum
        /\ (Cardinality(Q) + 1) * LaneMinimum = Cardinality(Q) * LaneMinimum + LaneMinimum
        /\ Cardinality(Q) * LaneMinimum \in Nat /\ Cardinality(Live(hits)) * LaneMinimum \in Nat
    <3> HIDE DEF Q
    <3>1. Cardinality(Q) + 1 \in Nat
      BY <1>3
    <3> QED BY <3>1, <2>3, <1>0, <1>3, Multiples
  <2> HIDE DEF Q
  <2>6. Cardinality(S) < top
    <3> DEFINE m == Cardinality(Q) * LaneMinimum
               l == Cardinality(Live(hits)) * LaneMinimum
    <3>1. m \in Nat /\ l \in Nat /\ Cardinality(S) <= m /\ m + LaneMinimum <= l /\ l <= top
      BY <2>4, <2>5
    <3> HIDE DEF m, l
    <3> QED BY <3>1, <1>0, <1>3
  <2>7. T \intersect A # {}
    BY <1>1, <1>5, <2>6
  <2>8. Cardinality(T) <= (Cardinality(Q) + 1) * LaneMinimum
    <3> DEFINE m == Cardinality(Q) * LaneMinimum
    <3>1. m \in Nat /\ Cardinality(S) <= m /\ (Cardinality(Q) + 1) * LaneMinimum = m + LaneMinimum
      BY <2>4, <2>5
    <3> HIDE DEF m, T
    <3> QED BY <3>1, <1>0, <1>1, <1>3
  <2>9. \A k \in Q \union {lane} : T \intersect AssetsOf(hits[k]) # {}
    <3>1. \A k \in Q : S \intersect AssetsOf(hits[k]) # {}
      BY DEF Placed, Q
    <3> HIDE DEF T
    <3> QED BY <3>1, <2>7, <1>1
  <2> HIDE DEF T
  <2> QED BY <2>1, <2>2, <2>8, <2>9, <1>1 DEF Placed, T
<1> QED BY <1>4, <1>5

\* While the answer has room for all of them, every live lane is in the selection.
LEMMA LiveLanesArePlaced ==
  ASSUME NEW hits, DOMAIN hits = CausalLanes, \A lane \in CausalLanes : IsRanking(hits[lane]),
         NEW top \in Nat, Cardinality(Live(hits)) * LaneMinimum <= top
  PROVE  \A lane \in Live(hits) : SharedSelection(hits, top) \intersect AssetsOf(hits[lane]) # {}
<1> DEFINE same == LaneShare(hits, {}, "same_step", top)
           upstream == LaneShare(hits, same, "upstream_route", top)
           resource == LaneShare(hits, upstream, "shared_resource", top)
           global == LaneShare(hits, resource, "global_semantic", top)
<1>0. SharedSelection(hits, top) = global
  BY DEF SharedSelection
<1>1. Placed(hits, {}, {})
  <2>1. LaneMinimum \in Nat
    BY RetrievalAssumption
  <2>2. {} \intersect Live(hits) = {}
    OBVIOUS
  <2> QED BY <2>1, <2>2, FS_EmptySet DEF Placed
<1>2. /\ "same_step" \in CausalLanes /\ "upstream_route" \in CausalLanes
      /\ "shared_resource" \in CausalLanes /\ "global_semantic" \in CausalLanes
      /\ "same_step" \notin {} /\ "upstream_route" \notin {"same_step"}
      /\ "shared_resource" \notin {"same_step", "upstream_route"}
      /\ "global_semantic" \notin {"same_step", "upstream_route", "shared_resource"}
      /\ {} \subseteq CausalLanes /\ {"same_step"} \subseteq CausalLanes /\ {"same_step", "upstream_route"} \subseteq CausalLanes
      /\ {"same_step", "upstream_route", "shared_resource"} \subseteq CausalLanes
  BY DEF CausalLanes
<1>3. Placed(hits, {"same_step"}, same)
  <2>1. Placed(hits, {} \union {"same_step"}, same)
    BY <1>1, <1>2, PlacedStep
  <2>2. {} \union {"same_step"} = {"same_step"}
    OBVIOUS
  <2> HIDE DEF same
  <2> QED BY <2>1, <2>2
<1> HIDE DEF same
<1>4. Placed(hits, {"same_step", "upstream_route"}, upstream)
  <2>1. Placed(hits, {"same_step"} \union {"upstream_route"}, upstream)
    BY <1>2, <1>3, PlacedStep
  <2>2. {"same_step"} \union {"upstream_route"} = {"same_step", "upstream_route"}
    OBVIOUS
  <2> HIDE DEF upstream
  <2> QED BY <2>1, <2>2
<1> HIDE DEF upstream
<1>5. Placed(hits, {"same_step", "upstream_route", "shared_resource"}, resource)
  <2>1. Placed(hits, {"same_step", "upstream_route"} \union {"shared_resource"}, resource)
    BY <1>2, <1>4, PlacedStep
  <2>2. {"same_step", "upstream_route"} \union {"shared_resource"} = {"same_step", "upstream_route", "shared_resource"}
    OBVIOUS
  <2> HIDE DEF resource
  <2> QED BY <2>1, <2>2
<1> HIDE DEF resource
<1>6. Placed(hits, CausalLanes, global)
  <2>1. Placed(hits, {"same_step", "upstream_route", "shared_resource"} \union {"global_semantic"}, global)
    BY <1>2, <1>5, PlacedStep
  <2>2. {"same_step", "upstream_route", "shared_resource"} \union {"global_semantic"} = CausalLanes
    BY DEF CausalLanes
  <2> HIDE DEF global
  <2> QED BY <2>1, <2>2
<1> HIDE DEF global
<1>7. CausalLanes \intersect Live(hits) = Live(hits)
  BY DEF Live
<1> QED BY <1>0, <1>6, <1>7 DEF Placed

\* What is selected was found by a lane.
LEMMA SelectionIsOfTheLanes ==
  ASSUME NEW hits, DOMAIN hits = CausalLanes, NEW top
  PROVE  SharedSelection(hits, top) \subseteq UNION {AssetsOf(hits[lane]) : lane \in DOMAIN hits}
<1>1. \A S, lane : LaneShare(hits, S, lane, top) \subseteq S \union AssetsOf(hits[lane])
  BY DEF LaneShare, Take, AssetsOf
<1> QED BY <1>1 DEF SharedSelection, CausalLanes

-----------------------------------------------------------------------------
(* What the lanes find is what is told.                                    *)

\* The hits of all lanes.
Seen(hits) == UNION {Items(hits[lane]) : lane \in DOMAIN hits}
Merged(hits, h) == [h EXCEPT !.lanes = LanesWith(hits, h.asset)]

\* Ordering the selection keeps it.
LEMMA ContributionRows ==
  ASSUME NEW hits
  PROVE  \A S : /\ \A r \in ByContribution(hits, S) : r.item \in S /\ DOMAIN r = {"rank", "item"}
               /\ \A a \in S : \E r \in ByContribution(hits, S) : r.item = a
<1> DEFINE before(a, b) == \/ Contribution(hits, a) > Contribution(hits, b)
                           \/ Contribution(hits, a) = Contribution(hits, b) /\ a < b
           row(S, x) == [rank |-> 1 + Cardinality({y \in S : before(y, x)}), item |-> x]
<1>1. \A S : ByContribution(hits, S) = {row(S, x) : x \in S}
  BY DEF ByContribution, Ranked
<1>2. \A S, x : row(S, x).item = x /\ DOMAIN row(S, x) = {"rank", "item"}
  OBVIOUS
<1> HIDE DEF row
<1> QED BY <1>1, <1>2

\* What is fused is a hit of some lane, and tells which lanes found its asset;
\* each asset of the selection is told.
LEMMA FusedFacts ==
  ASSUME NEW hits, DOMAIN hits = CausalLanes, NEW top,
         \A lane \in CausalLanes : IsFiniteSet(hits[lane]) /\ \A r \in hits[lane] : r.item.score \in Nat
  PROVE  /\ \A r \in FuseLanes(hits, top) : \E h \in Seen(hits) : r.item = Merged(hits, h)
         /\ \A a \in SharedSelection(hits, top) :
              \E r \in FuseLanes(hits, top) : \E h \in Seen(hits) : h.asset = a /\ r.item = Merged(hits, h)
<1> DEFINE all == UNION {AssetsOf(hits[lane]) : lane \in DOMAIN hits}
           shared == SharedSelection(hits, top)
           filled == shared \union Items(Take(ByContribution(hits, all \ shared), top - Cardinality(shared)))
           variants(a) == {h \in UNION {Items(hits[lane]) : lane \in DOMAIN hits} : h.asset = a}
           best(a) == CHOOSE h \in variants(a) : \A k \in variants(a) : k.score <= h.score
<1>1. FuseLanes(hits, top) = {[r EXCEPT !.item = [best(r.item) EXCEPT !.lanes = LanesWith(hits, r.item)]] : r \in ByContribution(hits, filled)}
  BY DEF FuseLanes
<1>2. \A S : \A r \in ByContribution(hits, S) : r.item \in S /\ DOMAIN r = {"rank", "item"}
  BY ContributionRows
<1>3. \A S : \A a \in S : \E r \in ByContribution(hits, S) : r.item = a
  BY ContributionRows
<1>4. filled \subseteq all
  <2>1. shared \subseteq all
    BY SelectionIsOfTheLanes
  <2>2. \A r \in ByContribution(hits, all \ shared) : r.item \in all
    BY <1>2
  <2> HIDE DEF all, shared
  <2> QED BY <2>1, <2>2 DEF Items, Take
<1>5. ASSUME NEW a \in all PROVE best(a) \in variants(a)
  <2>1. IsFiniteSet(Seen(hits)) /\ \A h \in Seen(hits) : h.score \in Nat
    <3>1. \A lane \in CausalLanes : IsFiniteSet(Items(hits[lane]))
      <4> TAKE lane \in CausalLanes
      <4> DEFINE R == hits[lane]
                 f == [r \in R |-> r.item]
      <4>1. Items(R) = {f[r] : r \in R} /\ DOMAIN f = R /\ IsFiniteSet(R)
        BY DEF Items
      <4> HIDE DEF f, R
      <4>2. IsFiniteSet(Items(R))
        BY <4>1, FiniteImage
      <4> QED BY <4>2 DEF R
    <3>2. IsFiniteSet({Items(hits[lane]) : lane \in DOMAIN hits})
      <4> DEFINE f == [lane \in CausalLanes |-> Items(hits[lane])]
                 T == {Items(hits[lane]) : lane \in DOMAIN hits}
      <4>1. T = {f[lane] : lane \in CausalLanes} /\ DOMAIN f = CausalLanes
        OBVIOUS
      <4> HIDE DEF f, T
      <4>2. IsFiniteSet(T)
        BY <4>1, LanesAreFinite, FiniteImage
      <4> QED BY <4>2 DEF T
    <3>3. \A T \in {Items(hits[lane]) : lane \in DOMAIN hits} : IsFiniteSet(T)
      BY <3>1
    <3>4. IsFiniteSet(UNION {Items(hits[lane]) : lane \in DOMAIN hits})
      BY <3>2, <3>3, FS_UNION
    <3>5. \A h \in Seen(hits) : \E lane \in CausalLanes : \E r \in hits[lane] : h = r.item
      BY DEF Seen, Items
    <3> QED BY <3>4, <3>5 DEF Seen
  <2>2. variants(a) \subseteq Seen(hits) /\ variants(a) # {}
    BY DEF Seen, AssetsOf, Items
  <2> HIDE DEF variants
  <2> DEFINE V == variants(a)
             scores == {h.score : h \in V}
  <2>3. \E m \in scores : \A k \in scores : k <= m
    <3>1. IsFiniteSet(V)
      BY <2>1, <2>2, FS_Subset
    <3> DEFINE f == [h \in V |-> h.score]
    <3>2. scores = {f[h] : h \in V} /\ DOMAIN f = V
      OBVIOUS
    <3>3. IsFiniteSet(scores)
      <4> HIDE DEF f, scores, V
      <4> QED BY <3>1, <3>2, FiniteImage
    <3>4. scores # {} /\ scores \subseteq Nat
      BY <2>1, <2>2
    <3> HIDE DEF scores
    <3> QED BY <3>3, <3>4, LargestNumber
  <2>4. \E h \in V : \A k \in V : k.score <= h.score
    <3>1. PICK m \in scores : \A k \in scores : k <= m
      BY <2>3
    <3>2. PICK h \in V : m = h.score
      BY <3>1
    <3> QED BY <3>1, <3>2
  <2> QED BY <2>4
<1>6. \A a \in all : best(a) \in Seen(hits) /\ best(a).asset = a
  BY <1>5 DEF Seen
<1> DEFINE told(r) == [r EXCEPT !.item = [best(r.item) EXCEPT !.lanes = LanesWith(hits, r.item)]]
<1> HIDE DEF best, all, filled, variants
<1>8. \A r \in ByContribution(hits, filled) : told(r).item = Merged(hits, best(r.item))
  <2> TAKE r \in ByContribution(hits, filled)
  <2>1. r.item \in all
    BY <1>2, <1>4
  <2>2. best(r.item).asset = r.item
    BY <2>1, <1>6
  <2>3. told(r).item = [best(r.item) EXCEPT !.lanes = LanesWith(hits, r.item)]
    BY <1>2
  <2> QED BY <2>2, <2>3 DEF Merged
<1>9. \A r \in ByContribution(hits, filled) : best(r.item) \in Seen(hits) /\ best(r.item).asset = r.item
  BY <1>2, <1>4, <1>6
<1>10. FuseLanes(hits, top) = {told(r) : r \in ByContribution(hits, filled)}
  BY <1>1
<1> HIDE DEF told
<1>11. \A a \in shared : \E r \in ByContribution(hits, filled) : r.item = a
  <2>1. shared \subseteq filled
    BY DEF filled
  <2> QED BY <2>1, <1>3
<1> QED BY <1>8, <1>9, <1>10, <1>11

-----------------------------------------------------------------------------
(* What a search finds.                                                    *)

\* A hit is a document in scope; the database alone does not know the time.
Retrieved(docs, plan, setting, h) ==
  \E d \in docs, score \in Nat :
    /\ h = HitOf(d, score) /\ InTables(d, plan)
    /\ (setting.hybrid /\ setting.postgres) \/ InScope(d, plan)

\* The rows of a ranking are of D and have a rank.
Rows(R, D) == \A r \in R : r.rank \in Nat \ {0} /\ r.item \in D

\* A row whose rank counts those before it has a rank.
LEMMA RowFacts ==
  ASSUME NEW D, IsFiniteSet(D), NEW R,
         \A r \in R : \E x \in D : \E T \in SUBSET D : r = [rank |-> 1 + Cardinality(T), item |-> x]
  PROVE  Rows(R, D)
<1>1. \A T \in SUBSET D : Cardinality(T) \in Nat
  BY FS_Subset, FS_CardinalityType
<1> QED BY <1>1 DEF Rows

\* The four sources rank documents in scope, those of the database documents of the right tables.
LEMMA SourceFacts ==
  ASSUME NEW docs, IsFiniteSet(docs), NEW plan
  PROVE  /\ Rows(PythonBM25(docs, plan), {d \in docs : InScope(d, plan)})
         /\ Rows(ExactVector(docs, plan), {d \in docs : InScope(d, plan)})
         /\ Rows(PostgresBM25(docs, plan), {d \in docs : InTables(d, plan)})
         /\ Rows(PostgresVector(docs, plan), {d \in docs : InTables(d, plan)})
<1> DEFINE scope == {d \in docs : InScope(d, plan)}
           tables == {d \in docs : InTables(d, plan)}
           isRow(r, D) == \E x \in D : \E T \in SUBSET D : r = [rank |-> 1 + Cardinality(T), item |-> x]
<1>1. IsFiniteSet(scope) /\ IsFiniteSet(tables)
  BY FS_Subset
<1>2. \A r \in PythonBM25(docs, plan) : isRow(r, scope)
  <2> DEFINE S == {d \in scope : d.lex > 0}
             before(d, e) == d.lex > e.lex \/ (d.lex = e.lex /\ d.id < e.id)
  <2>1. PythonBM25(docs, plan) = {[rank |-> 1 + Cardinality({y \in S : before(y, x)}), item |-> x] : x \in S}
    BY DEF PythonBM25, RankedBy, Sorted, Ranked
  <2>2. \A x \in S : x \in scope /\ {y \in S : before(y, x)} \in SUBSET scope
    OBVIOUS
  <2> HIDE DEF S, before, scope
  <2> QED BY <2>1, <2>2
<1>3. \A r \in ExactVector(docs, plan) : isRow(r, scope)
  <2> DEFINE S == scope
             before(d, e) == d.vec > e.vec \/ (d.vec = e.vec /\ d.id < e.id)
  <2>1. ExactVector(docs, plan) = {[rank |-> 1 + Cardinality({y \in S : before(y, x)}), item |-> x] : x \in S}
    BY DEF ExactVector, Sorted, Ranked
  <2>2. \A x \in S : x \in scope /\ {y \in S : before(y, x)} \in SUBSET scope
    OBVIOUS
  <2> HIDE DEF S, before, scope
  <2> QED BY <2>1, <2>2
<1>4. \A r \in PostgresBM25(docs, plan) : isRow(r, tables)
  <2> DEFINE S == {d \in tables : d.lex > 0}
             before(d, e) == d.lex > e.lex \/ (d.lex = e.lex /\ d.id < e.id)
  <2>1. PostgresBM25(docs, plan) = {[rank |-> 1 + Cardinality({y \in S : before(y, x)}), item |-> x] : x \in S}
    BY DEF PostgresBM25, RankedBy, Sorted, Ranked
  <2>2. \A x \in S : x \in tables /\ {y \in S : before(y, x)} \in SUBSET tables
    OBVIOUS
  <2> HIDE DEF S, before, tables
  <2> QED BY <2>1, <2>2
<1>5. \A r \in PostgresVector(docs, plan) : isRow(r, tables)
  <2> DEFINE S == tables
             before(d, e) == d.vec > e.vec \/ (d.vec = e.vec /\ d.id < e.id)
  <2>1. PostgresVector(docs, plan) = {[rank |-> 1 + Cardinality({y \in S : before(y, x)}), item |-> x] : x \in S}
    BY DEF PostgresVector, Sorted, Ranked
  <2>2. \A x \in S : x \in tables /\ {y \in S : before(y, x)} \in SUBSET tables
    OBVIOUS
  <2> HIDE DEF S, before, tables
  <2> QED BY <2>1, <2>2
<1> HIDE DEF scope, tables
<1> QED BY <1>1, <1>2, <1>3, <1>4, <1>5, RowFacts DEF scope, tables

\* A fused score is a number, and only a document of one of the rankings has one.
LEMMA FusedIsNumber ==
  ASSUME NEW a, NEW b, NEW D, Rows(a, D), Rows(b, D), NEW d
  PROVE  Fused(a, b, d) \in Nat /\ (Fused(a, b, d) > 0 => d \in D)
<1>1. \A rank \in Nat \ {0} : Weight(rank) \in Nat
  <2> TAKE rank \in Nat \ {0}
  <2>1. RrfK + rank \in Nat \ {0}
    BY RetrievalAssumption
  <2> DEFINE m == RrfK + rank
  <2> HIDE DEF m
  <2>2. 10000 \div m \in Nat
    BY <2>1 DEF m
  <2> QED BY <2>2 DEF Weight, m
<1>2. ASSUME NEW R, Rows(R, D), d \in Items(R) PROVE RankOf(R, d) \in Nat \ {0} /\ d \in D
  <2>1. \E r \in R : r.item = d
    BY <1>2 DEF Items
  <2> QED BY <1>2, <2>1 DEF RankOf, Rows
<1>3. d \in Items(a) => Weight(RankOf(a, d)) \in Nat /\ d \in D
  BY <1>1, <1>2
<1>4. d \in Items(b) => Weight(RankOf(b, d)) \in Nat /\ d \in D
  BY <1>1, <1>2
<1> QED BY <1>3, <1>4 DEF Fused

\* Hybrid search finds finitely many documents of its two rankings.
LEMMA HybridFacts ==
  ASSUME NEW docs, IsFiniteSet(docs), NEW D, NEW a, NEW b, Rows(a, D), Rows(b, D), NEW top
  PROVE  /\ IsFiniteSet(Items(HybridHits(docs, a, b, top)))
         /\ \A h \in Items(HybridHits(docs, a, b, top)) :
              \E d \in docs, score \in Nat : h = HitOf(d, score) /\ d \in D
<1> DEFINE score(d) == Fused(a, b, d)
           ranked == RankedBy(BestOf(docs, score), score)
           f == [d \in docs |-> HitOf(d, score(d))]
           T == {f[d] : d \in docs}
<1>1. \A r \in ranked : DOMAIN r = {"rank", "item"} /\ r.item \in docs /\ score(r.item) > 0
  <2> DEFINE S == {d \in BestOf(docs, score) : score(d) > 0}
             before(d, e) == score(d) > score(e) \/ (score(d) = score(e) /\ d.id < e.id)
             row(x) == [rank |-> 1 + Cardinality({y \in S : before(y, x)}), item |-> x]
  <2>1. ranked = {row(x) : x \in S}
    BY DEF RankedBy, Sorted, Ranked
  <2>2. \A x : row(x).item = x /\ DOMAIN row(x) = {"rank", "item"}
    OBVIOUS
  <2>3. \A x \in S : x \in docs /\ score(x) > 0
    BY DEF BestOf
  <2> HIDE DEF ranked, row, S, score
  <2> QED BY <2>1, <2>2, <2>3
<1>2. \A r \in HybridHits(docs, a, b, top) : \E q \in ranked : r = [q EXCEPT !.item = HitOf(q.item, score(q.item))]
  BY DEF HybridHits, Take
<1> HIDE DEF ranked
<1>3. \A h \in Items(HybridHits(docs, a, b, top)) : \E d \in docs : score(d) > 0 /\ h = HitOf(d, score(d))
  BY <1>1, <1>2 DEF Items
<1>4. \A d : score(d) \in Nat /\ (score(d) > 0 => d \in D)
  BY FusedIsNumber
<1>5. IsFiniteSet(T)
  <2>1. DOMAIN f = docs
    OBVIOUS
  <2> HIDE DEF f
  <2> QED BY <2>1, FiniteImage
<1>6. Items(HybridHits(docs, a, b, top)) \subseteq T
  BY <1>3
<1> QED BY <1>3, <1>4, <1>5, <1>6, FS_Subset

\* Keyword search finds finitely many documents in scope.
LEMMA KeywordFacts ==
  ASSUME NEW docs, IsFiniteSet(docs), \A d \in docs : d.lex \in Nat, NEW plan, NEW top
  PROVE  /\ IsFiniteSet(Items(KeywordHits(docs, plan, top)))
         /\ \A h \in Items(KeywordHits(docs, plan, top)) :
              \E d \in docs, score \in Nat : h = HitOf(d, score) /\ InScope(d, plan)
<1> DEFINE f == [d \in docs |-> HitOf(d, d.lex)]
           T == {f[d] : d \in docs}
<1>1. \A h \in Items(KeywordHits(docs, plan, top)) : \E d \in docs : h = HitOf(d, d.lex) /\ InScope(d, plan)
  <2> DEFINE matches == {d \in docs : InScope(d, plan) /\ d.lex > 0}
             score(d) == d.lex
             S == {HitOf(d, d.lex) : d \in BestOf(matches, score)}
             before(h, k) == h.score > k.score \/ (h.score = k.score /\ h.asset > k.asset)
             row(x) == [rank |-> 1 + Cardinality({y \in S : before(y, x)}), item |-> x]
  <2>1. KeywordHits(docs, plan, top) = Take({row(x) : x \in S}, top)
    BY DEF KeywordHits, Ranked
  <2>2. \A x : row(x).item = x
    OBVIOUS
  <2>3. \A x \in S : \E d \in docs : x = HitOf(d, d.lex) /\ InScope(d, plan)
    BY DEF BestOf
  <2> HIDE DEF row, S
  <2> QED BY <2>1, <2>2, <2>3 DEF Take, Items
<1>2. IsFiniteSet(T)
  <2>1. DOMAIN f = docs
    OBVIOUS
  <2> HIDE DEF f
  <2> QED BY <2>1, FiniteImage
<1>3. Items(KeywordHits(docs, plan, top)) \subseteq T
  BY <1>1
<1> QED BY <1>1, <1>2, <1>3, FS_Subset

\* Whatever its retriever, a search finds finitely many documents, all in scope.
LEMMA SearchFacts ==
  ASSUME NEW docs, IsFiniteSet(docs), \A d \in docs : d.lex \in Nat, NEW plan, NEW setting, NEW top
  PROVE  /\ IsFiniteSet(Items(Search(docs, plan, setting, top)))
         /\ \A h \in Items(Search(docs, plan, setting, top)) : Retrieved(docs, plan, setting, h)
<1>1. \A d : InScope(d, plan) => InTables(d, plan)
  BY DEF InScope
<1>2. CASE ~setting.hybrid
  <2>1. Search(docs, plan, setting, top) = KeywordHits(docs, plan, top)
    BY <1>2 DEF Search
  <2> QED BY <2>1, <1>1, KeywordFacts DEF Retrieved
<1>3. CASE setting.hybrid /\ setting.postgres
  <2> DEFINE a == PostgresBM25(docs, plan)
             b == PostgresVector(docs, plan)
             D == {d \in docs : InTables(d, plan)}
  <2>1. Search(docs, plan, setting, top) = HybridHits(docs, a, b, top)
    BY <1>3 DEF Search
  <2>2. Rows(a, D) /\ Rows(b, D)
    BY SourceFacts
  <2> HIDE DEF a, b
  <2>3. /\ IsFiniteSet(Items(HybridHits(docs, a, b, top)))
        /\ \A h \in Items(HybridHits(docs, a, b, top)) : \E d \in docs, score \in Nat : h = HitOf(d, score) /\ d \in D
    <3> HIDE DEF D
    <3> QED BY <2>2, HybridFacts
  <2> QED BY <2>1, <2>3, <1>3 DEF Retrieved
<1>4. CASE setting.hybrid /\ ~setting.postgres
  <2> DEFINE a == PythonBM25(docs, plan)
             b == ExactVector(docs, plan)
             D == {d \in docs : InScope(d, plan)}
  <2>1. Search(docs, plan, setting, top) = HybridHits(docs, a, b, top)
    BY <1>4 DEF Search
  <2>2. Rows(a, D) /\ Rows(b, D)
    BY SourceFacts
  <2> HIDE DEF a, b
  <2>3. /\ IsFiniteSet(Items(HybridHits(docs, a, b, top)))
        /\ \A h \in Items(HybridHits(docs, a, b, top)) : \E d \in docs, score \in Nat : h = HitOf(d, score) /\ d \in D
    <3> HIDE DEF D
    <3> QED BY <2>2, HybridFacts
  <2> QED BY <2>1, <2>3, <1>1 DEF Retrieved
<1> QED BY <1>2, <1>3, <1>4

-----------------------------------------------------------------------------
(* What the lanes find.                                                    *)

\* Every search of a lane keeps the limits.
LEMMA LaneFacetsFacts ==
  ASSUME NEW f, IsFiniteSet(f.routes), IsFiniteSet(f.process), NEW obs, NEW lane \in CausalLanes
  PROVE  IsFiniteSet(LaneFacets(f, obs, lane)) /\ \A F \in LaneFacets(f, obs, lane) : HardFacets(obs) \subseteq F
<1> DEFINE hard == HardFacets(obs)
           same == Facet("module", obs.module) \union Facet("equipment_type", obs.equipmentType)
<1>1. \A F : hard \subseteq Narrowed(hard, F)
  BY DEF Narrowed
<1>2. CASE lane = "same_step"
  <2>1. LaneFacets(f, obs, lane) = IF same = {} THEN {} ELSE {Narrowed(hard, same)}
    BY <1>2, Zenon DEF LaneFacets
  <2>2. IsFiniteSet({Narrowed(hard, same)}) /\ IsFiniteSet({})
    BY FS_EmptySet, FS_Singleton
  <2>3. hard \subseteq Narrowed(hard, same)
    BY <1>1
  <2> DEFINE one == Narrowed(hard, same)
  <2> HIDE DEF same, one
  <2>4. CASE same = {}
    BY <2>1, <2>2, <2>4
  <2>5. CASE same # {}
    BY <2>1, <2>2, <2>3, <2>5 DEF one
  <2> QED BY <2>4, <2>5
<1>3. CASE lane = "upstream_route"
  <2> DEFINE mods == UpstreamModules(f, obs)
             g == [m \in mods |-> Narrowed(hard, Facet("module", m))]
             T == {Narrowed(hard, Facet("module", m)) : m \in mods}
  <2>1. LaneFacets(f, obs, lane) = T
    BY <1>3, Zenon DEF LaneFacets
  <2>2. IsFiniteSet(mods)
    <3> DEFINE h == [r \in f.routes |-> r.module]
               M == {h[r] : r \in f.routes}
    <3>1. mods \subseteq M
      BY DEF UpstreamModules, RouteOf
    <3>2. DOMAIN h = f.routes
      OBVIOUS
    <3> HIDE DEF h
    <3>3. IsFiniteSet(M)
      BY <3>2, FiniteImage
    <3> HIDE DEF mods, M
    <3> QED BY <3>1, <3>3, FS_Subset
  <2>3. T = {g[m] : m \in mods} /\ DOMAIN g = mods
    OBVIOUS
  <2>4. IsFiniteSet(T)
    <3> HIDE DEF g, mods, T
    <3> QED BY <2>2, <2>3, FiniteImage
  <2>5. \A F \in T : hard \subseteq F
    BY <1>1
  <2> QED BY <2>1, <2>4, <2>5
<1>4. CASE lane = "shared_resource"
  <2> DEFINE kinds == SharedKinds(f, obs)
             g == [k \in kinds |-> Narrowed(hard, Facet("equipment_type", k))]
             T == {Narrowed(hard, Facet("equipment_type", k)) : k \in kinds}
  <2>1. LaneFacets(f, obs, lane) = T
    BY <1>4, Zenon DEF LaneFacets
  <2>2. IsFiniteSet(kinds)
    <3> DEFINE h == [r \in f.process |-> f.kind[r.chamber[1]]]
               M == {h[r] : r \in f.process}
    <3>1. kinds \subseteq M
      BY DEF SharedKinds, Of
    <3>2. DOMAIN h = f.process
      OBVIOUS
    <3> HIDE DEF h
    <3>3. IsFiniteSet(M)
      BY <3>2, FiniteImage
    <3> HIDE DEF kinds, M
    <3> QED BY <3>1, <3>3, FS_Subset
  <2>3. T = {g[k] : k \in kinds} /\ DOMAIN g = kinds
    OBVIOUS
  <2>4. IsFiniteSet(T)
    <3> HIDE DEF g, kinds, T
    <3> QED BY <2>2, <2>3, FiniteImage
  <2>5. \A F \in T : hard \subseteq F
    BY <1>1
  <2> QED BY <2>1, <2>4, <2>5
<1>5. CASE lane = "global_semantic"
  <2>1. LaneFacets(f, obs, lane) = {hard}
    BY <1>5, Zenon DEF LaneFacets
  <2> QED BY <2>1, FS_Singleton
<1> QED BY <1>2, <1>3, <1>4, <1>5 DEF CausalLanes

\* The answer of each lane is a ranking of hits of its searches, one per asset.
LEMMA LaneHitsFacts ==
  ASSUME NEW f, Tables(f), NEW obs, NEW plan, NEW setting
  PROVE  /\ DOMAIN LaneHits(f, obs, plan, setting) = CausalLanes
         /\ \A lane \in CausalLanes :
              /\ IsRanking(LaneHits(f, obs, plan, setting)[lane])
              /\ \A r \in LaneHits(f, obs, plan, setting)[lane] :
                   \E F : HardFacets(obs) \subseteq F /\ Retrieved(f.docs, [plan EXCEPT !.facets = F], setting, r.item)
<1> DEFINE search(F) == Items(Search(f.docs, [plan EXCEPT !.facets = F], setting, CandidateK))
           facets(lane) == LaneFacets(f, obs, lane)
           finds(lane) == UNION {search(F) : F \in facets(lane)}
           best(lane) == {h \in finds(lane) : \A k \in finds(lane) :
                           k.asset = h.asset => k.score < h.score \/ (k.score = h.score /\ h.doc <= k.doc)}
<1>1. LaneHits(f, obs, plan, setting) = [lane \in CausalLanes |-> Ranked(best(lane), Better)]
  BY DEF LaneHits
<1>2. IsFiniteSet(f.docs) /\ IsFiniteSet(f.routes) /\ IsFiniteSet(f.process)
      /\ \A d \in f.docs : d.lex \in Nat /\ d.id \in Nat /\ d.asset \in Nat
  BY DEF Tables
<1>3. \A F : IsFiniteSet(search(F)) /\ \A h \in search(F) : Retrieved(f.docs, [plan EXCEPT !.facets = F], setting, h)
  BY <1>2, SearchFacts
<1> HIDE DEF search
<1>4. ASSUME NEW lane \in CausalLanes
      PROVE  /\ IsRanking(Ranked(best(lane), Better))
             /\ \A r \in Ranked(best(lane), Better) :
                  \E F : HardFacets(obs) \subseteq F /\ Retrieved(f.docs, [plan EXCEPT !.facets = F], setting, r.item)
  <2>1. IsFiniteSet(facets(lane)) /\ \A F \in facets(lane) : HardFacets(obs) \subseteq F
    BY <1>2, LaneFacetsFacts
  <2> HIDE DEF facets
  <2>2. IsFiniteSet(finds(lane))
    <3> DEFINE g == [F \in facets(lane) |-> search(F)]
               T == {search(F) : F \in facets(lane)}
    <3>1. T = {g[F] : F \in facets(lane)} /\ DOMAIN g = facets(lane)
      OBVIOUS
    <3>2. \A X \in T : IsFiniteSet(X)
      BY <1>3
    <3> HIDE DEF g, T
    <3>3. IsFiniteSet(T)
      BY <2>1, <3>1, FiniteImage
    <3> QED BY <3>2, <3>3, FS_UNION DEF T
  <2>3. \A h \in finds(lane) : \E F : HardFacets(obs) \subseteq F /\ Retrieved(f.docs, [plan EXCEPT !.facets = F], setting, h)
    BY <1>3, <2>1
  <2>4. \A h \in finds(lane) : h = [asset |-> h.asset, doc |-> h.doc, score |-> h.score, lanes |-> {}]
                             /\ h.asset \in Nat /\ h.doc \in Nat /\ h.score \in Nat
    <3> TAKE h \in finds(lane)
    <3>1. PICK d \in f.docs, score \in Nat : h = HitOf(d, score)
      BY <2>3 DEF Retrieved
    <3> QED BY <3>1, <1>2 DEF HitOf
  <2> HIDE DEF finds
  <2>5. IsFiniteSet(best(lane)) /\ best(lane) \subseteq finds(lane)
    BY <2>2, FS_Subset
  <2>6. \A h, k \in best(lane) : h.asset = k.asset => h = k
    <3>1. ASSUME NEW h \in best(lane), NEW k \in best(lane), h.asset = k.asset PROVE h.score = k.score /\ h.doc = k.doc
      <4>1. k.score < h.score \/ (k.score = h.score /\ h.doc <= k.doc)
        BY <3>1
      <4>2. h.score < k.score \/ (h.score = k.score /\ k.doc <= h.doc)
        BY <3>1
      <4>3. h.score \in Nat /\ k.score \in Nat /\ h.doc \in Nat /\ k.doc \in Nat
        BY <2>4, <2>5
      <4> QED BY <4>1, <4>2, <4>3
    <3>2. \A h \in best(lane) : h = [asset |-> h.asset, doc |-> h.doc, score |-> h.score, lanes |-> {}]
      BY <2>4, <2>5
    <3> HIDE DEF best
    <3>3. ASSUME NEW h \in best(lane), NEW k \in best(lane), h.asset = k.asset PROVE h = k
      <4>1. h.score = k.score /\ h.doc = k.doc
        BY <3>1, <3>3
      <4>2. /\ h = [asset |-> h.asset, doc |-> h.doc, score |-> h.score, lanes |-> {}]
            /\ k = [asset |-> k.asset, doc |-> k.doc, score |-> k.score, lanes |-> {}]
        BY <3>2
      <4> QED BY <3>3, <4>1, <4>2
    <3> QED BY <3>3
  <2> DEFINE B == best(lane)
  <2>7. \A h \in B : h.score \in Nat /\ h.asset \in Nat
    BY <2>4, <2>5
  <2>8. IsFiniteSet(B) /\ \A h, k \in B : h.asset = k.asset => h = k
    BY <2>5, <2>6
  <2>9. B \subseteq finds(lane)
    BY <2>5
  <2> HIDE DEF B, best
  <2>10. IsRanking(Ranked(B, Better)) /\ Items(Ranked(B, Better)) = B
    BY <2>7, <2>8, RankedByBetter
  <2>11. \A r \in Ranked(B, Better) : r.item \in B
    BY <2>10 DEF Items
  <2> QED BY <2>3, <2>9, <2>10, <2>11 DEF B
<1> HIDE DEF best
<1> QED BY <1>1, <1>4

-----------------------------------------------------------------------------
(* What is told, and the limits.                                           *)

Limited(obs, setting) == ~setting.causal \/ obs.limit \/ obs.kind = "procedure_guidance"

\* A hit within the limits of its query.
KeepsLimits(f, obs, setting, h) ==
  \E d \in f.docs :
    /\ h.doc = d.id /\ h.asset = d.asset
    /\ d.confirmed /\ d.type = DocumentType[obs.kind]
    /\ Limited(obs, setting) => Facet("module", obs.module) \subseteq d.facets
    /\ (setting.causal /\ ~(setting.hybrid /\ setting.postgres) /\ obs.at # Forever) => d.at <= obs.at

\* A limit of the user, or of a procedure, is a hard facet.
LEMMA HardFacetsLimit ==
  ASSUME NEW obs, obs.limit \/ obs.kind = "procedure_guidance"
  PROVE  Facet("module", obs.module) \subseteq HardFacets(obs)
  BY DEF HardFacets, Facet

\* A document that a search found in the scope of a plan keeps the limits of its query.
LEMMA RetrievedIsWithin ==
  ASSUME NEW f, NEW obs, NEW setting, NEW facets, NEW F, NEW h,
         Limited(obs, setting) => Facet("module", obs.module) \subseteq F,
         Retrieved(f.docs, [PlanOf(obs, facets, setting) EXCEPT !.facets = F], setting, h)
  PROVE  KeepsLimits(f, obs, setting, h)
<1> DEFINE plan == [PlanOf(obs, facets, setting) EXCEPT !.facets = F]
<1>1. plan.types = {DocumentType[obs.kind]} /\ plan.facets = F /\ plan.until = IF setting.causal THEN obs.at ELSE Forever
  BY DEF PlanOf
<1> HIDE DEF plan
<1>2. PICK d \in f.docs, score \in Nat :
        h = HitOf(d, score) /\ InTables(d, plan) /\ ((setting.hybrid /\ setting.postgres) \/ InScope(d, plan))
  BY DEF Retrieved, plan
<1>3. h.doc = d.id /\ h.asset = d.asset
  BY <1>2 DEF HitOf
<1>4. d.confirmed /\ d.type = DocumentType[obs.kind] /\ F \subseteq d.facets
  BY <1>1, <1>2 DEF InTables
<1>5. (setting.causal /\ ~(setting.hybrid /\ setting.postgres) /\ obs.at # Forever) => d.at <= obs.at
  BY <1>1, <1>2 DEF InScope
<1> QED BY <1>3, <1>4, <1>5 DEF KeepsLimits

LEMMA RetrievedShape ==
  ASSUME NEW docs, NEW plan, NEW setting, NEW h, Retrieved(docs, plan, setting, h)
  PROVE  h.score \in Nat /\ DOMAIN h = {"asset", "doc", "score", "lanes"}
  BY DEF Retrieved, HitOf

\* A hit of a lane: its record.
LEMMA SeenFacts ==
  ASSUME NEW f, Tables(f), NEW obs, NEW facets, NEW setting, setting.causal,
         NEW h \in Seen(LaneHits(f, obs, PlanOf(obs, facets, setting), setting))
  PROVE  KeepsLimits(f, obs, setting, h) /\ DOMAIN h = {"asset", "doc", "score", "lanes"}
<1> DEFINE hits == LaneHits(f, obs, PlanOf(obs, facets, setting), setting)
<1>1. PICK lane \in CausalLanes : \E r \in hits[lane] : h = r.item
  BY LaneHitsFacts DEF Seen, Items
<1>2. PICK F : HardFacets(obs) \subseteq F /\ Retrieved(f.docs, [PlanOf(obs, facets, setting) EXCEPT !.facets = F], setting, h)
  BY <1>1, LaneHitsFacts
<1>3. Limited(obs, setting) => Facet("module", obs.module) \subseteq F
  BY <1>2, HardFacetsLimit DEF Limited
<1>4. DOMAIN h = {"asset", "doc", "score", "lanes"}
  BY <1>2, RetrievedShape
<1> QED BY <1>2, <1>3, <1>4, RetrievedIsWithin

\* The lanes rank finitely many hits, by numbers.
LEMMA LaneRankings ==
  ASSUME NEW f, Tables(f), NEW obs, NEW plan, NEW setting
  PROVE  LET hits == LaneHits(f, obs, plan, setting)
         IN \A lane \in CausalLanes : IsFiniteSet(hits[lane]) /\ \A r \in hits[lane] : r.item.score \in Nat
<1>1. \A lane \in CausalLanes : \A r \in LaneHits(f, obs, plan, setting)[lane] : r.item.score \in Nat
  BY LaneHitsFacts, RetrievedShape
<1> QED BY <1>1, LaneHitsFacts DEF IsRanking

\* What a retriever tells is within the limits.
LEMMA RetrieveFacts ==
  ASSUME NEW f, Tables(f), NEW obs, NEW facets, Facet("module", obs.module) \subseteq facets, NEW setting, NEW top,
         NEW r \in Retrieve(f, obs, PlanOf(obs, facets, setting), setting, top)
  PROVE  KeepsLimits(f, obs, setting, r.item)
<1> DEFINE plan == PlanOf(obs, facets, setting)
           hits == LaneHits(f, obs, plan, setting)
<1>1. CASE setting.causal
  <2>1. r \in FuseLanes(hits, top)
    BY <1>1 DEF Retrieve
  <2>2. DOMAIN hits = CausalLanes /\ \A lane \in CausalLanes : IsFiniteSet(hits[lane]) /\ \A q \in hits[lane] : q.item.score \in Nat
    BY LaneHitsFacts, LaneRankings
  <2>3. \A h \in Seen(hits) : KeepsLimits(f, obs, setting, h) /\ DOMAIN h = {"asset", "doc", "score", "lanes"}
    BY <1>1, SeenFacts
  <2> HIDE DEF hits
  <2>4. PICK h \in Seen(hits) : r.item = Merged(hits, h)
    BY <2>1, <2>2, FusedFacts
  <2>5. r.item.doc = h.doc /\ r.item.asset = h.asset
    BY <2>3, <2>4 DEF Merged
  <2> QED BY <2>3, <2>5 DEF KeepsLimits
<1>2. CASE ~setting.causal
  <2>1. r \in Search(f.docs, plan, setting, top)
    BY <1>2 DEF Retrieve
  <2>2. r.item \in Items(Search(f.docs, plan, setting, top))
    BY <2>1 DEF Items
  <2>3. IsFiniteSet(f.docs) /\ \A d \in f.docs : d.lex \in Nat
    BY DEF Tables
  <2>4. Retrieved(f.docs, plan, setting, r.item)
    BY <2>2, <2>3, SearchFacts
  <2>5. plan = [plan EXCEPT !.facets = facets]
    BY DEF PlanOf
  <2>6. Retrieved(f.docs, [plan EXCEPT !.facets = facets], setting, r.item)
    BY <2>4, <2>5
  <2> QED BY <2>6, RetrievedIsWithin
<1> QED BY <1>1, <1>2

\* The reranker tells no other hits than it is given.
LEMMA RerankedAreHits ==
  ASSUME NEW f, NEW hits, NEW top
  PROVE  \A r \in Rerank(f, hits, top) : \E q \in hits : r.item = q.item
<1> DEFINE above(h, k) == \/ CrossScore(f, h.item) > CrossScore(f, k.item)
                          \/ CrossScore(f, h.item) = CrossScore(f, k.item) /\ h.rank < k.rank
           row(x) == [rank |-> 1 + Cardinality({y \in hits : above(y, x)}), item |-> x]
           told(r) == [r EXCEPT !.item = r.item.item]
<1>1. Rerank(f, hits, top) = Take({told(r) : r \in {row(x) : x \in hits}}, top)
  BY DEF Rerank, Ranked
<1>2. \A x : told(row(x)).item = x.item
  OBVIOUS
<1> HIDE DEF row, told
<1> QED BY <1>1, <1>2 DEF Take

\* What is told, reranked or not, is within the limits.
LEMMA SettledFacts ==
  ASSUME NEW f, Tables(f), NEW obs, NEW facets, Facet("module", obs.module) \subseteq facets, NEW setting, NEW top,
         NEW r \in RetrieveSettled(f, obs, PlanOf(obs, facets, setting), setting, top)
  PROVE  KeepsLimits(f, obs, setting, r.item)
<1> DEFINE plan == PlanOf(obs, facets, setting)
           more == IF setting.rerank THEN Max({top, CandidateK}) ELSE top
           hits == Retrieve(f, obs, plan, setting, more)
<1>1. \A q \in hits : KeepsLimits(f, obs, setting, q.item)
  <2> HIDE DEF more
  <2> QED BY RetrieveFacts
<1>2. \E q \in hits : r.item = q.item
  <2>1. r \in IF setting.rerank THEN Rerank(f, hits, top) ELSE hits
    BY DEF RetrieveSettled
  <2> HIDE DEF hits
  <2> QED BY <2>1, RerankedAreHits
<1> HIDE DEF hits
<1> QED BY <1>1, <1>2

\* The lanes that find a document are told.
LEMMA LiveLanesAreTold ==
  ASSUME NEW f, Tables(f), NEW obs, NEW plan, NEW setting, setting.causal
  PROVE  Represents(LaneHits(f, obs, plan, setting), Retrieve(f, obs, plan, setting, TopK))
<1> DEFINE hits == LaneHits(f, obs, plan, setting)
<1>1. /\ DOMAIN hits = CausalLanes /\ \A lane \in CausalLanes : IsRanking(hits[lane])
      /\ \A lane \in CausalLanes : IsFiniteSet(hits[lane]) /\ \A q \in hits[lane] : q.item.score \in Nat
  BY LaneHitsFacts, LaneRankings
<1>2. \A h \in Seen(hits) : "lanes" \in DOMAIN h
  <2>1. \A h \in Seen(hits) : \E lane \in CausalLanes : \E r \in hits[lane] : h = r.item
    BY <1>1 DEF Seen, Items
  <2>2. \A lane \in CausalLanes : \A r \in hits[lane] : DOMAIN r.item = {"asset", "doc", "score", "lanes"}
    BY LaneHitsFacts, RetrievedShape
  <2> HIDE DEF hits
  <2> QED BY <2>1, <2>2
<1>3. Retrieve(f, obs, plan, setting, TopK) = FuseLanes(hits, TopK)
  BY DEF Retrieve
<1> HIDE DEF hits
<1>4. ASSUME Cardinality(Live(hits)) * LaneMinimum <= TopK, NEW lane \in Live(hits)
      PROVE  \E r \in FuseLanes(hits, TopK) : lane \in r.item.lanes
  <2>1. TopK \in Nat
    BY RetrievalAssumption
  <2>2. SharedSelection(hits, TopK) \intersect AssetsOf(hits[lane]) # {}
    BY <1>1, <1>4, <2>1, LiveLanesArePlaced
  <2>3. PICK a \in SharedSelection(hits, TopK) : a \in AssetsOf(hits[lane])
    BY <2>2
  <2>4. PICK r \in FuseLanes(hits, TopK) : \E h \in Seen(hits) : h.asset = a /\ r.item = Merged(hits, h)
    BY <1>1, <2>3, FusedFacts
  <2>5. r.item.lanes = LanesWith(hits, a)
    BY <1>2, <2>4 DEF Merged
  <2>6. lane \in LanesWith(hits, a)
    BY <1>4, <2>3 DEF LanesWith, Live
  <2> QED BY <2>5, <2>6
<1> QED BY <1>3, <1>4 DEF Represents, Live, hits

-----------------------------------------------------------------------------
(* The answers of the Knowledge agent.                                     *)

\* What was retrieved is the last answer, and of the request's own query.
RetrievedLast ==
  /\ stage # "done" => "cases" \notin DOMAIN found /\ "lookup" \notin DOMAIN found
  /\ stage \in {"quality", "knowledge"} => "genealogy" \in DOMAIN found
  /\ ~("cases" \in DOMAIN found /\ "lookup" \in DOMAIN found)
  /\ "cases" \in DOMAIN found => found.cases = SimilarCases(fab, ObservedFailure, ask.setting)
  /\ "lookup" \in DOMAIN found => found.lookup = Lookup(fab, ask.question, ask.setting)

LEMMA NoAnswerYet ==
  ASSUME "cases" \notin DOMAIN found', "lookup" \notin DOMAIN found',
         stage' \in {"quality", "knowledge"} => "genealogy" \in DOMAIN found'
  PROVE  RetrievedLast'
  BY DEF RetrievedLast

EarlyTools == {"mes", "impact", "genealogy", "ooc", "advanced", "basic", "quality"}

\* A step of MES, FDC or the Defect and WAT agent adds its own answer.
Early ==
  /\ stage # "done"
  /\ DOMAIN found \subseteq DOMAIN found' /\ DOMAIN found' \subseteq DOMAIN found \union EarlyTools
  /\ stage' = "quality" => stage \in {"advanced", "basic"}
  /\ stage' = "knowledge" => stage = "quality"

\* A Tool of an early agent retrieves nothing.
LEMMA AnswerIsEarly ==
  ASSUME NEW tool \in EarlyTools, NEW output, NEW next, Answer(tool, output, next), stage # "done",
         next = "quality" => stage \in {"advanced", "basic"}, next = "knowledge" => stage = "quality"
  PROVE  Early
<1>1. stage' = next /\ DOMAIN found' = DOMAIN found \union {tool}
  BY AnswerFacts
<1> QED BY <1>1 DEF Early

LEMMA RaiseIsEarly == Raise /\ stage # "done" => Early
  BY DEF Raise, Early

\* The steps of MES, FDC and of the Defect and WAT agent retrieve nothing.
LEMMA EarlySteps ==
  (AffectedLots \/ LotContext \/ ImpactLots \/ Genealogy \/ Shift \/ OocEventsOf \/ Advanced \/ Basic \/ Quality) => Early
<1>1. ASSUME AffectedLots PROVE Early
  <2> DEFINE out == FindAffectedLots(fab, ask)
             none == out.lots.affected = {}
             told == [evidence |-> out.evidence,
                      cites |-> IF none THEN {e.id : e \in out.evidence}
                                ELSE {e.id : e \in {e \in out.evidence : e.id = <<"wat_missing">> \/ e.type = "DATA_MISSING"}}]
             answer == [With("mes", out) EXCEPT !.lots = out.lots.affected]
  <2>1. stage = "mes" /\ Call(told, IF none THEN "done" ELSE "genealogy", answer)
    BY <1>1 DEF AffectedLots, Affected
  <2>2. stage' = (IF none THEN "done" ELSE "genealogy") /\ found' = answer
    BY <2>1, CallFacts
  <2>3. DOMAIN answer = DOMAIN found \union {"mes"}
    BY DEF With
  <2> HIDE DEF answer, told, none
  <2> QED BY <2>1, <2>2, <2>3 DEF Early, EarlyTools
<1>2. ASSUME LotContext PROVE Early
  BY <1>2, AnswerIsEarly, RaiseIsEarly DEF LotContext, EarlyTools
<1>3. ASSUME ImpactLots PROVE Early
  <2>1. stage = "impact" /\ (Raise \/ \E x \in ImpactExposures(fab, ask.lot, ask.op, AnyLane) : Impacted(ImpactOf(fab, ask.lot, x)))
    BY <1>3 DEF ImpactLots
  <2>2. ASSUME NEW out, Impacted(out) PROVE Early
    <3> DEFINE answer == [With("impact", out) EXCEPT !.lots = out.exposed]
    <3>1. stage' = "genealogy" /\ found' = answer
      BY <2>2, CallFacts DEF Impacted
    <3>2. DOMAIN answer = DOMAIN found \union {"impact"}
      BY DEF With
    <3> HIDE DEF answer
    <3> QED BY <2>1, <3>1, <3>2 DEF Early, EarlyTools
  <2> QED BY <2>1, <2>2, RaiseIsEarly
<1>4. ASSUME Genealogy PROVE Early
  <2>1. stage = "genealogy" /\ (Raise \/ \E output : Answer("genealogy", output, "shift"))
    BY <1>4 DEF Genealogy
  <2> QED BY <2>1, AnswerIsEarly, RaiseIsEarly DEF EarlyTools
<1>5. ASSUME Shift PROVE Early
  <2>1. stage = "shift" /\ stage' = "ooc" /\ found' = found
    BY <1>5, CallFacts DEF Shift
  <2> QED BY <2>1 DEF Early
<1>6. ASSUME OocEventsOf PROVE Early
  <2> DEFINE out == OocEvents(fab, found.genealogy.op, found.genealogy.chamber)
  <2>1. stage = "ooc" /\ Recorded(out)
    BY <1>6 DEF OocEventsOf
  <2> HIDE DEF out
  <2>2. stage' \in {"advanced", "basic"} /\ found' = With("ooc", out)
    BY <2>1, CallFacts DEF Recorded
  <2>3. DOMAIN With("ooc", out) = DOMAIN found \union {"ooc"}
    BY WithFacts
  <2> QED BY <2>1, <2>2, <2>3 DEF Early, EarlyTools
<1>7. ASSUME Advanced PROVE Early
  <2> DEFINE out == AdvancedSpc(fab, found.lots, found.genealogy.op, found.genealogy.chamber)
  <2>1. /\ stage = "advanced"
        /\ Raise \/ Answer("advanced", out, "quality") \/ (stage' = "basic" /\ found' = found)
    BY <1>7 DEF Advanced
  <2> HIDE DEF out
  <2>2. ASSUME stage' = "basic" /\ found' = found PROVE Early
    BY <2>1, <2>2 DEF Early
  <2>3. ASSUME Answer("advanced", out, "quality") PROVE Early
    BY <2>1, <2>3, AnswerIsEarly DEF EarlyTools
  <2> QED BY <2>1, <2>2, <2>3, RaiseIsEarly
<1>8. ASSUME Basic PROVE Early
  BY <1>8, AnswerIsEarly DEF Basic, EarlyTools
<1>9. ASSUME Quality PROVE Early
  BY <1>9, AnswerIsEarly DEF Quality, EarlyTools
<1> QED BY <1>1, <1>2, <1>3, <1>4, <1>5, <1>6, <1>7, <1>8, <1>9

\* Only the last step retrieves, by its own query.
LEMMA KeepsRetrievedLast == AnalysisInv /\ RetrievedLast /\ [AnalysisNext]_analysis => RetrievedLast'
<1> SUFFICES ASSUME AnalysisInv, RetrievedLast, [AnalysisNext]_analysis PROVE RetrievedLast'
  OBVIOUS
<1>1. ASSUME Early PROVE RetrievedLast'
  <2>1. "cases" \notin DOMAIN found' /\ "lookup" \notin DOMAIN found'
    BY <1>1 DEF Early, EarlyTools, RetrievedLast
  <2>2. stage' \in {"quality", "knowledge"} => "genealogy" \in DOMAIN found'
    BY <1>1 DEF Early, RetrievedLast, AnalysisInv, InTurn, Has
  <2> QED BY <2>1, <2>2, NoAnswerYet
<1>2. ASSUME Knowledge PROVE RetrievedLast'
  <2> DEFINE out == SimilarCases(fab, ObservedFailure, ask.setting)
  <2>1. stage = "knowledge" /\ Answer("cases", out, "done")
    BY <1>2 DEF Knowledge
  <2> HIDE DEF out
  <2>2. /\ stage' = "done" /\ fab' = fab /\ ask' = ask
        /\ DOMAIN found' = DOMAIN found \union {"cases"} /\ found'.cases = out
        /\ \A t \in DOMAIN found : t # "cases" => found'[t] = found[t]
    BY <2>1, AnswerFacts
  <2>3. found'.genealogy = found.genealogy /\ found'.lots = found.lots
    BY <2>1, <2>2 DEF RetrievedLast, AnalysisInv, InTurn
  <2>4. ObservedFailure' = ObservedFailure
    BY <2>2, <2>3 DEF ObservedFailure
  <2>5. "lookup" \notin DOMAIN found'
    BY <2>1, <2>2 DEF RetrievedLast
  <2> QED BY <2>2, <2>4, <2>5 DEF RetrievedLast, out
<1>3. ASSUME LookupKnowledge PROVE RetrievedLast'
  <2> DEFINE out == Lookup(fab, ask.question, ask.setting)
  <2>1. stage = "lookup" /\ (Answer("lookup", out, "done") \/ Raise)
    BY <1>3 DEF LookupKnowledge
  <2>2. ASSUME Raise PROVE RetrievedLast'
    BY <2>1, <2>2, <1>1, RaiseIsEarly
  <2> HIDE DEF out
  <2>3. ASSUME Answer("lookup", out, "done") PROVE RetrievedLast'
    <3>1. /\ stage' = "done" /\ fab' = fab /\ ask' = ask
          /\ DOMAIN found' = DOMAIN found \union {"lookup"} /\ found'.lookup = out
      BY <2>3, AnswerFacts
    <3>2. "cases" \notin DOMAIN found'
      BY <2>1, <3>1 DEF RetrievedLast
    <3> QED BY <3>1, <3>2 DEF RetrievedLast, out
  <2> QED BY <2>1, <2>2, <2>3
<1>4. ASSUME UNCHANGED analysis PROVE RetrievedLast'
  BY <1>4 DEF analysis, RetrievedLast, ObservedFailure
<1> QED BY <1>1, <1>2, <1>3, <1>4, EarlySteps DEF AnalysisNext

LEMMA RetrievedLastInvariance == AnalysisSpec => []RetrievedLast
<1>1. AnalysisInit => RetrievedLast
  BY DEF AnalysisInit, Nothing, RetrievedLast
<1>2. AnalysisInv /\ RetrievedLast /\ [AnalysisNext]_analysis => RetrievedLast'
  BY KeepsRetrievedLast
<1> QED BY <1>1, <1>2, AnalysisInvariance, PTL DEF AnalysisSpec

\* The tables are what the assumption says.
LEMMA TablesAreTables == AnalysisInv => Tables(fab)
  BY CasesAssumption DEF AnalysisInv, AskedFor

\* An id names one document, so the property looks at the one that was retrieved.
LEMMA WithinIsItsDocument ==
  ASSUME Tables(fab), NEW obs, NEW setting, NEW h, KeepsLimits(fab, obs, setting, h.item)
  PROVE  /\ DocOf(h) \in fab.docs /\ DocOf(h).asset = h.item.asset
         /\ DocOf(h).confirmed /\ DocOf(h).type = DocumentType[obs.kind]
         /\ Limited(obs, setting) => Facet("module", obs.module) \subseteq DocOf(h).facets
         /\ (setting.causal /\ ~(setting.hybrid /\ setting.postgres) /\ obs.at # Forever) => DocOf(h).at <= obs.at
<1>1. PICK d \in fab.docs :
        /\ h.item.doc = d.id /\ h.item.asset = d.asset
        /\ d.confirmed /\ d.type = DocumentType[obs.kind]
        /\ Limited(obs, setting) => Facet("module", obs.module) \subseteq d.facets
        /\ (setting.causal /\ ~(setting.hybrid /\ setting.postgres) /\ obs.at # Forever) => d.at <= obs.at
  BY DEF KeepsLimits
<1>2. \A e \in fab.docs : e.id = d.id => e = d
  BY DEF Tables
<1>3. DocOf(h) = d
  BY <1>1, <1>2 DEF DocOf
<1> QED BY <1>1, <1>3

\* What both users of the retriever tell is within its limits.
LEMMA AnswersAreWithin ==
  ASSUME Tables(fab), RetrievedLast, NEW out \in Answers, NEW h \in out.hits
  PROVE  /\ KeepsLimits(fab, out.obs, ask.setting, h.item)
         /\ Has("cases") => h.item.asset \in fab.cases
<1>1. CASE "cases" \in DOMAIN found
  <2> DEFINE obs == ObservedFailure
             facets == Facet("module", obs.module) \union Facet("equipment_type", obs.equipmentType)
  <2>1. out = SimilarCases(fab, obs, ask.setting)
    BY <1>1 DEF Answers, RetrievedLast
  <2> HIDE DEF obs
  <2>2. /\ out.obs = obs
        /\ out.hits = {r \in RetrieveSettled(fab, obs, PlanOf(obs, facets, ask.setting), ask.setting, TopK) : r.item.asset \in fab.cases}
    BY <2>1 DEF SimilarCases, CasesOf
  <2>3. Facet("module", obs.module) \subseteq facets
    OBVIOUS
  <2> HIDE DEF facets
  <2> QED BY <2>2, <2>3, SettledFacts
<1>2. CASE "cases" \notin DOMAIN found
  <2> DEFINE question == ask.question
             obs == [kind |-> question.kind, limit |-> question.limit, lot |-> None, op |-> question.op,
                     module |-> question.module, equipmentType |-> question.equipmentType, at |-> question.at]
             facets == Facet("module", obs.module) \union Facet("equipment_type", obs.equipmentType) \union Facet("operation", obs.op)
  <2>1. out = Lookup(fab, question, ask.setting)
    BY <1>2 DEF Answers, RetrievedLast
  <2>2. out.obs = obs /\ out.hits = RetrieveSettled(fab, obs, PlanOf(obs, facets, ask.setting), ask.setting, TopK)
    BY <2>1 DEF Lookup
  <2>3. Facet("module", obs.module) \subseteq facets
    OBVIOUS
  <2> HIDE DEF obs, facets
  <2> QED BY <1>2, <2>2, <2>3, SettledFacts DEF Has
<1> QED BY <1>1, <1>2

\* Whatever lane found it and whatever the reranker made of it, every hit was
\* approved, is of the type that may answer, keeps the module that the search is
\* limited to and, where Python filters, the time of the detection.
THEOREM LimitsAreKept == AnalysisSpec => []LimitsHold
<1>1. AnalysisInv /\ RetrievedLast => LimitsHold
  <2> SUFFICES ASSUME AnalysisInv, RetrievedLast PROVE LimitsHold
    OBVIOUS
  <2>1. Tables(fab)
    BY TablesAreTables
  <2>2. ASSUME NEW out \in Answers, NEW h \in out.hits
        PROVE  /\ DocOf(h).asset = h.item.asset
               /\ DocOf(h).confirmed /\ DocOf(h).type = DocumentType[out.obs.kind]
               /\ Limited(out.obs, ask.setting) => Facet("module", out.obs.module) \subseteq DocOf(h).facets
               /\ (ask.setting.causal /\ ~(ask.setting.hybrid /\ ask.setting.postgres) /\ out.obs.at # Forever) => DocOf(h).at <= out.obs.at
               /\ Has("cases") => h.item.asset \in fab.cases
    BY <2>1, <2>2, AnswersAreWithin, WithinIsItsDocument
  <2> QED BY <2>2 DEF LimitsHold, Limited
<1> QED BY <1>1, AnalysisInvariance, RetrievedLastInvariance, PTL

\* As long as the answer has room for the lanes and is not reranked, every lane
\* that finds a document is in it (_fuse_lanes).
THEOREM LanesAreHeard == AnalysisSpec => []LanesRepresented
<1>1. AnalysisInv => LanesRepresented
  BY TablesAreTables, LiveLanesAreTold DEF LanesRepresented
<1> QED BY <1>1, AnalysisInvariance, PTL
=============================================================================
