---------------------------- MODULE FabAnalysis ----------------------------
(***************************************************************************)
(* The four specialist agents over the tables of a fab, in the order of    *)
(* the fixed workflow.  MES finds Lots, an operation and a chamber; FDC    *)
(* analyses these, Defect and WAT judges the Lots, and Knowledge looks for *)
(* a similar case.  Each action is one Tool call and what the agent takes  *)
(* of its output.  An engineer's lookup asks the same retriever.  Where    *)
(* the code depends on the order of rows of a file, the action may take    *)
(* any row that some order would put first.                                *)
(***************************************************************************)
EXTENDS ImpactScope, FdcTools, QualityTools, KnowledgeRetrieval

CONSTANT Cases   \* what may be asked of which tables: a set of [fab, ask]

\* What the tables of a fab are: None and NoChamber are no operation and no
\* chamber, scores are numbers, and the id of a document is its own.
Tables(f) ==
  /\ \A r \in f.process : r.op # None /\ r.chamber # NoChamber
  /\ IsFiniteSet(f.process) /\ IsFiniteSet(f.routes) /\ IsFiniteSet(f.docs)
  /\ \A d \in f.docs : {d.id, d.asset, d.lex, d.vec, d.cross} \subseteq Nat
  /\ \A d, e \in f.docs : d.id = e.id => d = e

ASSUME CasesAssumption == \A c \in Cases : ValidSetting(c.ask.setting) /\ Tables(c.fab)

VARIABLES
  fab,        \* the tables
  ask,        \* the request: its kind, "product", "lot" or "lookup", and its settings
  stage,         \* the Tool to call next, "done" or "raised"
  found,      \* what the Tools answered
  evidence,   \* the Evidence of the findings
  cites       \* the Evidence that their warnings name

analysis == <<fab, ask, stage, found, evidence, cites>>

Nothing == [lots |-> {}]
With(tool, output) == [t \in {tool} \union DOMAIN found |-> IF t = tool THEN output ELSE found[t]]
Has(tool) == tool \in DOMAIN found

AnalysisInit ==
  /\ \E c \in Cases : fab = c.fab /\ ask = c.ask
  /\ stage = IF ask.kind = "lookup" THEN "lookup" ELSE "mes"
  /\ found = Nothing
  /\ evidence = {} /\ cites = {}

\* Of two Evidence items of one id a finding keeps the first.
Kept(items) == {e \in items : \A k \in evidence : k.id # e.id}

Call(output, next, answer) ==
  /\ stage' = next
  /\ found' = answer
  /\ evidence' = evidence \union Kept(output.evidence)
  /\ cites' = cites \union output.cites
  /\ UNCHANGED <<fab, ask>>

Answer(tool, output, next) == Call(output, next, With(tool, output))

Raise == stage' = "raised" /\ UNCHANGED <<fab, ask, found, evidence, cites>>

-----------------------------------------------------------------------------
(* The MES agent.                                                          *)

\* Without an affected Lot the agent warns and names no chamber.
Affected(out) ==
  LET missing == {e.id : e \in {e \in out.evidence : e.id = <<"wat_missing">> \/ e.type = "DATA_MISSING"}}
      none == out.lots.affected = {}
  IN Call([evidence |-> out.evidence, cites |-> IF none THEN {e.id : e \in out.evidence} ELSE missing],
          IF none THEN "done" ELSE "genealogy",
          [With("mes", out) EXCEPT !.lots = out.lots.affected])

AffectedLots == stage = "mes" /\ ask.kind = "product" /\ Affected(FindAffectedLots(fab, ask))

LotContext ==
  /\ stage = "mes" /\ ask.kind = "lot"
  /\ IF ask.lot \notin Lots(fab.lots) THEN Raise
     ELSE \E changes \in RecipeChanges(fab, ask.lot) :
            Answer("mes", GetLotContext(fab, ask.lot, changes), "impact")

AnyLane == [chamber |-> NoChamber, recipe |-> None]

Impacted(out) == Call(out, "genealogy", [With("impact", out) EXCEPT !.lots = out.exposed])

ImpactLots ==
  /\ stage = "impact"
  /\ LET impact(exposures) ==
           \/ exposures = {} /\ Raise
           \/ \E x \in exposures :
                IF ExcursionRows(fab, ask.lot, x) = {} THEN Raise ELSE Impacted(ImpactOf(fab, ask.lot, x))
     IN impact(ImpactExposures(fab, ask.lot, ask.op, AnyLane))

\* For a Lot the chamber of its exposure is asked for, for a product none.
Genealogy ==
  /\ stage = "genealogy"
  /\ LET op == IF ask.kind = "lot" THEN found.impact.exposure.op ELSE ask.op
         lane == IF ask.kind = "lot" THEN [AnyLane EXCEPT !.chamber = found.impact.exposure.chamber] ELSE AnyLane
         common(groups) ==
           \/ groups = {} /\ Raise
           \/ \E g \in groups : Answer("genealogy", GenealogyOf(fab, found.lots, g), "shift")
     IN common(UNION {CommonGroups(fab, found.lots, o, lane) : o \in GenealogyOps(fab, found.lots, op)})

-----------------------------------------------------------------------------
(* The FDC agent.                                                          *)

Shift ==
  /\ stage = "shift"
  /\ Call(ParameterShift(fab, found.lots, found.genealogy.op, found.genealogy.chamber), "ooc", found)

Recorded(out) ==
  Call([out EXCEPT !.cites = @ \union (IF out.events = {} THEN {<<"ooc_events">>} ELSE {})],
       IF ask.setting.advanced THEN "advanced" ELSE "basic", With("ooc", out))

OocEventsOf == stage = "ooc" /\ Recorded(OocEvents(fab, found.genealogy.op, found.genealogy.chamber))

\* An analysis of no parameter is superseded by the basic one, and its Evidence dropped.
Advanced ==
  /\ stage = "advanced"
  /\ IF SpcRaises(fab, found.lots, found.genealogy.op, found.genealogy.chamber) THEN Raise
     ELSE LET used(out) ==
                IF out.results # {} THEN Answer("advanced", out, "quality")
                ELSE stage' = "basic" /\ UNCHANGED <<fab, ask, found, evidence, cites>>
          IN used(AdvancedSpc(fab, found.lots, found.genealogy.op, found.genealogy.chamber))

Basic ==
  /\ stage = "basic"
  /\ Answer("basic", BasicSpc(fab, found.lots, found.genealogy.op, found.genealogy.chamber), "quality")

-----------------------------------------------------------------------------
(* The Defect and WAT agent, and the Knowledge agent.                      *)

Quality ==
  /\ stage = "quality"
  /\ Answer("quality", SummarizeDefectWat(fab, found.lots, "selected_lots"), "knowledge")

\* What was observed: where the finding of MES is, and the time of the latest
\* quality record.  None of it is a cause.
ObservedFailure ==
  LET times == {r.at : r \in QualityRows(fab, found.lots)}
  IN [kind |-> "historical_match", limit |-> ask.limit,
      lot |-> IF ask.kind = "lot" THEN ask.lot ELSE None, op |-> found.genealogy.op, module |-> fab.module[found.genealogy.op],
      equipmentType |-> fab.kind[EquipmentOf(found.genealogy.chamber)], at |-> IF times = {} THEN Forever ELSE Max(times)]

Knowledge ==
  /\ stage = "knowledge"
  /\ Answer("cases", SimilarCases(fab, ObservedFailure, ask.setting), "done")

LookupKnowledge ==
  /\ stage = "lookup"
  /\ IF Answerable(ask.question) THEN Answer("lookup", Lookup(fab, ask.question, ask.setting), "done") ELSE Raise

AnalysisNext ==
  \/ AffectedLots \/ LotContext \/ ImpactLots \/ Genealogy
  \/ Shift \/ OocEventsOf \/ Advanced \/ Basic \/ Quality \/ Knowledge \/ LookupKnowledge

AnalysisSpec == AnalysisInit /\ [][AnalysisNext]_analysis

-----------------------------------------------------------------------------
(* Properties.                                                             *)

\* The chamber whose sensors FDC analyses for a Lot is the one in which its
\* excursion was found, and every Lot it compares is of that excursion: the
\* genealogy may not prefer a chamber with more signals.
OneStory ==
  (ask.kind = "lot" /\ Has("genealogy")) =>
    /\ found.genealogy.op = found.impact.exposure.op
    /\ found.genealogy.chamber = found.impact.exposure.chamber
    /\ found.genealogy.common \subseteq found.impact.exposed

RunsIn(lot, x, from, to) ==
  \E r \in Of(fab.process, {lot}) : r.op = x.op /\ r.chamber = x.chamber /\ r.start <= to /\ r.end >= from

\* An impacted Lot ran through the source Lot's chamber while the excursion
\* lasted, and there is a sign of one: an event of the chamber or an abnormal
\* run of the source Lot.  A recovery control is no exposed Lot, and ran
\* normally after the excursion.
ImpactIsEarned ==
  Has("impact") =>
    LET i == found.impact
        x == i.exposure
        from == i.window[1]
        to == i.window[2]
    IN /\ \A l \in i.impact :
            /\ RunsIn(l, x, from, to)
            /\ \/ \E e \in fab.events : e.op = x.op /\ e.chamber = x.chamber
               \/ \E r \in Of(fab.fdc, {i.source}) : r.severity # "NORMAL"
       /\ \A l \in i.controls :
            /\ l \notin i.exposed
            /\ \E r \in Of(fab.fdc, {l}) : r.severity = "NORMAL" /\ ~r.ooc /\ r.at > to

\* Genealogy and impact assessment tell one story of the source Lot's excursion.
ExcursionIsOne == OneStory /\ ImpactIsEarned

\* The Lot was tested, and every one of its results is a pass.
Passed(lot) == {r.result : r \in Of(fab.wat, {lot})} = {"true"}

\* The records of a Lot that negative Evidence about it must rest on.  Evidence
\* that is not listed may name no Lot: that a chamber has no event names none.
NormalBasis(id, lot) ==
  LET name == id[1]
  IN \/ name = "lot_anomaly" /\ Of(fab.wat, {lot}) # {}
     \/ name = "affected_lots" /\ Passed(lot)
     \/ name = "wat_controls" /\ \E r \in Of(fab.wat, {lot}) : r.result = "true"
     \/ name \in {"cmp_normal", "recovery_controls"} /\ \E r \in Of(fab.fdc, {lot}) : r.severity = "NORMAL"
     \/ name \in {"fdc", "spc"} /\ OfParam(Of(fab.fdc, {lot}), id[2]) # {}
     \/ name = "metrology" /\ Of(fab.metrology, {lot}) # {}
     \/ name = "no_impact" /\ QualityRows(fab, {lot}) # {}
     \/ name = "impact_lots" /\ Of(fab.process, {lot}) # {}

NamedUntested(lot) == \E e \in evidence : e.id = <<"wat_missing">> /\ lot \in e.lots

\* Missing data does not make a Lot normal.  Negative Evidence names a Lot on
\* records of that Lot, with two exceptions: that no Lot of a product fails
\* names the untested ones too, and then Evidence of missing data names them as
\* such; and a chart of the advanced analysis names every Lot of its excursion.
\* MES counts a Lot as normal only when it was tested and passed, and names
\* every Lot without a conclusive result as soon as any Lot was tested.
SilenceIsNotNormal ==
  /\ \A e \in evidence : e.type = "NEGATIVE_SIGNAL" =>
       \A l \in e.lots :
         \/ NormalBasis(e.id, l)
         \/ e.id = <<"affected_lots">> /\ NamedUntested(l)
         \/ e.id[1] = "spc" /\ Has("advanced")
  /\ (ask.kind = "product" /\ Has("mes")) =>
       /\ \A l \in found.mes.lots.normal : Passed(l)
       /\ Of(fab.wat, InWindow(fab, ask)) # {} =>
            \A l \in InWindow(fab, ask) :
              Passed(l) \/ (\E r \in Of(fab.wat, {l}) : r.result = "false") \/ NamedUntested(l)

\* The baseline of a basic analysis is the past of other Lots: no row of an
\* analysed Lot and none measured after a row it is compared with is in it, and
\* it is never smaller than the minimum.
BaselineIsPast ==
  Has("basic") =>
    \A r \in found.basic.results :
      /\ Cardinality(r.baseline) >= BasicBaseline
      /\ \A b \in r.baseline, t \in r.target : b.lot \notin found.lots /\ b.at < t.at

\* Evidence of a hold names only Lots that are on hold, and only when every Lot
\* of the excursion is.
HoldChainComplete ==
  Has("ooc") =>
    \A e \in found.ooc.evidence : e.id = <<"spc_hold">> =>
      /\ e.lots \subseteq Lots(fab.holds)
      /\ \E v \in found.ooc.spc :
           \A s \in fab.scopes : s.excursion = v.excursion => s.lot \in Lots(fab.holds)

\* What is said of a Lot, that it is normal or that it is held, has a basis in the tables.
EvidenceHasBasis == SilenceIsNotNormal /\ HoldChainComplete

DocOf(h) == CHOOSE d \in fab.docs : d.id = h.item.doc

Answers == {found[name] : name \in {"cases", "lookup"} \intersect DOMAIN found}

\* Whatever lane found it and whatever the reranker makes of it, what is
\* retrieved was approved, is of the type that may answer the question, and of
\* the module that the search is limited to.  Where Python filters, it was also
\* written before the detection.
LimitsHold ==
  \A out \in Answers : \A h \in out.hits :
    LET d == DocOf(h)
        obs == out.obs
        limited == ~ask.setting.causal \/ obs.limit \/ obs.kind = "procedure_guidance"
    IN /\ d.confirmed /\ d.type = DocumentType[obs.kind]
       /\ Has("cases") => d.asset \in fab.cases
       /\ limited => Facet("module", obs.module) \subseteq d.facets
       /\ (ask.setting.causal /\ ~(ask.setting.hybrid /\ ask.setting.postgres) /\ obs.at # Forever) => d.at <= obs.at

Represents(lanes, hits) ==
  LET live == {lane \in DOMAIN lanes : lanes[lane] # {}}
  IN Cardinality(live) * LaneMinimum <= TopK =>
       \A lane \in live : \E h \in hits : lane \in h.item.lanes

\* A module that was observed cannot hide the cause in another: as long as
\* the answer has room for the lanes and is not reranked, every lane that
\* finds a document is in it.
LanesRepresented ==
  (ask.setting.causal /\ ~ask.setting.rerank) =>
    \A out \in Answers :
      Represents(LaneHits(fab, out.obs, out.plan, ask.setting), Retrieve(fab, out.obs, out.plan, ask.setting, TopK))
=============================================================================
