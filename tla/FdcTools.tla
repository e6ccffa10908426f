------------------------------ MODULE FdcTools ------------------------------
(***************************************************************************)
(* The Tools of the FDC agent, over the Lots, the operation and the        *)
(* chamber that the MES finding names: parameter shifts, recorded events   *)
(* with their holds and excursions, and two analyses by statistical        *)
(* process control, the advanced one over versioned baselines.             *)
(***************************************************************************)
EXTENDS MesTools, SpcEngine

CONSTANTS
  BasicBaseline,   \* minimum_baseline_samples (20)
  RunLength,       \* same_side_run_length (8)
  TrendLength      \* trend_run_length (6)

EquipmentOf(chamber) == chamber[1]
Params(rows) == {r.param : r \in rows}
OfParam(rows, p) == {r \in rows : r.param = p}
At(rows, op, chamber) == {r \in rows : r.op = op /\ r.chamber = chamber}
InOrder(rows) == SetToSortSeq(rows, LAMBDA r, s : r.at < s.at)
Values(series) == [i \in DOMAIN series |-> series[i].z]

\* analyze_parameter_shift.
ParameterShift(fab, lots, op, chamber) ==
  LET rows == At(Of(fab.fdc, lots), op, chamber)
      type(p) == IF Abnormal(OfParam(rows, p)) \union Ooc(OfParam(rows, p)) # {}
                 THEN "PARAMETER_DEVIATION" ELSE "NEGATIVE_SIGNAL"
  IN [params |-> Params(rows),
      evidence |-> {Ev(<<"fdc", p>>, type(p), Lots(OfParam(rows, p))) : p \in Params(rows)}
        \union (IF rows = {} THEN {Ev(<<"fdc_missing">>, "DATA_MISSING", lots)} ELSE {}),
      cites |-> IF rows = {} THEN {<<"fdc_missing">>} ELSE {}]

-----------------------------------------------------------------------------
(* perform_basic_spc_analysis.                                             *)

\* A bug: what was measured after the first target is in the baseline too.
ComparableAnytime(fab, lots, op, p, target) ==
  LET recipes == {VersionOf(r) : r \in {t \in target : t.recipe # None}}
  IN {r \in OfParam(fab.fdc, p) : /\ r.lot \notin lots /\ r.op = op /\ r.severity = "NORMAL" /\ ~r.ooc
                                  /\ (recipes = {} \/ VersionOf(r) \in recipes)}

\* The normal rows of other Lots before the first target, of a target's recipe and version.
Comparable(fab, lots, op, p, target) ==
  LET recipes == {VersionOf(r) : r \in {t \in target : t.recipe # None}}
  IN {r \in OfParam(fab.fdc, p) : /\ r.lot \notin lots /\ r.op = op /\ r.severity = "NORMAL" /\ ~r.ooc
                                  /\ \A t \in target : r.at < t.at
                                  /\ (recipes = {} \/ VersionOf(r) \in recipes)}

\* The nearest of three groups that is large enough.
Reference(candidates, chamber) ==
  LET here == {r \in candidates : r.chamber = chamber}
      near == {r \in candidates : EquipmentOf(r.chamber) = EquipmentOf(chamber)}
      enough(rows) == Cardinality(rows) >= BasicBaseline
  IN IF enough(here) THEN here ELSE IF enough(near) THEN near ELSE IF enough(candidates) THEN candidates ELSE {}

Varies(rows) == Cardinality({r.z : r \in rows}) > 1

BasicRules(series) ==
  LET w == Values(series)
  IN (IF \E i \in DOMAIN w : ~Inside(w[i], 3) THEN {"point"} ELSE {})
       \union (IF SameSideRun(w) >= RunLength THEN {"run"} ELSE {})
       \union (IF MonotonicTrend(w, TrendLength) THEN {"trend"} ELSE {})

BasicAnswer(rows, lots, results) ==
  LET type(r) == IF r.rules # {} THEN "SPC_VIOLATION" ELSE "NEGATIVE_SIGNAL"
      short == rows = {} \/ Params(rows) # {r.param : r \in results}
  IN [results |-> results,
      evidence |-> {Ev(<<"spc", r.param>>, type(r), Lots(r.target)) : r \in results}
        \union (IF short THEN {Ev(<<"spc_baseline_status">>, "DATA_MISSING", lots)} ELSE {}),
      cites |-> IF short THEN {<<"spc_baseline_status">>} ELSE {}]

\* A parameter without a baseline that varies is not analysed.
BasicSpc(fab, lots, op, chamber) ==
  LET rows == At(Of(fab.fdc, lots), op, chamber)
      target(p) == OfParam(rows, p)
      baseline(p) == Reference(Comparable(fab, lots, op, p, target(p)), chamber)
      result(p) == [param |-> p, baseline |-> baseline(p), target |-> target(p), rules |-> BasicRules(InOrder(target(p)))]
  IN BasicAnswer(rows, lots, {r \in {result(p) : p \in Params(rows)} : Varies(r.baseline)})

-----------------------------------------------------------------------------
(* analyze_spc_evidence.                                                   *)

\* The Lots asked for and those in the scope of an SPC excursion of theirs.
Widened(fab, lots, op, chamber) ==
  LET scope(x) == {s.lot : s \in {s \in fab.scopes : s.excursion = x}}
      hit == {e \in At(fab.events, op, chamber) :
                e.source = "SPC" /\ ({e.trigger} \union scope(e.excursion)) \intersect lots # {}}
  IN lots \union UNION {scope(e.excursion) : e \in hit}

\* A profile fits by operation, chamber and recipe; its product is not compared.
Fits(r, p) == r.op = p.op /\ r.chamber = p.chamber /\ VersionOf(r) = VersionOf(p)
ReferenceProfiles(fab, process, op, chamber) ==
  {p \in At(fab.profiles, op, chamber) : p.active /\ \E r \in process : VersionOf(r) = VersionOf(p)}

Sample(lot, at, z) == [lot |-> lot, at |-> at, z |-> z]
Mean(rows) == MapThenSumSet(LAMBDA r : r.z, rows) \div Cardinality(rows)
Latest(rows) == Max({r.at : r \in rows})

\* One point per Lot: the mean of its rows, or the share of its failing wafers
\* (in the model half of them is four sigmas).
LotMeans(rows) == {Sample(l, Latest(Of(rows, {l})), Mean(Of(rows, {l}))) : l \in Lots(rows)}
FailShares(wat) ==
  {LET mine == Of(wat, {l})
   IN Sample(l, Latest(mine), (16 * Cardinality({r \in mine : r.result = "false"})) \div Cardinality(mine)) : l \in Lots(wat)}

Within(at, p) == at \in p.from .. p.to
RowsOf(fab, p) == {r \in OfParam(fab.fdc, p.param) : Fits(r, p)}
BaselineRows(fab, p) ==
  IF p.source = "fdc" THEN {r \in RowsOf(fab, p) : Within(r.at, p)}
  ELSE Of(fab.wat, Lots({r \in fab.process : Fits(r, p) /\ Within(r.end, p)}))
AnalysisRows(fab, p, process) ==
  IF p.source = "fdc" THEN Of(RowsOf(fab, p), Lots(process))
  ELSE Of(fab.wat, Lots({r \in process : Fits(r, p)}))

\* The points of a profile's chart; an Xbar chart has one per Lot as well, but
\* its profile counts the rows.
Points(p, rows) == IF p.source = "wat" THEN FailShares(rows) ELSE LotMeans(rows)
Xbar(p) == p.chart \in {"XBAR_S", "XBAR_R"}
Size(rows, l) == Cardinality(Of(rows, {l}))

\* What a chart needs to vary: its points, the rows of some subgroup, or the
\* result of the tests.
Measures(p, rows) == IF Xbar(p) THEN rows ELSE Points(p, rows)
ChartVaries(p, rows) ==
  IF p.source = "wat" THEN {r.result = "false" : r \in rows} = BOOLEAN
  ELSE IF Xbar(p) THEN \E l \in Lots(rows) : Varies(Of(rows, {l}))
  ELSE Varies(Points(p, rows))

Shape(p, rows) ==
  [count |-> Cardinality(Lots(rows)), varies |-> ChartVaries(p, rows),
   regular |-> \A l, m \in Lots(rows) : Size(rows, l) = Size(rows, m) /\ Size(rows, l) > 1]

Enough(fab, p, process) ==
  LET base == BaselineRows(fab, p)
  IN /\ Cardinality(IF Xbar(p) THEN base ELSE Points(p, base)) >= p.minimum
     /\ AnalysisRows(fab, p, process) # {}

\* The Lots of the finding and what they went through.
SpcProcess(fab, lots, op, chamber) == At(Of(fab.process, Widened(fab, lots, op, chamber)), op, chamber)
SpcProfiles(fab, lots, op, chamber) == ReferenceProfiles(fab, SpcProcess(fab, lots, op, chamber), op, chamber)
Analyzed(fab, lots, op, chamber) ==
  {p \in SpcProfiles(fab, lots, op, chamber) : Enough(fab, p, SpcProcess(fab, lots, op, chamber))}

\* A chart that its baseline does not allow, or a second one of a parameter,
\* whose Evidence would have the same id, raises.
SpcRaises(fab, lots, op, chamber) ==
  LET analyzed == Analyzed(fab, lots, op, chamber)
  IN \/ \E p \in analyzed : ~ChartNeeds(p.chart, Shape(p, BaselineRows(fab, p)))
     \/ \E p, q \in analyzed : p # q /\ p.param = q.param

\* No baseline fits, or one of them or the data of a parameter is too small.
MissingSpc(profiles, analyzed, lots) ==
  (IF profiles = {} THEN {Ev(<<"spc_profile_missing">>, "DATA_MISSING", lots)} ELSE {})
    \union (IF profiles # analyzed THEN {Ev(<<"spc_data_missing">>, "DATA_MISSING", lots)} ELSE {})

Charted(p, rows, series, violations) ==
  [param |-> p.param, profile |-> p, series |-> series, violations |-> violations,
   capability |-> Capability(p.limits, Varies(Measures(p, rows)), violations)]

\* The chart of a profile over its rows of the analysed Lots.
ChartOf(p, rows) ==
  LET charted(series) == Charted(p, rows, series, NelsonViolations(series))
  IN charted(InOrder(Points(p, rows)))

AdvancedAnswer(results, missing, all) ==
  LET type(r) == IF ChartStatus(r.violations) = "OOC" THEN "SPC_VIOLATION" ELSE "NEGATIVE_SIGNAL"
  IN [results |-> results,
      evidence |-> {Ev(<<"spc", r.param>>, type(r), all) : r \in results} \union missing,
      cites |-> {e.id : e \in missing}]

\* Every result is told of all the Lots, those of the scope included.
AdvancedSpc(fab, lots, op, chamber) ==
  LET process == SpcProcess(fab, lots, op, chamber)
      profiles == SpcProfiles(fab, lots, op, chamber)
      all == Widened(fab, lots, op, chamber)
      answer(analyzed) ==
        AdvancedAnswer({ChartOf(p, AnalysisRows(fab, p, process)) : p \in analyzed}, MissingSpc(profiles, analyzed, all), all)
  IN answer(Analyzed(fab, lots, op, chamber))

-----------------------------------------------------------------------------
(* find_ooc_events.                                                        *)

HoldOf(fab, id, lot) == {h \in fab.holds : h.id = id /\ h.lot = lot}

\* The trigger and every Lot in the scope of the excursion have a hold of theirs.
HoldsLinked(fab, e) ==
  /\ HoldOf(fab, e.hold, e.trigger) # {}
  /\ \A s \in fab.scopes : s.excursion = e.excursion => HoldOf(fab, s.hold, s.lot) # {}

\* The excursion is on record and has one trigger, the event's Lot.
ExcursionLinked(fab, e) ==
  LET triggers == {s \in fab.scopes : s.excursion = e.excursion /\ s.role = "TRIGGER"}
  IN /\ e.excursion \in fab.excursions
     /\ e.trigger # None
     /\ Cardinality(triggers) = 1 /\ \A s \in triggers : s.lot = e.trigger

ImpactedBy(fab, e) == {s.lot : s \in {s \in fab.scopes : s.excursion = e.excursion /\ s.role = "IMPACT"}}

\* What the record does not show of some SPC events.
MissingContext(held, linked, spc, triggers) ==
  (IF held # spc THEN {Ev(<<"spc_hold_missing">>, "DATA_MISSING", triggers)} ELSE {})
    \union (IF linked # spc THEN {Ev(<<"spc_context_missing">>, "DATA_MISSING", triggers)} ELSE {})

OocEvents(fab, op, chamber) ==
  LET events == At(fab.events, op, chamber)
      spc == {e \in events : e.source = "SPC"}
      held == {e \in spc : HoldsLinked(fab, e)}
      linked == {e \in spc : ExcursionLinked(fab, e)}
      triggers(E) == {e.trigger : e \in E} \ {None}
      lots(E) == triggers(E) \union UNION {ImpactedBy(fab, e) : e \in E}
      missing == MissingContext(held, linked, spc, triggers(events))
  IN [events |-> events, spc |-> spc,
      evidence |-> {Ev(<<"ooc_events">>, IF events # {} THEN "OOC_EVENT" ELSE "NEGATIVE_SIGNAL", triggers(events))}
        \union (IF linked # {} THEN {Ev(<<"spc_context">>, "EXCURSION_WINDOW", triggers(events) \union lots(linked))} ELSE {})
        \union (IF held \intersect linked # {} THEN {Ev(<<"spc_hold">>, "HOLD_EVENT", lots(held \intersect linked))} ELSE {})
        \union missing,
      cites |-> {e.id : e \in missing}]
=============================================================================
