---------------------------- MODULE QualityTools ----------------------------
(***************************************************************************)
(* The Tool of the Defect and WAT agent: what inspection, electrical test  *)
(* and metrology say of some Lots, and what they do not.                   *)
(***************************************************************************)
EXTENDS MesTools

QualityRows(fab, lots) == Of(fab.defects, lots) \union Of(fab.wat, lots) \union Of(fab.metrology, lots)
Failing(rows) == {r \in rows : r.result = "false"}
Passing(rows) == {r \in rows : r.result = "true"}
Metrics(rows) == {r.metric : r \in rows}
OfMetric(rows, m) == {r \in rows : r.metric = m}

HasQualityImpact(fab, lots) ==
  Of(fab.defects, lots) # {} \/ Failing(Of(fab.wat, lots)) # {} \/ Failing(Of(fab.metrology, lots)) # {}

MetrologyEvidence(metrology, scope) ==
  LET type(m) == IF Failing(OfMetric(metrology, m)) # {} THEN "METROLOGY_DEVIATION" ELSE "NEGATIVE_SIGNAL"
  IN {Ev(<<"metrology", m, scope>>, type(m), Lots(OfMetric(metrology, m))) : m \in Metrics(metrology)}

\* Without an impact: normal for the Lots with records, unknown without any.
NoImpactEvidence(fab, lots, scope) ==
  LET records == QualityRows(fab, lots)
      id == <<"no_impact", scope>>
  IN IF HasQualityImpact(fab, lots) THEN {}
     ELSE IF records # {} THEN {Ev(id, "NEGATIVE_SIGNAL", Lots(records))}
     ELSE {Ev(id, "DATA_MISSING", lots)}

\* The Lots without a test, when there are records of anything.
UntestedEvidence(fab, lots, scope) ==
  LET untested == lots \ Lots(Of(fab.wat, lots))
  IN IF untested = {} \/ QualityRows(fab, lots) = {} THEN {} ELSE {Ev(<<"quality_wat_missing", scope>>, "DATA_MISSING", untested)}

\* A failing row without a fail mode is an impact, but no Evidence tells it.
SummarizeDefectWat(fab, lots, scope) ==
  LET defects == Of(fab.defects, lots)
      wat == Of(fab.wat, lots)
      id(name) == <<name, scope>>
      modes == {r.mode : r \in wat} \ {None}
      untested == UntestedEvidence(fab, lots, scope)
  IN [failing |-> Lots(Failing(wat)), untested |-> lots \ Lots(wat),
      evidence |->
        (IF defects # {} THEN {Ev(id("defect"), "DEFECT_SIGNAL", Lots(defects))} ELSE {})
        \union (IF modes # {} THEN {Ev(id("wat"), "ELECTRICAL_FAILURE", Lots(Failing(wat)))} ELSE {})
        \union (IF Passing(wat) # {} THEN {Ev(id("wat_controls"), "NEGATIVE_SIGNAL", Lots(Passing(wat)))} ELSE {})
        \union MetrologyEvidence(Of(fab.metrology, lots), scope)
        \union NoImpactEvidence(fab, lots, scope) \union untested,
      \* The warning names the id without its scope.
      cites |-> IF untested # {} THEN {<<"quality_wat_missing", "selected_lots">>} ELSE {}]
=============================================================================
