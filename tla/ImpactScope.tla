---------------------------- MODULE ImpactScope ----------------------------
(***************************************************************************)
(* Which Lots an excursion reached, and what they have in common: the      *)
(* Tools find_impact_lots and analyze_lot_genealogy.                       *)
(***************************************************************************)
EXTENDS MesTools

ChamberOf(r) == r.chamber
Extreme(rows, Key(_)) == {r \in rows : \A q \in rows : Key(q) <= Key(r)}
Delta(r) == r.delta
OnChamber(r, lane) == lane.chamber = NoChamber \/ lane.chamber = r.chamber
OfRecipe(r, lane) == lane.recipe = None \/ lane.recipe = r.recipe

-----------------------------------------------------------------------------
(* find_impact_lots.                                                       *)

TargetOps(fab, lot, op) ==
  LET mine == Of(fab.fdc, {lot})
      at(r) == r.at
  IN IF op # None THEN {op}
     ELSE IF Ooc(mine) # {} THEN MostCommon(Ooc(mine), OpOf)
     ELSE IF Abnormal(mine) # {} THEN MostCommon(Abnormal(mine), OpOf)
     ELSE IF mine # {} THEN Ops(Extreme(mine, at))
     ELSE Ops(Of(fab.process, {lot}))

\* The rows that may be the signal of the Lot: its greatest deviation at any
\* operation, or else what the target recorded of its worst wafer.
Signals(fab, lot, op) ==
  LET mine == Of(fab.fdc, {lot})
      count(r) == r.count
      worst == Wafers(Extreme(Of(fab.defects, {lot}), count))
  IN IF Ooc(mine) # {} THEN Extreme(Ooc(mine), Delta)
     ELSE IF Abnormal(mine) # {} THEN Extreme(Abnormal(mine), Delta)
     ELSE {r \in mine : r.op = op /\ r.wafer \in worst}

\* The exposure of the Lot: a row of the asked lane, one of the signal's wafer
\* and chamber if there is any.  None: the Tool raises.
Exposures(fab, lot, op, lane) ==
  LET scoped == {r \in Of(fab.process, {lot}) : r.op = op /\ OnChamber(r, lane) /\ OfRecipe(r, lane)}
      on(s) == {r \in scoped : r.wafer = s.wafer /\ r.chamber = s.chamber}
      signals == Signals(fab, lot, op)
  IN (UNION {IF on(s) # {} THEN on(s) ELSE scoped : s \in signals})
       \union (IF signals = {} THEN scoped ELSE {})

EventsAt(fab, op, chamber) == {e \in fab.events : e.op = op /\ e.chamber = chamber}

\* Nothing measured later counts.  Without an event the code takes the maximum
\* of a single string, its greatest character, which is after every time.
Cutoff(fab, lot, x) ==
  LET rows == Of(fab.process, {lot})
      finished == {l.finish : l \in Of(fab.lots, {lot})} \ {0}
      own == Max(IF finished # {} THEN finished ELSE {r.end : r \in rows})
      events == EventsAt(fab, x.op, x.chamber)
  IN IF events = {} THEN Forever ELSE Max({own} \union {e.at : e \in events})

ChamberAbnormal(fab, lot, x) ==
  {r \in Abnormal(fab.fdc) : r.op = x.op /\ r.chamber = x.chamber /\ r.at <= Cutoff(fab, lot, x)}

ExposedIn(fab, x, from, to) ==
  {r \in fab.process : r.op = x.op /\ r.chamber = x.chamber /\ r.start <= to /\ r.end >= from}

\* The rows whose time is the excursion.  None: the Tool raises.
ExcursionRows(fab, lot, x) ==
  LET bad == ChamberAbnormal(fab, lot, x)
      here == {r \in fab.process : r.op = x.op /\ r.chamber = x.chamber}
  IN IF EventsAt(fab, x.op, x.chamber) # {} /\ bad # {}
       THEN {r \in here : r.wafer \in Wafers(bad) /\ r.start <= Cutoff(fab, lot, x)}
     ELSE IF bad # {} /\ Abnormal(Of(fab.fdc, {lot})) # {}
       THEN {r \in Of(here, {lot}) : r.wafer \in Wafers(Of(bad, {lot}))}
     ELSE {x}

\* The Lots that ran normally through the chamber after the excursion.
RecoveryControls(fab, x, exposed, to) ==
  {r \in fab.fdc : /\ r.lot \notin exposed /\ r.op = x.op /\ r.chamber = x.chamber
                   /\ r.severity = "NORMAL" /\ ~r.ooc /\ r.at > to}

\* Without another Lot or an abnormal wafer the scope is a negative result.
ScopeEvidence(lot, exposed, impactWafers) ==
  Ev(<<"impact_lots">>, IF exposed # {lot} \/ impactWafers # {} THEN "IMPACT_SCOPE" ELSE "NEGATIVE_SIGNAL", exposed)

\* What the Tool answers when the rows exposedRows met the excursion; bad are the
\* chamber's abnormal measurements.
ImpactAnswer(fab, lot, x, bad, events, window, exposedRows, known) ==
  LET exposed == Lots(exposedRows) \union {lot}
      impactWafers == IF bad = {} THEN {} ELSE IF exposed = {lot} THEN Wafers(exposedRows)
                      ELSE Wafers({r \in exposedRows : r.lot # lot})
      controls == Lots(RecoveryControls(fab, x, exposed, window[2]))
      lanes == WithLane(SharedLanes(Of(fab.process, exposed), Of(fab.fdc, exposed)),
                        Lane(x.op, x.chamber, x.recipe, exposed, Wafers(exposedRows), bad))
  IN [source |-> lot, exposure |-> x, window |-> window, exposed |-> exposed, impact |-> exposed \ {lot},
      wafers |-> Wafers(exposedRows), impactWafers |-> impactWafers, controls |-> controls, lanes |-> lanes,
      evidence |-> (IF events # {} THEN {Ev(<<"excursion_window">>, "EXCURSION_WINDOW", {lot})} ELSE {})
        \union (IF controls # {} THEN {Ev(<<"recovery_controls">>, "NEGATIVE_SIGNAL", controls)} ELSE {})
        \union {ScopeEvidence(lot, exposed, impactWafers)}
        \union LaneEvidence(lanes, <<"impact", lot, x.op>>),
      cites |-> IF bad = {} \/ ~known THEN {<<"impact_lots">>} ELSE {}]

\* The excursion that the Lot's exposure x saw lasts as long as rows; without an event
\* or an abnormal run of the Lot it is that exposure alone.
ImpactWithin(fab, lot, x, bad, events, rows) ==
  LET from == Min({r.start : r \in rows})
      to == Max({r.end : r \in rows})
      known == events # {} \/ (bad # {} /\ Abnormal(Of(fab.fdc, {lot})) # {})
  IN ImpactAnswer(fab, lot, x, bad, events, <<from, to>>, IF known THEN ExposedIn(fab, x, from, to) ELSE {x}, known)

ImpactOf(fab, lot, x) ==
  ImpactWithin(fab, lot, x, ChamberAbnormal(fab, lot, x), EventsAt(fab, x.op, x.chamber), ExcursionRows(fab, lot, x))

ImpactExposures(fab, lot, op, lane) ==
  UNION {Exposures(fab, lot, o, lane) : o \in TargetOps(fab, lot, op)}

-----------------------------------------------------------------------------
(* analyze_lot_genealogy.                                                  *)

GenealogyOps(fab, lots, op) ==
  LET mine == Of(fab.fdc, lots)
  IN IF op # None THEN {op}
     ELSE IF Ooc(mine) # {} THEN MostCommon(Ooc(mine), OpOf)
     ELSE IF Abnormal(mine) # {} THEN MostCommon(Abnormal(mine), OpOf)
     ELSE MostCommon(mine, OpOf)

\* The assignments, one per chamber and recipe, that hold the most Lots and,
\* of these, the most wafers.
Leading(groups) ==
  LET lots(g) == Cardinality(Lots(g))
      wafers(g) == Cardinality(Wafers(g))
  IN {g \in groups : \A h \in groups : lots(h) < lots(g) \/ (lots(h) = lots(g) /\ wafers(h) <= wafers(g))}

Assignments(rows) == {{r \in rows : r.chamber = p.chamber /\ r.recipe = p.recipe} : p \in rows}
OneOf(g) == CHOOSE r \in g : TRUE

\* A bug: the chamber asked for is ignored, the one with the signals preferred.
PreferredSignal(fab, lots, op, lane) ==
  LET at == {r \in Of(fab.fdc, lots) : r.op = op}
  IN IF Ooc(at) # {} THEN MostCommon(Ooc(at), ChamberOf)
     ELSE IF Abnormal(at) # {} THEN MostCommon(Abnormal(at), ChamberOf)
     ELSE {NoChamber}

\* The chamber asked for, or those with the most signals at the operation.
Preferred(fab, lots, op, lane) ==
  LET at == {r \in Of(fab.fdc, lots) : r.op = op}
  IN IF lane.chamber # NoChamber THEN {lane.chamber}
     ELSE IF Ooc(at) # {} THEN MostCommon(Ooc(at), ChamberOf)
     ELSE IF Abnormal(at) # {} THEN MostCommon(Abnormal(at), ChamberOf)
     ELSE {NoChamber}

\* The groups of rows that the Tool may name as common.  None: it raises.
CommonGroups(fab, lots, op, lane) ==
  LET groups == Assignments({r \in Of(fab.process, lots) : r.op = op})
      on(c) == {g \in groups : OneOf(g).chamber = c /\ OfRecipe(OneOf(g), lane)}
  IN UNION {Leading(IF on(c) # {} THEN on(c) ELSE groups) : c \in Preferred(fab, lots, op, lane)}

HoldEvidence(fab, lots) ==
  LET held == Lots(Of(fab.holds, lots))
  IN IF held = {} THEN {} ELSE {Ev(<<"hold_comment">>, "HOLD_EVENT", held), Ev(<<"lot_hold">>, "HOLD_EVENT", held)}

GenealogyOf(fab, lots, g) ==
  LET key == OneOf(g)
      process == Of(fab.process, lots)
      lanes == WithLane(SharedLanes(process, Of(fab.fdc, lots)),
                        Lane(key.op, key.chamber, key.recipe, Lots(g), Wafers(g), {}))
  IN [op |-> key.op, chamber |-> key.chamber, recipe |-> key.recipe, common |-> Lots(g), of |-> lots,
      byOperation |-> [o \in Ops(process) |-> Leading(Assignments({r \in process : r.op = o}))],
      lanes |-> lanes, cites |-> {},
      evidence |-> {Ev(<<"common_chamber">>, "EQUIPMENT_EXPOSURE", lots)}
        \union LaneEvidence(lanes, <<"common", lots>>)
        \union HoldEvidence(fab, lots)]
=============================================================================
