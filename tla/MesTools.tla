------------------------------ MODULE MesTools ------------------------------
(***************************************************************************)
(* The Tools of the MES agent, as operators over the tables of a fab:      *)
(* which Lots of a product fail, the context of one Lot, the Lots that     *)
(* were exposed to its excursion, and what the affected Lots have in       *)
(* common.                                                                 *)
(*                                                                         *)
(* fab is a record of tables, each a set of rows.  A chamber stands for    *)
(* its equipment and itself; a recipe is its id, of some version.  Where   *)
(* the code takes the first of several equals of a file, an operator       *)
(* returns the set of what it may take.  Times are natural numbers.        *)
(***************************************************************************)
EXTENDS Naturals, FiniteSets, FiniteSetsExt

None == "none"
NoChamber == <<None, None>>
Forever == 99
Ev(id, type, lots) == [id |-> id, type |-> type, lots |-> lots]

Of(rows, lots) == {r \in rows : r.lot \in lots}
Lots(rows) == {r.lot : r \in rows}
Wafers(rows) == {r.wafer : r \in rows}
Ops(rows) == {r.op : r \in rows}
Abnormal(rows) == {r \in rows : r.severity # "NORMAL"}
Ooc(rows) == {r \in rows : r.ooc}

\* Counter.most_common(1): the values of Key that are the most frequent.
MostCommon(rows, Key(_)) ==
  LET count(v) == Cardinality({r \in rows : Key(r) = v})
  IN {Key(r) : r \in {q \in rows : \A p \in rows : count(Key(p)) <= count(Key(q))}}

OpOf(r) == r.op
VersionOf(r) == <<r.recipe, r.version>>

-----------------------------------------------------------------------------
(* find_affected_lots.                                                     *)

\* A bug: a Lot that was never tested counts as passing.
ClassifyUntested(fab, ids) ==
  LET wat == Of(fab.wat, ids)
      results(l) == {r.result : r \in Of(wat, {l})}
      affected == {l \in ids : "false" \in results(l)}
      passing == {l \in ids : results(l) \subseteq {"true"}}
      suspects == Lots(Abnormal(Of(fab.fdc, ids)))
  IN [affected |-> affected, normal |-> passing \ suspects, suspects |-> suspects,
      passingSuspects |-> passing \intersect suspects, untested |-> ids \ (affected \union passing)]

Classify(fab, ids) ==
  LET wat == Of(fab.wat, ids)
      results(l) == {r.result : r \in Of(wat, {l})}
      affected == {l \in ids : "false" \in results(l)}
      passing == {l \in ids : results(l) = {"true"}}
      suspects == Lots(Abnormal(Of(fab.fdc, ids)))
  IN [affected |-> affected, normal |-> passing \ suspects, suspects |-> suspects,
      passingSuspects |-> passing \intersect suspects, untested |-> ids \ (affected \union passing)]

\* The Lots tested on a day and those whose tests of the day all pass.
YieldTrend(wat) ==
  [d \in {r.at : r \in wat} |->
     LET rows == {r \in wat : r.at = d}
     IN [lots |-> Lots(rows), pass |-> {l \in Lots(rows) : \A r \in Of(rows, {l}) : r.result = "true"}]]

\* A Lot without a start is in every window.
InWindow(fab, ask) ==
  {l.lot : l \in {x \in fab.lots : x.product = ask.product /\ (x.start = 0 \/ x.start \in ask.from .. ask.to)}}

FindAffectedLots(fab, ask) ==
  LET ids == InWindow(fab, ask)
      c == Classify(fab, ids)
      wat == Of(fab.wat, ids)
      type == IF wat = {} THEN "DATA_MISSING" ELSE IF c.affected # {} THEN "IMPACT_SCOPE" ELSE "NEGATIVE_SIGNAL"
  IN [lots |-> c, trend |-> YieldTrend(wat),
      evidence |-> {Ev(<<"affected_lots">>, type, ids)}
        \union (IF wat # {} /\ c.untested # {} THEN {Ev(<<"wat_missing">>, "DATA_MISSING", c.untested)} ELSE {})]

-----------------------------------------------------------------------------
(* get_lot_context.                                                        *)

CmpOps == {"cmp"}
First(rows) == CHOOSE r \in rows : \A q \in rows : r.start <= q.start

\* The operations at which the Lot ran another recipe than most earlier Lots of
\* its route, for each choice among equally frequent recipes.  Only what ended
\* before the Lot started there is its baseline.
RecipeChanges(fab, lot) ==
  LET mine == Of(fab.process, {lot})
      route == (CHOOSE l \in fab.lots : l.lot = lot).route
      at(rows, op) == {r \in rows : r.op = op}
      before(op) ==
        {r \in at(fab.process, op) : r.lot # lot /\ r.route = route /\ r.end < First(at(mine, op)).start}
      ran(op) == MostCommon(at(mine, op), VersionOf)
      usual(op) == MostCommon(before(op), VersionOf)
      changed == {op \in Ops(mine) : before(op) # {} /\ ran(op) \intersect usual(op) = {}}
      maybe == {op \in Ops(mine) : before(op) # {} /\ Cardinality(ran(op) \union usual(op)) > 1}
  IN {S \in SUBSET maybe : changed \subseteq S}

\* What changed, and that the recipe history does not know of it.
RecipeHistoryMissing(fab, lot, changes) ==
  IF changes # {} /\ Of(fab.recipes, {lot}) = {} THEN {Ev(<<"recipe_history_missing">>, "DATA_MISSING", {lot})} ELSE {}
RecipeEvidence(fab, lot, changes) ==
  (IF changes # {} THEN {Ev(<<"recipe_change">>, "RECIPE_CHANGE", {lot})} ELSE {}) \union RecipeHistoryMissing(fab, lot, changes)

GetLotContext(fab, lot, changes) ==
  LET wat == Of(fab.wat, {lot})
      failed == \E r \in wat : r.result = "false"
      normalCmp == {r \in Of(fab.fdc, {lot}) : r.op \in CmpOps /\ r.severity = "NORMAL" /\ ~r.ooc}
      badMetrology == {r \in Of(fab.metrology, {lot}) : r.result = "false"}
      anomaly == IF wat = {} THEN "DATA_MISSING" ELSE IF failed THEN "ELECTRICAL_FAILURE" ELSE "NEGATIVE_SIGNAL"
  IN [failed |-> failed, changes |-> changes,
      evidence |-> {Ev(<<"lot_context">>, "LOT_CONTEXT", {lot}), Ev(<<"lot_anomaly">>, anomaly, {lot})}
        \union (IF badMetrology # {} /\ normalCmp # {} THEN {Ev(<<"cmp_normal">>, "NEGATIVE_SIGNAL", {lot})} ELSE {})
        \union RecipeEvidence(fab, lot, changes),
      cites |-> {e.id : e \in RecipeHistoryMissing(fab, lot, changes)} \union (IF failed THEN {} ELSE {<<"lot_anomaly">>})]

-----------------------------------------------------------------------------
(* The exposure lanes of some Lots: every operation, chamber and recipe    *)
(* that one of them ran through.  Their order, a score, is left out.       *)

Lane(op, chamber, recipe, lots, wafers, signals) ==
  [op |-> op, chamber |-> chamber, recipe |-> recipe, lots |-> lots, wafers |-> wafers, signals |-> signals]

SharedLanes(process, fdc) ==
  {LET rows == {r \in process : r.op = p.op /\ r.chamber = p.chamber /\ r.recipe = p.recipe}
       seen == {r \in fdc : r.op = p.op /\ r.chamber = p.chamber}
   IN Lane(p.op, p.chamber, p.recipe, Lots(rows), Wafers(rows), Abnormal(seen) \union Ooc(seen))
     : p \in {r \in process : r.recipe # None}}

LaneOf(lanes, op, chamber, recipe) == {l \in lanes : l.op = op /\ l.chamber = chamber /\ l.recipe = recipe}
WithLane(lanes, lane) == IF LaneOf(lanes, lane.op, lane.chamber, lane.recipe) = {} THEN lanes \union {lane} ELSE lanes

LaneEvidence(lanes, token) ==
  {Ev(<<"lane", token, l.op, l.chamber, l.recipe>>, "EQUIPMENT_EXPOSURE", l.lots) : l \in lanes}

=============================================================================
