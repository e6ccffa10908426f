---------------------------- MODULE MCFabAnalysis ----------------------------
(***************************************************************************)
(* Four families of small fabs.  In all of them Lot L1 is the one that is  *)
(* asked about, two Lots share operation op1 with it, equipment e has the  *)
(* chambers a and b, and four earlier Lots are there to compare with.      *)
(***************************************************************************)
EXTENDS FabAnalysis

A == <<"e", "a">>
B == <<"e", "b">>

Lot(l) == [lot |-> l, product |-> "p1", route |-> "r1", start |-> 2, finish |-> 0]
Run(l, w, c, from) == [lot |-> l, wafer |-> w, op |-> "op1", chamber |-> c, recipe |-> "x", version |-> 1, route |-> "r1", start |-> from, end |-> from + 1]
Sensor(l, w, c, severity, delta, at, z) ==
  [lot |-> l, wafer |-> w, op |-> "op1", chamber |-> c, recipe |-> "x", version |-> 1, param |-> "p", severity |-> severity,
   ooc |-> severity # "NORMAL", delta |-> delta, at |-> at, z |-> z]
Wat(l, result, mode) == [lot |-> l, wafer |-> l, result |-> result, mode |-> mode, at |-> 8]
Event(source, trigger) ==
  [op |-> "op1", chamber |-> A, at |-> 4, source |-> source, excursion |-> "x1", trigger |-> trigger, hold |-> "h1"]

Routes == {[route |-> "r1", seq |-> 1, op |-> "op0", module |-> "m0"], [route |-> "r1", seq |-> 2, op |-> "op1", module |-> "m1"]}

Empty ==
  [lots |-> {Lot(l) : l \in {"L1", "L2", "L3"}}, process |-> {}, fdc |-> {}, wat |-> {}, defects |-> {},
   metrology |-> {}, recipes |-> {}, holds |-> {}, events |-> {}, scopes |-> {}, excursions |-> {}, profiles |-> {},
   routes |-> Routes, module |-> ("op1" :> "m1"), kind |-> ("e" :> "E"), docs |-> {}, cases |-> {}]

Plain == [advanced |-> FALSE, hybrid |-> FALSE, causal |-> FALSE, rerank |-> FALSE, postgres |-> FALSE]
AskLot == [kind |-> "lot", product |-> "p1", from |-> 1, to |-> 9, lot |-> "L1", op |-> None, limit |-> FALSE, setting |-> Plain]
AskProduct == [AskLot EXCEPT !.kind = "product"]
Case(f, a) == [fab |-> f, ask |-> a]

-----------------------------------------------------------------------------
(* Impact: when and where two more Lots ran, which runs were abnormal, and *)
(* whether the chamber has an event; L1 may have two wafers in the other   *)
(* chamber, with more signals than the first has.                          *)

Severity == {"NORMAL", "HIGH"}
RanAt == [chamber : {A, B}, start : {1, 3, 6}, severity : Severity]

ImpactFab(bad, extra, two, three, events) ==
  [Empty EXCEPT
     !.process = {Run("L1", "w1", A, 2), Run("L2", "w2", two.chamber, two.start), Run("L3", "w3", three.chamber, three.start)}
                   \union (IF extra THEN {Run("L1", w, B, 2) : w \in {"w4", "w5"}} ELSE {}),
     !.fdc = {Sensor("L1", "w1", A, bad, 9, 3, 0), Sensor("L2", "w2", two.chamber, two.severity, 5, two.start + 1, 0),
              Sensor("L3", "w3", three.chamber, three.severity, 5, three.start + 1, 0)}
               \union (IF extra THEN {Sensor("L1", w, B, bad, 5, 3, 0) : w \in {"w4", "w5"}} ELSE {}),
     !.events = events]

ImpactCases ==
  {Case(ImpactFab(bad, extra, two, three, events), AskLot) :
     bad \in Severity, extra \in BOOLEAN, two \in RanAt, three \in RanAt, events \in {{}, {Event("FDC", "L1")}}}
  \union {Case(Empty, AskLot), Case([Empty EXCEPT !.lots = {}], AskLot)}

-----------------------------------------------------------------------------
(* Statistical process control: what L1 measured, which of four earlier or *)
(* later Lots there are to compare with, a versioned baseline, and the     *)
(* holds of an excursion.                                                  *)

Others == {"B1", "B2", "B3", "B4"}
Turn == [B1 |-> 1, B2 |-> 2, B3 |-> 6, B4 |-> 1]
Version == [B1 |-> 1, B2 |-> 1, B3 |-> 1, B4 |-> 2]
Profile(source, chart) ==
  [source |-> source, chart |-> chart, op |-> "op1", chamber |-> A, recipe |-> "x", version |-> 1,
   param |-> IF source = "wat" THEN "rate" ELSE "p", from |-> 0, to |-> 2,
   minimum |-> 2, limits |-> source = "fdc", active |-> TRUE]

SpcFab(z, others, profiles) ==
  [Empty EXCEPT
     !.process = {Run("L1", w, A, 3) : w \in {"w1", "w2", "w3"}} \union {[Run(b, b, A, Turn[b] - 1) EXCEPT !.version = Version[b]] : b \in others},
     !.fdc = {Sensor("L1", "w1", A, "NORMAL", 1, 4, z[1]), Sensor("L1", "w2", A, "HIGH", 2, 5, z[2]),
              Sensor("L1", "w3", A, "NORMAL", 1, 6, z[3])}
               \union {[Sensor(b, b, IF b = "B4" THEN B ELSE A, "NORMAL", 1, Turn[b], IF b = "B1" THEN 1 ELSE 0 - 1)
                    EXCEPT !.version = Version[b]] : b \in others}
               \union {Sensor(b, "w9", A, "NORMAL", 1, Turn[b], 0) : b \in others \intersect {"B1", "B2"}},
     !.wat = {Wat(l, IF l = "B1" THEN "true" ELSE "false", "open") : l \in {"L1"} \union (others \ {"B3", "B4"})},
     !.profiles = profiles]

Scope(l, role, hold) == [excursion |-> "x1", lot |-> l, role |-> role, hold |-> hold]
AllScopes == {Scope("L1", "TRIGGER", "h1"), Scope("L2", "IMPACT", "h2"), Scope("B1", "IMPACT", "h3")}
AllHolds == {[id |-> "h1", lot |-> "L1"], [id |-> "h2", lot |-> "L2"], [id |-> "h3", lot |-> "B1"]}

Series == {<<0, 1, 0 - 1>>, <<3, 4, 5>>, <<8, 1, 0>>}
Profiles ==
  {{}, {Profile("fdc", "I_MR")}, {Profile("fdc", "XBAR_S")}, {Profile("wat", "P"), Profile("fdc", "I_MR")},
   {Profile("fdc", "XBAR_S"), Profile("fdc", "I_MR")}}

SpcCases ==
  {Case([SpcFab(z, others, profiles) EXCEPT !.events = events, !.scopes = AllScopes],
        [AskLot EXCEPT !.setting.advanced = (profiles # {})]) :
     z \in Series, others \in SUBSET Others, profiles \in Profiles, events \in {{}, {Event("SPC", "L1")}}}

HoldCases ==
  {Case([SpcFab(<<3, 4, 5>>, {"B1"}, {}) EXCEPT !.events = {Event("SPC", t)}, !.scopes = S, !.holds = H, !.excursions = X],
        AskLot) :
     t \in {None, "L1"}, S \in SUBSET AllScopes, H \in SUBSET AllHolds, X \in {{}, {"x1"}}}

-----------------------------------------------------------------------------
(* Quality: every combination of tests, inspections and metrology of two   *)
(* Lots, asked about as a product and as a Lot.                            *)

WatOf(l) ==
  {{}, {Wat(l, "true", None)}, {Wat(l, "false", "open")}, {Wat(l, "false", None)}, {Wat(l, "", None)}}
DefectsOf(l) == {{}, {[lot |-> l, wafer |-> l, count |-> 2, at |-> 7]}}
MetrologyOf(l) == {{}} \union {{[lot |-> l, wafer |-> l, metric |-> "cd", result |-> r, at |-> 7]} : r \in {"true", "false"}}

QualityFab(wat, defects, metrology) ==
  [SpcFab(<<3, 4, 5>>, {"B1", "B2"}, {}) EXCEPT !.wat = wat, !.defects = defects, !.metrology = metrology]

QualityCases ==
  {Case(QualityFab(w1 \union w2, d, m), a) :
     w1 \in WatOf("L1"), w2 \in WatOf("L2"), d \in DefectsOf("L1"), m \in MetrologyOf("L2") \union MetrologyOf("L1"),
     a \in {AskLot, AskProduct}}

-----------------------------------------------------------------------------
(* Knowledge: six documents of three modules that every lane sees          *)
(* otherwise, in several orders of relevance, one of which is of another   *)
(* type, not approved, or of the future.                                   *)

Doc(id, module, kind, score) ==
  [id |-> id, asset |-> id, type |-> "RCA_CASE", confirmed |-> TRUE, at |-> 1,
   facets |-> {<<"module", module>>, <<"equipment_type", kind>>}, lex |-> score[id], vec |-> score[7 - id], cross |-> score[(id % 6) + 1]]
DocsFor(score) ==
  {Doc(1, "m1", "E", score), Doc(2, "m0", "F", score), Doc(3, "m2", "E", score), Doc(4, "m2", "E", score),
   Doc(5, "m2", "F", score), Doc(6, "m2", "E", score)}

Orders == {<<6, 1, 5, 4, 3, 2>>, <<1, 0, 2, 4, 3, 0>>, <<3, 5, 1, 6, 2, 4>>}
Spoiled(docs, id, how) ==
  {IF d.id # id THEN d
   ELSE CASE how = "draft" -> [d EXCEPT !.confirmed = FALSE] [] how = "late" -> [d EXCEPT !.at = 9]
          [] how = "note" -> [d EXCEPT !.type = "ENGINEERING_NOTE"] [] OTHER -> d : d \in docs}

Settings ==
  {x \in [advanced : {FALSE}, hybrid : BOOLEAN, causal : BOOLEAN, rerank : BOOLEAN, postgres : BOOLEAN] :
     x.rerank \/ x.postgres => x.hybrid}
KnowledgeCases ==
  {Case([QualityFab({Wat("L1", "false", "open")}, {}, {}) EXCEPT !.docs = Spoiled(DocsFor(score), id, how), !.cases = cases],
        [AskLot EXCEPT !.limit = limit, !.setting = setting]) :
     score \in Orders, id \in {1, 2}, how \in {"fine", "draft", "late", "note"}, cases \in {1 .. 6, {1, 2, 3}},
     limit \in BOOLEAN, setting \in Settings}

\* Lookups: an engineer asks for cases, procedures or notes, about a module,
\* an operation or neither.
Question == [kind |-> "historical_match", type |-> None, limit |-> FALSE, op |-> None, module |-> "m1", equipmentType |-> "E", at |-> 5]
Questions ==
  {[Question EXCEPT !.limit = limit, !.at = at] : limit \in BOOLEAN, at \in {5, Forever}}
  \union {[Question EXCEPT !.kind = "procedure_guidance", !.type = type, !.module = module, !.op = op] :
             type \in {None, "SOP", "RCA_CASE"}, module \in {None, "m1"}, op \in {None, "op1"}}
  \union {[Question EXCEPT !.kind = "engineering_note_lookup"], [Question EXCEPT !.kind = "root_cause"]}

Procedures(docs) == {IF d.id < 4 THEN [d EXCEPT !.type = "SOP", !.facets = @ \union {<<"operation", "op1">>}] ELSE d : d \in docs}
LookupCases ==
  {Case([Empty EXCEPT !.docs = Spoiled(docs, 1, how)], [AskLot EXCEPT !.kind = "lookup", !.setting = setting] @@ [question |-> question]) :
     docs \in {DocsFor(<<1, 2, 3, 4, 5, 6>>), Procedures(DocsFor(<<6, 1, 5, 4, 3, 2>>))}, how \in {"fine", "late", "note"},
     question \in Questions, setting \in Settings}

MCCases == ImpactCases \union SpcCases \union HoldCases \union QualityCases \union KnowledgeCases \union LookupCases
MCNelsonLength == <<1, 3, 3, 4, 3, 5, 4, 3>>
=============================================================================
