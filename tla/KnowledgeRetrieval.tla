------------------------- MODULE KnowledgeRetrieval -------------------------
(***************************************************************************)
(* The retrieval of approved knowledge for one query: rankings of the      *)
(* documents in scope, the fusion of two of them, the causal lanes that    *)
(* each search a part of the fab and share the answer, the reranker over   *)
(* all of it, and its two users: the Knowledge Tool of an analysis and the *)
(* lookup that an engineer asks for.                                       *)
(*                                                                         *)
(* A document stands for its best chunk.  lex, vec and cross are the       *)
(* scores of its words, of its embedding and of the reranker for the query *)
(* at hand.  A document with none of its words is not ranked by words; by  *)
(* embedding every one is, as the minimum similarity of the runtime is 0.  *)
(* Ids and assets are numbers in the order of their names; documents of    *)
(* one asset follow one another.                                           *)
(* setting.hybrid, .causal and .rerank are the switches of the runtime,    *)
(* and .postgres says that it searches a database.                         *)
(***************************************************************************)
EXTENDS MesTools

CONSTANTS
  TopK,          \* the hits that a query asks for (10)
  LaneMinimum,   \* the hits that each lane may place (1)
  CandidateK,    \* the hits that the reranker sees (20)
  RrfK           \* the constant of reciprocal rank fusion (60)

ASSUME RetrievalAssumption == {TopK, LaneMinimum, CandidateK, RrfK} \subseteq Nat \ {0}

Weight(rank) == 10000 \div (RrfK + rank)

\* sorted, as a set of [rank, item]: the items before one give its rank.
Ranked(S, Before(_, _)) == {[rank |-> 1 + Cardinality({y \in S : Before(y, x)}), item |-> x] : x \in S}
Items(ranking) == {r.item : r \in ranking}
Take(ranking, n) == {r \in ranking : r.rank <= n}
RankOf(ranking, x) == (CHOOSE r \in ranking : r.item = x).rank

-----------------------------------------------------------------------------
(* One search.                                                             *)

\* A plan's facets are what the module, equipment type, operation, defect type
\* and tags must be; until is the time of the detection, Forever without one.
InTables(d, plan) == d.confirmed /\ d.type \in plan.types /\ plan.facets \subseteq d.facets
InScope(d, plan) == InTables(d, plan) /\ (plan.until # Forever => d.at <= plan.until)

Sorted(docs, Score(_)) ==
  Ranked(docs, LAMBDA d, e : Score(d) > Score(e) \/ (Score(d) = Score(e) /\ d.id < e.id))
RankedBy(docs, Score(_)) == Sorted({d \in docs : Score(d) > 0}, Score)

\* The sources of candidates: the queries of the database know no time.
PythonBM25(docs, plan) == RankedBy({d \in docs : InScope(d, plan)}, LAMBDA d : d.lex)
ExactVector(docs, plan) == Sorted({d \in docs : InScope(d, plan)}, LAMBDA d : d.vec)
PostgresBM25(docs, plan) == RankedBy({d \in docs : InTables(d, plan)}, LAMBDA d : d.lex)
PostgresVector(docs, plan) == Sorted({d \in docs : InTables(d, plan)}, LAMBDA d : d.vec)

\* reciprocal_rank_fusion
Fused(a, b, d) ==
  (IF d \in Items(a) THEN Weight(RankOf(a, d)) ELSE 0) + (IF d \in Items(b) THEN Weight(RankOf(b, d)) ELSE 0)

\* One hit per asset, for its best document.
BestOf(docs, Score(_)) ==
  {d \in docs : \A e \in docs : e.asset = d.asset => Score(e) < Score(d) \/ (Score(e) = Score(d) /\ d.id <= e.id)}
HitOf(d, score) == [asset |-> d.asset, doc |-> d.id, score |-> score, lanes |-> {}]

HybridHits(docs, a, b, top) ==
  LET score(d) == Fused(a, b, d)
      ranked == RankedBy(BestOf(docs, score), score)
  IN Take({[r EXCEPT !.item = HitOf(r.item, score(r.item))] : r \in ranked}, top)

\* The keyword retriever sorts in reverse: of equal scores the last asset first.
KeywordHits(docs, plan, top) ==
  LET score(d) == d.lex
      matches == {d \in docs : InScope(d, plan) /\ d.lex > 0}
  IN Take(Ranked({HitOf(d, d.lex) : d \in BestOf(matches, score)},
            LAMBDA h, k : h.score > k.score \/ (h.score = k.score /\ h.asset > k.asset)), top)

Search(docs, plan, setting, top) ==
  IF ~setting.hybrid THEN KeywordHits(docs, plan, top)
  ELSE HybridHits(docs, IF setting.postgres THEN PostgresBM25(docs, plan) ELSE PythonBM25(docs, plan),
                  IF setting.postgres THEN PostgresVector(docs, plan) ELSE ExactVector(docs, plan), top)

-----------------------------------------------------------------------------
(* The causal scope: what limits every lane, and what each lane looks at.  *)

Facet(field, value) == IF value = None THEN {} ELSE {<<field, value>>}

\* An observed module limits a search only when the user says so, or when a
\* procedure is looked up; then the operation does too.
HardFacets(obs) ==
  LET procedure == obs.kind = "procedure_guidance" /\ (obs.module # None \/ obs.op # None)
  IN (IF obs.limit \/ procedure THEN Facet("module", obs.module) ELSE {})
       \union (IF procedure THEN Facet("operation", obs.op) ELSE {})

RouteOf(fab, lot) == {r \in fab.routes : \E l \in Of(fab.lots, {lot}) : l.route = r.route}

\* The modules of the steps before the detection on the Lot's route: its first
\* step of the operation, or else its last one of the module.
UpstreamModules(fab, obs) ==
  LET route == RouteOf(fab, obs.lot)
      byOp == {r.seq : r \in {r \in route : obs.op # None /\ r.op = obs.op}}
      byModule == {r.seq : r \in {r \in route : obs.module # None /\ r.module = obs.module}}
      before(n) == {r.module : r \in {r \in route : r.seq < n}}
  IN IF byOp # {} THEN before(Min(byOp)) ELSE IF byModule # {} THEN before(Max(byModule)) ELSE {}

SharedKinds(fab, obs) ==
  {fab.kind[r.chamber[1]] : r \in {r \in Of(fab.process, {obs.lot}) : obs.op = None \/ r.op = obs.op}}

CausalLanes == {"same_step", "upstream_route", "shared_resource", "global_semantic"}

\* A facet of a lane never replaces a hard one of its field.
Narrowed(hard, facets) == hard \union {f \in facets : \A h \in hard : h[1] # f[1]}

\* A bug: a lane searches for what it looks at, and forgets the limits.
LaneFacetsFree(fab, obs, lane) ==
  CASE lane = "same_step" ->
         LET facets == Facet("module", obs.module) \union Facet("equipment_type", obs.equipmentType)
         IN IF facets = {} THEN {} ELSE {facets}
    [] lane = "upstream_route" -> {Facet("module", m) : m \in UpstreamModules(fab, obs)}
    [] lane = "shared_resource" -> {Facet("equipment_type", k) : k \in SharedKinds(fab, obs)}
    [] OTHER -> {{}}

\* The facets of each search of a lane; a lane without one is not available.
LaneFacets(fab, obs, lane) ==
  LET hard == HardFacets(obs)
      same == Facet("module", obs.module) \union Facet("equipment_type", obs.equipmentType)
  IN CASE lane = "same_step" -> IF same = {} THEN {} ELSE {Narrowed(hard, same)}
       [] lane = "upstream_route" -> {Narrowed(hard, Facet("module", m)) : m \in UpstreamModules(fab, obs)}
       [] lane = "shared_resource" -> {Narrowed(hard, Facet("equipment_type", k)) : k \in SharedKinds(fab, obs)}
       [] OTHER -> {hard}

Better(h, k) == h.score > k.score \/ (h.score = k.score /\ h.asset < k.asset)

\* The answer of a lane: of each asset the best hit of the lane's searches.
LaneHits(fab, obs, plan, setting) ==
  [lane \in CausalLanes |->
     LET found == UNION {Items(Search(fab.docs, [plan EXCEPT !.facets = F], setting, CandidateK)) : F \in LaneFacets(fab, obs, lane)}
         best == {h \in found : \A k \in found : k.asset = h.asset => k.score < h.score \/ (k.score = h.score /\ h.doc <= k.doc)}
     IN Ranked(best, Better)]

-----------------------------------------------------------------------------
(* _fuse_lanes.                                                            *)

\* hits: the answer of each lane.
AssetsOf(ranking) == {r.item.asset : r \in ranking}
LanesWith(hits, a) == {lane \in DOMAIN hits : a \in AssetsOf(hits[lane])}
Contribution(hits, a) ==
  LET share(lane) == IF a \in AssetsOf(hits[lane]) THEN Weight((CHOOSE r \in hits[lane] : r.item.asset = a).rank) ELSE 0
  IN share("same_step") + share("upstream_route") + share("shared_resource") + share("global_semantic")

\* What a lane adds to the selection S: its hits from the best, until the
\* selection holds its minimum or is full.
LaneShare(hits, S, lane, top) ==
  LET with(n) == S \union AssetsOf(Take(hits[lane], n))
      enough(n) == Cardinality(with(n) \intersect AssetsOf(hits[lane])) >= LaneMinimum
      stops == {n \in 1 .. Cardinality(hits[lane]) : enough(n) \/ Cardinality(with(n)) >= top}
  IN IF Cardinality(S) >= top THEN S
     ELSE IF stops # {} THEN with(Min(stops)) ELSE S \union AssetsOf(hits[lane])

\* A bug: no lane has a share, the best contributions win.
SharedSelectionFree(hits, top) == {}

\* The lanes take their shares one after another.
SharedSelection(hits, top) ==
  LET same == LaneShare(hits, {}, "same_step", top)
      upstream == LaneShare(hits, same, "upstream_route", top)
      resource == LaneShare(hits, upstream, "shared_resource", top)
  IN LaneShare(hits, resource, "global_semantic", top)

ByContribution(hits, S) ==
  Ranked(S, LAMBDA a, b : \/ Contribution(hits, a) > Contribution(hits, b)
                          \/ Contribution(hits, a) = Contribution(hits, b) /\ a < b)

FuseLanes(hits, top) ==
  LET all == UNION {AssetsOf(hits[lane]) : lane \in DOMAIN hits}
      shared == SharedSelection(hits, top)
      filled == shared \union Items(Take(ByContribution(hits, all \ shared), top - Cardinality(shared)))
      variants(a) == {h \in UNION {Items(hits[lane]) : lane \in DOMAIN hits} : h.asset = a}
      best(a) == CHOOSE h \in variants(a) : \A k \in variants(a) : k.score <= h.score
  IN {[r EXCEPT !.item = [best(r.item) EXCEPT !.lanes = LanesWith(hits, r.item)]] : r \in ByContribution(hits, filled)}

-----------------------------------------------------------------------------
(* The retriever that the runtime builds.                                  *)

\* Only hybrid retrieval has a reranker.
ValidSetting(setting) == setting.rerank => setting.hybrid

DocumentType ==
  [historical_match |-> "RCA_CASE", procedure_guidance |-> "SOP", engineering_note_lookup |-> "ENGINEERING_NOTE"]

\* Only the causal scope knows the time of the detection.
PlanOf(obs, facets, setting) ==
  [types |-> {DocumentType[obs.kind]}, facets |-> facets, until |-> IF setting.causal THEN obs.at ELSE Forever]

Retrieve(fab, obs, plan, setting, top) ==
  IF setting.causal THEN FuseLanes(LaneHits(fab, obs, plan, setting), top) ELSE Search(fab.docs, plan, setting, top)

CrossScore(fab, h) == (CHOOSE d \in fab.docs : d.id = h.doc).cross

\* The reranker orders more candidates by its own score and cuts them to size.
Rerank(fab, hits, top) ==
  LET above(h, k) == \/ CrossScore(fab, h.item) > CrossScore(fab, k.item)
                     \/ CrossScore(fab, h.item) = CrossScore(fab, k.item) /\ h.rank < k.rank
  IN Take({[r EXCEPT !.item = r.item.item] : r \in Ranked(hits, above)}, top)

\* What the reranker sees are more candidates than the query asks for.
RetrieveSettled(fab, obs, plan, setting, top) ==
  LET settled(hits) == IF setting.rerank THEN Rerank(fab, hits, top) ELSE hits
  IN settled(Retrieve(fab, obs, plan, setting, IF setting.rerank THEN Max({top, CandidateK}) ELSE top))

-----------------------------------------------------------------------------
(* Its users.                                                              *)

\* The adapter of the Tool: hits without a confirmed case are dropped, the order
\* of the others is kept.
CasesOf(fab, obs, setting) ==
  LET plan == PlanOf(obs, Facet("module", obs.module) \union Facet("equipment_type", obs.equipmentType), setting)
  IN [plan |-> plan, hits |-> {r \in RetrieveSettled(fab, obs, plan, setting, TopK) : r.item.asset \in fab.cases}]

KnowledgeEvidence(hits) ==
  IF hits = {} THEN Ev(<<"knowledge_no_match">>, "DATA_MISSING", {}) ELSE Ev(<<"knowledge_match">>, "HISTORICAL_CASE_MATCH", {})

\* retrieve_similar_case
SimilarCases(fab, obs, setting) ==
  LET told(answer) ==
        [obs |-> obs, plan |-> answer.plan, hits |-> answer.hits, evidence |-> {KnowledgeEvidence(answer.hits)},
         cites |-> IF answer.hits = {} THEN {<<"knowledge_no_match">>} ELSE {}]
  IN told(CasesOf(fab, obs, setting))

\* A question may name a type of document, but only that of its kind.
Answerable(question) ==
  question.kind \in DOMAIN DocumentType /\ question.type \in {None, DocumentType[question.kind]}

\* An engineer's lookup has no tables of a fab to widen its search with, and
\* its answer is a reference, never Evidence.
Lookup(fab, question, setting) ==
  LET obs == [kind |-> question.kind, limit |-> question.limit, lot |-> None, op |-> question.op,
              module |-> question.module, equipmentType |-> question.equipmentType, at |-> question.at]
      facets == Facet("module", obs.module) \union Facet("equipment_type", obs.equipmentType) \union Facet("operation", obs.op)
      plan == PlanOf(obs, facets, setting)
  IN [obs |-> obs, plan |-> plan, hits |-> RetrieveSettled(fab, obs, plan, setting, TopK), evidence |-> {}, cites |-> {}]
=============================================================================
