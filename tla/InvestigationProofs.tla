------------------------ MODULE InvestigationProofs ------------------------
(***************************************************************************)
(* The safety of an investigation, for every set of goals, Questions and   *)
(* Evidence gaps, every number of Lanes and every limit: whichever loop    *)
(* runs it, what it spends, what it repeats and what it concludes.         *)
(*                                                                         *)
(* IInv is inductive.  BooksOK counts the Actions and the Tool calls,      *)
(* FactsEarned and OrderKept tie what is known to the Actions that were    *)
(* executed, and in which order; from them follows what a stop may claim.  *)
(***************************************************************************)
EXTENDS Investigation, FiniteSetTheorems, TLAPS

\* The books of a run: one entry per executed Action, within the Action and Tool budgets.
BooksOK == IsFiniteSet(done) /\ WorkIsBounded /\ steps <= goal.maxSteps

\* What is known was found out by an Action, and a Question that no Action can answer
\* is never open.
FactsEarned ==
  /\ mes.exposure => "mes" \in Agents
  /\ verdicts # <<>> <=> Tried(REASON)
  /\ gaps # {} => Tried(REASON)
  /\ supported # {} \/ missing # {} => done # {}
  /\ \A q \in Unsupported : questions[q] # "open"

\* No Action was executed before what it requires had been found, and a root cause was
\* reasoned about only after the Lots of the shared exposure had been compared.
OrderKept ==
  /\ \A k \in Actions : Tried(k) => Requires[k] \subseteq Agents
  /\ goal.intent = "root_cause" /\ Tried(REASON) => Tried(VALIDATE)

\* A level and a reason are there only once the run has stopped.
ConcludesAtEnd == pc # "stopped" => level = "none" /\ reason = "none"

IInv == TypeOK /\ BooksOK /\ FactsEarned /\ OrderKept /\ ConcludesAtEnd
          /\ ClosedByEvidence /\ ConclusionIsEarned

\* How a step may treat the Questions: the planner closes one only when all the Evidence
\* it asks for is there, and opens none that no Action can answer.
QuestionsFollow ==
  /\ questions' \in [Questions -> {"absent", "open", "closed", "unavailable"}]
  /\ \A q \in Unsupported : questions[q] # "open" => questions'[q] # "open"
  /\ mode = "llm" => \A q \in Questions :
       questions'[q] = "closed" => questions[q] = "closed" \/ Lacking(q) = {}

---------------------------------------------------------------------------
(* The Actions and the agents that execute them.                           *)

\* An agent has a Finding exactly when one of its Actions was executed.
LEMMA AgentTried ==
  ASSUME TypeOK
  PROVE  /\ "mes" \in Agents <=> Tried(EXPOSE)
         /\ "fdc" \in Agents <=> Tried(FDC)
         /\ "defect" \in Agents <=> Tried(INSPECT) \/ Tried(VALIDATE)
         /\ "knowledge" \in Agents <=> Tried(HISTORY)
         /\ "rca" \in Agents <=> Tried(REASON)
<1> USE DEF INSPECT, VALIDATE, EXPOSE, FDC, HISTORY, REASON
<1>1. \A a \in done : a[1] \in Actions
  BY DEF TypeOK
<1>2. \A k \in Actions : AgentOf[k] = CASE k \in {INSPECT, VALIDATE} -> "defect"
                                        [] k = EXPOSE                -> "mes"
                                        [] k = FDC                   -> "fdc"
                                        [] k = HISTORY               -> "knowledge"
                                        [] k = REASON                -> "rca"
  BY DEF AgentOf
<1>3. \A x : x \in Agents <=> \E a \in done : x = AgentOf[a[1]]
  BY DEF Agents
<1>4. QED BY <1>1, <1>2, <1>3 DEF Tried, Actions

\* What each Action requires (required_finding_agents).
LEMMA RequiresOf ==
  /\ Requires[INSPECT] = {} /\ Requires[EXPOSE] = {}
  /\ Requires[VALIDATE] = {"mes", "defect"} /\ Requires[FDC] = {"mes"}
  /\ Requires[HISTORY] = {"mes", "fdc", "defect"} /\ Requires[REASON] = {"mes", "fdc", "defect"}
BY DEF Requires, Actions, INSPECT, VALIDATE, EXPOSE, FDC, HISTORY, REASON

\* The least number of a set of numbers up to six.
LEMMA MinOfFew ==
  ASSUME NEW S \in SUBSET (1 .. 6), S # {}
  PROVE  Min(S) \in S /\ \A n \in S : Min(S) <= n
<1>1. \A n \in S : n \in {1, 2, 3, 4, 5, 6}
  OBVIOUS
<1>2. CASE \E m \in S : \A n \in S : m <= n
  BY <1>2 DEF Min
<1>3. CASE ~\E m \in S : \A n \in S : m <= n
  <2>1. 1 \notin S
    BY <1>1, <1>3
  <2>2. 2 \notin S
    BY <1>1, <1>3, <2>1
  <2>3. 3 \notin S
    BY <1>1, <1>3, <2>1, <2>2
  <2>4. 4 \notin S
    BY <1>1, <1>3, <2>1, <2>2, <2>3
  <2>5. 5 \notin S
    BY <1>1, <1>3, <2>1, <2>2, <2>3, <2>4
  <2>6. 6 \notin S
    BY <1>1, <1>3, <2>1, <2>2, <2>3, <2>4, <2>5
  <2>7. QED BY <1>1, <2>1, <2>2, <2>3, <2>4, <2>5, <2>6
<1>4. QED BY <1>2, <1>3

\* The lesser of two numbers.
LEMMA MinOfTwo ==
  ASSUME NEW a \in Nat, NEW b \in Nat
  PROVE  Min({a, b}) \in {a, b} /\ Min({a, b}) <= a /\ Min({a, b}) <= b
<1>1. \E m \in {a, b} : \A n \in {a, b} : m <= n
  OBVIOUS
<1>2. QED BY <1>1 DEF Min

\* The first unmet need of a list of one and of two.
LEMMA FirstOfOne ==
  ASSUME NEW a, NEW x \in BOOLEAN
  PROVE  FirstOf(<< <<a, x>> >>) = IF x THEN a ELSE "none"
<1> DEFINE needs == << <<a, x>> >>
           unmet == {i \in DOMAIN needs : needs[i][2]}
<1>1. unmet \in SUBSET (1 .. 6) /\ (unmet # {} <=> x)
  OBVIOUS
<1>2. QED BY <1>1, MinOfFew DEF FirstOf

LEMMA FirstOfTwo ==
  ASSUME NEW a, NEW b, NEW x \in BOOLEAN, NEW y \in BOOLEAN
  PROVE  FirstOf(<< <<a, x>>, <<b, y>> >>) = IF x THEN a ELSE IF y THEN b ELSE "none"
<1> DEFINE needs == << <<a, x>>, <<b, y>> >>
           unmet == {i \in DOMAIN needs : needs[i][2]}
<1>1. unmet \in SUBSET (1 .. 6) /\ (unmet # {} <=> x \/ y) /\ (1 \in unmet <=> x)
  OBVIOUS
<1>2. QED BY <1>1, MinOfFew DEF FirstOf

\* The order in which the policy wants the Actions of a root cause.
LEMMA RootCauseOrder ==
  ASSUME TypeOK
  PROVE  RootCauseNext = IF "mes" \notin Agents /\ ~goal.lot THEN EXPOSE
                         ELSE IF "defect" \notin Agents THEN INSPECT
                         ELSE IF "mes" \notin Agents THEN EXPOSE
                         ELSE IF ~Tried(VALIDATE) THEN VALIDATE
                         ELSE IF "fdc" \notin Agents THEN FDC
                         ELSE IF "rca" \notin Agents THEN REASON ELSE "none"
<1> DEFINE x == "mes" \notin Agents /\ ~goal.lot
           y == "defect" \notin Agents
           z == "mes" \notin Agents
           u == ~Tried(VALIDATE)
           v == "fdc" \notin Agents
           w == "rca" \notin Agents
           needs == << <<EXPOSE, x>>, <<INSPECT, y>>, <<EXPOSE, z>>, <<VALIDATE, u>>, <<FDC, v>>, <<REASON, w>> >>
           unmet == {i \in DOMAIN needs : needs[i][2]}
<1>1. RootCauseNext = FirstOf(needs)
  BY DEF RootCauseNext
<1>2. /\ x \in BOOLEAN /\ y \in BOOLEAN /\ z \in BOOLEAN
      /\ u \in BOOLEAN /\ v \in BOOLEAN /\ w \in BOOLEAN
  BY DEF Tried
<1>3. SUFFICES FirstOf(needs) = IF x THEN EXPOSE ELSE IF y THEN INSPECT ELSE IF z THEN EXPOSE
                                ELSE IF u THEN VALIDATE ELSE IF v THEN FDC ELSE IF w THEN REASON ELSE "none"
  BY <1>1
<1> HIDE DEF x, y, z, u, v, w
<1>4. DOMAIN needs = 1 .. 6
  OBVIOUS
<1>5. /\ 1 \in unmet <=> x
      /\ 2 \in unmet <=> y
      /\ 3 \in unmet <=> z
      /\ 4 \in unmet <=> u
      /\ 5 \in unmet <=> v
      /\ 6 \in unmet <=> w
  BY <1>2
<1>6. unmet \in SUBSET (1 .. 6)
  BY <1>4
<1>7. unmet = {} => ~x /\ ~y /\ ~z /\ ~u /\ ~v /\ ~w
  BY <1>5
<1>8. CASE unmet = {}
  BY <1>7, <1>8 DEF FirstOf
<1>9. CASE unmet # {}
  <2>1. FirstOf(needs) = needs[Min(unmet)][1]
    BY <1>9 DEF FirstOf
  <2>2. Min(unmet) \in unmet /\ \A n \in unmet : Min(unmet) <= n
    BY <1>6, <1>9, MinOfFew
  <2> DEFINE first == Min(unmet)
  <2>3. first \in {1, 2, 3, 4, 5, 6}
    BY <1>4, <1>6, <2>2
  <2> HIDE DEF first, unmet
  <2>4. /\ first = 1 => x
        /\ first = 2 => ~x /\ y
        /\ first = 3 => ~x /\ ~y /\ z
        /\ first = 4 => ~x /\ ~y /\ ~z /\ u
        /\ first = 5 => ~x /\ ~y /\ ~z /\ ~u /\ v
        /\ first = 6 => ~x /\ ~y /\ ~z /\ ~u /\ ~v /\ w
    BY <1>5, <2>2 DEF first
  <2>5. FirstOf(needs) = needs[first][1]
    BY <2>1 DEF first
  <2>6. QED BY <2>3, <2>4, <2>5
<1>10. QED BY <1>8, <1>9

\* The policy names an Action it has what it needs for, and finds nothing left to do only
\* after what its goal asks for was done.
LEMMA WantedFits ==
  ASSUME TypeOK
  PROVE  /\ Wanted \in Actions \cup {"none"}
         /\ Wanted = VALIDATE => {"mes", "defect"} \subseteq Agents
         /\ Wanted \in {HISTORY, REASON} => {"mes", "fdc", "defect"} \subseteq Agents
         /\ Wanted = REASON => Tried(VALIDATE)
         /\ Wanted = "none" => done # {}
         /\ Wanted = "none" /\ goal.intent = "root_cause" => Tried(VALIDATE) /\ Tried(REASON)
<1> DEFINE next == IF "mes" \notin Agents /\ ~goal.lot THEN EXPOSE
                   ELSE IF "defect" \notin Agents THEN INSPECT
                   ELSE IF "mes" \notin Agents THEN EXPOSE
                   ELSE IF ~Tried(VALIDATE) THEN VALIDATE
                   ELSE IF "fdc" \notin Agents THEN FDC
                   ELSE IF "rca" \notin Agents THEN REASON ELSE "none"
<1>1. RootCauseNext = next
  BY RootCauseOrder
<1>2. {INSPECT, VALIDATE, EXPOSE, FDC, HISTORY, REASON} = Actions
  BY DEF Actions
<1>3. /\ goal.intent \in Intents /\ goal.context \in BOOLEAN
      /\ \A x \in {"mes", "fdc", "defect", "rca", "knowledge"} : x \in Agents => done # {}
  BY DEF TypeOK, GoalType, Agents
<1>4. /\ FirstOf(<< <<EXPOSE, "mes" \notin Agents>> >>) = IF "mes" \notin Agents THEN EXPOSE ELSE "none"
      /\ FirstOf(<< <<HISTORY, "knowledge" \notin Agents>> >>) = IF "knowledge" \notin Agents THEN HISTORY ELSE "none"
      /\ FirstOf(<< <<EXPOSE, "mes" \notin Agents /\ ~goal.context>>, <<FDC, "fdc" \notin Agents>> >>)
           = IF "mes" \notin Agents /\ ~goal.context THEN EXPOSE ELSE IF "fdc" \notin Agents THEN FDC ELSE "none"
  <2> DEFINE x == "mes" \notin Agents
             y == "knowledge" \notin Agents
             u == "mes" \notin Agents /\ ~goal.context
             v == "fdc" \notin Agents
  <2>1. x \in BOOLEAN /\ y \in BOOLEAN /\ u \in BOOLEAN /\ v \in BOOLEAN
    OBVIOUS
  <2>2. /\ FirstOf(<< <<EXPOSE, x>> >>) = IF x THEN EXPOSE ELSE "none"
        /\ FirstOf(<< <<HISTORY, y>> >>) = IF y THEN HISTORY ELSE "none"
        /\ FirstOf(<< <<EXPOSE, u>>, <<FDC, v>> >>) = IF u THEN EXPOSE ELSE IF v THEN FDC ELSE "none"
    <3> HIDE DEF x, y, u, v
    <3>1. QED BY <2>1, FirstOfOne, FirstOfTwo
  <2>3. QED BY <2>2
<1>5. CASE goal.intent = "impact_scope"
  <2>1. Wanted = IF "mes" \notin Agents THEN EXPOSE ELSE "none"
    BY <1>4, <1>5 DEF Wanted
  <2>2. QED BY <1>2, <1>3, <1>5, <2>1 DEF INSPECT, VALIDATE, EXPOSE, FDC, HISTORY, REASON
<1>6. CASE goal.intent = "spc_check"
  <2>1. Wanted = IF "mes" \notin Agents /\ ~goal.context THEN EXPOSE ELSE IF "fdc" \notin Agents THEN FDC ELSE "none"
    BY <1>4, <1>6 DEF Wanted
  <2>2. QED BY <1>2, <1>3, <1>6, <2>1 DEF INSPECT, VALIDATE, EXPOSE, FDC, HISTORY, REASON
<1>7. CASE goal.intent = "historical_lookup" /\ {"mes", "fdc", "defect"} \subseteq Agents
  <2>1. Wanted = IF "knowledge" \notin Agents THEN HISTORY ELSE "none"
    BY <1>4, <1>7 DEF Wanted
  <2>2. QED BY <1>2, <1>3, <1>7, <2>1 DEF INSPECT, VALIDATE, EXPOSE, FDC, HISTORY, REASON
<1>8. CASE /\ goal.intent \notin {"impact_scope", "spc_check"}
            /\ ~(goal.intent = "historical_lookup" /\ {"mes", "fdc", "defect"} \subseteq Agents)
  <2>1. Wanted = next
    BY <1>1, <1>8 DEF Wanted
  <2>2. next = "none" => "rca" \in Agents /\ Tried(VALIDATE)
    BY DEF INSPECT, VALIDATE, EXPOSE, FDC, HISTORY, REASON
  <2>3. QED BY <1>2, <1>3, <2>1, <2>2, AgentTried DEF INSPECT, VALIDATE, EXPOSE, FDC, HISTORY, REASON
<1>9. QED BY <1>5, <1>6, <1>7, <1>8

---------------------------------------------------------------------------
(* What the steps of both loops have in common.                            *)

\* An Action that is new, that has what it requires and that spends no more than is left
\* preserves the invariant, whatever it finds out.
LEMMA RecordKeeps ==
  ASSUME IInv, pc = "run",
         NEW k \in Actions, NEW scope \in {"goal"} \cup Lanes, NEW gap \in Gaps \cup {"none"},
         NEW calls \in Nat, NEW targets,
         <<k, scope, gap>> \notin done, ~BudgetGone, calls <= Remaining,
         Requires[k] \subseteq Agents,
         k = REASON /\ goal.intent = "root_cause" => Tried(VALIDATE),
         RecordFinding(k, scope, gap, calls), ResolveLinks(k, targets),
         UNCHANGED <<goal, mode, pc, ending>>,
         attempt' \in 1 .. OutputAttempts, QuestionsFollow
  PROVE  IInv'
<1>1. TypeOK /\ BooksOK /\ FactsEarned /\ OrderKept /\ ConcludesAtEnd /\ ClosedByEvidence
  BY DEF IInv
<1>2. done' = done \cup {<<k, scope, gap>>} /\ steps' = steps + 1 /\ tools' = tools + calls
  BY DEF RecordFinding
<1>3. \A x : Tried(x)' <=> Tried(x) \/ x = k
  BY <1>2 DEF Tried
<1>4. Agents' = Agents \cup {AgentOf[k]}
  BY <1>2 DEF Agents
<1>5. /\ mes' \in [affected : BOOLEAN, exposure : BOOLEAN]
      /\ mes'.exposure => mes.exposure \/ k = EXPOSE
  BY <1>1 DEF RecordFinding, Exposures, TypeOK
<1>6. /\ verdicts' \in Seq({"supported", "inconclusive"})
      /\ gaps' \subseteq Gaps
      /\ k = REASON => verdicts' # <<>>
      /\ k # REASON => verdicts' = verdicts /\ gaps' = gaps
  <2>1. CASE k = REASON
    <3>1. PICK v \in {"supported", "inconclusive"} : verdicts' = Append(verdicts, v)
      BY <2>1 DEF RecordFinding
    <3>2. verdicts' \in Seq({"supported", "inconclusive"}) /\ Len(verdicts') = Len(verdicts) + 1
      BY <1>1, <3>1 DEF TypeOK
    <3>3. verdicts' # <<>>
      BY <1>1, <3>2 DEF TypeOK
    <3>4. QED BY <2>1, <3>2, <3>3 DEF RecordFinding
  <2>2. CASE k # REASON
    BY <1>1, <2>2 DEF RecordFinding, TypeOK
  <2>3. QED BY <2>1, <2>2
<1>7. /\ supported \subseteq supported'
      /\ missing' \subseteq Questions /\ noGain' \in Nat
  BY <1>1 DEF ResolveLinks, Answerable, TypeOK
<1>8. TypeOK'
  <2>1. goal' \in GoalType /\ goal'.lanes \subseteq Lanes
    BY <1>1 DEF TypeOK, GoalType
  <2>2. lanes' \subseteq Lanes
    BY <1>1, <2>1 DEF RecordFinding, TypeOK
  <2>3. match' \in BOOLEAN
    BY <1>1 DEF RecordFinding, TypeOK
  <2>4. done' \subseteq Actions \X ({"goal"} \cup Lanes) \X (Gaps \cup {"none"})
    BY <1>1, <1>2 DEF TypeOK
  <2>5. steps' \in Nat /\ tools' \in Nat
    BY <1>1, <1>2 DEF TypeOK
  <2>6. QED
    BY <1>1, <1>5, <1>6, <1>7, <2>1, <2>2, <2>3, <2>4, <2>5 DEF TypeOK, QuestionsFollow
<1>9. BooksOK'
  <2>1. IsFiniteSet(done') /\ Cardinality(done') = Cardinality(done) + 1
    BY <1>1, <1>2, FS_AddElement DEF BooksOK
  <2>2. tools' <= goal'.maxTools
    BY <1>1, <1>2 DEF Remaining, BooksOK, WorkIsBounded, ToolBudget, TypeOK, GoalType
  <2>3. steps' <= goal'.maxSteps
    BY <1>1, <1>2 DEF BudgetGone, TypeOK, GoalType
  <2>4. QED
    BY <1>1, <1>2, <2>1, <2>2, <2>3 DEF BooksOK, WorkIsBounded, ToolBudget, NoActionTwice
<1>10. FactsEarned'
  <2>1. AgentOf[EXPOSE] = "mes"
    BY DEF AgentOf, Actions, INSPECT, VALIDATE, EXPOSE, FDC, HISTORY, REASON
  <2>2. mes'.exposure => "mes" \in Agents'
    BY <1>1, <1>4, <1>5, <2>1 DEF FactsEarned
  <2>3. (verdicts' # <<>> <=> Tried(REASON)') /\ (gaps' # {} => Tried(REASON)')
    BY <1>1, <1>3, <1>6 DEF FactsEarned
  <2>4. done' # {}
    BY <1>2
  <2>5. \A q \in Unsupported : questions'[q] # "open"
    BY <1>1 DEF FactsEarned, QuestionsFollow
  <2>6. QED BY <2>2, <2>3, <2>4, <2>5 DEF FactsEarned
<1>11. OrderKept'
  BY <1>1, <1>3, <1>4 DEF OrderKept
<1>12. ClosedByEvidence'
  BY <1>1, <1>7 DEF ClosedByEvidence, QuestionsFollow, Lacking
<1>13. ConcludesAtEnd' /\ ConclusionIsEarned'
  BY <1>1 DEF ConcludesAtEnd, ConclusionIsEarned, SupportedIsEarned, StopIsHonest, ending
<1>14. QED BY <1>8, <1>9, <1>10, <1>11, <1>12, <1>13 DEF IInv

\* A step that executes and concludes nothing preserves the invariant: an error, an answer
\* that is asked for again, or the policy taking over.
LEMMA RestKeeps ==
  ASSUME IInv, pc = "run",
         tools' \in Nat, tools' <= goal.maxTools,
         UNCHANGED <<goal, steps, done, findings, links, questions, ending>>,
         attempt' \in 1 .. OutputAttempts,
         mode' \in {mode, "fallback"}, pc' \in {"run", "failed"}
  PROVE  IInv'
<1>1. TypeOK /\ BooksOK /\ FactsEarned /\ OrderKept /\ ConcludesAtEnd /\ ClosedByEvidence
  BY DEF IInv
<1>2. TypeOK'
  BY <1>1 DEF TypeOK, findings, links
<1>3. BooksOK'
  BY <1>1 DEF BooksOK, WorkIsBounded, ToolBudget, NoActionTwice
<1>4. FactsEarned' /\ OrderKept'
  BY <1>1 DEF FactsEarned, OrderKept, Tried, Agents, findings, links
<1>5. ClosedByEvidence'
  BY <1>1 DEF ClosedByEvidence, Lacking, links
<1>6. ConcludesAtEnd' /\ ConclusionIsEarned'
  BY <1>1 DEF ConcludesAtEnd, ConclusionIsEarned, SupportedIsEarned, StopIsHonest, ending
<1>7. QED BY <1>2, <1>3, <1>4, <1>5, <1>6 DEF IInv

\* A stop preserves the invariant if it claims what the run has done.
LEMMA StopKeeps ==
  ASSUME IInv, NEW s, NEW l, NEW r, Stop(s, l, r), QuestionsFollow,
         l = "supported" =>
           /\ \E i \in DOMAIN verdicts : verdicts[i] = "supported"
           /\ {"mes", "fdc", "defect", "rca"} \subseteq Agents
           /\ goal.intent = "root_cause" => Tried(VALIDATE),
         r = "goal_satisfied" =>
           /\ done # {} /\ OpenQuestions' = {}
           /\ goal.intent = "root_cause" /\ mode # "llm" => "rca" \in Agents
  PROVE  IInv'
<1>1. TypeOK /\ BooksOK /\ FactsEarned /\ OrderKept /\ ClosedByEvidence
  BY DEF IInv
<1>2. /\ pc' = "stopped" /\ level' = l /\ reason' = r
      /\ UNCHANGED <<goal, mode, attempt, steps, tools, done, findings, links>>
  BY DEF Stop
<1>3. TypeOK'
  BY <1>1, <1>2 DEF TypeOK, findings, links, QuestionsFollow
<1>4. BooksOK'
  BY <1>1, <1>2 DEF BooksOK, WorkIsBounded, ToolBudget, NoActionTwice
<1>5. FactsEarned' /\ OrderKept'
  BY <1>1, <1>2 DEF FactsEarned, OrderKept, Tried, Agents, findings, links, QuestionsFollow
<1>6. ClosedByEvidence'
  BY <1>1, <1>2 DEF ClosedByEvidence, Lacking, links, QuestionsFollow
<1>7. ConcludesAtEnd'
  BY <1>2 DEF ConcludesAtEnd
<1>8. ConclusionIsEarned'
  <2>1. SupportedIsEarned'
    BY <1>2 DEF SupportedIsEarned, Tried, Agents, findings
  <2>2. StopIsHonest'
    BY <1>2 DEF StopIsHonest, Agents
  <2>3. QED BY <2>1, <2>2 DEF ConclusionIsEarned
<1>9. QED BY <1>3, <1>4, <1>5, <1>6, <1>7, <1>8 DEF IInv

\* What is left of the Tool budget is a number.
LEMMA BudgetLeft ==
  ASSUME IInv
  PROVE  /\ Remaining \in Nat /\ tools \in Nat /\ tools + Remaining = goal.maxTools
         /\ goal.maxTools \in Nat
BY DEF IInv, TypeOK, BooksOK, WorkIsBounded, ToolBudget, Remaining, GoalType

\* An error after no Tool call or after all that were priced stays within the budget.
LEMMA FailKeeps ==
  ASSUME IInv, pc = "run", NEW cost \in Nat, cost <= Remaining, Fail(cost)
  PROVE  IInv'
<1>1. tools' \in Nat /\ tools' <= goal.maxTools
  BY BudgetLeft DEF Fail
<1>2. attempt' \in 1 .. OutputAttempts
  BY DEF Fail, IInv, TypeOK
<1>3. QED BY <1>1, <1>2, RestKeeps DEF Fail

\* The agents never make more calls than the Action was priced at.
LEMMA CallsFit ==
  ASSUME IInv, NEW k \in Actions
  PROVE  Cost(k) \in Nat /\ \A calls \in Calls(k) : calls \in Nat /\ calls <= Cost(k)
BY DEF Cost, Calls, INSPECT, VALIDATE, EXPOSE, FDC, HISTORY, REASON

\* A Specialist may spend what is left, and no more.
LEMMA AllowanceFits ==
  ASSUME IInv, NEW k
  PROVE  /\ Allowance(k) \in Nat /\ Allowance(k) <= Remaining
         /\ \A calls \in LlmCalls(k) : calls \in Nat /\ calls <= Remaining
<1>1. MaxSpecialistCalls \in Nat /\ Remaining \in Nat
  BY LimitAssumption, BudgetLeft
<1>2. LET least == Min({MaxSpecialistCalls, Remaining}) IN least \in Nat /\ least <= Remaining
  BY <1>1, MinOfTwo
<1>3. Allowance(k) \in Nat /\ Allowance(k) <= Remaining
  BY <1>1, <1>2 DEF Allowance
<1>4. QED BY <1>1, <1>3 DEF LlmCalls

\* Questions that are left alone are treated well.
LEMMA QuestionsRest ==
  ASSUME IInv, UNCHANGED questions
  PROVE  QuestionsFollow
BY DEF IInv, TypeOK, QuestionsFollow

\* The updates of a model are about Questions that are open and settled.
LEMMA UpdatesFollow ==
  ASSUME IInv, NEW targets, NEW u \in Updates(targets)
  PROVE  /\ u \in [Questions -> {"absent", "open", "closed", "unavailable"}]
         /\ \A q \in Questions : \/ u[q] = questions[q]
                                 \/ q \in OpenQuestions /\ u[q] = "closed" /\ Lacking(q) = {}
                                 \/ q \in OpenQuestions /\ u[q] = "unavailable" /\ q \in missing
<1>1. questions \in [Questions -> {"absent", "open", "closed", "unavailable"}]
  BY DEF IInv, TypeOK
<1> DEFINE free == OpenQuestions \ targets
<1>2. PICK U \in SUBSET {q \in free : Lacking(q) = {}}, V \in SUBSET (free \cap missing) :
        u = [q \in Questions |-> IF q \in U THEN "closed"
                                 ELSE IF q \in V THEN "unavailable" ELSE questions[q]]
  BY DEF Updates
<1>3. QED BY <1>1, <1>2

\* So are the ones that Python makes itself.
LEMMA PythonUpdatesFollow ==
  ASSUME IInv
  PROVE  /\ PythonUpdates \in [Questions -> {"absent", "open", "closed", "unavailable"}]
         /\ \A q \in Questions :
              PythonUpdates[q] = IF q \notin Settled THEN questions[q]
                                 ELSE IF Lacking(q) = {} THEN "closed" ELSE "unavailable"
<1>1. questions \in [Questions -> {"absent", "open", "closed", "unavailable"}]
  BY DEF IInv, TypeOK
<1>2. QED BY <1>1 DEF PythonUpdates

---------------------------------------------------------------------------
(* The actions.                                                            *)

\* The initial state has spent, found and concluded nothing.
LEMMA InvestigationInit == Init => IInv
<1> SUFFICES ASSUME Init
             PROVE  IInv
  OBVIOUS
<1>1. TypeOK
  <2>1. goal \in GoalType /\ 1 \in 1 .. OutputAttempts
    BY GoalAssumption, LimitAssumption DEF Init
  <2>2. questions \in [Questions -> {"absent", "open", "closed", "unavailable"}]
    BY DEF Init
  <2>3. /\ mode \in {"controlled", "llm", "fallback"} /\ attempt \in 1 .. OutputAttempts
        /\ verdicts \in Seq({"supported", "inconclusive"})
    BY <2>1 DEF Init
  <2>4. mes \in [affected : BOOLEAN, exposure : BOOLEAN]
    BY DEF Init, NoLots
  <2>5. /\ steps \in Nat /\ tools \in Nat /\ noGain \in Nat /\ match \in BOOLEAN
        /\ pc \in {"run", "stopped", "failed"}
        /\ done = {} /\ lanes = {} /\ gaps = {} /\ missing = {}
    BY DEF Init
  <2>6. QED BY <2>1, <2>2, <2>3, <2>4, <2>5 DEF TypeOK
<1>2. BooksOK
  BY GoalAssumption, FS_EmptySet DEF Init, BooksOK, WorkIsBounded, ToolBudget, NoActionTwice, GoalType
<1>3. FactsEarned /\ OrderKept
  BY DEF Init, FactsEarned, OrderKept, Tried, NoLots, Questions
<1>4. ConcludesAtEnd /\ ClosedByEvidence /\ ConclusionIsEarned
  BY DEF Init, ConcludesAtEnd, ClosedByEvidence, ConclusionIsEarned, SupportedIsEarned, StopIsHonest
<1>5. QED BY <1>1, <1>2, <1>3, <1>4 DEF IInv

\* The policy's Action is one it has not tried, and it is executed only within the budget.
LEMMA ControlledKeeps ==
  ASSUME IInv, ControlledAct \/ ControlledActFails
  PROVE  IInv'
<1> DEFINE k == Wanted
<1>1. TypeOK /\ FactsEarned /\ pc = "run"
  BY DEF IInv, ControlledAct, ControlledActFails, Controlled
<1>2. k \in Actions /\ ~Tried(k) /\ Cost(k) <= Remaining /\ ~BudgetGone
  BY <1>1, WantedFits DEF ControlledAct, ControlledActFails, PolicyActs, Affordable
<1>3. CASE ControlledAct
  <2>1. PICK calls \in Calls(k) : RecordFinding(k, "goal", "none", calls)
    BY <1>3 DEF ControlledAct
  <2>2. /\ ResolveLinks(k, {}) /\ Dispatchable(k)
        /\ UNCHANGED <<goal, mode, pc, attempt, questions, ending>>
    BY <1>3 DEF ControlledAct
  <2>3. <<k, "goal", "none">> \notin done
    BY <1>2 DEF Tried
  <2>4. calls \in Nat /\ calls <= Remaining
    BY <1>2, CallsFit, BudgetLeft
  <2>5. Requires[k] \subseteq Agents
    BY <1>1, <1>2, <2>2, WantedFits, RequiresOf
       DEF Actions, Dispatchable, FactsEarned, INSPECT, VALIDATE, EXPOSE, FDC, HISTORY, REASON
  <2>6. k = REASON => Tried(VALIDATE)
    BY <1>1, WantedFits
  <2>7. attempt' \in 1 .. OutputAttempts /\ QuestionsFollow
    BY <1>1, <2>2, QuestionsRest DEF TypeOK
  <2>8. /\ "goal" \in {"goal"} \cup Lanes /\ "none" \in Gaps \cup {"none"}
        /\ UNCHANGED <<goal, mode, pc, ending>>
    BY <2>2
  <2> HIDE DEF k
  <2>9. QED BY <1>1, <1>2, <2>1, <2>2, <2>3, <2>4, <2>5, <2>6, <2>7, <2>8, RecordKeeps
<1>4. CASE ControlledActFails
  <2>1. Fail(Cost(k)) /\ Cost(k) \in Nat
    BY <1>2, <1>4, CallsFit DEF ControlledActFails
  <2>2. QED BY <1>1, <1>2, <2>1, FailKeeps
<1>5. QED BY <1>3, <1>4

\* A root cause was supported only after everything it rests on was looked into.
LEMMA ReasonedInOrder ==
  ASSUME IInv, verdicts # <<>>
  PROVE  /\ {"mes", "fdc", "defect", "rca"} \subseteq Agents
         /\ goal.intent = "root_cause" => Tried(VALIDATE)
<1>1. TypeOK /\ FactsEarned /\ OrderKept
  BY DEF IInv
<1>2. Tried(REASON) /\ REASON \in Actions
  BY <1>1 DEF FactsEarned, Actions
<1>3. QED BY <1>1, <1>2, AgentTried, RequiresOf DEF OrderKept

\* The controlled loop stops with what its goal asked for, or says that it did not get it.
LEMMA ControlledStopKeeps ==
  ASSUME IInv, ControlledStop
  PROVE  IInv'
<1>1. TypeOK /\ pc = "run" /\ mode # "llm"
  BY DEF IInv, ControlledStop, Controlled
<1>2. CASE \E s \in {"budget_exhausted", "blocked"}, r \in {"budget_exhausted", "no_allowed_action"} :
             Stop(s, "inconclusive", r) /\ UNCHANGED questions
  BY <1>2, QuestionsRest, StopKeeps
<1>3. CASE Wanted = "none" /\ Stop("satisfied", SatisfiedLevel, "goal_satisfied") /\ questions' = Reconciled
  <2>1. done # {} /\ (goal.intent = "root_cause" => Tried(VALIDATE) /\ Tried(REASON))
    BY <1>1, <1>3, WantedFits
  <2>2. QuestionsFollow /\ OpenQuestions' = {}
    <3>1. \A q \in Questions : questions'[q] = IF questions[q] = "open" THEN "closed" ELSE questions[q]
      BY <1>3, <2>1 DEF Reconciled
    <3>2. questions' \in [Questions -> {"absent", "open", "closed", "unavailable"}]
      BY <1>1, <1>3, <3>1 DEF Reconciled, TypeOK
    <3>3. QED BY <1>1, <3>1, <3>2 DEF QuestionsFollow, OpenQuestions, Questions
  <2>3. ASSUME SatisfiedLevel = "supported"
        PROVE  /\ \E i \in DOMAIN verdicts : verdicts[i] = "supported"
               /\ verdicts # <<>>
    <3>1. goal.intent = "root_cause" /\ verdicts[1] = "supported"
      BY <1>1, <2>3 DEF SatisfiedLevel, TypeOK, GoalType, Intents
    <3>2. verdicts # <<>>
      BY <2>1, <3>1 DEF IInv, FactsEarned
    <3>3. 1 \in DOMAIN verdicts
      BY <1>1, <3>2 DEF TypeOK
    <3>4. QED BY <3>1, <3>2, <3>3
  <2>4. goal.intent = "root_cause" => "rca" \in Agents
    BY <1>1, <2>1, AgentTried
  <2>5. QED BY <1>3, <2>1, <2>2, <2>3, <2>4, ReasonedInOrder, StopKeeps
<1>4. QED BY <1>2, <1>3 DEF ControlledStop

\* The stops of Python claim nothing.
LEMMA PythonStopKeeps ==
  ASSUME IInv, NothingSupported \/ PythonStop
  PROVE  IInv'
<1>1. CASE NothingSupported
  BY <1>1, QuestionsRest, StopKeeps DEF NothingSupported
<1>2. CASE PythonStop
  <2>1. questions' = PythonUpdates
    BY <1>2 DEF PythonStop
  <2>2. QuestionsFollow
    BY <2>1, PythonUpdatesFollow DEF QuestionsFollow, Settled, Questions
  <2>3. \E s \in {"budget_exhausted", "blocked"}, r \in {"budget_exhausted", "no_allowed_action"} :
          Stop(s, "inconclusive", r)
    BY <1>2 DEF PythonStop
  <2>4. QED BY <2>2, <2>3, StopKeeps
<1>3. QED BY <1>1, <1>2

\* The level of the model is capped by what RCA reasoning found.
LEMMA GateIsCapped ==
  ASSUME NEW proposed \in Proposals, Gate(proposed) = "supported"
  PROVE  \E i \in DOMAIN verdicts : verdicts[i] = "supported"
<1>1. Cap \in {"signal", "candidate", "supported", "inconclusive"}
  BY DEF Cap
<1>2. CASE Cap = "supported"
  BY <1>2 DEF Cap
<1>3. CASE Cap \in {"signal", "candidate"}
  <2>1. proposed \in {"signal", "candidate", "supported"} /\ Strength[proposed] < Strength[Cap]
    BY <1>3, TableAssumption DEF Gate
  <2>2. proposed = "supported"
    BY <1>3, <2>1 DEF Gate
  <2>3. QED BY <1>3, <2>1, <2>2 DEF Strength
<1>4. CASE Cap = "inconclusive"
  BY <1>4 DEF Gate
<1>5. QED BY <1>1, <1>2, <1>3, <1>4

\* A Question that is settled has been found out about.
LEMMA SettledIsEarned ==
  ASSUME IInv, NEW q \in OpenQuestions, Lacking(q) = {} \/ q \in missing
  PROVE  done # {}
<1>1. q \in Questions \ Unsupported
  BY DEF IInv, FactsEarned, OpenQuestions
<1>2. Closure[q] # {}
  BY <1>1 DEF Closure, Questions, Unsupported
<1>3. supported # {} \/ missing # {}
  BY <1>2 DEF Lacking
<1>4. QED BY <1>3 DEF IInv, FactsEarned

\* A stop of the model that claims the goal satisfied leaves no Question open, and some
\* Action has found out what closed them.
LEMMA LlmStopKeeps ==
  ASSUME IInv, LlmStop
  PROVE  IInv'
<1>1. PICK s \in {"satisfied", "blocked"},
           r \in {"goal_satisfied", "no_allowed_action", "data_unavailable"}, l \in Proposals :
        /\ Stop(s, Gate(l), r)
        /\ \/ questions' = PythonUpdates /\ Settled = OpenQuestions
           \/ /\ questions' \in Updates({})
              /\ r = "goal_satisfied" => ~\E q \in Questions : questions'[q] = "open"
  BY DEF LlmStop
<1>2. TypeOK /\ mode = "llm" /\ OpenQuestions # {} /\ pc = "run"
  BY DEF IInv, LlmStop, LlmTurn, LlmMode
<1>3. QuestionsFollow /\ (r = "goal_satisfied" => done # {} /\ OpenQuestions' = {})
  <2>1. CASE questions' = PythonUpdates /\ Settled = OpenQuestions
    <3>1. QuestionsFollow
      BY <2>1, PythonUpdatesFollow DEF QuestionsFollow, Settled, Questions
    <3>2. OpenQuestions' = {}
      BY <2>1, PythonUpdatesFollow DEF OpenQuestions
    <3>3. done # {}
      BY <1>2, <2>1, SettledIsEarned DEF Settled
    <3>4. QED BY <3>1, <3>2, <3>3
  <2>2. CASE /\ questions' \in Updates({})
             /\ r = "goal_satisfied" => ~\E q \in Questions : questions'[q] = "open"
    <3>1. QuestionsFollow
      BY <2>2, UpdatesFollow DEF QuestionsFollow, Questions
    <3>2. ASSUME r = "goal_satisfied"
          PROVE  done # {} /\ OpenQuestions' = {}
      <4>1. PICK q \in OpenQuestions : TRUE
        BY <1>2
      <4>2. q \in Questions /\ questions[q] = "open" /\ questions'[q] # "open"
        BY <2>2, <3>2 DEF OpenQuestions
      <4>3. Lacking(q) = {} \/ q \in missing
        BY <2>2, <4>2, UpdatesFollow
      <4>4. QED BY <2>2, <3>2, <4>3, SettledIsEarned DEF OpenQuestions
    <3>3. QED BY <3>1, <3>2
  <2>3. QED BY <1>1, <2>1, <2>2
<1>4. ASSUME Gate(l) = "supported"
      PROVE  /\ \E i \in DOMAIN verdicts : verdicts[i] = "supported"
             /\ {"mes", "fdc", "defect", "rca"} \subseteq Agents
             /\ goal.intent = "root_cause" => Tried(VALIDATE)
  <2>1. \E i \in DOMAIN verdicts : verdicts[i] = "supported"
    BY <1>4, GateIsCapped
  <2>2. verdicts # <<>>
    BY <1>2, <2>1 DEF TypeOK
  <2>3. QED BY <2>1, <2>2, ReasonedInOrder
<1>5. QED BY <1>1, <1>2, <1>3, <1>4, StopKeeps

\* An Action of the planner is preceded by what it requires.
LEMMA TargetsReady ==
  ASSUME NEW k, LegalTargets(k) # {}
  PROVE  Ready(k)
BY DEF LegalTargets, LegalGaps

\* A step of the planner executes an Action that is new and ready, with what is left.
LEMMA ExecuteKeeps ==
  ASSUME IInv, pc = "run",
         NEW k \in Actions, NEW scope \in {"goal"} \cup Lanes, NEW gap \in Gaps \cup {"none"},
         NEW targets, <<k, scope, gap>> \notin done, Ready(k), ~BudgetGone,
         k = REASON /\ goal.intent = "root_cause" => Tried(VALIDATE),
         Execute(k, scope, gap, targets), UNCHANGED <<goal, mode, pc, ending>>, QuestionsFollow
  PROVE  IInv'
<1>1. PICK calls \in LlmCalls(k) : RecordFinding(k, scope, gap, calls)
  BY DEF Execute
<1>2. calls \in Nat /\ calls <= Remaining
  BY AllowanceFits
<1>3. Requires[k] \subseteq Agents /\ ResolveLinks(k, targets)
  BY DEF Ready, Execute
<1>4. attempt' \in 1 .. OutputAttempts
  BY LimitAssumption DEF Execute
<1>5. QED BY <1>1, <1>2, <1>3, <1>4, RecordKeeps

\* The Action that Python takes itself fills a gap it was not executed for.
LEMMA PythonActKeeps ==
  ASSUME IInv, PythonAct
  PROVE  IInv'
<1>1. PICK k \in OwnChoice, c \in gaps :
        c \in LegalGaps(k) /\ Execute(k, "goal", c, LegalTargets(k))
  BY DEF PythonAct
<1>2. /\ pc = "run" /\ UNCHANGED <<goal, mode, pc, questions, ending>>
      /\ TypeOK /\ FactsEarned /\ OrderKept /\ ~BudgetGone
  BY DEF PythonAct, Deciding, LlmTurn, LlmMode, IInv
<1>3. k \in Actions /\ Ready(k)
  BY <1>1, TargetsReady DEF OwnChoice, LegalActions
<1>4. c \in Gaps /\ <<k, "goal", c>> \notin done
  BY <1>1, <1>2 DEF LegalGaps, TypeOK
<1>5. goal.intent = "root_cause" => Tried(VALIDATE)
  BY <1>1, <1>2 DEF FactsEarned, OrderKept
<1>6. QuestionsFollow
  BY <1>2, QuestionsRest
<1>7. /\ "goal" \in {"goal"} \cup Lanes /\ c \in Gaps \cup {"none"}
      /\ UNCHANGED <<goal, mode, pc, ending>>
  BY <1>2, <1>4
<1>8. QED BY <1>1, <1>2, <1>3, <1>4, <1>5, <1>6, <1>7, ExecuteKeeps

\* So does an Action of the model, and the updates that come with it close what is settled.
LEMMA LlmActKeeps ==
  ASSUME IInv, LlmAct
  PROVE  IInv'
<1>1. PICK a \in ValidActs, new \in SUBSET NewQuestions :
        /\ \A q \in new : questions[q] = "absent"
        /\ Execute(a[1], a[2], a[3], a[4])
        /\ \E u \in Updates(a[4]) :
             questions' = [q \in Questions |-> IF q \in new THEN "open" ELSE u[q]]
  BY DEF LlmAct
<1>2. /\ pc = "run" /\ UNCHANGED <<goal, mode, pc, ending>> /\ TypeOK /\ ~BudgetGone
  BY DEF LlmAct, ModelAsked, Deciding, LlmTurn, LlmMode, IInv
<1> DEFINE k == a[1]
           scope == a[2]
           gap == a[3]
           targets == a[4]
<1>3. k \in Actions /\ scope \in Scopes /\ gap \in gaps \cup {"none"} /\ ValidAct(k, scope, gap, targets)
  BY DEF ValidActs
<1>4. scope \in {"goal"} \cup Lanes /\ gap \in Gaps \cup {"none"}
  BY <1>2, <1>3 DEF Scopes, TypeOK
<1>5. /\ <<k, scope, gap>> \notin done /\ LegalTargets(k) # {}
      /\ k = REASON /\ goal.intent = "root_cause" => Tried(VALIDATE)
  BY <1>3 DEF ValidAct
<1>6. Ready(k)
  BY <1>5, TargetsReady
<1>7. QuestionsFollow
  <2>1. PICK u \in Updates(targets) :
          questions' = [q \in Questions |-> IF q \in new THEN "open" ELSE u[q]]
    BY <1>1
  <2>2. new \subseteq Questions \ Unsupported
    BY TableAssumption
  <2>3. \A q \in Questions : /\ questions'[q] = IF q \in new THEN "open" ELSE u[q]
                             /\ u[q] \in {"absent", "open", "closed", "unavailable"}
    BY <2>1, UpdatesFollow
  <2>4. QED BY <2>1, <2>2, <2>3, UpdatesFollow DEF QuestionsFollow, Questions
<1> HIDE DEF k, scope, gap, targets
<1>8. Execute(k, scope, gap, targets)
  BY <1>1 DEF k, scope, gap, targets
<1>9. QED BY <1>2, <1>3, <1>4, <1>5, <1>6, <1>7, <1>8, ExecuteKeeps

\* A failure of a Specialist costs no more than it was allowed.
LEMMA PlannerFailsKeeps ==
  ASSUME IInv, LlmActFails \/ PythonActFails
  PROVE  IInv'
<1>1. pc = "run"
  BY DEF LlmActFails, PythonActFails, LlmTurn, LlmMode
<1>2. PICK k : Fail(Allowance(k)) \/ Fail(0)
  BY DEF LlmActFails, PythonActFails
<1>3. Allowance(k) \in Nat /\ Allowance(k) <= Remaining /\ 0 \in Nat /\ 0 <= Remaining
  BY AllowanceFits, BudgetLeft
<1>4. QED BY <1>1, <1>2, <1>3, FailKeeps

\* An invalid answer and the hand-over to the policy leave everything as it was.
LEMMA PlannerRests ==
  ASSUME IInv, InvalidOutput \/ FallBack
  PROVE  IInv'
<1>1. /\ pc = "run" /\ UNCHANGED <<goal, pc, steps, tools, done, findings, questions, links, ending>>
      /\ mode' \in {mode, "fallback"}
  BY DEF InvalidOutput, FallBack, LlmTurn, LlmMode
<1>2. attempt' \in 1 .. OutputAttempts
  BY LimitAssumption DEF IInv, TypeOK, InvalidOutput, FallBack
<1>3. tools' \in Nat /\ tools' <= goal.maxTools
  BY <1>1, BudgetLeft
<1>4. QED BY <1>1, <1>2, <1>3, RestKeeps

\* Every step of an investigation preserves the invariant.
LEMMA InvestigationStep == IInv /\ [Next]_vars => IInv'
<1> SUFFICES ASSUME IInv, [Next]_vars
             PROVE  IInv'
  OBVIOUS
<1>1. CASE ControlledAct \/ ControlledActFails
  BY <1>1, ControlledKeeps
<1>2. CASE ControlledStop
  BY <1>2, ControlledStopKeeps
<1>3. CASE NothingSupported \/ PythonStop
  BY <1>3, PythonStopKeeps
<1>4. CASE PythonAct
  BY <1>4, PythonActKeeps
<1>5. CASE LlmAct
  BY <1>5, LlmActKeeps
<1>6. CASE LlmActFails \/ PythonActFails
  BY <1>6, PlannerFailsKeeps
<1>7. CASE LlmStop
  BY <1>7, LlmStopKeeps
<1>8. CASE InvalidOutput \/ FallBack
  BY <1>8, PlannerRests
<1>9. CASE Terminated \/ UNCHANGED vars
  <2>1. UNCHANGED vars
    BY <1>9 DEF Terminated
  <2>2. /\ TypeOK' = TypeOK /\ BooksOK' = BooksOK /\ FactsEarned' = FactsEarned
        /\ OrderKept' = OrderKept /\ ConcludesAtEnd' = ConcludesAtEnd
    BY <2>1 DEF vars, findings, links, ending, TypeOK, BooksOK, WorkIsBounded, ToolBudget, NoActionTwice,
                FactsEarned, OrderKept, ConcludesAtEnd, Tried, Agents
  <2>3. ClosedByEvidence' = ClosedByEvidence /\ ConclusionIsEarned' = ConclusionIsEarned
    BY <2>1 DEF vars, findings, links, ending, ClosedByEvidence, Lacking, ConclusionIsEarned,
                SupportedIsEarned, StopIsHonest, OpenQuestions, Tried, Agents
  <2>4. QED BY <2>2, <2>3 DEF IInv
<1>10. QED BY <1>1, <1>2, <1>3, <1>4, <1>5, <1>6, <1>7, <1>8, <1>9 DEF Next

---------------------------------------------------------------------------
(* The theorems.                                                           *)

\* The invariant holds in every reachable state, under either loop and after a fallback.
THEOREM InvestigationInvariance == Spec => []IInv
BY InvestigationInit, InvestigationStep, PTL DEF Spec

\* The books of a run keep their types.
THEOREM BooksTyped == Spec => []TypeOK
<1>1. IInv => TypeOK
  BY DEF IInv
<1>2. QED BY InvestigationInvariance, <1>1, PTL

\* Whatever the goal allows, no run makes more Tool calls, and no Action is executed
\* twice on one scope for one gap, the two loops together.
THEOREM WorkStaysBounded == Spec => []WorkIsBounded
<1>1. IInv => WorkIsBounded
  BY DEF IInv, BooksOK
<1>2. QED BY InvestigationInvariance, <1>1, PTL

\* Nor does it execute more Actions than its goal allows.
THEOREM ActionsStayBounded == Spec => [](steps <= goal.maxSteps)
<1>1. IInv => steps <= goal.maxSteps
  BY DEF IInv, BooksOK
<1>2. QED BY InvestigationInvariance, <1>1, PTL

\* A supported conclusion and a satisfied goal rest on what the run did, whatever level
\* and whatever stop the model proposed.
THEOREM ConclusionsAreEarned == Spec => []ConclusionIsEarned
<1>1. IInv => ConclusionIsEarned
  BY DEF IInv
<1>2. QED BY InvestigationInvariance, <1>1, PTL

\* The planner closes no Question before every Evidence group it asks for is supported.
THEOREM EvidenceCloses == Spec => []ClosedByEvidence
<1>1. IInv => ClosedByEvidence
  BY DEF IInv
<1>2. QED BY InvestigationInvariance, <1>1, PTL

\* Every Action that was executed had the Findings it requires, whichever loop chose it.
THEOREM NothingOutOfOrder == Spec => []OrderKept
<1>1. IInv => OrderKept
  BY DEF IInv
<1>2. QED BY InvestigationInvariance, <1>1, PTL
=============================================================================
