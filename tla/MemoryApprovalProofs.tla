------------------------ MODULE MemoryApprovalProofs ------------------------
(***************************************************************************)
(* Proofs about MemoryApproval, for any number of calls and engineers. The *)
(* invariant says that the lock serialises the decisions: whoever holds it *)
(* has read what still is the case when it commits.                        *)
(***************************************************************************)
EXTENDS MemoryApproval, TLAPS

\* Only the call that holds the row lock is between its reads and its commit, and what it read
\* has not changed since.
LockOK ==
  \A c \in Call : phase[c] = "locked" =>
    /\ lock = c
    /\ seen[c].status = status
    /\ seen[c].decisions = decisions

\* Ids are stored in the form under which they name their engineer.
IdsNormal ==
  /\ \A c \in Call : Normal[vote[c].engineer] = vote[c].engineer
  /\ \A d \in decisions : Normal[d.engineer] = d.engineer

\* Decisions follow the candidate, and a rejected candidate has its rejection.
DecisionsFit ==
  /\ status = "absent" =>
       decisions = {} /\ \A c \in Call : phase[c] = "idle" /\ told[c] = "nothing"
  /\ status = "rejected" => \E d \in decisions : d.decision = "reject"

\* A page that shows the end of the candidate was read when it had ended.
PageRead ==
  shown.at = "row" /\ shown.page.status \in {"published", "rejected"} =>
    shown.page.status = status

IInv ==
  /\ TypeOK /\ LockOK /\ IdsNormal /\ DecisionsFit /\ PageRead
  /\ TwoEngineers /\ ToldTheTruth

LEMMA InitIInv == Init => IInv
<1> SUFFICES ASSUME Init PROVE IInv
  OBVIOUS
<1> USE ApprovalAssumption
<1>1. TypeOK
  BY DEF Init, TypeOK, Unread, Snapshot, Status, Decision, Identify
<1>2. LockOK /\ DecisionsFit /\ PageRead /\ TwoEngineers
  BY DEF Init, LockOK, DecisionsFit, PageRead, TwoEngineers, Unread
<1>3. IdsNormal
  <2>1. ASSUME NEW c \in Call PROVE Normal[vote[c].engineer] = vote[c].engineer
    <3>1. PICK d \in Decision : vote[c] = [d EXCEPT !.engineer = Identify(d.engineer)]
      BY DEF Init
    <3>2. vote[c].engineer = Normal[d.engineer] /\ d.engineer \in TypedId
      BY <3>1 DEF Decision, Identify
    <3>3. QED BY <3>2
  <2>2. QED BY <2>1 DEF IdsNormal, Init
<1>4. ToldTheTruth
  <2>1. PublicationComplete
    BY DEF Init, PublicationComplete
  <2>2. QED BY <2>1 DEF Init, ToldTheTruth, CallersToldTheTruth, PageIsExplained
<1>5. QED BY <1>1, <1>2, <1>3, <1>4 DEF IInv

\* Steps that leave the candidate and its decisions alone.
LEMMA QuietSteps ==
  ASSUME IInv,
         UNCHANGED <<state, status, decisions, publication, audit, vote>>,
         TypeOK', LockOK', PageRead',
         \A c \in Call : told'[c] = told[c] \/ (told'[c] = "refused" /\ phase[c] = "locked" /\ Refused(c)),
         \A c \in Call : phase[c] = "idle" => phase'[c] = "idle" \/ status # "absent",
         shown' = shown \/ shown'.at = "row"
           \/ (shown.at = "row" /\ shown' = [at |-> "all", page |-> [shown.page EXCEPT !.decisions = decisions]])
  PROVE  IInv'
<1>1. IdsNormal' /\ TwoEngineers'
  BY DEF IInv, IdsNormal, TwoEngineers, TwoApprovals, NeedsProcess, Approvals
<1>2. DecisionsFit'
  BY DEF IInv, DecisionsFit
<1>3. PublicationComplete'
  BY DEF IInv, ToldTheTruth, PublicationComplete
<1>4. CallersToldTheTruth'
  <2> SUFFICES ASSUME NEW c \in Call PROVE
        /\ told'[c] = "recorded" => vote[c] \in decisions
        /\ told'[c] = "refused" =>
             \/ status \in {"published", "rejected"}
             \/ \E d \in decisions : d.engineer = vote[c].engineer
             \/ NeedsProcess /\ vote[c].role # "process_engineer"
    BY DEF CallersToldTheTruth, NeedsProcess
  <2>1. CASE told'[c] = told[c]
    BY <2>1 DEF IInv, ToldTheTruth, CallersToldTheTruth
  <2>2. CASE told'[c] = "refused" /\ phase[c] = "locked" /\ Refused(c)
    <3>1. status # "absent"
      BY <2>2 DEF IInv, DecisionsFit
    <3>2. seen[c].status = status /\ seen[c].decisions = decisions /\ status \in Status
      BY <2>2 DEF IInv, LockOK, TypeOK
    <3>3. QED BY <2>2, <3>1, <3>2 DEF Refused, Status
  <2>3. QED BY <2>1, <2>2
<1>5. PageIsExplained'
  <2>1. CASE shown' = shown
    BY <2>1 DEF IInv, ToldTheTruth, PageIsExplained, TwoApprovals, NeedsProcess, Approvals
  <2>2. CASE shown'.at = "row"
    BY <2>2 DEF PageIsExplained
  <2>3. CASE shown.at = "row" /\ shown' = [at |-> "all", page |-> [shown.page EXCEPT !.decisions = decisions]]
    <3>1. shown.page \in Snapshot
      BY DEF IInv, TypeOK
    <3>2. shown'.page.status = shown.page.status /\ shown'.page.decisions = decisions
      BY <2>3, <3>1 DEF Snapshot
    <3>3. shown.page.status \in {"published", "rejected"} => shown.page.status = status
      BY <2>3 DEF IInv, PageRead
    <3>4. status = "published" => TwoApprovals(decisions)
      BY DEF IInv, TwoEngineers
    <3>5. status = "rejected" => \E d \in decisions : d.decision = "reject"
      BY DEF IInv, DecisionsFit
    <3>6. TwoApprovals(decisions) => TwoApprovals(decisions)'
      BY DEF TwoApprovals, NeedsProcess, Approvals
    <3>7. shown'.page.status = "published" => TwoApprovals(shown.page.decisions)'
      BY <3>2, <3>3, <3>4 DEF TwoApprovals, NeedsProcess, Approvals
    <3>8. QED BY <3>2, <3>3, <3>5, <3>7 DEF PageIsExplained
  <2>4. QED BY <2>1, <2>2, <2>3
<1>6. QED BY <1>1, <1>2, <1>3, <1>4, <1>5 DEF IInv, ToldTheTruth

\* What the transaction that commits knows.
LEMMA CommitFacts ==
  ASSUME IInv, NEW c \in Call, Commit(c)
  PROVE  /\ status = "pending_approval"
         /\ seen[c].decisions = decisions
         /\ decisions = Approvals(decisions)
         /\ vote[c] \in Decision /\ Normal[vote[c].engineer] = vote[c].engineer
         /\ \A d \in decisions : d.engineer # vote[c].engineer
         /\ NextStatus(c) \in {"pending_approval", "published", "rejected"}
         /\ NextStatus(c) = "rejected" <=> vote[c].decision = "reject"
         /\ NextStatus(c) = "published" <=> vote[c].decision = "approve" /\ decisions # {}
<1>1. status = "pending_approval" /\ seen[c].decisions = decisions
  BY DEF IInv, LockOK, Commit, Refused
<1>2. decisions = Approvals(decisions)
  BY <1>1 DEF IInv, TwoEngineers
<1>3. vote[c] \in Decision /\ Normal[vote[c].engineer] = vote[c].engineer
  BY DEF IInv, TypeOK, IdsNormal
<1>4. \A d \in decisions : d.engineer # vote[c].engineer
  BY DEF Commit, Refused
<1>5. vote[c].decision \in {"approve", "reject"}
  BY <1>3 DEF Decision
<1>6. QED BY <1>1, <1>2, <1>3, <1>4, <1>5 DEF NextStatus

LEMMA CommitKeepsRule ==
  ASSUME IInv, NEW c \in Call, Commit(c)
  PROVE  IdsNormal' /\ DecisionsFit' /\ TwoEngineers'
<1> DEFINE d == vote[c]
<1>0. /\ decisions' = decisions \cup {d}
      /\ status' = NextStatus(c)
      /\ vote' = vote /\ state' = state
  BY DEF Commit
<1>1. IdsNormal'
  BY <1>0, CommitFacts DEF IInv, IdsNormal
<1>2. DecisionsFit'
  BY <1>0, CommitFacts DEF DecisionsFit
<1>3. \A a, b \in decisions' : a.engineer = b.engineer => a = b
  BY <1>0, CommitFacts DEF IInv, TwoEngineers
<1>4. ASSUME NextStatus(c) = "rejected" PROVE TwoEngineers'
  BY <1>0, <1>3, <1>4 DEF TwoEngineers
<1>5. ASSUME NextStatus(c) = "pending_approval" PROVE TwoEngineers'
  <2>1. d.decision = "approve" /\ decisions = {}
    BY <1>5, CommitFacts DEF Decision
  <2>2. decisions' = {d} /\ decisions' = Approvals(decisions)'
    BY <2>1, <1>0 DEF Approvals
  <2>3. QED BY <1>0, <1>5, <1>3, <2>2 DEF TwoEngineers
<1>6. ASSUME NextStatus(c) = "published" PROVE TwoEngineers'
  <2>1. d.decision = "approve" /\ decisions # {}
    BY <1>6, CommitFacts
  <2>2. decisions' = Approvals(decisions)'
    BY <2>1, <1>0, CommitFacts DEF Approvals
  <2>3. PICK a \in decisions : TRUE
    BY <2>1
  <2>4. Approvals(decisions) = {a}
    BY <2>3, CommitFacts DEF IInv, TwoEngineers
  <2>5. NeedsProcess => "process_engineer" \in {a.role, d.role}
    BY <2>1, <2>4, CommitFacts DEF Commit, Refused
  <2>6. Normal[a.engineer] = a.engineer /\ Normal[d.engineer] = d.engineer
    BY <2>3, CommitFacts DEF IInv, IdsNormal
  <2>7. a.engineer # d.engineer
    BY <2>3, CommitFacts
  <2>8. a \in Approvals(decisions)' /\ d \in Approvals(decisions)'
    BY <2>2, <2>3, <1>0
  <2>9. TwoApprovals(decisions)'
    BY <2>5, <2>6, <2>7, <2>8, <1>0 DEF TwoApprovals, NeedsProcess, Approvals
  <2>10. QED BY <1>0, <1>6, <1>3, <2>2, <2>9 DEF TwoEngineers
<1>7. QED BY <1>1, <1>2, <1>4, <1>5, <1>6, CommitFacts

LEMMA CommitKeepsTruth ==
  ASSUME IInv, NEW c \in Call, Commit(c)
  PROVE  ToldTheTruth'
<1> DEFINE recorded == {f \in audit : f.action = "recorded"}
<1>0. /\ decisions' = decisions \cup {vote[c]}
      /\ status' = NextStatus(c)
      /\ vote' = vote /\ state' = state /\ shown' = shown
      /\ audit' = audit \cup AuditOf(c)
      /\ publication' = IF NextStatus(c) = "published" THEN Table ELSE publication
  BY DEF Commit
<1>1. PublicationComplete'
  <2>1. publication = {} /\ \A e \in audit : e.action \notin {"published", "rejected"}
    BY CommitFacts DEF IInv, ToldTheTruth, PublicationComplete
  <2>2. publication' = IF status' = "published" THEN Table ELSE {}
    BY <1>0, <2>1
  <2>3. {f \in audit' : f.action = "recorded"}
          = recorded \cup {[action |-> "recorded", engineer |-> vote[c].engineer]}
    BY <1>0 DEF AuditOf
  <2>4. {e.engineer : e \in {f \in audit' : f.action = "recorded"}}
          = {e.engineer : e \in recorded} \cup {vote[c].engineer}
    <3> DEFINE r == [action |-> "recorded", engineer |-> vote[c].engineer]
    <3>1. r.engineer = vote[c].engineer
      OBVIOUS
    <3> HIDE DEF r
    <3>2. {f \in audit' : f.action = "recorded"} = recorded \cup {r}
      BY <2>3 DEF r
    <3>3. {e.engineer : e \in recorded \cup {r}} = {e.engineer : e \in recorded} \cup {r.engineer}
      OBVIOUS
    <3>4. QED BY <3>1, <3>2, <3>3
  <2>5. {e.engineer : e \in recorded} = {d.engineer : d \in decisions}
    BY DEF IInv, ToldTheTruth, PublicationComplete
  <2>6. {d.engineer : d \in decisions'} = {d.engineer : d \in decisions} \cup {vote[c].engineer}
    BY <1>0
  <2>7. ASSUME NEW a \in {"published", "rejected"}
        PROVE  (status' = a) <=> \E e \in audit' : e.action = a
    <3>1. CASE NextStatus(c) = a
      <4>1. [action |-> a, engineer |-> vote[c].engineer] \in AuditOf(c)
        BY <3>1 DEF AuditOf
      <4>2. QED BY <3>1, <4>1, <1>0
    <3>2. CASE NextStatus(c) # a
      BY <3>2, <2>1, <1>0 DEF AuditOf
    <3>3. QED BY <3>1, <3>2
  <2>8. QED BY <2>2, <2>4, <2>5, <2>6, <2>7 DEF PublicationComplete
<1>2. CallersToldTheTruth'
  <2> SUFFICES ASSUME NEW b \in Call PROVE
        /\ told'[b] = "recorded" => vote[b] \in decisions'
        /\ told'[b] = "refused" =>
             \/ status' \in {"published", "rejected"}
             \/ \E d \in decisions' : d.engineer = vote[b].engineer
             \/ NeedsProcess /\ vote[b].role # "process_engineer"
    BY <1>0 DEF CallersToldTheTruth, NeedsProcess
  <2>1. told'[b] = told[b] \/ (b = c /\ told'[b] = "recorded")
    BY DEF Commit, IInv, TypeOK
  <2>2. status # "published" /\ status # "rejected"
    BY CommitFacts
  <2>3. QED BY <1>0, <2>1, <2>2 DEF IInv, ToldTheTruth, CallersToldTheTruth
<1>3. PageIsExplained'
  BY <1>0 DEF IInv, ToldTheTruth, PageIsExplained, TwoApprovals, NeedsProcess, Approvals
<1>4. QED BY <1>1, <1>2, <1>3 DEF ToldTheTruth

LEMMA CommitKeepsRest ==
  ASSUME IInv, NEW c \in Call, Commit(c)
  PROVE  TypeOK' /\ LockOK' /\ PageRead'
<1>1. TypeOK'
  <2>1. decisions' \subseteq Decision /\ status' \in Status /\ publication' \subseteq Table
    BY CommitFacts DEF Commit, IInv, TypeOK, Status
  <2>2. AuditOf(c) \subseteq AuditEvent
    BY CommitFacts DEF AuditOf, AuditEvent, Decision
  <2>3. lock' \in Call \cup {Free} /\ seen' \in [Call -> Snapshot]
    BY DEF Commit, Unlock, IInv, TypeOK, Unread, Snapshot, Status
  <2>4. phase' \in [Call -> {"idle", "asked", "locked", "answered", "unanswered"}]
        /\ told' \in [Call -> {"nothing", "recorded", "refused"}]
    BY DEF Commit, Goto, IInv, TypeOK
  <2>5. QED BY <2>1, <2>2, <2>3, <2>4 DEF Commit, IInv, TypeOK
<1>2. LockOK'
  <2>1. phase[c] = "locked" /\ lock = c
    BY DEF Commit, IInv, LockOK
  <2>2. \A b \in Call : phase'[b] = "locked" => b # c /\ phase[b] = "locked"
    BY <2>1 DEF Commit, Goto, IInv, TypeOK
  <2>3. QED BY <2>1, <2>2 DEF IInv, LockOK
<1>3. PageRead'
  BY CommitFacts DEF Commit, IInv, PageRead
<1>4. QED BY <1>1, <1>2, <1>3

LEMMA NextKeepsIInv == IInv /\ [Next]_vars => IInv'
<1> SUFFICES ASSUME IInv, [Next]_vars PROVE IInv'
  OBVIOUS
<1> USE ApprovalAssumption
<1>1. CASE Create
  <2>1. TypeOK'
    BY <1>1 DEF Create, IInv, TypeOK, Status
  <2>2. status = "absent" /\ decisions = {} /\ \A c \in Call : phase[c] = "idle" /\ told[c] = "nothing"
    BY <1>1 DEF Create, IInv, DecisionsFit
  <2>3. LockOK' /\ IdsNormal' /\ DecisionsFit' /\ PageRead' /\ TwoEngineers'
    BY <1>1, <2>2 DEF Create, IInv, LockOK, IdsNormal, DecisionsFit, PageRead, TwoEngineers, Approvals
  <2>4. PublicationComplete'
    BY <1>1, <2>2 DEF Create, IInv, ToldTheTruth, PublicationComplete
  <2>5. CallersToldTheTruth' /\ PageIsExplained'
    BY <1>1, <2>2 DEF Create, IInv, ToldTheTruth, CallersToldTheTruth, PageIsExplained,
      TwoApprovals, NeedsProcess, Approvals
  <2>6. QED BY <2>1, <2>3, <2>4, <2>5 DEF IInv, ToldTheTruth
<1>2. CASE ReadRow
  <2>1. TypeOK' /\ LockOK' /\ PageRead'
    BY <1>2 DEF ReadRow, IInv, TypeOK, LockOK, PageRead, Snapshot, Decision
  <2>2. QED BY <1>2, <2>1, QuietSteps DEF ReadRow
<1>3. CASE ReadApprovals
  <2>1. TypeOK' /\ LockOK' /\ PageRead'
    BY <1>3 DEF ReadApprovals, IInv, TypeOK, LockOK, PageRead, Snapshot
  <2>2. QED BY <1>3, <2>1, QuietSteps DEF ReadApprovals
<1>4. ASSUME NEW c \in Call, Decide(c) PROVE IInv'
  <2>1. TypeOK' /\ LockOK' /\ PageRead'
    BY <1>4 DEF Decide, Goto, IInv, TypeOK, LockOK, PageRead
  <2>2. QED BY <1>4, <2>1, QuietSteps DEF Decide, Goto, IInv, TypeOK
<1>5. ASSUME NEW c \in Call, LockAndRead(c) PROVE IInv'
  <2>1. status # "absent" /\ \A b \in Call : phase[b] # "locked"
    BY <1>5 DEF LockAndRead, IInv, DecisionsFit, LockOK
  <2>2. TypeOK' /\ LockOK' /\ PageRead'
    BY <1>5, <2>1 DEF LockAndRead, Goto, IInv, TypeOK, LockOK, PageRead, Snapshot
  <2>3. QED BY <1>5, <2>1, <2>2, QuietSteps DEF LockAndRead
<1>6. ASSUME NEW c \in Call, Refuse(c) PROVE IInv'
  <2>1. TypeOK' /\ LockOK' /\ PageRead'
    BY <1>6 DEF Refuse, Goto, Unlock, IInv, TypeOK, LockOK, PageRead, Unread, Snapshot, Status
  <2>2. \A b \in Call : told'[b] = told[b] \/ (b = c /\ told'[b] = "refused")
    BY <1>6 DEF Refuse, IInv, TypeOK
  <2>3. phase[c] = "locked" /\ Refused(c) /\ status # "absent"
    BY <1>6 DEF Refuse, IInv, DecisionsFit
  <2>4. QED BY <1>6, <2>1, <2>2, <2>3, QuietSteps DEF Refuse
<1>7. ASSUME NEW c \in Call, Commit(c) PROVE IInv'
  BY <1>7, CommitKeepsRule, CommitKeepsTruth, CommitKeepsRest DEF IInv
<1>8. ASSUME NEW c \in Call, Abort(c) PROVE IInv'
  <2>1. TypeOK' /\ LockOK' /\ PageRead'
    BY <1>8 DEF Abort, Goto, Unlock, IInv, TypeOK, LockOK, PageRead, Unread, Snapshot, Status
  <2>2. status # "absent"
    BY <1>8 DEF Abort, IInv, DecisionsFit
  <2>3. QED BY <1>8, <2>1, <2>2, QuietSteps DEF Abort
<1>9. CASE UNCHANGED vars
  <2>1. TypeOK' /\ LockOK' /\ PageRead'
    BY <1>9 DEF vars, IInv, TypeOK, LockOK, PageRead
  <2>2. QED BY <1>9, <2>1, QuietSteps DEF vars
<1>10. QED BY <1>1, <1>2, <1>3, <1>4, <1>5, <1>6, <1>7, <1>8, <1>9 DEF Next

\* Nothing is published without the approval of two different engineers, and nothing rejected is
\* published, however the decisions race (_apply_decision under SELECT ... FOR UPDATE).
THEOREM TwoEngineersDecide == Spec => []TwoEngineers
<1>1. IInv => TwoEngineers
  BY DEF IInv
<1>2. QED BY InitIInv, NextKeepsIInv, <1>1, PTL DEF Spec

\* Tables, audit trail, callers and the engineers' page tell of decisions that were made and of
\* the outcome that they led to.
THEOREM EveryoneIsToldTheTruth == Spec => []ToldTheTruth
<1>1. IInv => ToldTheTruth
  BY DEF IInv
<1>2. QED BY InitIInv, NextKeepsIInv, <1>1, PTL DEF Spec

-----------------------------------------------------------------------------
LEMMA InitRefines == Init => Dual!Init
BY DEF Init, Dual!Init, By

LEMMA CommitRefines ==
  ASSUME IInv, NEW c \in Call, Commit(c)
  PROVE  Dual!Next
<1> DEFINE e == Normal[vote[c].engineer]
<1>0. decisions' = decisions \cup {vote[c]} /\ status' = NextStatus(c)
  BY DEF Commit
<1>1. e \in Engineer
  BY CommitFacts DEF Engineer, Decision
<1>2. e \notin By("approve") \cup By("reject")
  <2>1. \A d \in decisions : Normal[d.engineer] # e
    BY CommitFacts DEF IInv, IdsNormal
  <2>2. QED BY <2>1 DEF By
<1>3. CASE vote[c].decision = "reject"
  <2>1. By("reject")' = By("reject") \cup {e} /\ By("approve")' = By("approve")
    BY <1>0, <1>3 DEF By
  <2>2. Dual!Reject(e)
    BY <1>0, <1>2, <1>3, <2>1, CommitFacts DEF Dual!Reject
  <2>3. QED BY <1>1, <2>2 DEF Dual!Next
<1>4. CASE vote[c].decision = "approve"
  <2>1. By("approve")' = By("approve") \cup {e} /\ By("reject")' = By("reject")
    BY <1>0, <1>4 DEF By
  <2>2. By("approve") = {} <=> decisions = {}
    <3>1. decisions = Approvals(decisions)
      BY CommitFacts
    <3>2. By("approve") = {Normal[x.engineer] : x \in Approvals(decisions)}
      BY DEF By, Approvals
    <3>3. QED BY <3>1, <3>2
  <2>3. Dual!Approve(e)
    BY <1>0, <1>2, <1>4, <2>1, <2>2, CommitFacts DEF Dual!Approve
  <2>4. QED BY <1>1, <2>3 DEF Dual!Next
<1>5. QED BY <1>3, <1>4, CommitFacts DEF Decision

LEMMA NextRefines == IInv /\ [Next]_vars => [Dual!Next]_Dual!vars
<1> SUFFICES ASSUME IInv, [Next]_vars PROVE [Dual!Next]_Dual!vars
  OBVIOUS
<1>1. CASE Create
  <2>1. Dual!Open
    BY <1>1 DEF Create, Dual!Open, By
  <2>2. QED BY <2>1 DEF Dual!Next
<1>2. ASSUME NEW c \in Call, Commit(c) PROVE Dual!Next
  BY <1>2, CommitRefines
<1>3. ASSUME UNCHANGED <<status, decisions>> PROVE UNCHANGED Dual!vars
  BY <1>3 DEF Dual!vars, By
<1>4. QED
  BY <1>1, <1>2, <1>3 DEF Next, ReadRow, ReadApprovals, Decide, LockAndRead, Refuse, Abort, vars

\* The locked transactions implement the two-engineer rule as DualControl states it.
THEOREM ApprovalImplementsDualControl == Spec => ImplementsDualControl
<1>1. QED
  BY InitIInv, NextKeepsIInv, InitRefines, NextRefines, PTL
    DEF Spec, ImplementsDualControl, Dual!Spec
=============================================================================
