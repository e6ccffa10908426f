--------------------------- MODULE MemoryApproval ---------------------------
(***************************************************************************)
(* The memory of one completed RCA job (memory.py): the candidate built    *)
(* from its state, the decisions of engineers, each a transaction that     *)
(* locks the candidate's row, and publication with the last of them.       *)
(* Transactions fail and acknowledgements are lost; the page of an engineer*)
(* is read with two SELECTs that see different moments.                    *)
(***************************************************************************)
CONSTANTS
  Call,      \* concurrent POST .../approvals
  TypedId,   \* engineer ids as they are typed
  Normal,    \* strip().upper(): the form under which an id names its engineer
  Free       \* the row lock is not held

ASSUME ApprovalAssumption ==
  /\ Normal \in [TypedId -> TypedId]
  /\ \A i \in TypedId : Normal[Normal[i]] = Normal[i]
  /\ Free \notin Call

Role == {"yield_engineer", "process_engineer"}
Decision == [engineer : TypedId, role : Role, decision : {"approve", "reject"}]
Status == {"absent", "pending_approval", "published", "rejected"}
Table == {"rca_case", "knowledge_document", "knowledge_chunk", "knowledge_index_update"}

VARIABLES
  state,        \* the completed RCAState, as far as build_memory_candidate looks at it
  status,       \* memory_candidate.status
  decisions,    \* the rows of memory_approval
  publication,  \* the tables that have a row of the publication
  audit,        \* the audit events of the decisions
  lock,         \* who holds the row lock
  phase, vote,  \* where each call is, and the approval it carries
  seen,         \* what a transaction has read
  told,         \* what the caller knows
  shown         \* the answer to GET /memory/candidates that is being put together

vars == <<state, status, decisions, publication, audit, lock, phase, vote, seen, told, shown>>

State == [hypotheses : {"none", "ambiguous", "refuted", "supported"},
          improvement : {"missing", "plain", "recipe"}, evidence : BOOLEAN]
Snapshot == [status : Status, decisions : SUBSET Decision]
Unread == [status |-> "absent", decisions |-> {}]
AuditEvent == [action : {"recorded", "published", "rejected"}, engineer : TypedId]

TypeOK ==
  /\ state \in State
  /\ status \in Status
  /\ decisions \subseteq Decision
  /\ publication \subseteq Table
  /\ audit \subseteq AuditEvent
  /\ lock \in Call \cup {Free}
  /\ phase \in [Call -> {"idle", "asked", "locked", "answered", "unanswered"}]
  /\ vote \in [Call -> Decision]
  /\ seen \in [Call -> Snapshot]
  /\ told \in [Call -> {"nothing", "recorded", "refused"}]
  /\ shown \in [at : {"nothing", "row", "all"}, page : Snapshot]

Identify(i) == Normal[i]

Init ==
  /\ state \in State
  /\ status = "absent"
  /\ decisions = {} /\ publication = {} /\ audit = {}
  /\ lock = Free
  /\ phase = [c \in Call |-> "idle"]
  /\ vote \in [Call -> {[d EXCEPT !.engineer = Identify(d.engineer)] : d \in Decision}]
  /\ seen = [c \in Call |-> Unread]
  /\ told = [c \in Call |-> "nothing"]
  /\ shown = [at |-> "nothing", page |-> Unread]

-----------------------------------------------------------------------------
Goto(c, where) == phase' = [phase EXCEPT ![c] = where]

\* build_memory_candidate: one authoritative, supported hypothesis, one Improvement finding with
\* recommendations, and every cited piece of evidence at hand.
Eligible == state.hypotheses = "supported" /\ state.improvement # "missing" /\ state.evidence

NeedsProcess == state.improvement = "recipe"

\* INSERT ... ON CONFLICT (job_id) DO NOTHING: a second call finds the candidate there.
Create ==
  /\ status = "absent"
  /\ Eligible
  /\ status' = "pending_approval"
  /\ UNCHANGED <<state, decisions, publication, audit, lock, phase, vote, seen, told, shown>>

Decide(c) ==
  /\ phase[c] \in {"idle", "unanswered"}
  /\ status # "absent"
  /\ Goto(c, "asked")
  /\ UNCHANGED <<state, status, decisions, publication, audit, lock, vote, seen, told, shown>>

\* A bug: the row is read without FOR UPDATE.
ReadUnlocked(c) ==
  /\ phase[c] = "asked"
  /\ seen' = [seen EXCEPT ![c] = [status |-> status, decisions |-> decisions]]
  /\ Goto(c, "locked")
  /\ UNCHANGED <<state, status, decisions, publication, audit, lock, vote, told, shown>>

\* SELECT ... FOR UPDATE, then the approvals.
LockAndRead(c) ==
  /\ phase[c] = "asked"
  /\ lock = Free
  /\ lock' = c
  /\ seen' = [seen EXCEPT ![c] = [status |-> status, decisions |-> decisions]]
  /\ Goto(c, "locked")
  /\ UNCHANGED <<state, status, decisions, publication, audit, vote, told, shown>>

Approvals(s) == {d \in s : d.decision = "approve"}

\* _apply_decision raises, or the unique index on (candidate_id, engineer_id) does.
Refused(c) ==
  \/ seen[c].status # "pending_approval"
  \/ \E d \in seen[c].decisions \cup decisions : d.engineer = vote[c].engineer
  \/ /\ vote[c].decision = "approve" /\ NeedsProcess
     /\ Approvals(seen[c].decisions) # {}
     /\ \A d \in Approvals(seen[c].decisions) \cup {vote[c]} : d.role # "process_engineer"

\* A bug: a rejection is recorded and does not end the candidate.
NextStatusRejectionIgnored(c) ==
  IF Approvals(seen[c].decisions) # {} THEN "published" ELSE "pending_approval"

NextStatus(c) ==
  CASE vote[c].decision = "reject" -> "rejected"
    [] vote[c].decision = "approve" /\ Approvals(seen[c].decisions) # {} -> "published"
    [] OTHER -> "pending_approval"

\* The transaction ends, and what it had read is gone.
Unlock(c) ==
  /\ lock' = IF lock = c THEN Free ELSE lock
  /\ seen' = [seen EXCEPT ![c] = Unread]

Refuse(c) ==
  /\ phase[c] = "locked"
  /\ Refused(c)
  /\ told' = [told EXCEPT ![c] = "refused"]
  /\ Goto(c, "answered")
  /\ Unlock(c)
  /\ UNCHANGED <<state, status, decisions, publication, audit, vote, shown>>

AuditOf(c) ==
  {[action |-> a, engineer |-> vote[c].engineer] :
     a \in {"recorded"} \cup ({NextStatus(c)} \cap {"published", "rejected"})}

\* The approval, what it publishes, the candidate and the audit events commit together;
\* the answer may be lost afterwards.
Commit(c) ==
  /\ phase[c] = "locked"
  /\ ~ Refused(c)
  /\ decisions' = decisions \cup {vote[c]}
  /\ status' = NextStatus(c)
  /\ publication' = IF NextStatus(c) = "published" THEN Table ELSE publication
  /\ audit' = audit \cup AuditOf(c)
  /\ \/ Goto(c, "answered") /\ told' = [told EXCEPT ![c] = "recorded"]
     \/ Goto(c, "unanswered") /\ UNCHANGED told
  /\ Unlock(c)
  /\ UNCHANGED <<state, vote, shown>>

\* A statement fails: nothing is kept, and the caller gets an error.
Abort(c) ==
  /\ phase[c] = "locked"
  /\ Goto(c, "unanswered")
  /\ Unlock(c)
  /\ UNCHANGED <<state, status, decisions, publication, audit, vote, told, shown>>

\* _read_candidate: the row, and in a second statement of the same transaction its approvals.
\* READ COMMITTED gives each statement a snapshot of its own.
ReadRow ==
  /\ shown.at # "row"
  /\ status # "absent"
  /\ shown' = [at |-> "row", page |-> [status |-> status, decisions |-> {}]]
  /\ UNCHANGED <<state, status, decisions, publication, audit, lock, phase, vote, seen, told>>

\* A bug: the statement that completes the page reads the row again.
ReadRowLast ==
  /\ shown.at = "row"
  /\ shown' = [at |-> "all", page |-> [shown.page EXCEPT !.status = status]]
  /\ UNCHANGED <<state, status, decisions, publication, audit, lock, phase, vote, seen, told>>

ReadApprovals ==
  /\ shown.at = "row"
  /\ shown' = [at |-> "all", page |-> [shown.page EXCEPT !.decisions = decisions]]
  /\ UNCHANGED <<state, status, decisions, publication, audit, lock, phase, vote, seen, told>>

Next ==
  \/ Create \/ ReadRow \/ ReadApprovals
  \/ \E c \in Call : Decide(c) \/ LockAndRead(c) \/ Refuse(c) \/ Commit(c) \/ Abort(c)

Spec == Init /\ [][Next]_vars

-----------------------------------------------------------------------------
TwoApprovals(s) ==
  \E a, b \in Approvals(s) :
    /\ Normal[a.engineer] # Normal[b.engineer]
    /\ NeedsProcess => "process_engineer" \in {a.role, b.role}

\* Nothing is published without the approval of two different engineers, one of them a process
\* engineer when the recipe is to change, however the decisions race; nothing rejected is
\* published, and nothing that has both approvals waits.
TwoEngineers ==
  /\ status = "published" => TwoApprovals(decisions) /\ decisions = Approvals(decisions)
  /\ status = "pending_approval" =>
       /\ decisions = Approvals(decisions)
       /\ \A a, b \in decisions : a = b
  /\ \A a, b \in decisions : a.engineer = b.engineer => a = b

\* The tables that future investigations read, and the audit trail, tell of exactly the
\* publication that the candidate's status tells of.
PublicationComplete ==
  /\ publication = IF status = "published" THEN Table ELSE {}
  /\ {e.engineer : e \in {f \in audit : f.action = "recorded"}} = {d.engineer : d \in decisions}
  /\ \A a \in {"published", "rejected"} :
       (status = a) <=> \E e \in audit : e.action = a

\* A caller who was told that the decision is recorded finds it recorded; one who was refused
\* had decided before, or the candidate had ended, or the recipe still wants a process engineer.
CallersToldTheTruth ==
  \A c \in Call :
    /\ told[c] = "recorded" => vote[c] \in decisions
    /\ told[c] = "refused" =>
         \/ status \in {"published", "rejected"}
         \/ \E d \in decisions : d.engineer = vote[c].engineer
         \/ NeedsProcess /\ vote[c].role # "process_engineer"

\* The page of an engineer may lag behind, but one that says "published" or "rejected" shows the
\* decisions that made it so.
PageIsExplained ==
  shown.at = "all" =>
    /\ shown.page.status = "published" => TwoApprovals(shown.page.decisions)
    /\ shown.page.status = "rejected" => \E d \in shown.page.decisions : d.decision = "reject"

\* Whoever asks - a later investigation, the auditor, a caller, an engineer at the page - is told
\* of decisions that were made and of the outcome that they led to.
ToldTheTruth == PublicationComplete /\ CallersToldTheTruth /\ PageIsExplained

Engineer == {Normal[i] : i \in TypedId}
By(d) == {Normal[x.engineer] : x \in {y \in decisions : y.decision = d}}

Dual == INSTANCE DualControl WITH approvers <- By("approve"), rejecters <- By("reject")

\* The locked transactions implement the two-engineer rule as the abstract specification states it.
ImplementsDualControl == Dual!Spec
=============================================================================
