--------------------------- MODULE JobSubmission ---------------------------
(***************************************************************************)
(* POST /rca/jobs with an Idempotency-Key: the submissions of several      *)
(* clients, the insertion of enqueue (store.py) under the unique index on  *)
(* idempotency_key, the lookup that follows a UniqueViolation in a second  *)
(* transaction, and what the client is told (app.py create_rca_job).       *)
(* A reply may be lost, a transaction may fail, and the client tries again *)
(* with the same key and the same request.                                 *)
(***************************************************************************)
EXTENDS Naturals

CONSTANTS
  Call,        \* client calls in progress at the same time
  Key, NoKey,  \* Idempotency-Keys; the header is optional
  Request,     \* normalized requests, equal exactly when their hashes are
  NoJob,
  MaxTries     \* bound: how often one call is tried

ASSUME SubmissionAssumption ==
  NoKey \notin Key /\ NoJob \notin Call \X (1..MaxTries) /\ MaxTries \in Nat \ {0}

\* job_id is a fresh uuid4 in every try of every call.
JobId == Call \X (1..MaxTries)

VARIABLES
  key, request,   \* what each call carries
  tries,
  stage,          \* where the handler of the call's current try is
  open,           \* the rows of rca_job_state inserted and not yet committed
  rows,           \* the committed rows: job id -> key and request
  answers         \* what the clients have been told, by call

submissionVars == <<key, request, tries, stage, open, rows, answers>>

Answer == [kind : {"accepted", "conflict"}, job : JobId \cup {NoJob}]
Row == [key : Key \cup {NoKey}, request : Request]

SubmissionTypeOK ==
  /\ key \in [Call -> Key \cup {NoKey}]
  /\ request \in [Call -> Request]
  /\ tries \in [Call -> 0..MaxTries]
  /\ stage \in [Call -> {"idle", "insert", "commit", "lookup", "reply"}]
  /\ open \subseteq Call
  /\ \E D \in SUBSET JobId : rows \in [D -> Row]
  /\ answers \in [Call -> SUBSET Answer]

SubmissionInit ==
  /\ key \in [Call -> Key \cup {NoKey}]
  /\ request \in [Call -> Request]
  /\ tries = [c \in Call |-> 0]
  /\ stage = [c \in Call |-> "idle"]
  /\ open = {}
  /\ rows = [i \in {} |-> 0]
  /\ answers = [c \in Call |-> {}]

-----------------------------------------------------------------------------
Job(c) == <<c, tries[c]>>
Goto(c, where) == stage' = [stage EXCEPT ![c] = where]
Tell(c, kind, job) == answers' = [answers EXCEPT ![c] = @ \cup {[kind |-> kind, job |-> job]}]
Bound(k) == {i \in DOMAIN rows : k # NoKey /\ rows[i].key = k}

\* The client sends, or sends again because the last try brought no answer.
Submit(c) ==
  /\ stage[c] = "idle"
  /\ tries[c] < MaxTries
  /\ tries' = [tries EXCEPT ![c] = @ + 1]
  /\ Goto(c, "insert")
  /\ UNCHANGED <<key, request, open, rows, answers>>

\* A bug: a SELECT before the INSERT stands in for the unique index.
InsertUnindexed(c) ==
  /\ stage[c] = "insert"
  /\ Bound(key[c]) = {}
  /\ open' = open \cup {c}
  /\ Goto(c, "commit")
  /\ UNCHANGED <<key, request, tries, rows, answers>>

\* INSERT waits while another transaction holds the key in the index.
Insert(c) ==
  /\ stage[c] = "insert"
  /\ Bound(key[c]) = {}
  /\ key[c] # NoKey => \A d \in open : key[d] # key[c]
  /\ open' = open \cup {c}
  /\ Goto(c, "commit")
  /\ UNCHANGED <<key, request, tries, rows, answers>>

UniqueViolation(c) ==
  /\ stage[c] = "insert"
  /\ Bound(key[c]) # {}
  /\ Goto(c, "lookup")
  /\ UNCHANGED <<key, request, tries, open, rows, answers>>

\* The commit takes effect; its acknowledgement may still be lost on the way.
CommitJob(c) ==
  /\ stage[c] = "commit"
  /\ rows' = [i \in DOMAIN rows \cup {Job(c)} |->
       IF i = Job(c) THEN [key |-> key[c], request |-> request[c]] ELSE rows[i]]
  /\ open' = open \ {c}
  /\ \/ Goto(c, "reply") /\ Tell(c, "accepted", Job(c))
     \/ Goto(c, "idle") /\ UNCHANGED answers
  /\ UNCHANGED <<key, request, tries>>

\* The transaction, or the process, fails before the commit: the client gets an error.
RollbackJob(c) ==
  /\ stage[c] \in {"insert", "commit", "lookup"}
  /\ open' = open \ {c}
  /\ Goto(c, "idle")
  /\ UNCHANGED <<key, request, tries, rows, answers>>

\* A bug: the request hash is not compared.
LookupByKeyOnly(c) ==
  /\ stage[c] = "lookup"
  /\ \E i \in Bound(key[c]) : Tell(c, "accepted", i)
  /\ Goto(c, "reply")
  /\ UNCHANGED <<key, request, tries, open, rows>>

\* _get_by_idempotency_key and the comparison of the hashes.
Lookup(c) ==
  /\ stage[c] = "lookup"
  /\ \E i \in Bound(key[c]) :
       IF rows[i].request = request[c] THEN Tell(c, "accepted", i) ELSE Tell(c, "conflict", NoJob)
  /\ Goto(c, "reply")
  /\ UNCHANGED <<key, request, tries, open, rows>>

\* The reply is lost in the network, or the user presses the button once more.
Repeat(c) ==
  /\ stage[c] = "reply"
  /\ tries[c] < MaxTries
  /\ Goto(c, "idle")
  /\ UNCHANGED <<key, request, tries, open, rows, answers>>

SubmissionNext ==
  \E c \in Call :
    \/ Submit(c) \/ Insert(c) \/ UniqueViolation(c) \/ CommitJob(c) \/ RollbackJob(c)
    \/ Lookup(c) \/ Repeat(c)

SubmissionSpec == SubmissionInit /\ [][SubmissionNext]_submissionVars

-----------------------------------------------------------------------------
\* However submissions interleave and fail, a key is bound to one job.
OneJobPerKey ==
  \A i, j \in DOMAIN rows : (rows[i].key = rows[j].key /\ rows[i].key # NoKey) => i = j

\* A client is given the job of its own request, and the same one every time it uses a
\* key; it is told of a conflict only when the key belongs to a different request.
AnswersAreFaithful ==
  \A c \in Call : \A a \in answers[c] :
    IF a.kind = "accepted"
    THEN a.job \in DOMAIN rows /\ rows[a.job] = [key |-> key[c], request |-> request[c]]
    ELSE \E i \in Bound(key[c]) : rows[i].request # request[c]

\* Calls with the same key that were both accepted were given the same job, and one call
\* is never told both that it was accepted and that it conflicts.
AnswersAgree ==
  \A c, d \in Call : (key[c] = key[d] /\ key[c] # NoKey) =>
    \A a \in answers[c], b \in answers[d] :
      /\ (a.kind = "accepted" /\ b.kind = "accepted") => a.job = b.job
      /\ request[c] = request[d] => a.kind = b.kind
=============================================================================
