---------------------------- MODULE JobLifecycle ----------------------------
(***************************************************************************)
(* What the queue promises a client of a job, without workers, leases or   *)
(* time: the persisted status follows the transition table of store.py,    *)
(* at most MaxAttempts attempts are started, exactly the completing        *)
(* attempt publishes a result, and a job never stays unfinished for ever.  *)
(***************************************************************************)
EXTENDS Naturals

CONSTANTS Job, MaxAttempts

VARIABLES
  status,    \* the status a client reads
  attempts,  \* how many attempts were started
  result     \* the attempt whose result is published, 0 while there is none

vars == <<status, attempts, result>>

\* _ALLOWED_TRANSITIONS without the legacy statuses new jobs never have.
AllowedTransitions ==
  {<<"queued", "running">>, <<"queued", "cancelled">>,
   <<"running", "completed">>, <<"running", "failed">>,
   <<"running", "retry_wait">>, <<"running", "cancel_requested">>,
   <<"retry_wait", "running">>, <<"retry_wait", "cancelled">>,
   <<"cancel_requested", "cancelled">>}

Status == {"absent", "queued", "running", "retry_wait", "cancel_requested",
           "completed", "failed", "cancelled"}

Init ==
  /\ status = [j \in Job |-> "absent"]
  /\ attempts = [j \in Job |-> 0]
  /\ result = [j \in Job |-> 0]

Accept(j) ==
  /\ status[j] = "absent" /\ status'[j] = "queued"
  /\ attempts'[j] = attempts[j] /\ result'[j] = result[j]

Advance(j) ==
  /\ <<status[j], status'[j]>> \in AllowedTransitions
  /\ attempts'[j] = IF status'[j] = "running" THEN attempts[j] + 1 ELSE attempts[j]
  /\ attempts'[j] <= MaxAttempts
  /\ status'[j] = "retry_wait" => attempts[j] < MaxAttempts
  /\ result'[j] = IF status'[j] = "completed" THEN attempts[j] ELSE result[j]

Rest(j) == status'[j] = status[j] /\ attempts'[j] = attempts[j] /\ result'[j] = result[j]

\* One transaction may move several jobs: recovery handles a batch of them.
Next ==
  /\ status' \in [Job -> Status]
  /\ attempts' \in [Job -> 0..MaxAttempts]
  /\ result' \in [Job -> 0..MaxAttempts]
  /\ \A j \in Job : Accept(j) \/ Advance(j) \/ Rest(j)

SafeSpec == Init /\ [][Next]_vars

Spec == SafeSpec /\ \A j \in Job : WF_vars(Next /\ Advance(j))
=============================================================================
