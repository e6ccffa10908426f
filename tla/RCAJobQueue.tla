---------------------------- MODULE RCAJobQueue ----------------------------
(***************************************************************************)
(* The durable RCA job queue: the rca_job_state, rca_job_attempt and       *)
(* rca_job_event tables with the operations of PostgresRCAJobStore         *)
(* (backend/yield_rca_api/store.py), the RCAQueueWorker processes that     *)
(* claim, heartbeat and commit attempts (backend/yield_rca_api/worker.py), *)
(* and the cancellations an API process asks for.                          *)
(*                                                                         *)
(* Each store operation is one PostgreSQL transaction on a locked row, so  *)
(* it is one action.  Time is kept relative to the database clock:         *)
(* leaseLeft[j] is lease_expires_at minus the current instant, waitLeft[j] *)
(* is next_attempt_at minus it, and Tick lets one unit pass.  A process    *)
(* reads "now" on its own host and before it waits for the row lock, so    *)
(* the instant it works with is off by some d in Reading: every            *)
(* comparison "x <= now" is "xLeft <= d", and "now + delay" is "d + delay".*)
(***************************************************************************)
EXTENDS Integers, Sequences

CONSTANTS
  Job, Worker,   \* jobs a client may submit; worker ids, one per process
  NoJob, NoWorker,
  MaxAttempts,   \* max_attempts of every job
  LeaseTicks,    \* lease_seconds
  RetryDelay,    \* RetryDelay[n] is retry_base_seconds * 2^(n - 1)
  Skew           \* how far a reading of "now" may be from the instant of commit

ASSUME QueueAssumption ==
  /\ NoJob \notin Job
  /\ NoWorker \notin Worker
  /\ MaxAttempts \in Nat \ {0}
  /\ LeaseTicks \in Nat \ {0}
  /\ RetryDelay \in [1..MaxAttempts -> Nat]
  /\ Skew \in Nat

VARIABLES
  status, attempts,        \* rca_job_state.status, .attempt_count
  leaseOwner, leaseLeft,   \* .lease_owner, .lease_expires_at
  waitLeft,                \* .next_attempt_at
  cancelAsked,             \* .cancel_requested_at IS NOT NULL
  stored,                  \* the workflow result that column "state" holds
  attemptStatus, attemptWorker,  \* rca_job_attempt, by attempt number
  events,                  \* rca_job_event, by sequence number
  pc,                      \* where a worker process is in run_once
  wjob, wattempt,          \* the record that claim_next returned to it
  lost,                    \* the lease_lost flag of that attempt
  verdict,                 \* classification of the error it is about to report
  beatJob, beatAttempt, beatNow,  \* its heartbeat in flight, "now" included
  candidates               \* jobs with a memory candidate

rowVars == <<status, attempts, leaseOwner, leaseLeft, waitLeft, cancelAsked, stored>>
logVars == <<attemptStatus, attemptWorker, events>>
procVars == <<pc, wjob, wattempt, lost, verdict>>
beatVars == <<beatJob, beatAttempt, beatNow>>
vars == <<rowVars, logVars, procVars, beatVars, candidates>>

ActiveStatus == {"running", "cancel_requested"}
ClaimableStatus == {"queued", "retry_wait"}
TerminalStatus == {"completed", "failed", "cancelled"}
JobStatus == {"absent"} \cup ClaimableStatus \cup ActiveStatus \cup TerminalStatus
AttemptStatus == {"none", "running", "completed", "failed", "cancelled", "abandoned"}
EventType == {"job_queued", "job_started", "job_cancel_requested", "job_cancelled",
              "job_retry_scheduled", "job_failed", "job_completed",
              "job_lease_recovered"}
\* A final state may be "supported", eligible for the RCA memory, or not.
FinalKind == {"supported", "unsupported"}
Stored == [kind : {"initial", "partial"} \cup FinalKind, attempt : 0..MaxAttempts]
Verdict == [retryable : BOOLEAN, partial : BOOLEAN]
BusyPc == {"working", "committing", "failing", "remembering"}

Reading == (-Skew)..Skew
LongPast == -Skew                    \* due for every reader: NULL, or clamped by Tick
BeatFloor == -(LeaseTicks + Skew)    \* older than any lease it could extend
Nothing == [kind |-> "initial", attempt |-> 0]
NoVerdict == [retryable |-> FALSE, partial |-> FALSE]
Fatal == NoVerdict                   \* WORKFLOW_EXECUTION_FAILED, without a state

RowTypeOK ==
  /\ status \in [Job -> JobStatus]
  /\ attempts \in [Job -> 0..MaxAttempts]
  /\ leaseOwner \in [Job -> Worker \cup {NoWorker}]
  /\ leaseLeft \in [Job -> Int]
  /\ waitLeft \in [Job -> Int]
  /\ cancelAsked \in [Job -> BOOLEAN]
  /\ stored \in [Job -> Stored]

LogTypeOK ==
  /\ attemptStatus \in [Job -> [1..MaxAttempts -> AttemptStatus]]
  /\ attemptWorker \in [Job -> [1..MaxAttempts -> Worker \cup {NoWorker}]]
  /\ events \in [Job -> Seq(EventType)]

ProcTypeOK ==
  /\ pc \in [Worker -> BusyPc \cup {"idle", "down"}]
  /\ wjob \in [Worker -> Job \cup {NoJob}]
  /\ wattempt \in [Worker -> 0..MaxAttempts]
  /\ lost \in [Worker -> BOOLEAN]
  /\ verdict \in [Worker -> Verdict]
  /\ beatJob \in [Worker -> Job \cup {NoJob}]
  /\ beatAttempt \in [Worker -> 0..MaxAttempts]
  /\ beatNow \in [Worker -> Int]

TypeOK == RowTypeOK /\ LogTypeOK /\ ProcTypeOK /\ candidates \subseteq Job

Init ==
  /\ status = [j \in Job |-> "absent"]
  /\ attempts = [j \in Job |-> 0]
  /\ leaseOwner = [j \in Job |-> NoWorker]
  /\ leaseLeft = [j \in Job |-> LongPast]
  /\ waitLeft = [j \in Job |-> LongPast]
  /\ cancelAsked = [j \in Job |-> FALSE]
  /\ stored = [j \in Job |-> Nothing]
  /\ attemptStatus = [j \in Job |-> [n \in 1..MaxAttempts |-> "none"]]
  /\ attemptWorker = [j \in Job |-> [n \in 1..MaxAttempts |-> NoWorker]]
  /\ events = [j \in Job |-> <<>>]
  /\ pc = [w \in Worker |-> "idle"]
  /\ wjob = [w \in Worker |-> NoJob]
  /\ wattempt = [w \in Worker |-> 0]
  /\ lost = [w \in Worker |-> FALSE]
  /\ verdict = [w \in Worker |-> NoVerdict]
  /\ beatJob = [w \in Worker |-> NoJob]
  /\ beatAttempt = [w \in Worker |-> 0]
  /\ beatNow = [w \in Worker |-> BeatFloor]
  /\ candidates = {}

-----------------------------------------------------------------------------
(***************************************************************************)
(* What the transactions are made of.                                      *)
(***************************************************************************)

Terminal(j) == status[j] \in TerminalStatus

\* Bugs that would break a promise below (each one alone): an ownership check that
\* forgets the owner, or the expiry.
OwnsForAnyone(w, j, d) == leaseOwner[j] # NoWorker /\ leaseLeft[j] > d
OwnsForEver(w, j, d) == leaseOwner[j] = w

\* The ownership check of complete, fail_attempt and record_progress_event.
Owns(w, j, d) == leaseOwner[j] = w /\ leaseLeft[j] > d

LogEvent(j, e) == events' = [events EXCEPT ![j] = Append(@, e)]

\* A bug: the lease columns survive the attempt.
EndRowKeepingLease(j, next, wait, result) ==
  /\ status' = [status EXCEPT ![j] = next]
  /\ waitLeft' = [waitLeft EXCEPT ![j] = wait]
  /\ stored' = [stored EXCEPT ![j] = result]
  /\ UNCHANGED <<attempts, cancelAsked, leaseOwner, leaseLeft>>

\* The row leaves its attempt: status and state change, the lease columns go NULL.
EndRow(j, next, wait, result) ==
  /\ status' = [status EXCEPT ![j] = next]
  /\ leaseOwner' = [leaseOwner EXCEPT ![j] = NoWorker]
  /\ leaseLeft' = [leaseLeft EXCEPT ![j] = LongPast]
  /\ waitLeft' = [waitLeft EXCEPT ![j] = wait]
  /\ stored' = [stored EXCEPT ![j] = result]
  /\ UNCHANGED <<attempts, cancelAsked>>

EndAttempt(j, how) ==
  /\ attemptStatus' = [attemptStatus EXCEPT ![j][attempts[j]] = how]
  /\ UNCHANGED attemptWorker

\* The finally block of run_once: the process is back in its loop.
BackToLoop(w) ==
  /\ pc' = [pc EXCEPT ![w] = "idle"]
  /\ wjob' = [wjob EXCEPT ![w] = NoJob]
  /\ wattempt' = [wattempt EXCEPT ![w] = 0]
  /\ lost' = [lost EXCEPT ![w] = FALSE]
  /\ verdict' = [verdict EXCEPT ![w] = NoVerdict]

Goto(w, where) ==
  /\ pc' = [pc EXCEPT ![w] = where]
  /\ UNCHANGED <<wjob, wattempt, lost, verdict>>

ReportError(w, v) ==
  /\ pc' = [pc EXCEPT ![w] = "failing"]
  /\ verdict' = [verdict EXCEPT ![w] = v]
  /\ UNCHANGED <<wjob, wattempt, lost>>

-----------------------------------------------------------------------------
(***************************************************************************)
(* The API process.                                                        *)
(***************************************************************************)

\* enqueue of a new job; duplicate submissions are the business of JobSubmission.
Enqueue(j) ==
  /\ status[j] = "absent"
  /\ status' = [status EXCEPT ![j] = "queued"]
  /\ LogEvent(j, "job_queued")
  /\ UNCHANGED <<attempts, leaseOwner, leaseLeft, waitLeft, cancelAsked, stored,
                 attemptStatus, attemptWorker, procVars, beatVars, candidates>>

\* request_cancel; every other status returns or raises without a change.
RequestCancel(j) ==
  LET immediate == status[j] \in ClaimableStatus IN
  /\ immediate \/ status[j] = "running"
  /\ status' = [status EXCEPT ![j] = IF immediate THEN "cancelled" ELSE "cancel_requested"]
  /\ cancelAsked' = [cancelAsked EXCEPT ![j] = TRUE]
  /\ waitLeft' = [waitLeft EXCEPT ![j] = IF immediate THEN LongPast ELSE @]
  /\ LogEvent(j, IF immediate THEN "job_cancelled" ELSE "job_cancel_requested")
  /\ UNCHANGED <<attempts, leaseOwner, leaseLeft, stored,
                 attemptStatus, attemptWorker, procVars, beatVars, candidates>>

-----------------------------------------------------------------------------
(***************************************************************************)
(* A worker process: claiming, running and committing an attempt.          *)
(***************************************************************************)

\* A bug: the claim looks for queued jobs only.
DueIfQueued(j, d) == status[j] = "queued" /\ waitLeft[j] <= d

\* The WHERE clause of claim_next.
Due(j, d) == status[j] \in ClaimableStatus /\ waitLeft[j] <= d

\* Rows another transaction holds are skipped (SKIP LOCKED), so any due row may
\* be the first one left.
ClaimRow(w, j, d) ==
  /\ Due(j, d)
  /\ status' = [status EXCEPT ![j] = "running"]
  /\ attempts' = [attempts EXCEPT ![j] = @ + 1]
  /\ waitLeft' = [waitLeft EXCEPT ![j] = LongPast]
  /\ leaseOwner' = [leaseOwner EXCEPT ![j] = w]
  /\ leaseLeft' = [leaseLeft EXCEPT ![j] = d + LeaseTicks]
  /\ attemptStatus' = [attemptStatus EXCEPT ![j][attempts[j] + 1] = "running"]
  /\ attemptWorker' = [attemptWorker EXCEPT ![j][attempts[j] + 1] = w]
  /\ LogEvent(j, "job_started")
  /\ UNCHANGED <<cancelAsked, stored>>

Claim(w, j, d) ==
  /\ pc[w] = "idle"
  /\ ClaimRow(w, j, d)
  /\ pc' = [pc EXCEPT ![w] = "working"]
  /\ wjob' = [wjob EXCEPT ![w] = j]
  /\ wattempt' = [wattempt EXCEPT ![w] = attempts[j] + 1]
  /\ UNCHANGED <<lost, verdict, beatVars, candidates>>

\* The claim commits but its reply is lost: run_forever logs the error and loops.
ClaimUnacknowledged(w, j, d) ==
  /\ pc[w] = "idle"
  /\ ClaimRow(w, j, d)
  /\ UNCHANGED <<procVars, beatVars, candidates>>

\* The workflow returns a state; with lease_lost set it is not even offered.
WorkflowReturns(w) ==
  /\ pc[w] = "working"
  /\ IF lost[w] THEN BackToLoop(w) ELSE Goto(w, "committing")
  /\ UNCHANGED <<rowVars, logVars, beatVars, candidates>>

\* The workflow raises: a provider error may be retryable, and a
\* SupervisorExecutionError brings the partial state of the attempt with it.
WorkflowRaises(w, v) ==
  /\ pc[w] = "working"
  /\ ReportError(w, v)
  /\ UNCHANGED <<rowVars, logVars, beatVars, candidates>>

\* A progress event is refused: JobLeaseLostError ends the attempt uncommitted.
ProgressRefused(w, d) ==
  /\ pc[w] = "working"
  /\ ~(Owns(w, wjob[w], d) /\ status[wjob[w]] \in ActiveStatus)
  /\ BackToLoop(w)
  /\ UNCHANGED <<rowVars, logVars, beatVars, candidates>>

Committable(w, d) ==
  /\ Owns(w, wjob[w], d)
  /\ status[wjob[w]] \in ActiveStatus

\* A bug: a completion is announced although the job was cancelled.
CompleteRowAnnounced(w, kind) ==
  LET j == wjob[w]
      final == IF status[j] = "cancel_requested" THEN "cancelled" ELSE "completed"
  IN
  /\ EndRow(j, final, waitLeft[j],
            IF final = "completed"
            THEN [kind |-> kind, attempt |-> wattempt[w]] ELSE stored[j])
  /\ EndAttempt(j, final)
  /\ LogEvent(j, "job_completed")

CompleteRow(w, kind) ==
  LET j == wjob[w]
      final == IF status[j] = "cancel_requested" THEN "cancelled" ELSE "completed"
  IN
  /\ EndRow(j, final, waitLeft[j],
            IF final = "completed"
            THEN [kind |-> kind, attempt |-> wattempt[w]] ELSE stored[j])
  /\ EndAttempt(j, final)
  /\ LogEvent(j, IF final = "completed" THEN "job_completed" ELSE "job_cancelled")

\* complete with the state the workflow returned, and what run_once does next.
Complete(w, kind, d) ==
  /\ pc[w] = "committing"
  /\ \/ /\ Committable(w, d)
        /\ CompleteRow(w, kind)
        /\ IF status[wjob[w]] = "cancel_requested"
           THEN BackToLoop(w) ELSE Goto(w, "remembering")
     \/ /\ ~Committable(w, d)
        /\ BackToLoop(w)
        /\ UNCHANGED <<rowVars, logVars>>
  /\ UNCHANGED <<beatVars, candidates>>

\* The call fails as a database error, before or after the transaction took effect.
CompleteErrs(w, kind, d) ==
  /\ pc[w] = "committing"
  /\ \/ Committable(w, d) /\ CompleteRow(w, kind)
     \/ UNCHANGED <<rowVars, logVars>>
  /\ ReportError(w, Fatal)
  /\ UNCHANGED <<beatVars, candidates>>

\* create_from_state after a completion: a supported result becomes a candidate
\* unless the call raises, which is swallowed; an error in the metrics that follow is
\* reported like a failure of the attempt.
Remember(w) ==
  /\ pc[w] = "remembering"
  /\ \/ /\ stored[wjob[w]].kind = "supported"
        /\ candidates' = candidates \cup {wjob[w]}
     \/ UNCHANGED candidates
  /\ BackToLoop(w) \/ ReportError(w, Fatal)
  /\ UNCHANGED <<rowVars, logVars, beatVars>>

FailRow(w, d) ==
  LET j == wjob[w]
      next == CASE status[j] = "cancel_requested" -> "cancelled"
                [] /\ status[j] # "cancel_requested"
                   /\ verdict[w].retryable
                   /\ attempts[j] < MaxAttempts -> "retry_wait"
                [] OTHER -> "failed"
  IN
  /\ EndRow(j, next,
            IF next = "retry_wait" THEN d + RetryDelay[wattempt[w]] ELSE LongPast,
            IF verdict[w].partial
            THEN [kind |-> "partial", attempt |-> wattempt[w]] ELSE stored[j])
  /\ EndAttempt(j, IF next = "retry_wait" THEN "failed" ELSE next)
  /\ LogEvent(j, CASE next = "retry_wait" -> "job_retry_scheduled"
                   [] next = "cancelled" -> "job_cancelled"
                   [] next = "failed" -> "job_failed")

\* fail_attempt: whatever it answers (success, lease lost, an error before or after
\* the transaction took effect), run_once is over.
FailAttempt(w, d) ==
  /\ pc[w] = "failing"
  /\ Owns(w, wjob[w], d)
  /\ FailRow(w, d)
  /\ BackToLoop(w)
  /\ UNCHANGED <<beatVars, candidates>>

FailAttemptRejected(w) ==
  /\ pc[w] = "failing"
  /\ BackToLoop(w)
  /\ UNCHANGED <<rowVars, logVars, beatVars, candidates>>

-----------------------------------------------------------------------------
(***************************************************************************)
(* Heartbeats, lease recovery, crashes and time.                           *)
(***************************************************************************)

\* The heartbeat thread of the attempt reads "now" and sends its UPDATE.
HeartbeatSend(w, d) ==
  /\ pc[w] \in BusyPc
  /\ ~lost[w]
  /\ beatJob[w] = NoJob     \* bound: one heartbeat in flight per worker
  /\ beatJob' = [beatJob EXCEPT ![w] = wjob[w]]
  /\ beatAttempt' = [beatAttempt EXCEPT ![w] = wattempt[w]]
  /\ beatNow' = [beatNow EXCEPT ![w] = d]
  /\ UNCHANGED <<rowVars, logVars, procVars, candidates>>

BeatArrives(w) ==
  /\ beatJob' = [beatJob EXCEPT ![w] = NoJob]
  /\ beatAttempt' = [beatAttempt EXCEPT ![w] = 0]
  /\ beatNow' = [beatNow EXCEPT ![w] = BeatFloor]

\* The lease_lost flag belongs to one attempt: a thread that outlived the join of
\* its attempt sets a flag nobody reads any more.
FlagLost(w) ==
  /\ lost' = [lost EXCEPT ![w] =
       @ \/ (pc[w] \in BusyPc /\ wjob[w] = beatJob[w] /\ wattempt[w] = beatAttempt[w])]
  /\ UNCHANGED <<pc, wjob, wattempt, verdict>>

BeatAccepted(w) ==
  /\ leaseOwner[beatJob[w]] = w
  /\ status[beatJob[w]] \in ActiveStatus
  /\ leaseLeft[beatJob[w]] > beatNow[w]

\* The heartbeat UPDATE runs; "acknowledged" is whether its reply arrives.
HeartbeatLands(w, acknowledged) ==
  /\ beatJob[w] # NoJob
  /\ IF BeatAccepted(w)
     THEN leaseLeft' = [leaseLeft EXCEPT ![beatJob[w]] = beatNow[w] + LeaseTicks]
     ELSE UNCHANGED leaseLeft
  /\ IF BeatAccepted(w) /\ acknowledged THEN UNCHANGED procVars ELSE FlagLost(w)
  /\ BeatArrives(w)
  /\ UNCHANGED <<status, attempts, leaseOwner, waitLeft, cancelAsked, stored,
                 logVars, candidates>>

\* The heartbeat call raises and the UPDATE never runs.
HeartbeatFails(w) ==
  /\ beatJob[w] # NoJob
  /\ FlagLost(w)
  /\ BeatArrives(w)
  /\ UNCHANGED <<rowVars, logVars, candidates>>

\* Bugs: recovery forgets the requested cancellation, allows one attempt too many, or
\* leaves the jobs to be cancelled to their dead worker.
RecoveredStatusUncancelled(j) == IF attempts[j] < MaxAttempts THEN "retry_wait" ELSE "failed"
RecoveredStatusOffByOne(j) ==
  CASE status[j] = "cancel_requested" -> "cancelled"
    [] status[j] # "cancel_requested" /\ attempts[j] <= MaxAttempts -> "retry_wait"
    [] OTHER -> "failed"
ExpiredIfRunning(j, d) == status[j] = "running" /\ leaseLeft[j] <= d

\* The WHERE clause of recover_stale_leases.
Expired(j, d) == status[j] \in ActiveStatus /\ leaseLeft[j] <= d

RecoveredStatus(j) ==
  CASE status[j] = "cancel_requested" -> "cancelled"
    [] status[j] # "cancel_requested" /\ attempts[j] < MaxAttempts -> "retry_wait"
    [] OTHER -> "failed"

\* recover_stale_leases at the top of the loop, on the expired rows S nobody has locked.
Recover(w, S, d) ==
  /\ pc[w] = "idle"
  /\ S # {}
  /\ \A j \in S : Expired(j, d)
  /\ status' = [j \in Job |-> IF j \in S THEN RecoveredStatus(j) ELSE status[j]]
  /\ leaseOwner' = [j \in Job |-> IF j \in S THEN NoWorker ELSE leaseOwner[j]]
  /\ leaseLeft' = [j \in Job |-> IF j \in S THEN LongPast ELSE leaseLeft[j]]
  /\ waitLeft' = [j \in Job |->
       IF j \in S
       THEN IF RecoveredStatus(j) = "retry_wait" THEN d + RetryDelay[1] ELSE LongPast
       ELSE waitLeft[j]]
  /\ attemptStatus' = [j \in Job |->
       IF j \in S THEN [attemptStatus[j] EXCEPT ![attempts[j]] = "abandoned"]
       ELSE attemptStatus[j]]
  /\ events' = [j \in Job |->
       IF j \in S
       THEN Append(events[j], IF RecoveredStatus(j) = "cancelled"
                              THEN "job_cancelled" ELSE "job_lease_recovered")
       ELSE events[j]]
  /\ UNCHANGED <<attempts, cancelAsked, stored, attemptWorker, procVars, beatVars,
                 candidates>>

\* The process dies with its attempt; a heartbeat already sent may still run.
Crash(w) ==
  /\ pc[w] \in BusyPc
  /\ pc' = [pc EXCEPT ![w] = "down"]
  /\ wjob' = [wjob EXCEPT ![w] = NoJob]
  /\ wattempt' = [wattempt EXCEPT ![w] = 0]
  /\ lost' = [lost EXCEPT ![w] = FALSE]
  /\ verdict' = [verdict EXCEPT ![w] = NoVerdict]
  /\ UNCHANGED <<rowVars, logVars, beatVars, candidates>>

Restart(w) ==
  /\ pc[w] = "down"
  /\ Goto(w, "idle")
  /\ UNCHANGED <<rowVars, logVars, beatVars, candidates>>

Aged(t, floor) == IF t > floor THEN t - 1 ELSE t

Tick ==
  /\ leaseLeft' = [j \in Job |-> Aged(leaseLeft[j], LongPast)]
  /\ waitLeft' = [j \in Job |-> Aged(waitLeft[j], LongPast)]
  /\ beatNow' = [w \in Worker |-> Aged(beatNow[w], BeatFloor)]
  /\ UNCHANGED <<status, attempts, leaseOwner, cancelAsked, stored, logVars, procVars,
                 beatJob, beatAttempt, candidates>>

-----------------------------------------------------------------------------
Client == \E j \in Job : Enqueue(j) \/ RequestCancel(j)

EndsWorkflow(w) ==
  \/ WorkflowReturns(w)
  \/ \E v \in Verdict : WorkflowRaises(w, v)
  \/ \E d \in Reading : ProgressRefused(w, d)

Commits(w) ==
  \E kind \in FinalKind, d \in Reading : Complete(w, kind, d) \/ CompleteErrs(w, kind, d)

Fails(w) == FailAttemptRejected(w) \/ \E d \in Reading : FailAttempt(w, d)

Claims(w) ==
  \E j \in Job, d \in Reading : Claim(w, j, d) \/ ClaimUnacknowledged(w, j, d)

Recovers(w) == \E S \in SUBSET Job, d \in Reading : Recover(w, S, d)

Heartbeats(w) ==
  \/ \E d \in Reading : HeartbeatSend(w, d)
  \/ \E acknowledged \in BOOLEAN : HeartbeatLands(w, acknowledged)
  \/ HeartbeatFails(w)

Process(w) ==
  \/ Claims(w) \/ EndsWorkflow(w) \/ Commits(w) \/ Remember(w) \/ Fails(w)
  \/ Recovers(w) \/ Heartbeats(w) \/ Crash(w) \/ Restart(w)

Next == Tick \/ Client \/ \E w \in Worker : Process(w)

Spec == Init /\ [][Next]_vars

\* Time passes; a worker keeps running its loop, its bounded workflow ends, its store
\* calls return and its supervisor restarts it.  Clients, crashes and heartbeats owe
\* nothing.
Fairness ==
  /\ WF_vars(Tick)
  /\ \A w \in Worker :
       /\ WF_vars(Claims(w)) /\ WF_vars(EndsWorkflow(w)) /\ WF_vars(Commits(w))
       /\ WF_vars(Remember(w)) /\ WF_vars(Fails(w)) /\ WF_vars(Recovers(w))
       /\ WF_vars(Restart(w))

FairSpec == Spec /\ Fairness

-----------------------------------------------------------------------------
(***************************************************************************)
(* What the queue promises.                                                *)
(***************************************************************************)

\* The three tables agree: a job is active exactly when its row carries a lease, and
\* then its latest attempt, and no other, is 'running' under the worker that holds it.
LeaseCoherent ==
  \A j \in Job :
    /\ status[j] \in ActiveStatus <=> leaseOwner[j] # NoWorker
    /\ \A n \in 1..MaxAttempts :
         attemptStatus[j][n] = "running" <=> (status[j] \in ActiveStatus /\ n = attempts[j])
    /\ status[j] \in ActiveStatus => attemptWorker[j][attempts[j]] = leaseOwner[j]

\* Attempt records are consecutive, a retried attempt stays failed or abandoned, and a
\* job that may be claimed again always has an attempt left to number.
AttemptBudget ==
  \A j \in Job :
    /\ status[j] \in ClaimableStatus => attempts[j] < MaxAttempts
    /\ \A n \in 1..MaxAttempts :
         /\ attemptStatus[j][n] = "none" <=> n > attempts[j]
         /\ (n < attempts[j] \/ (n = attempts[j] /\ status[j] \in ClaimableStatus))
              => attemptStatus[j][n] \in {"failed", "abandoned"}

\* The lease names a worker, not an attempt, and that is enough: a process that still
\* holds the lease of the job it works on works on the job's latest attempt.
OwnerIsCurrent ==
  \A w \in Worker :
    (pc[w] \in BusyPc /\ leaseOwner[wjob[w]] = w)
      => wattempt[w] = attempts[wjob[w]] /\ status[wjob[w]] \in ActiveStatus

\* A completed job shows the result of its latest attempt and of no other: a worker
\* whose attempt was recovered and retried elsewhere never overwrites it.
CompletedResultIsCurrent ==
  \A j \in Job :
    /\ status[j] = "completed" <=> stored[j].kind \in FinalKind
    /\ status[j] = "completed" => stored[j].attempt = attempts[j]

\* Once a cancellation was accepted the job never runs again, completes or fails.
CancelHonoured ==
  \A j \in Job : cancelAsked[j] <=> status[j] \in {"cancel_requested", "cancelled"}

\* Only a job that completed with a supported result has a memory candidate.
CandidateOnlyIfSupported ==
  \A j \in candidates : status[j] = "completed" /\ stored[j].kind = "supported"

\* What a client that replays the events learns from the last one.
StatusAfter(e) ==
  CASE e = "job_queued" -> {"queued"}
    [] e = "job_started" -> {"running"}
    [] e = "job_cancel_requested" -> {"cancel_requested"}
    [] e = "job_cancelled" -> {"cancelled"}
    [] e = "job_retry_scheduled" -> {"retry_wait"}
    [] e = "job_failed" -> {"failed"}
    [] e = "job_completed" -> {"completed"}
    [] e = "job_lease_recovered" -> {"retry_wait", "failed"}

\* The event log tells the same story as the row: its last event names the status, and
\* a terminal event comes last.
EventsTellStatus ==
  \A j \in Job :
    /\ status[j] = "absent" <=> events[j] = <<>>
    /\ events[j] # <<>> => status[j] \in StatusAfter(events[j][Len(events[j])])
    /\ \A i \in 1..(Len(events[j]) - 1) :
         events[j][i] \notin {"job_cancelled", "job_failed", "job_completed"}

\* "completed, failed and cancelled are immutable": no late heartbeat, commit, failure
\* report, cancellation or recovery touches a finished job or its history.
TerminalImmutable ==
  [][\A j \in Job : Terminal(j) =>
       /\ UNCHANGED <<status[j], attempts[j], leaseOwner[j], stored[j], cancelAsked[j]>>
       /\ UNCHANGED <<attemptStatus[j], attemptWorker[j], events[j]>>]_vars

\* A result is committed only by a process in its commit step that works on the
\* latest attempt, and no later than Skew after the lease ran out.
CommitsUnderLease ==
  [][\A j \in Job : (status[j] # "completed" /\ status'[j] = "completed") =>
       /\ leaseLeft[j] > LongPast
       /\ \E w \in Worker :
            /\ pc[w] = "committing" /\ wjob[w] = j
            /\ wattempt[w] = attempts[j] /\ leaseOwner[j] = w]_vars

\* Every accepted job ends, whatever crashes and lost replies it meets.
JobsEnd == \A j \in Job : status[j] # "absent" ~> Terminal(j)

\* A requested cancellation takes effect.
CancelTakesEffect == \A j \in Job : status[j] = "cancel_requested" ~> status[j] = "cancelled"

\* The queue implements the lifecycle that clients are promised.
Lifecycle == INSTANCE JobLifecycle WITH
  result <- [j \in Job |-> IF stored[j].kind \in FinalKind THEN stored[j].attempt ELSE 0]

ImplementsLifecycle == Lifecycle!Spec

=============================================================================
