------------------------- MODULE RCAJobQueueProofs -------------------------
(***************************************************************************)
(* The safety of the job queue, for every number of jobs, workers and      *)
(* attempts, every lease and back-off length and every clock error Skew.   *)
(*                                                                         *)
(* IInv is inductive.  RowsOK is about the three tables and is preserved   *)
(* by each transaction whoever runs it; ProcsOK ties a busy process to the *)
(* record it claimed; OwnerIsCurrent joins the two and is what lets a      *)
(* commit trust the worker id in lease_owner.                              *)
(***************************************************************************)
EXTENDS RCAJobQueue, TLAPS

\* A job that was never accepted has had no attempt, an active job has had one.
AttemptsFit ==
  \A j \in Job :
    /\ status[j] = "absent" => attempts[j] = 0
    /\ status[j] \in ActiveStatus => attempts[j] >= 1

\* A busy process holds a job and the number of an attempt that job has had.
BusyKnowsAttempt ==
  \A w \in Worker :
    pc[w] \in BusyPc => wjob[w] \in Job /\ wattempt[w] \in 1..attempts[wjob[w]]

RowsOK ==
  /\ RowTypeOK /\ LogTypeOK
  /\ AttemptsFit /\ LeaseCoherent /\ AttemptBudget
  /\ CompletedResultIsCurrent /\ CancelHonoured

ProcsOK == ProcTypeOK /\ BusyKnowsAttempt

IInv == RowsOK /\ ProcsOK /\ OwnerIsCurrent /\ candidates \subseteq Job /\ CandidateOnlyIfSupported

\* A step leaves finished jobs and their history alone.
TerminalKept ==
  \A k \in Job : Terminal(k) =>
    /\ UNCHANGED <<status[k], attempts[k], leaseOwner[k], stored[k], cancelAsked[k]>>
    /\ UNCHANGED <<attemptStatus[k], attemptWorker[k], events[k]>>

\* A step numbers no attempt and hands no lease over.
OwnersFollow ==
  /\ attempts' = attempts
  /\ \A k \in Job, v \in Worker : leaseOwner'[k] = v =>
       leaseOwner[k] = v /\ (status[k] \in ActiveStatus => status'[k] \in ActiveStatus)

\* A step makes no process busy and gives none another attempt.
ProcsFollow ==
  \A v \in Worker : pc'[v] \in BusyPc =>
    pc[v] \in BusyPc /\ wjob'[v] = wjob[v] /\ wattempt'[v] = wattempt[v]

\* The empty tables satisfy the invariant.
LEMMA InitIInv == Init => IInv
<1> USE QueueAssumption DEF Init, Nothing, NoVerdict, LongPast, BeatFloor
<1>1. Init => RowTypeOK /\ LogTypeOK
  BY DEF RowTypeOK, LogTypeOK, JobStatus, AttemptStatus, Stored
<1>2. Init => AttemptsFit /\ LeaseCoherent /\ AttemptBudget
  BY DEF AttemptsFit, LeaseCoherent, AttemptBudget, ActiveStatus, ClaimableStatus
<1>3. Init => CompletedResultIsCurrent /\ CancelHonoured /\ CandidateOnlyIfSupported
              /\ candidates \subseteq Job
  BY DEF CompletedResultIsCurrent, CancelHonoured, CandidateOnlyIfSupported, FinalKind
<1>4. Init => ProcsOK /\ OwnerIsCurrent
  BY DEF ProcsOK, ProcTypeOK, BusyKnowsAttempt, OwnerIsCurrent, BusyPc, Verdict
<1>5. QED BY <1>1, <1>2, <1>3, <1>4 DEF IInv, RowsOK

-----------------------------------------------------------------------------
(***************************************************************************)
(* Transactions preserve RowsOK.                                           *)
(***************************************************************************)

\* A claim keeps the rows coherent (claim_next).
LEMMA ClaimRows ==
  ASSUME RowsOK, NEW w \in Worker, NEW j \in Job, NEW d \in Reading, ClaimRow(w, j, d)
  PROVE  RowsOK' /\ TerminalKept /\ attempts[j] + 1 \in 1..MaxAttempts
<1> DEFINE n == attempts[j] + 1
<1>a. n \in 1..MaxAttempts /\ attempts[j] \in Nat /\ status[j] \in ClaimableStatus
  BY QueueAssumption DEF RowsOK, RowTypeOK, AttemptBudget, ClaimRow, Due
<1>b. /\ status' = [status EXCEPT ![j] = "running"]
      /\ attempts' = [attempts EXCEPT ![j] = n]
      /\ leaseOwner' = [leaseOwner EXCEPT ![j] = w]
      /\ attemptStatus' = [attemptStatus EXCEPT ![j][n] = "running"]
      /\ attemptWorker' = [attemptWorker EXCEPT ![j][n] = w]
      /\ UNCHANGED <<stored, cancelAsked>>
  BY DEF ClaimRow
<1>c. RowTypeOK /\ LogTypeOK
  BY DEF RowsOK
<1>d. n = attempts[j] + 1
  OBVIOUS
<1> HIDE DEF n
<1>1. RowTypeOK'
  BY <1>a, <1>b, <1>c, QueueAssumption
     DEF ClaimRow, RowTypeOK, JobStatus, ActiveStatus, LongPast, Reading
<1>2. LogTypeOK'
  <2>1. attemptStatus' \in [Job -> [1..MaxAttempts -> AttemptStatus]]
    BY <1>a, <1>b, <1>c DEF LogTypeOK, AttemptStatus
  <2>2. attemptWorker' \in [Job -> [1..MaxAttempts -> Worker \cup {NoWorker}]]
    BY <1>a, <1>b, <1>c DEF LogTypeOK
  <2>3. events' \in [Job -> Seq(EventType)]
    BY <1>c DEF ClaimRow, LogTypeOK, LogEvent, EventType
  <2>4. QED BY <2>1, <2>2, <2>3 DEF LogTypeOK
<1>3. AttemptsFit'
  BY <1>a, <1>b, <1>c DEF RowsOK, RowTypeOK, AttemptsFit
<1>4. LeaseCoherent'
  BY <1>a, <1>b, <1>c, QueueAssumption
     DEF RowsOK, RowTypeOK, LogTypeOK, LeaseCoherent, ActiveStatus, ClaimableStatus
<1>5. AttemptBudget'
  <2> SUFFICES ASSUME NEW k \in Job
               PROVE  /\ status'[k] \in ClaimableStatus => attempts'[k] < MaxAttempts
                      /\ \A m \in 1..MaxAttempts :
                           /\ attemptStatus'[k][m] = "none" <=> m > attempts'[k]
                           /\ (m < attempts'[k]
                                 \/ (m = attempts'[k] /\ status'[k] \in ClaimableStatus))
                                => attemptStatus'[k][m] \in {"failed", "abandoned"}
    BY DEF AttemptBudget
  <2>1. CASE k # j
    BY <2>1, <1>a, <1>b, <1>c DEF RowsOK, RowTypeOK, LogTypeOK, AttemptBudget
  <2>2. CASE k = j
    BY <2>2, <1>a, <1>b, <1>c, <1>d, QueueAssumption
       DEF RowsOK, RowTypeOK, LogTypeOK, AttemptBudget, ClaimableStatus
  <2>3. QED BY <2>1, <2>2
<1>6. CompletedResultIsCurrent' /\ CancelHonoured'
  BY <1>a, <1>b, <1>c DEF RowsOK, RowTypeOK, CompletedResultIsCurrent, CancelHonoured,
                          ClaimableStatus
<1>7. TerminalKept
  <2>1. events' = [events EXCEPT ![j] = Append(@, "job_started")]
    BY DEF ClaimRow, LogEvent
  <2>2. QED
    BY <1>a, <1>b, <1>c, <2>1 DEF TerminalKept, Terminal, RowTypeOK, LogTypeOK, TerminalStatus,
                                  ClaimableStatus
<1>8. QED BY <1>a, <1>d, <1>1, <1>2, <1>3, <1>4, <1>5, <1>6, <1>7 DEF RowsOK

\* An active job leaves its latest attempt for a status that fits how the attempt ends.
EndFits(j, next, how, result) ==
  /\ \/ next = "retry_wait" /\ how \in {"failed", "abandoned"}
        /\ attempts[j] < MaxAttempts /\ status[j] = "running"
     \/ next = "cancelled" /\ how \in {"cancelled", "abandoned"} /\ status[j] = "cancel_requested"
     \/ next = "completed" /\ how = "completed" /\ status[j] = "running"
     \/ next = "failed" /\ how \in {"failed", "abandoned"} /\ status[j] = "running"
  /\ result \in Stored
  /\ next = "completed" <=> result.kind \in FinalKind
  /\ next = "completed" => result.attempt = attempts[j]

\* So does any transaction that ends an attempt with a fitting status.
LEMMA EndRows ==
  ASSUME RowsOK, NEW j \in Job, NEW next, NEW how, NEW result, NEW wait \in Int, NEW e \in EventType,
         status[j] \in ActiveStatus, EndFits(j, next, how, result),
         EndRow(j, next, wait, result), EndAttempt(j, how), LogEvent(j, e)
  PROVE  RowsOK' /\ TerminalKept /\ OwnersFollow
<1>a. attempts[j] \in 1..MaxAttempts
  BY QueueAssumption DEF RowsOK, RowTypeOK, AttemptsFit
<1>b. next \in {"retry_wait", "cancelled", "completed", "failed"}
      /\ how \in {"completed", "failed", "cancelled", "abandoned"}
  BY DEF EndFits
<1>c. RowTypeOK /\ LogTypeOK
  BY DEF RowsOK
<1> USE DEF EndRow, EndAttempt
<1>1. RowTypeOK'
  BY <1>b, <1>c, QueueAssumption
     DEF RowTypeOK, EndFits, LongPast, JobStatus, ClaimableStatus, TerminalStatus
<1>2. LogTypeOK'
  BY <1>a, <1>b, <1>c DEF LogTypeOK, LogEvent, AttemptStatus
<1>3. AttemptsFit'
  BY <1>b, <1>c DEF RowsOK, RowTypeOK, AttemptsFit, ActiveStatus
<1>4. LeaseCoherent'
  BY <1>a, <1>b, <1>c, QueueAssumption
     DEF RowsOK, RowTypeOK, LogTypeOK, LeaseCoherent, ActiveStatus
<1>5. AttemptBudget'
  <2> SUFFICES ASSUME NEW k \in Job
               PROVE  /\ status'[k] \in ClaimableStatus => attempts'[k] < MaxAttempts
                      /\ \A m \in 1..MaxAttempts :
                           /\ attemptStatus'[k][m] = "none" <=> m > attempts'[k]
                           /\ (m < attempts'[k]
                                 \/ (m = attempts'[k] /\ status'[k] \in ClaimableStatus))
                                => attemptStatus'[k][m] \in {"failed", "abandoned"}
    BY DEF AttemptBudget
  <2>1. CASE k # j
    BY <2>1, <1>a, <1>b, <1>c DEF RowsOK, RowTypeOK, LogTypeOK, AttemptBudget
  <2>2. CASE k = j
    BY <2>2, <1>a, <1>b, <1>c, QueueAssumption
       DEF RowsOK, RowTypeOK, LogTypeOK, AttemptBudget, EndFits, ClaimableStatus
  <2>3. QED BY <2>1, <2>2
<1>6. CompletedResultIsCurrent'
  BY <1>c DEF RowsOK, RowTypeOK, CompletedResultIsCurrent, EndFits, Stored
<1>7. CancelHonoured'
  BY <1>c DEF RowsOK, RowTypeOK, CancelHonoured, EndFits
<1>8. TerminalKept
  BY <1>c DEF TerminalKept, Terminal, LogEvent, RowTypeOK, LogTypeOK, TerminalStatus, ActiveStatus
<1>9. OwnersFollow
  BY <1>c, QueueAssumption DEF OwnersFollow, RowTypeOK
<1>10. QED BY <1>1, <1>2, <1>3, <1>4, <1>5, <1>6, <1>7, <1>8, <1>9 DEF RowsOK

\* So does the insertion of a job (enqueue).
LEMMA EnqueueRows ==
  ASSUME RowsOK, NEW j \in Job, Enqueue(j)
  PROVE  RowsOK' /\ TerminalKept /\ OwnersFollow
<1>a. /\ status[j] = "absent"
      /\ status' = [status EXCEPT ![j] = "queued"]
      /\ UNCHANGED <<attempts, leaseOwner, leaseLeft, waitLeft, cancelAsked, stored>>
      /\ UNCHANGED <<attemptStatus, attemptWorker>>
      /\ events' = [events EXCEPT ![j] = Append(@, "job_queued")]
  BY DEF Enqueue, LogEvent
<1>b. RowTypeOK /\ LogTypeOK
  BY DEF RowsOK
<1>1. RowTypeOK'
  BY <1>a, <1>b DEF RowTypeOK, JobStatus, ClaimableStatus
<1>2. LogTypeOK'
  BY <1>a, <1>b DEF LogTypeOK, EventType
<1>3. AttemptsFit' /\ LeaseCoherent'
  BY <1>a, <1>b DEF RowsOK, RowTypeOK, AttemptsFit, LeaseCoherent, ActiveStatus
<1>4. AttemptBudget'
  <2>1. attempts[j] = 0
    BY <1>a DEF RowsOK, AttemptsFit
  <2>2. QED
    BY <1>a, <1>b, <2>1, QueueAssumption DEF RowsOK, RowTypeOK, AttemptBudget, ClaimableStatus
<1>5. CompletedResultIsCurrent' /\ CancelHonoured'
  BY <1>a, <1>b DEF RowsOK, RowTypeOK, CompletedResultIsCurrent, CancelHonoured
<1>6. TerminalKept /\ OwnersFollow
  BY <1>a, <1>b DEF TerminalKept, Terminal, OwnersFollow, RowTypeOK, LogTypeOK, TerminalStatus,
                    ActiveStatus
<1>7. QED BY <1>1, <1>2, <1>3, <1>4, <1>5, <1>6 DEF RowsOK

\* So does a cancellation, immediate or requested (request_cancel).
LEMMA RequestCancelRows ==
  ASSUME RowsOK, NEW j \in Job, RequestCancel(j)
  PROVE  RowsOK' /\ TerminalKept /\ OwnersFollow
<1>a. /\ status[j] \in ClaimableStatus \/ status[j] = "running"
      /\ status' = [status EXCEPT ![j] =
           IF status[j] \in ClaimableStatus THEN "cancelled" ELSE "cancel_requested"]
      /\ cancelAsked' = [cancelAsked EXCEPT ![j] = TRUE]
      /\ UNCHANGED <<attempts, leaseOwner, leaseLeft, stored, attemptStatus, attemptWorker>>
  BY DEF RequestCancel
<1>b. RowTypeOK /\ LogTypeOK
  BY DEF RowsOK
<1>1. RowTypeOK'
  <2>1. waitLeft' \in [Job -> Int]
    BY <1>b, QueueAssumption DEF RequestCancel, RowTypeOK, LongPast
  <2>2. QED
    BY <1>a, <1>b, <2>1 DEF RowTypeOK, JobStatus, ActiveStatus, TerminalStatus
<1>2. LogTypeOK'
  <2>1. events' \in [Job -> Seq(EventType)]
    BY <1>b DEF RequestCancel, LogEvent, LogTypeOK, EventType
  <2>2. QED BY <1>a, <1>b, <2>1 DEF LogTypeOK
<1>3. AttemptsFit' /\ LeaseCoherent'
  BY <1>a, <1>b DEF RowsOK, RowTypeOK, AttemptsFit, LeaseCoherent, ActiveStatus, ClaimableStatus
<1>4. AttemptBudget'
  BY <1>a, <1>b DEF RowsOK, RowTypeOK, AttemptBudget, ClaimableStatus
<1>5. CompletedResultIsCurrent' /\ CancelHonoured'
  BY <1>a, <1>b DEF RowsOK, RowTypeOK, CompletedResultIsCurrent, CancelHonoured, ClaimableStatus
<1>6. TerminalKept /\ OwnersFollow
  BY <1>a, <1>b DEF RequestCancel, LogEvent, TerminalKept, Terminal, OwnersFollow, RowTypeOK,
                    LogTypeOK, TerminalStatus, ActiveStatus, ClaimableStatus
<1>7. QED BY <1>1, <1>2, <1>3, <1>4, <1>5, <1>6 DEF RowsOK

\* So does the commit of a result (complete).
LEMMA CompleteRows ==
  ASSUME RowsOK, NEW w \in Worker, wjob[w] \in Job, NEW d \in Reading, NEW kind \in FinalKind,
         Committable(w, d), wattempt[w] = attempts[wjob[w]], CompleteRow(w, kind)
  PROVE  RowsOK' /\ TerminalKept /\ OwnersFollow
<1> DEFINE j == wjob[w]
           final == IF status[j] = "cancel_requested" THEN "cancelled" ELSE "completed"
           result == IF final = "completed"
                     THEN [kind |-> kind, attempt |-> wattempt[w]] ELSE stored[j]
           e == IF final = "completed" THEN "job_completed" ELSE "job_cancelled"
<1>1. /\ EndRow(j, final, waitLeft[j], result)
      /\ EndAttempt(j, final)
      /\ LogEvent(j, e)
  BY DEF CompleteRow
<1>2. status[j] \in ActiveStatus
  BY DEF Committable
<1>3. result \in Stored
  BY DEF RowsOK, RowTypeOK, Stored
<1>4. final = "completed" <=> result.kind \in FinalKind
  BY <1>2 DEF RowsOK, CompletedResultIsCurrent, ActiveStatus
<1>5. EndFits(j, final, final, result)
  BY <1>2, <1>3, <1>4 DEF EndFits, ActiveStatus
<1>6. waitLeft[j] \in Int /\ e \in EventType
  BY DEF RowsOK, RowTypeOK, EventType
<1> HIDE DEF j, final, result, e
<1>7. j \in Job
  BY DEF j
<1>8. QED BY <1>1, <1>2, <1>5, <1>6, <1>7, EndRows

\* So does the report of a failure (fail_attempt).
LEMMA FailRows ==
  ASSUME RowsOK, NEW w \in Worker, wjob[w] \in Job, NEW d \in Reading,
         wattempt[w] = attempts[wjob[w]], status[wjob[w]] \in ActiveStatus,
         FailRow(w, d)
  PROVE  RowsOK' /\ TerminalKept /\ OwnersFollow
<1> DEFINE j == wjob[w]
           next == CASE status[j] = "cancel_requested" -> "cancelled"
                     [] /\ status[j] # "cancel_requested"
                        /\ verdict[w].retryable
                        /\ attempts[j] < MaxAttempts -> "retry_wait"
                     [] OTHER -> "failed"
           wait == IF next = "retry_wait" THEN d + RetryDelay[wattempt[w]] ELSE LongPast
           result == IF verdict[w].partial
                     THEN [kind |-> "partial", attempt |-> wattempt[w]] ELSE stored[j]
           how == IF next = "retry_wait" THEN "failed" ELSE next
           e == CASE next = "retry_wait" -> "job_retry_scheduled"
                  [] next = "cancelled" -> "job_cancelled"
                  [] next = "failed" -> "job_failed"
<1>1. EndRow(j, next, wait, result) /\ EndAttempt(j, how) /\ LogEvent(j, e)
  BY DEF FailRow
<1>2. attempts[j] \in 1..MaxAttempts /\ stored[j] \in Stored /\ status[j] # "completed"
  BY QueueAssumption DEF RowsOK, RowTypeOK, AttemptsFit, ActiveStatus
<1>3. stored[j].kind \notin FinalKind
  BY <1>2 DEF RowsOK, CompletedResultIsCurrent
<1>4. result \in Stored /\ result.kind \notin FinalKind
  BY <1>2, <1>3 DEF Stored, FinalKind
<1>5. \/ next = "cancelled" /\ status[j] = "cancel_requested"
      \/ next = "retry_wait" /\ status[j] = "running" /\ attempts[j] < MaxAttempts
      \/ next = "failed" /\ status[j] = "running"
  BY DEF ActiveStatus
<1>6. EndFits(j, next, how, result)
  BY <1>4, <1>5 DEF EndFits
<1>7. wait \in Int
  BY <1>2, QueueAssumption DEF Reading, LongPast
<1>8. e \in EventType
  BY <1>5 DEF EventType
<1> HIDE DEF j, next, wait, result, how, e
<1>9. j \in Job /\ status[j] \in ActiveStatus
  BY DEF j
<1>10. QED BY <1>1, <1>6, <1>7, <1>8, <1>9, EndRows

\* So does the recovery of a batch of leases (recover_stale_leases).
LEMMA RecoverRows ==
  ASSUME RowsOK, NEW w \in Worker, NEW S \in SUBSET Job, NEW d \in Reading, Recover(w, S, d)
  PROVE  RowsOK' /\ TerminalKept /\ OwnersFollow
<1>a. RowTypeOK /\ LogTypeOK
  BY DEF RowsOK
<1>b. \A k \in S : status[k] \in ActiveStatus /\ attempts[k] \in 1..MaxAttempts
  BY QueueAssumption DEF Recover, Expired, RowsOK, RowTypeOK, AttemptsFit
<1>c. \A k \in S : \/ RecoveredStatus(k) = "cancelled" /\ status[k] = "cancel_requested"
                   \/ /\ RecoveredStatus(k) = "retry_wait" /\ status[k] = "running"
                      /\ attempts[k] < MaxAttempts
                   \/ RecoveredStatus(k) = "failed" /\ status[k] = "running"
  BY <1>b DEF RecoveredStatus, ActiveStatus
<1>d. /\ status' = [k \in Job |-> IF k \in S THEN RecoveredStatus(k) ELSE status[k]]
      /\ leaseOwner' = [k \in Job |-> IF k \in S THEN NoWorker ELSE leaseOwner[k]]
      /\ attemptStatus' = [k \in Job |->
           IF k \in S THEN [attemptStatus[k] EXCEPT ![attempts[k]] = "abandoned"]
           ELSE attemptStatus[k]]
      /\ UNCHANGED <<attempts, cancelAsked, stored, attemptWorker>>
  BY DEF Recover
<1>1. RowTypeOK'
  <2>1. leaseLeft' \in [Job -> Int] /\ waitLeft' \in [Job -> Int]
    <3>1. d \in Int /\ LongPast \in Int /\ d + RetryDelay[1] \in Int
      BY QueueAssumption DEF LongPast, Reading
    <3>2. QED BY <1>a, <3>1 DEF Recover, RowTypeOK
  <2>2. status' \in [Job -> JobStatus]
    BY <1>a, <1>c, <1>d DEF RowTypeOK, JobStatus, ClaimableStatus, TerminalStatus
  <2>3. leaseOwner' \in [Job -> Worker \cup {NoWorker}]
    BY <1>a, <1>d DEF RowTypeOK
  <2>4. QED BY <1>a, <1>d, <2>1, <2>2, <2>3 DEF RowTypeOK
<1>2. LogTypeOK'
  <2>1. attemptStatus' \in [Job -> [1..MaxAttempts -> AttemptStatus]]
    BY <1>a, <1>b, <1>d DEF LogTypeOK, AttemptStatus
  <2>2. events' \in [Job -> Seq(EventType)]
    BY <1>a DEF Recover, LogTypeOK, EventType
  <2>3. QED BY <1>a, <1>d, <2>1, <2>2 DEF LogTypeOK
<1>e. TerminalKept /\ OwnersFollow
  <2>1. \A k \in Job \ S : events'[k] = events[k]
    BY DEF Recover
  <2>2. TerminalKept
    BY <1>b, <1>d, <2>1 DEF TerminalKept, Terminal, TerminalStatus, ActiveStatus
  <2>3. OwnersFollow
    BY <1>d, QueueAssumption DEF OwnersFollow
  <2>4. QED BY <2>2, <2>3
<1> SUFFICES ASSUME NEW k \in Job
             PROVE /\ AttemptsFit!(k)' /\ LeaseCoherent!(k)' /\ AttemptBudget!(k)'
                   /\ CompletedResultIsCurrent!(k)' /\ CancelHonoured!(k)'
  BY <1>1, <1>2, <1>e DEF RowsOK, AttemptsFit, LeaseCoherent, AttemptBudget,
                    CompletedResultIsCurrent, CancelHonoured
<1>3. CASE k \notin S
  BY <1>3, <1>d DEF RowsOK, AttemptsFit, LeaseCoherent, AttemptBudget,
                    CompletedResultIsCurrent, CancelHonoured
<1>4. CASE k \in S
  <2>1. AttemptsFit!(k)' /\ CompletedResultIsCurrent!(k)' /\ CancelHonoured!(k)'
    BY <1>4, <1>b, <1>c, <1>d DEF RowsOK, AttemptsFit, CompletedResultIsCurrent, CancelHonoured,
                                 ActiveStatus
  <2>2. LeaseCoherent!(k)'
    BY <1>4, <1>a, <1>b, <1>c, <1>d, QueueAssumption
       DEF RowsOK, LogTypeOK, LeaseCoherent, ActiveStatus
  <2>3. AttemptBudget!(k)'
    <3>1. /\ attemptStatus'[k] = [attemptStatus[k] EXCEPT ![attempts[k]] = "abandoned"]
          /\ attemptStatus[k] \in [1..MaxAttempts -> AttemptStatus]
          /\ attempts'[k] = attempts[k] /\ attempts[k] \in 1..MaxAttempts
          /\ status'[k] = RecoveredStatus(k)
      BY <1>4, <1>a, <1>b, <1>d DEF LogTypeOK
    <3>2. AttemptBudget!(k)
      BY DEF RowsOK, AttemptBudget
    <3>3. status'[k] \in ClaimableStatus => attempts'[k] < MaxAttempts
      BY <1>4, <1>c, <3>1 DEF ClaimableStatus
    <3>4. ASSUME NEW n \in 1..MaxAttempts
          PROVE  /\ attemptStatus'[k][n] = "none" <=> n > attempts'[k]
                 /\ n <= attempts'[k] /\ (n < attempts'[k] \/ status'[k] \in ClaimableStatus)
                      => attemptStatus'[k][n] \in {"failed", "abandoned"}
      BY <3>1, <3>2, QueueAssumption
    <3>5. QED BY <3>1, <3>3, <3>4
  <2>4. QED BY <2>1, <2>2, <2>3
<1>5. QED BY <1>3, <1>4

\* Leases that age or are renewed keep the rows coherent.
LEMMA TimeRows ==
  ASSUME RowsOK, leaseLeft' \in [Job -> Int], waitLeft' \in [Job -> Int],
         UNCHANGED <<status, attempts, leaseOwner, cancelAsked, stored, logVars>>
  PROVE  RowsOK' /\ TerminalKept /\ OwnersFollow
<1>1. RowTypeOK' /\ LogTypeOK'
  BY DEF RowsOK, RowTypeOK, LogTypeOK, logVars
<1>2. AttemptsFit' /\ LeaseCoherent' /\ AttemptBudget'
  BY DEF RowsOK, AttemptsFit, LeaseCoherent, AttemptBudget, logVars
<1>3. CompletedResultIsCurrent' /\ CancelHonoured'
  BY DEF RowsOK, CompletedResultIsCurrent, CancelHonoured
<1>4. TerminalKept /\ OwnersFollow
  BY DEF TerminalKept, OwnersFollow, logVars
<1>5. QED BY <1>1, <1>2, <1>3, <1>4 DEF RowsOK

\* In particular a step that only moves processes.
COROLLARY StutterRows ==
  ASSUME RowsOK, UNCHANGED <<rowVars, logVars>>
  PROVE  RowsOK' /\ TerminalKept /\ OwnersFollow
BY TimeRows DEF RowsOK, RowTypeOK, rowVars, logVars

-----------------------------------------------------------------------------
(***************************************************************************)
(* Processes.                                                              *)
(***************************************************************************)

\* A process that owns its lease after a step owned it, at the same attempt, before.
LEMMA OwnerKept ==
  ASSUME IInv, OwnersFollow, ProcsFollow
  PROVE  BusyKnowsAttempt' /\ OwnerIsCurrent'
<1> SUFFICES ASSUME NEW v \in Worker, pc'[v] \in BusyPc
             PROVE  /\ wjob'[v] \in Job /\ wattempt'[v] \in 1..attempts'[wjob'[v]]
                    /\ leaseOwner'[wjob'[v]] = v =>
                         wattempt'[v] = attempts'[wjob'[v]] /\ status'[wjob'[v]] \in ActiveStatus
  BY DEF BusyKnowsAttempt, OwnerIsCurrent
<1>1. pc[v] \in BusyPc /\ wjob'[v] = wjob[v] /\ wattempt'[v] = wattempt[v]
  BY DEF ProcsFollow
<1>2. wjob[v] \in Job /\ wattempt[v] \in 1..attempts[wjob[v]]
  BY <1>1 DEF IInv, ProcsOK, BusyKnowsAttempt
<1>3. leaseOwner[wjob[v]] = v =>
        wattempt[v] = attempts[wjob[v]] /\ status[wjob[v]] \in ActiveStatus
  BY <1>1 DEF IInv, OwnerIsCurrent
<1>4. QED BY <1>1, <1>2, <1>3 DEF OwnersFollow

\* Candidates stay justified while finished jobs stay as they are.
LEMMA CandidatesKept ==
  ASSUME IInv, TerminalKept, candidates' = candidates
  PROVE  candidates' \subseteq Job /\ CandidateOnlyIfSupported'
BY DEF IInv, TerminalKept, Terminal, TerminalStatus, CandidateOnlyIfSupported

\* A process that leaves its attempt, in the finally block of run_once or by dying.
LEMMA LeaveProcs ==
  ASSUME ProcTypeOK, NEW w \in Worker, NEW where \in {"idle", "down"},
         pc' = [pc EXCEPT ![w] = where], wjob' = [wjob EXCEPT ![w] = NoJob],
         wattempt' = [wattempt EXCEPT ![w] = 0], lost' = [lost EXCEPT ![w] = FALSE],
         verdict' = [verdict EXCEPT ![w] = NoVerdict], UNCHANGED beatVars
  PROVE  ProcTypeOK' /\ ProcsFollow
<1>1. NoVerdict \in Verdict /\ 0 \in 0..MaxAttempts
  BY QueueAssumption DEF NoVerdict, Verdict
<1>2. ProcTypeOK'
  BY <1>1 DEF ProcTypeOK, beatVars
<1>3. ProcsFollow
  BY DEF ProcTypeOK, ProcsFollow, BusyPc
<1>4. QED BY <1>2, <1>3

\* A process back in its loop keeps the types.
COROLLARY LoopProcs ==
  ASSUME ProcTypeOK, NEW w \in Worker, BackToLoop(w), UNCHANGED beatVars
  PROVE  ProcTypeOK' /\ ProcsFollow
BY LeaveProcs DEF BackToLoop

\* A process that goes on to its next step keeps its job and attempt.
LEMMA GotoProcs ==
  ASSUME ProcTypeOK, NEW w \in Worker, NEW where \in BusyPc \cup {"idle"}, Goto(w, where),
         where \in BusyPc => pc[w] \in BusyPc, UNCHANGED beatVars
  PROVE  ProcTypeOK' /\ ProcsFollow
BY DEF ProcTypeOK, Goto, beatVars, ProcsFollow

\* So does one that turns to report an error.
LEMMA ReportProcs ==
  ASSUME ProcTypeOK, NEW w \in Worker, NEW v \in Verdict, ReportError(w, v),
         pc[w] \in BusyPc, UNCHANGED beatVars
  PROVE  ProcTypeOK' /\ ProcsFollow
BY DEF ProcTypeOK, ReportError, beatVars, BusyPc, ProcsFollow

\* The lease_lost flag disturbs nothing else.
LEMMA FlagProcs ==
  ASSUME ProcTypeOK, NEW w \in Worker, FlagLost(w) \/ UNCHANGED procVars, BeatArrives(w),
         QueueAssumption
  PROVE  ProcTypeOK' /\ ProcsFollow
<1>1. UNCHANGED <<pc, wjob, wattempt, verdict>> /\ lost' \in [Worker -> BOOLEAN]
  BY DEF FlagLost, procVars, ProcTypeOK
<1>2. BeatFloor \in Int
  BY QueueAssumption DEF BeatFloor
<1>3. /\ beatJob' \in [Worker -> Job \cup {NoJob}]
      /\ beatAttempt' \in [Worker -> 0..MaxAttempts]
      /\ beatNow' \in [Worker -> Int]
  BY <1>2, QueueAssumption DEF ProcTypeOK, BeatArrives
<1>4. QED BY <1>1, <1>3 DEF ProcTypeOK, ProcsFollow

-----------------------------------------------------------------------------
(***************************************************************************)
(* The invariant is inductive.                                             *)
(***************************************************************************)

\* What it takes when a step numbers no attempt and remembers no result.
LEMMA StepKeepsIInv ==
  ASSUME IInv, RowsOK', TerminalKept, OwnersFollow, ProcTypeOK', ProcsFollow,
         candidates' = candidates
  PROVE  IInv' /\ TerminalKept
BY OwnerKept, CandidatesKept DEF IInv, ProcsOK

\* A claim whose reply arrives preserves the invariant.
LEMMA ClaimStep ==
  ASSUME IInv, NEW w \in Worker, NEW j \in Job, NEW d \in Reading, Claim(w, j, d)
  PROVE  IInv' /\ TerminalKept
<1>1. RowsOK' /\ TerminalKept /\ attempts[j] + 1 \in 1..MaxAttempts
  BY ClaimRows DEF IInv, Claim
<1>2. /\ pc' = [pc EXCEPT ![w] = "working"]
      /\ wjob' = [wjob EXCEPT ![w] = j]
      /\ wattempt' = [wattempt EXCEPT ![w] = attempts[j] + 1]
      /\ UNCHANGED <<lost, verdict, beatVars>>
  BY DEF Claim
<1>3. /\ attempts' = [attempts EXCEPT ![j] = attempts[j] + 1]
      /\ leaseOwner' = [leaseOwner EXCEPT ![j] = w]
      /\ status' = [status EXCEPT ![j] = "running"]
  BY DEF Claim, ClaimRow
<1>4. /\ pc \in [Worker -> BusyPc \cup {"idle", "down"}]
      /\ wjob \in [Worker -> Job \cup {NoJob}]
      /\ wattempt \in [Worker -> 0..MaxAttempts]
      /\ attempts \in [Job -> 0..MaxAttempts]
      /\ leaseOwner \in [Job -> Worker \cup {NoWorker}]
      /\ status \in [Job -> JobStatus]
  BY DEF IInv, RowsOK, RowTypeOK, ProcsOK, ProcTypeOK
<1>5. ProcTypeOK'
  BY <1>1, <1>2 DEF IInv, ProcsOK, ProcTypeOK, BusyPc, beatVars
<1>6. BusyKnowsAttempt' /\ OwnerIsCurrent'
  <2> SUFFICES ASSUME NEW v \in Worker, pc'[v] \in BusyPc
               PROVE  /\ wjob'[v] \in Job /\ wattempt'[v] \in 1..attempts'[wjob'[v]]
                      /\ leaseOwner'[wjob'[v]] = v =>
                           /\ wattempt'[v] = attempts'[wjob'[v]]
                           /\ status'[wjob'[v]] \in ActiveStatus
    BY DEF BusyKnowsAttempt, OwnerIsCurrent
  <2>1. CASE v = w
    BY <2>1, <1>1, <1>2, <1>3, <1>4 DEF ActiveStatus
  <2>2. CASE v # w
    <3>1. pc[v] \in BusyPc /\ wjob'[v] = wjob[v] /\ wattempt'[v] = wattempt[v]
      BY <2>2, <1>2, <1>4
    <3>2. wjob[v] \in Job /\ wattempt[v] \in 1..attempts[wjob[v]]
      BY <3>1 DEF IInv, ProcsOK, BusyKnowsAttempt
    <3>3. leaseOwner[wjob[v]] = v =>
            wattempt[v] = attempts[wjob[v]] /\ status[wjob[v]] \in ActiveStatus
      BY <3>1 DEF IInv, OwnerIsCurrent
    <3>4. CASE wjob[v] = j
      BY <3>4, <3>1, <3>2, <2>2, <1>1, <1>3, <1>4
    <3>5. CASE wjob[v] # j
      BY <3>5, <3>1, <3>2, <3>3, <1>3, <1>4
    <3>6. QED BY <3>4, <3>5
  <2>3. QED BY <2>1, <2>2
<1>7. candidates' \subseteq Job /\ CandidateOnlyIfSupported'
  BY <1>1, CandidatesKept DEF Claim
<1>8. QED BY <1>1, <1>5, <1>6, <1>7 DEF IInv, ProcsOK

\* So does a claim whose reply is lost.
LEMMA ClaimUnacknowledgedStep ==
  ASSUME IInv, NEW w \in Worker, NEW j \in Job, NEW d \in Reading, ClaimUnacknowledged(w, j, d)
  PROVE  IInv' /\ TerminalKept
<1>1. RowsOK' /\ TerminalKept /\ attempts[j] + 1 \in 1..MaxAttempts
  BY ClaimRows DEF IInv, ClaimUnacknowledged
<1>2. pc[w] = "idle" /\ UNCHANGED <<procVars, beatVars, candidates>>
  BY DEF ClaimUnacknowledged
<1>3. /\ attempts' = [attempts EXCEPT ![j] = attempts[j] + 1]
      /\ leaseOwner' = [leaseOwner EXCEPT ![j] = w]
      /\ status' = [status EXCEPT ![j] = "running"]
  BY DEF ClaimUnacknowledged, ClaimRow
<1>4. /\ attempts \in [Job -> 0..MaxAttempts]
      /\ leaseOwner \in [Job -> Worker \cup {NoWorker}]
      /\ status \in [Job -> JobStatus]
  BY DEF IInv, RowsOK, RowTypeOK
<1>5. ProcTypeOK'
  BY <1>2 DEF IInv, ProcsOK, ProcTypeOK, procVars, beatVars
<1>6. BusyKnowsAttempt' /\ OwnerIsCurrent'
  <2> SUFFICES ASSUME NEW v \in Worker, pc[v] \in BusyPc
               PROVE  /\ wjob[v] \in Job /\ wattempt[v] \in 1..attempts'[wjob[v]]
                      /\ leaseOwner'[wjob[v]] = v =>
                           wattempt[v] = attempts'[wjob[v]] /\ status'[wjob[v]] \in ActiveStatus
    BY <1>2 DEF BusyKnowsAttempt, OwnerIsCurrent, procVars
  <2>1. v # w
    BY <1>2 DEF BusyPc
  <2>2. wjob[v] \in Job /\ wattempt[v] \in 1..attempts[wjob[v]]
    BY DEF IInv, ProcsOK, BusyKnowsAttempt
  <2>3. leaseOwner[wjob[v]] = v =>
          wattempt[v] = attempts[wjob[v]] /\ status[wjob[v]] \in ActiveStatus
    BY DEF IInv, OwnerIsCurrent
  <2>4. CASE wjob[v] = j
    BY <2>4, <2>1, <2>2, <1>1, <1>3, <1>4
  <2>5. CASE wjob[v] # j
    BY <2>5, <2>2, <2>3, <1>3, <1>4
  <2>6. QED BY <2>4, <2>5
<1>7. candidates' \subseteq Job /\ CandidateOnlyIfSupported'
  BY <1>1, <1>2, CandidatesKept
<1>8. QED BY <1>1, <1>5, <1>6, <1>7 DEF IInv, ProcsOK

\* So do commits of a result, refused and unanswered ones included.
LEMMA CommitStep ==
  ASSUME IInv, NEW w \in Worker, NEW kind \in FinalKind, NEW d \in Reading,
         Complete(w, kind, d) \/ CompleteErrs(w, kind, d)
  PROVE  IInv' /\ TerminalKept
<1>1. /\ pc[w] = "committing" /\ pc[w] \in BusyPc
      /\ UNCHANGED <<beatVars, candidates>>
      /\ (Committable(w, d) /\ CompleteRow(w, kind)) \/ UNCHANGED <<rowVars, logVars>>
  BY DEF Complete, CompleteErrs, BusyPc
<1>2. RowsOK' /\ TerminalKept /\ OwnersFollow
  <2>1. CASE Committable(w, d) /\ CompleteRow(w, kind)
    <3>1. wjob[w] \in Job
      BY <1>1 DEF IInv, ProcsOK, BusyKnowsAttempt
    <3>2. wattempt[w] = attempts[wjob[w]]
      BY <1>1, <2>1 DEF IInv, OwnerIsCurrent, Committable, Owns
    <3>3. QED BY <2>1, <3>1, <3>2, CompleteRows DEF IInv
  <2>2. CASE UNCHANGED <<rowVars, logVars>>
    BY <2>2, StutterRows DEF IInv
  <2>3. QED BY <1>1, <2>1, <2>2
<1>3. ProcTypeOK' /\ ProcsFollow
  <2>1. ProcTypeOK /\ Fatal \in Verdict
    BY DEF IInv, ProcsOK, Fatal, NoVerdict, Verdict
  <2>2. BackToLoop(w) \/ Goto(w, "remembering") \/ ReportError(w, Fatal)
    BY DEF Complete, CompleteErrs
  <2>3. "remembering" \in BusyPc \cup {"idle"}
    BY DEF BusyPc
  <2>4. CASE BackToLoop(w)
    BY <1>1, <2>1, <2>4, LoopProcs
  <2>5. CASE Goto(w, "remembering")
    BY <1>1, <2>1, <2>3, <2>5, GotoProcs
  <2>6. CASE ReportError(w, Fatal)
    BY <1>1, <2>1, <2>6, ReportProcs
  <2>7. QED BY <2>2, <2>4, <2>5, <2>6
<1>4. QED BY <1>1, <1>2, <1>3, StepKeepsIInv

\* So does the creation of a memory candidate.
LEMMA RememberStep ==
  ASSUME IInv, NEW w \in Worker, Remember(w)
  PROVE  IInv' /\ TerminalKept
<1>1. pc[w] \in BusyPc /\ UNCHANGED <<rowVars, logVars, beatVars>>
  BY DEF Remember, BusyPc
<1>2. RowsOK' /\ TerminalKept /\ OwnersFollow
  BY <1>1, StutterRows DEF IInv
<1>3. ProcTypeOK' /\ ProcsFollow
  <2>1. ProcTypeOK /\ Fatal \in Verdict
    BY DEF IInv, ProcsOK, Fatal, NoVerdict, Verdict
  <2>2. CASE BackToLoop(w)
    BY <1>1, <2>1, <2>2, LoopProcs
  <2>3. CASE ReportError(w, Fatal)
    BY <1>1, <2>1, <2>3, ReportProcs
  <2>4. QED BY <2>2, <2>3 DEF Remember
<1>4. candidates' \subseteq Job /\ CandidateOnlyIfSupported'
  <2>1. wjob[w] \in Job
    BY <1>1 DEF IInv, ProcsOK, BusyKnowsAttempt
  <2>2. stored[wjob[w]].kind = "supported" => status[wjob[w]] = "completed"
    BY <2>1 DEF IInv, RowsOK, CompletedResultIsCurrent, FinalKind
  <2>3. QED
    BY <1>1, <2>1, <2>2 DEF IInv, Remember, CandidateOnlyIfSupported, rowVars
<1>5. QED BY <1>2, <1>3, <1>4, OwnerKept DEF IInv, ProcsOK

\* So do failure reports.
LEMMA FailStep ==
  ASSUME IInv, NEW w \in Worker, Fails(w)
  PROVE  IInv' /\ TerminalKept
<1>1. /\ pc[w] \in BusyPc /\ BackToLoop(w) /\ UNCHANGED <<beatVars, candidates>>
      /\ \/ UNCHANGED <<rowVars, logVars>>
         \/ \E d \in Reading : Owns(w, wjob[w], d) /\ FailRow(w, d)
  BY DEF Fails, FailAttempt, FailAttemptRejected, BusyPc
<1>2. RowsOK' /\ TerminalKept /\ OwnersFollow
  <2>1. CASE UNCHANGED <<rowVars, logVars>>
    BY <2>1, StutterRows DEF IInv
  <2>2. ASSUME NEW d \in Reading, Owns(w, wjob[w], d), FailRow(w, d)
        PROVE  RowsOK' /\ TerminalKept /\ OwnersFollow
    <3>1. wjob[w] \in Job
      BY <1>1 DEF IInv, ProcsOK, BusyKnowsAttempt
    <3>2. wattempt[w] = attempts[wjob[w]] /\ status[wjob[w]] \in ActiveStatus
      BY <1>1, <2>2 DEF IInv, OwnerIsCurrent, Owns
    <3>3. QED BY <2>2, <3>1, <3>2, FailRows DEF IInv
  <2>3. QED BY <1>1, <2>1, <2>2
<1>3. ProcTypeOK' /\ ProcsFollow
  BY <1>1, LoopProcs DEF IInv, ProcsOK
<1>4. QED BY <1>1, <1>2, <1>3, StepKeepsIInv

\* So does the end of a workflow.
LEMMA EndsWorkflowStep ==
  ASSUME IInv, NEW w \in Worker, EndsWorkflow(w)
  PROVE  IInv' /\ TerminalKept
<1>1. pc[w] \in BusyPc /\ UNCHANGED <<rowVars, logVars, beatVars, candidates>>
  BY DEF EndsWorkflow, WorkflowReturns, WorkflowRaises, ProgressRefused, BusyPc
<1>2. RowsOK' /\ TerminalKept /\ OwnersFollow
  BY <1>1, StutterRows DEF IInv
<1>3. ProcTypeOK' /\ ProcsFollow
  <2>1. ProcTypeOK
    BY DEF IInv, ProcsOK
  <2>2. CASE BackToLoop(w)
    BY <1>1, <2>1, <2>2, LoopProcs
  <2>3. CASE Goto(w, "committing")
    <3>1. "committing" \in BusyPc \cup {"idle"}
      BY DEF BusyPc
    <3>2. QED BY <1>1, <2>1, <2>3, <3>1, GotoProcs
  <2>4. CASE \E v \in Verdict : ReportError(w, v)
    BY <1>1, <2>1, <2>4, ReportProcs
  <2>5. QED
    BY <2>2, <2>3, <2>4 DEF EndsWorkflow, WorkflowReturns, WorkflowRaises, ProgressRefused
<1>4. QED BY <1>1, <1>2, <1>3, StepKeepsIInv

\* So does recovery.
LEMMA RecoverStep ==
  ASSUME IInv, NEW w \in Worker, NEW S \in SUBSET Job, NEW d \in Reading, Recover(w, S, d)
  PROVE  IInv' /\ TerminalKept
<1>1. UNCHANGED <<procVars, beatVars, candidates>>
  BY DEF Recover
<1>2. RowsOK' /\ TerminalKept /\ OwnersFollow
  BY RecoverRows DEF IInv
<1>3. ProcTypeOK' /\ ProcsFollow
  BY <1>1 DEF IInv, ProcsOK, ProcTypeOK, ProcsFollow, procVars, beatVars
<1>4. QED BY <1>1, <1>2, <1>3, StepKeepsIInv

\* So do heartbeats, in whichever attempt they land.
LEMMA HeartbeatStep ==
  ASSUME IInv, NEW w \in Worker, Heartbeats(w)
  PROVE  IInv' /\ TerminalKept
<1>1. RowTypeOK /\ ProcTypeOK
  BY DEF IInv, RowsOK, ProcsOK
<1>2. ASSUME NEW d \in Reading, HeartbeatSend(w, d)
      PROVE  IInv' /\ TerminalKept
  <2>1. UNCHANGED <<rowVars, logVars, procVars, candidates>>
    BY <1>2 DEF HeartbeatSend
  <2>2. d \in Int
    BY QueueAssumption DEF Reading
  <2>3. ProcTypeOK' /\ ProcsFollow
    BY <1>1, <1>2, <2>1, <2>2 DEF HeartbeatSend, ProcTypeOK, ProcsFollow, procVars
  <2>4. QED BY <2>1, <2>3, StutterRows, StepKeepsIInv DEF IInv
<1>3. ASSUME NEW acknowledged \in BOOLEAN, HeartbeatLands(w, acknowledged)
      PROVE  IInv' /\ TerminalKept
  <2>1. leaseLeft' \in [Job -> Int]
    BY <1>1, <1>3, QueueAssumption DEF HeartbeatLands, RowTypeOK, ProcTypeOK
  <2>2. /\ UNCHANGED <<status, attempts, leaseOwner, waitLeft, cancelAsked, stored>>
        /\ UNCHANGED <<logVars, candidates>>
    BY <1>3 DEF HeartbeatLands
  <2>3. RowsOK' /\ TerminalKept /\ OwnersFollow
    BY <1>1, <2>1, <2>2, TimeRows DEF IInv, RowTypeOK
  <2>4. BeatArrives(w) /\ (FlagLost(w) \/ UNCHANGED procVars)
    BY <1>3 DEF HeartbeatLands
  <2>5. QED BY <1>1, <2>2, <2>3, <2>4, FlagProcs, StepKeepsIInv, QueueAssumption
<1>4. CASE HeartbeatFails(w)
  <2>1. BeatArrives(w) /\ FlagLost(w) /\ UNCHANGED <<rowVars, logVars, candidates>>
    BY <1>4 DEF HeartbeatFails
  <2>2. QED BY <1>1, <2>1, FlagProcs, StutterRows, StepKeepsIInv, QueueAssumption DEF IInv
<1>5. QED BY <1>2, <1>3, <1>4 DEF Heartbeats

\* So do crashes and restarts.
LEMMA CrashStep ==
  ASSUME IInv, NEW w \in Worker, Crash(w) \/ Restart(w)
  PROVE  IInv' /\ TerminalKept
<1>1. UNCHANGED <<rowVars, logVars, beatVars, candidates>> /\ ProcTypeOK
  BY DEF IInv, ProcsOK, Crash, Restart
<1>2. ProcTypeOK' /\ ProcsFollow
  <2>1. CASE Crash(w)
    BY <1>1, <2>1, LeaveProcs DEF Crash
  <2>2. CASE Restart(w)
    <3>1. Goto(w, "idle") /\ "idle" \notin BusyPc
      BY <2>2 DEF Restart, BusyPc
    <3>2. QED BY <1>1, <3>1, GotoProcs
  <2>3. QED BY <2>1, <2>2
<1>3. QED BY <1>1, <1>2, StutterRows, StepKeepsIInv DEF IInv

\* So does the passing of time.
LEMMA TickStep ==
  ASSUME IInv, Tick
  PROVE  IInv' /\ TerminalKept
<1>1. /\ UNCHANGED <<status, attempts, leaseOwner, cancelAsked, stored, logVars>>
      /\ UNCHANGED <<procVars, beatJob, beatAttempt, candidates>>
  BY DEF Tick
<1>2. leaseLeft' \in [Job -> Int] /\ waitLeft' \in [Job -> Int]
  BY QueueAssumption DEF IInv, RowsOK, RowTypeOK, Tick, Aged, LongPast
<1>3. beatNow' \in [Worker -> Int]
  BY QueueAssumption DEF IInv, ProcsOK, ProcTypeOK, Tick, Aged, BeatFloor
<1>4. ProcTypeOK' /\ ProcsFollow
  BY <1>1, <1>3 DEF IInv, ProcsOK, ProcTypeOK, ProcsFollow, procVars
<1>5. QED BY <1>1, <1>2, <1>4, TimeRows, StepKeepsIInv DEF IInv

\* So do the requests of clients.
LEMMA ClientStep ==
  ASSUME IInv, Client
  PROVE  IInv' /\ TerminalKept
<1>1. PICK j \in Job : Enqueue(j) \/ RequestCancel(j)
  BY DEF Client
<1>2. RowsOK' /\ TerminalKept /\ OwnersFollow
  BY <1>1, EnqueueRows, RequestCancelRows DEF IInv
<1>3. UNCHANGED <<procVars, beatVars, candidates>>
  BY <1>1 DEF Enqueue, RequestCancel
<1>4. ProcTypeOK' /\ ProcsFollow
  BY <1>3 DEF IInv, ProcsOK, ProcTypeOK, ProcsFollow, procVars, beatVars
<1>5. QED BY <1>2, <1>3, <1>4, StepKeepsIInv

\* Every step of the queue preserves the invariant and leaves finished jobs alone.
THEOREM NextKeepsIInv == IInv /\ [Next]_vars => IInv' /\ TerminalKept
<1> SUFFICES ASSUME IInv, [Next]_vars
             PROVE  IInv' /\ TerminalKept
  OBVIOUS
<1>1. CASE UNCHANGED vars
  <2>1. UNCHANGED <<rowVars, logVars, procVars, beatVars, candidates>>
    BY <1>1 DEF vars
  <2>2. ProcTypeOK' /\ ProcsFollow
    BY <2>1 DEF IInv, ProcsOK, ProcTypeOK, ProcsFollow, procVars, beatVars
  <2>3. QED BY <2>1, <2>2, StutterRows, StepKeepsIInv DEF IInv
<1>2. CASE Tick \/ Client
  BY <1>2, TickStep, ClientStep
<1>3. ASSUME NEW w \in Worker, Process(w)
      PROVE  IInv' /\ TerminalKept
  <2>1. CASE Claims(w)
    BY <2>1, ClaimStep, ClaimUnacknowledgedStep DEF Claims
  <2>2. CASE EndsWorkflow(w)
    BY <2>2, EndsWorkflowStep
  <2>3. CASE Commits(w)
    BY <2>3, CommitStep DEF Commits
  <2>4. CASE Remember(w)
    BY <2>4, RememberStep
  <2>5. CASE Fails(w)
    BY <2>5, FailStep
  <2>6. CASE Recovers(w)
    BY <2>6, RecoverStep DEF Recovers
  <2>7. CASE Heartbeats(w)
    BY <2>7, HeartbeatStep
  <2>8. CASE Crash(w) \/ Restart(w)
    BY <2>8, CrashStep
  <2>9. QED BY <1>3, <2>1, <2>2, <2>3, <2>4, <2>5, <2>6, <2>7, <2>8 DEF Process
<1>4. QED BY <1>1, <1>2, <1>3 DEF Next

\* IInv, which TLC's runs check in its parts, holds in every reachable state.
THEOREM Invariance == Spec => []IInv
<1>1. IInv /\ [Next]_vars => IInv'
  BY NextKeepsIInv
<1>2. QED BY InitIInv, <1>1, PTL DEF Spec

-----------------------------------------------------------------------------
(***************************************************************************)
(* The theorems.                                                           *)
(***************************************************************************)

\* Every variable stays in its set: in particular no attempt is numbered above
\* MaxAttempts, whatever recoveries, retries and lost replies happen.
THEOREM TypeCorrect == Spec => []TypeOK
<1>1. IInv => TypeOK
  BY DEF IInv, RowsOK, ProcsOK, TypeOK
<1>2. QED BY Invariance, <1>1, PTL

\* The job row, its lease and its attempt records agree in every reachable state.
THEOREM LeasesCohere == Spec => [](LeaseCoherent /\ AttemptBudget)
<1>1. IInv => LeaseCoherent /\ AttemptBudget
  BY DEF IInv, RowsOK
<1>2. QED BY Invariance, <1>1, PTL

\* The worker id in lease_owner identifies the attempt: no process that owns the lease
\* of its job works on an attempt that was recovered and started again.
THEOREM OwnersAreCurrent == Spec => []OwnerIsCurrent
<1>1. IInv => OwnerIsCurrent
  BY DEF IInv
<1>2. QED BY Invariance, <1>1, PTL

\* A completed job shows the result of its latest attempt, whatever stale worker
\* commits late.
THEOREM ResultsAreCurrent == Spec => []CompletedResultIsCurrent
<1>1. IInv => CompletedResultIsCurrent
  BY DEF IInv, RowsOK
<1>2. QED BY Invariance, <1>1, PTL

\* An accepted cancellation is never undone by a commit, a failure report or a recovery.
THEOREM CancellationsHold == Spec => []CancelHonoured
<1>1. IInv => CancelHonoured
  BY DEF IInv, RowsOK
<1>2. QED BY Invariance, <1>1, PTL

\* Memory candidates come from supported results only.
THEOREM CandidatesAreSupported == Spec => []CandidateOnlyIfSupported
<1>1. IInv => CandidateOnlyIfSupported
  BY DEF IInv
<1>2. QED BY Invariance, <1>1, PTL

\* Finished jobs and their history never change again.
THEOREM TerminalsAreImmutable == Spec => TerminalImmutable
<1>1. IInv /\ [Next]_vars => [\A j \in Job : Terminal(j) =>
         /\ UNCHANGED <<status[j], attempts[j], leaseOwner[j], stored[j], cancelAsked[j]>>
         /\ UNCHANGED <<attemptStatus[j], attemptWorker[j], events[j]>>]_vars
  BY NextKeepsIInv DEF TerminalKept
<1>2. QED BY Invariance, <1>1, PTL DEF Spec, TerminalImmutable

-----------------------------------------------------------------------------
(***************************************************************************)
(* The event log.                                                          *)
(***************************************************************************)

\* A step moves a job and tells of it, or does neither.
Tells(j) ==
  \/ UNCHANGED <<status[j], events[j]>>
  \/ /\ ~ Terminal(j)
     /\ \E e \in EventType : events'[j] = Append(events[j], e) /\ status'[j] \in StatusAfter(e)

LEMMA TellingKeepsLog ==
  ASSUME LogTypeOK, EventsTellStatus, \A j \in Job : Tells(j)
  PROVE  EventsTellStatus'
<1> SUFFICES ASSUME NEW j \in Job
             PROVE  /\ status'[j] = "absent" <=> events'[j] = <<>>
                    /\ events'[j] # <<>> => status'[j] \in StatusAfter(events'[j][Len(events'[j])])
                    /\ \A i \in 1..(Len(events'[j]) - 1) :
                         events'[j][i] \notin {"job_cancelled", "job_failed", "job_completed"}
  BY DEF EventsTellStatus
<1>1. CASE UNCHANGED <<status[j], events[j]>>
  BY <1>1 DEF EventsTellStatus
<1>2. ASSUME ~ Terminal(j), NEW e \in EventType,
             events'[j] = Append(events[j], e), status'[j] \in StatusAfter(e)
      PROVE  /\ status'[j] # "absent" /\ events'[j] # <<>>
             /\ status'[j] \in StatusAfter(events'[j][Len(events'[j])])
             /\ \A i \in 1..(Len(events'[j]) - 1) :
                  events'[j][i] \notin {"job_cancelled", "job_failed", "job_completed"}
  <2> DEFINE old == events[j]
             new == events'[j]
  <2>1. old \in Seq(EventType)
    BY DEF LogTypeOK
  <2>2. /\ Len(new) = Len(old) + 1 /\ Len(old) \in Nat /\ new # <<>>
        /\ new[Len(old) + 1] = e
        /\ \A i \in 1..Len(old) : new[i] = old[i]
    BY <1>2, <2>1
  <2>3. status'[j] # "absent"
    BY <1>2 DEF StatusAfter, EventType
  <2>4. old # <<>> => old[Len(old)] \notin {"job_cancelled", "job_failed", "job_completed"}
    BY <1>2 DEF EventsTellStatus, StatusAfter, Terminal, TerminalStatus
  <2>5. \A i \in 1..(Len(old) - 1) :
          old[i] \notin {"job_cancelled", "job_failed", "job_completed"}
    BY DEF EventsTellStatus
  <2> HIDE DEF old, new
  <2>6. \A i \in 1..Len(old) :
          new[i] \notin {"job_cancelled", "job_failed", "job_completed"}
    <3> TAKE i \in 1..Len(old)
    <3>1. CASE i = Len(old)
      <4>1. old # <<>>
        BY <2>2, <3>1
      <4>2. QED BY <2>2, <2>4, <3>1, <4>1
    <3>2. CASE i # Len(old)
      BY <2>2, <2>5, <3>2
    <3>3. QED BY <3>1, <3>2
  <2>7. QED BY <1>2, <2>2, <2>3, <2>6 DEF old, new
<1>3. QED BY <1>1, <1>2 DEF Tells

\* Who changes one row and logs one event tells of it.
LEMMA OneRowTells ==
  ASSUME RowTypeOK, LogTypeOK, NEW j \in Job, ~ Terminal(j), NEW next, NEW e \in EventType,
         status' = [status EXCEPT ![j] = next], LogEvent(j, e), next \in StatusAfter(e)
  PROVE  \A k \in Job : Tells(k)
BY DEF RowTypeOK, LogTypeOK, LogEvent, Tells

LEMMA NextTells == IInv /\ [Next]_vars => \A j \in Job : Tells(j)
<1> SUFFICES ASSUME IInv, [Next]_vars PROVE \A j \in Job : Tells(j)
  OBVIOUS
<1>a. RowTypeOK /\ LogTypeOK
  BY DEF IInv, RowsOK
<1>b. ASSUME UNCHANGED <<status, events>> PROVE \A j \in Job : Tells(j)
  BY <1>b DEF Tells
<1>c. ASSUME NEW w \in Worker, pc[w] \in BusyPc PROVE wjob[w] \in Job
  BY <1>c DEF IInv, ProcsOK, BusyKnowsAttempt
<1>d. \A j \in Job : status[j] \in ActiveStatus \cup ClaimableStatus => ~ Terminal(j)
  BY DEF Terminal, TerminalStatus, ActiveStatus, ClaimableStatus
<1>1. ASSUME NEW j \in Job, Enqueue(j) PROVE \A k \in Job : Tells(k)
  BY <1>a, <1>1, OneRowTells DEF Enqueue, StatusAfter, EventType, Terminal, TerminalStatus
<1>2. ASSUME NEW j \in Job, RequestCancel(j) PROVE \A k \in Job : Tells(k)
  <2> DEFINE next == IF status[j] \in ClaimableStatus THEN "cancelled" ELSE "cancel_requested"
             e == IF status[j] \in ClaimableStatus THEN "job_cancelled" ELSE "job_cancel_requested"
  <2>1. status' = [status EXCEPT ![j] = next] /\ LogEvent(j, e) /\ ~ Terminal(j)
    BY <1>2, <1>d DEF RequestCancel, ActiveStatus
  <2>2. e \in EventType /\ next \in StatusAfter(e)
    BY DEF EventType, StatusAfter
  <2>3. QED BY <1>a, <2>1, <2>2, OneRowTells
<1>3. ASSUME NEW w \in Worker, NEW j \in Job, NEW d \in Reading, ClaimRow(w, j, d)
      PROVE  \A k \in Job : Tells(k)
  <2>1. status' = [status EXCEPT ![j] = "running"] /\ LogEvent(j, "job_started") /\ ~ Terminal(j)
    BY <1>3, <1>d DEF ClaimRow, Due
  <2>2. "job_started" \in EventType /\ "running" \in StatusAfter("job_started")
    BY DEF EventType, StatusAfter
  <2>3. QED BY <1>a, <2>1, <2>2, OneRowTells
<1>4. ASSUME NEW w \in Worker, NEW kind \in FinalKind, NEW d \in Reading, pc[w] \in BusyPc,
             Committable(w, d), CompleteRow(w, kind)
      PROVE  \A k \in Job : Tells(k)
  <2> DEFINE j == wjob[w]
             next == IF status[j] = "cancel_requested" THEN "cancelled" ELSE "completed"
             e == IF next = "completed" THEN "job_completed" ELSE "job_cancelled"
  <2>1. status' = [status EXCEPT ![j] = next] /\ LogEvent(j, e) /\ ~ Terminal(j) /\ j \in Job
    BY <1>4, <1>c, <1>d DEF CompleteRow, EndRow, Committable
  <2>2. e \in EventType /\ next \in StatusAfter(e)
    BY DEF EventType, StatusAfter
  <2>3. QED BY <1>a, <2>1, <2>2, OneRowTells
<1>5. ASSUME NEW w \in Worker, NEW d \in Reading, FailAttempt(w, d)
      PROVE  \A k \in Job : Tells(k)
  <2> DEFINE j == wjob[w]
             next == CASE status[j] = "cancel_requested" -> "cancelled"
                       [] /\ status[j] # "cancel_requested"
                          /\ verdict[w].retryable
                          /\ attempts[j] < MaxAttempts -> "retry_wait"
                       [] OTHER -> "failed"
             e == CASE next = "retry_wait" -> "job_retry_scheduled"
                    [] next = "cancelled" -> "job_cancelled"
                    [] next = "failed" -> "job_failed"
  <2>1. pc[w] \in BusyPc /\ leaseOwner[j] = w /\ j \in Job
    BY <1>5, <1>c DEF FailAttempt, Owns, BusyPc
  <2>2. ~ Terminal(j)
    BY <1>d, <2>1 DEF IInv, OwnerIsCurrent
  <2>3. status' = [status EXCEPT ![j] = next] /\ LogEvent(j, e)
    BY <1>5 DEF FailAttempt, FailRow, EndRow
  <2>4. next \in {"cancelled", "retry_wait", "failed"}
    OBVIOUS
  <2>5. e \in EventType /\ next \in StatusAfter(e)
    BY <2>4 DEF EventType, StatusAfter
  <2> HIDE DEF next, e
  <2>6. QED BY <1>a, <2>1, <2>2, <2>3, <2>5, OneRowTells
<1>6. ASSUME NEW w \in Worker, NEW S \in SUBSET Job, NEW d \in Reading, Recover(w, S, d)
      PROVE  \A k \in Job : Tells(k)
  <2> SUFFICES ASSUME NEW k \in Job PROVE Tells(k)
    OBVIOUS
  <2>1. CASE k \in S
    <3> DEFINE e == IF RecoveredStatus(k) = "cancelled" THEN "job_cancelled" ELSE "job_lease_recovered"
    <3>1. status'[k] = RecoveredStatus(k) /\ events'[k] = Append(events[k], e) /\ ~ Terminal(k)
      BY <1>6, <1>d, <2>1 DEF Recover, Expired
    <3>2. RecoveredStatus(k) \in {"cancelled", "retry_wait", "failed"}
      BY DEF RecoveredStatus
    <3>3. e \in EventType /\ RecoveredStatus(k) \in StatusAfter(e)
      BY <3>2 DEF EventType, StatusAfter
    <3>4. QED BY <3>1, <3>3 DEF Tells
  <2>2. CASE k \notin S
    BY <1>6, <2>2 DEF Recover, Tells
  <2>3. QED BY <2>1, <2>2
<1>7. CASE Client
  BY <1>1, <1>2, <1>7 DEF Client
<1>8. ASSUME NEW w \in Worker, Process(w) PROVE \A j \in Job : Tells(j)
  <2>1. CASE Claims(w)
    BY <1>3, <2>1 DEF Claims, Claim, ClaimUnacknowledged
  <2>2. CASE Commits(w)
    BY <1>b, <1>4, <2>2 DEF Commits, Complete, CompleteErrs, BusyPc, rowVars, logVars
  <2>3. CASE Fails(w)
    BY <1>b, <1>5, <2>3 DEF Fails, FailAttemptRejected, rowVars, logVars
  <2>4. CASE Recovers(w)
    BY <1>6, <2>4 DEF Recovers
  <2>5. CASE EndsWorkflow(w) \/ Remember(w) \/ Crash(w) \/ Restart(w)
    BY <1>b, <2>5 DEF EndsWorkflow, WorkflowReturns, WorkflowRaises, ProgressRefused, Remember,
      Crash, Restart, rowVars, logVars
  <2>6. CASE Heartbeats(w)
    BY <1>b, <2>6 DEF Heartbeats, HeartbeatSend, HeartbeatLands, HeartbeatFails, rowVars, logVars
  <2>7. QED BY <1>8, <2>1, <2>2, <2>3, <2>4, <2>5, <2>6 DEF Process
<1>9. CASE Tick \/ UNCHANGED vars
  BY <1>b, <1>9 DEF Tick, vars, rowVars, logVars
<1>10. QED BY <1>7, <1>8, <1>9 DEF Next

\* Whoever replays the event log of a job learns its status, and nothing follows a terminal event.
THEOREM EventsTell == Spec => []EventsTellStatus
<1>1. Init => EventsTellStatus
  <2> SUFFICES ASSUME Init PROVE EventsTellStatus
    OBVIOUS
  <2>1. \A j \in Job : status[j] = "absent" /\ events[j] = <<>>
    BY DEF Init
  <2>2. 1..(Len(<<>>) - 1) = {}
    OBVIOUS
  <2>3. QED BY <2>1, <2>2, Zenon DEF EventsTellStatus
<1>2. IInv /\ EventsTellStatus /\ [Next]_vars => EventsTellStatus'
  BY NextTells, TellingKeepsLog DEF IInv, RowsOK
<1>3. QED BY Invariance, <1>1, <1>2, PTL DEF Spec

\* A result is committed only under the lease of the latest attempt (complete).
THEOREM CommitsHoldTheLease == Spec => CommitsUnderLease
<1> DEFINE Held(j) ==
      (status[j] # "completed" /\ status'[j] = "completed") =>
        /\ leaseLeft[j] > LongPast
        /\ \E w \in Worker :
             /\ pc[w] = "committing" /\ wjob[w] = j
             /\ wattempt[w] = attempts[j] /\ leaseOwner[j] = w
<1>1. IInv /\ [Next]_vars => [\A j \in Job : Held(j)]_vars
  <2> SUFFICES ASSUME IInv, Next, NEW j \in Job,
                      status[j] # "completed", status'[j] = "completed"
               PROVE  Held(j)
    OBVIOUS
  <2>0. RowTypeOK
    BY DEF IInv, RowsOK
  <2>1. PICK w \in Worker : Commits(w)
    <3>1. ~ Tick /\ ~ Client
      BY <2>0 DEF Tick, Client, Enqueue, RequestCancel, RowTypeOK
    <3>2. PICK w \in Worker : Process(w)
      BY <3>1 DEF Next
    <3>3. ~ Claims(w)
      BY <2>0 DEF Claims, Claim, ClaimUnacknowledged, ClaimRow, RowTypeOK
    <3>4. ~ Fails(w)
      BY <2>0 DEF Fails, FailAttempt, FailAttemptRejected, FailRow, EndRow, RowTypeOK, rowVars
    <3>5. ~ Recovers(w)
      BY DEF Recovers, Recover, RecoveredStatus
    <3>6. ~ (EndsWorkflow(w) \/ Remember(w) \/ Crash(w) \/ Restart(w) \/ Heartbeats(w))
      BY DEF EndsWorkflow, WorkflowReturns, WorkflowRaises, ProgressRefused, Remember, Crash,
        Restart, Heartbeats, HeartbeatSend, HeartbeatLands, HeartbeatFails, rowVars
    <3>7. QED BY <3>2, <3>3, <3>4, <3>5, <3>6 DEF Process
  <2>2. PICK kind \in FinalKind, d \in Reading : Complete(w, kind, d) \/ CompleteErrs(w, kind, d)
    BY <2>1 DEF Commits
  <2>3. pc[w] = "committing" /\ Committable(w, d) /\ CompleteRow(w, kind)
    BY <2>2 DEF Complete, CompleteErrs, rowVars
  <2>4. wjob[w] = j
    BY <2>0, <2>3 DEF CompleteRow, EndRow, RowTypeOK
  <2>5. leaseOwner[j] = w /\ leaseLeft[j] > d
    BY <2>3, <2>4 DEF Committable, Owns
  <2>6. wattempt[w] = attempts[j]
    BY <2>3, <2>4, <2>5 DEF IInv, OwnerIsCurrent, BusyPc
  <2>7. leaseLeft[j] > LongPast
    BY <2>0, <2>5, QueueAssumption DEF Reading, LongPast, RowTypeOK
  <2>8. QED BY <2>3, <2>4, <2>5, <2>6, <2>7
<1>2. QED BY Invariance, <1>1, PTL DEF Spec, CommitsUnderLease

-----------------------------------------------------------------------------
(* The safety half of ImplementsLifecycle: each transaction moves each job *)
(* along one edge of the transition table of store.py, or not at all.      *)

\* The refinement mapping of Lifecycle, at one job.
Published(k) == IF stored[k].kind \in FinalKind THEN stored[k].attempt ELSE 0

\* One job's part of a step of the lifecycle.
LifeStep(k) ==
  \/ /\ status[k] = "absent" /\ status'[k] = "queued"
     /\ attempts'[k] = attempts[k] /\ Published(k)' = Published(k)
  \/ /\ <<status[k], status'[k]>> \in Lifecycle!AllowedTransitions
     /\ attempts'[k] = IF status'[k] = "running" THEN attempts[k] + 1 ELSE attempts[k]
     /\ attempts'[k] <= MaxAttempts
     /\ status'[k] = "retry_wait" => attempts[k] < MaxAttempts
     /\ Published(k)' = IF status'[k] = "completed" THEN attempts[k] ELSE Published(k)
  \/ status'[k] = status[k] /\ attempts'[k] = attempts[k] /\ Published(k)' = Published(k)

\* A published result is one of a completed job.
LEMMA Unpublished ==
  ASSUME RowsOK, NEW k \in Job, status[k] # "completed"
  PROVE  stored[k].kind \notin FinalKind /\ Published(k) = 0
BY DEF RowsOK, CompletedResultIsCurrent, Published

\* A transaction that leaves status, attempts and results alone is a stutter of the lifecycle.
LEMMA RestLife ==
  ASSUME UNCHANGED <<status, attempts, stored>>, NEW k \in Job
  PROVE  LifeStep(k)
BY DEF LifeStep, Published

\* Submissions and cancellations follow the transition table.
LEMMA ClientLife ==
  ASSUME RowsOK, Client, NEW k \in Job
  PROVE  LifeStep(k)
<1>1. PICK j \in Job : Enqueue(j) \/ RequestCancel(j)
  BY DEF Client
<1>2. UNCHANGED <<attempts, stored>>
  BY <1>1 DEF Enqueue, RequestCancel
<1>3. Published(k)' = Published(k)
  BY <1>2 DEF Published
<1>4. status \in [Job -> JobStatus] /\ attempts[k] <= MaxAttempts
  BY QueueAssumption DEF RowsOK, RowTypeOK
<1>5. CASE Enqueue(j)
  BY <1>2, <1>3, <1>4, <1>5 DEF Enqueue, LifeStep
<1>6. CASE RequestCancel(j)
  <2>1. /\ status[j] \in {"queued", "retry_wait", "running"}
        /\ status' = [status EXCEPT ![j] =
             IF status[j] \in {"queued", "retry_wait"} THEN "cancelled" ELSE "cancel_requested"]
    BY <1>6 DEF RequestCancel, ClaimableStatus
  <2>2. QED
    BY <1>2, <1>3, <1>4, <2>1 DEF LifeStep, Lifecycle!AllowedTransitions
<1>7. QED BY <1>1, <1>5, <1>6

\* A claim starts one attempt within the budget.
LEMMA ClaimLife ==
  ASSUME RowsOK, NEW w \in Worker, NEW j \in Job, NEW d \in Reading, ClaimRow(w, j, d),
         NEW k \in Job
  PROVE  LifeStep(k)
<1>1. /\ status' = [status EXCEPT ![j] = "running"]
      /\ attempts' = [attempts EXCEPT ![j] = attempts[j] + 1]
      /\ UNCHANGED stored /\ status[j] \in {"queued", "retry_wait"}
  BY DEF ClaimRow, Due, ClaimableStatus
<1>2. attempts[j] + 1 \in 1..MaxAttempts
  BY ClaimRows
<1>3. Published(k)' = Published(k)
  BY <1>1 DEF Published
<1>4. status \in [Job -> JobStatus] /\ attempts \in [Job -> 0..MaxAttempts]
  BY DEF RowsOK, RowTypeOK
<1>5. QED
  BY <1>1, <1>2, <1>3, <1>4 DEF LifeStep, Lifecycle!AllowedTransitions

\* What the ways an attempt ends have in common.
LEMMA EndLife ==
  ASSUME RowsOK, NEW j \in Job, NEW next, NEW result, NEW wait, EndRow(j, next, wait, result),
         result \in Stored,
         \/ next = "retry_wait" /\ status[j] = "running" /\ attempts[j] < MaxAttempts
         \/ next = "cancelled" /\ status[j] = "cancel_requested"
         \/ next \in {"completed", "failed"} /\ status[j] = "running",
         next = "completed" => result.kind \in FinalKind /\ result.attempt = attempts[j],
         next # "completed" => result.kind \notin FinalKind,
         NEW k \in Job
  PROVE  LifeStep(k)
<1>1. /\ status' = [status EXCEPT ![j] = next]
      /\ stored' = [stored EXCEPT ![j] = result]
      /\ UNCHANGED attempts
  BY DEF EndRow
<1>2. /\ status \in [Job -> JobStatus] /\ stored \in [Job -> Stored]
      /\ attempts \in [Job -> 0..MaxAttempts]
  BY DEF RowsOK, RowTypeOK
<1>3. CASE k # j
  BY <1>1, <1>2, <1>3 DEF LifeStep, Published
<1>4. CASE k = j
  <2>1. Published(k) = 0
    BY <1>4, Unpublished
  <2>2. Published(k)' = IF next = "completed" THEN attempts[j] ELSE 0
    BY <1>1, <1>2, <1>4 DEF Published
  <2>3. QED
    BY <1>1, <1>2, <1>4, <2>1, <2>2, QueueAssumption DEF LifeStep, Lifecycle!AllowedTransitions
<1>5. QED BY <1>3, <1>4

\* A commit publishes the result of its attempt, or cancels.
LEMMA CompleteLife ==
  ASSUME RowsOK, NEW w \in Worker, wjob[w] \in Job, wattempt[w] = attempts[wjob[w]],
         NEW d \in Reading, NEW kind \in FinalKind, Committable(w, d), CompleteRow(w, kind),
         NEW k \in Job
  PROVE  LifeStep(k)
<1> DEFINE j == wjob[w]
           final == IF status[j] = "cancel_requested" THEN "cancelled" ELSE "completed"
           result == IF final = "completed"
                     THEN [kind |-> kind, attempt |-> wattempt[w]] ELSE stored[j]
<1>1. EndRow(j, final, waitLeft[j], result)
  BY DEF CompleteRow
<1>2. \/ final = "cancelled" /\ status[j] = "cancel_requested"
      \/ final = "completed" /\ status[j] = "running"
  BY DEF Committable, ActiveStatus
<1>3. /\ result \in Stored
      /\ final = "completed" => result.kind \in FinalKind /\ result.attempt = attempts[j]
      /\ final # "completed" => result.kind \notin FinalKind
  BY <1>2, Unpublished DEF RowsOK, RowTypeOK, Stored
<1> HIDE DEF j, final, result
<1>4. j \in Job
  BY DEF j
<1>5. QED BY <1>1, <1>2, <1>3, <1>4, EndLife

\* A failure report retries, fails or cancels, and publishes nothing.
LEMMA FailLife ==
  ASSUME RowsOK, NEW w \in Worker, wjob[w] \in Job, wattempt[w] = attempts[wjob[w]],
         NEW d \in Reading, status[wjob[w]] \in ActiveStatus, FailRow(w, d), NEW k \in Job
  PROVE  LifeStep(k)
<1> DEFINE j == wjob[w]
           next == CASE status[j] = "cancel_requested" -> "cancelled"
                     [] /\ status[j] # "cancel_requested"
                        /\ verdict[w].retryable
                        /\ attempts[j] < MaxAttempts -> "retry_wait"
                     [] OTHER -> "failed"
           wait == IF next = "retry_wait" THEN d + RetryDelay[wattempt[w]] ELSE LongPast
           result == IF verdict[w].partial
                     THEN [kind |-> "partial", attempt |-> wattempt[w]] ELSE stored[j]
<1>1. EndRow(j, next, wait, result)
  BY DEF FailRow
<1>2. \/ next = "cancelled" /\ status[j] = "cancel_requested"
      \/ next = "retry_wait" /\ status[j] = "running" /\ attempts[j] < MaxAttempts
      \/ next = "failed" /\ status[j] = "running"
  BY DEF ActiveStatus
<1>3. result \in Stored /\ result.kind \notin FinalKind
  BY Unpublished DEF RowsOK, RowTypeOK, Stored, FinalKind, ActiveStatus
<1> HIDE DEF j, next, wait, result
<1>4. j \in Job
  BY DEF j
<1>5. QED BY <1>1, <1>2, <1>3, <1>4, EndLife

\* So does a recovery, for each job of its batch.
LEMMA RecoverLife ==
  ASSUME RowsOK, NEW w \in Worker, NEW S \in SUBSET Job, NEW d \in Reading, Recover(w, S, d),
         NEW k \in Job
  PROVE  LifeStep(k)
<1>1. /\ status'[k] = IF k \in S THEN RecoveredStatus(k) ELSE status[k]
      /\ UNCHANGED <<attempts, stored>>
      /\ k \in S => status[k] \in {"running", "cancel_requested"}
  BY DEF Recover, Expired, ActiveStatus
<1>2. Published(k)' = Published(k) /\ attempts[k] \in 0..MaxAttempts
  BY <1>1 DEF Published, RowsOK, RowTypeOK
<1>3. k \in S =>
        \/ RecoveredStatus(k) = "cancelled" /\ status[k] = "cancel_requested"
        \/ RecoveredStatus(k) = "retry_wait" /\ status[k] = "running" /\ attempts[k] < MaxAttempts
        \/ RecoveredStatus(k) = "failed" /\ status[k] = "running"
  BY <1>1 DEF RecoveredStatus
<1>4. QED BY <1>1, <1>2, <1>3, QueueAssumption DEF LifeStep, Lifecycle!AllowedTransitions

\* Every step of the queue is a step of the lifecycle, or a stutter.
LEMMA NextLife ==
  ASSUME IInv, [Next]_vars, NEW k \in Job
  PROVE  LifeStep(k)
<1>1. RowsOK
  BY DEF IInv
<1>2. CASE Tick \/ UNCHANGED vars
  BY <1>2, RestLife DEF Tick, vars, rowVars
<1>3. CASE Client
  BY <1>1, <1>3, ClientLife
<1>4. ASSUME NEW w \in Worker, Process(w)
      PROVE  LifeStep(k)
  <2>1. CASE Claims(w)
    BY <1>1, <2>1, ClaimLife DEF Claims, Claim, ClaimUnacknowledged
  <2>2. CASE EndsWorkflow(w) \/ Remember(w) \/ Heartbeats(w) \/ Crash(w) \/ Restart(w)
    <3>1. UNCHANGED <<status, attempts, stored>>
      BY <2>2 DEF EndsWorkflow, WorkflowReturns, WorkflowRaises, ProgressRefused, Remember,
                  Heartbeats, HeartbeatSend, HeartbeatLands, HeartbeatFails, Crash, Restart,
                  rowVars
    <3>2. QED BY <3>1, RestLife
  <2>3. CASE Commits(w)
    <3>1. PICK kind \in FinalKind, d \in Reading : Complete(w, kind, d) \/ CompleteErrs(w, kind, d)
      BY <2>3 DEF Commits
    <3>2. /\ pc[w] \in BusyPc
          /\ (Committable(w, d) /\ CompleteRow(w, kind)) \/ UNCHANGED rowVars
      BY <3>1 DEF Complete, CompleteErrs, BusyPc
    <3>3. CASE UNCHANGED rowVars
      BY <3>3, RestLife DEF rowVars
    <3>4. CASE Committable(w, d) /\ CompleteRow(w, kind)
      <4>1. wjob[w] \in Job
        BY <3>2 DEF IInv, ProcsOK, BusyKnowsAttempt
      <4>2. wattempt[w] = attempts[wjob[w]]
        BY <3>2, <3>4 DEF IInv, OwnerIsCurrent, Committable, Owns
      <4>3. QED BY <1>1, <3>4, <4>1, <4>2, CompleteLife
    <3>5. QED BY <3>2, <3>3, <3>4
  <2>4. CASE Fails(w)
    <3>1. CASE UNCHANGED rowVars
      BY <3>1, RestLife DEF rowVars
    <3>2. ASSUME NEW d \in Reading, FailAttempt(w, d)
          PROVE  LifeStep(k)
      <4>1. pc[w] \in BusyPc /\ Owns(w, wjob[w], d) /\ FailRow(w, d)
        BY <3>2 DEF FailAttempt, BusyPc
      <4>2. wjob[w] \in Job
        BY <4>1 DEF IInv, ProcsOK, BusyKnowsAttempt
      <4>3. wattempt[w] = attempts[wjob[w]] /\ status[wjob[w]] \in ActiveStatus
        BY <4>1 DEF IInv, OwnerIsCurrent, Owns
      <4>4. QED BY <1>1, <4>1, <4>2, <4>3, FailLife
    <3>3. QED BY <2>4, <3>1, <3>2 DEF Fails, FailAttemptRejected
  <2>5. CASE Recovers(w)
    BY <1>1, <2>5, RecoverLife DEF Recovers
  <2>6. QED BY <1>4, <2>1, <2>2, <2>3, <2>4, <2>5 DEF Process
<1>5. QED BY <1>2, <1>3, <1>4 DEF Next

\* A client that watches the status of a job, the number of its attempts and the
\* published result sees a run of JobLifecycle: only transitions of the table, at most
\* MaxAttempts attempts, and the result of the attempt that completed.
THEOREM QueueImplementsLifecycle == Spec => Lifecycle!SafeSpec
<1>1. Init => Lifecycle!Init
  BY DEF Init, Lifecycle!Init, Nothing, FinalKind
<1>2. IInv /\ IInv' /\ [Next]_vars => Lifecycle!Next
  <2> SUFFICES ASSUME IInv, IInv', [Next]_vars
               PROVE  Lifecycle!Next
    OBVIOUS
  <2>1. /\ status' \in [Job -> Lifecycle!Status]
        /\ attempts' \in [Job -> 0..MaxAttempts]
        /\ stored' \in [Job -> Stored]
    BY DEF IInv, RowsOK, RowTypeOK, Lifecycle!Status, JobStatus, ClaimableStatus, ActiveStatus,
           TerminalStatus
  <2>2. [k \in Job |-> IF stored'[k].kind \in FinalKind THEN stored'[k].attempt ELSE 0]
          \in [Job -> 0..MaxAttempts]
    BY <2>1, QueueAssumption DEF Stored
  <2>3. ASSUME NEW k \in Job
        PROVE  Lifecycle!Accept(k) \/ Lifecycle!Advance(k) \/ Lifecycle!Rest(k)
    BY NextLife DEF LifeStep, Published, Lifecycle!Accept, Lifecycle!Advance, Lifecycle!Rest
  <2>4. QED BY <2>1, <2>2, <2>3 DEF Lifecycle!Next
<1>3. QED BY <1>1, <1>2, Invariance, PTL DEF Spec, Lifecycle!SafeSpec
=============================================================================
