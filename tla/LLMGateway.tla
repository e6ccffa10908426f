----------------------------- MODULE LLMGateway -----------------------------
(***************************************************************************)
(* The calls of one job attempt to the LLM provider: the retry loop of     *)
(* DashScopeLLMClient.complete_json, the loops of the agents that call it  *)
(* (each with a budget of its own), the fallback of the adaptive workflow  *)
(* to controlled execution, and the worker's verdict on the exception the  *)
(* attempt ends with (classify_worker_error).  Prompts, answers and token  *)
(* counts are abstracted to "does the caller accept the answer".           *)
(***************************************************************************)
EXTENDS Naturals

CONSTANTS MaxRetries,    \* LLMSettings.max_retries
          CallRetries,   \* next_action_planner._CALL_RETRIES
          OutputAttempts,\* the _OUTPUT_ATTEMPTS of the planners
          Steps          \* bound: agent steps after planning

ASSUME BudgetAssumption ==
  /\ MaxRetries \in Nat /\ CallRetries \in Nat /\ Steps \in Nat
  /\ OutputAttempts \in Nat \ {0}

VARIABLES mode,      \* "fixed", "llm", or "fallback" once llm has given up
          caller,    \* the agent that calls the gateway
          reply,     \* what the running complete_json has come to
          tries,     \* call_attempt_count of the running complete_json
          status,    \* last_status_code
          arrears,   \* last_provider_code is "Arrearage"
          category,  \* failure_category
          balked,    \* history: a request of the running complete_json was refused or timed out
          retried,   \* call_retry_count
          invalid,   \* number of validation_errors of the caller
          handling,  \* the error whose except block the workflow is still in
          raised,    \* the error that left the workflow
          steps,
          posts,     \* history: requests sent by the caller for this decision
          refused,   \* history: the provider refused this decision for good
          lastPost   \* history: how the last request really failed

call == <<reply, tries, status, arrears, category, balked>>
history == <<posts, refused, lastPost>>
vars == <<mode, caller, call, retried, invalid, handling, raised, steps, history>>

NoStatus == 0
Status == {400, 401, 408, 429, 503}
NoError == [kind |-> "none", status |-> NoStatus, arrears |-> FALSE,
            post |-> "none", balked |-> FALSE]
OutputError == [NoError EXCEPT !.kind = "output"]
StepError == [NoError EXCEPT !.kind = "step"]

(* LLMCallError; "post" and "balked" are history: how the last request of  *)
(* the call really failed, and whether any was refused or timed out.       *)
CallError == [kind |-> "call", status |-> status, arrears |-> arrears,
              post |-> lastPost, balked |-> balked]

(* Arrearage is reported with a client error of its own.                   *)
Answers == [status : Status, arrears : {FALSE}] \cup [status : {400}, arrears : {TRUE}]

Init == /\ mode \in {"fixed", "llm"}
        /\ caller = IF mode = "fixed" THEN "plan" ELSE "intent"
        /\ reply = "pending" /\ tries = 0
        /\ status = NoStatus /\ arrears = FALSE /\ category = "transport" /\ balked = FALSE
        /\ retried = 0 /\ invalid = 0 /\ steps = 0
        /\ handling = NoError /\ raised = NoError
        /\ posts = 0 /\ refused = FALSE /\ lastPost = "none"

Fresh == /\ reply' = "pending" /\ tries' = 0
         /\ status' = NoStatus /\ arrears' = FALSE /\ category' = "transport"
         /\ balked' = FALSE

---------------------------------------------------------------------------
(* One HTTP request of complete_json.                                      *)

Posting == caller # "done" /\ reply = "pending"

Sent == tries' = tries + 1 /\ posts' = posts + 1

RequestMore == IF tries + 1 > MaxRetries THEN "failed" ELSE "pending"

Permanent(code) == code \in 400 .. 499 /\ code \notin {408, 429}

HttpError ==
  /\ Posting /\ Sent
  /\ \E a \in Answers :
       /\ status' = a.status /\ arrears' = a.arrears /\ category' = "http"
       /\ reply' = IF Permanent(a.status) THEN "failed" ELSE RequestMore
       /\ lastPost' = IF a.arrears \/ a.status \in {400, 401} THEN "refused"
                      ELSE IF a.status = 408 THEN "timeout" ELSE "busy"
       /\ refused' = (refused \/ lastPost' = "refused")
       /\ balked' = (balked \/ lastPost' \in {"refused", "timeout"})
  /\ UNCHANGED <<mode, caller, retried, invalid, handling, raised, steps>>

(* httpx.HTTPError that is not a status: only the category is updated, the *)
(* status and provider code of an earlier try of this call remain.         *)
TransportError ==
  /\ Posting /\ Sent
  /\ category' = "transport" /\ reply' = RequestMore /\ lastPost' = "transport"
  /\ UNCHANGED <<mode, caller, status, arrears, balked, retried, invalid, handling,
                 raised, steps, refused>>

(* An answer; the envelope, its JSON content or the caller's contract may  *)
(* still be invalid.                                                       *)
Answered ==
  /\ Posting /\ Sent
  /\ reply' \in {"accepted", "invalid"}
  /\ lastPost' = "none"
  /\ UNCHANGED <<mode, caller, status, arrears, category, balked, retried, invalid,
                 handling, raised, steps, refused>>

---------------------------------------------------------------------------
(* What the callers do with it.                                            *)

Attempts == IF caller \in {"intent", "decide", "specialist"} THEN OutputAttempts ELSE 1

Turn(next) == /\ caller' = next /\ Fresh
              /\ retried' = 0 /\ invalid' = 0 /\ posts' = 0 /\ refused' = FALSE
              /\ UNCHANGED lastPost

NextCaller == CASE caller \in {"intent", "specialist"} -> "decide"
                [] caller = "decide" -> "specialist"
                [] OTHER -> "review"

(* The caller goes on with the answer, or with what it computes without it *)
(* (a specialist its deterministic decision, a review the plain finding).  *)
Proceed ==
  /\ \/ reply = "accepted"
     \/ reply = "failed" /\ caller = "review"
     \/ reply \in {"failed", "invalid"} /\ caller = "specialist" /\ invalid + 1 = Attempts
  /\ \/ caller \in {"intent", "plan", "specialist"} /\ Turn(NextCaller) /\ UNCHANGED steps
     \/ /\ caller \in {"decide", "review"} /\ steps < Steps
        /\ Turn(NextCaller) /\ steps' = steps + 1
     \/ caller \in {"decide", "review"} /\ Turn("done") /\ UNCHANGED steps
  /\ UNCHANGED <<mode, handling, raised>>

(* An invalid output is fed back to the model, a bounded number of times;  *)
(* the specialist treats every exception so, a permanent refusal included. *)
Repair ==
  /\ reply = "invalid" \/ (reply = "failed" /\ caller = "specialist")
  /\ invalid + 1 < Attempts
  /\ invalid' = invalid + 1 /\ Fresh
  /\ UNCHANGED <<mode, caller, retried, handling, raised, steps, history>>

(* _is_retryable_call_error                                                *)
WorthAnotherCall == category = "transport" \/ status \in {408, 429} \/ status >= 500

\* A bug: the retry of the call is not counted.
CallAgainUncounted ==
  /\ caller = "decide" /\ reply = "failed" /\ retried < CallRetries /\ WorthAnotherCall
  /\ Fresh
  /\ UNCHANGED <<mode, caller, retried, invalid, handling, raised, steps, history>>

\* A bug: any failed call is repeated.
CallAgainAlways ==
  /\ caller = "decide" /\ reply = "failed" /\ retried < CallRetries
  /\ retried' = retried + 1 /\ Fresh
  /\ UNCHANGED <<mode, caller, invalid, handling, raised, steps, history>>

(* The next-action planner repeats a call that failed transiently.         *)
CallAgain ==
  /\ caller = "decide" /\ reply = "failed" /\ retried < CallRetries /\ WorthAnotherCall
  /\ retried' = retried + 1 /\ Fresh
  /\ UNCHANGED <<mode, caller, invalid, handling, raised, steps, history>>

GivesUp(e) ==
  \/ /\ e.kind = "output" /\ reply = "invalid" /\ invalid + 1 = Attempts
     /\ caller # "specialist"
  \/ /\ e.kind = "call" /\ reply = "failed" /\ caller \notin {"specialist", "review"}
     /\ ~ (caller = "decide" /\ retried < CallRetries /\ WorthAnotherCall)

(* The planners of the adaptive workflow fall back to controlled execution *)
(* inside the except block: the planner's error is the context of whatever *)
(* is raised from then on.                                                 *)
FallBack ==
  \E e \in {OutputError, CallError} :
     /\ GivesUp(e) /\ caller \in {"intent", "decide"}
     /\ mode' = "fallback" /\ handling' = e
     /\ Turn("review") /\ UNCHANGED <<raised, steps>>

(* Elsewhere the error ends the attempt.                                   *)
CallRaises ==
  \E e \in {OutputError, CallError} :
     /\ GivesUp(e) /\ caller \notin {"intent", "decide", "done"}
     /\ raised' = e /\ caller' = "done"
     /\ UNCHANGED <<mode, call, retried, invalid, handling, steps, history>>

(* A step fails before it asks: a SupervisorExecutionError, a tool error.  *)
StepRaises ==
  /\ caller \in {"review", "specialist"} /\ reply = "pending" /\ posts = 0
  /\ raised' = StepError /\ caller' = "done"
  /\ UNCHANGED <<mode, call, retried, invalid, handling, steps, history>>

Next == \/ HttpError \/ TransportError \/ Answered
        \/ Proceed \/ Repair \/ CallAgain \/ FallBack \/ CallRaises \/ StepRaises

Spec == Init /\ [][Next]_vars

---------------------------------------------------------------------------
(* classify_worker_error: the first LLMCallError found along __cause__ or  *)
(* __context__ decides; without one no error is retryable.                 *)
Found == IF raised.kind = "call" THEN raised
         ELSE IF handling.kind = "call" THEN handling ELSE NoError

\* A bug: a refusal of the request is not told from an outage.
RetryableUnlessAuth ==
  /\ caller = "done" /\ raised.kind # "none" /\ Found.kind = "call"
  /\ Found.status # 401

Retryable == /\ caller = "done" /\ raised.kind # "none" /\ Found.kind = "call"
             /\ ~ Found.arrears
             /\ Found.status = 429 \/ Found.status = NoStatus \/ Found.status >= 500

TypeOK == /\ mode \in {"fixed", "llm", "fallback"}
          /\ caller \in {"plan", "intent", "decide", "specialist", "review", "done"}
          /\ reply \in {"pending", "accepted", "invalid", "failed"}
          /\ tries \in 0 .. MaxRetries + 1 /\ status \in Status \cup {NoStatus}
          /\ arrears \in BOOLEAN /\ category \in {"http", "transport"}
          /\ retried \in 0 .. CallRetries /\ invalid \in 0 .. OutputAttempts - 1
          /\ handling.kind \in {"none", "output", "call"}
          /\ raised.kind \in {"none", "output", "call", "step"}
          /\ steps \in 0 .. Steps
          /\ posts \in Nat /\ refused \in BOOLEAN /\ balked \in BOOLEAN
          /\ lastPost \in {"none", "busy", "timeout", "refused", "transport"}

(* The three budgets of a planner multiply to a bound: output repairs and  *)
(* call retries share one decision, and the retry of a call is granted     *)
(* once per decision, not once per repair.                                 *)
DecisionBudget ==
  posts <= (Attempts + CallRetries) * (MaxRetries + 1)

(* Configuration fails fast: once the provider has refused a request for a *)
(* reason that will not go away (400, 401, arrears), no further one is     *)
(* sent for that decision, by no retry of the request, of the call or of   *)
(* the output. One caller is excepted: a Specialist takes the refusal for  *)
(* an invalid output and may spend its next output attempt on a new call,  *)
(* but it too sends nothing more within the refused call.                  *)
FailFast ==
  [][refused /\ posts' > posts =>
       caller = "specialist" /\ (tries > 0 => lastPost # "refused")]_vars

(* What the queue makes of the attempt fits how the call it looks at went, *)
(* whichever error the attempt ended with: a retry is earned only if the   *)
(* last request of that call found the provider busy or unreachable,       *)
(* whatever an earlier one had met; and a call that met nothing but that   *)
(* is never given up.  The call need not be what ended the attempt: a step *)
(* or an output that fails within the fallback of a planner is retried for *)
(* the call that the planner lost, but nowhere else is another error than  *)
(* that of a call retried.                                                 *)
RetryIsEarned ==
  caller = "done" /\ raised.kind # "none" =>
    /\ Retryable => /\ Found.post \in {"busy", "transport"}
                    /\ raised.kind = "call" \/ mode = "fallback"
    /\ (Found.kind = "call" /\ ~ Retryable) => Found.balked

=============================================================================
