-------------------------- MODULE LLMGatewayProofs --------------------------
(***************************************************************************)
(* Proofs about LLMGateway, for any retry budgets.  The requests of one    *)
(* decision are counted by the three counters that bound them; what the    *)
(* error of a call says about its last request is kept beside them.        *)
(***************************************************************************)
EXTENDS LLMGateway, TLAPS

Rounds == MaxRetries + 1

CountersOK ==
  /\ posts \in Nat /\ tries \in Nat /\ invalid \in Nat /\ retried \in Nat
  /\ tries <= Rounds /\ (reply = "pending" => tries <= MaxRetries)
  /\ retried <= CallRetries /\ (caller # "decide" => retried = 0)
  /\ caller # "done" => invalid < Attempts

\* Each repair and each repeated call pays for one round of requests, the running one for its tries.
Paid ==
  /\ caller # "done" => posts <= (invalid + retried) * Rounds + tries
  /\ caller = "done" => posts <= Rounds

KindsOK ==
  /\ caller \in {"plan", "intent", "decide", "specialist", "review", "done"}
  /\ reply \in {"pending", "accepted", "invalid", "failed"}
  /\ status \in Status \cup {NoStatus}
  /\ arrears \in BOOLEAN
  /\ refused \in BOOLEAN /\ balked \in BOOLEAN

\* A decision whose request was refused is a Specialist's, or has a failed call that is not worth
\* repeating; and no call goes on after a refusal.
RefusalSticks ==
  /\ refused => /\ posts # 0
                /\ \/ caller = "specialist"
                   \/ reply = "failed" /\ category = "http" /\ status \in {400, 401}
  /\ reply = "pending" /\ tries > 0 => lastPost # "refused"

\* What a call reports beside what happened to it: an error whose last request was neither busy
\* nor lost has a code that earns no retry, and such a code was once answered.
ErrorFits(code, owing, post, met) ==
  /\ code \in Status \cup {NoStatus}
  /\ post \in {"busy", "transport"} \/ code \in {400, 401, 408}
  /\ owing \/ code \in {400, 401, 408} => met

Told ==
  /\ arrears \/ status \in {400, 401, 408} => balked
  /\ reply = "failed" => lastPost \in {"busy", "transport"} \/ status \in {400, 401, 408}
  /\ raised.kind = "call" => ErrorFits(raised.status, raised.arrears, raised.post, raised.balked)
  /\ handling.kind = "call" =>
       /\ ErrorFits(handling.status, handling.arrears, handling.post, handling.balked)
       /\ mode = "fallback"

IInv == CountersOK /\ Paid /\ KindsOK /\ RefusalSticks /\ Told

-----------------------------------------------------------------------------
LEMMA Product ==
  ASSUME NEW a \in Nat, NEW b \in Nat, NEW n \in Nat, a <= b
  PROVE  /\ a * n \in Nat /\ b * n \in Nat /\ a * n <= b * n
         /\ (a + 1) * n = a * n + n
OBVIOUS

LEMMA InitIInv == Init => IInv
<1> SUFFICES ASSUME Init PROVE IInv
  OBVIOUS
<1> USE BudgetAssumption
<1>1. CountersOK
  BY DEF Init, CountersOK, Rounds, Attempts
<1>2. Paid
  BY DEF Init, Paid, Rounds
<1>3. KindsOK /\ RefusalSticks
  BY DEF Init, KindsOK, RefusalSticks
<1>4. Told
  <2>1. raised.kind = "none" /\ handling.kind = "none"
    BY DEF Init, NoError
  <2>2. status = NoStatus /\ arrears = FALSE /\ reply = "pending"
    BY DEF Init
  <2>3. QED BY <2>1, <2>2 DEF Told, NoStatus
<1>5. QED BY <1>1, <1>2, <1>3, <1>4 DEF IInv

\* One request of the running call.
LEMMA RequestStep ==
  ASSUME IInv, HttpError \/ TransportError \/ Answered
  PROVE  IInv' /\ (refused => caller = "specialist" /\ (tries > 0 => lastPost # "refused"))
<1> USE BudgetAssumption
<1>1. /\ caller # "done" /\ reply = "pending"
      /\ tries' = tries + 1 /\ posts' = posts + 1
      /\ UNCHANGED <<mode, caller, retried, invalid, handling, raised, steps>>
  BY DEF HttpError, TransportError, Answered, Posting, Sent
<1>2. refused => caller = "specialist" /\ (tries > 0 => lastPost # "refused")
  BY <1>1 DEF IInv, RefusalSticks, CountersOK
<1>3. reply' = "pending" => tries + 1 <= MaxRetries
  BY <1>1 DEF HttpError, TransportError, Answered, RequestMore, IInv, CountersOK
<1>4. CountersOK'
  BY <1>1, <1>3 DEF IInv, CountersOK, Rounds, Attempts
<1>5. Paid'
  <2> DEFINE p == (invalid + retried) * Rounds
  <2>1. p \in Nat
    BY Product DEF IInv, CountersOK, Rounds
  <2> HIDE DEF p
  <2>2. posts <= p + tries
    BY <1>1 DEF IInv, Paid, p
  <2>3. posts + 1 <= p + (tries + 1)
    BY <2>1, <2>2 DEF IInv, CountersOK
  <2>4. QED BY <1>1, <2>3 DEF Paid, p, Rounds
<1>6. KindsOK' /\ RefusalSticks' /\ Told'
  <2>1. CASE HttpError
    <3>1. PICK a \in Answers :
            /\ status' = a.status /\ arrears' = a.arrears /\ category' = "http"
            /\ reply' = IF Permanent(a.status) THEN "failed" ELSE RequestMore
            /\ lastPost' = IF a.arrears \/ a.status \in {400, 401} THEN "refused"
                           ELSE IF a.status = 408 THEN "timeout" ELSE "busy"
            /\ refused' = (refused \/ lastPost' = "refused")
            /\ balked' = (balked \/ lastPost' \in {"refused", "timeout"})
      BY <2>1 DEF HttpError
    <3>2. a.status \in Status /\ a.arrears \in BOOLEAN /\ (a.arrears => a.status = 400)
      <4>1. CASE a \in [status : Status, arrears : {FALSE}]
        BY <4>1
      <4>2. CASE a \in [status : {400}, arrears : {TRUE}]
        BY <4>2 DEF Status
      <4>3. QED BY <4>1, <4>2 DEF Answers
    <3>3. a.status \in {400, 401} => Permanent(a.status)
      BY DEF Permanent
    <3>4. reply' \in {"pending", "failed"}
      BY <3>1 DEF RequestMore
    <3>5. KindsOK'
      BY <1>1, <3>1, <3>2, <3>4 DEF IInv, KindsOK
    <3>6. RefusalSticks'
      <4>1. posts' # 0
        BY <1>1 DEF IInv, CountersOK
      <4>2. lastPost' = "refused" => reply' = "failed" /\ status' \in {400, 401}
        BY <3>1, <3>2, <3>3
      <4>3. QED BY <1>1, <1>2, <3>1, <4>1, <4>2 DEF RefusalSticks
    <3>7. Told'
      <4>1. /\ arrears' \/ status' \in {400, 401, 408} => balked'
            /\ reply' = "failed" => lastPost' \in {"busy", "transport"} \/ status' \in {400, 401, 408}
        BY <3>1, <3>2 DEF Status
      <4>2. mode' = mode /\ raised' = raised /\ handling' = handling
        BY <1>1
      <4>3. QED BY <4>1, <4>2 DEF IInv, Told, ErrorFits
    <3>8. QED BY <3>5, <3>6, <3>7
  <2>2. CASE TransportError
    <3>1. /\ UNCHANGED <<status, arrears, balked, refused>>
          /\ category' = "transport" /\ lastPost' = "transport" /\ reply' \in {"pending", "failed"}
      BY <2>2 DEF TransportError, RequestMore
    <3>2. KindsOK' /\ RefusalSticks'
      BY <1>1, <1>2, <3>1 DEF IInv, CountersOK, KindsOK, RefusalSticks
    <3>3. Told'
      BY <1>1, <3>1 DEF IInv, Told, ErrorFits
    <3>4. QED BY <3>2, <3>3
  <2>3. CASE Answered
    <3>1. /\ UNCHANGED <<status, arrears, category, balked, refused>>
          /\ lastPost' = "none" /\ reply' \in {"accepted", "invalid"}
      BY <2>3 DEF Answered
    <3>2. KindsOK' /\ RefusalSticks'
      BY <1>1, <1>2, <3>1 DEF IInv, CountersOK, KindsOK, RefusalSticks
    <3>3. Told'
      BY <1>1, <3>1 DEF IInv, Told, ErrorFits
    <3>4. QED BY <3>2, <3>3
  <2>4. QED BY <2>1, <2>2, <2>3
<1>7. QED BY <1>2, <1>4, <1>5, <1>6 DEF IInv

\* The error a failed call raises.
LEMMA CallFits ==
  ASSUME IInv, reply = "failed"
  PROVE  ErrorFits(CallError.status, CallError.arrears, CallError.post, CallError.balked)
BY DEF IInv, KindsOK, Told, ErrorFits, CallError

LEMMA OutputFits == OutputError.kind = "output"
BY DEF OutputError, NoError

\* The next decision starts with nothing spent.
LEMMA TurnStep ==
  ASSUME IInv, NEW next \in {"intent", "plan", "decide", "specialist", "review", "done"},
         Turn(next), raised' = raised, caller # "done",
         \/ mode' = mode /\ handling' = handling
         \/ /\ mode' = "fallback" /\ handling' \in {OutputError, CallError}
            /\ handling'.kind = "call" => reply = "failed"
  PROVE  IInv' /\ posts' <= posts
<1> USE BudgetAssumption
<1>1. CountersOK'
  BY DEF Turn, Fresh, CountersOK, Rounds, Attempts
<1>2. Paid'
  BY DEF Turn, Fresh, Paid, Rounds
<1>3. KindsOK' /\ RefusalSticks'
  <2>1. /\ caller' = next /\ reply' = "pending" /\ status' = NoStatus /\ arrears' = FALSE
        /\ refused' = FALSE /\ balked' = FALSE /\ tries' = 0
    BY DEF Turn, Fresh
  <2>2. KindsOK'
    BY <2>1 DEF KindsOK
  <2>3. RefusalSticks'
    BY <2>1 DEF RefusalSticks
  <2>4. QED BY <2>2, <2>3
<1>4. Told'
  <2>1. arrears' = FALSE /\ status' = NoStatus /\ reply' = "pending"
    BY DEF Turn, Fresh
  <2>2. handling'.kind = "call" =>
          /\ ErrorFits(handling'.status, handling'.arrears, handling'.post, handling'.balked)
          /\ mode' = "fallback"
    <3>1. CASE mode' = mode /\ handling' = handling
      BY <3>1 DEF IInv, Told
    <3>2. CASE handling' = OutputError
      BY <3>2, OutputFits
    <3>3. CASE mode' = "fallback" /\ handling' = CallError /\ reply = "failed"
      BY <3>3, CallFits
    <3>4. CallError.kind = "call"
      BY DEF CallError
    <3>5. QED BY <3>1, <3>2, <3>3, <3>4
  <2>3. QED BY <2>1, <2>2 DEF IInv, Told, ErrorFits, NoStatus
<1>5. QED BY <1>1, <1>2, <1>3, <1>4 DEF Turn, IInv, CountersOK

\* Another round of the same decision is paid for.
LEMMA RoundStep ==
  ASSUME IInv, Repair \/ CallAgain
  PROVE  IInv' /\ posts' <= posts
<1> USE BudgetAssumption
<1>1. /\ caller # "done" /\ posts' = posts /\ caller' = caller /\ Fresh
      /\ UNCHANGED <<mode, handling, raised, steps, history>>
      /\ \/ invalid' = invalid + 1 /\ retried' = retried /\ invalid + 1 < Attempts
         \/ /\ retried' = retried + 1 /\ invalid' = invalid
            /\ caller = "decide" /\ retried < CallRetries
  BY DEF Repair, CallAgain, history, IInv, CountersOK, Attempts
<1>2. refused => caller = "specialist"
  BY DEF Repair, CallAgain, WorthAnotherCall, IInv, RefusalSticks
<1>3. CountersOK'
  BY <1>1 DEF Fresh, IInv, CountersOK, Rounds, Attempts
<1>4. Paid'
  <2> DEFINE k == invalid + retried
  <2>1. k \in Nat /\ invalid' + retried' = k + 1 /\ Rounds \in Nat
    BY <1>1 DEF IInv, CountersOK, Rounds
  <2>2. posts <= k * Rounds + tries
    BY <1>1 DEF IInv, Paid
  <2> HIDE DEF k
  <2>3. k * Rounds \in Nat /\ (k + 1) * Rounds = k * Rounds + Rounds
    BY <2>1, Product
  <2>4. posts <= (k + 1) * Rounds
    BY <2>1, <2>2, <2>3 DEF IInv, CountersOK
  <2>5. QED BY <1>1, <2>1, <2>3, <2>4 DEF Fresh, Paid, Rounds
<1>5. KindsOK' /\ RefusalSticks' /\ Told'
  <2>1. /\ reply' = "pending" /\ status' = NoStatus /\ arrears' = FALSE /\ balked' = FALSE
        /\ tries' = 0 /\ caller' = caller /\ raised' = raised /\ handling' = handling
        /\ refused' = refused /\ posts' = posts /\ mode' = mode
    BY <1>1 DEF Fresh, history
  <2>2. KindsOK'
    BY <2>1 DEF IInv, KindsOK
  <2>3. RefusalSticks'
    BY <2>1, <1>2 DEF IInv, RefusalSticks
  <2>4. Told'
    BY <2>1 DEF IInv, Told, ErrorFits, NoStatus
  <2>5. QED BY <2>2, <2>3, <2>4
<1>6. QED BY <1>1, <1>2, <1>3, <1>4, <1>5 DEF IInv, CountersOK

\* The attempt ends with an error.
LEMMA RaiseStep ==
  ASSUME IInv, CallRaises \/ StepRaises
  PROVE  IInv' /\ posts' = posts
<1> USE BudgetAssumption
<1>1. /\ caller \in {"plan", "specialist", "review"} /\ caller' = "done"
      /\ UNCHANGED <<mode, call, retried, invalid, handling, steps, history>>
      /\ caller = "specialist" => posts = 0
  BY DEF CallRaises, StepRaises, GivesUp, IInv, KindsOK, OutputError, CallError, NoError
<1>2. CountersOK'
  BY <1>1 DEF call, history, IInv, CountersOK, Rounds
<1>3. posts <= Rounds
  <2>1. CASE caller = "specialist"
    BY <1>1, <2>1 DEF Rounds
  <2>2. CASE caller # "specialist"
    <3>1. invalid = 0 /\ retried = 0
      BY <1>1, <2>2 DEF IInv, CountersOK, Attempts
    <3>2. QED BY <1>1, <3>1 DEF IInv, CountersOK, Paid, Rounds
  <2>3. QED BY <2>1, <2>2
<1>4. Paid'
  BY <1>1, <1>3 DEF history, Paid, Rounds
<1>5. KindsOK' /\ RefusalSticks'
  BY <1>1 DEF call, history, IInv, KindsOK, RefusalSticks
<1>6. Told'
  <2>1. raised'.kind = "call" => reply = "failed" /\ raised' = CallError
    BY DEF CallRaises, StepRaises, GivesUp, OutputError, StepError, NoError
  <2>2. raised'.kind = "call" =>
          ErrorFits(raised'.status, raised'.arrears, raised'.post, raised'.balked)
    BY <2>1, CallFits
  <2>3. QED BY <1>1, <2>2 DEF call, history, IInv, Told, ErrorFits
<1>7. QED BY <1>1, <1>2, <1>4, <1>5, <1>6 DEF IInv, history

\* The step of FailFast.
KeepsRefusal ==
  refused /\ posts' > posts => caller = "specialist" /\ (tries > 0 => lastPost # "refused")

LEMMA NextKeepsIInv ==
  IInv /\ [Next]_vars => IInv' /\ KeepsRefusal
<1> SUFFICES ASSUME IInv, [Next]_vars PROVE IInv' /\ KeepsRefusal
  OBVIOUS
<1>0. posts \in Nat /\ (IInv' => posts' \in Nat)
  BY DEF IInv, CountersOK
<1>1. CASE HttpError \/ TransportError \/ Answered
  BY <1>1, RequestStep DEF KeepsRefusal
<1>2. CASE Proceed
  <2>1. PICK next \in {NextCaller, "done"} : Turn(next)
    BY <1>2 DEF Proceed
  <2>2. next \in {"intent", "plan", "decide", "specialist", "review", "done"}
    BY DEF NextCaller
  <2>3. raised' = raised /\ mode' = mode /\ handling' = handling /\ caller # "done"
    BY <1>2 DEF Proceed
  <2>4. QED BY <1>0, <2>1, <2>2, <2>3, TurnStep DEF KeepsRefusal
<1>3. CASE Repair \/ CallAgain
  BY <1>0, <1>3, RoundStep DEF KeepsRefusal
<1>4. CASE FallBack
  <2>1. Turn("review") /\ raised' = raised /\ caller # "done"
    BY <1>4 DEF FallBack
  <2>2. /\ mode' = "fallback" /\ handling' \in {OutputError, CallError}
        /\ handling'.kind = "call" => reply = "failed"
    BY <1>4, OutputFits DEF FallBack, GivesUp
  <2>3. QED BY <1>0, <2>1, <2>2, TurnStep DEF KeepsRefusal
<1>5. CASE CallRaises \/ StepRaises
  BY <1>0, <1>5, RaiseStep DEF KeepsRefusal
<1>6. CASE UNCHANGED vars
  <2>1. CountersOK' /\ Paid'
    BY <1>6 DEF vars, call, history, IInv, CountersOK, Paid, Rounds, Attempts
  <2>2. KindsOK' /\ RefusalSticks' /\ Told'
    BY <1>6 DEF vars, call, history, IInv, KindsOK, RefusalSticks, Told, ErrorFits
  <2>3. QED BY <1>0, <1>6, <2>1, <2>2 DEF IInv, vars, history, KeepsRefusal
<1>7. QED BY <1>1, <1>2, <1>3, <1>4, <1>5, <1>6 DEF Next

LEMMA NextKeepsTypes == IInv /\ TypeOK /\ [Next]_vars => TypeOK'
<1> SUFFICES ASSUME IInv, TypeOK, [Next]_vars PROVE TypeOK'
  OBVIOUS
<1> USE BudgetAssumption
<1>1. CountersOK' /\ KindsOK'
  BY NextKeepsIInv DEF IInv
<1>2. /\ tries' \in 0..MaxRetries + 1 /\ retried' \in 0..CallRetries /\ posts' \in Nat
      /\ caller' # "done" => invalid' \in 0..OutputAttempts - 1
  BY <1>1 DEF CountersOK, Rounds, Attempts
<1>3. /\ mode' \in {"fixed", "llm", "fallback"} /\ category' \in {"http", "transport"}
      /\ lastPost' \in {"none", "busy", "timeout", "refused", "transport"}
      /\ steps' \in 0..Steps
      /\ handling'.kind \in {"none", "output", "call"}
      /\ raised'.kind \in {"none", "output", "call", "step"}
      /\ caller' = "done" => invalid' \in 0..OutputAttempts - 1
  <2>1. CASE HttpError
    <3>1. PICK a \in Answers :
             lastPost' = IF a.arrears \/ a.status \in {400, 401} THEN "refused"
                         ELSE IF a.status = 408 THEN "timeout" ELSE "busy"
      BY <2>1 DEF HttpError
    <3>2. /\ category' = "http" /\ mode' = mode /\ steps' = steps /\ handling' = handling
          /\ raised' = raised /\ invalid' = invalid /\ caller' = caller
      BY <2>1 DEF HttpError
    <3>3. lastPost' \in {"refused", "timeout", "busy"}
      BY <3>1
    <3>4. QED BY <3>2, <3>3 DEF TypeOK
  <2>2. CASE TransportError \/ Answered
    BY <2>2 DEF TypeOK, TransportError, Answered
  <2>3. CASE Proceed
    BY <2>3 DEF TypeOK, Proceed, Turn, Fresh
  <2>4. CASE Repair \/ CallAgain
    <3>1. /\ category' = "transport" /\ mode' = mode /\ steps' = steps
          /\ handling' = handling /\ raised' = raised /\ lastPost' = lastPost
          /\ caller' = caller
      BY <2>4 DEF Repair, CallAgain, Fresh, history
    <3>2. caller # "done"
      <4>1. CASE Repair
        BY <4>1 DEF Repair, Attempts, TypeOK
      <4>2. QED BY <2>4, <4>1 DEF CallAgain
    <3>3. QED BY <3>1, <3>2 DEF TypeOK
  <2>5. CASE FallBack
    BY <2>5 DEF TypeOK, FallBack, Turn, Fresh, OutputError, CallError, NoError
  <2>6. CASE CallRaises
    BY <2>6 DEF TypeOK, CallRaises, call, history, OutputError, CallError, NoError
  <2>7. CASE StepRaises
    BY <2>7 DEF TypeOK, StepRaises, call, history, StepError, NoError
  <2>8. CASE UNCHANGED vars
    BY <2>8 DEF TypeOK, vars, call, history
  <2>9. QED BY <2>1, <2>2, <2>3, <2>4, <2>5, <2>6, <2>7, <2>8 DEF Next
<1>4. QED BY <1>1, <1>2, <1>3 DEF KindsOK, TypeOK

LEMMA PaidIsBounded == IInv => DecisionBudget
<1> SUFFICES ASSUME IInv PROVE posts <= (Attempts + CallRetries) * Rounds
  BY DEF DecisionBudget, Rounds
<1> USE BudgetAssumption
<1>0. Attempts \in Nat \ {0} /\ Rounds \in Nat
  BY DEF Attempts, Rounds
<1>1. CASE caller # "done"
  <2> DEFINE k == invalid + retried
  <2>1. k \in Nat /\ k + 1 \in Nat /\ k + 1 <= Attempts + CallRetries /\ Attempts + CallRetries \in Nat
    BY <1>0, <1>1 DEF IInv, CountersOK
  <2>2. posts <= k * Rounds + tries /\ tries <= Rounds /\ posts \in Nat /\ tries \in Nat
    BY <1>1 DEF IInv, Paid, CountersOK
  <2> HIDE DEF k
  <2>3. k * Rounds \in Nat /\ (k + 1) * Rounds = k * Rounds + Rounds
    BY <1>0, <2>1, Product
  <2>4. (k + 1) * Rounds <= (Attempts + CallRetries) * Rounds
        /\ (Attempts + CallRetries) * Rounds \in Nat
    BY <1>0, <2>1, Product
  <2>5. QED BY <1>0, <2>2, <2>3, <2>4
<1>2. CASE caller = "done"
  <2>1. posts <= Rounds /\ posts \in Nat
    BY <1>2 DEF IInv, Paid, CountersOK
  <2>2. 1 * Rounds <= (Attempts + CallRetries) * Rounds
        /\ (Attempts + CallRetries) * Rounds \in Nat
    BY <1>0, Product
  <2>3. QED BY <1>0, <2>1, <2>2
<1>3. QED BY <1>1, <1>2

LEMMA ToldIsEarned == IInv => RetryIsEarned
<1> SUFFICES ASSUME IInv, caller = "done", raised.kind # "none", Found.kind = "call"
             PROVE  /\ Retryable => /\ Found.post \in {"busy", "transport"}
                                    /\ raised.kind = "call" \/ mode = "fallback"
                    /\ ~ Retryable => Found.balked
  BY DEF RetryIsEarned, Retryable
<1>1. ErrorFits(Found.status, Found.arrears, Found.post, Found.balked)
  BY DEF IInv, Told, Found, NoError
<1>2. Found.status \in {400, 401, 408} => ~ Retryable
  BY DEF Retryable, NoStatus
<1>3. ~ Retryable => Found.arrears \/ Found.status \in {400, 401, 408}
  BY <1>1 DEF Retryable, ErrorFits, Status, NoStatus
<1>4. raised.kind = "call" \/ mode = "fallback"
  BY DEF IInv, Told, Found, NoError
<1>5. QED BY <1>1, <1>2, <1>3, <1>4 DEF ErrorFits

\* Every variable stays in its set; no budget is overdrawn.
THEOREM TypeCorrect == Spec => []TypeOK
<1>1. Init => TypeOK
  <2> SUFFICES ASSUME Init PROVE TypeOK
    OBVIOUS
  <2>1. 0 \in 0..MaxRetries + 1 /\ 0 \in 0..CallRetries /\ 0 \in 0..OutputAttempts - 1
        /\ 0 \in 0..Steps
    BY BudgetAssumption
  <2>2. mode \in {"fixed", "llm"} /\ caller \in {"plan", "intent"}
    BY DEF Init
  <2>3. handling.kind = "none" /\ raised.kind = "none"
    BY DEF Init, NoError
  <2>4. tries = 0 /\ retried = 0 /\ invalid = 0 /\ steps = 0 /\ posts = 0
    BY DEF Init
  <2>5. /\ reply = "pending" /\ status = NoStatus /\ arrears = FALSE /\ category = "transport"
        /\ refused = FALSE /\ lastPost = "none" /\ balked = FALSE
    BY DEF Init
  <2>6. QED BY <2>1, <2>2, <2>3, <2>4, <2>5 DEF TypeOK
<1>2. IInv /\ [Next]_vars => IInv'
  BY NextKeepsIInv
<1>3. QED BY InitIInv, <1>1, <1>2, NextKeepsTypes, PTL DEF Spec

\* Output repairs, repeated calls and HTTP retries of one decision multiply to a bound, for every
\* configuration of the three (complete_json, the loops of the planners).
THEOREM RequestsAreBounded == Spec => []DecisionBudget
<1>1. IInv /\ [Next]_vars => IInv'
  BY NextKeepsIInv
<1>2. QED BY InitIInv, <1>1, PaidIsBounded, PTL DEF Spec

\* The verdict of classify_worker_error fits how the call it looks at went, be it the error that
\* ended the attempt or the one in whose except block the fallback failed: a retry only if the last
\* request of that call found the provider busy or unreachable, none only if one of its requests
\* was refused or timed out.  Another error than that of a call is retried in the fallback only.
THEOREM RetriesAreEarned == Spec => []RetryIsEarned
<1>1. IInv /\ [Next]_vars => IInv'
  BY NextKeepsIInv
<1>2. QED BY InitIInv, <1>1, ToldIsEarned, PTL DEF Spec

\* After a refusal that will not go away no further request is sent for that decision, unless a
\* Specialist spends its next output attempt on a new call.
THEOREM RefusalsFailFast == Spec => FailFast
<1>1. IInv /\ [Next]_vars => IInv'
  BY NextKeepsIInv
<1>2. IInv /\ [Next]_vars => [KeepsRefusal]_vars
  BY NextKeepsIInv
<1>3. QED BY InitIInv, <1>1, <1>2, PTL DEF Spec, FailFast, KeepsRefusal
=============================================================================
