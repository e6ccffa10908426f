------------------------- MODULE SpecialistContract -------------------------
(***************************************************************************)
(* What a Specialist promises to the Supervisor that dispatches it: it     *)
(* spends at least one and at most min(MaxSteps, allowance) Tool calls and *)
(* then answers with one Finding, or it fails having spent no more.        *)
(***************************************************************************)
EXTENDS Integers

CONSTANT MaxSteps       \* MAX_SPECIALIST_TOOL_STEPS

VARIABLES
  allowance,            \* max_tool_calls, what is left of the run's budget
  spent,                \* Tool calls made so far
  outcome               \* "none", "finding" or "error"

Budget == IF allowance < MaxSteps THEN allowance ELSE MaxSteps

Init ==
  /\ allowance \in Int
  /\ spent = 0
  /\ outcome = "none"

\* One more Tool call inside the hard limit.
Spend ==
  /\ outcome = "none"
  /\ spent < Budget
  /\ spent' = spent + 1
  /\ UNCHANGED <<allowance, outcome>>

\* A Finding rests on at least one Tool observation.
Answer ==
  /\ outcome = "none"
  /\ spent > 0
  /\ outcome' = "finding"
  /\ UNCHANGED <<allowance, spent>>

\* A failure, the last call it may have made included.
Fail ==
  /\ outcome = "none"
  /\ \/ spent' = spent
     \/ spent < Budget /\ spent' = spent + 1
  /\ outcome' = "error"
  /\ UNCHANGED allowance

Next == Spend \/ Answer \/ Fail

Spec == Init /\ [][Next]_<<allowance, spent, outcome>>
=============================================================================
