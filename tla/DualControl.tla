---------------------------- MODULE DualControl ----------------------------
(***************************************************************************)
(* What the approval of remembered knowledge promises engineers: two       *)
(* different engineers approve before anything is published, each decides  *)
(* at most once, and one rejection ends the matter.                        *)
(***************************************************************************)
CONSTANT Engineer

VARIABLES status, approvers, rejecters

vars == <<status, approvers, rejecters>>

Init == status = "absent" /\ approvers = {} /\ rejecters = {}

Open ==
  /\ status = "absent"
  /\ status' = "pending_approval"
  /\ UNCHANGED <<approvers, rejecters>>

Approve(e) ==
  /\ status = "pending_approval"
  /\ e \notin approvers \cup rejecters
  /\ approvers' = approvers \cup {e}
  /\ status' = IF approvers = {} THEN "pending_approval" ELSE "published"
  /\ UNCHANGED rejecters

Reject(e) ==
  /\ status = "pending_approval"
  /\ e \notin approvers \cup rejecters
  /\ rejecters' = rejecters \cup {e}
  /\ status' = "rejected"
  /\ UNCHANGED approvers

Next == Open \/ \E e \in Engineer : Approve(e) \/ Reject(e)

Spec == Init /\ [][Next]_vars
=============================================================================
