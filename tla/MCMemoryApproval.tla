-------------------------- MODULE MCMemoryApproval --------------------------
(* Two engineers, the id of one of them typed in two ways. *)
EXTENDS MemoryApproval, TLC

CONSTANTS ye, YE, PE

MCTypedId == {ye, YE, PE}
MCNormal == [i \in MCTypedId |-> IF i = ye THEN YE ELSE i]
AnyCall == Permutations(Call)
=============================================================================
