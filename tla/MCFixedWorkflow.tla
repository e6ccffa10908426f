------------------------- MODULE MCFixedWorkflow -------------------------
(***************************************************************************)
(* The plans that TLC lets the model answer with: the fixed plan with the  *)
(* dependencies or the inputs of one task changed, with one task missing,  *)
(* and with a second task of an agent.                                     *)
(***************************************************************************)
EXTENDS FixedWorkflow

Short(S) == {<<>>} \union {<<x>> : x \in S} \union {<<x, y>> : x \in S, y \in S}

\* Other dependencies, the task itself, a later one and an unknown one among them.
Rewired ==
  {[DefaultPlan EXCEPT ![i].deps = D] :
     i \in DOMAIN DefaultPlan, D \in Short(Ids(DefaultPlan) \union {"unknown"})}

\* Other inputs, and none: a task then reads the findings of its dependencies.
Reread ==
  {[DefaultPlan EXCEPT ![i].from = s] :
     i \in 2 .. Len(DefaultPlan), s \in {<<>>, Observed, <<"mes", "mes">>, <<"rca">>, <<"improvement">>}}

Shortened == {RemoveAt(DefaultPlan, i) : i \in DOMAIN DefaultPlan}

\* A second task of an agent, which the improvements may read instead.
Second == {"mes", "fdc", "discovery", "validation", "rca", "improvement"}
Twice(id) == LET t == CHOOSE t \in ToSet(DefaultPlan) : t.id = id IN [t EXCEPT !.id = "again"]
Doubled ==
  {InsertAt(DefaultPlan, i, Twice(id)) : i \in {2, 7, 8}, id \in Second}
Switched ==
  {[p EXCEPT ![i].from = [k \in DOMAIN @ |-> IF @[k] = id THEN "again" ELSE @[k]]] :
     p \in {InsertAt(DefaultPlan, 7, Twice("rca"))}, i \in {8}, id \in {"rca"}}

MCProposals == {DefaultPlan} \union Rewired \union Reread \union Shortened \union Doubled \union Switched
=============================================================================
