--------------------------- MODULE MCInvestigation ---------------------------
(* Five goals, from one that has room for two rounds of reasoning to one   *)
(* whose Tool budget runs out in the middle.                               *)
EXTENDS Investigation

Goal(i, l, s, t) == [intent |-> i, lot |-> l, context |-> i = "spc_check",
                     advanced |-> t % 2 = 1, lanes |-> {}, maxSteps |-> s, maxTools |-> t]

MCGoals == {Goal("root_cause", TRUE, 7, 9), Goal("root_cause", FALSE, 6, 6),
            Goal("historical_lookup", TRUE, 5, 8), Goal("spc_check", FALSE, 3, 5),
            [Goal("impact_scope", FALSE, 3, 5) EXCEPT !.lanes = Lanes]}

MCQuestionSets == {{"process_mechanism", "material_trace"}, {"spc_signal"},
                   {"material_trace"}}
=============================================================================
