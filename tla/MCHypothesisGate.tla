-------------------------- MODULE MCHypothesisGate --------------------------
(* A small case: one excursion on eq1 that hit lotA and lotB. *)
EXTENDS HypothesisGate

MCEvidence == {"exposure", "anomaly", "late", "outcome", "normal", "lesson"}

MCKind == [l \in {"lotA", "lotB", "eq1", "ch1", "op1", "par1", "par2", "out1"} |->
  CASE l \in {"lotA", "lotB"} -> "lot" [] l = "eq1" -> "equipment" [] l = "ch1" -> "chamber"
    [] l = "op1" -> "operation" [] l = "out1" -> "outcome" [] OTHER -> "parameter"]

Item(type, agent, labels, direction, at, window) ==
  [type |-> type, agent |-> agent, labels |-> labels, direction |-> direction,
   at |-> at, window |-> window]

MCAbout == [e \in MCEvidence |->
  CASE e = "exposure" -> Item("exposure", "mes", {"lotA", "lotB", "eq1", "ch1", "op1"}, "none", "inside", TRUE)
    [] e = "anomaly"  -> Item("process", "fdc", {"lotA", "eq1", "ch1", "op1", "par1"}, "low", "inside", FALSE)
    [] e = "late"     -> Item("process", "fdc", {"lotB", "eq1", "par2"}, "low", "outside", FALSE)
    [] e = "outcome"  -> Item("outcome", "wat", {"lotA", "lotB", "out1"}, "none", "none", FALSE)
    [] e = "normal"   -> Item("negative", "fdc", {"lotA", "par1"}, "none", "none", FALSE)
    [] OTHER          -> Item("knowledge", "knowledge", {"par1"}, "none", "none", FALSE)]

MCWording == [c \in {1, 2} |->
  IF c = 1 THEN [labels |-> {"eq1", "par1", "out1"}, direction |-> "low"]
           ELSE [labels |-> {"par1", "out1"}, direction |-> "none"]]

MCRegisters == {MCEvidence} \cup {MCEvidence \ {e} : e \in {"normal", "outcome"}}
MCCitations ==
  {{"exposure", "anomaly", "outcome"}, {"exposure", "anomaly", "outcome", "lesson"},
   {"exposure", "late", "outcome"}, {"exposure", "outcome"}}
MCDenials == {{}, {"late"}}
=============================================================================
