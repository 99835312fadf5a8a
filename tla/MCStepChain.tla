---------------------------- MODULE MCStepChain ----------------------------
(* Custom steps for TLC: names of built-in ones and another, with any dependencies. *)
EXTENDS StepChain

MCName == {"validation", "partition", "x"}
MCCustomStep == {Step(n, d) : n \in MCName, d \in SUBSET MCName}
=============================================================================
