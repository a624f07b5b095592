---------------------------- MODULE MCDurableRun ----------------------------
(***************************************************************************)
(* Small worlds for TLC: three points (a poor feasible one, an infeasible  *)
(* one and a good feasible one) and a fourth that makes the simulator      *)
(* raise.                                                                  *)
(***************************************************************************)
EXTENDS DurableRun, TLC

CONSTANTS poor, bad, good, broken

MCPoints == {poor, bad, good, broken}

MCSim ==
  poor :> [feasible |-> TRUE, value |-> 5, violation |-> 0] @@
  bad  :> [feasible |-> FALSE, value |-> 1, violation |-> 2] @@
  good :> [feasible |-> TRUE, value |-> 3, violation |-> 0] @@
  broken :> ToolError

MCNudge == poor :> {good} @@ good :> {poor} @@ bad :> {poor} @@ broken :> {broken}

\* An LLM-like strategy: any answer, or any of several, at every step.
AnyAnswers == [n \in 0 .. Limit |-> Answers]
AnyProposals == [n \in 0 .. Limit |-> {poor, bad, good, Failed}]
=============================================================================
