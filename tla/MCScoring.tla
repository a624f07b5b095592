---------------------------- MODULE MCScoring ----------------------------
(***************************************************************************)
(* One point per kind of outcome: three feasible values, two infeasible    *)
(* ones, one of which has the best objective value of all.                 *)
(***************************************************************************)
EXTENDS Scoring

MCPoints == {"low", "mid", "high", "near", "far"}

MCSim ==
  [p \in MCPoints |->
     CASE p = "low"  -> [feasible |-> TRUE, value |-> 1, violation |-> 0]
       [] p = "mid"  -> [feasible |-> TRUE, value |-> 2, violation |-> 0]
       [] p = "high" -> [feasible |-> TRUE, value |-> 4, violation |-> 0]
       [] p = "near" -> [feasible |-> FALSE, value |-> 3, violation |-> 1]
       [] OTHER      -> [feasible |-> FALSE, value |-> 0, violation |-> 2]]

\* "high" lies away from the others on the second of two axes.
MCCoordinates ==
  [p \in MCPoints |->
     CASE p = "low" -> <<0, 0>> [] p = "mid" -> <<1, 1>> [] p = "high" -> <<1, 9>>
       [] p = "near" -> <<2, 0>> [] OTHER -> <<0, 2>>]

MCNudge == [p \in MCPoints |-> {p}]

AnyProposals == [n \in 0 .. Limit |-> Answers]
=============================================================================
