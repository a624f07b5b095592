---------------------------- MODULE MCModelCalls ----------------------------
(***************************************************************************)
(* Processes are interchangeable; the proposals are model values.            *)
(***************************************************************************)
EXTENDS ModelCalls, TLC

Perms == Permutations(Workers)
=============================================================================
