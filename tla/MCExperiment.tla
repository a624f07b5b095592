---------------------------- MODULE MCExperiment ----------------------------
(***************************************************************************)
(* One benchmark, two strategies, an experiment per budget, one of them    *)
(* issued again with a second seed; and an experiment issued again with    *)
(* another budget.                                                         *)
(***************************************************************************)
EXTENDS Experiment

Ablation(name, seeds, budget) ==
  [name |-> name, strategies |-> <<"agent", "tpe">>, simulators |-> <<"branin">>,
   seeds |-> seeds, budget |-> budget]

AgentOnly(spec) == [spec EXCEPT !.strategies = <<"agent">>]

OneBudgetEach ==
  <<Ablation("e10", 1, 10), Ablation("e20", 1, 20), Ablation("e40", 1, 40),
    AgentOnly(Ablation("e20", 2, 20))>>

TwoBudgets == <<Ablation("e10", 1, 10), Ablation("e10", 1, 20)>>

Rivalled == {CellAt(Ablation("e10", 1, 10), 2)}
=============================================================================
