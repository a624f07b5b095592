------------------------------- MODULE MCTrial -------------------------------
(***************************************************************************)
(* A space with one parameter of each kind, two constraints (one strict),  *)
(* and the proposals a guard has to tell apart.                            *)
(***************************************************************************)
EXTENDS Trial, TLC

CONSTANT NaN

MCNames == {"x", "n", "c"}
MCWords == {1}
MCOrder == <<"x", "n", "c">>

\* In halves (a word is a number, 9 is not a choice): x in [0, 0.5], n in [0.5, 2], so n is 1 or 2.
MCSpace ==
  "x" :> [kind |-> "FLOAT", low |-> 0, high |-> 1, choices |-> <<>>] @@
  "n" :> [kind |-> "INT", low |-> 1, high |-> 4, choices |-> <<>>] @@
  "c" :> [kind |-> "CATEGORICAL", low |-> 0, high |-> 0, choices |-> <<1>>]

MCMetrics == {"objective", "sum"}
MCMeasure(m, p) == IF m = "sum" THEN p["x"] + p["n"] ELSE Distance(3 * p["x"], 2 * p["n"])

At(metric, operator, threshold) ==
  [metric |-> metric, operator |-> operator, threshold |-> threshold, tolerance |-> 0]

MCConstraints == <<At("sum", "LE", 4), At("objective", "GT", 4)>>

MCParsedGoals ==
  {[metric |-> "sum", constraints |-> <<At("objective", "GE", 2), At("sum", "EQ", 4)>>],
   [metric |-> "sum", constraints |-> <<At("cost", "LT", 2)>>],
   [metric |-> "cost", constraints |-> <<>>]}

Raw(form, value) == [form |-> form, value |-> value]
Params(x, n) == "x" :> x @@ "n" :> n @@ "c" :> Raw("word", 1)

MCRawAnswers ==
  {Params(Raw("float", 1), Raw("int", 2)), Params(Raw("float", 7), Raw("int", -2)),
   Params(Raw("numeral", 0), Raw("float", 4)), Params(Raw("int", 2), Raw("float", 3)),
   Params(Raw("float", NaN), Raw("int", 2)), Params(Raw("word", 9), Raw("int", 2)),
   "x" :> Raw("float", 1) @@ "n" :> Raw("int", 2) @@ "c" :> Raw("word", 9),
   "x" :> Raw("float", 1) @@ "n" :> Raw("int", 2),
   Params(Raw("float", 1), Raw("int", 2)) @@ "y" :> Raw("int", 2)}
=============================================================================
