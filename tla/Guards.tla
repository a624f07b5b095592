------------------------------- MODULE Guards -------------------------------
(***************************************************************************)
(* The parameter space a simulator declares, and what the guard does to a  *)
(* proposal before the simulator sees it: reject, clean, or nudge.         *)
(* Numbers are counted in halves, which tells an integer from a fraction   *)
(* and has the half-way points where round() goes to the even neighbour.   *)
(***************************************************************************)
EXTENDS Integers, Sequences

CONSTANTS
  Names,   \* the declared parameter names
  Words,   \* names a categorical parameter may take, each given a number
  Space    \* the ParamSpec of each parameter

-----------------------------------------------------------------------------
IsWhole(v) == v % 2 = 0
Floor(v) == v - (v % 2)
Ceil(v) == v + (v % 2)

Lesser(a, b) == IF a <= b THEN a ELSE b
Greater(a, b) == IF a >= b THEN a ELSE b
Clamp(v, low, high) == Lesser(Greater(v, low), high)

ChoicesOf(spec) == {spec.choices[i] : i \in DOMAIN spec.choices}

IsNumeric(spec) == spec.kind \in {"FLOAT", "INT"}

\* Integer bounds are rounded inward, so that clamping stays inside them.
Lowest(spec) == IF spec.kind = "INT" THEN Ceil(spec.low) ELSE spec.low
Highest(spec) == IF spec.kind = "INT" THEN Floor(spec.high) ELSE spec.high

\* ParamSpec._check_shape. That an integer range holds an integer is not
\* checked by the code: it is assumed, and true of every space in it.
ASSUME SpaceAssumption ==
  /\ Words \subseteq Int
  /\ Space \in [Names -> [kind : {"FLOAT", "INT", "CATEGORICAL"}, low : Int, high : Int,
                          choices : Seq(Words)]]
  /\ \A n \in Names :
       IF IsNumeric(Space[n])
       THEN Space[n].low < Space[n].high /\ Lowest(Space[n]) <= Highest(Space[n])
       ELSE ChoicesOf(Space[n]) # {}

\* What a parameter may be when the simulator runs.
Legal(spec) ==
  IF spec.kind = "CATEGORICAL" THEN ChoicesOf(spec)
  ELSE {v \in spec.low .. spec.high : spec.kind = "INT" => IsWhole(v)}

-----------------------------------------------------------------------------
\* A proposed value is a number (written as a Python int, a float, or text
\* that float() reads, finite or not), or other text.
IsNumber(raw) == raw.form \in {"int", "float", "numeral"} /\ raw.value \in Int

\* _clean_categorical, _clean_int, _as_number: what is not rejected.
Acceptable(spec, raw) ==
  IF spec.kind = "CATEGORICAL" THEN raw.form = "word" /\ raw.value \in ChoicesOf(spec)
  ELSE IsNumber(raw) /\ (spec.kind = "INT" => IsWhole(raw.value))

\* Mutant: integers are clamped to the bounds as declared.
CleanToBounds(spec, raw) ==
  IF IsNumeric(spec) THEN Clamp(raw.value, spec.low, spec.high) ELSE raw.value

\* _clean_one: the value an acceptable proposal becomes.
Clean(spec, raw) ==
  IF IsNumeric(spec) THEN Clamp(raw.value, Lowest(spec), Highest(spec)) ELSE raw.value

\* GuardResult's flags: the value, or the way it was written, had to change.
Clamped(spec, raw) == IsNumeric(spec) /\ Clean(spec, raw) # raw.value
Coerced(spec, raw) ==
  IsNumeric(spec) /\ (raw.form = "numeral" \/ (spec.kind = "INT" /\ raw.form = "float"))

\* validate: no unknown and no missing name, every value acceptable.
Valid(params) ==
  DOMAIN params = Names /\ \A n \in Names : Acceptable(Space[n], params[n])

Validated(params) == [n \in Names |-> Clean(Space[n], params[n])]

-----------------------------------------------------------------------------
\* perturb, one parameter. A Gaussian step reaches every value in the bounds;
\* it leaves a value where it is only by being clamped back onto a bound. An
\* integer that did not move is stepped once more, and clamped again.
Moves(spec, v) ==
  IF spec.kind = "CATEGORICAL"
  THEN IF ChoicesOf(spec) = {v} THEN {v} ELSE ChoicesOf(spec) \ {v}
  ELSE IF spec.kind = "INT"
  THEN {u \in Legal(spec) : u # v}
         \cup {Clamp(v + d, Lowest(spec), Highest(spec)) : d \in {-2, 2}}
  ELSE {u \in Legal(spec) : u # v \/ v \in {spec.low, spec.high}}

\* perturb: every parameter is nudged.
Nudges(p) ==
  {q \in [Names -> UNION {Moves(Space[n], p[n]) : n \in Names}] :
     \A n \in Names : q[n] \in Moves(Space[n], p[n])}
=============================================================================
