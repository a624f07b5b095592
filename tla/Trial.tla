-------------------------------- MODULE Trial --------------------------------
(***************************************************************************)
(* One trial after another, with everything between the strategy and the   *)
(* history spelled out: what each strategy may propose, the guard, the     *)
(* simulator's judgement of the constraints, and what the TPE sampler is   *)
(* told of it on the next call.  History and DurableRun take all of this   *)
(* as constants; ImplementsRecord says that they may.                      *)
(***************************************************************************)
EXTENDS Guards, FiniteSets, FiniteSetsExt, Functions

CONSTANTS
  Order,           \* the names in the space's declared order
  Metrics,         \* the metrics the simulator reports
  Measure(_, _),   \* Measure(m, p): metric m of the point p
  ObjectiveMetric, Constraints,      \* the benchmark's
  ParsedGoals,     \* what a model may make of a goal's text
  Strategies,      \* those whose runs are considered
  RawAnswers,      \* what a model may propose
  MaxEvaluations, MaxRejections, Window, Direction, Target,
  Invalid, Failed, NoTarget, NoBest, ToolError, NoGoal

VARIABLES
  strategy,
  goal,      \* the run's goal: objective metric and constraints
  history    \* its episodes

vars == <<strategy, goal, history>>

-----------------------------------------------------------------------------
Points ==
  {p \in [Names -> UNION {Legal(Space[n]) : n \in Names}] :
     \A n \in Names : p[n] \in Legal(Space[n])}

Constraint ==
  [metric : Metrics, operator : {"LE", "LT", "GE", "GT", "EQ"}, threshold : Int, tolerance : Nat]

ASSUME BenchmarkAssumption ==
  /\ \A m \in Metrics : \A p \in Points : Measure(m, p) \in Int
  /\ ObjectiveMetric \in Metrics
  /\ Constraints \in Seq(Constraint)
  /\ Strategies \subseteq {"grid", "random", "tpe", "planner"}

ASSUME OrderAssumption == Order \in Seq(Names) /\ IsInjective(Order) /\ Range(Order) = Names

ASSUME BudgetAssumption == MaxEvaluations \in Nat \ {0} /\ MaxRejections \in Nat

ASSUME TrialSentinels ==
  Invalid \notin Points /\ Failed \notin Points /\ Failed \notin RawAnswers /\ Invalid # Failed

ASSUME ParsedAssumption ==
  \A g \in ParsedGoals : \A i \in DOMAIN g.constraints :
    /\ g.constraints[i].operator \in {"LE", "LT", "GE", "GT", "EQ"}
    /\ g.constraints[i].threshold \in Int /\ g.constraints[i].tolerance \in Nat

Distance(v, w) == IF v <= w THEN w - v ELSE v - w

\* Constraint.is_satisfied.
IsSatisfied(c, v) ==
  CASE c.operator = "LE" -> v <= c.threshold
    [] c.operator = "LT" -> v < c.threshold
    [] c.operator = "GE" -> v >= c.threshold
    [] c.operator = "GT" -> v > c.threshold
    [] c.operator = "EQ" -> Distance(v, c.threshold) <= c.tolerance

\* Mutant: the distance keeps its sign.
ViolationAmountSigned(c, v) == IF IsSatisfied(c, v) THEN 0 ELSE v - c.threshold

\* Constraint.violation_amount.
ViolationAmount(c, v) == IF IsSatisfied(c, v) THEN 0 ELSE Distance(v, c.threshold)

\* ToySimulator.run: measure, then judge the benchmark's own constraints.
Simulate(p) ==
  LET broken == {i \in DOMAIN Constraints :
                   ~IsSatisfied(Constraints[i], Measure(Constraints[i].metric, p))}
  IN  [metrics  |-> [m \in Metrics |-> Measure(m, p)],
       value    |-> Measure(ObjectiveMetric, p),
       amounts  |-> [i \in broken |->
                       ViolationAmount(Constraints[i], Measure(Constraints[i].metric, p))],
       feasible |-> broken = {}]

\* SimResult.total_violation, and the fields the loop grades by.
Graded(r) ==
  [feasible  |-> r.feasible, value |-> r.value,
   violation |-> FoldFunction(LAMBDA a, b : a + b, 0, r.amounts)]

ASSUME ResultAssumption ==
  \A p \in Points : Simulate(p) # ToolError /\ Graded(Simulate(p)) # ToolError

-----------------------------------------------------------------------------
\* default_goal.
DefaultGoal == [metric |-> ObjectiveMetric, constraints |-> Constraints]

\* validate_goal: what of a model's reading of the text is not refused. The goal's
\* direction and target are the run's constants, read or not: one instance has
\* the parsed goals of one direction and target.
Goals ==
  {g \in ParsedGoals :
     g.metric \in Metrics /\ \A i \in DOMAIN g.constraints : g.constraints[i].metric \in Metrics}

\* Mutant: at least is read as at most.
ConstraintValueUnsigned(c, metrics) ==
  IF c.metric \notin DOMAIN metrics THEN -1
  ELSE IF c.operator = "EQ" THEN Distance(metrics[c.metric], c.threshold) - c.tolerance
  ELSE metrics[c.metric] - c.threshold

\* constraint_values: Optuna's convention, at most 0 when satisfied.
ConstraintValue(c, metrics) ==
  IF c.metric \notin DOMAIN metrics THEN -1
  ELSE CASE c.operator \in {"LE", "LT"} -> metrics[c.metric] - c.threshold
         [] c.operator \in {"GE", "GT"} -> c.threshold - metrics[c.metric]
         [] OTHER -> Distance(metrics[c.metric], c.threshold) - c.tolerance

-----------------------------------------------------------------------------
\* The baselines hand over values of the parameter's own type.
Written(p) ==
  [n \in Names |->
     [form  |-> CASE Space[n].kind = "FLOAT" -> "float" [] Space[n].kind = "INT" -> "int"
                  [] OTHER -> "word",
      value |-> p[n]]]

\* int(): toward zero.
Truncated(v) == IF v >= 0 THEN Floor(v) ELSE Ceil(v)

\* distributions_for: what TPE may suggest, and what create_trial accepts.
Suggested(spec) ==
  IF spec.kind = "CATEGORICAL" THEN ChoicesOf(spec)
  ELSE IF spec.kind = "FLOAT" THEN spec.low .. spec.high
  ELSE {v \in Truncated(spec.low) .. Truncated(spec.high) : IsWhole(v)}

SuggestedPoints ==
  {p \in [Names -> UNION {Suggested(Space[n]) : n \in Names}] :
     \A n \in Names : p[n] \in Suggested(Space[n])}

\* What the numbers of a sequence make together from the j-th on, for each j.
Products(lens) ==
  LET P[j \in 1 .. Len(lens) + 1] == IF j > Len(lens) THEN 1 ELSE lens[j] * P[j + 1] IN P

NumericNames == {n \in Names : IsNumeric(Space[n])}

\* The points of a grid with k of them on each numeric axis; on the categorical
\* ones there are what there are.
SizeWith(k) ==
  Products([j \in 1 .. Len(Order) |->
              IF Order[j] \in NumericNames THEN k ELSE Len(Space[Order[j]].choices)])[1]

CategoricalSize == SizeWith(1)

\* points_per_axis: the most with which the whole grid fits the budget. The code
\* steps up to it from a float root rounded down.
PointsPerAxis ==
  IF NumericNames = {} \/ MaxEvaluations < CategoricalSize THEN 1
  ELSE Max({k \in 1 .. MaxEvaluations : SizeWith(k) <= MaxEvaluations})

\* round(a / b): to the nearest integer, ties to the even one.
RoundRatio(a, b) ==
  LET q == a \div b
      r == a % b
  IN  IF 2 * r < b \/ (2 * r = b /\ q % 2 = 0) THEN q ELSE q + 1

\* axis_values: k values over both bounds, or the centre; whole ones for an
\* integer axis (a float is cut to the resolution of the model).
AxisValue(spec, k, i) ==
  LET weighed == IF k = 1 THEN spec.low + spec.high
                          ELSE spec.low * (k - 1) + (spec.high - spec.low) * i
      parts   == IF k = 1 THEN 2 ELSE k - 1
  IN  IF spec.kind = "FLOAT" THEN weighed \div parts
      ELSE IF k = 1 THEN 2 * RoundRatio(weighed, 2 * parts)
      ELSE Clamp(2 * RoundRatio(weighed, 2 * parts), Lowest(spec), Highest(spec))

\* The values in ascending order.
Ascending(values) ==
  [i \in 1 .. Cardinality(values) |->
     CHOOSE v \in values : Cardinality({u \in values : u < v}) = i - 1]

\* An integer axis drops its repeats, and may have fewer values than asked.
Axis(spec) ==
  CASE spec.kind = "CATEGORICAL" -> spec.choices
    [] spec.kind = "FLOAT" -> [i \in 1 .. PointsPerAxis |-> AxisValue(spec, PointsPerAxis, i - 1)]
    [] OTHER -> Ascending({AxisValue(spec, PointsPerAxis, i) : i \in 0 .. PointsPerAxis - 1})

Axes == [j \in 1 .. Len(Order) |-> Axis(Space[Order[j]])]

\* The odometer: Stride[j + 1] points share a digit on axis j.
Stride == Products([j \in 1 .. Len(Order) |-> Len(Axes[j])])

GridSize == Stride[1]

\* Mutant: the last axis never advances.
PointAtSlow(index) ==
  [n \in Names |->
     LET j == CHOOSE k \in 1 .. Len(Order) : Order[k] = n
     IN  Axes[j][1 + ((index \div Stride[j]) % Len(Axes[j]))]]

\* GridSearch.point_at: the digits of the index.
PointAt(index) ==
  [n \in Names |->
     LET j == CHOOSE k \in 1 .. Len(Order) : Order[k] = n
     IN  Axes[j][1 + ((index \div Stride[j + 1]) % Len(Axes[j]))]]
-----------------------------------------------------------------------------
\* The run's history as History reads it.
Log ==
  [i \in DOMAIN history |->
     [candidate |-> history[i].candidate,
      result    |-> IF history[i].outcome = ToolError THEN ToolError ELSE Graded(history[i].outcome),
      wall      |-> 0,
      improved  |-> history[i].improved]]

\* What History leaves open: any answer, and no wall-clock time to speak of.
Sims == [p \in Points |-> Graded(Simulate(p))]
NudgesOf == [p \in Points |-> Nudges(p)]
Anything == [n \in 0 .. MaxEvaluations + MaxRejections |-> Points \cup {Invalid, Failed}]

Record ==
  INSTANCE RunRecord WITH
    log <- Log, Sim <- Sims, Nudge <- NudgesOf, Proposals <- Anything,
    Supply <- MaxEvaluations + MaxRejections + 1, WallTimes <- {0}, MaxWall <- 1

Evaluated == {i \in DOMAIN history : history[i].outcome # ToolError}

\* Mutant: only the most recent evaluation is compared.
IsDuplicateOfLast(p) ==
  \E i \in Evaluated : history[i].candidate = p /\ \A j \in Evaluated : j <= i

\* is_duplicate.
IsDuplicate(p) == \E i \in Evaluated : history[i].candidate = p

\* The next index of a history without gaps.
Turn == Record!NextIdx(Log)

\* What propose may return. A grid past its last point raises
\* StrategyExhausted; TPE's create_trial raises on a point out of its
\* distributions. Neither leaves a proposal to act on.
Proposed ==
  CASE strategy = "grid"    -> {Written(PointAt(n)) : n \in {Turn} \cap 0 .. GridSize - 1}
    [] strategy = "random"  -> {Written(p) : p \in Points}
    [] strategy = "tpe"     -> IF \A i \in Evaluated : history[i].candidate \in SuggestedPoints
                               THEN {Written(p) : p \in SuggestedPoints} ELSE {}
    [] strategy = "planner" -> RawAnswers

Source == IF strategy = "planner" THEN "PLANNER" ELSE "BASELINE"

\* Mutant: feasibility is forgotten, as it is in delta_vs.
ImprovesByValue(outcome) ==
  /\ outcome # ToolError
  /\ LET best == Record!RecomputeBest(Log)
     IN  best = NoBest \/ outcome.value < best.result.value

\* improved: better_than, against the best of the history.
Improves(outcome) ==
  outcome # ToolError /\ Record!BetterThan(Graded(outcome), Record!RecomputeBest(Log))

-----------------------------------------------------------------------------
Init == strategy \in Strategies /\ goal = NoGoal /\ history = Record!EmptyHistory

\* The run commands take the benchmark's own goal.
UseDefaultGoal ==
  goal = NoGoal /\ goal' = DefaultGoal /\ UNCHANGED <<strategy, history>>

\* GoalParser.parse, which no command calls yet.
ParseGoal ==
  goal = NoGoal /\ goal' \in Goals /\ UNCHANGED <<strategy, history>>

\* The head of run_loop lets the run go on.
GoesOn == goal # NoGoal /\ Record!StopReason(Record!Rehydrate(Log)) = "NONE"

\* The rest of the loop body: grade, and append.
Commit(candidate, source, outcome) ==
  /\ history' = Record!Extend(history, Turn,
                   [candidate |-> candidate, source |-> source, outcome |-> outcome,
                    improved |-> Improves(outcome)])
  /\ UNCHANGED <<strategy, goal>>

\* A ProviderError leaves a placeholder without parameters.
RecordFailure ==
  GoesOn /\ strategy = "planner" /\ Commit(Failed, "PLANNER", ToolError)

\* The guard rejects; the simulator is not called.
RecordRejection ==
  /\ GoesOn
  /\ \E raw \in Proposed : ~Valid(raw)
  /\ Commit(Invalid, Source, ToolError)

\* A new point, cleaned, goes to the simulator.
Evaluate ==
  /\ GoesOn
  /\ \E raw \in {r \in Proposed : Valid(r)} :
       /\ ~IsDuplicate(Validated(raw))
       /\ Commit(Validated(raw), Source, Simulate(Validated(raw)))

\* A repeated point is nudged first, and the episode says so.
Perturb ==
  /\ GoesOn
  /\ \E raw \in {r \in Proposed : Valid(r)} :
       /\ IsDuplicate(Validated(raw))
       /\ \E q \in Nudges(Validated(raw)) : Commit(q, "PERTURB", Simulate(q))

Next == UseDefaultGoal \/ ParseGoal \/ RecordFailure \/ RecordRejection \/ Evaluate \/ Perturb

Spec == Init /\ [][Next]_vars

-----------------------------------------------------------------------------
\* The shape of the state; what the loop compares results by is never negative.
TypeOK ==
  /\ strategy \in Strategies
  /\ goal \in {NoGoal, DefaultGoal} \cup Goals
  /\ \A i \in DOMAIN history :
       /\ i \in 0 .. MaxEvaluations + MaxRejections - 1
       /\ history[i].source \in {"BASELINE", "PLANNER", "PERTURB"}
       /\ history[i].improved \in BOOLEAN
       /\ history[i].outcome # ToolError => Graded(history[i].outcome) \in Record!Result

\* Whatever was proposed and however it was repaired, the simulator only runs
\* inside the declared space, integers on integers, and TPE can replay every
\* point it was run at (guards validate and perturb, create_trial).
OnlyLegalPoints ==
  \A i \in Evaluated : history[i].candidate \in Points \cap SuggestedPoints

\* A point is measured twice only if perturb put it there, and then the record
\* says PERTURB: no repeat, of the last point or an older one, goes unmarked
\* (is_duplicate; the rate is read off the source).
RepeatsAreMarked ==
  \A i, j \in Evaluated :
    i < j /\ history[i].candidate = history[j].candidate => history[j].source = "PERTURB"

\* What TPE is told of an episode is what the goal says of it: no constraint
\* passes for lack of its metric, and at most 0 means satisfied, except at the
\* threshold itself of a strict one. Under the benchmark's own goal, told all
\* satisfied is feasible (constraint_values against Constraint.is_satisfied).
SamplerAgrees ==
  \A i \in Evaluated :
    LET seen == history[i].outcome.metrics
        Edge(c) == c.operator \in {"LT", "GT"} /\ seen[c.metric] = c.threshold
        Told(c) == ConstraintValue(c, seen) <= 0
    IN  /\ \A k \in DOMAIN goal.constraints :
             LET c == goal.constraints[k]
             IN  /\ c.metric \in DOMAIN seen
                 /\ Edge(c) \/ (Told(c) <=> IsSatisfied(c, seen[c.metric]))
        /\ goal = DefaultGoal =>
             (history[i].outcome.feasible
                <=> \A k \in DOMAIN goal.constraints :
                      Told(goal.constraints[k]) /\ ~Edge(goal.constraints[k]))

\* A grid run evaluates the points of one fixed grid in order, none twice and
\* none nudged, and the grid fits the budget it was sized for whenever its
\* categorical part does (GridSearch.point_at, points_per_axis).
GridIsWalkedOnce ==
  strategy = "grid" =>
    /\ CategoricalSize <= MaxEvaluations => GridSize <= MaxEvaluations
    /\ \A i \in DOMAIN history :
         /\ history[i].candidate = PointAt(i)
         /\ history[i].source = "BASELINE"
         /\ \A j \in DOMAIN history : history[i].candidate = history[j].candidate => i = j

\* With the strategies, the guard, the nudge and the simulator in place of
\* History's constants, a run still is what RunRecord promises.
ImplementsRecord == Record!Spec
=============================================================================
