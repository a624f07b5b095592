---------------------------- MODULE Trial_proofs ----------------------------
(***************************************************************************)
(* For any space, benchmark, strategy and budget: what reaches the         *)
(* simulator is legal, no repeat goes unmarked, the sampler is told the    *)
(* truth, the run is the run of RunRecord, and a grid is walked once.      *)
(***************************************************************************)
EXTENDS Trial, Induction

\* ParamSpec.
ParamSpec ==
  [kind : {"FLOAT", "INT", "CATEGORICAL"}, low : Int, high : Int, choices : Seq(Words)]

\* What SpaceAssumption says of one parameter.
WellFormed(spec) ==
  /\ spec \in ParamSpec
  /\ IF IsNumeric(spec) THEN spec.low < spec.high /\ Lowest(spec) <= Highest(spec)
                        ELSE ChoicesOf(spec) # {}

-----------------------------------------------------------------------------
\* Rounding to whole numbers.
LEMMA Rounding ==
  ASSUME NEW v \in Int
  PROVE  /\ Floor(v) \in Int /\ Ceil(v) \in Int
         /\ Floor(v) <= v /\ v <= Ceil(v)
         /\ IsWhole(Floor(v)) /\ IsWhole(Ceil(v))
         /\ \A u \in Int : IsWhole(u) /\ v <= u => Ceil(v) <= u
         /\ \A u \in Int : IsWhole(u) /\ u <= v => u <= Floor(v)
BY DEF Floor, Ceil, IsWhole

\* A clamped number is one of the bounds or the number, and between the bounds.
LEMMA Clamping ==
  ASSUME NEW v \in Int, NEW low \in Int, NEW high \in Int, low <= high
  PROVE  /\ Clamp(v, low, high) \in {v, low, high}
         /\ low <= Clamp(v, low, high) /\ Clamp(v, low, high) <= high
BY DEF Clamp, Lesser, Greater

\* The inward bounds are legal values.
LEMMA InwardBounds ==
  ASSUME NEW spec, WellFormed(spec), IsNumeric(spec)
  PROVE  /\ spec.low \in Int /\ spec.high \in Int
         /\ Lowest(spec) \in Int /\ Highest(spec) \in Int
         /\ spec.low <= Lowest(spec) /\ Lowest(spec) <= Highest(spec)
         /\ Highest(spec) <= spec.high
         /\ spec.kind = "INT" => IsWhole(Lowest(spec)) /\ IsWhole(Highest(spec))
<1>1. spec.low \in Int /\ spec.high \in Int
  BY DEF WellFormed, ParamSpec
<1>. QED  BY <1>1, Rounding DEF WellFormed, Lowest, Highest

\* The inside of a numeric parameter.
LEMMA ClampLegal ==
  ASSUME NEW spec, WellFormed(spec), IsNumeric(spec), NEW v \in Int,
         spec.kind = "INT" => IsWhole(v)
  PROVE  Clamp(v, Lowest(spec), Highest(spec)) \in Legal(spec)
<1>1. /\ Clamp(v, Lowest(spec), Highest(spec)) \in {v, Lowest(spec), Highest(spec)}
      /\ Lowest(spec) <= Clamp(v, Lowest(spec), Highest(spec))
      /\ Clamp(v, Lowest(spec), Highest(spec)) <= Highest(spec)
  BY InwardBounds, Clamping
<1>. QED  BY <1>1, InwardBounds DEF Legal, IsNumeric

\* Whatever the guard does not reject, it makes legal.
LEMMA CleanLegal ==
  ASSUME NEW spec, WellFormed(spec), NEW raw, Acceptable(spec, raw)
  PROVE  Clean(spec, raw) \in Legal(spec)
<1>1. CASE IsNumeric(spec)
  <2>1. raw.value \in Int /\ (spec.kind = "INT" => IsWhole(raw.value))
    BY <1>1 DEF Acceptable, IsNumeric, IsNumber
  <2>. QED  BY <1>1, <2>1, ClampLegal DEF Clean
<1>2. CASE ~IsNumeric(spec)
  <2>1. spec.kind = "CATEGORICAL"
    BY <1>2 DEF WellFormed, ParamSpec, IsNumeric
  <2>. QED  BY <1>2, <2>1 DEF Acceptable, Clean, Legal
<1>. QED  BY <1>1, <1>2

\* One step of perturb keeps a legal value legal.
LEMMA MovesLegal ==
  ASSUME NEW spec, WellFormed(spec), NEW v \in Legal(spec)
  PROVE  Moves(spec, v) \subseteq Legal(spec)
<1>1. CASE spec.kind = "CATEGORICAL"
  BY <1>1 DEF Moves, Legal
<1>2. CASE spec.kind = "FLOAT"
  BY <1>2 DEF Moves
<1>3. CASE spec.kind = "INT"
  <2>1. v \in Int /\ IsWhole(v) /\ IsNumeric(spec)
    BY <1>3, InwardBounds DEF Legal, IsNumeric
  <2>2. ASSUME NEW d \in {-2, 2}
        PROVE  Clamp(v + d, Lowest(spec), Highest(spec)) \in Legal(spec)
    <3>1. v + d \in Int /\ IsWhole(v + d)
      BY <2>1 DEF IsWhole
    <3>. QED  BY <3>1, <2>1, ClampLegal
  <2>. QED  BY <1>3, <2>2 DEF Moves
<1>. QED  BY <1>1, <1>2, <1>3 DEF WellFormed, ParamSpec

\* TPE may be told of every legal value (create_trial accepts it).
LEMMA LegalSuggested ==
  ASSUME NEW spec, WellFormed(spec) PROVE Legal(spec) \subseteq Suggested(spec)
<1>1. CASE spec.kind # "INT"
  BY <1>1 DEF Legal, Suggested, WellFormed, ParamSpec
<1>2. CASE spec.kind = "INT"
  <2>1. spec.low \in Int /\ spec.high \in Int
    BY DEF WellFormed, ParamSpec
  <2>2. ASSUME NEW v \in Legal(spec) PROVE v \in Suggested(spec)
    <3>1. v \in Int /\ IsWhole(v) /\ spec.low <= v /\ v <= spec.high
      BY <1>2, <2>1 DEF Legal
    <3>2. Truncated(spec.low) \in Int /\ Truncated(spec.low) <= v
      BY <2>1, <3>1, Rounding DEF Truncated
    <3>3. Truncated(spec.high) \in Int /\ v <= Truncated(spec.high)
      BY <2>1, <3>1, Rounding DEF Truncated
    <3>. QED  BY <1>2, <3>1, <3>2, <3>3 DEF Suggested
  <2>. QED  BY <2>2
<1>. QED  BY <1>1, <1>2

-----------------------------------------------------------------------------
LEMMA SpaceIs == ASSUME NEW n \in Names PROVE WellFormed(Space[n])
BY SpaceAssumption DEF WellFormed, ParamSpec

\* To be a point is to be legal, name by name.
LEMMA PointIs ==
  ASSUME NEW p, p = [n \in Names |-> p[n]], \A n \in Names : p[n] \in Legal(Space[n])
  PROVE  p \in Points /\ p \in SuggestedPoints
<1>1. \A n \in Names : p[n] \in Suggested(Space[n])
  BY LegalSuggested, SpaceIs
<1>2. p \in [Names -> UNION {Legal(Space[n]) : n \in Names}]
  <2>1. \A n \in Names : p[n] \in UNION {Legal(Space[m]) : m \in Names}
    BY Zenon
  <2>. QED  BY <2>1, Zenon
<1>3. p \in [Names -> UNION {Suggested(Space[n]) : n \in Names}]
  <2>1. \A n \in Names : p[n] \in UNION {Suggested(Space[m]) : m \in Names}
    BY <1>1, Zenon
  <2>. QED  BY <2>1, Zenon
<1>. QED  BY <1>1, <1>2, <1>3, Zenon DEF Points, SuggestedPoints

\* The guard's output is a point.
LEMMA ValidatedIsPoint ==
  ASSUME NEW raw, Valid(raw) PROVE Validated(raw) \in Points
<1>1. \A n \in Names : Validated(raw)[n] \in Legal(Space[n])
  BY CleanLegal, SpaceIs DEF Valid, Validated
<1>2. Validated(raw) = [n \in Names |-> Validated(raw)[n]]
  BY DEF Validated
<1>. QED  BY <1>1, <1>2, PointIs

\* And so is a nudged point.
LEMMA NudgeIsPoint ==
  ASSUME NEW p \in Points, NEW q \in Nudges(p) PROVE q \in Points
<1>1. \A n \in Names : p[n] \in Legal(Space[n])
  BY DEF Points
<1>2. q \in [Names -> UNION {Moves(Space[n], p[n]) : n \in Names}]
      /\ \A n \in Names : q[n] \in Moves(Space[n], p[n])
  BY Zenon DEF Nudges
<1>3. \A n \in Names : q[n] \in Legal(Space[n])
  BY <1>1, <1>2, MovesLegal, SpaceIs
<1>. QED  BY <1>2, <1>3, PointIs

\* Points are among those TPE can be told of.
LEMMA PointIsSuggested == Points \subseteq SuggestedPoints
<1>. SUFFICES ASSUME NEW p \in Points PROVE p \in SuggestedPoints
  OBVIOUS
<1>1. p = [n \in Names |-> p[n]] /\ \A n \in Names : p[n] \in Legal(Space[n])
  BY DEF Points
<1>. QED  BY <1>1, PointIs

-----------------------------------------------------------------------------
\* An episode of the loop: what became of a proposal.
Outcomes(c, source, outcome) ==
  \/ c \in {Failed, Invalid} /\ outcome = ToolError
  \/ c \in Points /\ outcome = Simulate(c) /\ ~IsDuplicate(c)
  \/ /\ c \in Points /\ outcome = Simulate(c) /\ source = "PERTURB"
     /\ \E p \in Points : IsDuplicate(p) /\ c \in Nudges(p)

\* Where an episode's candidate may come from.
Sources == {"BASELINE", "PLANNER", "PERTURB"}

\* Every step either chooses the goal or commits such an episode.
LEMMA StepIs ==
  ASSUME Next
  PROVE  \/ /\ goal = NoGoal /\ goal' \in {DefaultGoal} \cup Goals
            /\ UNCHANGED <<strategy, history>>
         \/ /\ GoesOn
            /\ \E c, source, outcome :
                 /\ Outcomes(c, source, outcome) /\ Commit(c, source, outcome)
                 /\ source \in Sources
<1>1. CASE UseDefaultGoal \/ ParseGoal
  BY <1>1 DEF UseDefaultGoal, ParseGoal
<1>2. CASE RecordFailure
  BY <1>2 DEF RecordFailure, Outcomes, Sources
<1>3. CASE RecordRejection
  BY <1>3 DEF RecordRejection, Outcomes, Source, Sources
<1>4. CASE Evaluate
  <2>1. PICK raw : /\ Valid(raw) /\ ~IsDuplicate(Validated(raw))
                   /\ Commit(Validated(raw), Source, Simulate(Validated(raw)))
    BY <1>4 DEF Evaluate
  <2>2. Outcomes(Validated(raw), Source, Simulate(Validated(raw)))
    BY <2>1, ValidatedIsPoint DEF Outcomes
  <2>. QED  BY <1>4, <2>1, <2>2 DEF Evaluate, Source, Sources
<1>5. CASE Perturb
  <2>1. PICK raw : /\ Valid(raw) /\ IsDuplicate(Validated(raw))
                   /\ \E q \in Nudges(Validated(raw)) : Commit(q, "PERTURB", Simulate(q))
    BY <1>5 DEF Perturb
  <2>2. PICK q \in Nudges(Validated(raw)) : Commit(q, "PERTURB", Simulate(q))
    BY <2>1
  <2>3. Outcomes(q, "PERTURB", Simulate(q))
    BY <2>1, <2>2, ValidatedIsPoint, NudgeIsPoint DEF Outcomes
  <2>. QED  BY <1>5, <2>2, <2>3 DEF Perturb, Sources
<1>. QED  BY <1>1, <1>2, <1>3, <1>4, <1>5 DEF Next

-----------------------------------------------------------------------------
\* The record has no gap.
Gapless == \E n \in Nat : DOMAIN history = 0 .. n - 1

\* Every evaluation is the simulator's, at a point.
Faithful ==
  \A i \in Evaluated :
    history[i].candidate \in Points /\ history[i].outcome = Simulate(history[i].candidate)

\* The goal is one of those the code can build, and chosen before the first episode.
GoalChosen ==
  /\ goal \in {NoGoal, DefaultGoal} \cup Goals
  /\ goal = NoGoal => DOMAIN history = {}

Inv == Gapless /\ Faithful /\ GoalChosen /\ RepeatsAreMarked

\* The next index is the number of episodes.
LEMMA TurnIs ==
  ASSUME NEW n \in Nat, DOMAIN history = 0 .. n - 1 PROVE Turn = n
<1>1. DOMAIN Log = 0 .. n - 1
  BY DEF Log
<1>2. CASE n = 0
  BY <1>1, <1>2 DEF Turn, Record!NextIdx
<1>3. CASE n # 0
  <2>1. n - 1 \in 0 .. n - 1 /\ \A y \in 0 .. n - 1 : n - 1 >= y
    BY <1>3
  <2>2. \E x \in 0 .. n - 1 : \A y \in 0 .. n - 1 : x >= y
    BY <2>1
  <2>3. Record!Max(0 .. n - 1) \in 0 .. n - 1 /\ \A y \in 0 .. n - 1 : Record!Max(0 .. n - 1) >= y
    BY <2>2, Zenon DEF Record!Max
  <2>4. Record!Max(0 .. n - 1) = n - 1
    BY <2>1, <2>3
  <2>5. Turn = Record!Max(0 .. n - 1) + 1
    BY <1>1, <1>3 DEF Turn, Record!NextIdx
  <2>. QED  BY <2>4, <2>5
<1>. QED  BY <1>2, <1>3

\* What Commit makes of the record.
LEMMA CommitShape ==
  ASSUME NEW n \in Nat, DOMAIN history = 0 .. n - 1,
         NEW c, NEW source, NEW outcome, Commit(c, source, outcome)
  PROVE  /\ DOMAIN history' = 0 .. n
         /\ history'[n].candidate = c /\ history'[n].source = source
         /\ history'[n].outcome = outcome /\ history'[n].improved = Improves(outcome)
         /\ \A i \in 0 .. n - 1 : history'[i] = history[i]
<1>1. Turn = n
  BY TurnIs
<1>2. history' = [k \in (0 .. n - 1) \cup {n} |->
                    IF k = n THEN [candidate |-> c, source |-> source, outcome |-> outcome,
                                   improved |-> Improves(outcome)]
                             ELSE history[k]]
  BY <1>1 DEF Commit, Record!Extend
<1>3. (0 .. n - 1) \cup {n} = 0 .. n
  OBVIOUS
<1>. QED  BY <1>2, <1>3

\* The invariant is inductive.
LEMMA InitInv == Init => Inv
<1>. SUFFICES ASSUME Init PROVE Inv
  OBVIOUS
<1>1. DOMAIN history = {} /\ goal = NoGoal
  BY DEF Init, Record!EmptyHistory
<1>2. Gapless
  <2>1. DOMAIN history = 0 .. 0 - 1
    BY <1>1
  <2>. QED  BY <2>1 DEF Gapless
<1>. QED  BY <1>1, <1>2 DEF Inv, Faithful, GoalChosen, RepeatsAreMarked, Evaluated

LEMMA CommitKeepsInv ==
  ASSUME Inv, GoesOn, NEW c, NEW source, NEW outcome,
         Outcomes(c, source, outcome), Commit(c, source, outcome)
  PROVE  Inv'
<1>1. PICK n \in Nat : DOMAIN history = 0 .. n - 1
  BY DEF Inv, Gapless
<1>2. /\ DOMAIN history' = 0 .. n
      /\ history'[n].candidate = c /\ history'[n].source = source
      /\ history'[n].outcome = outcome
      /\ \A i \in 0 .. n - 1 : history'[i] = history[i]
  BY <1>1, CommitShape
<1>3. /\ \A i \in Evaluated' : i = n \/ (i \in 0 .. n - 1 /\ i \in Evaluated)
      /\ n \in Evaluated' => outcome # ToolError
      /\ \A i \in Evaluated : i \in 0 .. n - 1
  BY <1>1, <1>2 DEF Evaluated
<1>4. Gapless'
  <2>1. DOMAIN history' = 0 .. (n + 1) - 1
    BY <1>2
  <2>. QED  BY <2>1 DEF Gapless
<1>5. Faithful'
  <2>. SUFFICES ASSUME NEW i \in Evaluated'
                PROVE  /\ history'[i].candidate \in Points
                       /\ history'[i].outcome = Simulate(history'[i].candidate)
    BY DEF Faithful
  <2>1. CASE i = n
    BY <2>1, <1>2, <1>3 DEF Outcomes
  <2>2. CASE i # n
    BY <2>2, <1>2, <1>3 DEF Inv, Faithful
  <2>. QED  BY <2>1, <2>2
<1>6. GoalChosen'
  BY DEF Inv, GoalChosen, GoesOn, Commit
<1>7. RepeatsAreMarked'
  <2>. SUFFICES ASSUME NEW i \in Evaluated', NEW j \in Evaluated', i < j,
                       history'[i].candidate = history'[j].candidate
                PROVE  history'[j].source = "PERTURB"
    BY DEF RepeatsAreMarked
  <2>1. i \in 0 .. n /\ j \in 0 .. n
    BY <1>2 DEF Evaluated
  <2>2. i # n
    BY <2>1
  <2>3. i \in Evaluated /\ history'[i] = history[i]
    BY <2>2, <1>2, <1>3
  <2>4. CASE j = n
    <3>1. history[i].candidate = c
      BY <2>3, <2>4, <1>2
    <3>2. IsDuplicate(c)
      BY <3>1, <2>3 DEF IsDuplicate
    <3>. QED  BY <3>2, <2>4, <1>2, <1>3 DEF Outcomes
  <2>5. CASE j # n
    BY <2>3, <2>5, <1>2, <1>3 DEF Inv, RepeatsAreMarked
  <2>. QED  BY <2>4, <2>5
<1>. QED  BY <1>4, <1>5, <1>6, <1>7 DEF Inv

LEMMA NextInv == Inv /\ [Next]_vars => Inv'
<1>. SUFFICES ASSUME Inv, [Next]_vars PROVE Inv'
  OBVIOUS
<1>1. CASE UNCHANGED vars
  BY <1>1 DEF vars, Inv, Gapless, Faithful, GoalChosen, RepeatsAreMarked, Evaluated
<1>2. CASE goal = NoGoal /\ goal' \in {DefaultGoal} \cup Goals /\ UNCHANGED <<strategy, history>>
  BY <1>2 DEF Inv, Gapless, Faithful, GoalChosen, RepeatsAreMarked, Evaluated
<1>3. ASSUME GoesOn, NEW c, NEW source, NEW outcome,
             Outcomes(c, source, outcome), Commit(c, source, outcome)
      PROVE  Inv'
  BY <1>3, CommitKeepsInv
<1>. QED  BY <1>1, <1>2, <1>3, StepIs

LEMMA Invariance == Spec => []Inv
BY InitInv, NextInv, PTL DEF Spec

-----------------------------------------------------------------------------
\* Whatever was proposed and however it was repaired, the simulator only runs
\* inside the declared space, and TPE can be told of every point it ran at: for
\* any space whose integer ranges hold an integer (guards validate and perturb,
\* optuna's create_trial).
THEOREM SimulatorSeesLegalPoints == Spec => []OnlyLegalPoints
<1>1. Inv => OnlyLegalPoints
  BY PointIsSuggested DEF Inv, Faithful, OnlyLegalPoints
<1>. QED  BY <1>1, Invariance, PTL

\* No point is measured twice without the record saying PERTURB (is_duplicate).
THEOREM RepeatsMarked == Spec => []RepeatsAreMarked
<1>1. Inv => RepeatsAreMarked
  BY DEF Inv
<1>. QED  BY <1>1, Invariance, PTL

-----------------------------------------------------------------------------
\* What TPE is told of a constraint, against what it says of a measured value.
LEMMA ToldIsSatisfied ==
  ASSUME NEW c, NEW metrics, c.metric \in DOMAIN metrics, metrics[c.metric] \in Int,
         c.operator \in {"LE", "LT", "GE", "GT", "EQ"}, c.threshold \in Int, c.tolerance \in Nat
  PROVE  LET v    == metrics[c.metric]
             told == ConstraintValue(c, metrics) <= 0
             edge == c.operator \in {"LT", "GT"} /\ v = c.threshold
         IN  /\ edge \/ (told <=> IsSatisfied(c, v))
             /\ IsSatisfied(c, v) <=> told /\ ~edge
<1>. DEFINE v == metrics[c.metric]
<1>1. CASE c.operator = "LE"
  BY <1>1 DEF ConstraintValue, IsSatisfied
<1>2. CASE c.operator = "LT"
  BY <1>2 DEF ConstraintValue, IsSatisfied
<1>3. CASE c.operator = "GE"
  BY <1>3 DEF ConstraintValue, IsSatisfied
<1>4. CASE c.operator = "GT"
  BY <1>4 DEF ConstraintValue, IsSatisfied
<1>5. CASE c.operator = "EQ"
  BY <1>5 DEF ConstraintValue, IsSatisfied, Distance
<1>. QED  BY <1>1, <1>2, <1>3, <1>4, <1>5

\* The simulator's result, where the sampler reads it.
LEMMA SimulateIs ==
  ASSUME NEW p
  PROVE  /\ Simulate(p).metrics = [m \in Metrics |-> Measure(m, p)]
         /\ Simulate(p).feasible <=>
              \A i \in DOMAIN Constraints :
                IsSatisfied(Constraints[i], Measure(Constraints[i].metric, p))
BY DEF Simulate

\* The constraints of a goal the code can build are over metrics it measures.
LEMMA GoalIs ==
  ASSUME goal \in {DefaultGoal} \cup Goals, NEW k \in DOMAIN goal.constraints
  PROVE  LET c == goal.constraints[k]
         IN  /\ c.metric \in Metrics
             /\ c.operator \in {"LE", "LT", "GE", "GT", "EQ"}
             /\ c.threshold \in Int /\ c.tolerance \in Nat
<1>1. CASE goal = DefaultGoal
  <2>1. goal.constraints[k] \in Constraint
    BY <1>1, BenchmarkAssumption DEF DefaultGoal
  <2>. QED  BY <2>1 DEF Constraint
<1>2. CASE goal \in Goals
  BY <1>2, ParsedAssumption DEF Goals
<1>. QED  BY <1>1, <1>2

\* What TPE is told of an episode is what the goal says of it, but at the
\* threshold of a strict constraint: for every benchmark and every goal that
\* validate_goal lets through (constraint_values, Constraint.is_satisfied).
THEOREM SamplerIsToldTheTruth == Spec => []SamplerAgrees
<1>1. Inv => SamplerAgrees
  <2>. SUFFICES ASSUME Inv, NEW i \in Evaluated
       PROVE
         LET seen == history[i].outcome.metrics
             Edge(c) == c.operator \in {"LT", "GT"} /\ seen[c.metric] = c.threshold
             Told(c) == ConstraintValue(c, seen) <= 0
         IN  /\ \A k \in DOMAIN goal.constraints :
                  LET c == goal.constraints[k]
                  IN  /\ c.metric \in DOMAIN seen
                      /\ Edge(c) \/ (Told(c) <=> IsSatisfied(c, seen[c.metric]))
             /\ goal = DefaultGoal =>
                  (history[i].outcome.feasible
                     <=> \A k \in DOMAIN goal.constraints :
                           Told(goal.constraints[k]) /\ ~Edge(goal.constraints[k]))
    BY DEF SamplerAgrees
  <2>. DEFINE p    == history[i].candidate
              seen == history[i].outcome.metrics
              Edge(c) == c.operator \in {"LT", "GT"} /\ seen[c.metric] = c.threshold
              Told(c) == ConstraintValue(c, seen) <= 0
  <2>1. /\ p \in Points /\ history[i].outcome = Simulate(p)
        /\ goal \in {DefaultGoal} \cup Goals
    BY DEF Inv, Faithful, GoalChosen, Evaluated
  <2>2. seen = [m \in Metrics |-> Measure(m, p)] /\ \A m \in Metrics : seen[m] \in Int
    BY <2>1, SimulateIs, BenchmarkAssumption
  <2>3. ASSUME NEW k \in DOMAIN goal.constraints
        PROVE  LET c == goal.constraints[k]
               IN  /\ c.metric \in Metrics /\ c.metric \in DOMAIN seen
                   /\ seen[c.metric] = Measure(c.metric, p)
                   /\ Edge(c) \/ (Told(c) <=> IsSatisfied(c, seen[c.metric]))
                   /\ IsSatisfied(c, seen[c.metric]) <=> Told(c) /\ ~Edge(c)
    <3>. DEFINE c == goal.constraints[k]
    <3>1. /\ c.metric \in Metrics
          /\ c.operator \in {"LE", "LT", "GE", "GT", "EQ"}
          /\ c.threshold \in Int /\ c.tolerance \in Nat
      BY <2>1, GoalIs
    <3>2. c.metric \in DOMAIN seen /\ seen[c.metric] \in Int
          /\ seen[c.metric] = Measure(c.metric, p)
      BY <2>2, <3>1
    <3>. HIDE DEF c, seen
    <3>3. LET v    == seen[c.metric]
              told == ConstraintValue(c, seen) <= 0
              edge == c.operator \in {"LT", "GT"} /\ v = c.threshold
          IN  /\ edge \/ (told <=> IsSatisfied(c, v))
              /\ IsSatisfied(c, v) <=> told /\ ~edge
      BY <3>1, <3>2, ToldIsSatisfied
    <3>. QED  BY <3>1, <3>2, <3>3 DEF c
  <2>4. ASSUME goal = DefaultGoal
        PROVE  history[i].outcome.feasible <=>
                 \A k \in DOMAIN goal.constraints :
                   Told(goal.constraints[k]) /\ ~Edge(goal.constraints[k])
    <3>1. goal.constraints = Constraints
      BY <2>4 DEF DefaultGoal
    <3>2. history[i].outcome.feasible <=>
            \A k \in DOMAIN Constraints :
              IsSatisfied(Constraints[k], Measure(Constraints[k].metric, p))
      BY <2>1, SimulateIs
    <3>. HIDE DEF seen, p, Edge, Told
    <3>. QED  BY <3>1, <3>2, <2>3
  <2>. HIDE DEF seen
  <2>. QED  BY <2>3, <2>4 DEF seen
<1>. QED  BY <1>1, Invariance, PTL

-----------------------------------------------------------------------------
\* A sum of natural numbers, in whatever order, is one.
LEMMA SumType ==
  ASSUME NEW U, IsFiniteSet(U), NEW f \in [U -> Nat]
  PROVE  FoldFunction(LAMBDA a, b : a + b, 0, f) \in Nat
<1> DEFINE pick == [T \in (SUBSET U) \ {{}} |-> CHOOSE x \in T : TRUE]
           step == [p \in U \X Nat |-> f[p[1]] + p[2]]
           Is(g) == g = [T \in SUBSET U |->
                           IF T = {} THEN 0
                           ELSE f[CHOOSE x \in T : TRUE] + g[T \ {CHOOSE x \in T : TRUE}]]
<1>1. \A T \in SUBSET U : T # {} => pick[T] \in T
  OBVIOUS
<1>2. PICK g : SetRecursive(g, U, 0, pick, step)
  <2>. HIDE DEF pick, step
  <2>. QED  BY <1>1, SetRecursion
<1>3. g = [T \in SUBSET U |-> IF T = {} THEN 0 ELSE step[<<pick[T], g[T \ {pick[T]}]>>]]
  BY <1>2 DEF SetRecursive
<1> DEFINE D == {T \in SUBSET U : g[T] \in Nat}
<1>4. \A T \in SUBSET U : T \in D
  <2>1. ASSUME NEW T \in SUBSET U, \A x \in T : T \ {x} \in D PROVE T \in D
    <3>1. CASE T = {}
      BY <3>1, <1>3
    <3>2. CASE T # {}
      <4>1. g[T] = step[<<pick[T], g[T \ {pick[T]}]>>]
        BY <1>3, <3>2
      <4>2. pick[T] \in U /\ g[T \ {pick[T]}] \in Nat
        <5>. HIDE DEF pick
        <5>. QED  BY <1>1, <2>1, <3>2
      <4>. QED  BY <4>1, <4>2
    <3>. QED  BY <3>1, <3>2
  <2>. HIDE DEF D
  <2>. QED  BY <2>1, FiniteDescent
<1>5. Is(g)
  <2>1. ASSUME NEW T \in SUBSET U, T # {}
        PROVE  g[T] = f[CHOOSE x \in T : TRUE] + g[T \ {CHOOSE x \in T : TRUE}]
    <3>1. pick[T] = CHOOSE x \in T : TRUE
      OBVIOUS
    <3>2. g[T] = step[<<pick[T], g[T \ {pick[T]}]>>]
      BY <1>3, <2>1
    <3>3. pick[T] \in U /\ g[T \ {pick[T]}] \in Nat
      <4>1. pick[T] \in T /\ T \ {pick[T]} \in SUBSET U
        BY <1>1, <2>1
      <4>. QED  BY <4>1, <1>4
    <3>4. g[T] = f[pick[T]] + g[T \ {pick[T]}]
      <4>. HIDE DEF pick
      <4>. QED  BY <3>2, <3>3
    <3>. QED  BY <3>1, <3>4
  <2>2. g = [T \in SUBSET U |-> g[T]] /\ g[{}] = 0
    BY <1>3
  <2>. QED  BY <2>1, <2>2
<1> DEFINE h == CHOOSE k : Is(k)
<1>6. Is(h)
  <2>. HIDE DEF Is
  <2>. QED  BY <1>5
<1>7. FoldFunction(LAMBDA a, b : a + b, 0, f) = h[U]
  BY DEF FoldFunction, FoldFunctionOnSet, MapThenFoldSet
<1> DEFINE C == {T \in SUBSET U : h[T] \in Nat}
<1>8. ASSUME NEW T \in SUBSET U, \A x \in T : T \ {x} \in C PROVE T \in C
  <2>1. CASE T = {}
    <3>. HIDE DEF h
    <3>. QED  BY <2>1, <1>6
  <2>2. CASE T # {}
    <3>1. PICK x \in T : h[T] = f[x] + h[T \ {x}]
      <4>1. (CHOOSE x \in T : TRUE) \in T
        BY <2>2
      <4>2. h[T] = f[CHOOSE x \in T : TRUE] + h[T \ {CHOOSE x \in T : TRUE}]
        <5>. HIDE DEF h
        <5>. QED  BY <1>6, <2>2
      <4>. HIDE DEF h
      <4>. QED  BY <4>1, <4>2
    <3>. HIDE DEF h
    <3>. QED  BY <1>8, <3>1
  <2>. QED  BY <2>1, <2>2
<1>9. \A T \in SUBSET U : T \in C
  <2>. HIDE DEF C
  <2>. QED  BY <1>8, FiniteDescent
<1>10. h[U] \in Nat
  <2>. HIDE DEF h
  <2>. QED  BY <1>9
<1>. QED  BY <1>7, <1>10

\* What the loop compares results by is never negative (total_violation).
LEMMA GradedType == ASSUME NEW p \in Points PROVE Graded(Simulate(p)) \in Record!Result
<1> DEFINE r == Simulate(p)
           broken == {i \in DOMAIN Constraints :
                        ~IsSatisfied(Constraints[i], Measure(Constraints[i].metric, p))}
<1>1. Constraints \in Seq(Constraint) /\ DOMAIN Constraints = 1 .. Len(Constraints)
  BY BenchmarkAssumption
<1>2. IsFiniteSet(broken)
  <2>1. Len(Constraints) \in Nat
    BY <1>1
  <2>2. IsFiniteSet(1 .. Len(Constraints))
    BY <2>1, FS_Interval
  <2>. QED  BY <1>1, <2>2, FS_Subset
<1>3. r.feasible \in BOOLEAN /\ r.value \in Int /\ r.amounts =
        [i \in broken |-> ViolationAmount(Constraints[i], Measure(Constraints[i].metric, p))]
  BY BenchmarkAssumption DEF Simulate
<1>4. ASSUME NEW i \in broken
      PROVE  ViolationAmount(Constraints[i], Measure(Constraints[i].metric, p)) \in Nat
  <2>1. Constraints[i] \in Constraint
    BY <1>1
  <2>2. Constraints[i].metric \in Metrics /\ Constraints[i].threshold \in Int
    BY <2>1 DEF Constraint
  <2>3. Measure(Constraints[i].metric, p) \in Int
    BY <2>2, BenchmarkAssumption
  <2>. QED  BY <2>2, <2>3 DEF ViolationAmount, Distance
<1>5. r.amounts \in [broken -> Nat]
  BY <1>3, <1>4
<1>6. FoldFunction(LAMBDA a, b : a + b, 0, r.amounts) \in Nat
  <2>. HIDE DEF r, broken
  <2>. QED  BY <1>2, <1>5, SumType
<1>. QED  BY <1>3, <1>6 DEF Graded, Record!Result

\* The loop stops before both budgets are spent, and every episode counts
\* against one of them.
LEMMA TurnIsBounded ==
  ASSUME GoesOn, NEW n \in Nat, DOMAIN history = 0 .. n - 1 PROVE n < MaxEvaluations + MaxRejections
<1> DEFINE E == Record!Evaluated(Log)
<1>1. DOMAIN Log = 0 .. n - 1
  BY DEF Log
<1>2. E \subseteq 0 .. n - 1
  BY <1>1 DEF Record!Evaluated
<1>3. IsFiniteSet(0 .. n - 1) /\ Cardinality(0 .. n - 1) = n
  BY FS_Interval
<1>4. IsFiniteSet(E) /\ Cardinality(E) \in Nat
  BY <1>2, <1>3, FS_Subset, FS_CardinalityType
<1>5. Cardinality((0 .. n - 1) \ E) = n - Cardinality(E)
  <2> DEFINE S == 0 .. n - 1
  <2>1. S \cap E = E /\ IsFiniteSet(S) /\ Cardinality(S) = n
    BY <1>2, <1>3
  <2>. HIDE DEF E, S
  <2>2. Cardinality(S \ E) = Cardinality(S) - Cardinality(S \cap E)
    BY <2>1, FS_Difference
  <2>. QED  BY <2>1, <2>2 DEF S
<1> DEFINE s == Record!Rehydrate(Log)
<1>6. Record!StopReason(s) = "NONE"
  BY DEF GoesOn
<1>7. ~Record!BudgetExhausted(s.budget) /\ ~Record!RejectionsExceeded(s.budget)
  <2>. HIDE DEF s
  <2>. QED  BY <1>6 DEF Record!StopReason
<1>8. s.budget.evaluations = Cardinality(E) /\ s.budget.rejections = Cardinality((0 .. n - 1) \ E)
  <2>1. \A S : Record!Cardinality(S) = Cardinality(S)
    BY Zenon DEF Cardinality, Record!Cardinality
  <2>. QED  BY <1>1, <2>1 DEF Record!Rehydrate, Record!Used
<1>9. ~(Cardinality(E) >= MaxEvaluations) /\ ~(Cardinality((0 .. n - 1) \ E) >= MaxRejections)
  <2>. HIDE DEF s, E
  <2>. QED  BY <1>7, <1>8 DEF Record!BudgetExhausted, Record!RejectionsExceeded
<1>. QED
  <2>. HIDE DEF E
  <2>. QED  BY <1>4, <1>5, <1>9, BudgetAssumption

LEMMA TypeStep == ASSUME Inv, Inv', TypeOK, [Next]_vars PROVE TypeOK'
<1>1. CASE UNCHANGED vars
  BY <1>1 DEF vars, TypeOK
<1>2. CASE goal' \in {DefaultGoal} \cup Goals /\ UNCHANGED <<strategy, history>>
  BY <1>2 DEF TypeOK
<1>3. ASSUME GoesOn, NEW c, NEW source \in Sources, NEW outcome,
             Outcomes(c, source, outcome), Commit(c, source, outcome)
      PROVE  TypeOK'
  <2>1. PICK n \in Nat : DOMAIN history = 0 .. n - 1
    BY DEF Inv, Gapless
  <2>2. /\ DOMAIN history' = 0 .. n
        /\ history'[n].source = source /\ history'[n].improved = Improves(outcome)
        /\ \A i \in 0 .. n - 1 : history'[i] = history[i]
    BY <1>3, <2>1, CommitShape
  <2>3. n < MaxEvaluations + MaxRejections
    BY <1>3, <2>1, TurnIsBounded
  <2>4. strategy' \in Strategies /\ goal' \in {NoGoal, DefaultGoal} \cup Goals
    BY <1>3 DEF Commit, TypeOK
  <2>5. ASSUME NEW i \in 0 .. n
        PROVE  /\ i \in 0 .. MaxEvaluations + MaxRejections - 1
               /\ history'[i].source \in Sources
               /\ history'[i].improved \in BOOLEAN
    <3>1. i \in 0 .. MaxEvaluations + MaxRejections - 1
      BY <2>3, BudgetAssumption
    <3>2. CASE i = n
      <4>1. Improves(outcome) \in BOOLEAN
        BY DEF Improves
      <4>. QED  BY <3>1, <3>2, <2>2, <4>1
    <3>3. CASE i # n
      BY <3>1, <3>3, <2>1, <2>2 DEF TypeOK, Sources
    <3>. QED  BY <3>2, <3>3
  <2>6. ASSUME NEW i \in DOMAIN history', history'[i].outcome # ToolError
        PROVE  Graded(history'[i].outcome) \in Record!Result
    <3>1. history'[i].candidate \in Points /\ history'[i].outcome = Simulate(history'[i].candidate)
      BY <2>6 DEF Inv, Faithful, Evaluated
    <3>. QED  BY <3>1, GradedType
  <2>. QED  BY <2>2, <2>4, <2>5, <2>6 DEF TypeOK, Sources
<1>. QED  BY <1>1, <1>2, <1>3, StepIs

\* A run has the shape it is read with, at every step: for any benchmark, and
\* whatever is proposed.
THEOREM TrialsAreTyped == Spec => []TypeOK
<1>1. Init => TypeOK
  BY DEF Init, TypeOK, Record!EmptyHistory
<1>2. Inv /\ Inv' /\ TypeOK /\ [Next]_vars => TypeOK'
  BY TypeStep
<1>. QED  BY <1>1, <1>2, Invariance, PTL DEF Spec

-----------------------------------------------------------------------------
\* The refinement: History's episode for what Commit appends.
EpisodeFor(c, outcome) ==
  [candidate |-> c, result |-> IF outcome = ToolError THEN ToolError ELSE Graded(outcome),
   wall |-> 0, improved |-> Improves(outcome)]

LEMMA LogExtends ==
  ASSUME Inv, NEW c, NEW source, NEW outcome, Commit(c, source, outcome)
  PROVE  Log' = Record!Extend(Log, Record!NextIdx(Log), EpisodeFor(c, outcome))
<1>1. PICK n \in Nat : DOMAIN history = 0 .. n - 1
  BY DEF Inv, Gapless
<1>2. /\ DOMAIN history' = 0 .. n
      /\ history'[n].candidate = c /\ history'[n].source = source
      /\ history'[n].outcome = outcome /\ history'[n].improved = Improves(outcome)
      /\ \A i \in 0 .. n - 1 : history'[i] = history[i]
  BY <1>1, CommitShape
<1>3. Record!NextIdx(Log) = n /\ DOMAIN Log = 0 .. n - 1
  BY <1>1, TurnIs DEF Turn, Log
<1>4. Log' = [i \in 0 .. n |->
                [candidate |-> history'[i].candidate,
                 result    |-> IF history'[i].outcome = ToolError THEN ToolError
                               ELSE Graded(history'[i].outcome),
                 wall      |-> 0,
                 improved  |-> history'[i].improved]]
  BY <1>2 DEF Log
<1>5. ASSUME NEW i \in 0 .. n
      PROVE  Log'[i] = IF i = n THEN EpisodeFor(c, outcome) ELSE Log[i]
  <2>1. CASE i = n
    BY <2>1, <1>2, <1>4 DEF EpisodeFor
  <2>2. CASE i # n
    BY <2>2, <1>1, <1>2, <1>4 DEF Log
  <2>. QED  BY <2>1, <2>2
<1>6. Log' = [i \in 0 .. n |-> IF i = n THEN EpisodeFor(c, outcome) ELSE Log[i]]
  BY <1>4, <1>5
<1>7. 0 .. n = DOMAIN Log \cup {n}
  BY <1>3
<1>. QED  BY <1>3, <1>6, <1>7 DEF Record!Extend

\* A point is a duplicate for the guard exactly when it is for History.
LEMMA SameDuplicates ==
  ASSUME Inv, NEW c PROVE IsDuplicate(c) <=> Record!IsDuplicate(c, Log)
<1>1. DOMAIN Log = DOMAIN history
  BY DEF Log
<1>2. ASSUME NEW i \in DOMAIN history
      PROVE  /\ Log[i].candidate = history[i].candidate
             /\ Log[i].result = ToolError <=> history[i].outcome = ToolError
  <2>1. history[i].outcome # ToolError => Graded(history[i].outcome) # ToolError
    BY ResultAssumption DEF Inv, Faithful, Evaluated
  <2>. QED  BY <2>1 DEF Log
<1>. QED  BY <1>1, <1>2 DEF IsDuplicate, Evaluated, Record!IsDuplicate, Record!Evaluated

\* Every episode the loop commits is one of those RunRecord allows.
LEMMA EpisodeAllowed ==
  ASSUME Inv, GoesOn, NEW c, NEW source, NEW outcome, Outcomes(c, source, outcome)
  PROVE  EpisodeFor(c, outcome) \in Record!NextEpisodes(Record!Rehydrate(Log))
<1>. DEFINE s == Record!Rehydrate(Log)
<1>1. /\ s.history = Log /\ s.best = Record!RecomputeBest(Log)
      /\ s.step_idx = Record!NextIdx(Log)
  BY DEF Record!Rehydrate
<1>2. Record!NextIdx(Log) \in 0 .. MaxEvaluations + MaxRejections
  <2>1. Record!NextIdx(Log) \in Nat
    BY TurnIs DEF Inv, Gapless, Turn
  <2>2. ~(s.step_idx >= MaxEvaluations + MaxRejections + 1)
    BY DEF GoesOn, Record!StopReason
  <2>. QED  BY <1>1, <2>1, <2>2, BudgetAssumption
<1>3. Anything[s.step_idx] = Points \cup {Invalid, Failed}
  BY <1>1, <1>2 DEF Anything
<1>4. /\ \A p \in Points : Sims[p] = Graded(Simulate(p)) /\ NudgesOf[p] = Nudges(p)
      /\ \A p \in Points : Record!Outcome(p) = Graded(Simulate(p))
      /\ Record!Outcome(Failed) = ToolError /\ Record!Outcome(Invalid) = ToolError
  BY TrialSentinels DEF Sims, NudgesOf, Record!Outcome
<1>5. ASSUME c \in {Failed, Invalid} \/ c \in Points,
             Record!Outcome(c) = IF outcome = ToolError THEN ToolError ELSE Graded(outcome),
             Record!Outcome(c) = ToolError <=> outcome = ToolError
      PROVE  EpisodeFor(c, outcome) = Record!MakeEpisode(c, 0, s.best)
  BY <1>1, <1>5 DEF EpisodeFor, Record!MakeEpisode, Improves
<1>6. EpisodeFor(c, outcome) = Record!MakeEpisode(c, 0, s.best)
  BY <1>4, <1>5, ResultAssumption DEF Outcomes
<1>7. \E a \in Anything[s.step_idx] : c \in Record!Guarded(a, s.history)
  <2>1. CASE c \in {Failed, Invalid}
    BY <2>1, <1>3, TrialSentinels DEF Record!Guarded
  <2>2. CASE c \in Points /\ ~IsDuplicate(c)
    BY <2>2, <1>1, <1>3, SameDuplicates DEF Record!Guarded
  <2>3. ASSUME NEW p \in Points, IsDuplicate(p), c \in Nudges(p)
        PROVE  \E a \in Anything[s.step_idx] : c \in Record!Guarded(a, s.history)
    BY <2>3, <1>1, <1>3, <1>4, SameDuplicates DEF Record!Guarded
  <2>. QED  BY <2>1, <2>2, <2>3 DEF Outcomes
<1>. HIDE DEF s
<1>8. c \in UNION {Record!Guarded(a, s.history) : a \in Anything[s.step_idx]}
  BY <1>7
<1>9. Record!MakeEpisode(c, 0, s.best) \in Record!NextEpisodes(s)
  BY <1>8 DEF Record!NextEpisodes
<1>. QED  BY <1>6, <1>9 DEF s

\* With these strategies, this guard and this simulator in place of History's
\* constants, a run is what RunRecord promises: for every choice of them.
THEOREM TrialsAreRuns == Spec => ImplementsRecord
<1>1. Init => Record!Init
  BY DEF Init, Record!Init, Log, Record!EmptyHistory
<1>2. Inv /\ [Next]_vars => [Record!Step]_Log
  <2>. SUFFICES ASSUME Inv, [Next]_vars PROVE Record!Step \/ UNCHANGED Log
    OBVIOUS
  <2>1. CASE UNCHANGED history
    BY <2>1 DEF Log
  <2>2. ASSUME GoesOn, NEW c, NEW source, NEW outcome,
               Outcomes(c, source, outcome), Commit(c, source, outcome)
        PROVE  Record!Step
    <3>1. ~Record!Terminal(Log)
      BY <2>2 DEF GoesOn, Record!Terminal
    <3>2. EpisodeFor(c, outcome) \in Record!NextEpisodes(Record!Rehydrate(Log))
      BY <2>2, EpisodeAllowed
    <3>3. Log' = Record!Extend(Log, Record!NextIdx(Log), EpisodeFor(c, outcome))
      BY <2>2, LogExtends
    <3>. QED  BY <3>1, <3>2, <3>3 DEF Record!Step
  <2>. QED  BY <2>1, <2>2, StepIs DEF vars
<1>. QED  BY <1>1, <1>2, Invariance, PTL DEF Spec, ImplementsRecord, Record!Spec

-----------------------------------------------------------------------------
\* Division is what multiplies back, with a remainder smaller than the divisor.
LEMMA DivisionIs ==
  ASSUME NEW m \in Nat \ {0}, NEW x \in Int, NEW q \in Int, NEW r \in 0 .. m - 1, x = m * q + r
  PROVE  x \div m = q /\ x % m = r
<1>1. /\ x \div m \in Int /\ x % m \in 0 .. m - 1
      /\ x = m * (x \div m) + (x % m)
  OBVIOUS
<1>2. ASSUME NEW p \in Int, NEW s \in 0 .. m - 1, m * p + s = m * q + r PROVE p = q
  <2>1. CASE p < q
    <3>1. m * p <= m * (q - 1)
      BY <2>1
    <3>2. m * (q - 1) = m * q - m
      OBVIOUS
    <3>. QED  BY <1>2, <3>1, <3>2
  <2>2. CASE p > q
    <3>1. m * (q + 1) <= m * p
      BY <2>2
    <3>2. m * (q + 1) = m * q + m
      OBVIOUS
    <3>. QED  BY <1>2, <3>1, <3>2
  <2>. QED  BY <2>1, <2>2
<1>3. x \div m = q
  BY <1>1, <1>2
<1>. QED  BY <1>1, <1>3

\* Dividing twice is dividing by the product.
LEMMA DividingTwice ==
  ASSUME NEW a \in Nat \ {0}, NEW b \in Nat \ {0}, NEW x \in Nat
  PROVE  x \div (b * a) = (x \div a) \div b /\ x \div a \in Nat
<1> DEFINE q == x \div a
           t == q \div b
<1>1. q \in Int /\ x % a \in 0 .. a - 1 /\ x = a * q + (x % a)
  OBVIOUS
<1>2. t \in Int /\ q % b \in 0 .. b - 1 /\ q = b * t + (q % b)
  <2>. HIDE DEF q
  <2>. QED  BY <1>1
<1> DEFINE r == x % a
           s == q % b
<1>3. b * a \in Nat \ {0}
  <2>1. b * a > 0
    OBVIOUS
  <2>. QED  BY <2>1
<1>4. x = (b * a) * t + (a * s + r)
  <2>. HIDE DEF q, r, s, t
  <2>1. x = a * (b * t + s) + r
    BY <1>1, <1>2 DEF r, s
  <2>2. a * (b * t + s) = a * (b * t) + a * s
    BY <1>1, <1>2 DEF s
  <2>3. a * (b * t) = (b * a) * t
    BY <1>2
  <2>. QED  BY <2>1, <2>2, <2>3, <1>1, <1>2, <1>3 DEF r, s
<1>5. a * s + r \in 0 .. b * a - 1
  <2>. HIDE DEF q, r, s, t
  <2>0. s \in 0 .. b - 1 /\ r \in 0 .. a - 1
    BY <1>1, <1>2 DEF s, r
  <2>1. a * s <= a * (b - 1) /\ a * s >= 0
    BY <2>0
  <2>2. a * (b - 1) = b * a - a
    OBVIOUS
  <2>3. a * s \in Int /\ b * a \in Int
    BY <2>0
  <2>4. a * s + r <= b * a - 1 /\ a * s + r >= 0
    BY <2>0, <2>1, <2>2, <2>3
  <2>. QED  BY <2>0, <2>3, <2>4
<1>6. x \div (b * a) = t
  <2> DEFINE m == b * a
             u == a * s + r
  <2>1. m \in Nat \ {0} /\ u \in 0 .. m - 1 /\ x = m * t + u /\ t \in Int /\ x \in Int
    BY <1>2, <1>3, <1>4, <1>5
  <2>. HIDE DEF t, m, u
  <2>2. x \div m = t
    BY <2>1, DivisionIs
  <2>. QED  BY <2>2 DEF m
<1>7. q >= 0
  <2>1. CASE q < 0
    <3>1. a * q <= -a
      BY <2>1
    <3>. QED  BY <1>1, <3>1
  <2>. QED  BY <1>1, <2>1
<1>. QED  BY <1>1, <1>6, <1>7

\* What Products is: the product from the end on, axis by axis.
LEMMA ProductsAre ==
  ASSUME NEW n \in Nat, NEW lens \in [1 .. n -> Nat \ {0}], Len(lens) = n
  PROVE  /\ Products(lens)[n + 1] = 1
         /\ \A j \in 1 .. n : Products(lens)[j] = lens[j] * Products(lens)[j + 1]
         /\ \A j \in 1 .. n + 1 : Products(lens)[j] \in Nat \ {0}
<1> DEFINE step == [p \in (1 .. n) \X (Nat \ {0}) |-> lens[n + 1 - p[1]] * p[2]]
           Is(P) == P = [j \in 1 .. n + 1 |-> IF j > n THEN 1 ELSE lens[j] * P[j + 1]]
<1>1. PICK f : Recursive(f, n, 1, step)
  <2>. HIDE DEF step
  <2>. QED  BY Recursion
<1>2. f = [i \in 0 .. n |-> IF i = 0 THEN 1 ELSE step[<<i, f[i - 1]>>]]
  BY <1>1 DEF Recursive
<1>3. ASSUME NEW i \in 1 .. n, NEW y \in Nat \ {0}
      PROVE  step[<<i, y>>] = lens[n + 1 - i] * y /\ lens[n + 1 - i] * y \in Nat \ {0}
  <2>1. n + 1 - i \in 1 .. n
    OBVIOUS
  <2>2. lens[n + 1 - i] \in Nat \ {0}
    BY <2>1
  <2>3. ASSUME NEW a \in Nat \ {0}, NEW b \in Nat \ {0} PROVE a * b \in Nat \ {0}
    <3>1. a * b > 0
      OBVIOUS
    <3>. QED  BY <3>1
  <2>4. lens[n + 1 - i] * y \in Nat \ {0}
    BY <2>2, <2>3
  <2>. QED  BY <2>4
<1> DEFINE S == {i \in 0 .. n : f[i] \in Nat \ {0}}
<1>4. \A i \in 0 .. n : i \in S
  <2>1. 0 \in S
    BY <1>2
  <2>2. ASSUME NEW i \in 0 .. n - 1, i \in S PROVE i + 1 \in S
    <3>1. i + 1 \in 1 .. n /\ f[i] \in Nat \ {0}
      BY <2>2
    <3>2. f[i + 1] = step[<<i + 1, f[i]>>]
      <4>. HIDE DEF step
      <4>. QED  BY <1>2, <3>1
    <3>3. f[i + 1] \in Nat \ {0}
      <4> DEFINE k == i + 1
                 y == f[i]
      <4>1. k \in 1 .. n /\ y \in Nat \ {0} /\ f[k] = step[<<k, y>>]
        BY <3>1, <3>2
      <4>. HIDE DEF step, k, y
      <4>2. f[k] \in Nat \ {0}
        BY <1>3, <4>1
      <4>. QED  BY <4>2 DEF k
    <3>. QED  BY <3>1, <3>3
  <2>. HIDE DEF S
  <2>. QED  BY <2>1, <2>2, BoundedInduction
<1> DEFINE P == [j \in 1 .. n + 1 |-> f[n + 1 - j]]
<1>5. Is(P)
  <2>1. P[n + 1] = 1
    BY <1>2
  <2>2. ASSUME NEW j \in 1 .. n PROVE P[j] = lens[j] * P[j + 1]
    <3>1. n + 1 - j \in 1 .. n /\ n + 1 - (n + 1 - j) = j /\ n - j \in 0 .. n
          /\ (n + 1 - j) - 1 = n - j
      OBVIOUS
    <3>2. P[j] = f[n + 1 - j] /\ P[j + 1] = f[n - j]
      OBVIOUS
    <3>3. f[n + 1 - j] = step[<<n + 1 - j, f[n - j]>>]
      <4> DEFINE k == n + 1 - j
      <4>1. k \in 0 .. n /\ k # 0 /\ k - 1 = n - j
        BY <3>1
      <4>. HIDE DEF step, k
      <4>2. f[k] = step[<<k, f[k - 1]>>]
        BY <1>2, <4>1
      <4>3. f[k] = step[<<k, f[n - j]>>]
        BY <4>1, <4>2
      <4>. QED  BY <4>3 DEF k
    <3>4. step[<<n + 1 - j, f[n - j]>>] = lens[j] * f[n - j]
      <4>1. f[n - j] \in Nat \ {0}
        BY <1>4, <3>1
      <4>. HIDE DEF step
      <4>. QED  BY <1>3, <3>1, <4>1
    <3>. HIDE DEF P, step
    <3>. QED  BY <3>2, <3>3, <3>4
  <2>3. P = [j \in 1 .. n + 1 |-> P[j]]
    OBVIOUS
  <2>4. ASSUME NEW j \in 1 .. n + 1 PROVE P[j] = IF j > n THEN 1 ELSE lens[j] * P[j + 1]
    <3>. HIDE DEF P
    <3>1. CASE j = n + 1
      BY <2>1, <3>1
    <3>2. CASE j \in 1 .. n
      BY <2>2, <3>2
    <3>. QED  BY <3>1, <3>2
  <2>5. [j \in 1 .. n + 1 |-> P[j]] = [j \in 1 .. n + 1 |-> IF j > n THEN 1 ELSE lens[j] * P[j + 1]]
    <3>. HIDE DEF P
    <3>. QED  BY <2>4
  <2>. HIDE DEF P
  <2>. QED  BY <2>3, <2>5
<1>6. Products(lens) = CHOOSE Q : Is(Q)
  BY DEF Products
<1>7. Is(Products(lens))
  <2>. HIDE DEF Is, P
  <2>. QED  BY <1>5, <1>6
<1> DEFINE Q == Products(lens)
<1>8. Q[n + 1] = 1 /\ \A j \in 1 .. n : Q[j] = lens[j] * Q[j + 1]
  <2>. HIDE DEF Q
  <2>1. Is(Q)
    BY <1>7 DEF Q
  <2>. QED  BY <2>1
<1> DEFINE T == {i \in 0 .. n : Q[n + 1 - i] \in Nat \ {0}}
<1>9. \A i \in 0 .. n : i \in T
  <2>. HIDE DEF Q
  <2>1. 0 \in T
    BY <1>8
  <2>2. ASSUME NEW i \in 0 .. n - 1, i \in T PROVE i + 1 \in T
    <3>1. n - i \in 1 .. n /\ n + 1 - i = n - i + 1 /\ n + 1 - (i + 1) = n - i
      OBVIOUS
    <3>2. Q[n - i] = lens[n - i] * Q[n - i + 1]
      BY <1>8, <3>1
    <3>3. lens[n - i] \in Nat \ {0} /\ Q[n - i + 1] \in Nat \ {0}
      BY <2>2, <3>1
    <3>4. ASSUME NEW a \in Nat \ {0}, NEW b \in Nat \ {0} PROVE a * b \in Nat \ {0}
      <4>1. a * b > 0
        OBVIOUS
      <4>. QED  BY <4>1
    <3>5. Q[n - i] \in Nat \ {0}
      BY <3>2, <3>3, <3>4
    <3>. QED  BY <3>1, <3>5
  <2>. HIDE DEF T
  <2>. QED  BY <2>1, <2>2, BoundedInduction
<1>10. ASSUME NEW j \in 1 .. n + 1 PROVE Q[j] \in Nat \ {0}
  <2>. HIDE DEF Q
  <2>1. n + 1 - j \in 0 .. n /\ n + 1 - (n + 1 - j) = j
    OBVIOUS
  <2>2. n + 1 - j \in T
    BY <1>9, <2>1
  <2>. QED  BY <2>1, <2>2
<1>. QED  BY <1>8, <1>10

\* Longer axes make a larger product.
LEMMA ProductsGrow ==
  ASSUME NEW n \in Nat, NEW a \in [1 .. n -> Nat \ {0}], NEW b \in [1 .. n -> Nat \ {0}],
         Len(a) = n, Len(b) = n, \A j \in 1 .. n : a[j] <= b[j]
  PROVE  Products(a)[1] <= Products(b)[1]
<1> DEFINE P == Products(a)
           Q == Products(b)
<1>1. /\ P[n + 1] = 1 /\ \A j \in 1 .. n : P[j] = a[j] * P[j + 1]
      /\ \A j \in 1 .. n + 1 : P[j] \in Nat \ {0}
  BY ProductsAre
<1>2. /\ Q[n + 1] = 1 /\ \A j \in 1 .. n : Q[j] = b[j] * Q[j + 1]
      /\ \A j \in 1 .. n + 1 : Q[j] \in Nat \ {0}
  BY ProductsAre
<1>. HIDE DEF P, Q
<1> DEFINE T == {i \in 0 .. n : P[n + 1 - i] <= Q[n + 1 - i]}
<1>3. \A i \in 0 .. n : i \in T
  <2>1. 0 \in T
    BY <1>1, <1>2
  <2>2. ASSUME NEW i \in 0 .. n - 1, i \in T PROVE i + 1 \in T
    <3> DEFINE j == n - i
    <3>1. j \in 1 .. n /\ j + 1 \in 1 .. n + 1 /\ n + 1 - i = j + 1 /\ n + 1 - (i + 1) = j
      OBVIOUS
    <3>2. P[j + 1] <= Q[j + 1]
      BY <2>2, <3>1
    <3>. HIDE DEF j
    <3>3. P[j] = a[j] * P[j + 1] /\ Q[j] = b[j] * Q[j + 1] /\ a[j] <= b[j]
          /\ a[j] \in Nat \ {0} /\ b[j] \in Nat \ {0}
          /\ P[j + 1] \in Nat \ {0} /\ Q[j + 1] \in Nat \ {0}
      BY <1>1, <1>2, <3>1
    <3>4. ASSUME NEW u \in Nat \ {0}, NEW v \in Nat \ {0}, NEW x \in Nat \ {0}, NEW y \in Nat \ {0},
                 u <= v, x <= y
          PROVE  u * x <= v * y
      <4>1. u * x <= u * y
        BY <3>4
      <4>2. u * y <= v * y
        BY <3>4
      <4>3. u * x \in Int /\ u * y \in Int /\ v * y \in Int
        OBVIOUS
      <4>. QED  BY <4>1, <4>2, <4>3
    <3>5. P[j] <= Q[j]
      BY <3>2, <3>3, <3>4
    <3>. QED  BY <3>1, <3>5
  <2>. HIDE DEF T
  <2>. QED  BY <2>1, <2>2, BoundedInduction
<1>4. n \in T
  <2>1. n \in 0 .. n
    OBVIOUS
  <2>. HIDE DEF T
  <2>. QED  BY <1>3, <2>1
<1>5. P[1] <= Q[1]
  <2>1. n + 1 - n = 1
    OBVIOUS
  <2>. QED  BY <1>4, <2>1
<1>. QED  BY <1>5 DEF P, Q

\* An index of the odometer is told by its digits.
LEMMA Odometer ==
  ASSUME NEW n \in Nat, NEW lens \in [1 .. n -> Nat \ {0}], Len(lens) = n,
         NEW x \in 0 .. Products(lens)[1] - 1, NEW y \in 0 .. Products(lens)[1] - 1,
         \A j \in 1 .. n :
           (x \div Products(lens)[j + 1]) % lens[j] = (y \div Products(lens)[j + 1]) % lens[j]
  PROVE  x = y
<1> DEFINE P == Products(lens)
<1>1. /\ P[n + 1] = 1 /\ \A j \in 1 .. n : P[j] = lens[j] * P[j + 1]
      /\ \A j \in 1 .. n + 1 : P[j] \in Nat \ {0}
  BY ProductsAre
<1>2. /\ x \in 0 .. P[1] - 1 /\ y \in 0 .. P[1] - 1
      /\ \A j \in 1 .. n : (x \div P[j + 1]) % lens[j] = (y \div P[j + 1]) % lens[j]
  OBVIOUS
<1>. HIDE DEF P
<1>3. P[1] \in Nat \ {0} /\ x \in Nat /\ y \in Nat
  BY <1>1, <1>2
<1> DEFINE E == {i \in 0 .. n : x \div P[i + 1] = y \div P[i + 1]}
<1>4. \A i \in 0 .. n : i \in E
  <2>1. 0 \in E
    <3> DEFINE m == P[1]
    <3>1. m \in Nat \ {0} /\ x \in 0 .. m - 1 /\ y \in 0 .. m - 1 /\ x = m * 0 + x /\ y = m * 0 + y
          /\ 0 \in Int /\ x \in Int /\ y \in Int
      BY <1>2, <1>3
    <3>. HIDE DEF m
    <3>2. x \div m = 0 /\ y \div m = 0
      BY <3>1, DivisionIs
    <3>3. x \div P[0 + 1] = y \div P[0 + 1]
      BY <3>2 DEF m
    <3>. QED  BY <3>3
  <2>2. ASSUME NEW i \in 0 .. n - 1, i \in E PROVE i + 1 \in E
    <3> DEFINE j == i + 1
               a == P[j + 1]
               b == lens[j]
               q == x \div a
               r == y \div a
    <3>1. j \in 1 .. n /\ j + 1 \in 1 .. n + 1
      OBVIOUS
    <3>2. a \in Nat \ {0} /\ b \in Nat \ {0} /\ P[j] = b * a /\ x \div P[j] = y \div P[j]
          /\ q % b = r % b
      BY <1>1, <1>2, <2>2, <3>1
    <3>. HIDE DEF a, b
    <3>3. x \div (b * a) = q \div b /\ q \in Nat /\ y \div (b * a) = r \div b /\ r \in Nat
      BY <1>3, <3>2, DividingTwice
    <3>4. q \div b = r \div b
      BY <3>2, <3>3
    <3>. HIDE DEF q, r
    <3>5. q = b * (q \div b) + (q % b) /\ r = b * (r \div b) + (r % b)
      BY <3>2, <3>3
    <3>6. q = r
      BY <3>2, <3>4, <3>5
    <3>7. x \div P[j + 1] = y \div P[j + 1]
      BY <3>6 DEF a, q, r
    <3>. QED  BY <3>1, <3>7
  <2>. HIDE DEF E
  <2>. QED  BY <2>1, <2>2, BoundedInduction
<1>5. x \div P[n + 1] = y \div P[n + 1]
  <2>1. n \in E
    BY <1>4
  <2>. QED  BY <2>1
<1>6. x \div 1 = y \div 1
  BY <1>1, <1>5
<1>. QED  BY <1>3, <1>6

-----------------------------------------------------------------------------
\* Rounding to the nearest integer gives one.
LEMMA RoundRatioType ==
  ASSUME NEW a \in Int, NEW b \in Nat \ {0} PROVE RoundRatio(a, b) \in Int
<1>1. a \div b \in Int
  OBVIOUS
<1>. QED  BY <1>1 DEF RoundRatio

\* The integer nearest to the centre of a range that holds an integer is in it.
LEMMA CentreLegal ==
  ASSUME NEW low \in Int, NEW high \in Int, Ceil(low) <= Floor(high)
  PROVE  /\ Ceil(low) <= 2 * RoundRatio(low + high, 4)
         /\ 2 * RoundRatio(low + high, 4) <= Floor(high)
<1> DEFINE q == (low + high) \div 4
           r == (low + high) % 4
<1>1. q \in Int /\ r \in 0 .. 3 /\ low + high = 4 * q + r
  OBVIOUS
<1>2. RoundRatio(low + high, 4) = IF 2 * r < 4 \/ (2 * r = 4 /\ q % 2 = 0) THEN q ELSE q + 1
  BY DEF RoundRatio
<1>3. /\ low % 2 \in {0, 1} /\ Ceil(low) = low + (low % 2)
      /\ high % 2 \in {0, 1} /\ Floor(high) = high - (high % 2)
  BY DEF Ceil, Floor
<1>4. PICK s \in Int, t \in Int : Ceil(low) = 2 * s /\ Floor(high) = 2 * t
  <2>1. low = 2 * (low \div 2) + (low % 2) /\ high = 2 * (high \div 2) + (high % 2)
        /\ low \div 2 \in Int /\ high \div 2 \in Int
    OBVIOUS
  <2>2. Floor(high) = 2 * (high \div 2)
    BY <1>3, <2>1
  <2>3. Ceil(low) = 2 * (low \div 2 + (low % 2)) /\ low \div 2 + (low % 2) \in Int
    <3> DEFINE p == low \div 2
               d == low % 2
    <3>1. p \in Int /\ d \in {0, 1} /\ low = 2 * p + d /\ Ceil(low) = low + d
      BY <1>3, <2>1
    <3>. HIDE DEF p, d
    <3>2. Ceil(low) = 2 * (p + d) /\ p + d \in Int
      BY <3>1
    <3>. QED  BY <3>2 DEF p, d
  <2>. QED  BY <2>1, <2>2, <2>3
<1> DEFINE R == RoundRatio(low + high, 4)
<1>5. R \in Int /\ ((R = q /\ r <= 2) \/ (R = q + 1 /\ r >= 2))
  <2>1. R = q \/ R = q + 1
    BY <1>2
  <2>2. r > 2 => R = q + 1
    <3>1. r > 2 => ~(2 * r < 4) /\ ~(2 * r = 4)
      BY <1>1
    <3>. QED  BY <1>2, <3>1
  <2>3. r < 2 => R = q
    <3>1. r < 2 => 2 * r < 4
      BY <1>1
    <3>. QED  BY <1>2, <3>1
  <2>. HIDE DEF q, r, R
  <2>. QED  BY <1>1, <2>1, <2>2, <2>3
<1>. HIDE DEF q, r, R
<1>6. s <= R
  BY <1>1, <1>3, <1>4, <1>5
<1>7. R <= t
  BY <1>1, <1>3, <1>4, <1>5
<1>8. 2 * s <= 2 * R /\ 2 * R <= 2 * t
  BY <1>4, <1>5, <1>6, <1>7
<1>. QED  BY <1>4, <1>8 DEF R

\* The i-th of m + 1 values over both bounds is in between, and over a range of
\* at least m no two of them are the same.
LEMMA EvenlySpaced ==
  ASSUME NEW low \in Int, NEW high \in Int, low < high, NEW m \in Nat \ {0}, NEW i \in 0 .. m
  PROVE  /\ (low * m + (high - low) * i) \div m \in low .. high
         /\ \A j \in 0 .. m :
              high - low >= m /\ i < j =>
                (low * m + (high - low) * i) \div m < (low * m + (high - low) * j) \div m
<1> DEFINE D == high - low
           q(k) == (D * k) \div m
<1>1. D \in Nat \ {0}
  OBVIOUS
<1>. HIDE DEF D
<1>2. ASSUME NEW k \in 0 .. m
      PROVE  /\ q(k) \in Int /\ D * k = m * q(k) + ((D * k) % m) /\ (D * k) % m \in 0 .. m - 1
             /\ (low * m + D * k) \div m = low + q(k)
             /\ 0 <= q(k) /\ q(k) <= D
  <2> DEFINE t == D * k
             p == t \div m
             r == t % m
             w == low * m
  <2>1. t \in Int /\ D * k >= 0 /\ D * k <= D * m
    BY <1>1
  <2>2. t \in Int /\ t >= 0 /\ t <= D * m
    BY <2>1
  <2>. HIDE DEF t
  <2>3. p \in Int /\ r \in 0 .. m - 1 /\ t = m * p + r
    BY <2>2
  <2>. HIDE DEF p, r
  <2>4. w \in Int /\ w = m * low
    OBVIOUS
  <2>5. m * (low + p) = m * low + m * p /\ low + p \in Int
    BY <2>3
  <2>6. w + t = m * (low + p) + r /\ w + t \in Int
    BY <2>2, <2>3, <2>4, <2>5
  <2>. HIDE DEF w
  <2>7. (w + t) \div m = low + p
    <3> DEFINE x == w + t
               u == low + p
    <3>1. x \in Int /\ u \in Int /\ x = m * u + r
      BY <2>5, <2>6
    <3>. HIDE DEF x, u
    <3>2. x \div m = u
      BY <2>3, <3>1, DivisionIs
    <3>. QED  BY <3>2 DEF x, u
  <2>8. 0 <= p
    <3>1. CASE p < 0
      <4>1. m * p <= m * (-1)
        BY <2>3, <3>1
      <4>2. m * (-1) = -m
        OBVIOUS
      <4>. QED  BY <2>2, <2>3, <4>1, <4>2
    <3>. QED  BY <2>3, <3>1
  <2>9. p <= D
    <3>1. CASE p > D
      <4>1. m * (D + 1) <= m * p
        BY <1>1, <2>3, <3>1
      <4>2. m * (D + 1) = D * m + m
        BY <1>1
      <4>3. D * m \in Int
        BY <1>1
      <4>. QED  BY <2>2, <2>3, <4>1, <4>2, <4>3
    <3>. QED  BY <1>1, <2>3, <3>1
  <2>. QED  BY <2>3, <2>7, <2>8, <2>9 DEF t, p, r, w
<1>3. ASSUME NEW j \in 0 .. m, D >= m, i < j PROVE q(i) < q(j)
  <2> DEFINE a == q(i)
             b == q(j)
             r == (D * i) % m
             s == (D * j) % m
  <2>1. a \in Int /\ b \in Int /\ r \in 0 .. m - 1 /\ s \in 0 .. m - 1
        /\ D * i = m * a + r /\ D * j = m * b + s
    BY <1>2
  <2>2. D * (i + 1) <= D * j
    BY <1>1, <1>3
  <2>3. D * (i + 1) = D * i + D
    BY <1>1
  <2>. HIDE DEF a, b, r, s
  <2>4. m * a + r + m <= m * b + s
    BY <1>1, <1>3, <2>1, <2>2, <2>3
  <2>5. a < b
    <3>1. CASE b <= a
      <4>1. m * b <= m * a
        BY <2>1, <3>1
      <4>2. m * a \in Int /\ m * b \in Int
        BY <2>1
      <4>. QED  BY <2>1, <2>4, <4>1, <4>2
    <3>. QED  BY <2>1, <3>1
  <2>. QED  BY <2>5 DEF a, b
<1>4. (low * m + D * i) \div m = low + q(i) /\ q(i) \in Int /\ 0 <= q(i) /\ q(i) <= D
  BY <1>2
<1>5. ASSUME NEW j \in 0 .. m, D >= m, i < j
      PROVE  (low * m + D * i) \div m < (low * m + D * j) \div m
  <2>1. (low * m + D * j) \div m = low + q(j) /\ q(j) \in Int
    BY <1>2
  <2>2. q(i) < q(j)
    BY <1>3, <1>5
  <2>. HIDE DEF q
  <2>. QED  BY <1>4, <2>1, <2>2
<1>6. (low * m + D * i) \div m \in low .. high
  <2>. HIDE DEF q
  <2>1. low + q(i) \in low .. high
    BY <1>4 DEF D
  <2>. QED  BY <1>4, <2>1
<1>. QED  BY <1>5, <1>6 DEF D

\* Ascending lists every value once.
LEMMA AscendingIs ==
  ASSUME NEW S, S \subseteq Int, IsFiniteSet(S)
  PROVE  /\ Cardinality(S) \in Nat /\ Len(Ascending(S)) = Cardinality(S)
         /\ \A i \in 1 .. Cardinality(S) : Ascending(S)[i] \in S
         /\ \A i, j \in 1 .. Cardinality(S) : Ascending(S)[i] = Ascending(S)[j] => i = j
<1> DEFINE n == Cardinality(S)
<1>1. n \in Nat
  BY Ranks
<1>2. ASSUME NEW i \in 1 .. n
      PROVE  Ascending(S)[i] \in S /\ Cardinality(Smaller(S, Ascending(S)[i])) = i - 1
  <2>1. \E v \in S : Cardinality(Smaller(S, v)) = i - 1
    BY Ranks
  <2>2. Ascending(S)[i] = CHOOSE v \in S : Cardinality(Smaller(S, v)) = i - 1
    BY DEF Ascending, Smaller
  <2>. QED  BY <2>1, <2>2
<1>3. Len(Ascending(S)) = n
  BY <1>1 DEF Ascending
<1>4. ASSUME NEW i \in 1 .. n, NEW j \in 1 .. n, Ascending(S)[i] = Ascending(S)[j] PROVE i = j
  <2>1. i - 1 = j - 1
    BY <1>2, <1>4
  <2>. HIDE DEF n
  <2>. QED  BY <1>1, <2>1
<1>. QED  BY <1>1, <1>2, <1>3, <1>4

\* What there is on an axis of a grid with k points on each numeric one.
Lengths(k) ==
  [j \in 1 .. Len(Order) |->
     IF Order[j] \in NumericNames THEN k ELSE Len(Space[Order[j]].choices)]

\* A declared choice is one at least.
LEMMA SomeChoice ==
  ASSUME NEW spec, WellFormed(spec), ~IsNumeric(spec)
  PROVE  spec.kind = "CATEGORICAL" /\ Len(spec.choices) \in Nat \ {0}
         /\ DOMAIN spec.choices = 1 .. Len(spec.choices)
<1>1. spec.choices \in Seq(Words) /\ spec.kind = "CATEGORICAL" /\ ChoicesOf(spec) # {}
  BY DEF WellFormed, ParamSpec, IsNumeric
<1>2. DOMAIN spec.choices = 1 .. Len(spec.choices) /\ Len(spec.choices) \in Nat
  BY <1>1
<1>3. DOMAIN spec.choices # {}
  BY <1>1 DEF ChoicesOf
<1>. QED  BY <1>1, <1>2, <1>3

\* The declared order names every parameter once.
LEMMA OrderIs ==
  /\ Len(Order) \in Nat /\ DOMAIN Order = 1 .. Len(Order)
  /\ \A j \in 1 .. Len(Order) : Order[j] \in Names
  /\ \A i, j \in 1 .. Len(Order) : Order[i] = Order[j] => i = j
  /\ \A n \in Names : \E j \in 1 .. Len(Order) : Order[j] = n
<1>1. Order \in Seq(Names) /\ IsInjective(Order) /\ Range(Order) = Names
  BY OrderAssumption
<1>2. Len(Order) \in Nat /\ DOMAIN Order = 1 .. Len(Order)
      /\ \A j \in 1 .. Len(Order) : Order[j] \in Names
  BY <1>1
<1>. QED  BY <1>1, <1>2 DEF IsInjective, Range

LEMMA LengthsType ==
  ASSUME NEW k \in Nat \ {0}
  PROVE  /\ Lengths(k) \in [1 .. Len(Order) -> Nat \ {0}] /\ Len(Lengths(k)) = Len(Order)
         /\ SizeWith(k) = Products(Lengths(k))[1]
<1>1. ASSUME NEW j \in 1 .. Len(Order), Order[j] \notin NumericNames
      PROVE  Len(Space[Order[j]].choices) \in Nat \ {0}
  <2>1. Order[j] \in Names
    BY OrderIs
  <2>2. ~IsNumeric(Space[Order[j]])
    BY <1>1, <2>1 DEF NumericNames
  <2>. QED  BY <2>1, <2>2, SomeChoice, SpaceIs
<1>2. Lengths(k) \in [1 .. Len(Order) -> Nat \ {0}]
  BY <1>1 DEF Lengths
<1>3. Len(Lengths(k)) = Len(Order)
  BY OrderIs DEF Lengths
<1>. QED  BY <1>2, <1>3 DEF Lengths, SizeWith

LEMMA SizeType == ASSUME NEW k \in Nat \ {0} PROVE SizeWith(k) \in Nat \ {0}
<1> DEFINE n == Len(Order)
           L == Lengths(k)
<1>1. n \in Nat
  BY OrderIs
<1>2. L \in [1 .. n -> Nat \ {0}] /\ Len(L) = n /\ SizeWith(k) = Products(L)[1]
  BY LengthsType
<1>. HIDE DEF n, L
<1>3. \A j \in 1 .. n + 1 : Products(L)[j] \in Nat \ {0}
  BY <1>1, <1>2, ProductsAre
<1>4. 1 \in 1 .. n + 1
  BY <1>1
<1>. QED  BY <1>2, <1>3, <1>4

\* The budget a grid is sized for holds it, if it holds its categorical part.
LEMMA PointsPerAxisIs ==
  /\ PointsPerAxis \in Nat \ {0}
  /\ CategoricalSize <= MaxEvaluations => SizeWith(PointsPerAxis) <= MaxEvaluations
<1> DEFINE fits == {k \in 1 .. MaxEvaluations : SizeWith(k) <= MaxEvaluations}
<1>1. CASE NumericNames = {} \/ MaxEvaluations < CategoricalSize
  <2>1. PointsPerAxis = 1
    BY <1>1 DEF PointsPerAxis
  <2>2. CategoricalSize = SizeWith(1)
    BY DEF CategoricalSize
  <2>. QED  BY <2>1, <2>2
<1>2. CASE ~(NumericNames = {} \/ MaxEvaluations < CategoricalSize)
  <2>1. PointsPerAxis = Max(fits)
    BY <1>2 DEF PointsPerAxis
  <2>2. CategoricalSize \in Nat
    BY SizeType DEF CategoricalSize
  <2>3. SizeWith(1) <= MaxEvaluations
    BY <1>2, <2>2, BudgetAssumption DEF CategoricalSize
  <2>4. 1 \in fits
    BY <2>3, BudgetAssumption
  <2>5. fits \in SUBSET (1 .. MaxEvaluations) /\ IsFiniteSet(1 .. MaxEvaluations)
    BY FS_Interval, BudgetAssumption
  <2>6. IsFiniteSet(fits) /\ fits \subseteq Int
    <3>1. IsFiniteSet(fits)
      <4>. HIDE DEF fits
      <4>. QED  BY <2>5, FS_Subset
    <3>. QED  BY <3>1
  <2>7. Max(fits) \in fits
    <3>. HIDE DEF fits
    <3>. QED  BY <2>4, <2>6, GreatestElement
  <2>. QED  BY <2>1, <2>7
<1>. QED  BY <1>1, <1>2

\* The values of a numeric axis are legal, there are at most as many of them
\* as asked for, and none is there twice.
LEMMA AxisValueLegal ==
  ASSUME NEW spec, WellFormed(spec), IsNumeric(spec), NEW k \in Nat \ {0}, NEW i \in 0 .. k - 1
  PROVE  /\ AxisValue(spec, k, i) \in Legal(spec) /\ AxisValue(spec, k, i) \in Int
         /\ \A j \in 0 .. k - 1 :
              spec.kind = "FLOAT" /\ spec.high - spec.low >= k - 1
                /\ AxisValue(spec, k, i) = AxisValue(spec, k, j) => i = j
<1>0. spec.low \in Int /\ spec.high \in Int /\ spec.low < spec.high
      /\ Lowest(spec) \in Int /\ Highest(spec) \in Int /\ Lowest(spec) <= Highest(spec)
  BY InwardBounds DEF WellFormed
<1>1. CASE k = 1
  <2>0. i = 0 /\ \A j \in 0 .. k - 1 : j = 0
    BY <1>1
  <2>1. CASE spec.kind = "FLOAT"
    <3>1. AxisValue(spec, k, i) = (spec.low + spec.high) \div 2
      BY <1>1, <2>1 DEF AxisValue
    <3>2. (spec.low + spec.high) \div 2 \in spec.low .. spec.high
      BY <1>0
    <3>. QED  BY <1>0, <2>0, <2>1, <3>1, <3>2 DEF Legal
  <2>2. CASE spec.kind = "INT"
    <3> DEFINE R == RoundRatio(spec.low + spec.high, 4)
    <3>1. AxisValue(spec, k, i) = 2 * R
      BY <1>1, <2>2 DEF AxisValue
    <3>2. R \in Int
      BY <1>0, RoundRatioType
    <3>3. Lowest(spec) <= 2 * R /\ 2 * R <= Highest(spec)
      BY <1>0, <2>2, CentreLegal DEF Lowest, Highest
    <3>. HIDE DEF R
    <3>4. 2 * R \in Int /\ IsWhole(2 * R)
      BY <3>2 DEF IsWhole
    <3>5. 2 * R \in spec.low .. spec.high
      BY <1>0, <3>2, <3>3, InwardBounds
    <3>. QED  BY <2>2, <3>1, <3>4, <3>5 DEF Legal
  <2>. QED  BY <2>1, <2>2 DEF IsNumeric
<1>2. CASE k # 1
  <2> DEFINE m == k - 1
             low == spec.low
             high == spec.high
             w(j) == low * m + (high - low) * j
  <2>1. m \in Nat \ {0} /\ i \in 0 .. m /\ 0 .. k - 1 = 0 .. m
    BY <1>2
  <2>2. CASE spec.kind = "FLOAT"
    <3>1. \A j \in 0 .. m : AxisValue(spec, k, j) = w(j) \div m
      BY <1>2, <2>2 DEF AxisValue
    <3>2. low \in Int /\ high \in Int /\ low < high
      BY <1>0
    <3>. HIDE DEF m, low, high
    <3>3. ASSUME NEW j \in 0 .. m
          PROVE  /\ w(j) \div m \in low .. high
                 /\ \A l \in 0 .. m : high - low >= m /\ j < l => w(j) \div m < w(l) \div m
      BY <2>1, <3>2, EvenlySpaced
    <3>. HIDE DEF w
    <3>4. w(i) \div m \in low .. high
      BY <2>1, <3>3
    <3>5. ASSUME NEW j \in 0 .. m, high - low >= m, w(i) \div m = w(j) \div m PROVE i = j
      <4>1. w(i) \div m \in Int /\ w(j) \div m \in Int
        BY <2>1, <3>2, <3>3
      <4>2. ~(i < j) /\ ~(j < i)
        BY <2>1, <3>3, <3>5, <4>1
      <4>. QED  BY <2>1, <4>2
    <3>6. AxisValue(spec, k, i) \in low .. high
      BY <2>1, <3>1, <3>4
    <3>7. AxisValue(spec, k, i) \in Legal(spec) /\ AxisValue(spec, k, i) \in Int
      BY <2>2, <3>2, <3>6 DEF low, high, Legal
    <3>8. ASSUME NEW j \in 0 .. m, high - low >= m,
                 AxisValue(spec, k, i) = AxisValue(spec, k, j)
          PROVE  i = j
      BY <2>1, <3>1, <3>5, <3>8
    <3>. QED  BY <2>1, <3>7, <3>8 DEF m, low, high
  <2>3. CASE spec.kind = "INT"
    <3> DEFINE R == RoundRatio(w(i), 2 * m)
    <3>1. AxisValue(spec, k, i) = Clamp(2 * R, Lowest(spec), Highest(spec))
      BY <1>2, <2>3 DEF AxisValue
    <3>2. R \in Int
      <4>1. w(i) \in Int /\ 2 * m \in Nat \ {0}
        BY <1>0, <2>1
      <4>. HIDE DEF w, m
      <4>. QED  BY <4>1, RoundRatioType
    <3>. HIDE DEF R, w, m, low, high
    <3>3. 2 * R \in Int /\ IsWhole(2 * R)
      BY <3>2 DEF IsWhole
    <3>4. AxisValue(spec, k, i) \in Legal(spec)
      BY <3>1, <3>3, ClampLegal
    <3>5. AxisValue(spec, k, i) \in Int
      BY <1>0, <3>1, <3>3, Clamping
    <3>. QED  BY <2>3, <3>4, <3>5
  <2>. QED  BY <2>2, <2>3 DEF IsNumeric
<1>. QED  BY <1>1, <1>2

\* What a grid needs to have no point twice, and ParamSpec does not check: a
\* categorical parameter names each choice once, and a range is wide enough for
\* its values to differ in the units it is measured in.
TellsApart(spec) ==
  /\ spec.kind = "FLOAT" => spec.high - spec.low >= PointsPerAxis - 1
  /\ spec.kind = "CATEGORICAL" => IsInjective(spec.choices)

\* An axis has a value, legal ones only, and none twice if it tells them apart.
LEMMA AxisIs ==
  ASSUME NEW spec, WellFormed(spec)
  PROVE  /\ Len(Axis(spec)) \in Nat \ {0}
         /\ IsNumeric(spec) => Len(Axis(spec)) <= PointsPerAxis
         /\ ~IsNumeric(spec) => Len(Axis(spec)) = Len(spec.choices)
         /\ \A i \in 1 .. Len(Axis(spec)) : Axis(spec)[i] \in Legal(spec)
         /\ TellsApart(spec) =>
              \A i, j \in 1 .. Len(Axis(spec)) : Axis(spec)[i] = Axis(spec)[j] => i = j
<1> DEFINE k == PointsPerAxis
<1>0. k \in Nat \ {0}
  BY PointsPerAxisIs
<1>1. CASE ~IsNumeric(spec)
  <2>1. /\ Axis(spec) = spec.choices /\ spec.kind = "CATEGORICAL"
        /\ Len(spec.choices) \in Nat \ {0}
        /\ DOMAIN spec.choices = 1 .. Len(spec.choices)
    BY <1>1, SomeChoice DEF Axis
  <2>2. \A i \in 1 .. Len(Axis(spec)) : Axis(spec)[i] \in Legal(spec)
    BY <2>1 DEF Legal, ChoicesOf
  <2>3. TellsApart(spec) =>
          \A i, j \in 1 .. Len(Axis(spec)) : Axis(spec)[i] = Axis(spec)[j] => i = j
    BY <2>1 DEF TellsApart, IsInjective
  <2>. QED  BY <1>1, <2>1, <2>2, <2>3
<1>2. CASE spec.kind = "FLOAT"
  <2>0. IsNumeric(spec)
    BY <1>2 DEF IsNumeric
  <2>1. Axis(spec) = [i \in 1 .. k |-> AxisValue(spec, k, i - 1)]
    BY <1>2 DEF Axis
  <2>. HIDE DEF k
  <2>2. Len(Axis(spec)) = k /\ \A i \in 1 .. k : Axis(spec)[i] = AxisValue(spec, k, i - 1)
    BY <1>0, <2>1
  <2>3. \A i \in 1 .. k : i - 1 \in 0 .. k - 1
    BY <1>0
  <2>4. \A i \in 1 .. k : Axis(spec)[i] \in Legal(spec)
    BY <1>0, <2>0, <2>2, <2>3, AxisValueLegal
  <2>5. ASSUME TellsApart(spec), NEW i \in 1 .. k, NEW j \in 1 .. k, Axis(spec)[i] = Axis(spec)[j]
        PROVE  i = j
    <3>1. spec.high - spec.low >= k - 1
      BY <1>2, <2>5 DEF TellsApart, k
    <3>2. AxisValue(spec, k, i - 1) = AxisValue(spec, k, j - 1)
      BY <2>2, <2>5
    <3>3. i - 1 = j - 1
      BY <1>0, <1>2, <2>0, <2>3, <3>1, <3>2, AxisValueLegal
    <3>. QED  BY <1>0, <3>3
  <2>. QED  BY <1>0, <2>0, <2>2, <2>4, <2>5 DEF k
<1>3. CASE spec.kind = "INT"
  <2>0. IsNumeric(spec)
    BY <1>3 DEF IsNumeric
  <2> DEFINE f == [i \in 0 .. k - 1 |-> AxisValue(spec, k, i)]
             S == {f[i] : i \in 0 .. k - 1}
  <2>1. Axis(spec) = Ascending(S)
    BY <1>3 DEF Axis
  <2>. HIDE DEF k
  <2>2. \A i \in 0 .. k - 1 : f[i] \in Legal(spec) /\ f[i] \in Int
    BY <1>0, <2>0, AxisValueLegal
  <2>3. IsFiniteSet(0 .. k - 1) /\ Cardinality(0 .. k - 1) = k
    <3> DEFINE b == k - 1
    <3>1. b \in Int /\ k = b + 1 /\ b >= 0
      BY <1>0
    <3>. HIDE DEF b
    <3>2. IsFiniteSet(0 .. b) /\ Cardinality(0 .. b) = IF 0 > b THEN 0 ELSE b - 0 + 1
      BY <3>1, FS_Interval
    <3>3. Cardinality(0 .. b) = k
      BY <3>1, <3>2
    <3>. QED  BY <3>2, <3>3 DEF b
  <2>4. f \in Surjection(0 .. k - 1, S)
    BY DEF Surjection
  <2>5. S \subseteq Int /\ (\A v \in S : v \in Legal(spec)) /\ f[0] \in S
    BY <1>0, <2>2
  <2>. HIDE DEF f, S
  <2>6. IsFiniteSet(S) /\ Cardinality(S) <= k
    BY <2>3, <2>4, FS_Surjection
  <2>7. Cardinality(S) \in Nat \ {0}
    BY <2>5, <2>6, FS_CardinalityType, FS_EmptySet
  <2>8. /\ Len(Ascending(S)) = Cardinality(S)
        /\ \A i \in 1 .. Cardinality(S) : Ascending(S)[i] \in S
        /\ \A i, j \in 1 .. Cardinality(S) : Ascending(S)[i] = Ascending(S)[j] => i = j
    BY <2>5, <2>6, AscendingIs
  <2>. QED  BY <2>0, <2>1, <2>5, <2>6, <2>7, <2>8 DEF k
<1>. QED  BY <1>1, <1>2, <1>3 DEF IsNumeric

-----------------------------------------------------------------------------
\* How long the axes of the grid are.
Extent == [j \in 1 .. Len(Order) |-> Len(Axes[j])]

LEMMA ExtentIs ==
  /\ Extent \in [1 .. Len(Order) -> Nat \ {0}] /\ Len(Extent) = Len(Order)
  /\ Stride = Products(Extent)
  /\ \A j \in 1 .. Len(Order) :
       /\ Axes[j] = Axis(Space[Order[j]]) /\ Extent[j] = Len(Axes[j])
       /\ WellFormed(Space[Order[j]])
       /\ Extent[j] <= Lengths(PointsPerAxis)[j]
<1>1. ASSUME NEW j \in 1 .. Len(Order)
      PROVE  /\ Axes[j] = Axis(Space[Order[j]]) /\ Extent[j] = Len(Axes[j])
             /\ WellFormed(Space[Order[j]])
             /\ Extent[j] \in Nat \ {0} /\ Extent[j] <= Lengths(PointsPerAxis)[j]
  <2>1. Axes[j] = Axis(Space[Order[j]]) /\ Extent[j] = Len(Axes[j])
    BY DEF Axes, Extent
  <2>2. Order[j] \in Names
    BY OrderIs
  <2>3. WellFormed(Space[Order[j]])
    BY <2>2, SpaceIs
  <2>4. Lengths(PointsPerAxis)[j] =
          IF IsNumeric(Space[Order[j]]) THEN PointsPerAxis ELSE Len(Space[Order[j]].choices)
    BY <2>2 DEF Lengths, NumericNames
  <2> DEFINE spec == Space[Order[j]]
             a == Len(Axis(spec))
  <2>5. /\ a \in Nat \ {0} /\ (IsNumeric(spec) => a <= PointsPerAxis)
        /\ (~IsNumeric(spec) => a = Len(spec.choices))
    <3>. HIDE DEF spec
    <3>. QED  BY <2>3, AxisIs DEF spec
  <2>. QED  BY <2>1, <2>3, <2>4, <2>5
<1>2. Extent \in [1 .. Len(Order) -> Nat \ {0}]
  <2>1. Extent = [j \in 1 .. Len(Order) |-> Extent[j]]
    BY DEF Extent
  <2>. QED  BY <1>1, <2>1
<1>3. Len(Extent) = Len(Order)
  BY OrderIs DEF Extent
<1>. QED  BY <1>1, <1>2, <1>3 DEF Stride, Extent

\* The grid fits the budget it is sized for, if its categorical part does.
LEMMA GridFits ==
  /\ GridSize \in Nat \ {0}
  /\ CategoricalSize <= MaxEvaluations => GridSize <= MaxEvaluations
<1> DEFINE n == Len(Order)
           E == Extent
           L == Lengths(PointsPerAxis)
<1>0. n \in Nat
  BY OrderIs
<1>1. E \in [1 .. n -> Nat \ {0}] /\ Len(E) = n /\ GridSize = Products(E)[1]
  BY ExtentIs DEF GridSize
<1>2. L \in [1 .. n -> Nat \ {0}] /\ Len(L) = n /\ SizeWith(PointsPerAxis) = Products(L)[1]
  BY LengthsType, PointsPerAxisIs
<1>3. \A j \in 1 .. n : E[j] <= L[j]
  BY ExtentIs
<1>4. SizeWith(PointsPerAxis) \in Nat
  BY SizeType, PointsPerAxisIs
<1>. HIDE DEF n, E, L
<1>5. Products(E)[1] <= Products(L)[1]
  BY <1>0, <1>1, <1>2, <1>3, ProductsGrow
<1>6. Products(E)[1] \in Nat \ {0}
  <2>1. 1 \in 1 .. n + 1
    BY <1>0
  <2>. QED  BY <1>0, <1>1, <2>1, ProductsAre
<1>7. CategoricalSize <= MaxEvaluations => GridSize <= MaxEvaluations
  BY <1>1, <1>2, <1>4, <1>5, <1>6, PointsPerAxisIs, BudgetAssumption
<1>. QED  BY <1>1, <1>6, <1>7

\* A point of the grid, axis by axis.
LEMMA PointAtIs ==
  ASSUME NEW x \in Nat, NEW j \in 1 .. Len(Order)
  PROVE  /\ PointAt(x)[Order[j]] = Axes[j][1 + ((x \div Stride[j + 1]) % Extent[j])]
         /\ (x \div Stride[j + 1]) % Extent[j] \in 0 .. Extent[j] - 1
<1>1. Order[j] \in Names /\ (CHOOSE k \in 1 .. Len(Order) : Order[k] = Order[j]) = j
  BY OrderIs
<1>2. PointAt(x)[Order[j]] = Axes[j][1 + ((x \div Stride[j + 1]) % Len(Axes[j]))]
  BY <1>1, Zenon DEF PointAt
<1>3. Extent[j] \in Nat \ {0} /\ Extent[j] = Len(Axes[j])
  BY ExtentIs
<1>4. Stride[j + 1] \in Nat \ {0}
  <2>1. Len(Order) \in Nat /\ j + 1 \in 1 .. Len(Order) + 1
    BY OrderIs
  <2>. QED  BY <2>1, ExtentIs, ProductsAre
<1>5. x \div Stride[j + 1] \in Int
  BY <1>4
<1>6. (x \div Stride[j + 1]) % Extent[j] \in 0 .. Extent[j] - 1
  BY <1>3, <1>5
<1>. QED  BY <1>2, <1>3, <1>6

\* It is legal, and the guard leaves it as it is.
LEMMA PointAtLegal ==
  ASSUME NEW x \in Nat
  PROVE  Valid(Written(PointAt(x))) /\ Validated(Written(PointAt(x))) = PointAt(x)
<1>1. ASSUME NEW n \in Names PROVE PointAt(x)[n] \in Legal(Space[n])
  <2>1. PICK j \in 1 .. Len(Order) : Order[j] = n
    BY OrderIs
  <2> DEFINE i == 1 + ((x \div Stride[j + 1]) % Extent[j])
             spec == Space[Order[j]]
  <2>2. PointAt(x)[n] = Axes[j][i] /\ Axes[j] = Axis(spec) /\ Extent[j] = Len(Axis(spec))
        /\ WellFormed(spec) /\ Extent[j] \in Nat \ {0}
    BY <2>1, PointAtIs, ExtentIs
  <2>3. i \in 1 .. Extent[j]
    <3> DEFINE d == (x \div Stride[j + 1]) % Extent[j]
    <3>1. d \in 0 .. Extent[j] - 1
      BY PointAtIs
    <3>. HIDE DEF d
    <3>2. 1 + d \in 1 .. Extent[j]
      BY <2>2, <3>1
    <3>. QED  BY <3>2 DEF d
  <2>. HIDE DEF i, spec
  <2>4. Axis(spec)[i] \in Legal(spec)
    BY <2>2, <2>3, AxisIs
  <2>. QED  BY <2>1, <2>2, <2>4 DEF spec
<1>2. ASSUME NEW n \in Names, NEW v \in Legal(Space[n])
      PROVE  LET raw == [form |-> CASE Space[n].kind = "FLOAT" -> "float" [] Space[n].kind = "INT" -> "int"
                                    [] OTHER -> "word", value |-> v]
             IN  Acceptable(Space[n], raw) /\ Clean(Space[n], raw) = v
  <2> DEFINE spec == Space[n]
  <2>0. WellFormed(spec)
    BY SpaceIs
  <2>1. CASE spec.kind = "CATEGORICAL"
    BY <2>1 DEF Acceptable, Clean, Legal, IsNumeric
  <2>2. CASE spec.kind \in {"FLOAT", "INT"}
    <3>1. /\ spec.low \in Int /\ spec.high \in Int
          /\ Lowest(spec) \in Int /\ Highest(spec) \in Int
      BY <2>0, <2>2, InwardBounds DEF IsNumeric
    <3>2. v \in spec.low .. spec.high /\ (spec.kind = "INT" => IsWhole(v))
      BY <2>2 DEF Legal
    <3>3. v \in Int /\ Lowest(spec) <= v /\ v <= Highest(spec)
      BY <3>1, <3>2, Rounding DEF Lowest, Highest
    <3>4. Clamp(v, Lowest(spec), Highest(spec)) = v
      BY <3>1, <3>3 DEF Clamp, Lesser, Greater
    <3>. QED  BY <2>2, <3>2, <3>3, <3>4 DEF Acceptable, IsNumber, Clean, IsNumeric
  <2>. QED  BY <2>0, <2>1, <2>2 DEF WellFormed, ParamSpec
<1>3. \A n \in Names : Acceptable(Space[n], Written(PointAt(x))[n])
                       /\ Clean(Space[n], Written(PointAt(x))[n]) = PointAt(x)[n]
  BY <1>1, <1>2 DEF Written
<1>4. DOMAIN Written(PointAt(x)) = Names
  BY DEF Written
<1>5. PointAt(x) = [n \in Names |-> PointAt(x)[n]]
  BY DEF PointAt
<1>6. Validated(Written(PointAt(x))) = [n \in Names |-> PointAt(x)[n]]
  BY <1>3 DEF Validated
<1>. QED  BY <1>3, <1>4, <1>5, <1>6 DEF Valid

\* Every axis tells its values apart.
AxesTellApart == \A n \in Names : TellsApart(Space[n])

\* Then no two indices of the grid have the same point.
LEMMA PointsDiffer ==
  ASSUME AxesTellApart, NEW x \in 0 .. GridSize - 1, NEW y \in 0 .. GridSize - 1,
         PointAt(x) = PointAt(y)
  PROVE  x = y
<1>0. x \in Nat /\ y \in Nat
  BY GridFits
<1>1. ASSUME NEW j \in 1 .. Len(Order)
      PROVE  (x \div Stride[j + 1]) % Extent[j] = (y \div Stride[j + 1]) % Extent[j]
  <2> DEFINE d == (x \div Stride[j + 1]) % Extent[j]
             e == (y \div Stride[j + 1]) % Extent[j]
             spec == Space[Order[j]]
  <2>1. d \in 0 .. Extent[j] - 1 /\ e \in 0 .. Extent[j] - 1 /\ Axes[j][1 + d] = Axes[j][1 + e]
    <3>1. PointAt(x)[Order[j]] = Axes[j][1 + d] /\ d \in 0 .. Extent[j] - 1
      BY <1>0, PointAtIs
    <3>2. PointAt(y)[Order[j]] = Axes[j][1 + e] /\ e \in 0 .. Extent[j] - 1
      BY <1>0, PointAtIs
    <3>. HIDE DEF d, e
    <3>. QED  BY <3>1, <3>2
  <2>2. /\ Axes[j] = Axis(spec) /\ Extent[j] = Len(Axis(spec)) /\ WellFormed(spec)
        /\ Extent[j] \in Nat \ {0}
    BY ExtentIs
  <2>3. TellsApart(spec)
    BY OrderIs DEF AxesTellApart
  <2>. HIDE DEF d, e, spec
  <2>4. 1 + d \in 1 .. Extent[j] /\ 1 + e \in 1 .. Extent[j]
    BY <2>1, <2>2
  <2>5. 1 + d = 1 + e
    BY <2>1, <2>2, <2>3, <2>4, AxisIs
  <2>6. d = e
    BY <2>1, <2>5
  <2>. QED  BY <2>6 DEF d, e
<1> DEFINE n == Len(Order)
           E == Extent
<1>2. /\ n \in Nat /\ E \in [1 .. n -> Nat \ {0}] /\ Len(E) = n
      /\ x \in 0 .. Products(E)[1] - 1 /\ y \in 0 .. Products(E)[1] - 1
      /\ \A j \in 1 .. n : (x \div Products(E)[j + 1]) % E[j] = (y \div Products(E)[j + 1]) % E[j]
  BY <1>1, OrderIs, ExtentIs DEF GridSize
<1>. HIDE DEF n, E
<1>. QED  BY <1>2, Odometer

-----------------------------------------------------------------------------
\* A grid run so far is the first points of the grid.
WalkedSoFar ==
  strategy = "grid" =>
    \A i \in DOMAIN history :
      i < GridSize /\ history[i].candidate = PointAt(i) /\ history[i].source = "BASELINE"

LEMMA WalkedInit == Init => WalkedSoFar
BY DEF Init, WalkedSoFar, Record!EmptyHistory

LEMMA WalkedNext == AxesTellApart /\ Inv /\ WalkedSoFar /\ [Next]_vars => WalkedSoFar'
<1>. SUFFICES ASSUME AxesTellApart, Inv, WalkedSoFar, [Next]_vars, strategy' = "grid"
              PROVE  WalkedSoFar'
  BY DEF WalkedSoFar
<1>1. CASE UNCHANGED vars
  BY <1>1 DEF vars, WalkedSoFar
<1>2. CASE UseDefaultGoal \/ ParseGoal
  BY <1>2 DEF UseDefaultGoal, ParseGoal, WalkedSoFar
<1>3. ASSUME Next, ~UseDefaultGoal, ~ParseGoal PROVE WalkedSoFar'
  <2>1. strategy = "grid" /\ Source = "BASELINE"
    BY <1>3 DEF Next, RecordFailure, RecordRejection, Evaluate, Perturb, Commit, Source
  <2>2. PICK n \in Nat : DOMAIN history = 0 .. n - 1
    BY DEF Inv, Gapless
  <2>3. Turn = n
    BY <2>2, TurnIs
  <2>4. ASSUME NEW raw \in Proposed
        PROVE  n < GridSize /\ Valid(raw) /\ Validated(raw) = PointAt(n)
    <3>1. n \in 0 .. GridSize - 1 /\ raw = Written(PointAt(n))
      BY <2>1, <2>3 DEF Proposed
    <3>. QED  BY <3>1, GridFits, PointAtLegal
  <2>5. n < GridSize => ~IsDuplicate(PointAt(n))
    <3>. SUFFICES ASSUME n < GridSize, NEW i \in Evaluated, history[i].candidate = PointAt(n)
                  PROVE  FALSE
      BY DEF IsDuplicate
    <3>1. i \in 0 .. n - 1 /\ history[i].candidate = PointAt(i) /\ i < GridSize
      BY <2>1, <2>2 DEF Evaluated, WalkedSoFar
    <3>2. i \in 0 .. GridSize - 1 /\ n \in 0 .. GridSize - 1
      BY <3>1, GridFits
    <3>3. i = n
      BY <3>1, <3>2, PointsDiffer
    <3>. QED  BY <3>1, <3>3
  <2>6. n < GridSize /\ Commit(PointAt(n), "BASELINE", Simulate(PointAt(n)))
    <3>1. CASE RecordFailure
      BY <2>1, <3>1 DEF RecordFailure
    <3>2. CASE RecordRejection
      BY <2>4, <3>2 DEF RecordRejection
    <3>3. CASE Evaluate
      BY <2>1, <2>4, <3>3 DEF Evaluate
    <3>4. CASE Perturb
      BY <2>4, <2>5, <3>4 DEF Perturb
    <3>. QED  BY <1>3, <3>1, <3>2, <3>3, <3>4 DEF Next
  <2>7. /\ DOMAIN history' = 0 .. n
        /\ history'[n].candidate = PointAt(n) /\ history'[n].source = "BASELINE"
        /\ \A i \in 0 .. n - 1 : history'[i] = history[i]
    BY <2>2, <2>6, CommitShape
  <2>8. ASSUME NEW i \in 0 .. n
        PROVE  /\ i < GridSize /\ history'[i].candidate = PointAt(i)
               /\ history'[i].source = "BASELINE"
    <3>1. CASE i = n
      BY <2>6, <2>7, <3>1
    <3>2. CASE i # n
      <4>1. i \in 0 .. n - 1
        BY <3>2
      <4>. QED  BY <2>1, <2>2, <2>7, <4>1 DEF WalkedSoFar
    <3>. QED  BY <3>1, <3>2
  <2>. QED  BY <2>7, <2>8 DEF WalkedSoFar
<1>. QED  BY <1>1, <1>2, <1>3

\* A grid run evaluates the points of one fixed grid in order, none twice and
\* none nudged, and the grid fits the budget it was sized for whenever its
\* categorical part does: for any space whose axes tell their values apart
\* (GridSearch.point_at, points_per_axis, axis_values).
THEOREM GridWalkedOnce == AxesTellApart /\ Spec => []GridIsWalkedOnce
<1>1. AxesTellApart /\ Inv /\ WalkedSoFar => GridIsWalkedOnce
  <2>. SUFFICES ASSUME AxesTellApart, Inv, WalkedSoFar, strategy = "grid",
                       NEW i \in DOMAIN history
                PROVE  /\ history[i].candidate = PointAt(i)
                       /\ history[i].source = "BASELINE"
                       /\ \A j \in DOMAIN history :
                            history[i].candidate = history[j].candidate => i = j
    BY GridFits DEF GridIsWalkedOnce
  <2>1. PICK n \in Nat : DOMAIN history = 0 .. n - 1
    BY DEF Inv, Gapless
  <2>2. \A j \in DOMAIN history : j \in 0 .. GridSize - 1 /\ history[j].candidate = PointAt(j)
    BY <2>1, GridFits DEF WalkedSoFar
  <2>. QED  BY <2>2, PointsDiffer DEF WalkedSoFar
<1>2. AxesTellApart => AxesTellApart'
  OBVIOUS
<1>. QED  BY <1>1, <1>2, WalkedInit, WalkedNext, Invariance, PTL DEF Spec

=============================================================================
