------------------------------ MODULE History ------------------------------
(***************************************************************************)
(* What the agent loop computes from the episodes of one run: the best     *)
(* result, the budget spent, the next index, and whether to stop.          *)
(* Everything here is a pure operator of a history, i.e. a function from a *)
(* finite set of episode indices to episodes.                              *)
(***************************************************************************)
EXTENDS Integers, FiniteSets, FiniteSetsExt

CONSTANTS
  Points,          \* parameter assignments the guard accepts
  Sim,             \* what the (deterministic) simulator returns for a point
  Nudge,           \* where perturb may move a repeated point
  Proposals,       \* Proposals[n]: what the strategy may answer at step n
  Supply,          \* proposals before StrategyExhausted (a grid's size)
  WallTimes,       \* measured time of an evaluation: 0 negligible, 1 one unit
  MaxEvaluations, MaxRejections, MaxWall,   \* BudgetState limits
  Window,          \* NoImprovement's window; 0 when no detectors are passed
  Direction, Target,
  Invalid, Failed,  \* answers that the guard rejects, and a ProviderError
  NoTarget, NoBest, ToolError               \* sentinels

Limit == MaxEvaluations + MaxRejections

\* What propose may come back with.
Answers == Points \cup {Invalid, Failed}

\* The metrics of a SimResult that better_than compares.
Result == [feasible : BOOLEAN, value : Int, violation : Nat]
Outcomes == Result \cup {ToolError}

Episode == [candidate : Answers, result : Outcomes, wall : {0, 1}, improved : BOOLEAN]
Best == [episode_idx : Nat, result : Result]
Budget == [evaluations : Nat, rejections : Nat, wall : Nat]

IsHistory(h) == h \in [DOMAIN h -> Episode] /\ DOMAIN h \subseteq Nat

IsRunState(s) ==
  /\ DOMAIN s = {"history", "best", "budget", "step_idx"}
  /\ IsHistory(s.history)
  /\ s.best \in Best \cup {NoBest}
  /\ s.budget \in Budget
  /\ s.step_idx \in Nat

ASSUME LimitsAssumption ==
  /\ MaxEvaluations \in Nat \ {0}
  /\ MaxRejections \in Nat
  /\ MaxWall \in Nat \ {0}
  /\ Window \in Nat
  /\ Supply \in Nat
  /\ Direction \in {"MINIMISE", "MAXIMISE"}
  /\ Target \in Int \cup {NoTarget}

ASSUME SentinelAssumption ==
  /\ ToolError \notin Result
  /\ NoBest \notin Best
  /\ Invalid \notin Points /\ Failed \notin Points

ASSUME WorldAssumption ==
  /\ Sim \in [Points -> Outcomes]
  /\ Nudge \in [Points -> SUBSET Points]
  /\ \A p \in Points : Nudge[p] # {}
  /\ Proposals \in [0 .. Limit -> SUBSET Answers]
  /\ \A n \in 0 .. Limit : Proposals[n] # {}
  /\ WallTimes \in SUBSET {0, 1} /\ WallTimes # {}

-----------------------------------------------------------------------------
\* Which episodes reached the simulator (Episode.sim_result is not None).
Evaluated(h) == {i \in DOMAIN h : h[i].result # ToolError}

\* recompute_step_idx: max + 1, deliberately not the number of episodes.
NextIdx(h) == IF DOMAIN h = {} THEN 0 ELSE Max(DOMAIN h) + 1

\* recompute_budget. Euro cost is zero on every path of the code and is left out.
Used(h) ==
  [evaluations |-> Cardinality(Evaluated(h)),
   rejections  |-> Cardinality(DOMAIN h \ Evaluated(h)),
   wall        |-> Cardinality({i \in Evaluated(h) : h[i].wall = 1})]

\* better_than against an incumbent's result: feasible first, then strict.
Beats(r, s) ==
  \/ r.feasible /\ ~s.feasible
  \/ ~r.feasible /\ ~s.feasible /\ r.violation < s.violation
  \/ /\ r.feasible /\ s.feasible
     /\ \/ Direction = "MINIMISE" /\ r.value < s.value
        \/ Direction = "MAXIMISE" /\ r.value > s.value

BetterThan(r, best) == best = NoBest \/ Beats(r, best.result)

\* The incumbent a left-to-right replay ends with: it beats everything before
\* it and nothing after it beats it (Scoring has the literal replay).
IsIncumbent(h, i) ==
  /\ i \in Evaluated(h)
  /\ \A j \in Evaluated(h) :
       /\ j < i => Beats(h[i].result, h[j].result)
       /\ j > i => ~Beats(h[j].result, h[i].result)

RecomputeBest(h) ==
  IF Evaluated(h) = {} THEN NoBest
  ELSE LET i == CHOOSE k \in DOMAIN h : IsIncumbent(h, k)
       IN  [episode_idx |-> i, result |-> h[i].result]

\* rehydrate: every derived field of a RunState, from the episodes alone.
Rehydrate(h) ==
  [history |-> h, best |-> RecomputeBest(h), budget |-> Used(h), step_idx |-> NextIdx(h)]

-----------------------------------------------------------------------------
\* The checks at the head of run_loop.

\* Mutant: one evaluation, or one second, too many.
BudgetExhaustedLate(b) == b.evaluations > MaxEvaluations \/ b.wall > MaxWall

BudgetExhausted(b) == b.evaluations >= MaxEvaluations \/ b.wall >= MaxWall

RejectionsExceeded(b) == b.rejections >= MaxRejections

GoalSatisfied(best) ==
  /\ best # NoBest /\ Target # NoTarget
  /\ best.result.feasible
  /\ IF Direction = "MINIMISE" THEN best.result.value <= Target
                               ELSE best.result.value >= Target

\* NoImprovement.check: none of the last Window evaluations improved.
Stuck(h) ==
  /\ Window > 0
  /\ Cardinality(Evaluated(h)) >= Window
  /\ \A i \in Evaluated(h) :
       Cardinality({j \in Evaluated(h) : j > i}) < Window => ~h[i].improved

\* The first check that fires; "NONE" when the loop goes on to propose, and
\* "EXHAUSTED" when propose then raises StrategyExhausted.
StopReason(s) ==
  IF BudgetExhausted(s.budget) THEN "BUDGET"
  ELSE IF RejectionsExceeded(s.budget) THEN "REJECTIONS"
  ELSE IF GoalSatisfied(s.best) THEN "SUCCESS"
  ELSE IF Stuck(s.history) THEN "STAGNATION"
  ELSE IF s.step_idx >= Supply THEN "EXHAUSTED"
  ELSE "NONE"

\* A history after which the loop makes no further episode.
Terminal(h) == StopReason(Rehydrate(h)) # "NONE"

-----------------------------------------------------------------------------
\* One turn of the loop body, up to the commit point.

IsDuplicate(c, h) == \E i \in Evaluated(h) : h[i].candidate = c

\* validate, is_duplicate, perturb: what reaches the simulator for an answer.
Guarded(a, h) == IF a \in Points /\ IsDuplicate(a, h) THEN Nudge[a] ELSE {a}

\* A rejected or missing proposal, and a simulator that raises, are ToolErrors.
Outcome(c) == IF c \in Points THEN Sim[c] ELSE ToolError

\* Mutants: improved is graded for failed episodes too, or by value alone.
MakeEpisodeGradesErrors(c, wall, best) ==
  [candidate |-> c, result |-> Outcome(c), wall |-> wall,
   improved  |-> BetterThan(Outcome(c), best)]

MakeEpisode(c, wall, best) ==
  [candidate |-> c,
   result    |-> Outcome(c),
   wall      |-> IF Outcome(c) = ToolError THEN 0 ELSE wall,
   improved  |-> Outcome(c) # ToolError /\ BetterThan(Outcome(c), best)]

\* The episodes a loop whose state is s may commit next.
NextEpisodes(s) ==
  {MakeEpisode(c, t, s.best) :
     c \in UNION {Guarded(a, s.history) : a \in Proposals[s.step_idx]}, t \in WallTimes}

\* history + [episode], stored under its natural key.
Extend(h, i, e) == [k \in DOMAIN h \cup {i} |-> IF k = i THEN e ELSE h[k]]

EmptyHistory == [k \in {} |-> ToolError]

Size(h) == Cardinality(DOMAIN h)

Contiguous(h) == DOMAIN h = 0 .. Size(h) - 1

\* The first n episodes of a history.
Prefix(h, n) == [k \in {i \in DOMAIN h : i < n} |-> h[k]]

IsPrefixOf(h, g) == \E n \in 0 .. Size(g) : h = Prefix(g, n)
=============================================================================
