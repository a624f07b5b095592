------------------------------ MODULE Scoring ------------------------------
(***************************************************************************)
(* What the report and the stagnation detector compute from the episodes   *)
(* of one run, as the run is recorded: the incumbent (recompute_best), the *)
(* best-feasible and regret curves, evaluations-to-threshold, the signed   *)
(* improvement, NoImprovement. The loop's checks are left out here, so     *)
(* that every history of the stored shape is scored, gaps included.        *)
(***************************************************************************)
EXTENDS History, SequencesExt

CONSTANTS
  KnownOptimum,   \* Benchmark.known_optimum
  Threshold,      \* regret that evaluations_to_threshold looks for
  Coordinates,    \* normalise: a point's numeric parameters, scaled by their bounds
  CrowdWindow, Epsilon,   \* DiversityCollapse's; Epsilon on the scale of Coordinates
  NoValue,        \* None
  MaxIdx          \* bound on episode indices, so that TLC's state space is finite

ASSUME ScoringAssumption ==
  /\ KnownOptimum \in Int /\ Threshold \in Nat /\ NoValue \notin Int /\ MaxIdx \in Nat
  /\ CrowdWindow \in Nat \ {0, 1} /\ Epsilon \in Nat
  /\ Coordinates \in [Points -> Seq(Int)]
  /\ \A p, q \in Points : Len(Coordinates[p]) = Len(Coordinates[q])

VARIABLE history

-----------------------------------------------------------------------------
\* recompute_best as the code writes it: replay in index order.
Replay(h) ==
  LET best[n \in 0 .. NextIdx(h)] ==
        IF n = 0 THEN NoBest
        ELSE IF n - 1 \in Evaluated(h) /\ BetterThan(h[n - 1].result, best[n - 1])
             THEN [episode_idx |-> n - 1, result |-> h[n - 1].result]
             ELSE best[n - 1]
  IN best[NextIdx(h)]

\* One direction for the goal's (better_than) and the benchmark's (metrics.py).
Better(v, w) == IF Direction = "MINIMISE" THEN v < w ELSE v > w

\* The k-th episode that reached the simulator.
Kth(h, k) ==
  CHOOSE i \in Evaluated(h) : Cardinality({j \in Evaluated(h) : j < i}) = k - 1

\* The results that reached the simulator, in order.
Results(h) == [k \in 1 .. Cardinality(Evaluated(h)) |-> h[Kth(h, k)].result]

\* Mutant: infeasible values count.
KeepBestOfAll(best, r) ==
  IF best = NoValue \/ Better(r.value, best) THEN r.value ELSE best

\* One turn of best_feasible_curve.
KeepBest(best, r) ==
  IF r.feasible /\ (best = NoValue \/ Better(r.value, best)) THEN r.value ELSE best

\* best_feasible_curve: one entry per evaluation.
Curve(h) ==
  LET rs == Results(h)
      best[k \in 0 .. Len(rs)] == IF k = 0 THEN NoValue ELSE KeepBest(best[k - 1], rs[k])
  IN  [k \in 1 .. Len(rs) |-> best[k]]

RegretOf(v) ==
  IF v = NoValue THEN NoValue
  ELSE IF Direction = "MINIMISE" THEN Max({0, v - KnownOptimum})
  ELSE Max({0, KnownOptimum - v})

\* Mutant: padded with zero regret.
PaddedWithOptimum(curve) ==
  [k \in 1 .. MaxEvaluations |-> IF k <= Len(curve) THEN RegretOf(curve[k]) ELSE 0]

\* summarise_run's regret_curve: padded to the budget with the last value.
Padded(curve) ==
  [k \in 1 .. MaxEvaluations |->
     IF k <= Len(curve) THEN RegretOf(curve[k])
     ELSE IF curve = <<>> THEN NoValue ELSE RegretOf(Last(curve))]

\* evaluations_to_threshold: the first entry at or below the threshold.
ToThreshold(regrets) ==
  LET hits == {k \in DOMAIN regrets : regrets[k] # NoValue /\ regrets[k] <= Threshold}
  IN  IF hits = {} THEN NoValue ELSE Min(hits)

BestObjective(h) == IF Curve(h) = <<>> THEN NoValue ELSE Last(Curve(h))

-----------------------------------------------------------------------------
\* The last n results' episodes.
Latest(h, n) ==
  {i \in Evaluated(h) : Cardinality({j \in Evaluated(h) : j > i}) < n}

Square(x) == x * x

\* The square of the distance between two normalised points.
Apart(p, q) ==
  LET sum[d \in 0 .. Len(Coordinates[p])] ==
        IF d = 0 THEN 0 ELSE sum[d - 1] + Square(Coordinates[p][d] - Coordinates[q][d])
  IN  sum[Len(Coordinates[p])]

\* Mutant: the window is any of the record's episodes, rejected ones included.
CrowdedOverEpisodes(h) ==
  LET recent == {i \in DOMAIN h : Cardinality({j \in DOMAIN h : j > i}) < CrowdWindow}
                  \cap Evaluated(h)
  IN  /\ Cardinality(Evaluated(h)) >= CrowdWindow
      /\ \A i, j \in recent : Apart(h[i].candidate, h[j].candidate) <= Square(Epsilon)

\* DiversityCollapse.check: the widest gap in the last window is within
\* Epsilon. A point without numeric parameters is no evidence.
Crowded(h) ==
  LET recent == {i \in Latest(h, CrowdWindow) : Coordinates[h[i].candidate] # <<>>} IN
  /\ Cardinality(Evaluated(h)) >= CrowdWindow
  /\ Cardinality(recent) >= 2
  /\ \A i, j \in recent : Apart(h[i].candidate, h[j].candidate) <= Square(Epsilon)

\* check_all over default_detectors: the first to fire.
Verdict(h) ==
  IF Stuck(h) THEN "no_improvement" ELSE IF Crowded(h) THEN "diversity_collapse" ELSE "moving"

-----------------------------------------------------------------------------
Init == history = EmptyHistory

\* One more recorded episode, graded as run_loop grades it; its index may leave
\* a gap, which recompute_step_idx is written to survive.
Record ==
  \E c \in Answers, t \in WallTimes, i \in NextIdx(history) .. NextIdx(history) + 1 :
    /\ i <= MaxIdx
    /\ Cardinality(Evaluated(history)) < MaxEvaluations
    /\ history' = Extend(history, i, MakeEpisode(c, t, RecomputeBest(history)))

Next == Record

Spec == Init /\ [][Next]_history

-----------------------------------------------------------------------------
\* One best result, however it is computed: by the code's left-to-right replay
\* of the episodes, by the declarative incumbent the proofs reason about, from
\* the improved flags of the record, or from the report's curve, in which
\* feasible results only count (None where the incumbent is infeasible).
IncumbentsAgree ==
  LET best     == RecomputeBest(history)
      improved == {i \in DOMAIN history : history[i].improved}
  IN  /\ Replay(history) = best
      /\ improved = {} <=> best = NoBest
      /\ improved # {} => best.episode_idx = Max(improved)
      /\ BestObjective(history) =
           IF best # NoBest /\ best.result.feasible THEN best.result.value ELSE NoValue

\* Evaluations-to-threshold is earned at a real evaluation, never by padding,
\* and recording more changes it no more; nor does the rest of the regret curve
\* ever get worse, whatever it is padded with (summarise_run).
ThresholdIsStable ==
  [][LET before == Padded(Curve(history))
         after  == Padded(Curve(history'))
         hit    == ToThreshold(before)
     IN  /\ hit # NoValue => hit <= Cardinality(Evaluated(history)) /\ ToThreshold(after) = hit
         /\ \A k \in 1 .. MaxEvaluations : before[k] # NoValue =>
              /\ after[k] # NoValue /\ after[k] <= before[k]
              /\ k > 1 /\ before[k - 1] # NoValue => before[k] <= before[k - 1]]_history

\* A rejected or failed proposal changes no detector's verdict. A run is
\* stagnant no more only after an improvement, and crowded no more only after
\* a result away from some recent one (the detectors count evaluations).
RejectionsDoNotStagnate ==
  [][LET new  == DOMAIN history' \ DOMAIN history
         Far(i) == \E j \in Latest(history, CrowdWindow) :
                     Apart(history'[i].candidate, history[j].candidate) > Square(Epsilon)
     IN
     /\ (\A i \in new : history'[i].result = ToolError) => Verdict(history') = Verdict(history)
     /\ Stuck(history) /\ ~Stuck(history') => \E i \in new : history'[i].improved
     /\ Crowded(history) /\ ~Crowded(history') => \E i \in new \cap Evaluated(history') : Far(i)]_history
=============================================================================
