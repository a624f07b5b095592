# A verification of sil-agent in TLA+

sil-agent runs *experiments*: a strategy proposes a point, a guard checks it, a
simulator measures it, the result is stored, and the loop goes round until an
allowance, a target or a detector stops it. The program's claims are about what
survives: a killed run resumes exactly, the budget is never overspent, a grade
is computed and never asserted, an answer that was paid for is not paid for
again, a report says why a run stopped. This directory states those claims as
TLA+ properties of models read off the code, checks them with TLC on small
instances, and proves the most important ones with TLAPS for all instances.

* [The system](#the-system)
* [The modules](#the-modules)
* [The runs](#the-runs)
* [What the code does not do](#what-the-code-does-not-do)
* [The proofs](#the-proofs)
* [Abstractions](#abstractions)
* [What is not modelled](#what-is-not-modelled)
* [Plan](#plan)

## The system

| component | source | state | operations | interacts by |
|---|---|---|---|---|
| Agent loop | `agent/loop.py`, `agent/state.py` | a `RunState` in memory | check, propose, guard, simulate, grade, commit, save | calls the strategy, guard, simulator and repository |
| Run repository | `persistence/` | tables `runs`, `episodes`, `llm_calls` | upsert a run, insert an episode or a call once, load | shared by every process |
| Harness, commands | `eval/harness.py`, `cli.py` | none of its own | derive a run's identity; skip, create or resume a cell, run the loop | repository, loop |
| Guard | `agent/guards.py` | none | validate, find duplicates, perturb | called by the loop |
| Strategies | `strategies/` | none | a point as a function of the history and a seed | history, goal, budget |
| Simulators | `simulators/` | none | measure a point, judge its constraints | called by the loop |
| Goal parser | `agent/goal_parser.py` | none | one model request, validated against the benchmark | router |
| Model router | `services/router.py`, `retry.py` | `_last_call_at` | repair, fall back, retry, pace | provider adapters (HTTP) |
| Replay cache, LLM strategies | `services/replay.py`, `strategies/llm_agent.py`, `agent/planner.py` | `last_cost` | render, look up, ask, record | router, `llm_calls`, history |
| Scoring, stagnation | `eval/metrics.py`, `agent/stagnation.py` | none | derive the reason, curves, threshold; detect | reads stored runs |
| Report, sweep | `eval/report.py`, `eval/sweep.py` | none | gather, group, find the crossing | read the whole `runs` table |
| Run lock | `services/locks.py` | a Redis key | acquire, renew, release | nothing calls it |

**What is hard here.** Nothing in the program is threaded, but nothing stops
two processes from executing the same run either: run identifiers are
deterministic, `sil-agent experiment` is meant to be re-run, and the lock that
would serialise it is not taken. Every commit is two statements (the episode,
then the run row) with a kill possible between them. The loop keeps `best`,
`budget` and `step_idx` incrementally while `rehydrate` recomputes them. Model
calls are four loops inside one another (repair, fallback, retry, pace), and
their replies are cached under a hash of a prompt which itself is a lossy
rendering of the history. A constraint is judged three times by three pieces of
code (simulator, goal, TPE sampler), and a report is made of a table that other
commands are still writing.

**What makes each part correct.** The loop and the repository: one sequential
history per run, whatever crashes and races. The harness: what it skips is
finished, what is unfinished it finishes. Guard and strategies: the simulator
sees only legal points, repeats are known as such, the sampler is told what the
simulator found. Scoring: the reported curve, best and reason agree with the
stored history. The router: the caller gets a validated value with its true
cost or an error that explains itself. The cache: the evidence behind every
episode survives and nothing is asked twice in vain. The documents: a number in
them stands for the runs it claims to stand for.

## The modules

```
                 RunRecord (abstract)
                  ▲            ▲
                  │ implements │
History ──── DurableRun      Trial ──── Guards       Router       ModelCalls
   │                                                 RunLock      Experiment
   └──── Scoring
```

`X_proofs` extends `X` with its theorems, `Induction` has the facts about
numbers, finite sets and recursion they share, `MCX` extends `X` with the
constants' values of its runs and nothing else.

**`History`** is the pure core: what a stored history says (`Used`,
`RecomputeBest`, `NextIdx`, `Rehydrate`, after `loop.py:90-169`), the five checks
at the head of `run_loop` in their order (`StopReason`) and one turn of its body
(`NextEpisodes`: `Guarded`, `Outcome`, `MakeEpisode`). A history is a function
from indices to episodes, so a gap is representable; an episode is its
candidate, its result (or `ToolError`), its simulated time and its `improved`
flag. `RecomputeBest` is written declaratively, which the proofs need; `Scoring`
has the code's left-to-right replay, and `BestIsOne` proves that they agree.

**`RunRecord`** is the promise: one log, extended by one graded episode at a
time, as long as the loop's checks allow it.

**`DurableRun`** puts processes around the core. Its variables are the `runs`
row, the `episodes` table, and for each worker a program counter, its `RunState`
(`local`), the episode between simulator and commit (`pending`) and the reason
of its loop. `EnterCell`, `EnsureLoad`, `EnsureMissing`, `Create` are
`execute_cell` and `ensure_run` with their separate round trips; `Resume` is
`command_resume`; `Stop`, `Propose`, `Append`, `Conflict`, `SaveProgress`,
`SaveFinal` are the steps of `run_loop` between two database statements; `Crash`
is a kill, the fault injection of `crash_at`, or an exception the loop does not
catch. It implements `RunRecord` with `log <- episodes`.

**`Guards`** is the parameter space and what `guards.py` does to a proposal
before the simulator sees it: `Acceptable` (what `validate` refuses), `Clean`
(what it converts and clamps), `Nudges` (where `perturb` may end up). Numbers are
counted in halves: an integer is told from a fraction, and the half-way points
of `round` exist.

**`Trial`** is one trial after another with everything spelled out that
`History` and `DurableRun` take as constants. Its variables are the run's
`strategy`, its `goal` and its `history`. `UseDefaultGoal` and `ParseGoal` give
the run its goal; then a turn of the loop is `RecordFailure` (a `ProviderError`),
`RecordRejection` (the guard refuses), `Evaluate` (a new point) or `Perturb` (a
repeated one). `Proposed` is what each strategy may return: the grid's next
point (`PointsPerAxis`, `Axis`, the odometer `PointAt`), any point for random
search, any point of its distributions for TPE as long as it can replay the
history, any reply for the planner. `Simulate` measures and judges;
`ConstraintValue` is what TPE is told of it. It too implements `RunRecord`, with
the strategies, the guard and the simulator in place of `History`'s constants:
what is shown of `DurableRun` for any proposer is about these.

**`Scoring`** grows histories one graded episode at a time, with gaps, and
compares what the report computes of them with the loop's own account:
`Replay`, `Curve`, `Padded`, `ToThreshold`, the detectors `Stuck` and `Crowded`
and their `Verdict`.

**`Experiment`** is a matrix over many runs. `runs` is the table, by cell (a
run's identifier is a function of the cell, `CellOf`); `matrix` and `position`
are the one command that executes: `Issue`, `Skip`, `Create`, `Progress`,
`Finish`, `Conflict`, `Return`, `Interrupt`. A run is reduced to its status and
its regret; how it gets there is `DurableRun`. Below the actions stand the
documents made of the table: the report's groups, the sweep's points with their
medians, `Crossover`.

**`Router`** is one process's requests. `stage`, `round`, `who` and `attempt`
are the positions in the four loops; `failures`, `calls` and `outcome` are the
code's own accounts, `answers` and `served` record what really happened, so that
the accounts can be compared with it. `elapsed` is `monotonic() -
_last_call_at`, `since` the same for the whole process: they part when
`NewRouter` starts the next cell. One action is one provider call with what the
code does about its answer: `Parsed`, `Repair`, `OutputError`, `Retry`,
`GiveUp`, `Refused`; `Skip` passes over an unregistered name.

**`ModelCalls`** is how a strategy gets its proposals. `Key` says what of the
history the rendered prompt depends on; `Hit`, `HitUnreadable`, `Miss`,
`Answer`, `Fail`, `Record` are `CachingRouter.complete`; `Propose` and
`Exhausted` the end of `propose()`; `Commit` the episode with
`strategy.last_cost`. `paid`, `hit` and `asked` record what happened. The router
below is reduced to what `Router` establishes: a reply after at most
`MaxRepairs` rejected ones (`CostIsHonest`), or a failure after at most
`MaxRepairs + 1` completions (`OutputErrorIsTheModels`).

**`RunLock`** is `services/locks.py` as its documentation uses it, `with
RunLock(client, run_id): run_loop(...)`. One lock object is one block with its
`pc` and `held`; `wire` and `reply` are the network, over which Redis' `SET NX
EX` and the two scripts (`Granted`, `Lifetime`) are reached; `left` is the key's
remaining life. `age` is the time since the block *sent* the last request that
was granted, which is what it can itself know of its lease. The program takes
the lock nowhere, so nothing is composed with it: `DurableRun` shows what holds
without it, `RunLock` what it would add.

## The runs

Every run is exhaustive within its bounds. For each property there is a
plausible bug of the code (an operator kept beside the definition it replaces
and called `Mutant` in its comment) under which TLC finds the property violated
by the same run.

| run | instance | shows |
|---|---|---|
| `DurableConcurrent` | 2 workers, 1 kill, 4 evaluations, 1 rejection, time limit 2, target, detector window 2; any proposal at any step; fair | `TypeOK`, `HistoryIsPrefix`, `LocalIsRecomputed`, `BudgetNeverOverspent`, `SnapshotIsOfAPrefix`, `DoneIsFinal`, `ImplementsRunRecord`, `LoopTerminates` |
| `DurableSingle` | 1 worker at a time, 3 kills, 3 evaluations, 2 rejections, a plan of 3, target, detector; any answer at any step; fair | `SkippedMeansFinished`, `ReasonIsDerivable`, `EventuallyDone` |
| `Trial` | one parameter of each kind, 2 constraints (one strict), the default goal and 3 readings of a text (2 refused), all strategies, 9 raw replies, 4 evaluations, 2 rejections | `TypeOK`, `OnlyLegalPoints`, `RepeatsAreMarked`, `SamplerAgrees`, `GridIsWalkedOnce`, `ImplementsRecord` |
| `ScoringAll` | all histories with indices below 5, 5 kinds of point, gaps | `IncumbentsAgree`, `ThresholdIsStable`, `RejectionsDoNotStagnate` |
| `Sweeps` | 2 strategies at 3 budgets, one experiment issued again with a second seed, regrets 0 and 1, interrupts anywhere, one contested run | `SweepPointsAreWholeRuns`, `CrossingIsFirstLeadChange`, `MatrixIsComplete` |
| `Requests` | 2 requests, 2 routers, a chain of six names in 3 registrations, 3 attempts, 1 repair, a hint beyond the cap; fair | `TypeOK`, `FallbackIsLastResort`, `FailuresExplain`, `CostIsHonest`, `WaitIsBounded`, `CallsArePaced`, `RequestsReturn` |
| `Replays` | 2 process starts killed at will, planner or single-shot, a plan of up to 3, one good, one bad and one NaN proposal, no repair, one rejection shown | `TypeOK`, `EvidenceSurvives`, `AskedOnce`, `PlanServedInOrder`, `LockInIsForGood` |
| `Lease` | 2 blocks, real or null locks, a TTL of 3, kills, stalls, lost, late and re-sent requests; time is fair | `TypeOK`, `OneFreshHolder`, `LossIsForGood`, `OnlyTheOwner`, `CrashedFrees` |

and four that TLC must find violated, described in the next section:
`RivalWorkers`, `ReplayLockIn`, `StaleCost`, `PooledBudgets`.

What the code says of an exactly resumed run is `ImplementsRunRecord` with
`DoneIsFinal`: what a killed, raced and resumed run leaves in the table is a
behaviour of one uninterrupted loop, run to where that loop stops. If the
strategy is a function of the history, there is only one such behaviour.

**Why these bounds.** Two workers are enough for every pair of conflicting
statements (a third can only lose the same race); the properties with one worker
are the ones two workers break. Three kills cover a kill in the original run, in
the resumed one and in the second resume. Three or four evaluations with a
window of two and one or two rejections let every exit of the loop be the first
to fire, and let the incumbent be replaced twice (infeasible, poor, good). In
`Trial` the integer parameter's bounds are fractional at one end, the half-way
value exists on the integer axis, some raw values lie outside the bounds, two
points repeat after being clamped, and the strict constraint is met at its
threshold. Three budgets are the fewest with a lead that changes twice; the
second seed makes one point of the sweep uneven; 0 and 1 make ties and leads.
Three attempts distinguish first, middle and last; the chain has an unregistered
name, the preferred name repeated, a name without a model and a usable fallback;
hint, cap and interval are ordered hint > cap > interval so that each clamp
matters. Showing one rejection instead of three makes a repeated prompt
reachable after two rejections instead of four. Two blocks are a stale holder
and the one that replaces it; a TTL of 3 leaves room for a grant heard late but
still fresh.

**Fairness.** `DurableRun`: a started process takes its next step
(`WF(Proceed)`), because nothing in it waits without a timeout; and the operator
re-runs the command (`WF(EnterCell)`), as the harness expects ("re-running a
finished matrix costs nothing", `harness.py:210`). `Resume` is not fair and
kills are bounded: `EventuallyDone` does not hold for an operator who kills
every process forever. `Router`: a request in progress proceeds, since the HTTP
clients have timeouts; nobody is obliged to make another request. `RunLock`:
time passes; no request, reply or block is obliged to get anywhere. The other
modules claim no liveness. Deadlock is checked in `Experiment`, where a command
can always be issued again; everywhere else a finished run and an idle router do
stop (`CHECK_DEADLOCK FALSE`).

## What the code does not do

Each of these is a run whose property quotes the code's own words.

* **`RivalWorkers`** (`SkippedMeansFinished`). The worker that loses the race
  for an episode stops with ERROR and saves FAILED over the row the winner is
  still advancing. The harness takes FAILED for finished ("Run one cell to
  completion, or skip it if it already finished", `harness.py:193`); kill the
  winner and the cell is skipped from then on.
* **`ReplayLockIn`** (`HitMeansSameHistory`). The prompt shows the last three
  rejections. Once those repeat while nothing is evaluated, the prompt is
  byte-identical although the history has grown ("because history has not
  changed, or because a run was resumed", `replay.py:24`); the cache replays the
  rejected reply, it is rejected again, and so on. `LockInIsForGood`, in
  `Replays`, is the sequel: unless a call fails on the way, the run can only end
  on REJECTIONS. It takes as many rejections as fill the window with what it
  showed before: the same refused proposal four times between two evaluations is
  enough.
* **`StaleCost`** (`FailuresAppearOnlyAsErrors`). "These raise before a
  CostRecord exists, so they appear only as the episode's error"
  (`metrics.py:218`), but `last_cost` is only set when the call succeeded: a
  failed call is stored with the cost of the one before it, and the report
  counts it among the model calls as well as among the schema failures.
* **`PooledBudgets`** (`CellsShareABudget`). "A 200-evaluation experiment and a
  400-evaluation one never collide ... their runs must not be pooled"
  (`harness.py:30`). Their run identifiers never collide; the report groups by
  strategy and simulator alone and averages both.

Smaller departures, which the properties state as they are:

* `derive_termination` answers SUCCESS for any DONE run with a target and a
  feasible best, and has no answer for a run a detector stopped. `ReasonIsDerivable`
  says exactly when the derived reason is not the loop's: then the loop stopped
  on a detector or for lack of proposals, and the answer is one of these two.
* A failed first call uses up index 0 of a single-shot plan, whose first
  proposal is then never tried (`PlanServedInOrder` says which one is).
* `perturb` may leave a number at a bound where it was, so that a repeat can
  survive it; `RepeatsAreMarked` is what is left.
* At the very threshold of a strict constraint TPE is told "satisfied" and the
  simulator says it is not (`SamplerAgrees`, `Edge`).
* TPE truncates fractional integer bounds toward zero, which widens a range such as
  [0.5, 2]; the guard's clamp brings the suggestion back (`OnlyLegalPoints`).
* The grid exceeds the budget when its categorical product does
  (`GridIsWalkedOnce` has this as its condition).
* `find_crossover` is not symmetric when medians tie, and its "from `upper` on" is
  only true up to the next change of the lead. It takes a tie at the upper end
  for a lead of the strategy named second and skips one at the lower end, so a
  change of the lead across a tie may be seen in one order of the names only:
  for certain in the one that names the earlier leader first
  (`CrossingIsFirstLeadChange`).
* A run that lost a race counts as complete in the sweep; `expected_n` is the
  largest number of seeds, not the usual one; the report's headline also counts
  unfinished runs.

## The proofs

`tlapm` checks every leaf of `Induction` and of the seven `_proofs` modules.
Every safety invariant, action property and refinement that a passing run checks
is a theorem; what is left to TLC alone is liveness. Nothing is assumed but the
named assumptions on constants, which TLC evaluates in every run of the module,
and two hypotheses that stand in the theorems which need them (`AxesTellApart`,
`BudgetsTellApart`, below): `LimitsAssumption`, `SentinelAssumption`,
`WorldAssumption` (`History`), `MaxCrashesAssumption` (`DurableRun`),
`SpaceAssumption` (`Guards`; it includes that integer bounds contain an integer,
which the code does not check), `BenchmarkAssumption`, `OrderAssumption`,
`BudgetAssumption`, `TrialSentinels`, `ParsedAssumption`, `ResultAssumption`
(`Trial`), `ExperimentAssumption`, `RouterAssumption`, `ModelCallsAssumption`,
`LockAssumption`, `ScoringAssumption`.

**`Induction`**. The library's induction and recursion theorems take an operator
as a parameter, which the installed provers cannot instantiate. Stated over a
*set* of numbers or of sets instead, induction is a fact of first-order logic:
`LeastNumber` is the library's well-foundedness of the naturals, `SetInduction`,
`BoundedInduction` and `Along` (numbers), `FiniteInduction` and `FiniteDescent`
(finite sets) follow from it. Recursion likewise: `Recursion`, `SetRecursion`
and `Solution` say that a *step function*, a value like any other, has its
recursive function, which makes the `CHOOSE` in a recursive definition the
function it describes. On these rest `GreatestElement` (`Max` and `Min` of a
finite set of integers) and `Ranks` (how many members lie below tells them apart).
So folds, sums, replays, products and k-th elements are proved about
for every input, as functions; no `RECURSIVE` operator is used.

**`DurableRun_proofs`**: for any number of workers, kills and evaluations, any
simulator, proposer, target and window,

* `TypeCorrect`, `PrefixesOnly` (`HistoryIsPrefix`), `LiveEqualsRehydrated`
  (`LocalIsRecomputed`), `GradesAreHonest` (`ImprovedIsHonest`, which no run
  repeats), `BudgetHolds` (`BudgetNeverOverspent`), `SnapshotsAreHistorical`
  (`SnapshotIsOfAPrefix`), `DoneIsComplete` (`DoneIsFinal`),
  `ReasonsAreDerivable` (`ReasonIsDerivable`),
* `SoloCellsAreFinished`: with a single worker, `Spec => []SkippedMeansFinished`,
* `Linearizable`: `Spec => ImplementsRunRecord`.

Before them are lemmas about the pure core: cardinalities of growing histories,
what `Rehydrate` of an extended contiguous history is (`best` by the grade,
`budget` by the kind of result, `step_idx + 1`), prefixes.

The inductive invariant joins to `TypeOK`: `Built`, the table is one that
`RunRecord` could have built (contiguous, each episode among the `NextEpisodes`
of the prefix before it, no earlier prefix terminal); `WorkerOK`, each worker's
history is a prefix and its state is recomputed from it, its pending episode is
one of the next ones, and a worker about to commit was not stopped by a check;
`SnapshotIsOfAPrefix`; and `DoneIsFinal`. None of the listed properties is
inductive alone. `BudgetNeverOverspent`, for instance, needs that the worker
whose insert succeeds has the *whole* table as its history (that is what
`ON CONFLICT DO NOTHING` on `(run_id, idx)` gives when histories are prefixes),
so that the check it made at the head of the loop was about the table. The
refinement follows from the same fact: `Append` is a step of `RunRecord`, every
other action leaves `episodes` alone. `SoloInv` adds, for one worker, that its
memory *is* the table, hence that it never meets a conflict.

**`Trial_proofs`**: for any space, benchmark, readings of a goal and replies of
a model, `SimulatorSeesLegalPoints` (`OnlyLegalPoints`), `RepeatsMarked`
(`RepeatsAreMarked`), `SamplerIsToldTheTruth` (`SamplerAgrees`),
`TrialsAreTyped` (`TypeOK`) and `TrialsAreRuns` (`Spec => ImplementsRecord`).
Below them are lemmas about the guard: what `Validated` and `Nudges` return is a
point. The invariant says that the record has no gap, that every evaluation is
the simulator's at a point, and that the goal is one the code can build, chosen
before the first episode.

`GridWalkedOnce` (`GridIsWalkedOnce`) is about the odometer. `Products` are the
strides; dividing by the product of the axes so far and taking the remainder by
the next axis (`DividingTwice`) gives a digit of its own for each axis, and equal
digits make equal indices (`Odometer`). `EvenlySpaced` and `AxisIs` say that an
axis has as many values as it was sized for, ascending and legal, so that two
indices have different points (`PointsDiffer`); `GridFits` that the
numeric axes keep the product within the budget when the categorical one leaves
room. The invariant is `WalkedSoFar`: episode `i` is the grid's `i`-th point, as
proposed. The theorem has the hypothesis `AxesTellApart`,
without which it is false and which `ParamSpec` does not enforce: no
choice is listed twice, and a float range is at least `PointsPerAxis - 1`
units of the model wide, i.e. the rounding of `axis_values` does not
make two of its points one. `MCTrial`'s space satisfies it.

**`Experiment_proofs`**: `MatricesComplete` (`MatrixIsComplete`), from
`BehindIsFinished`: the cells before the harness's position are finished, and
stay so because no step writes to a finished run. `RunsTyped` says which rows can
be in the table, those of the issued experiments' own cells. From it follow

* `SweepPointsWhole` (`SweepPointsAreWholeRuns`): the members of a point are
  finished runs at the point's budget, one per seed, and equally many for both
  strategies unless the warning is printed. Its hypothesis is `BudgetsTellApart`:
  no two experiments of different names share a strategy, a simulator and a
  budget. That is up to the person who issues them; `gather_sweep` would count
  such seeds twice. The run's experiments satisfy it, those of
  `PooledBudgets` differ in budget;
* `CrossingsAreLeadChanges` (`CrossingIsFirstLeadChange`): for any budgets, regrets
  and floor, and with no medians tied, the reported crossing is the first change
  of the lead, whichever strategy is named first, and none is reported where
  the lead does not change; with ties, the winner below leads at the lower end
  and not at the upper (`ACrossing`), and no change is lost on whoever names the
  earlier leader first (`NoChangeIsLost`).

**`Router_proofs`**: for any chain, registry, policy, hints and answers,

* `TypeCorrect`, `LastResort` (`FallbackIsLastResort`), `FailuresAreComplete`
  (`FailuresExplain`), `CostsAreHonest` (`CostIsHonest`), `OutputErrors`
  (`OutputErrorIsTheModels`, on which `ModelCalls` relies), `Paced`
  (`CallsArePaced`), `WaitsAreBounded` (`WaitIsBounded`).

The invariant adds `Walking` (inside a walk the current provider has only failed
transiently, `attempt - 1` times, and `failures` explains the positions passed),
`Repairing` (a request in round `r` has exactly `r` completions, all rejected)
and `OneClock` (from its first call on, the router's clock is the process's).
`Explains` is stated over plain lists and answers so that its growth by one
failure is a lemma of its own, `ExplainsGrows`. The bound on waiting has an
invariant of its own on top, `WaitInv`: what has been waited is at most the
walks behind, the turns of this walk and the retries of this turn (`SoFar`); each
provider that was tried is a usable one, so a walk has no more turns than there
are usable providers.

**`ModelCalls_proofs`**: for any number of processes and starts, any model and
any window of shown rejections, `TypeCorrect`, `EvidenceIsKept`
(`EvidenceSurvives`), `OneAnswerPerStart` (`AskedOnce`) and `PlansAreServed`
(`PlanServedInOrder`), `HitsLockIn` (`LockInIsForGood`). Every process that may
still be answered a question was started for it, on top of those that have been
answered (`EveryAskWasStarted`). A stored reply and a process about to store one
each account for an answer of their own (`AnswersAddUp`): so, if a question was
answered once, nobody is left to store anything else, and who goes on with a
reply goes on with the stored one (`HeldIsStored`). What came from the cache is
the stored reply whoever else asked: a process that asks has not been answered
by the cache (`AskersMissed`), and no stored reply is ever replaced.
`AskedOnce` counts validated replies: completions that never validate are not
recorded and are asked for again. Each worker's history is a
prefix of the table (`LocalIsPrefix`), which makes the position it takes from
the reply the right one: `Evidence` and `RunsOutAtTheEnd` follow.

`HitsLockIn` is the sequel of `ReplayLockIn` in general: for a single process and
a planner whose calls do not fail, one answer from the cache means rejections to
the end. Its invariant is `LockIn`: a stored reply is behind an episode that was
proposed under the same prompt, or about to be (`RepliesAreGiven`), so a hit repeats
an earlier episode's proposal (`HitsAreGiven`). That episode was rejected, because
the prompt shows every evaluation and has not changed since, and the same
rejections with the same one added make the prompt that followed then
(`HitRepeats`), which is stored too (`Locked`, `ReplaysOnly`). What the
window shows is the last `ShownRejections` of a fold over the history;
`RejectionsAppend` and `RecentAppend` say how it moves.

**`Scoring_proofs`**: for any points, results, gaps, budget, threshold, window and
coordinates,

* `BestIsOne` (`IncumbentsAgree`): the replay, the declarative incumbent, the
  `improved` flags and the report's curve name one best result. The invariant
  `Graded` says of each of the four what it is after `n` episodes; one more
  episode changes all four in the same way (`ReplayExtend`, `LeaderExtend`,
  `CurveExtend`, joined by `KeptIsEarned`: `better_than` and
  `best_feasible_curve` make the same choice, and differ on infeasible results
  only in what they report);
* `ThresholdStands` (`ThresholdIsStable`): a longer history's curve has the shorter
  one's entries (`CurveExtend`), its padding repeats the last of them
  (`PaddedIs`), and an entry never gets worse (`RegretFalls`), so the first one at
  or below the threshold is where it was (`FirstHit`);
* `DetectorsCountEvaluations` (`RejectionsDoNotStagnate`): a failed proposal is in no
  detector's window (`FailureUnseen`); what leaves the window cannot end
  a stagnation, what enters can, and only by an improvement (`StuckUntilImproved`)
  or by its distance from a recent result (`CrowdedUntilFar`, over the
  symmetry of `Apart`).

**`RunLock_proofs`**: for any number of blocks and any TTL, `LockTypes`
(`TypeOK`), `LeaseIsExclusive` (`OneFreshHolder`), `LossIsFinal`
(`LossIsForGood`) and `OwnersOnly` (`OnlyTheOwner`). The invariant is `Leases`: a
fresh block owns the key, and the key's remaining life and the block's `age` add
up to the TTL at least; the same holds of a grant still travelling. `Requests`
says which late requests can exist: an acquire only of a block that has not
heard or is over, a release only of one on its way out. `Refusals` is
`LossIsForGood` for an answer still travelling.

What the lease does not give: `held` alone. It stays TRUE in a block that
stalled beyond the TTL until its next `renew`, the source never calls `renew`,
and a wait of `WaitIsBounded`'s size (five delays of up to 60 s per provider and
round) exceeds the 120 s. A block with a `NullLock` excludes nobody. In all
these cases what remains is `DurableRun`'s safety.

**Model-checked only.** All liveness (`EventuallyDone`, `LoopTerminates`,
`RequestsReturn`, `CrashedFrees`): it needs fairness and `ENABLED`, which the
prover does not reach. And the four violations, which are counterexamples.

## Abstractions

* *Time.* An episode's simulated time is 0 or 1 units, the router's clock counts
  up to the interval and no further, and full jitter is its two ends.
* *Money.* `cost_eur` is 0.0 on every path of the code and is left out; the
  number of calls is kept.
* *Goals.* A parsed goal brings its own metric and constraints (`Goals`); its
  direction and target are the run's constants `Direction` and `Target`, which
  `Scoring` also takes for the benchmark's. The two directions can differ for a
  parsed goal only, and no command makes one. Nothing checked relates a goal's
  direction to the benchmark's.
* *The grid's size.* `points_per_axis` rounds a float root down and steps up while
  the larger grid fits; `PointsPerAxis` is the largest that fits, the same number
  as long as the root does not overshoot.
* *Points.* In the modules over `History`, a handful, one per kind of outcome; in
  `Guards` and `Trial`, values counted in halves, over which the tolerance of
  1e-9 in `is_duplicate` is equality. A Gaussian step may reach any value in the bounds.
* *Replies.* A reply validates or does not; in `ModelCalls` a rejected proposal
  is one the guard refuses, whatever the reason. Proposals are sets of answers
  per step, so an LLM-like proposer is "anything".
* *Prompts.* A run's history only grows, so the number of evaluations stands for
  everything a prompt shows about them, and the shown rejections for themselves.
  The message of a failed call is taken to be the same each time.
* *Runs of a matrix.* In `Experiment` a run is its status and the regret of its
  best feasible result, and one process executes at a time except for the runs
  of `Contested`, which may meet another writer.
* *Database.* Each statement that commits is one step; the two SELECTs of
  `load_run` are one, since `derive_termination` uses only the row and
  `rehydrate` only the episodes. Transactions are atomic and durable.
* *Redis.* One key; a command is atomic and its expiry exact, on the clock the
  blocks' ages are measured by. The client may re-send a command whose
  connection broke (redis-py 8, the version `uv.lock` pins, does by default);
  a copy is re-sent only once the one before it was executed or is lost for
  good. A lock object is used for one block.
* *Processes.* A kill may come before and after every such step. `sil-agent run`
  makes a fresh identifier, so for it only the creating path exists.
* *Bounds.* `MaxCrashes`, `MaxStarts`, `MaxRequests`, `MaxRouters`, `MaxIdx` and
  `Contested` are not in the code; they make the state spaces finite and are named so.
  An experiment of `Issued` is begun once those before it are finished. In
  `Proposals` and `Uninterrupted`, `Limit` bounds the steps by the allowances.

## What is not modelled

HTTP adapters, migrations, rendering, plotting and argument parsing are input
and output. Means, percentiles, bootstrap intervals, the significance row of the
sweep and its interpolated estimate are floating-point arithmetic without state,
as are the simulators' formulas with their shifts and rotations, and Optuna's
estimator: which point a seeded generator picks is left open. `CachingRouter`'s
`offline=True` and `delete_run` are reachable from tests only.

Some things the code leaves open are outside the properties too. A router's
clock starts at zero in every cell, so the first calls of two cells are not
paced (`CallsArePaced` is per router). Integer bounds that contain no integer
make the clamp leave them; no benchmark declares any. Nothing holds what a block
waits below its lease: `OneFreshHolder` only says that a holder past it is no
longer fresh, and `WaitIsBounded`'s bound is larger than the lease. And a reply
with a NaN is lost for replay: `EvidenceSurvives` says that it never gives a
proposal from the cache, not that the run goes on as if it did. No command parses a goal
or passes a detector to the loop yet: `ParseGoal` and `Window > 0` are the
library's paths.

## Plan

1. **Composition.** `ModelCalls` has rivals, kills and both tables but neither
   budget row nor derived reason, `DurableRun` has these but any proposal: one
   module with the `runs` row beside `llm_calls` would show what a run that
   resumes into a replayed prompt ends as, and what `StaleCost` does to the
   compliance rate of a whole report.
2. **Lock around the loop.** `RunLock` with `DurableRun`, should the program ever
   take the lock: `SkippedMeansFinished` for many workers under
   `OneFreshHolder`.
