----------------------------- MODULE Experiment -----------------------------
(***************************************************************************)
(* An ablation matrix over many runs, and the two documents made of it:    *)
(* the report of one experiment and the sweep over several.  A run is seen *)
(* as the harness and the documents see it, by its status and the regret   *)
(* of its best feasible result; DurableRun says how it gets there.         *)
(***************************************************************************)
EXTENDS Integers, Sequences, FiniteSets, FiniteSetsExt, Functions, SequencesExt

CONSTANTS
  Issued,        \* the ExperimentSpecs the operator issues, each again and again
  Regrets,       \* what a run may score
  LogFloor,      \* LOG_FLOOR: regrets below are as good as it
  First, Second, \* the strategies a sweep compares
  Contested,     \* bound: the runs another process works on as well
  NoMatrix, NoValue, None

ASSUME ExperimentAssumption ==
  /\ \A spec \in Range(Issued) :
       /\ DOMAIN spec = {"name", "strategies", "simulators", "seeds", "budget"}
       /\ spec.strategies \in Seq(Range(spec.strategies))
       /\ spec.simulators \in Seq(Range(spec.simulators))
       /\ spec.seeds \in Nat /\ spec.budget \in Nat \ {0}
  /\ Regrets \subseteq Nat /\ LogFloor \in Nat /\ NoValue \notin Nat
  /\ None \notin Int
  /\ None \notin [below : {First, Second}, above : {First, Second}, lower : Int, upper : Int]

VARIABLES
  runs,     \* the runs table, by cell: the run_id is a function of the cell
  matrix,   \* the spec the one harness process executes
  position  \* the cell it is at

vars == <<runs, matrix, position>>

-----------------------------------------------------------------------------
\* Cell: what a run_id is derived from.
CellOf(spec, strategy, simulator, seed) ==
  [experiment |-> spec.name, strategy |-> strategy, simulator |-> simulator, seed |-> seed,
   budget |-> spec.budget]

Total(spec) == Len(spec.strategies) * Len(spec.simulators) * spec.seeds

\* ExperimentSpec.cells: strategy-major, then simulator, then seed.
CellAt(spec, i) ==
  LET perStrategy == Len(spec.simulators) * spec.seeds
  IN  CellOf(spec, spec.strategies[1 + ((i - 1) \div perStrategy)],
             spec.simulators[1 + (((i - 1) % perStrategy) \div spec.seeds)],
             1 + ((i - 1) % spec.seeds))

\* derive_termination is not None: also a run that lost a race is finished.
Finished(c) == c \in DOMAIN runs /\ runs[c].status \in {"DONE", "FAILED"}

Put(c, run) == [d \in DOMAIN runs \cup {c} |-> IF d = c THEN run ELSE runs[d]]

-----------------------------------------------------------------------------
Init == runs = [c \in {} |-> None] /\ matrix = NoMatrix /\ position = 0

\* command_ablate: no progress is remembered between commands. Bound: an
\* experiment is begun once those named before it are finished.
Issue(i) ==
  /\ matrix = NoMatrix
  /\ \A j \in 1 .. i - 1 : \A k \in 1 .. Total(Issued[j]) : Finished(CellAt(Issued[j], k))
  /\ matrix' = Issued[i] /\ position' = 1 /\ UNCHANGED runs

Executing == matrix # NoMatrix /\ position <= Total(matrix)
Here == CellAt(matrix, position)

\* Mutant: whatever exists is skipped.
SkipExisting ==
  /\ Executing /\ Here \in DOMAIN runs
  /\ position' = position + 1 /\ UNCHANGED <<runs, matrix>>

\* execute_cell, already complete.
Skip ==
  /\ Executing /\ Finished(Here)
  /\ position' = position + 1 /\ UNCHANGED <<runs, matrix>>

\* ensure_run, for a cell never seen.
Create ==
  /\ Executing /\ Here \notin DOMAIN runs
  /\ runs' = Put(Here, [status |-> "PENDING", regret |-> NoValue])
  /\ UNCHANGED <<matrix, position>>

Running == Executing /\ Here \in DOMAIN runs /\ ~Finished(Here)

\* run_loop's episodes, as far as they bring a better feasible result.
Progress ==
  /\ Running
  /\ \E r \in Regrets :
       /\ runs[Here].regret \in {NoValue} \cup {q \in Regrets : r < q}
       /\ runs' = Put(Here, [status |-> "EXECUTING", regret |-> r])
  /\ UNCHANGED <<matrix, position>>

Close(status) ==
  /\ Running
  /\ runs' = Put(Here, [status |-> status, regret |-> runs[Here].regret])
  /\ position' = position + 1 /\ UNCHANGED matrix

\* run_loop returned for a reason of its own, or because of another writer.
Finish == Close("DONE")
Conflict == Close("FAILED") /\ Here \in Contested

\* execute returns.
Return ==
  /\ matrix # NoMatrix /\ position > Total(matrix)
  /\ matrix' = NoMatrix /\ position' = 0 /\ UNCHANGED runs

\* Ctrl-C, a kill, an exception out of a cell.
Interrupt ==
  Executing /\ matrix' = NoMatrix /\ position' = 0 /\ UNCHANGED runs

Next ==
  \/ \E i \in DOMAIN Issued : Issue(i)
  \/ Skip \/ Create \/ Progress \/ Finish \/ Conflict \/ Return \/ Interrupt

Spec == Init /\ [][Next]_vars

-----------------------------------------------------------------------------
\* gather: every run of an experiment, finished or not.
Gathered(experiment) == {c \in DOMAIN runs : c.experiment = experiment}

\* cells_by_strategy_and_simulator: the report's groups.
ReportCells(experiment) ==
  {{d \in Gathered(experiment) : d.strategy = c.strategy /\ d.simulator = c.simulator} :
     c \in Gathered(experiment)}

\* summarise_cell's values: the seeds that have a regret.
Values(cells) == {c \in cells : runs[c].regret # NoValue}

\* The k-th value in order: the least that k of the seeds do not exceed.
Ranked(cells, k) ==
  Min({v \in {runs[c].regret : c \in Values(cells)} :
         Cardinality({c \in Values(cells) : runs[c].regret <= v}) >= k})

\* Twice the median, so that it stays whole; None without a value.
Median(cells) ==
  LET n == Cardinality(Values(cells))
  IN  IF n = 0 THEN None
      ELSE Ranked(cells, (n + 1) \div 2) + Ranked(cells, (n \div 2) + 1)

Experiments == {spec.name : spec \in Range(Issued)}

\* Mutant: unfinished runs count.
PointCellsUnfinished(strategy, simulator, budget) ==
  {c \in UNION {Gathered(e) : e \in Experiments} :
     c.strategy = strategy /\ c.simulator = simulator /\ c.budget = budget}

\* gather_sweep over all experiments: complete runs, by the budget they had.
PointCells(strategy, simulator, budget) ==
  {c \in UNION {Gathered(e) : e \in Experiments} :
     /\ c.strategy = strategy /\ c.simulator = simulator /\ c.budget = budget
     /\ Finished(c)}

Keys == {<<c.strategy, c.simulator, c.budget>> : c \in {d \in DOMAIN runs : Finished(d)}}

Simulators == {k[2] : k \in Keys}
BudgetsOf(strategy, simulator) == {k[3] : k \in {l \in Keys : l[1] = strategy /\ l[2] = simulator}}

\* swept_strategies, expected_n, uneven_cells.
Swept(simulator) == {s \in {k[1] : k \in Keys} : Cardinality(BudgetsOf(s, simulator)) > 1}
SweptKeys(simulator) == {k \in Keys : k[2] = simulator /\ k[1] \in Swept(simulator)}
Seeds(k) == Cardinality(PointCells(k[1], k[2], k[3]))
Uneven(simulator) ==
  {k \in SweptKeys(simulator) : Seeds(k) < Max({Seeds(l) : l \in SweptKeys(simulator)})}

\* curve_for: the budgets with a median.
Measured(strategy, simulator) ==
  {b \in BudgetsOf(strategy, simulator) : Median(PointCells(strategy, simulator, b)) # None}

\* The sign of find_crossover's gap: positive when the first is worse.
Gap(first, second, simulator, budget) ==
  LET Score(s) == Max({2 * LogFloor, Median(PointCells(s, simulator, budget))})
  IN  Score(first) - Score(second)

Common(first, second, simulator) == Measured(first, simulator) \cap Measured(second, simulator)

Neighbours(budgets) ==
  {p \in budgets \X budgets : p[1] < p[2] /\ ~\E b \in budgets : p[1] < b /\ b < p[2]}

\* Mutant: a tie is skipped at either end.
SwapsBetweenLeads(first, second, simulator) ==
  LET G(b) == Gap(first, second, simulator, b)
  IN  {p \in Neighbours(Common(first, second, simulator)) :
         G(p[1]) # 0 /\ G(p[2]) # 0 /\ ~(G(p[1]) < 0 <=> G(p[2]) < 0)}

\* The intervals find_crossover would report: the leader at one end, by gap's
\* sign, is not the leader at the other.
Swaps(first, second, simulator) ==
  LET G(b) == Gap(first, second, simulator, b)
  IN  {p \in Neighbours(Common(first, second, simulator)) :
         G(p[1]) # 0 /\ ~(G(p[1]) < 0 <=> G(p[2]) < 0)}

CrossingAt(first, second, simulator, p) ==
  [below |-> IF Gap(first, second, simulator, p[1]) > 0 THEN second ELSE first,
   above |-> IF Gap(first, second, simulator, p[1]) > 0 THEN first ELSE second,
   lower |-> p[1], upper |-> p[2]]

\* find_crossover: the first of them.
Crossover(first, second, simulator) ==
  LET swaps == Swaps(first, second, simulator) IN
  IF swaps = {} THEN None
  ELSE CrossingAt(first, second, simulator, CHOOSE p \in swaps : \A q \in swaps : p[1] <= q[1])

-----------------------------------------------------------------------------
\* When the harness comes to the end of a matrix every cell of it is finished,
\* whatever was skipped, interrupted and issued again before; and no command
\* ever touches a run that is finished (execute, execute_cell).
MatrixIsComplete ==
  [][/\ Return => \A i \in 1 .. Total(matrix) : Finished(CellAt(matrix, i))
     /\ \A c \in DOMAIN runs : c \in DOMAIN runs' /\ (Finished(c) => runs'[c] = runs[c])]_vars

\* The documents are made of the table alone, between two commands as well as
\* during one: every table a command passes through is also left by an
\* interrupt, so that it is enough to read it then.
AtRest == matrix = NoMatrix

\* A point of a sweep stands for finished runs at that very budget, one per
\* seed; and without a warning about unequal seeds all points of the swept
\* strategies stand for equally many (gather_sweep, uneven_cells). The
\* operator sees to it that experiments that share a strategy, a simulator and
\* a budget share the name.
SweepPointsAreWholeRuns ==
  AtRest => \A k \in Keys :
    LET cells == PointCells(k[1], k[2], k[3]) IN
    /\ \A c \in cells : runs[c].status \in {"DONE", "FAILED"} /\ c.budget = k[3]
    /\ \A c, d \in cells : c.seed = d.seed => c = d
    /\ Uneven(k[2]) = {} => \A l \in SweptKeys(k[2]) : k \in SweptKeys(k[2]) => Seeds(l) = Seeds(k)

\* As long as the medians of the two strategies never tie, a crossing is
\* reported exactly when the lead changes, does not depend on which strategy
\* is named first, and the winner below really leads at every budget up to
\* it. With ties (find_crossover takes one at the upper end for a lead of the
\* second and skips one at the lower end) the winner below has lost the lead
\* at the upper end, and no change of the lead is lost on whoever names the
\* earlier leader first.
CrossingIsFirstLeadChange ==
  AtRest => \A sim \in Simulators :
    LET budgets  == Common(First, Second, sim)
        crossing == Crossover(First, Second, sim)
        Lead(s, b) == IF s = First THEN Gap(First, Second, sim, b) < 0
                                   ELSE Gap(First, Second, sim, b) > 0
    IN  /\ crossing # None =>
             Lead(crossing.below, crossing.lower) /\ ~Lead(crossing.below, crossing.upper)
        /\ \A a, b \in budgets : a < b =>
             /\ Lead(First, a) /\ Lead(Second, b) => crossing # None
             /\ Lead(Second, a) /\ Lead(First, b) => Crossover(Second, First, sim) # None
        /\ (\A b \in budgets : Gap(First, Second, sim, b) # 0) =>
             /\ crossing = Crossover(Second, First, sim)
             /\ crossing = None <=> \A a, b \in budgets : Lead(First, a) <=> Lead(First, b)
             /\ crossing # None =>
                  /\ Lead(crossing.above, crossing.upper)
                  /\ \A b \in budgets : b <= crossing.lower => Lead(crossing.below, b)

\* The report never averages runs of different budgets: the run_id depends on
\* the budget so that "their runs must not be pooled" (harness.py).
CellsShareABudget ==
  \A e \in Experiments : \A cells \in ReportCells(e) : \A c, d \in cells : c.budget = d.budget
=============================================================================
