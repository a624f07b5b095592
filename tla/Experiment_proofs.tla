-------------------------- MODULE Experiment_proofs --------------------------
(***************************************************************************)
(* A matrix that ran to its end is complete, and a finished run is never   *)
(* touched again: for any experiments, any seeds and budgets, and whatever *)
(* was interrupted, skipped or lost to another process on the way.         *)
(***************************************************************************)
EXTENDS Experiment, Induction

\* The harness leaves no unfinished cell behind it.
BehindIsFinished ==
  matrix # NoMatrix =>
    /\ position \in Nat /\ matrix \in Range(Issued)
    /\ \A i \in 1 .. position - 1 : Finished(CellAt(matrix, i))

\* What no step may do to the table.
FinishedStays ==
  \A c \in DOMAIN runs : c \in DOMAIN runs' /\ (Finished(c) => runs'[c] = runs[c])

-----------------------------------------------------------------------------
\* The number of cells is a number.
LEMMA TotalType == ASSUME NEW spec \in Range(Issued) PROVE Total(spec) \in Nat
<1>1. /\ spec.strategies \in Seq(Range(spec.strategies))
      /\ spec.simulators \in Seq(Range(spec.simulators))
      /\ spec.seeds \in Nat
  BY ExperimentAssumption
<1>2. Len(spec.strategies) \in Nat /\ Len(spec.simulators) \in Nat
  BY <1>1
<1>3. ASSUME NEW a \in Nat, NEW b \in Nat, NEW c \in Nat PROVE a * b * c \in Nat
  <2>1. a * b \in Nat
    OBVIOUS
  <2>. QED  BY <2>1
<1>. QED  BY <1>1, <1>2, <1>3 DEF Total

\* Writing a run that was not finished leaves the finished ones alone.
LEMMA PutElsewhere ==
  ASSUME NEW c, NEW run, ~Finished(c), runs' = Put(c, run)
  PROVE  /\ FinishedStays
         /\ c \in DOMAIN runs' /\ runs'[c] = run
BY DEF FinishedStays, Put

\* Every step keeps the finished runs as they are (save_run only ever follows
\* ensure_run or run_loop, which execute_cell does not call for them).
LEMMA StepsKeepFinished == [Next]_vars => FinishedStays
<1>. SUFFICES ASSUME [Next]_vars PROVE FinishedStays
  OBVIOUS
<1>1. CASE UNCHANGED runs
  BY <1>1 DEF FinishedStays
<1>2. ASSUME Create PROVE FinishedStays
  BY <1>2, PutElsewhere DEF Create, Finished
<1>3. ASSUME Progress PROVE FinishedStays
  BY <1>3, PutElsewhere DEF Progress, Running
<1>4. ASSUME NEW status, Close(status) PROVE FinishedStays
  BY <1>4, PutElsewhere DEF Close, Running
<1>. QED
  BY <1>1, <1>2, <1>3, <1>4
     DEF Next, vars, Issue, Skip, Finish, Conflict, Return, Interrupt

\* c will be finished after the step.
StaysFinished(c) == c \in DOMAIN runs' /\ runs'[c].status \in {"DONE", "FAILED"}

\* So a cell that counts as finished goes on to count as finished.
LEMMA FinishedPersists ==
  ASSUME FinishedStays, NEW c, Finished(c) PROVE StaysFinished(c)
BY DEF FinishedStays, Finished, StaysFinished

\* Enough for the cells behind the next position.
LEMMA NextBehind ==
  ASSUME matrix' # NoMatrix =>
           /\ position' \in Nat /\ matrix' \in Range(Issued)
           /\ \A i \in 1 .. position' - 1 : StaysFinished(CellAt(matrix', i))
  PROVE  BehindIsFinished'
BY DEF BehindIsFinished, StaysFinished, Finished

\* The matrix moves past a cell only by finding it finished or finishing it.
LEMMA PositionMoves ==
  ASSUME BehindIsFinished, [Next]_vars PROVE BehindIsFinished'
<1>1. FinishedStays
  BY StepsKeepFinished
<1>2. ASSUME position' = position + 1, matrix' = matrix, matrix # NoMatrix,
             StaysFinished(CellAt(matrix, position))
      PROVE  BehindIsFinished'
  <2>1. position \in Nat /\ matrix \in Range(Issued)
    BY <1>2 DEF BehindIsFinished
  <2>2. ASSUME NEW i \in 1 .. position' - 1 PROVE StaysFinished(CellAt(matrix, i))
    <3>1. CASE i = position
      BY <3>1, <1>2
    <3>2. CASE i # position
      <4>1. i \in 1 .. position - 1
        BY <3>2, <2>1, <1>2
      <4>2. Finished(CellAt(matrix, i))
        BY <4>1, <1>2 DEF BehindIsFinished
      <4>. QED  BY <4>2, <1>1, FinishedPersists
    <3>. QED  BY <3>1, <3>2
  <2>. QED  BY <2>1, <2>2, <1>2, NextBehind
<1>3. ASSUME UNCHANGED <<matrix, position>> PROVE BehindIsFinished'
  <2>1. ASSUME matrix # NoMatrix, NEW i \in 1 .. position - 1
        PROVE  StaysFinished(CellAt(matrix, i))
    BY <2>1, <1>1, FinishedPersists DEF BehindIsFinished
  <2>. QED  BY <2>1, <1>3, NextBehind DEF BehindIsFinished
<1>4. ASSUME NEW i \in DOMAIN Issued, Issue(i) PROVE BehindIsFinished'
  <2>1. matrix' \in Range(Issued) /\ position' = 1
    BY <1>4 DEF Issue, Range
  <2>. QED  BY <2>1, NextBehind
<1>5. CASE Skip
  <2>1. StaysFinished(CellAt(matrix, position))
    BY <1>5, <1>1, FinishedPersists DEF Skip, Here
  <2>. QED  BY <2>1, <1>2, <1>5 DEF Skip, Executing
<1>6. ASSUME NEW status \in {"DONE", "FAILED"}, Close(status) PROVE BehindIsFinished'
  <2>1. /\ matrix' = matrix /\ position' = position + 1 /\ matrix # NoMatrix
        /\ Here \in DOMAIN runs' /\ runs'[Here] = [status |-> status, regret |-> runs[Here].regret]
    BY <1>6, PutElsewhere DEF Close, Running, Executing
  <2>2. runs'[Here].status = status
    BY <2>1
  <2>3. StaysFinished(CellAt(matrix, position))
    BY <2>1, <2>2 DEF StaysFinished, Here
  <2>. QED  BY <2>1, <2>3, <1>2
<1>7. CASE Return \/ Interrupt
  BY <1>7 DEF Return, Interrupt, BehindIsFinished
<1>. QED
  BY <1>3, <1>4, <1>5, <1>6, <1>7 DEF Next, vars, Create, Progress, Finish, Conflict

LEMMA Invariance == Spec => []BehindIsFinished
<1>1. Init => BehindIsFinished
  BY DEF Init, BehindIsFinished
<1>2. BehindIsFinished /\ [Next]_vars => BehindIsFinished'
  BY PositionMoves
<1>. QED  BY <1>1, <1>2, PTL DEF Spec

\* When the harness comes to the end of a matrix every cell of it is finished,
\* and no command touches a run that is finished: for any matrices.
THEOREM MatricesComplete == Spec => MatrixIsComplete
<1>1. BehindIsFinished /\ [Next]_vars =>
        [/\ Return => \A i \in 1 .. Total(matrix) : Finished(CellAt(matrix, i))
         /\ FinishedStays]_vars
  <2>. SUFFICES ASSUME BehindIsFinished, [Next]_vars
                PROVE  /\ Return => \A i \in 1 .. Total(matrix) : Finished(CellAt(matrix, i))
                       /\ FinishedStays
    OBVIOUS
  <2>1. ASSUME Return PROVE \A i \in 1 .. Total(matrix) : Finished(CellAt(matrix, i))
    BY <2>1, TotalType DEF Return, BehindIsFinished
  <2>. QED  BY <2>1, StepsKeepFinished
<1>. QED  BY <1>1, Invariance, PTL DEF Spec, MatrixIsComplete, FinishedStays

-----------------------------------------------------------------------------
\* A cell of a matrix is made of what its spec lists.
LEMMA CellParts ==
  ASSUME NEW spec \in Range(Issued), NEW i \in 1 .. Total(spec)
  PROVE  \E s \in Range(spec.strategies), m \in Range(spec.simulators), n \in Int :
           CellAt(spec, i) = CellOf(spec, s, m, n)
<1> DEFINE a == Len(spec.strategies)
           b == Len(spec.simulators)
           c == spec.seeds
<1>1. a \in Nat /\ b \in Nat /\ c \in Nat
  BY ExperimentAssumption
<1>2. i \in 1 .. a * b * c
  BY DEF Total
<1>3. b * c \in Nat /\ a * (b * c) = a * b * c
  <2>. HIDE DEF a, b, c
  <2>. QED  BY <1>1
<1>4. ASSUME NEW m \in Nat, NEW n \in Nat, NEW k \in 0 .. m * n - 1
      PROVE  n > 0 /\ k \div n \in 0 .. m - 1 /\ k % n \in 0 .. n - 1
  <2>1. n > 0
    <3>1. CASE n = 0
      <4>1. m * n = 0
        BY <3>1
      <4>. QED  BY <4>1
    <3>. QED  BY <3>1
  <2>2. k \in Nat /\ k < m * n /\ m * n \in Nat
    OBVIOUS
  <2>3. /\ k = n * (k \div n) + (k % n)
        /\ k % n \in 0 .. n - 1 /\ k \div n \in Int
    BY <2>1, <2>2
  <2>4. ASSUME NEW q \in Int, NEW r \in 0 .. n - 1, k = n * q + r PROVE q \in 0 .. m - 1
    <3>1. ~(q < 0)
      <4>1. ASSUME q < 0 PROVE n * q <= -n
        BY <4>1, <2>1
      <4>. QED  BY <4>1, <2>4, <2>2
    <3>2. ~(q >= m)
      <4>1. ASSUME q >= m PROVE n * q >= n * m
        BY <4>1, <2>1
      <4>. QED  BY <4>1, <2>4, <2>2
    <3>. QED  BY <3>1, <3>2
  <2>. QED  BY <2>1, <2>3, <2>4
<1>5. /\ b * c > 0 /\ (i - 1) \div (b * c) \in 0 .. a - 1
      /\ (i - 1) % (b * c) \in 0 .. b * c - 1
  <2>. HIDE DEF a, b, c
  <2>1. i - 1 \in 0 .. a * (b * c) - 1
    BY <1>1, <1>2, <1>3
  <2>. QED  BY <2>1, <1>1, <1>3, <1>4
<1>6. ((i - 1) % (b * c)) \div c \in 0 .. b - 1
  <2>. HIDE DEF a, b, c
  <2>. QED  BY <1>5, <1>1, <1>4
<1>7. (i - 1) % c \in Int
  <2>. HIDE DEF a, b, c
  <2>1. c > 0
    BY <1>5, <1>1, <1>4
  <2>. QED  BY <2>1, <1>1
<1> DEFINE si == 1 + ((i - 1) \div (b * c))
           mi == 1 + (((i - 1) % (b * c)) \div c)
<1>8. spec.strategies[si] \in Range(spec.strategies) /\ spec.simulators[mi] \in Range(spec.simulators)
  <2>1. si \in 1 .. a /\ mi \in 1 .. b
    <3>. HIDE DEF a, b, c
    <3>. QED  BY <1>5, <1>6, <1>1
  <2>2. DOMAIN spec.strategies = 1 .. a /\ DOMAIN spec.simulators = 1 .. b
    BY ExperimentAssumption
  <2>. QED  BY <2>1, <2>2 DEF Range
<1>. QED  BY <1>7, <1>8 DEF CellAt

\* What a row of the table is: a cell of an experiment, and a score or none.
IsCell(c) ==
  \E spec \in Range(Issued) :
    \E s \in Range(spec.strategies), m \in Range(spec.simulators), n \in Int :
      c = CellOf(spec, s, m, n)

RunsTyped ==
  /\ IsFiniteSet(DOMAIN runs)
  /\ \A c \in DOMAIN runs : IsCell(c) /\ runs[c].regret \in {NoValue} \cup Regrets
  /\ matrix # NoMatrix => position >= 1

\* The cell the harness is at is one.
LEMMA HereIsCell == ASSUME BehindIsFinished, RunsTyped, Executing PROVE IsCell(Here)
<1>1. matrix \in Range(Issued) /\ position \in Nat /\ position >= 1 /\ position <= Total(matrix)
  BY DEF BehindIsFinished, RunsTyped, Executing
<1>2. position \in 1 .. Total(matrix)
  BY <1>1, TotalType
<1>. QED  BY <1>1, <1>2, CellParts DEF IsCell, Here

\* Writing a row leaves a table of rows.
LEMMA PutTyped ==
  ASSUME RunsTyped, NEW c, IsCell(c), NEW run, run.regret \in {NoValue} \cup Regrets,
         runs' = Put(c, run), matrix' = matrix,
         matrix # NoMatrix => position' >= 1
  PROVE  RunsTyped'
<1>1. DOMAIN runs' = DOMAIN runs \cup {c}
  BY DEF Put
<1>2. IsFiniteSet(DOMAIN runs')
  BY <1>1, FS_AddElement DEF RunsTyped
<1>3. ASSUME NEW d \in DOMAIN runs' PROVE IsCell(d) /\ runs'[d].regret \in {NoValue} \cup Regrets
  BY <1>1 DEF Put, RunsTyped
<1>. QED  BY <1>2, <1>3 DEF RunsTyped, IsCell

LEMMA TypedStep ==
  ASSUME BehindIsFinished, RunsTyped, [Next]_vars PROVE RunsTyped'
<1>1. ASSUME UNCHANGED runs, matrix' # NoMatrix => position' >= 1 PROVE RunsTyped'
  BY <1>1 DEF RunsTyped, IsCell
<1>2. matrix # NoMatrix => position \in Nat /\ position + 1 >= 1 /\ position >= 1
  BY DEF BehindIsFinished, RunsTyped
<1>3. ASSUME NEW i \in DOMAIN Issued, Issue(i) PROVE RunsTyped'
  BY <1>1, <1>3 DEF Issue
<1>4. CASE Skip
  BY <1>1, <1>2, <1>4 DEF Skip, Executing
<1>5. CASE Create
  BY <1>2, <1>5, PutTyped, HereIsCell DEF Create, Executing
<1>6. CASE Progress
  <2>1. PICK r \in Regrets : runs' = Put(Here, [status |-> "EXECUTING", regret |-> r])
    BY <1>6 DEF Progress
  <2>. QED
    BY <1>2, <1>6, <2>1, PutTyped, HereIsCell DEF Progress, Running, Executing
<1>7. ASSUME NEW status, Close(status) PROVE RunsTyped'
  <2>1. runs[Here].regret \in {NoValue} \cup Regrets
    BY <1>7 DEF Close, Running, RunsTyped
  <2>. QED
    BY <1>2, <1>7, <2>1, PutTyped, HereIsCell DEF Close, Running, Executing
<1>8. CASE Return \/ Interrupt
  BY <1>1, <1>8 DEF Return, Interrupt
<1>9. CASE UNCHANGED vars
  BY <1>1, <1>2, <1>9 DEF vars
<1>. QED
  BY <1>3, <1>4, <1>5, <1>6, <1>7, <1>8, <1>9 DEF Next, Finish, Conflict

LEMMA Typed == Spec => []RunsTyped
<1>1. Init => RunsTyped
  BY FS_EmptySet DEF Init, RunsTyped
<1>2. BehindIsFinished /\ RunsTyped /\ [Next]_vars => RunsTyped'
  BY TypedStep
<1>. QED  BY <1>1, <1>2, Invariance, PTL DEF Spec

-----------------------------------------------------------------------------
\* What the operator of a sweep sees to: two experiments over the same
\* strategy and simulator with the same budget are one experiment, issued
\* again. Otherwise gather_sweep counts their seeds twice.
BudgetsTellApart ==
  \A x, y \in Range(Issued) :
    (/\ x.budget = y.budget
     /\ Range(x.strategies) \cap Range(y.strategies) # {}
     /\ Range(x.simulators) \cap Range(y.simulators) # {}) => x.name = y.name

\* Then a point's cells differ in the seed.
LEMMA SeedsTellApart ==
  ASSUME BudgetsTellApart, NEW c, NEW d, IsCell(c), IsCell(d),
         c.strategy = d.strategy, c.simulator = d.simulator, c.budget = d.budget,
         c.seed = d.seed
  PROVE  c = d
<1>1. PICK x \in Range(Issued) :
        \E s \in Range(x.strategies), m \in Range(x.simulators), n \in Int : c = CellOf(x, s, m, n)
  BY DEF IsCell
<1>2. PICK y \in Range(Issued) :
        \E s \in Range(y.strategies), m \in Range(y.simulators), n \in Int : d = CellOf(y, s, m, n)
  BY DEF IsCell
<1>3. PICK s \in Range(x.strategies), m \in Range(x.simulators), n \in Int : c = CellOf(x, s, m, n)
  BY <1>1
<1>4. PICK t \in Range(y.strategies), l \in Range(y.simulators), k \in Int : d = CellOf(y, t, l, k)
  BY <1>2
<1>5. s = t /\ m = l /\ n = k /\ x.budget = y.budget
  BY <1>3, <1>4 DEF CellOf
<1>6. x.name = y.name
  BY <1>5 DEF BudgetsTellApart
<1>. QED  BY <1>3, <1>4, <1>5, <1>6 DEF CellOf

\* The points are finitely many, of finitely many runs each.
LEMMA PointsAreFinite ==
  ASSUME RunsTyped
  PROVE  /\ IsFiniteSet(Keys)
         /\ \A k \in Keys : Seeds(k) \in Nat
<1> DEFINE done == {d \in DOMAIN runs : Finished(d)}
           f == [c \in done |-> <<c.strategy, c.simulator, c.budget>>]
<1>1. IsFiniteSet(DOMAIN runs)
  BY DEF RunsTyped
<1>2. IsFiniteSet(done)
  BY <1>1, FS_Subset
<1>3. Keys = {f[c] : c \in done}
  BY DEF Keys
<1>4. IsFiniteSet(Keys)
  <2>. HIDE DEF done, f
  <2>. QED  BY <1>2, <1>3, FiniteImage
<1>5. ASSUME NEW k \in Keys PROVE Seeds(k) \in Nat
  <2>1. PointCells(k[1], k[2], k[3]) \subseteq DOMAIN runs
    BY DEF PointCells, Gathered
  <2>. QED  BY <1>1, <2>1, FS_Subset, FS_CardinalityType DEF Seeds
<1>. QED  BY <1>4, <1>5

\* Without a warning no point has fewer seeds than another.
LEMMA EvenPoints ==
  ASSUME RunsTyped, NEW sim, Uneven(sim) = {}, NEW k \in SweptKeys(sim), NEW l \in SweptKeys(sim)
  PROVE  Seeds(l) = Seeds(k)
<1> DEFINE S == {Seeds(j) : j \in SweptKeys(sim)}
           f == [j \in Keys |-> Seeds(j)]
<1>1. SweptKeys(sim) \subseteq Keys
  BY DEF SweptKeys
<1>2. IsFiniteSet(SweptKeys(sim))
  BY <1>1, PointsAreFinite, FS_Subset
<1>3. S = {f[j] : j \in SweptKeys(sim)}
  BY <1>1
<1>4. IsFiniteSet(S)
  <2>. HIDE DEF S, f
  <2>. QED  BY <1>2, <1>3, FiniteImage
<1>5. S \subseteq Int /\ Seeds(k) \in S /\ Seeds(l) \in S
  BY <1>1, PointsAreFinite
<1>6. ASSUME NEW T, T = S PROVE Seeds(k) <= Max(T) /\ Seeds(l) <= Max(T) /\ Max(T) \in Int
  <2>. HIDE DEF S
  <2>. QED  BY <1>4, <1>5, <1>6, GreatestElement
<1>7. ~(Seeds(k) < Max(S)) /\ ~(Seeds(l) < Max(S))
  BY DEF Uneven
<1>8. Seeds(k) \in Int /\ Seeds(l) \in Int
  BY <1>5
<1>. QED
  <2>. HIDE DEF S
  <2>. QED  BY <1>6, <1>7, <1>8

\* Each point of a sweep stands for whole runs at its budget, one per seed, and
\* those of the swept strategies for equally many unless a warning is printed:
\* for any experiments whose budgets tell them apart.
THEOREM SweepPointsWhole ==
  BudgetsTellApart /\ Spec => []SweepPointsAreWholeRuns
<1>1. BudgetsTellApart /\ RunsTyped => SweepPointsAreWholeRuns
  <2>. SUFFICES ASSUME BudgetsTellApart, RunsTyped, NEW k \in Keys
                PROVE  /\ \A c \in PointCells(k[1], k[2], k[3]) :
                            runs[c].status \in {"DONE", "FAILED"} /\ c.budget = k[3]
                       /\ \A c, d \in PointCells(k[1], k[2], k[3]) : c.seed = d.seed => c = d
                       /\ Uneven(k[2]) = {} =>
                            \A l \in SweptKeys(k[2]) : k \in SweptKeys(k[2]) => Seeds(l) = Seeds(k)
    BY DEF SweepPointsAreWholeRuns
  <2>1. ASSUME NEW c \in PointCells(k[1], k[2], k[3])
        PROVE  /\ runs[c].status \in {"DONE", "FAILED"} /\ IsCell(c)
               /\ c.strategy = k[1] /\ c.simulator = k[2] /\ c.budget = k[3]
    BY DEF PointCells, Finished, RunsTyped
  <2>2. ASSUME NEW c \in PointCells(k[1], k[2], k[3]), NEW d \in PointCells(k[1], k[2], k[3]),
               c.seed = d.seed
        PROVE  c = d
    <3>1. /\ IsCell(c) /\ c.strategy = k[1] /\ c.simulator = k[2] /\ c.budget = k[3]
          /\ IsCell(d) /\ d.strategy = k[1] /\ d.simulator = k[2] /\ d.budget = k[3]
      BY <2>1
    <3>. QED  BY <2>2, <3>1, SeedsTellApart
  <2>. QED  BY <2>1, <2>2, EvenPoints
<1>2. BudgetsTellApart => BudgetsTellApart'
  BY DEF BudgetsTellApart
<1>. QED  BY <1>1, <1>2, Typed, PTL

-----------------------------------------------------------------------------
\* Between a budget in L and a later one outside there are neighbours, one in
\* L and the next outside.
LEMMA NeighboursDiffer ==
  ASSUME NEW B, B \subseteq Nat, NEW L, NEW a \in B, NEW b \in B, a < b, a \in L, b \notin L
  PROVE  \E p \in Neighbours(B) : a <= p[1] /\ p[2] <= b /\ p[1] \in L /\ p[2] \notin L
<1> DEFINE Turned == {x \in B : a < x /\ x <= b /\ x \notin L}
<1>. a \in Nat /\ b \in Nat
  OBVIOUS
<1>0. Turned \subseteq Nat /\ b \in Turned
  <2>1. \A x \in Turned : x \in Nat
    OBVIOUS
  <2>2. b \in Turned
    OBVIOUS
  <2>. QED  BY <2>1, <2>2
<1>1. PICK c \in Turned : \A x \in Turned : c <= x
  <2>. HIDE DEF Turned
  <2>. QED  BY <1>0, LeastNumber
<1> DEFINE Below == {x \in B : a <= x /\ x < c}
<1>2. Below \subseteq 0 .. c /\ c \in Nat /\ a \in Below
  <2>1. c \in Nat /\ a < c
    BY <1>0, <1>1
  <2>2. \A x \in Below : x \in Nat /\ x \in 0 .. c
    BY <2>1
  <2>3. a \in Below
    BY <2>1
  <2>. QED  BY <2>1, <2>2, <2>3
<1>3. IsFiniteSet(Below) /\ Below \subseteq Int /\ Below # {}
  <2>1. IsFiniteSet(0 .. c)
    BY <1>2, FS_Interval
  <2>. QED  BY <1>2, <2>1, FS_Subset
<1>4. PICK d \in Below : \A x \in Below : x <= d
  BY <1>3, GreatestElement
<1>5. d \in L
  <2>1. d \notin Turned
    BY <1>1, <1>2
  <2>. QED  BY <2>1, <1>1
<1>6. <<d, c>> \in Neighbours(B)
  <2>1. d \in B /\ c \in B /\ d < c
    BY <1>1
  <2>2. ASSUME NEW x \in B, d < x, x < c PROVE FALSE
    <3>1. x \in Below
      BY <2>2, <2>1
    <3>. QED  BY <3>1, <1>4, <2>2, <2>1
  <2>. QED  BY <2>1, <2>2 DEF Neighbours
<1> DEFINE p == <<d, c>>
<1>7. p[1] = d /\ p[2] = c /\ a <= d /\ c <= b /\ d \in L /\ c \notin L
  BY <1>1, <1>5
<1>. QED  BY <1>6, <1>7

\* The middle of the scores of a point's runs is a score.
LEMMA RankedType ==
  ASSUME NEW cells, IsFiniteSet(cells), \A c \in cells : runs[c].regret \in {NoValue} \cup Regrets,
         NEW k \in 1 .. Cardinality(Values(cells))
  PROVE  Ranked(cells, k) \in Nat
<1> DEFINE scored == Values(cells)
           f == [c \in scored |-> runs[c].regret]
           S == {f[c] : c \in scored}
           T == {v \in S : Cardinality({c \in scored : runs[c].regret <= v}) >= k}
<1>1. IsFiniteSet(scored)
  BY FS_Subset DEF Values
<1>2. \A c \in scored : runs[c].regret \in Nat
  BY ExperimentAssumption DEF Values
<1>3. IsFiniteSet(S)
  <2>. HIDE DEF scored, f
  <2>. QED  BY <1>1, FiniteImage
<1>4. S \subseteq Nat
  BY <1>2
<1>5. S # {}
  <2>1. scored # {}
    BY FS_EmptySet
  <2>. QED  BY <2>1
<1>6. PICK v \in S : \A u \in S : u <= v
  <2>. HIDE DEF S
  <2>1. S \subseteq Int
    BY <1>4
  <2>. QED  BY <1>3, <1>5, <2>1, GreatestElement
<1>7. v \in T
  <2>1. {c \in scored : runs[c].regret <= v} = scored
    BY <1>6
  <2>2. Cardinality(scored) >= k
    BY <1>1, FS_CardinalityType
  <2>. QED  BY <1>6, <2>1, <2>2
<1>8. IsFiniteSet(T) /\ T \subseteq Int /\ T # {}
  <2>1. T \subseteq S
    OBVIOUS
  <2>. HIDE DEF S, T
  <2>2. IsFiniteSet(T)
    BY <1>3, <2>1, FS_Subset
  <2>. QED  BY <1>4, <1>7, <2>1, <2>2
<1>9. Min(T) \in T
  <2>. HIDE DEF T
  <2>. QED  BY <1>8, GreatestElement
<1>10. T = {u \in {runs[c].regret : c \in scored} :
              Cardinality({c \in scored : runs[c].regret <= u}) >= k}
  OBVIOUS
<1>. QED  BY <1>9, <1>10, <1>4 DEF Ranked

LEMMA MedianType ==
  ASSUME RunsTyped, NEW s, NEW sim, NEW b,
         Median(PointCells(s, sim, b)) # None
  PROVE  Median(PointCells(s, sim, b)) \in Nat
<1> DEFINE cells == PointCells(s, sim, b)
           n == Cardinality(Values(cells))
<1>1. cells \subseteq DOMAIN runs
  BY DEF PointCells, Gathered
<1>2. IsFiniteSet(cells) /\ \A c \in cells : runs[c].regret \in {NoValue} \cup Regrets
  BY <1>1, FS_Subset DEF RunsTyped
<1>3. n \in Nat
  <2>. HIDE DEF cells
  <2>. QED  BY <1>2, FS_Subset, FS_CardinalityType DEF Values
<1>4. n # 0
  BY DEF Median
<1>5. (n + 1) \div 2 \in 1 .. n /\ (n \div 2) + 1 \in 1 .. n
  <2>. HIDE DEF n
  <2>. QED  BY <1>3, <1>4
<1>6. Ranked(cells, (n + 1) \div 2) \in Nat /\ Ranked(cells, (n \div 2) + 1) \in Nat
  <2>. HIDE DEF cells
  <2>. QED  BY <1>2, <1>5, RankedType
<1>. QED  BY <1>4, <1>6 DEF Median

\* What the two curves are compared by: a median, but never less than the floor.
Floored(s, sim, b) == Max({2 * LogFloor, Median(PointCells(s, sim, b))})

LEMMA GapIsDifference ==
  ASSUME NEW s, NEW t, NEW sim, NEW b
  PROVE  Gap(s, t, sim, b) = Floored(s, sim, b) - Floored(t, sim, b)
BY DEF Gap, Floored

LEMMA FlooredType ==
  ASSUME RunsTyped, NEW s, NEW sim, NEW b \in Measured(s, sim)
  PROVE  Floored(s, sim, b) \in Nat
<1> DEFINE m == Median(PointCells(s, sim, b))
           S == {2 * LogFloor, m}
<1>1. m \in Nat
  BY MedianType DEF Measured
<1>2. 2 * LogFloor \in Nat
  BY ExperimentAssumption
<1>3. IsFiniteSet({2 * LogFloor}) /\ IsFiniteSet(S)
  <2>. HIDE DEF m
  <2>1. IsFiniteSet({2 * LogFloor})
    BY FS_Singleton
  <2>2. IsFiniteSet({2 * LogFloor} \cup {m})
    BY <2>1, FS_AddElement
  <2>3. S = {2 * LogFloor} \cup {m}
    OBVIOUS
  <2>. QED  BY <2>1, <2>2, <2>3
<1>4. S \subseteq Int /\ S # {}
  BY <1>1, <1>2
<1>5. Max(S) \in S
  <2>. HIDE DEF S
  <2>. QED  BY <1>3, <1>4, GreatestElement
<1>. QED  BY <1>1, <1>2, <1>5 DEF Floored

\* The budgets at which two curves can be compared, and the gap there; which of
\* the two comes first does not matter.
LEMMA CommonBudgets ==
  ASSUME RunsTyped, NEW s, NEW t, NEW sim
  PROVE  /\ Common(s, t, sim) \subseteq Nat
         /\ \A b \in Common(s, t, sim) :
              /\ Gap(s, t, sim, b) \in Int
              /\ Gap(t, s, sim, b) = -Gap(s, t, sim, b)
         /\ Common(t, s, sim) = Common(s, t, sim)
<1>1. ASSUME NEW b \in Common(s, t, sim) PROVE b \in Nat
  <2>1. PICK k \in Keys : b = k[3]
    BY DEF Common, Measured, BudgetsOf
  <2>2. PICK c \in DOMAIN runs : k = <<c.strategy, c.simulator, c.budget>>
    BY DEF Keys
  <2>3. PICK x \in Range(Issued) :
          \E i \in Range(x.strategies), m \in Range(x.simulators), n \in Int : c = CellOf(x, i, m, n)
    BY DEF RunsTyped, IsCell
  <2>4. c.budget = x.budget
    BY <2>3 DEF CellOf
  <2>5. x.budget \in Nat
    BY ExperimentAssumption
  <2>. QED  BY <2>1, <2>2, <2>4, <2>5
<1>2. ASSUME NEW b \in Common(s, t, sim)
      PROVE  Gap(s, t, sim, b) \in Int /\ Gap(t, s, sim, b) = -Gap(s, t, sim, b)
  <2>1. Floored(s, sim, b) \in Nat /\ Floored(t, sim, b) \in Nat
    BY FlooredType DEF Common
  <2>. QED  BY <2>1, GapIsDifference
<1>3. Common(t, s, sim) = Common(s, t, sim)
  BY DEF Common
<1>. QED  BY <1>1, <1>2, <1>3

LEMMA SwapParts ==
  ASSUME RunsTyped, NEW s, NEW t, NEW sim, NEW p \in Swaps(s, t, sim)
  PROVE  /\ p[1] \in Common(s, t, sim) /\ p[2] \in Common(s, t, sim) /\ p[1] < p[2]
         /\ Gap(s, t, sim, p[1]) \in Int /\ Gap(s, t, sim, p[2]) \in Int
         /\ Gap(s, t, sim, p[1]) # 0
         /\ Gap(s, t, sim, p[1]) < 0 => ~(Gap(s, t, sim, p[2]) < 0)
         /\ ~(Gap(s, t, sim, p[1]) < 0) => Gap(s, t, sim, p[2]) < 0
<1>1. p \in Neighbours(Common(s, t, sim))
  BY DEF Swaps
<1>2. p[1] \in Common(s, t, sim) /\ p[2] \in Common(s, t, sim) /\ p[1] < p[2]
  BY <1>1 DEF Neighbours
<1>3. Gap(s, t, sim, p[1]) # 0 /\ ~(Gap(s, t, sim, p[1]) < 0 <=> Gap(s, t, sim, p[2]) < 0)
  BY DEF Swaps
<1>. QED  BY <1>2, <1>3, CommonBudgets

\* find_crossover returns the swap at the least budget, if there is any.
LEMMA FirstSwap ==
  ASSUME RunsTyped, NEW s, NEW t, NEW sim, Swaps(s, t, sim) # {}
  PROVE  \E p \in Swaps(s, t, sim) :
           /\ \A q \in Swaps(s, t, sim) : p[1] <= q[1]
           /\ Crossover(s, t, sim) = CrossingAt(s, t, sim, p)
<1> DEFINE swaps == Swaps(s, t, sim)
           S == {p[1] : p \in swaps}
           p0 == CHOOSE p \in swaps : \A q \in swaps : p[1] <= q[1]
<1>1. S \subseteq Nat /\ S # {}
  BY SwapParts, CommonBudgets
<1>2. PICK m \in S : \A k \in S : m <= k
  <2>. HIDE DEF S
  <2>. QED  BY <1>1, LeastNumber
<1>3. \E p \in swaps : \A q \in swaps : p[1] <= q[1]
  BY <1>2
<1>4. p0 \in swaps /\ \A q \in swaps : p0[1] <= q[1]
  <2>. HIDE DEF swaps
  <2>. QED  BY <1>3
<1>5. Crossover(s, t, sim) = CrossingAt(s, t, sim, p0)
  BY DEF Crossover
<1>. QED
  <2>. HIDE DEF p0
  <2>. QED  BY <1>4, <1>5

\* Where the first leads at a budget and no longer at a later one there is a
\* swap in between, a tie among them or not.
LEMMA LeadLost ==
  ASSUME RunsTyped, NEW s, NEW t, NEW sim,
         NEW a \in Common(s, t, sim), NEW b \in Common(s, t, sim), a < b,
         Gap(s, t, sim, a) < 0, ~(Gap(s, t, sim, b) < 0)
  PROVE  \E p \in Swaps(s, t, sim) : a <= p[1] /\ p[2] <= b
<1> DEFINE B == Common(s, t, sim)
           Ahead == {x \in B : Gap(s, t, sim, x) < 0}
<1>1. B \subseteq Nat /\ a \in B /\ b \in B /\ a \in Ahead /\ b \notin Ahead
  BY CommonBudgets
<1>2. PICK p \in Neighbours(B) : a <= p[1] /\ p[2] <= b /\ p[1] \in Ahead /\ p[2] \notin Ahead
  <2>. HIDE DEF B, Ahead
  <2>. QED  BY <1>1, NeighboursDiffer
<1>3. p[1] \in B /\ p[2] \in B
  BY DEF Neighbours
<1>4. Gap(s, t, sim, p[1]) \in Int
  BY <1>3, CommonBudgets
<1>. QED  BY <1>2, <1>3, <1>4 DEF Swaps

\* Without ties, there is one wherever the leader changes.
LEMMA LeadChanges ==
  ASSUME RunsTyped, NEW s, NEW t, NEW sim,
         \A b \in Common(s, t, sim) : Gap(s, t, sim, b) # 0,
         NEW a \in Common(s, t, sim), NEW b \in Common(s, t, sim), a < b,
         \/ Gap(s, t, sim, a) < 0 /\ ~(Gap(s, t, sim, b) < 0)
         \/ ~(Gap(s, t, sim, a) < 0) /\ Gap(s, t, sim, b) < 0
  PROVE  \E p \in Swaps(s, t, sim) : a <= p[1] /\ p[2] <= b
<1> DEFINE B == Common(s, t, sim)
           Behind == {x \in B : ~(Gap(s, t, sim, x) < 0)}
<1>1. B \subseteq Nat /\ a \in B /\ b \in B
  BY CommonBudgets
<1>2. CASE Gap(s, t, sim, a) < 0 /\ ~(Gap(s, t, sim, b) < 0)
  BY <1>2, LeadLost
<1>3. CASE a \in Behind /\ b \notin Behind
  <2>1. PICK p \in Neighbours(B) : a <= p[1] /\ p[2] <= b /\ p[1] \in Behind /\ p[2] \notin Behind
    <3>. HIDE DEF B, Behind
    <3>. QED  BY <1>1, <1>3, NeighboursDiffer
  <2>2. p[1] \in B /\ p[2] \in B
    BY DEF Neighbours
  <2>. QED  BY <2>1, <2>2 DEF Swaps
<1>. QED  BY <1>2, <1>3

\* Without ties, the same intervals are swaps whichever curve comes first.
LEMMA SwapsEitherWay ==
  ASSUME RunsTyped, NEW s, NEW t, NEW sim,
         \A b \in Common(s, t, sim) : Gap(s, t, sim, b) # 0
  PROVE  Swaps(t, s, sim) = Swaps(s, t, sim)
<1> DEFINE B == Common(s, t, sim)
<1>1. \A b \in B : /\ Gap(s, t, sim, b) \in Int /\ Gap(s, t, sim, b) # 0
                   /\ Gap(t, s, sim, b) = -Gap(s, t, sim, b)
  BY CommonBudgets
<1>2. ASSUME NEW p \in Neighbours(B) PROVE p \in Swaps(t, s, sim) <=> p \in Swaps(s, t, sim)
  <2>1. p[1] \in B /\ p[2] \in B
    BY DEF Neighbours
  <2>2. Common(t, s, sim) = B
    BY CommonBudgets
  <2>3. p \in Swaps(t, s, sim) <=>
          Gap(t, s, sim, p[1]) # 0 /\ ~(Gap(t, s, sim, p[1]) < 0 <=> Gap(t, s, sim, p[2]) < 0)
    BY <2>2 DEF Swaps
  <2>4. p \in Swaps(s, t, sim) <=>
          Gap(s, t, sim, p[1]) # 0 /\ ~(Gap(s, t, sim, p[1]) < 0 <=> Gap(s, t, sim, p[2]) < 0)
    BY DEF Swaps
  <2>. QED  BY <1>1, <2>1, <2>3, <2>4
<1>3. Swaps(t, s, sim) \subseteq Neighbours(B) /\ Swaps(s, t, sim) \subseteq Neighbours(B)
  BY CommonBudgets DEF Swaps
<1>. QED  BY <1>2, <1>3

\* So find_crossover's answer does not depend on it either.
LEMMA CrossoverEitherWay ==
  ASSUME RunsTyped, NEW s, NEW t, NEW sim,
         \A b \in Common(s, t, sim) : Gap(s, t, sim, b) # 0
  PROVE  Crossover(s, t, sim) = Crossover(t, s, sim)
<1>1. Swaps(t, s, sim) = Swaps(s, t, sim)
  BY SwapsEitherWay
<1>2. CASE Swaps(s, t, sim) = {}
  BY <1>1, <1>2 DEF Crossover
<1>3. CASE Swaps(s, t, sim) # {}
  <2> DEFINE first(S) == CHOOSE p \in S : \A q \in S : p[1] <= q[1]
             p0 == first(Swaps(s, t, sim))
  <2>1. /\ Crossover(s, t, sim) = CrossingAt(s, t, sim, p0)
        /\ Crossover(t, s, sim) = CrossingAt(t, s, sim, p0)
    BY <1>1, <1>3 DEF Crossover
  <2>2. p0 \in Swaps(s, t, sim)
    <3>1. \E p \in Swaps(s, t, sim) : \A q \in Swaps(s, t, sim) : p[1] <= q[1]
      BY <1>3, FirstSwap
    <3>. QED  BY <3>1
  <2>3. p0[1] \in Common(s, t, sim) /\ Gap(s, t, sim, p0[1]) \in Int
    <3>. HIDE DEF p0
    <3>. QED  BY <2>2, SwapParts
  <2>4. Gap(t, s, sim, p0[1]) = -Gap(s, t, sim, p0[1]) /\ Gap(s, t, sim, p0[1]) # 0
    <3>. HIDE DEF p0
    <3>. QED  BY <2>3, CommonBudgets
  <2>5. CrossingAt(s, t, sim, p0) = CrossingAt(t, s, sim, p0)
    <3>. HIDE DEF p0
    <3>. QED  BY <2>3, <2>4 DEF CrossingAt
  <2>. QED  BY <2>1, <2>5
<1>. QED  BY <1>2, <1>3

\* So find_crossover reports something to whoever names the earlier leader
\* first.
LEMMA NamedInOrder ==
  ASSUME RunsTyped, NEW s \in {First, Second}, NEW t \in {First, Second}, NEW sim,
         NEW a \in Common(s, t, sim), NEW b \in Common(s, t, sim), a < b,
         Gap(s, t, sim, a) < 0, ~(Gap(s, t, sim, b) < 0)
  PROVE  Crossover(s, t, sim) # None
<1>1. Swaps(s, t, sim) # {}
  BY LeadLost
<1>2. PICK p \in Swaps(s, t, sim) : Crossover(s, t, sim) = CrossingAt(s, t, sim, p)
  BY <1>1, FirstSwap
<1>3. p[1] \in Int /\ p[2] \in Int
  BY SwapParts, CommonBudgets
<1>4. Crossover(s, t, sim)
        \in [below : {First, Second}, above : {First, Second}, lower : Int, upper : Int]
  BY <1>2, <1>3 DEF CrossingAt
<1>. QED  BY <1>4, ExperimentAssumption

\* Who leads, as CrossingIsFirstLeadChange puts it.
Leads(s, sim, b) ==
  IF s = First THEN Gap(First, Second, sim, b) < 0 ELSE Gap(First, Second, sim, b) > 0

NoTies(sim) == \A b \in Common(First, Second, sim) : Gap(First, Second, sim, b) # 0

\* No swap, no crossing, and one leader at all budgets.
LEMMA NoCrossing ==
  ASSUME RunsTyped, NEW sim, Swaps(First, Second, sim) = {}
  PROVE  /\ Crossover(First, Second, sim) = None
         /\ NoTies(sim) =>
              \A a, b \in Common(First, Second, sim) : Leads(First, sim, a) <=> Leads(First, sim, b)
<1> DEFINE G(b) == Gap(First, Second, sim, b)
           B == Common(First, Second, sim)
<1>1. ASSUME NoTies(sim), NEW a \in B, NEW b \in B, G(a) < 0, ~(G(b) < 0) PROVE FALSE
  <2>1. a \in Nat /\ b \in Nat
    BY CommonBudgets
  <2>2. CASE a < b
    BY <1>1, <2>2, LeadChanges DEF NoTies
  <2>3. CASE b < a
    BY <1>1, <2>3, LeadChanges DEF NoTies
  <2>4. CASE a = b
    BY <1>1, <2>4
  <2>. QED  BY <2>1, <2>2, <2>3, <2>4
<1>2. ASSUME NoTies(sim), NEW a \in B, NEW b \in B
      PROVE  Leads(First, sim, a) <=> Leads(First, sim, b)
  BY <1>1, <1>2 DEF Leads
<1>. QED  BY <1>2 DEF Crossover

\* The first swap is the crossing, and its winner below leads up to there.
LEMMA ACrossing ==
  ASSUME RunsTyped, NEW sim, Swaps(First, Second, sim) # {},
         NEW crossing, crossing = Crossover(First, Second, sim)
  PROVE  /\ crossing # None
         /\ Leads(crossing.below, sim, crossing.lower)
         /\ ~Leads(crossing.below, sim, crossing.upper)
         /\ NoTies(sim) =>
              /\ Leads(crossing.above, sim, crossing.upper)
              /\ \A b \in Common(First, Second, sim) :
                   b <= crossing.lower => Leads(crossing.below, sim, b)
              /\ \E a, b \in Common(First, Second, sim) :
                   ~(Leads(First, sim, a) <=> Leads(First, sim, b))
<1> DEFINE G(b) == Gap(First, Second, sim, b)
           B == Common(First, Second, sim)
<1>1. PICK p \in Swaps(First, Second, sim) :
        /\ \A q \in Swaps(First, Second, sim) : p[1] <= q[1]
        /\ crossing = CrossingAt(First, Second, sim, p)
  BY FirstSwap
<1>2. /\ p[1] \in B /\ p[2] \in B /\ p[1] < p[2] /\ p[1] \in Nat /\ p[2] \in Nat
      /\ G(p[1]) \in Int /\ G(p[2]) \in Int /\ G(p[1]) # 0
      /\ G(p[1]) < 0 => ~(G(p[2]) < 0)
      /\ ~(G(p[1]) < 0) => G(p[2]) < 0
  BY SwapParts, CommonBudgets
<1>3. First # Second
  <2>1. First = Second => G(p[1]) = -G(p[1])
    BY <1>2, CommonBudgets
  <2>. QED  BY <1>2, <2>1
<1>4. /\ crossing.lower = p[1] /\ crossing.upper = p[2]
      /\ crossing.below = IF G(p[1]) > 0 THEN Second ELSE First
      /\ crossing.above = IF G(p[1]) > 0 THEN First ELSE Second
  BY <1>1 DEF CrossingAt
<1>5. crossing # None
  <2>1. crossing \in [below : {First, Second}, above : {First, Second}, lower : Int, upper : Int]
    BY <1>1, <1>2 DEF CrossingAt
  <2>. QED  BY <2>1, ExperimentAssumption
<1>6. Leads(crossing.below, sim, crossing.lower)
  BY <1>2, <1>3, <1>4 DEF Leads
<1>7. ~Leads(crossing.below, sim, crossing.upper)
  BY <1>2, <1>3, <1>4 DEF Leads
<1>8. ASSUME NoTies(sim) PROVE Leads(crossing.above, sim, crossing.upper)
  <2>1. G(p[2]) # 0
    BY <1>2, <1>8 DEF NoTies
  <2>. QED  BY <1>2, <1>3, <1>4, <2>1 DEF Leads
<1>9. ASSUME NoTies(sim), NEW b \in B, b <= p[1] PROVE Leads(crossing.below, sim, b)
  <2>1. b \in Nat /\ G(b) \in Int /\ G(b) # 0
    BY <1>9, CommonBudgets DEF NoTies
  <2>2. CASE b = p[1]
    BY <2>2, <1>4, <1>6
  <2>3. CASE b < p[1]
    <3>1. ASSUME \/ G(b) < 0 /\ ~(G(p[1]) < 0)
                 \/ ~(G(b) < 0) /\ G(p[1]) < 0
          PROVE  FALSE
      <4>1. PICK q \in Swaps(First, Second, sim) : b <= q[1] /\ q[2] <= p[1]
        BY <1>2, <1>9, <2>3, <3>1, LeadChanges DEF NoTies
      <4>2. q[1] < q[2] /\ q[1] \in Nat /\ q[2] \in Nat
        BY SwapParts, CommonBudgets
      <4>. QED  BY <1>1, <1>2, <4>1, <4>2
    <3>. QED  BY <3>1, <1>2, <1>3, <1>4, <2>1 DEF Leads
  <2>. QED  BY <1>2, <1>9, <2>1, <2>2, <2>3
<1>10. ~(Leads(First, sim, p[1]) <=> Leads(First, sim, p[2]))
  BY <1>2 DEF Leads
<1>. QED  BY <1>2, <1>4, <1>5, <1>6, <1>7, <1>8, <1>9, <1>10

\* With ties, the earlier leader named first sees every change of the lead.
LEMMA NoChangeIsLost ==
  ASSUME RunsTyped, NEW sim, NEW a \in Common(First, Second, sim),
         NEW b \in Common(First, Second, sim), a < b
  PROVE  /\ Leads(First, sim, a) /\ Leads(Second, sim, b) => Crossover(First, Second, sim) # None
         /\ Leads(Second, sim, a) /\ Leads(First, sim, b) => Crossover(Second, First, sim) # None
<1> DEFINE G(x) == Gap(First, Second, sim, x)
           H(x) == Gap(Second, First, sim, x)
<1>1. /\ G(a) \in Int /\ G(b) \in Int /\ H(a) = -G(a) /\ H(b) = -G(b)
      /\ a \in Common(Second, First, sim) /\ b \in Common(Second, First, sim)
  BY CommonBudgets
<1>2. ASSUME First = Second PROVE G(a) = 0 /\ G(b) = 0
  BY <1>1, <1>2
<1>3. ASSUME Leads(First, sim, a), Leads(Second, sim, b)
      PROVE  Crossover(First, Second, sim) # None
  <2>1. G(a) < 0 /\ ~(G(b) < 0)
    BY <1>1, <1>2, <1>3 DEF Leads
  <2>. QED  BY <2>1, NamedInOrder
<1>4. ASSUME Leads(Second, sim, a), Leads(First, sim, b)
      PROVE  Crossover(Second, First, sim) # None
  <2>1. H(a) < 0 /\ ~(H(b) < 0)
    BY <1>1, <1>2, <1>4 DEF Leads
  <2>. QED  BY <1>1, <2>1, NamedInOrder
<1>. QED  BY <1>3, <1>4

\* A crossing is reported exactly when the lead changes, whichever strategy is
\* named first, and its winner below leads up to it: for any experiments, any
\* regrets and any floor, as long as no medians tie; with ties the winner below
\* of a reported crossing leads at its lower end and not at its upper one, and
\* a change of the lead is reported to whoever names the earlier leader first.
THEOREM CrossingsAreLeadChanges == Spec => []CrossingIsFirstLeadChange
<1>1. RunsTyped => CrossingIsFirstLeadChange
  <2>. SUFFICES ASSUME RunsTyped, NEW sim \in Simulators,
                       NEW crossing, crossing = Crossover(First, Second, sim)
                PROVE  /\ crossing # None =>
                            /\ Leads(crossing.below, sim, crossing.lower)
                            /\ ~Leads(crossing.below, sim, crossing.upper)
                       /\ \A a, b \in Common(First, Second, sim) : a < b =>
                            /\ Leads(First, sim, a) /\ Leads(Second, sim, b) => crossing # None
                            /\ Leads(Second, sim, a) /\ Leads(First, sim, b) =>
                                 Crossover(Second, First, sim) # None
                       /\ NoTies(sim) =>
                            /\ crossing = Crossover(Second, First, sim)
                            /\ crossing = None <=>
                                 \A a, b \in Common(First, Second, sim) :
                                   Leads(First, sim, a) <=> Leads(First, sim, b)
                            /\ crossing # None =>
                                 /\ Leads(crossing.above, sim, crossing.upper)
                                 /\ \A b \in Common(First, Second, sim) :
                                      b <= crossing.lower => Leads(crossing.below, sim, b)
    BY Zenon DEF CrossingIsFirstLeadChange, Leads, NoTies
  <2>1. CASE Swaps(First, Second, sim) = {}
    BY <2>1, NoCrossing, CrossoverEitherWay, NoChangeIsLost DEF NoTies
  <2>2. CASE Swaps(First, Second, sim) # {}
    BY <2>2, ACrossing, CrossoverEitherWay, NoChangeIsLost DEF NoTies
  <2>. QED  BY <2>1, <2>2
<1>. QED  BY <1>1, Typed, PTL
=============================================================================
