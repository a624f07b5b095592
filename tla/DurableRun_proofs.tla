------------------------- MODULE DurableRun_proofs -------------------------
(***************************************************************************)
(* For any number of workers and crashes and any limits: the invariants of *)
(* DurableRun, and that its episodes table implements RunRecord. Before    *)
(* them, lemmas about the pure operators of History: how the recomputed    *)
(* best, budget and index of a history change when an episode is added.    *)
(***************************************************************************)
EXTENDS DurableRun, FiniteSetTheorems, TLAPS

HasIncumbent(h) == Evaluated(h) # {} => \E i \in DOMAIN h : IsIncumbent(h, i)

\* Beats is a strict weak order on results, whichever the direction.
LEMMA BeatsOrder ==
  ASSUME NEW r \in Result, NEW s \in Result, NEW t \in Result
  PROVE  /\ ~Beats(r, r)
         /\ Beats(r, s) => ~Beats(s, r)
         /\ Beats(r, s) /\ Beats(s, t) => Beats(r, t)
         /\ ~Beats(r, s) /\ ~Beats(s, t) => ~Beats(r, t)
         /\ Beats(r, s) /\ ~Beats(t, s) => Beats(r, t)
BY LimitsAssumption DEF Beats, Result

\* A domain 0..n-1 has n elements and n is its next index.
LEMMA Interval ==
  ASSUME NEW h, NEW n \in Nat, DOMAIN h = 0 .. n - 1
  PROVE  /\ Size(h) = n
         /\ NextIdx(h) = n
         /\ IsFiniteSet(DOMAIN h)
         /\ Contiguous(h)
<1>1. IsFiniteSet(DOMAIN h) /\ Size(h) = n
  BY FS_Interval, 0 \in Int, n - 1 \in Int DEF Size
<1>2. CASE n = 0
  BY <1>1, <1>2 DEF NextIdx, Contiguous
<1>3. CASE n # 0
  <2>1. PICK m \in 0 .. n - 1 : m = Max(0 .. n - 1) /\ \A y \in 0 .. n - 1 : m >= y
    <3>1. \E x \in 0 .. n - 1 : \A y \in 0 .. n - 1 : x >= y
      <4>1. n - 1 \in 0 .. n - 1 /\ \A y \in 0 .. n - 1 : n - 1 >= y
        BY <1>3
      <4>. QED  BY <4>1
    <3>. QED  BY <3>1, Zenon DEF Max
  <2>2. m = n - 1
    BY <1>3, <2>1
  <2>. QED  BY <1>1, <1>3, <2>1, <2>2 DEF NextIdx, Contiguous
<1>. QED  BY <1>2, <1>3

LEMMA UsedType ==
  ASSUME NEW h, IsFiniteSet(DOMAIN h)
  PROVE  /\ Used(h) \in Budget
         /\ Used(h).evaluations + Used(h).rejections = Size(h)
<1>1. IsFiniteSet(Evaluated(h)) /\ IsFiniteSet(DOMAIN h \ Evaluated(h))
      /\ IsFiniteSet({i \in Evaluated(h) : h[i].wall = 1})
  BY FS_Subset DEF Evaluated
<1>2. Used(h) \in Budget
  BY <1>1, FS_CardinalityType DEF Used, Budget
<1>3. Cardinality(DOMAIN h \ Evaluated(h))
        = Cardinality(DOMAIN h) - Cardinality(DOMAIN h \cap Evaluated(h))
  BY FS_Difference, <1>1
<1>4. DOMAIN h \cap Evaluated(h) = Evaluated(h)
  BY DEF Evaluated
<1>5. Cardinality(Evaluated(h)) \in Nat /\ Cardinality(DOMAIN h) \in Nat
  BY <1>1, FS_CardinalityType
<1>6. /\ Used(h).evaluations = Cardinality(Evaluated(h))
      /\ Used(h).rejections = Cardinality(DOMAIN h \ Evaluated(h))
  BY DEF Used
<1>7. Used(h).rejections = Cardinality(DOMAIN h) - Cardinality(Evaluated(h))
  BY <1>3, <1>4, <1>6
<1>8. \A a, b \in Nat : a + (b - a) = b
  OBVIOUS
<1>. QED  BY <1>2, <1>5, <1>6, <1>7, <1>8 DEF Size

\* A replay has at most one incumbent, so the CHOOSE in RecomputeBest is it.
LEMMA BestIs ==
  ASSUME NEW h, IsHistory(h), NEW i, IsIncumbent(h, i)
  PROVE  RecomputeBest(h) = [episode_idx |-> i, result |-> h[i].result]
<1>1. i \in DOMAIN h /\ Evaluated(h) # {}
  BY DEF IsIncumbent, Evaluated
<1>2. \A k \in Evaluated(h) : k \in Nat /\ h[k].result \in Result
  BY DEF IsHistory, Evaluated, Episode, Outcomes
<1>3. ASSUME NEW k \in DOMAIN h, IsIncumbent(h, k)
      PROVE  k = i
  <2>1. k \in Evaluated(h) /\ i \in Evaluated(h)
    BY <1>3 DEF IsIncumbent
  <2>2. CASE k < i
    <3>1. Beats(h[i].result, h[k].result) /\ ~Beats(h[i].result, h[k].result)
      BY <1>3, <2>1, <2>2, <1>2 DEF IsIncumbent
    <3>. QED  BY <3>1
  <2>3. CASE i < k
    <3>1. Beats(h[k].result, h[i].result) /\ ~Beats(h[k].result, h[i].result)
      BY <1>3, <2>1, <2>3, <1>2 DEF IsIncumbent
    <3>. QED  BY <3>1
  <2>. QED  BY <1>2, <2>1, <2>2, <2>3
<1>4. (CHOOSE k \in DOMAIN h : IsIncumbent(h, k)) = i
  BY <1>1, <1>3
<1>. QED  BY <1>1, <1>4 DEF RecomputeBest

\* Appending one episode, before any derived field is considered.
LEMMA ExtendShape ==
  ASSUME NEW h, NEW n \in Nat, IsHistory(h), DOMAIN h = 0 .. n - 1, NEW e \in Episode
  PROVE  /\ IsHistory(Extend(h, n, e))
         /\ DOMAIN Extend(h, n, e) = 0 .. n
         /\ Extend(h, n, e)[n] = e
         /\ \A k \in DOMAIN h : Extend(h, n, e)[k] = h[k]
         /\ Evaluated(Extend(h, n, e)) =
              IF e.result = ToolError THEN Evaluated(h) ELSE Evaluated(h) \cup {n}
         /\ n \notin DOMAIN h /\ n \notin Evaluated(h)
<1>1. DOMAIN Extend(h, n, e) = 0 .. n
  BY DEF Extend
<1>2. n \notin DOMAIN h /\ n \notin Evaluated(h)
  BY DEF Evaluated
<1>3. Extend(h, n, e)[n] = e /\ \A k \in DOMAIN h : Extend(h, n, e)[k] = h[k]
  BY <1>2 DEF Extend
<1>4. IsHistory(Extend(h, n, e))
  BY <1>1 DEF Extend, IsHistory
<1>5. Evaluated(Extend(h, n, e)) =
        IF e.result = ToolError THEN Evaluated(h) ELSE Evaluated(h) \cup {n}
  BY <1>1, <1>2, <1>3 DEF Evaluated
<1>. QED  BY <1>1, <1>2, <1>3, <1>4, <1>5

\* recompute_budget of a longer history is with_evaluation or with_rejection.
LEMMA UsedExtend ==
  ASSUME NEW h, NEW n \in Nat, IsHistory(h), DOMAIN h = 0 .. n - 1, NEW e \in Episode
  PROVE  Used(Extend(h, n, e)) =
           IF e.result = ToolError
           THEN [Used(h) EXCEPT !.rejections = @ + 1]
           ELSE [Used(h) EXCEPT !.evaluations = @ + 1, !.wall = @ + e.wall]
<1> DEFINE g == Extend(h, n, e)
           slow(x) == {i \in Evaluated(x) : x[i].wall = 1}
<1>1. /\ IsFiniteSet(DOMAIN h) /\ IsFiniteSet(Evaluated(h))
      /\ IsFiniteSet(DOMAIN h \ Evaluated(h)) /\ IsFiniteSet(slow(h))
  BY Interval, FS_Subset DEF Evaluated
<1>2. DOMAIN g = DOMAIN h \cup {n} /\ n \notin DOMAIN h
  BY DEF Extend
<1>3. CASE e.result = ToolError
  <2>1. Evaluated(g) = Evaluated(h)
    BY <1>3, ExtendShape
  <2>2. DOMAIN g \ Evaluated(g) = (DOMAIN h \ Evaluated(h)) \cup {n}
    BY <1>2, <2>1 DEF Evaluated
  <2>3. Cardinality(DOMAIN g \ Evaluated(g)) = Cardinality(DOMAIN h \ Evaluated(h)) + 1
    BY <1>1, <1>2, <2>2, FS_AddElement
  <2>4. slow(g) = slow(h)
    BY <2>1, ExtendShape DEF Evaluated
  <2>. QED  BY <1>3, <2>1, <2>3, <2>4 DEF Used
<1>4. CASE e.result # ToolError
  <2>1. Evaluated(g) = Evaluated(h) \cup {n} /\ n \notin Evaluated(h)
    BY <1>4, ExtendShape
  <2>2. DOMAIN g \ Evaluated(g) = DOMAIN h \ Evaluated(h)
    BY <1>2, <2>1
  <2>3. Cardinality(Evaluated(g)) = Cardinality(Evaluated(h)) + 1
    BY <1>1, <2>1, FS_AddElement
  <2>4. Cardinality(slow(g)) = Cardinality(slow(h)) + e.wall
    <3>1. CASE e.wall = 1
      <4>1. slow(g) = slow(h) \cup {n} /\ n \notin slow(h)
        BY <2>1, <3>1, ExtendShape DEF Evaluated
      <4>. QED  BY <1>1, <3>1, <4>1, FS_AddElement
    <3>2. CASE e.wall = 0
      <4>1. slow(g) = slow(h)
        BY <2>1, <3>2, ExtendShape DEF Evaluated
      <4>2. Cardinality(slow(h)) \in Nat
        BY <1>1, FS_CardinalityType
      <4>3. Cardinality(slow(g)) = Cardinality(slow(h))
        BY <4>1
      <4>. HIDE DEF slow
      <4>. QED  BY <3>2, <4>2, <4>3
    <3>. QED  BY <3>1, <3>2 DEF Episode
  <2>. QED  BY <1>4, <2>2, <2>3, <2>4 DEF Used
<1>. QED  BY <1>3, <1>4

\* recompute_best of a longer history is the loop's update of best.
LEMMA BestExtend ==
  ASSUME NEW h, NEW n \in Nat, IsHistory(h), DOMAIN h = 0 .. n - 1, HasIncumbent(h),
         NEW e \in Episode
  PROVE  /\ HasIncumbent(Extend(h, n, e))
         /\ RecomputeBest(Extend(h, n, e)) =
              IF e.result # ToolError /\ BetterThan(e.result, RecomputeBest(h))
              THEN [episode_idx |-> n, result |-> e.result]
              ELSE RecomputeBest(h)
<1> DEFINE g == Extend(h, n, e)
<1>1. IsHistory(g) /\ DOMAIN g = 0 .. n /\ g[n] = e /\ n \notin Evaluated(h)
      /\ \A k \in DOMAIN h : g[k] = h[k]
  BY ExtendShape
<1>2. \A k \in Evaluated(h) : k \in 0 .. n - 1 /\ k < n /\ g[k] = h[k] /\ h[k].result \in Result
  BY <1>1 DEF IsHistory, Evaluated, Episode, Outcomes
<1>3. CASE e.result = ToolError
  <2>1. Evaluated(g) = Evaluated(h)
    BY <1>3, ExtendShape
  <2>2. CASE Evaluated(h) = {}
    BY <1>3, <2>1, <2>2 DEF RecomputeBest, HasIncumbent
  <2>3. CASE Evaluated(h) # {}
    <3>1. PICK i \in DOMAIN h : IsIncumbent(h, i)
      BY <2>3 DEF HasIncumbent
    <3>2. IsIncumbent(g, i)
      BY <1>2, <2>1, <3>1 DEF IsIncumbent
    <3>3. i \in DOMAIN g /\ g[i] = h[i]
      BY <1>1, <3>1
    <3>4. RecomputeBest(g) = RecomputeBest(h)
      BY <1>1, <3>1, <3>2, <3>3, BestIs
    <3>. QED  BY <1>3, <3>2, <3>3, <3>4 DEF HasIncumbent
  <2>. QED  BY <2>2, <2>3
<1>4. CASE e.result # ToolError
  <2>1. Evaluated(g) = Evaluated(h) \cup {n}
    BY <1>4, ExtendShape
  <2>2. e.result \in Result /\ n \in DOMAIN g
    BY <1>1, <1>4 DEF Episode, Outcomes
  <2>3. CASE Evaluated(h) = {}
    <3>1. IsIncumbent(g, n)
      BY <2>1, <2>3 DEF IsIncumbent
    <3>2. RecomputeBest(g) = [episode_idx |-> n, result |-> e.result]
      BY <1>1, <3>1, BestIs
    <3>3. BetterThan(e.result, RecomputeBest(h))
      BY <2>3 DEF BetterThan, RecomputeBest
    <3>. QED  BY <1>4, <2>2, <3>1, <3>2, <3>3 DEF HasIncumbent
  <2>4. CASE Evaluated(h) # {}
    <3>1. PICK i \in DOMAIN h : IsIncumbent(h, i)
      BY <2>4 DEF HasIncumbent
    <3>2. RecomputeBest(h) = [episode_idx |-> i, result |-> h[i].result]
      BY <3>1, BestIs
    <3>3. i \in Evaluated(h) /\ h[i].result \in Result /\ i \in Nat
      BY <1>2, <3>1 DEF IsIncumbent
    <3>4. BetterThan(e.result, RecomputeBest(h)) <=> Beats(e.result, h[i].result)
      <4>1. RecomputeBest(h) \in Best
        BY <3>2, <3>3 DEF Best
      <4>2. RecomputeBest(h) # NoBest
        BY <4>1, SentinelAssumption
      <4>. QED  BY <3>2, <4>2 DEF BetterThan
    <3>5. CASE Beats(e.result, h[i].result)
      <4>1. ASSUME NEW j \in Evaluated(h)
            PROVE  Beats(e.result, h[j].result)
        <5>1. j = i \/ Beats(h[i].result, h[j].result) \/ ~Beats(h[j].result, h[i].result)
          BY <1>2, <3>1, <3>3 DEF IsIncumbent
        <5>. QED  BY <1>2, <2>2, <3>3, <3>5, <5>1, BeatsOrder
      <4>2. IsIncumbent(g, n)
        BY <1>1, <1>2, <2>1, <4>1 DEF IsIncumbent
      <4>3. RecomputeBest(g) = [episode_idx |-> n, result |-> e.result]
        BY <1>1, <4>2, BestIs
      <4>. QED  BY <1>4, <2>2, <3>4, <3>5, <4>2, <4>3 DEF HasIncumbent
    <3>6. CASE ~Beats(e.result, h[i].result)
      <4>1. IsIncumbent(g, i)
        BY <1>1, <1>2, <2>1, <3>1, <3>3, <3>6 DEF IsIncumbent
      <4>2. i \in DOMAIN g /\ g[i] = h[i]
        BY <1>1, <3>1
      <4>3. RecomputeBest(g) = RecomputeBest(h)
        BY <1>1, <3>2, <4>1, <4>2, BestIs
      <4>. QED  BY <1>4, <3>4, <3>6, <4>1, <4>2, <4>3 DEF HasIncumbent
    <3>. QED  BY <3>5, <3>6
  <2>. QED  BY <2>3, <2>4
<1>. QED  BY <1>3, <1>4

-----------------------------------------------------------------------------
\* Prefixes and extensions of a gapless history.

LEMMA PrefixShape ==
  ASSUME NEW h, NEW n \in Nat, IsHistory(h), DOMAIN h = 0 .. n - 1, NEW m \in 0 .. n
  PROVE  /\ DOMAIN Prefix(h, m) = 0 .. m - 1
         /\ IsHistory(Prefix(h, m))
         /\ \A k \in 0 .. m - 1 : Prefix(h, m)[k] = h[k]
         /\ \A k \in 0 .. m : Prefix(Prefix(h, m), k) = Prefix(h, k)
<1>1. DOMAIN Prefix(h, m) = 0 .. m - 1 /\ \A k \in 0 .. m - 1 : Prefix(h, m)[k] = h[k]
  BY DEF Prefix
<1>2. IsHistory(Prefix(h, m))
  BY <1>1 DEF IsHistory, Prefix
<1>3. ASSUME NEW k \in 0 .. m
      PROVE  Prefix(Prefix(h, m), k) = Prefix(h, k)
  <2>1. {i \in DOMAIN Prefix(h, m) : i < k} = {i \in DOMAIN h : i < k}
    BY <1>1
  <2>2. \A i \in {j \in DOMAIN h : j < k} : Prefix(h, m)[i] = h[i]
    BY <1>1
  <2>. QED  BY <2>1, <2>2 DEF Prefix
<1>. QED  BY <1>1, <1>2, <1>3

LEMMA PrefixWhole ==
  ASSUME NEW h, NEW n \in Nat, IsHistory(h), DOMAIN h = 0 .. n - 1
  PROVE  Prefix(h, n) = h
<1>1. {i \in DOMAIN h : i < n} = DOMAIN h
  OBVIOUS
<1>2. h = [k \in DOMAIN h |-> h[k]]
  BY DEF IsHistory
<1>. QED  BY <1>1, <1>2 DEF Prefix

LEMMA PrefixExtend ==
  ASSUME NEW h, NEW n \in Nat, IsHistory(h), DOMAIN h = 0 .. n - 1, NEW e
  PROVE  /\ \A m \in 0 .. n : Prefix(Extend(h, n, e), m) = Prefix(h, m)
         /\ \A m \in DOMAIN h : Prefix(h, m + 1) = Extend(Prefix(h, m), m, h[m])
<1>1. DOMAIN Extend(h, n, e) = 0 .. n /\ \A k \in 0 .. n - 1 : Extend(h, n, e)[k] = h[k]
  BY DEF Extend
<1>2. ASSUME NEW m \in 0 .. n
      PROVE  Prefix(Extend(h, n, e), m) = Prefix(h, m)
  <2>1. {i \in DOMAIN Extend(h, n, e) : i < m} = {i \in DOMAIN h : i < m}
    BY <1>1
  <2>2. \A i \in {j \in DOMAIN h : j < m} : Extend(h, n, e)[i] = h[i]
    BY <1>1
  <2>. QED  BY <2>1, <2>2 DEF Prefix
<1>3. ASSUME NEW m \in DOMAIN h
      PROVE  Prefix(h, m + 1) = Extend(Prefix(h, m), m, h[m])
  <2>1. {i \in DOMAIN h : i < m + 1} = (DOMAIN Prefix(h, m)) \cup {m}
    BY DEF Prefix
  <2>2. \A k \in (DOMAIN Prefix(h, m)) \cup {m} :
           h[k] = IF k = m THEN h[m] ELSE Prefix(h, m)[k]
    BY DEF Prefix
  <2>. QED  BY <2>1, <2>2 DEF Prefix, Extend
<1>. QED  BY <1>2, <1>3

-----------------------------------------------------------------------------
\* A history the loop can have built: gapless and typed, where each episode was
\* made from the prefix before it, and that prefix was not one to stop on.
Built(h) ==
  /\ IsHistory(h) /\ Contiguous(h) /\ Size(h) \in Nat
  /\ \A n \in 0 .. Size(h) : HasIncumbent(Prefix(h, n))
  /\ \A n \in DOMAIN h :
       ~Terminal(Prefix(h, n)) /\ h[n] \in NextEpisodes(Rehydrate(Prefix(h, n)))

LEMMA BuiltShape ==
  ASSUME NEW h, Built(h)
  PROVE  /\ IsHistory(h) /\ Size(h) \in Nat /\ DOMAIN h = 0 .. Size(h) - 1
         /\ NextIdx(h) = Size(h) /\ IsFiniteSet(DOMAIN h)
         /\ Prefix(h, Size(h)) = h /\ HasIncumbent(h)
<1>1. IsHistory(h) /\ Size(h) \in Nat /\ DOMAIN h = 0 .. Size(h) - 1
  BY DEF Built, Contiguous
<1>2. Prefix(h, Size(h)) = h
  BY <1>1, PrefixWhole
<1>. QED  BY <1>1, <1>2, Interval DEF Built

\* What not stopping says: every allowance still has room for one more.
LEMMA NotTerminal ==
  ASSUME NEW h, ~Terminal(h)
  PROVE  /\ ~BudgetExhausted(Used(h)) /\ ~RejectionsExceeded(Used(h))
         /\ ~(NextIdx(h) >= Supply)
BY Zenon DEF Terminal, StopReason, Rehydrate

\* The next episode is well typed, and honestly graded against the history.
LEMMA NextEpisodeType ==
  ASSUME NEW h, Built(h), ~Terminal(h), NEW e \in NextEpisodes(Rehydrate(h))
  PROVE  /\ e \in Episode
         /\ e.improved <=> e.result # ToolError /\ BetterThan(e.result, RecomputeBest(h))
<1>1. NextIdx(h) \in 0 .. Limit
  <2>1. NextIdx(h) = Used(h).evaluations + Used(h).rejections /\ Used(h) \in Budget
    BY BuiltShape, UsedType
  <2>2. ~(Used(h).evaluations >= MaxEvaluations) /\ ~(Used(h).rejections >= MaxRejections)
    BY NotTerminal DEF BudgetExhausted, RejectionsExceeded
  <2>3. Used(h).evaluations \in Nat /\ Used(h).rejections \in Nat
    BY <2>1 DEF Budget
  <2>. QED  BY <2>1, <2>2, <2>3, LimitsAssumption DEF Limit
<1>2. PICK a \in Proposals[NextIdx(h)] :
        \E c \in Guarded(a, h), t \in WallTimes : e = MakeEpisode(c, t, RecomputeBest(h))
  BY DEF NextEpisodes, Rehydrate
<1>2a. PICK c \in Guarded(a, h), t \in WallTimes : e = MakeEpisode(c, t, RecomputeBest(h))
  BY <1>2
<1>3. a \in Answers
  BY <1>1, WorldAssumption
<1>4. c \in Answers
  BY <1>3, WorldAssumption DEF Guarded, Answers
<1>5. Outcome(c) \in Outcomes /\ t \in {0, 1}
  BY WorldAssumption DEF Outcome, Outcomes
<1>6. e \in Episode
  BY <1>2a, <1>4, <1>5 DEF MakeEpisode, Episode
<1>7. /\ e.result = Outcome(c)
      /\ e.improved = (Outcome(c) # ToolError /\ BetterThan(Outcome(c), RecomputeBest(h)))
  BY <1>2a DEF MakeEpisode
<1>. QED  BY <1>6, <1>7

LEMMA BuiltExtend ==
  ASSUME NEW h, Built(h), ~Terminal(h), NEW e \in NextEpisodes(Rehydrate(h))
  PROVE  /\ Built(Extend(h, Size(h), e))
         /\ Size(Extend(h, Size(h), e)) = Size(h) + 1
<1> DEFINE n == Size(h)
           g == Extend(h, n, e)
<1>1. IsHistory(h) /\ n \in Nat /\ DOMAIN h = 0 .. n - 1 /\ HasIncumbent(h) /\ e \in Episode
      /\ Prefix(h, n) = h
  BY BuiltShape, NextEpisodeType
<1>2. IsHistory(g) /\ DOMAIN g = 0 .. (n + 1) - 1 /\ g[n] = e /\ \A k \in DOMAIN h : g[k] = h[k]
  BY <1>1, ExtendShape
<1>3. Size(g) = n + 1 /\ Contiguous(g)
  BY <1>1, <1>2, Interval
<1>4. \A m \in 0 .. n : Prefix(g, m) = Prefix(h, m)
  BY <1>1, PrefixExtend
<1>5. HasIncumbent(g) /\ Prefix(g, n + 1) = g
  BY <1>1, <1>2, BestExtend, PrefixWhole
<1>6. \A m \in 0 .. Size(g) : HasIncumbent(Prefix(g, m))
  BY <1>1, <1>3, <1>4, <1>5 DEF Built
<1>7. \A m \in DOMAIN g :
        ~Terminal(Prefix(g, m)) /\ g[m] \in NextEpisodes(Rehydrate(Prefix(g, m)))
  <2>. SUFFICES ASSUME NEW m \in DOMAIN g
                PROVE  ~Terminal(Prefix(g, m)) /\ g[m] \in NextEpisodes(Rehydrate(Prefix(g, m)))
    OBVIOUS
  <2>1. CASE m = n
    BY <1>1, <1>2, <1>4, <2>1
  <2>2. CASE m \in DOMAIN h
    BY <1>1, <1>2, <1>4, <2>2 DEF Built
  <2>. QED  BY <1>1, <1>2, <2>1, <2>2
<1>. QED  BY <1>1, <1>2, <1>3, <1>6, <1>7 DEF Built

LEMMA BuiltPrefix ==
  ASSUME NEW h, Built(h), NEW m \in 0 .. Size(h)
  PROVE  Built(Prefix(h, m)) /\ Size(Prefix(h, m)) = m
<1>1. IsHistory(h) /\ Size(h) \in Nat /\ DOMAIN h = 0 .. Size(h) - 1
  BY BuiltShape
<1>2. /\ DOMAIN Prefix(h, m) = 0 .. m - 1 /\ IsHistory(Prefix(h, m))
      /\ \A k \in 0 .. m - 1 : Prefix(h, m)[k] = h[k]
      /\ \A k \in 0 .. m : Prefix(Prefix(h, m), k) = Prefix(h, k)
  BY <1>1, PrefixShape
<1>3. m \in Nat /\ Size(Prefix(h, m)) = m /\ Contiguous(Prefix(h, m))
  BY <1>1, <1>2, Interval
<1>. QED  BY <1>1, <1>2, <1>3 DEF Built

\* Only the whole of a built history can be one to stop on.
LEMMA TerminalIsWhole ==
  ASSUME NEW h, Built(h), NEW m \in 0 .. Size(h), Terminal(Prefix(h, m))
  PROVE  m = Size(h) /\ Prefix(h, m) = h
<1>1. Size(h) \in Nat /\ DOMAIN h = 0 .. Size(h) - 1 /\ Prefix(h, Size(h)) = h
  BY BuiltShape
<1>2. m \notin DOMAIN h
  BY DEF Built
<1>. QED  BY <1>1, <1>2

\* A built history is within every limit of the run.
LEMMA BuiltWithinBudget ==
  ASSUME NEW h, Built(h)
  PROVE  /\ Used(h).evaluations <= MaxEvaluations
         /\ Used(h).wall <= MaxWall
         /\ Used(h).rejections <= MaxRejections
         /\ Size(h) <= Supply
<1>1. /\ IsHistory(h) /\ Size(h) \in Nat /\ DOMAIN h = 0 .. Size(h) - 1
      /\ IsFiniteSet(DOMAIN h) /\ Prefix(h, Size(h)) = h
  BY BuiltShape
<1>2. CASE Size(h) = 0
  <2>1. Evaluated(h) = {} /\ DOMAIN h = {} /\ {i \in Evaluated(h) : h[i].wall = 1} = {}
    BY <1>1, <1>2 DEF Evaluated
  <2>2. DOMAIN h \ Evaluated(h) = {}
    BY <2>1
  <2>3. Used(h) = [evaluations |-> 0, rejections |-> 0, wall |-> 0]
    BY <2>1, <2>2, FS_EmptySet DEF Used
  <2>. QED  BY <1>2, <2>3, LimitsAssumption
<1>3. CASE Size(h) # 0
  <2> DEFINE m == Size(h) - 1
             p == Prefix(h, m)
  <2>1. m \in DOMAIN h /\ m \in 0 .. Size(h) /\ m \in Nat
    BY <1>1, <1>3
  <2>2. Built(p) /\ Size(p) = m /\ ~Terminal(p) /\ h[m] \in NextEpisodes(Rehydrate(p))
    BY <2>1, BuiltPrefix DEF Built
  <2>3. h = Extend(p, m, h[m])
    BY <1>1, <2>1, PrefixExtend
  <2>4. h[m] \in Episode /\ IsHistory(p) /\ DOMAIN p = 0 .. m - 1 /\ NextIdx(p) = m
    BY <2>2, BuiltShape, NextEpisodeType
  <2>5. Used(h) = IF h[m].result = ToolError
                  THEN [Used(p) EXCEPT !.rejections = @ + 1]
                  ELSE [Used(p) EXCEPT !.evaluations = @ + 1, !.wall = @ + h[m].wall]
    <3>. HIDE DEF p, m
    <3>1. \A e \in Episode : Used(Extend(p, m, e)) =
            IF e.result = ToolError
            THEN [Used(p) EXCEPT !.rejections = @ + 1]
            ELSE [Used(p) EXCEPT !.evaluations = @ + 1, !.wall = @ + e.wall]
      BY <2>1, <2>4, UsedExtend
    <3>. QED  BY <2>3, <2>4, <3>1
  <2>6. Used(p) \in Budget /\ h[m].wall \in {0, 1}
    BY <2>2, <2>4, BuiltShape, UsedType DEF Episode
  <2>7. /\ ~(Used(p).evaluations >= MaxEvaluations) /\ ~(Used(p).wall >= MaxWall)
        /\ ~(Used(p).rejections >= MaxRejections) /\ ~(m >= Supply)
    BY <2>2, <2>4, NotTerminal DEF BudgetExhausted, RejectionsExceeded
  <2>8. Used(p).evaluations \in Nat /\ Used(p).wall \in Nat /\ Used(p).rejections \in Nat
    BY <2>6 DEF Budget
  <2>9. DOMAIN Used(p) = {"evaluations", "rejections", "wall"}
    BY <2>6 DEF Budget
  <2>. HIDE DEF p, m
  <2>10. /\ Used(h).evaluations <= MaxEvaluations /\ Used(h).wall <= MaxWall
         /\ Used(h).rejections <= MaxRejections
    BY <2>5, <2>6, <2>7, <2>8, <2>9, LimitsAssumption
  <2>11. Size(h) <= Supply
    BY <1>1, <2>7, LimitsAssumption DEF m
  <2>. QED  BY <2>10, <2>11
<1>. QED  BY <1>2, <1>3

\* A run never reaches its rejection limit and another limit of its budget: the
\* last episode charged one of them, and the loop would have stopped before it.
LEMMA OneLimit ==
  ASSUME NEW h, Built(h), BudgetExhausted(Used(h)), RejectionsExceeded(Used(h))
  PROVE  FALSE
<1> DEFINE n == Size(h) - 1
           p == Prefix(h, n)
<1>1. IsHistory(h) /\ Size(h) \in Nat /\ DOMAIN h = 0 .. Size(h) - 1 /\ Prefix(h, Size(h)) = h
  BY BuiltShape
<1>2. Size(h) # 0
  <2>1. SUFFICES ASSUME Size(h) = 0 PROVE FALSE
    OBVIOUS
  <2>2. DOMAIN h = {}
    BY <1>1, <2>1
  <2>3. Used(h).evaluations = 0 /\ Used(h).wall = 0
    BY <2>2, FS_EmptySet DEF Used, Evaluated
  <2>. QED  BY <2>3, LimitsAssumption DEF BudgetExhausted
<1>3. n \in Nat /\ n \in DOMAIN h /\ n \in 0 .. Size(h) /\ n + 1 = Size(h)
  BY <1>1, <1>2
<1>4. /\ Built(p) /\ ~Terminal(p) /\ h[n] \in NextEpisodes(Rehydrate(p)) /\ Size(p) = n
  BY <1>3, BuiltPrefix DEF Built
<1>5. IsHistory(p) /\ DOMAIN p = 0 .. n - 1 /\ h[n] \in Episode /\ Used(p) \in Budget
  BY <1>4, BuiltShape, NextEpisodeType, UsedType
<1>6. h = Extend(p, n, h[n])
  BY <1>1, <1>3, PrefixExtend
<1>7. /\ ~BudgetExhausted(Used(p)) /\ ~RejectionsExceeded(Used(p))
  BY <1>4, NotTerminal
<1>. HIDE DEF p, n
<1>8. \A e \in Episode : Used(Extend(p, n, e)) =
        IF e.result = ToolError
        THEN [Used(p) EXCEPT !.rejections = @ + 1]
        ELSE [Used(p) EXCEPT !.evaluations = @ + 1, !.wall = @ + e.wall]
  BY <1>3, <1>5, UsedExtend
<1>9. CASE h[n].result = ToolError
  <2>1. Used(h) = [Used(p) EXCEPT !.rejections = @ + 1]
    BY <1>5, <1>6, <1>8, <1>9
  <2>2. Used(h).evaluations = Used(p).evaluations /\ Used(h).wall = Used(p).wall
    BY <1>5, <2>1 DEF Budget
  <2>. QED  BY <1>7, <2>2 DEF BudgetExhausted
<1>10. CASE h[n].result # ToolError
  <2>1. Used(h) = [Used(p) EXCEPT !.evaluations = @ + 1, !.wall = @ + h[n].wall]
    BY <1>5, <1>6, <1>8, <1>10
  <2>2. Used(h).rejections = Used(p).rejections
    BY <1>5, <2>1 DEF Budget
  <2>. QED  BY <1>7, <2>2 DEF RejectionsExceeded
<1>. QED  BY <1>9, <1>10

-----------------------------------------------------------------------------
\* Processes around that history.

\* What each worker's memory owes to the table.
WorkerOK(w) ==
  /\ local[w] = Rehydrate(local[w].history)
  /\ IsPrefixOf(local[w].history, episodes)
  /\ pc[w] = "commit" => ~Terminal(local[w].history) /\ pending[w] \in NextEpisodes(local[w])
  /\ pc[w] = "final" => reason[w] = "ERROR" \/ Terminal(local[w].history)

IInv ==
  /\ TypeOK
  /\ Built(episodes)
  /\ \A w \in Workers : WorkerOK(w)
  /\ SnapshotIsOfAPrefix
  /\ DoneIsFinal

-----------------------------------------------------------------------------
\* Facts about rehydrating a built history.

LEMMA EmptyIsBuilt ==
  /\ Built(EmptyHistory) /\ Size(EmptyHistory) = 0
  /\ \A h : Built(h) => Prefix(h, 0) = EmptyHistory
<1>1. DOMAIN EmptyHistory = 0 .. 0 - 1 /\ IsHistory(EmptyHistory)
  BY DEF EmptyHistory, IsHistory
<1>2. Size(EmptyHistory) = 0 /\ Contiguous(EmptyHistory)
  BY <1>1, Interval
<1>3. Prefix(EmptyHistory, 0) = EmptyHistory
  BY <1>1 DEF Prefix, EmptyHistory
<1>4. HasIncumbent(EmptyHistory)
  BY DEF HasIncumbent, Evaluated, EmptyHistory
<1>5. Built(EmptyHistory)
  <2>1. ASSUME NEW n \in 0 .. Size(EmptyHistory)
        PROVE  HasIncumbent(Prefix(EmptyHistory, n))
    <3>1. n = 0
      BY <1>2
    <3>. QED  BY <1>3, <1>4, <3>1
  <2>2. DOMAIN EmptyHistory = {}
    BY <1>1
  <2>. QED  BY <1>1, <1>2, <2>1, <2>2 DEF Built
<1>6. ASSUME NEW h, Built(h)
      PROVE  Prefix(h, 0) = EmptyHistory
  <2>1. {i \in DOMAIN h : i < 0} = {}
    BY <1>6, BuiltShape
  <2>. QED  BY <2>1 DEF Prefix, EmptyHistory
<1>. QED  BY <1>2, <1>5, <1>6

LEMMA RehydrateType ==
  ASSUME NEW h, Built(h)
  PROVE  IsRunState(Rehydrate(h)) /\ Rehydrate(h).history = h
<1>1. /\ IsHistory(h) /\ HasIncumbent(h) /\ NextIdx(h) \in Nat /\ IsFiniteSet(DOMAIN h)
  BY BuiltShape
<1>2. Used(h) \in Budget
  BY <1>1, UsedType
<1>3. RecomputeBest(h) \in Best \cup {NoBest}
  <2>1. CASE Evaluated(h) = {}
    BY <2>1 DEF RecomputeBest
  <2>2. CASE Evaluated(h) # {}
    <3>1. PICK i \in DOMAIN h : IsIncumbent(h, i)
      BY <1>1, <2>2 DEF HasIncumbent
    <3>2. i \in Nat /\ h[i].result \in Result
      BY <1>1, <3>1 DEF IsIncumbent, Evaluated, IsHistory, Episode, Outcomes
    <3>. QED  BY <1>1, <3>1, <3>2, BestIs DEF Best
  <2>. QED  BY <2>1, <2>2
<1>. QED  BY <1>1, <1>2, <1>3 DEF Rehydrate, IsRunState

\* Rule 1: the state the live loop keeps is what rehydrate would recompute.
LEMMA AdvancedIsRehydrated ==
  ASSUME NEW h, Built(h), ~Terminal(h), NEW e \in NextEpisodes(Rehydrate(h))
  PROVE  Advanced(Rehydrate(h), e) = Rehydrate(Extend(h, Size(h), e))
<1> DEFINE n == Size(h)
           g == Extend(h, n, e)
<1>1. /\ IsHistory(h) /\ n \in Nat /\ DOMAIN h = 0 .. n - 1 /\ HasIncumbent(h) /\ NextIdx(h) = n
      /\ e \in Episode
      /\ e.improved <=> e.result # ToolError /\ BetterThan(e.result, RecomputeBest(h))
  BY BuiltShape, NextEpisodeType
<1>2. RecomputeBest(g) = IF e.improved THEN [episode_idx |-> n, result |-> e.result]
                                       ELSE RecomputeBest(h)
  BY <1>1, BestExtend
<1>3. Used(g) = IF e.result = ToolError
                THEN [Used(h) EXCEPT !.rejections = @ + 1]
                ELSE [Used(h) EXCEPT !.evaluations = @ + 1, !.wall = @ + e.wall]
  BY <1>1, UsedExtend
<1>4. NextIdx(g) = n + 1
  BY BuiltExtend, BuiltShape
<1>. HIDE DEF g
<1>5. Rehydrate(g) = [history |-> g, best |-> RecomputeBest(g), budget |-> Used(g),
                      step_idx |-> n + 1]
  BY <1>4 DEF Rehydrate
<1>6. /\ Rehydrate(h).history = h /\ Rehydrate(h).best = RecomputeBest(h)
      /\ Rehydrate(h).budget = Used(h) /\ Rehydrate(h).step_idx = n
  BY <1>1 DEF Rehydrate
<1>7. Advanced(Rehydrate(h), e) = [history |-> g, best |-> RecomputeBest(g),
                                   budget |-> Used(g), step_idx |-> n + 1]
  BY <1>2, <1>3, <1>6 DEF Advanced, g
<1>. QED  BY <1>5, <1>7 DEF g

\* A prefix of a built history is built, and stays a prefix as it grows.
LEMMA PrefixOfBuilt ==
  ASSUME NEW g, Built(g), NEW h, IsPrefixOf(h, g)
  PROVE  /\ Built(h)
         /\ Terminal(h) => h = g
         /\ NextIdx(h) \notin DOMAIN g => h = g
         /\ \A e \in NextEpisodes(Rehydrate(g)) :
              ~Terminal(g) => IsPrefixOf(h, Extend(g, Size(g), e))
<1>1. PICK n \in 0 .. Size(g) : h = Prefix(g, n)
  BY DEF IsPrefixOf
<1>2. Built(h) /\ Size(h) = n /\ NextIdx(h) = n
  BY <1>1, BuiltPrefix, BuiltShape
<1>3. Terminal(h) => h = g
  BY <1>1, TerminalIsWhole
<1>4. /\ DOMAIN g = 0 .. Size(g) - 1 /\ Size(g) \in Nat /\ IsHistory(g)
      /\ Prefix(g, Size(g)) = g
  BY BuiltShape
<1>5. NextIdx(h) \notin DOMAIN g => h = g
  BY <1>1, <1>2, <1>4
<1>6. ASSUME NEW e \in NextEpisodes(Rehydrate(g)), ~Terminal(g)
      PROVE  IsPrefixOf(h, Extend(g, Size(g), e))
  <2>1. Size(Extend(g, Size(g), e)) = Size(g) + 1
    BY <1>6, BuiltExtend
  <2>2. h = Prefix(Extend(g, Size(g), e), n)
    BY <1>1, <1>4, PrefixExtend
  <2>3. n \in 0 .. Size(g) + 1
    BY <1>4
  <2>. QED  BY <2>1, <2>2, <2>3 DEF IsPrefixOf
<1>. QED  BY <1>2, <1>3, <1>5, <1>6

\* Snapshots of prefixes, in the form the row's invariant uses.
LEMMA SnapshotOfPrefix ==
  ASSUME NEW g, Built(g), NEW h, IsPrefixOf(h, g), NEW st \in Status
  PROVE  /\ \E n \in 0 .. Size(g) :
              Snapshot(st, Rehydrate(h)) = Snapshot(st, Rehydrate(Prefix(g, n)))
         /\ Snapshot(st, Rehydrate(h)).status = st
         /\ Snapshot(st, Rehydrate(h)) \in
              [status : Status \cup {"ABSENT"}, best : Best \cup {NoBest},
               budget : Budget, step_idx : Nat]
<1>1. IsRunState(Rehydrate(h))
  BY PrefixOfBuilt, RehydrateType
<1>. QED  BY <1>1 DEF Snapshot, IsRunState, IsPrefixOf

-----------------------------------------------------------------------------
\* The inductive step, action by action.

\* A worker that did not move keeps its invariant when the table is unchanged
\* or has grown by one step of a run.
Grown ==
  /\ ~Terminal(episodes)
  /\ \E e \in NextEpisodes(Rehydrate(episodes)) :
       episodes' = Extend(episodes, Size(episodes), e)

LEMMA WorkerStutters ==
  ASSUME IInv, NEW v \in Workers, WorkerOK(v),
         local'[v] = local[v], pc'[v] = pc[v], pending'[v] = pending[v], reason'[v] = reason[v],
         episodes' = episodes \/ Grown
  PROVE  WorkerOK(v)'
<1>1. IsPrefixOf(local[v].history, episodes')
  <2>1. CASE episodes' = episodes
    BY <2>1 DEF WorkerOK
  <2>2. CASE Grown
    BY <2>2, PrefixOfBuilt DEF Grown, WorkerOK, IInv
  <2>. QED  BY <2>1, <2>2
<1>. QED  BY <1>1 DEF WorkerOK

\* What a worker inside the loop knows about its own RunState.
LEMMA WorkerFacts ==
  ASSUME IInv, NEW w \in Workers
  PROVE  /\ Built(local[w].history)
         /\ local[w] = Rehydrate(local[w].history)
         /\ IsPrefixOf(local[w].history, episodes)
         /\ StopReason(local[w]) # "NONE" <=> Terminal(local[w].history)
         /\ local[w].step_idx = NextIdx(local[w].history)
<1>1. local[w] = Rehydrate(local[w].history) /\ IsPrefixOf(local[w].history, episodes)
  BY DEF IInv, WorkerOK
<1>2. Built(local[w].history)
  BY <1>1, PrefixOfBuilt DEF IInv
<1>3. local[w].step_idx = NextIdx(local[w].history)
  <2>1. \A h : Rehydrate(h).step_idx = NextIdx(h)
    BY DEF Rehydrate
  <2>. QED  BY <1>1, <2>1
<1>4. StopReason(local[w]) # "NONE" <=> Terminal(local[w].history)
  BY <1>1, Zenon DEF Terminal
<1>. QED  BY <1>1, <1>2, <1>3, <1>4

LEMMA FreshOK ==
  ASSUME Built(episodes)
  PROVE  /\ IsRunState(Fresh) /\ Fresh.history = EmptyHistory
         /\ Fresh = Rehydrate(Fresh.history)
         /\ IsPrefixOf(Fresh.history, episodes)
<1>1. IsRunState(Fresh) /\ Fresh.history = EmptyHistory
  BY EmptyIsBuilt, RehydrateType DEF Fresh
<1>2. EmptyHistory = Prefix(episodes, 0) /\ 0 \in 0 .. Size(episodes)
  BY EmptyIsBuilt, BuiltShape
<1>. QED  BY <1>1, <1>2 DEF Fresh, IsPrefixOf

LEMMA WholeIsPrefix ==
  ASSUME NEW g, Built(g)
  PROVE  IsPrefixOf(g, g)
<1>1. Prefix(g, Size(g)) = g /\ Size(g) \in 0 .. Size(g)
  BY BuiltShape
<1>. QED  BY <1>1 DEF IsPrefixOf

LEMMA InitIInv == Init => IInv
<1>. SUFFICES ASSUME Init PROVE IInv
  OBVIOUS
<1>1. episodes = EmptyHistory /\ Built(episodes)
  BY EmptyIsBuilt DEF Init
<1>2. /\ IsRunState(Fresh) /\ Fresh = Rehydrate(Fresh.history)
      /\ Fresh.history = EmptyHistory /\ IsPrefixOf(Fresh.history, episodes)
  BY <1>1, FreshOK
<1>3. NoEpisode \in Episode
  BY DEF NoEpisode, Episode, Answers, Outcomes
<1>4. TypeOK
  <2>1. row \in [status : Status \cup {"ABSENT"}, best : Best \cup {NoBest},
                 budget : Budget, step_idx : Nat]
    BY <1>2 DEF Init, Absent, Snapshot, IsRunState
  <2>2. IsHistory(episodes)
    BY <1>1, BuiltShape
  <2>. QED  BY <1>2, <1>3, <2>1, <2>2, MaxCrashesAssumption DEF Init, TypeOK, Locations, Reasons
<1>5. \A w \in Workers : WorkerOK(w)
  BY <1>2 DEF Init, WorkerOK
<1>6. SnapshotIsOfAPrefix
  <2>1. Prefix(episodes, 0) = EmptyHistory /\ 0 \in 0 .. Size(episodes)
    BY <1>1, EmptyIsBuilt, BuiltShape
  <2>2. row = Snapshot(row.status, Rehydrate(EmptyHistory))
    BY DEF Init, Absent, Snapshot, Fresh
  <2>. QED  BY <2>1, <2>2 DEF SnapshotIsOfAPrefix
<1>7. DoneIsFinal
  BY DEF Init, Absent, Snapshot, DoneIsFinal
<1>. QED  BY <1>1, <1>4, <1>5, <1>6, <1>7 DEF IInv

\* The row's two invariants when a step does not write the row...
LEMMA RowKept ==
  ASSUME IInv, row' = row, episodes' = episodes \/ Grown
  PROVE  SnapshotIsOfAPrefix' /\ DoneIsFinal'
<1>1. CASE episodes' = episodes
  BY <1>1 DEF IInv, SnapshotIsOfAPrefix, DoneIsFinal
<1>2. CASE Grown
  <2>1. PICK e \in NextEpisodes(Rehydrate(episodes)) :
          episodes' = Extend(episodes, Size(episodes), e)
    BY <1>2 DEF Grown
  <2>2. /\ Size(episodes') = Size(episodes) + 1 /\ Size(episodes) \in Nat
        /\ \A m \in 0 .. Size(episodes) : Prefix(episodes', m) = Prefix(episodes, m)
    BY <1>2, <2>1, BuiltExtend, BuiltShape, PrefixExtend DEF Grown, IInv
  <2>3. SnapshotIsOfAPrefix'
    BY <2>2 DEF IInv, SnapshotIsOfAPrefix
  <2>4. row.status # "DONE"
    BY <1>2 DEF Grown, IInv, DoneIsFinal
  <2>. QED  BY <2>3, <2>4 DEF DoneIsFinal
<1>. QED  BY <1>1, <1>2

\* ... and when it saves the snapshot of some prefix of the table.
LEMMA RowWritten ==
  ASSUME IInv, NEW h, IsPrefixOf(h, episodes), NEW st \in Status,
         st = "DONE" => Terminal(h),
         row' = Snapshot(st, Rehydrate(h)), episodes' = episodes
  PROVE  SnapshotIsOfAPrefix' /\ DoneIsFinal'
<1>1. Built(episodes)
  BY DEF IInv
<1>2. row'.status = st /\ \E n \in 0 .. Size(episodes) :
                             row' = Snapshot(st, Rehydrate(Prefix(episodes, n)))
  BY <1>1, SnapshotOfPrefix
<1>3. st = "DONE" => h = episodes
  BY <1>1, PrefixOfBuilt
<1>. QED  BY <1>2, <1>3 DEF SnapshotIsOfAPrefix, DoneIsFinal

\* The conjuncts of IInv that no single action has to argue about.
LEMMA Assemble ==
  ASSUME IInv, NEW w \in Workers, TypeOK', WorkerOK(w)',
         \A v \in Workers \ {w} : /\ local'[v] = local[v] /\ pc'[v] = pc[v]
                                  /\ pending'[v] = pending[v] /\ reason'[v] = reason[v],
         episodes' = episodes \/ Grown,
         SnapshotIsOfAPrefix', DoneIsFinal'
  PROVE  IInv'
<1>1. Built(episodes')
  <2>1. CASE episodes' = episodes
    BY <2>1 DEF IInv
  <2>2. CASE Grown
    BY <2>2, BuiltExtend DEF Grown, IInv
  <2>. QED  BY <2>1, <2>2
<1>2. \A v \in Workers : WorkerOK(v)'
  <2>. SUFFICES ASSUME NEW v \in Workers \ {w} PROVE WorkerOK(v)'
    OBVIOUS
  <2>. QED  BY WorkerStutters DEF IInv
<1>. QED  BY <1>1, <1>2 DEF IInv

LEMMA NextIInv == IInv /\ [Next]_vars => IInv'
<1>. SUFFICES ASSUME IInv, [Next]_vars PROVE IInv'
  OBVIOUS
<1>0. TypeOK /\ Built(episodes) /\ \A w \in Workers : WorkerOK(w)
  BY DEF IInv
<1>f. NoEpisode \in Episode
  BY DEF NoEpisode, Episode, Answers, Outcomes
<1>1. ASSUME NEW w \in Workers, EnterCell(w) PROVE IInv'
  <2>1. TypeOK' /\ WorkerOK(w)'
    BY <1>0, <1>1 DEF EnterCell, Goto, TypeOK, Locations, WorkerOK
  <2>2. SnapshotIsOfAPrefix' /\ DoneIsFinal'
    BY <1>1, RowKept DEF EnterCell
  <2>. QED  BY <1>0, <1>1, <2>1, <2>2, Assemble DEF EnterCell, Goto, TypeOK
<1>2. ASSUME NEW w \in Workers, EnsureLoad(w) \/ Resume(w) PROVE IInv'
  <2>1. /\ local' = [local EXCEPT ![w] = Rehydrate(episodes)]
        /\ pc' = [pc EXCEPT ![w] = "head"]
        /\ UNCHANGED <<row, episodes, pending, reason, crashes>>
    BY <1>2 DEF EnsureLoad, Resume, Goto
  <2>2. /\ IsRunState(Rehydrate(episodes)) /\ Rehydrate(episodes).history = episodes
        /\ IsPrefixOf(episodes, episodes)
    BY <1>0, RehydrateType, WholeIsPrefix
  <2>3. TypeOK' /\ WorkerOK(w)'
    BY <1>0, <2>1, <2>2 DEF TypeOK, Locations, WorkerOK
  <2>4. SnapshotIsOfAPrefix' /\ DoneIsFinal'
    BY <2>1, RowKept
  <2>. QED  BY <1>0, <2>1, <2>3, <2>4, Assemble DEF TypeOK
<1>3. ASSUME NEW w \in Workers, EnsureMissing(w) PROVE IInv'
  <2>1. TypeOK' /\ WorkerOK(w)'
    BY <1>0, <1>3 DEF EnsureMissing, Goto, TypeOK, Locations, WorkerOK
  <2>2. SnapshotIsOfAPrefix' /\ DoneIsFinal'
    BY <1>3, RowKept DEF EnsureMissing
  <2>. QED  BY <1>0, <1>3, <2>1, <2>2, Assemble DEF EnsureMissing, Goto, TypeOK
<1>4. ASSUME NEW w \in Workers, Create(w) PROVE IInv'
  <2>1. /\ IsRunState(Fresh) /\ Fresh = Rehydrate(Fresh.history)
        /\ IsPrefixOf(Fresh.history, episodes)
    BY <1>0, FreshOK
  <2>2. /\ row' = Snapshot("PENDING", Rehydrate(Fresh.history)) /\ episodes' = episodes
        /\ "PENDING" \in Status
    BY <1>4, <2>1 DEF Create, Status
  <2>3. TypeOK'
    BY <1>0, <1>4, <2>1, <2>2, SnapshotOfPrefix DEF Create, Goto, TypeOK, Locations
  <2>4. WorkerOK(w)'
    BY <1>0, <1>4, <2>1 DEF Create, Goto, TypeOK, WorkerOK
  <2>5. SnapshotIsOfAPrefix' /\ DoneIsFinal'
    BY <2>1, <2>2, RowWritten
  <2>. QED  BY <1>0, <1>4, <2>3, <2>4, <2>5, Assemble DEF Create, Goto, TypeOK
<1>5. ASSUME NEW w \in Workers, Stop(w) PROVE IInv'
  <2>1. Terminal(local[w].history)
    BY <1>5, WorkerFacts DEF Stop
  <2>2. StopReason(local[w]) \in Reasons
    BY DEF StopReason, Reasons
  <2>3. TypeOK'
    BY <1>0, <1>5, <2>2 DEF Stop, Goto, TypeOK, Locations
  <2>4. WorkerOK(w)'
    BY <1>0, <1>5, <2>1 DEF Stop, Goto, TypeOK, WorkerOK
  <2>5. SnapshotIsOfAPrefix' /\ DoneIsFinal'
    BY <1>5, RowKept DEF Stop
  <2>. QED  BY <1>0, <1>5, <2>3, <2>4, <2>5, Assemble DEF Stop, Goto, TypeOK
<1>6. ASSUME NEW w \in Workers, Propose(w) PROVE IInv'
  <2>1. ~Terminal(local[w].history)
    BY <1>6, WorkerFacts DEF Propose
  <2>2. PICK e \in NextEpisodes(local[w]) : pending' = [pending EXCEPT ![w] = e]
    BY <1>6 DEF Propose
  <2>3. e \in Episode
    BY <2>1, <2>2, WorkerFacts, NextEpisodeType
  <2>4. TypeOK'
    BY <1>0, <1>6, <2>2, <2>3 DEF Propose, Goto, TypeOK, Locations
  <2>5. WorkerOK(w)'
    BY <1>0, <1>6, <2>1, <2>2 DEF Propose, Goto, TypeOK, WorkerOK
  <2>6. SnapshotIsOfAPrefix' /\ DoneIsFinal'
    BY <1>6, RowKept DEF Propose
  <2>. QED  BY <1>0, <1>6, <2>2, <2>4, <2>5, <2>6, Assemble DEF Propose, Goto, TypeOK
<1>7. ASSUME NEW w \in Workers, Append(w) PROVE IInv'
  <2> DEFINE e == pending[w]
             h == local[w].history
  <2>1. ~Terminal(h) /\ e \in NextEpisodes(local[w])
    BY <1>0, <1>7 DEF Append, Goto, WorkerOK
  <2>2. h = episodes /\ local[w] = Rehydrate(episodes) /\ local[w].step_idx = Size(episodes)
    BY <1>0, <1>7, WorkerFacts, PrefixOfBuilt, BuiltShape DEF Append
  <2>3. Grown /\ episodes' = Extend(episodes, Size(episodes), e)
    BY <1>7, <2>1, <2>2 DEF Append, Grown
  <2>4. Built(episodes')
    BY <1>0, <2>1, <2>2, <2>3, BuiltExtend
  <2>5. local' = [local EXCEPT ![w] = Rehydrate(episodes')]
    <3>1. ~Terminal(episodes) /\ e \in NextEpisodes(Rehydrate(episodes))
      BY <2>1, <2>2
    <3>2. Advanced(Rehydrate(episodes), e) = Rehydrate(episodes')
      BY <1>0, <2>3, <3>1, AdvancedIsRehydrated
    <3>3. local' = [local EXCEPT ![w] = Advanced(local[w], e)]
      BY <1>7 DEF Append
    <3>. QED  BY <2>2, <3>2, <3>3
  <2>6. /\ IsRunState(Rehydrate(episodes')) /\ Rehydrate(episodes').history = episodes'
        /\ IsPrefixOf(episodes', episodes') /\ IsHistory(episodes')
    BY <2>4, RehydrateType, WholeIsPrefix, BuiltShape
  <2>7. TypeOK'
    BY <1>0, <1>f, <1>7, <2>5, <2>6 DEF Append, Goto, TypeOK, Locations
  <2>8. WorkerOK(w)'
    BY <1>0, <1>7, <2>5, <2>6 DEF Append, Goto, TypeOK, WorkerOK
  <2>9. SnapshotIsOfAPrefix' /\ DoneIsFinal'
    BY <1>7, <2>3, RowKept DEF Append
  <2>. QED  BY <1>0, <1>7, <2>3, <2>5, <2>7, <2>8, <2>9, Assemble DEF Append, Goto, TypeOK
<1>8. ASSUME NEW w \in Workers, Conflict(w) PROVE IInv'
  <2>1. TypeOK'
    BY <1>0, <1>f, <1>8 DEF Conflict, Goto, TypeOK, Locations, Reasons
  <2>2. WorkerOK(w)'
    BY <1>0, <1>8 DEF Conflict, Goto, TypeOK, WorkerOK
  <2>3. SnapshotIsOfAPrefix' /\ DoneIsFinal'
    BY <1>8, RowKept DEF Conflict
  <2>. QED  BY <1>0, <1>8, <2>1, <2>2, <2>3, Assemble DEF Conflict, Goto, TypeOK
<1>9. ASSUME NEW w \in Workers, SaveProgress(w) PROVE IInv'
  <2> DEFINE h == local[w].history
  <2>1. /\ IsPrefixOf(h, episodes) /\ local[w] = Rehydrate(h) /\ "EXECUTING" \in Status
    BY WorkerFacts DEF Status
  <2>2. row' = Snapshot("EXECUTING", Rehydrate(h)) /\ episodes' = episodes
    BY <1>9, <2>1 DEF SaveProgress
  <2>3. TypeOK'
    BY <1>0, <1>9, <2>1, <2>2, SnapshotOfPrefix DEF SaveProgress, Goto, TypeOK, Locations
  <2>4. WorkerOK(w)'
    BY <1>0, <1>9 DEF SaveProgress, Goto, TypeOK, WorkerOK
  <2>5. SnapshotIsOfAPrefix' /\ DoneIsFinal'
    BY <2>1, <2>2, RowWritten
  <2>. QED  BY <1>0, <1>9, <2>3, <2>4, <2>5, Assemble DEF SaveProgress, Goto, TypeOK
<1>10. ASSUME NEW w \in Workers, SaveFinal(w) PROVE IInv'
  <2> DEFINE h == local[w].history
             st == IF reason[w] = "ERROR" THEN "FAILED" ELSE "DONE"
  <2>1. IsPrefixOf(h, episodes) /\ local[w] = Rehydrate(h) /\ st \in Status
    BY WorkerFacts DEF Status
  <2>2. st = "DONE" => Terminal(h)
    BY <1>0, <1>10 DEF SaveFinal, Goto, WorkerOK
  <2>3. row' = Snapshot(st, Rehydrate(h)) /\ episodes' = episodes
    BY <1>10, <2>1 DEF SaveFinal
  <2>4. /\ IsRunState(Fresh) /\ Fresh = Rehydrate(Fresh.history)
        /\ IsPrefixOf(Fresh.history, episodes)
    BY <1>0, FreshOK
  <2>. HIDE DEF st
  <2>5. TypeOK'
    BY <1>0, <1>10, <2>1, <2>3, <2>4, SnapshotOfPrefix
       DEF SaveFinal, Goto, TypeOK, Locations, Reasons
  <2>6. WorkerOK(w)'
    BY <1>0, <1>10, <2>4 DEF SaveFinal, Goto, TypeOK, WorkerOK
  <2>7. SnapshotIsOfAPrefix' /\ DoneIsFinal'
    BY <2>1, <2>2, <2>3, RowWritten
  <2>. QED  BY <1>0, <1>10, <2>5, <2>6, <2>7, Assemble DEF SaveFinal, Goto, TypeOK
<1>11. ASSUME NEW w \in Workers, Crash(w) PROVE IInv'
  <2>1. /\ IsRunState(Fresh) /\ Fresh = Rehydrate(Fresh.history)
        /\ IsPrefixOf(Fresh.history, episodes)
    BY <1>0, FreshOK
  <2>2. TypeOK'
    BY <1>0, <1>f, <1>11, <2>1, MaxCrashesAssumption DEF Crash, TypeOK, Locations, Reasons
  <2>3. WorkerOK(w)'
    BY <1>0, <1>11, <2>1 DEF Crash, TypeOK, WorkerOK
  <2>4. SnapshotIsOfAPrefix' /\ DoneIsFinal'
    BY <1>11, RowKept DEF Crash
  <2>. QED  BY <1>0, <1>11, <2>2, <2>3, <2>4, Assemble DEF Crash, TypeOK
<1>12. CASE UNCHANGED vars
  BY <1>12 DEF vars, IInv, TypeOK, WorkerOK, SnapshotIsOfAPrefix, DoneIsFinal
<1>. QED  BY <1>1, <1>2, <1>3, <1>4, <1>5, <1>6, <1>7, <1>8, <1>9, <1>10, <1>11, <1>12
             DEF Next, Proceed

LEMMA Invariant == Spec => []IInv
BY InitIInv, NextIInv, PTL DEF Spec

-----------------------------------------------------------------------------
\* The theorems.

\* The row, the episodes table and the memory of every process keep their types.
THEOREM TypeCorrect == Spec => []TypeOK
<1>1. IInv => TypeOK
  BY DEF IInv
<1>. QED  BY <1>1, Invariant, PTL

\* Whatever any number of processes do, the table stays gapless and each
\* process's idea of the history is a prefix of it (append_episode, rehydrate).
THEOREM PrefixesOnly == Spec => []HistoryIsPrefix
<1>1. IInv => HistoryIsPrefix
  BY DEF IInv, HistoryIsPrefix, WorkerOK, Built
<1>. QED  BY <1>1, Invariant, PTL

\* Rule 1: the state the live loop keeps incrementally is what rehydrate
\* computes from the same episodes.
THEOREM LiveEqualsRehydrated == Spec => []LocalIsRecomputed
<1>1. IInv => LocalIsRecomputed
  BY DEF IInv, LocalIsRecomputed, WorkerOK
<1>. QED  BY <1>1, Invariant, PTL

\* Rule 2: every stored episode's improved flag is honest about all the
\* episodes stored before it, although a rival worker may have stored them.
THEOREM GradesAreHonest == Spec => []ImprovedIsHonest
<1>1. ASSUME IInv PROVE ImprovedIsHonest
  <2>. SUFFICES ASSUME NEW i \in DOMAIN episodes
                PROVE  episodes[i].improved <=>
                         /\ episodes[i].result # ToolError
                         /\ BetterThan(episodes[i].result, RecomputeBest(Prefix(episodes, i)))
    BY DEF ImprovedIsHonest
  <2>1. Built(episodes)
    BY <1>1 DEF IInv
  <2>2. i \in 0 .. Size(episodes)
    BY <2>1, BuiltShape
  <2>3. /\ Built(Prefix(episodes, i)) /\ ~Terminal(Prefix(episodes, i))
        /\ episodes[i] \in NextEpisodes(Rehydrate(Prefix(episodes, i)))
    BY <2>1, <2>2, BuiltPrefix DEF Built
  <2>. QED  BY <2>3, NextEpisodeType
<1>. QED  BY <1>1, Invariant, PTL

\* No interleaving, crash or re-run lets the stored episodes of a run exceed
\* its evaluation, wall-clock, rejection or supply limit.
THEOREM BudgetHolds == Spec => []BudgetNeverOverspent
<1>1. IInv => BudgetNeverOverspent
  BY BuiltWithinBudget DEF IInv, BudgetNeverOverspent
<1>. QED  BY <1>1, Invariant, PTL

\* The run row is always the snapshot of some prefix of the table, however late
\* the save that wrote it landed.
THEOREM SnapshotsAreHistorical == Spec => []SnapshotIsOfAPrefix
<1>1. IInv => SnapshotIsOfAPrefix
  BY DEF IInv
<1>. QED  BY <1>1, Invariant, PTL

\* A DONE row is the final snapshot of a history the loop would stop on.
THEOREM DoneIsComplete == Spec => []DoneIsFinal
<1>1. IInv => DoneIsFinal
  BY DEF IInv
<1>. QED  BY <1>1, Invariant, PTL

\* What the report derives from a DONE row is why run_loop stopped, up to the
\* three reasons the row cannot tell apart, for any number of processes.
THEOREM ReasonsAreDerivable == Spec => []ReasonIsDerivable
<1>1. ASSUME IInv PROVE ReasonIsDerivable
  <2>. SUFFICES ASSUME row.status = "DONE"
                PROVE  LET stopped == StopReason(Rehydrate(episodes))
                           derived == DeriveTermination(row)
                       IN  \/ derived = stopped
                           \/ /\ stopped \in {"STAGNATION", "EXHAUSTED"}
                              /\ derived = IF Target # NoTarget /\ row.best # NoBest
                                                 /\ row.best.result.feasible
                                           THEN "SUCCESS" ELSE "EXHAUSTED"
    BY DEF ReasonIsDerivable
  <2> DEFINE s == Rehydrate(episodes)
  <2>1. /\ Built(episodes) /\ StopReason(s) # "NONE"
        /\ row.best = s.best /\ row.budget = s.budget
    BY <1>1 DEF IInv, DoneIsFinal, Snapshot, Terminal
  <2>2. ~(BudgetExhausted(s.budget) /\ RejectionsExceeded(s.budget))
    <3>1. s.budget = Used(episodes)
      BY DEF Rehydrate
    <3>. QED  BY <2>1, <3>1, OneLimit
  <2>. HIDE DEF s
  <2>3. DeriveTermination(row) =
          IF RejectionsExceeded(s.budget) THEN "REJECTIONS"
          ELSE IF BudgetExhausted(s.budget) THEN "BUDGET"
          ELSE IF Target # NoTarget /\ s.best # NoBest /\ s.best.result.feasible
               THEN "SUCCESS" ELSE "EXHAUSTED"
    BY <2>1 DEF DeriveTermination
  <2>4. GoalSatisfied(s.best) => Target # NoTarget /\ s.best # NoBest /\ s.best.result.feasible
    BY DEF GoalSatisfied
  <2>. QED  BY <2>1, <2>2, <2>3, <2>4 DEF StopReason, s
<1>. QED  BY <1>1, Invariant, PTL

-----------------------------------------------------------------------------
\* One process at a time, killed and re-run as often as one likes.

\* A lone worker's memory is the whole table, so it never meets a conflict.
SoloInv ==
  \A w \in Workers :
    /\ row.status # "FAILED" /\ reason[w] # "ERROR"
    /\ row.status = "ABSENT" => episodes = EmptyHistory
    /\ pc[w] = "create" => row.status = "ABSENT"
    /\ pc[w] \in {"head", "commit", "save", "final"} =>
         row.status # "ABSENT" /\ local[w].history = episodes

LEMMA SoloInit == Init => SoloInv
BY DEF Init, SoloInv, Absent, Snapshot

LEMMA SoloNext ==
  ASSUME NEW w, Workers = {w}, IInv, SoloInv, [Next]_vars
  PROVE  SoloInv'
<1>0. /\ Built(episodes) /\ TypeOK /\ WorkerOK(w)
      /\ row.status # "FAILED" /\ reason[w] # "ERROR"
      /\ row.status = "ABSENT" => episodes = EmptyHistory
      /\ pc[w] = "create" => row.status = "ABSENT"
      /\ pc[w] \in {"head", "commit", "save", "final"} =>
           row.status # "ABSENT" /\ local[w].history = episodes
  BY DEF IInv, SoloInv
<1>t. /\ DOMAIN local = Workers /\ w \in Workers
      /\ pc \in [Workers -> Locations] /\ reason \in [Workers -> Reasons]
  BY <1>0 DEF TypeOK
<1>f. Fresh.history = EmptyHistory /\ Rehydrate(episodes).history = episodes
  BY <1>0, FreshOK, RehydrateType
<1>1. ASSUME EnterCell(w) PROVE SoloInv'
  BY <1>0, <1>1, <1>t DEF EnterCell, Goto, SoloInv
<1>2. ASSUME EnsureLoad(w) \/ Resume(w) PROVE SoloInv'
  <2>1. /\ row.status # "ABSENT" /\ pc' = [pc EXCEPT ![w] = "head"]
        /\ local' = [local EXCEPT ![w] = Rehydrate(episodes)]
        /\ UNCHANGED <<row, episodes, reason>>
    BY <1>2 DEF EnsureLoad, Resume, Goto
  <2>2. local'[w].history = episodes /\ pc'[w] = "head"
    BY <1>f, <1>t, <2>1
  <2>. QED  BY <1>0, <1>t, <2>1, <2>2 DEF SoloInv
<1>3. ASSUME EnsureMissing(w) PROVE SoloInv'
  BY <1>0, <1>3, <1>t DEF EnsureMissing, Goto, SoloInv
<1>4. ASSUME Create(w) PROVE SoloInv'
  <2>1. episodes = EmptyHistory
    BY <1>0, <1>4 DEF Create, Goto
  <2>2. row'.status = "PENDING" /\ local'[w].history = EmptyHistory /\ pc'[w] = "head"
    BY <1>4, <1>f, <1>t DEF Create, Goto, Snapshot
  <2>. QED  BY <1>0, <1>4, <1>t, <2>1, <2>2 DEF Create, SoloInv
<1>5. ASSUME Stop(w) PROVE SoloInv'
  <2>1. StopReason(local[w]) # "ERROR"
    BY DEF StopReason
  <2>. QED  BY <1>0, <1>5, <1>t, <2>1 DEF Stop, Goto, SoloInv
<1>6. ASSUME Propose(w) PROVE SoloInv'
  BY <1>0, <1>6, <1>t DEF Propose, Goto, SoloInv
<1>7. ASSUME Append(w) PROVE SoloInv'
  <2>1. local[w].history = episodes /\ row.status # "ABSENT"
    BY <1>0, <1>7 DEF Append, Goto
  <2>2. episodes' = Extend(local[w].history, local[w].step_idx, pending[w])
    BY <1>7, <2>1 DEF Append
  <2>3. local'[w].history = episodes' /\ pc'[w] = "save"
    BY <1>7, <1>t, <2>2 DEF Append, Advanced, Goto
  <2>. QED  BY <1>0, <1>7, <1>t, <2>1, <2>3 DEF Append, SoloInv
<1>8. ASSUME Conflict(w) PROVE FALSE
  <2>1. local[w].history = episodes /\ local[w].step_idx \in DOMAIN episodes
    BY <1>0, <1>8 DEF Conflict, Goto
  <2>2. local[w].step_idx = NextIdx(episodes)
    BY <1>t, <2>1, WorkerFacts
  <2>. QED  BY <1>0, <2>1, <2>2, BuiltShape
<1>9. ASSUME SaveProgress(w) PROVE SoloInv'
  <2>1. row'.status = "EXECUTING"
    BY <1>9 DEF SaveProgress, Snapshot
  <2>. QED  BY <1>0, <1>9, <1>t, <2>1 DEF SaveProgress, Goto, SoloInv
<1>10. ASSUME SaveFinal(w) PROVE SoloInv'
  <2>1. row'.status = "DONE" /\ pc'[w] = "idle" /\ reason'[w] = "NONE"
    BY <1>0, <1>10, <1>t DEF SaveFinal, Goto, Snapshot
  <2>. QED  BY <1>0, <1>10, <1>t, <2>1 DEF SaveFinal, SoloInv
<1>11. ASSUME Crash(w) PROVE SoloInv'
  <2>1. pc'[w] = "idle" /\ reason'[w] = "NONE" /\ UNCHANGED <<row, episodes>>
    BY <1>11, <1>t DEF Crash
  <2>. QED  BY <1>0, <1>t, <2>1 DEF SoloInv
<1>12. CASE UNCHANGED vars
  BY <1>12 DEF vars, SoloInv
<1>. QED  BY <1>1, <1>2, <1>3, <1>4, <1>5, <1>6, <1>7, <1>8, <1>9, <1>10, <1>11, <1>12
             DEF Next, Proceed

\* While a run is only ever executed by one process at a time, what execute_cell
\* skips is finished: a cell is never taken for done, or for failed, because of
\* where an earlier process was killed. (Two at once break this: RivalWorkers.)
THEOREM SoloCellsAreFinished ==
  ASSUME NEW w, Workers = {w}
  PROVE  Spec => []SkippedMeansFinished
<1>1. Init => SoloInv
  BY SoloInit
<1>2. IInv /\ SoloInv /\ [Next]_vars => SoloInv'
  BY SoloNext
<1>3. IInv /\ SoloInv => SkippedMeansFinished
  <2>. SUFFICES ASSUME IInv, SoloInv, DeriveTermination(row) # "NONE"
                PROVE  Terminal(episodes)
    BY DEF SkippedMeansFinished
  <2>1. row.status # "FAILED" /\ DoneIsFinal
    BY DEF SoloInv, IInv
  <2>2. row.status = "DONE"
    BY <2>1 DEF DeriveTermination
  <2>. QED  BY <2>1, <2>2 DEF DoneIsFinal
<1>. QED  BY <1>1, <1>2, <1>3, Invariant, PTL DEF Spec

-----------------------------------------------------------------------------
\* RunRecord's copies of the operators of History are those operators.
LEMMA RecordOperators ==
  /\ Record!EmptyHistory = EmptyHistory
  /\ \A h : Record!NextIdx(h) = NextIdx(h)
  /\ \A h : Record!Rehydrate(h) = Rehydrate(h)
  /\ \A h : Record!Terminal(h) <=> Terminal(h)
  /\ \A s : Record!NextEpisodes(s) = NextEpisodes(s)
  /\ \A h, i, e : Record!Extend(h, i, e) = Extend(h, i, e)
<1>1. Record!EmptyHistory = EmptyHistory
  BY DEF EmptyHistory, Record!EmptyHistory
<1>2. \A h : Record!NextIdx(h) = NextIdx(h)
  BY Zenon DEF NextIdx, Record!NextIdx, Max, Record!Max
<1>3. \A h : Record!Evaluated(h) = Evaluated(h)
  BY DEF Evaluated, Record!Evaluated
<1>3a. \A S : Record!Cardinality(S) = Cardinality(S)
  BY Zenon DEF Cardinality, Record!Cardinality
<1>4. \A r, t : Record!Beats(r, t) <=> Beats(r, t)
  BY DEF Beats, Record!Beats
<1>5. \A h, i : Record!IsIncumbent(h, i) <=> IsIncumbent(h, i)
  BY <1>3, <1>4 DEF IsIncumbent, Record!IsIncumbent
<1>6. \A h : Record!RecomputeBest(h) = RecomputeBest(h)
  BY <1>3, <1>5 DEF RecomputeBest, Record!RecomputeBest
<1>7. \A h : Record!Used(h) = Used(h)
  BY <1>3, <1>3a DEF Used, Record!Used
<1>8. \A h : Record!Rehydrate(h) = Rehydrate(h)
  BY <1>2, <1>6, <1>7 DEF Rehydrate, Record!Rehydrate
<1>9. \A s : Record!StopReason(s) = StopReason(s)
  <2>1. \A h : Record!Stuck(h) <=> Stuck(h)
    BY <1>3, <1>3a DEF Stuck, Record!Stuck
  <2>2. \A b : /\ Record!BudgetExhausted(b) <=> BudgetExhausted(b)
               /\ Record!RejectionsExceeded(b) <=> RejectionsExceeded(b)
               /\ Record!GoalSatisfied(b) <=> GoalSatisfied(b)
    BY DEF BudgetExhausted, RejectionsExceeded, GoalSatisfied, Record!BudgetExhausted,
           Record!RejectionsExceeded, Record!GoalSatisfied
  <2>. QED  BY <2>1, <2>2 DEF StopReason, Record!StopReason
<1>10. \A h : Record!Terminal(h) <=> Terminal(h)
  BY <1>8, <1>9 DEF Terminal, Record!Terminal
<1>11. \A s : Record!NextEpisodes(s) = NextEpisodes(s)
  <2>1. \A r, b : Record!BetterThan(r, b) <=> BetterThan(r, b)
    BY <1>4 DEF BetterThan, Record!BetterThan
  <2>2. \A c : Record!Outcome(c) = Outcome(c)
    BY DEF Outcome, Record!Outcome
  <2>3. \A c, t, b : Record!MakeEpisode(c, t, b) = MakeEpisode(c, t, b)
    BY <2>1, <2>2 DEF MakeEpisode, Record!MakeEpisode
  <2>4. \A a, h : Record!Guarded(a, h) = Guarded(a, h)
    BY <1>3 DEF Guarded, Record!Guarded, IsDuplicate, Record!IsDuplicate
  <2>. QED  BY <2>3, <2>4 DEF NextEpisodes, Record!NextEpisodes
<1>12. \A h, i, e : Record!Extend(h, i, e) = Extend(h, i, e)
  BY DEF Extend, Record!Extend
<1>. QED  BY <1>1, <1>2, <1>8, <1>10, <1>11, <1>12

\* Only append_episode's insert changes the table, and it makes one step of
\* the sequential run.
LEMMA TableStep == IInv /\ [Next]_vars => [Record!Step]_episodes
<1>. SUFFICES ASSUME IInv, [Next]_vars PROVE Record!Step \/ UNCHANGED episodes
  OBVIOUS
<1>0. Built(episodes) /\ \A w \in Workers : WorkerOK(w)
  BY DEF IInv
<1>1. ASSUME NEW w \in Workers, Append(w) PROVE Record!Step
  <2>1. ~Terminal(local[w].history) /\ pending[w] \in NextEpisodes(local[w])
    BY <1>0, <1>1 DEF Append, Goto, WorkerOK
  <2>2. /\ local[w].history = episodes /\ local[w] = Rehydrate(episodes)
        /\ local[w].step_idx = NextIdx(episodes)
    BY <1>0, <1>1, WorkerFacts, PrefixOfBuilt DEF Append
  <2>3. pending[w] \in NextEpisodes(Rehydrate(episodes)) /\ ~Terminal(episodes)
        /\ episodes' = Extend(episodes, NextIdx(episodes), pending[w])
    BY <1>1, <2>1, <2>2 DEF Append
  <2>. QED  BY <2>3, RecordOperators DEF Record!Step
<1>2. ASSUME NEW w \in Workers, EnterCell(w) \/ Resume(w) \/ Crash(w) PROVE UNCHANGED episodes
  BY <1>2 DEF EnterCell, Resume, Crash
<1>3. ASSUME NEW w \in Workers, Proceed(w), ~Append(w) PROVE UNCHANGED episodes
  BY <1>3 DEF Proceed, EnsureLoad, EnsureMissing, Create, Stop, Propose, Conflict,
              SaveProgress, SaveFinal
<1>4. CASE UNCHANGED vars
  BY <1>4 DEF vars
<1>. QED  BY <1>1, <1>2, <1>3, <1>4 DEF Next

\* Refinement: the episodes table of a run that any number of processes execute
\* and crash in is the log of one sequential, atomic run.
THEOREM Linearizable == Spec => ImplementsRunRecord
<1>1. Init => Record!Init
  BY RecordOperators DEF Init, Record!Init
<1>. QED  BY <1>1, TableStep, Invariant, PTL DEF Spec, ImplementsRunRecord, Record!Spec
=============================================================================
