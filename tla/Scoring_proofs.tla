--------------------------- MODULE Scoring_proofs ---------------------------
(***************************************************************************)
(* For any points, any gaps and any allowance: however the best result is  *)
(* computed it is one, the regret curve and its threshold take nothing     *)
(* back, and no proposal that failed changes a detector's verdict.         *)
(***************************************************************************)
EXTENDS Scoring, Induction

Evaluations(h) == Cardinality(Evaluated(h))

\* A history of the stored shape.
Stored(h) == IsHistory(h) /\ IsFiniteSet(DOMAIN h)

Values == Int \cup {NoValue}

\* i is an index after all of a history's.
Beyond(h, i) == \A k \in DOMAIN h : k < i

\* One more episode, after all others, gap or not.
LEMMA ExtendBeyond ==
  ASSUME NEW h, NEW i \in Nat, IsHistory(h), Beyond(h, i), NEW e \in Episode
  PROVE  /\ Extend(h, i, e)[i] = e
         /\ \A k \in DOMAIN h : Extend(h, i, e)[k] = h[k]
         /\ IsHistory(Extend(h, i, e))
         /\ Evaluated(Extend(h, i, e)) =
              IF e.result = ToolError THEN Evaluated(h) ELSE Evaluated(h) \cup {i}
         /\ i \notin DOMAIN h /\ i \notin Evaluated(h)
<1>1. DOMAIN Extend(h, i, e) = DOMAIN h \cup {i}
  BY DEF Extend
<1>2. i \notin DOMAIN h /\ i \notin Evaluated(h)
  BY DEF Evaluated, Beyond
<1>3. Extend(h, i, e)[i] = e /\ \A k \in DOMAIN h : Extend(h, i, e)[k] = h[k]
  BY <1>2 DEF Extend
<1>4. IsHistory(Extend(h, i, e))
  BY <1>1 DEF Extend, IsHistory
<1>5. Evaluated(Extend(h, i, e)) =
        IF e.result = ToolError THEN Evaluated(h) ELSE Evaluated(h) \cup {i}
  BY <1>1, <1>2, <1>3 DEF Evaluated
<1>. QED  BY <1>2, <1>3, <1>4, <1>5

-----------------------------------------------------------------------------
\* The incumbent, whatever gaps the indices have.

\* Beats is a strict weak order, whichever the direction.
LEMMA BeatsOrder ==
  ASSUME NEW r \in Result, NEW s \in Result, NEW t \in Result
  PROVE  /\ Beats(r, s) => ~Beats(s, r)
         /\ Beats(r, s) /\ ~Beats(t, s) => Beats(r, t)
BY LimitsAssumption DEF Beats, Result

\* b is the incumbent of h.
Leads(h, b) ==
  \/ Evaluated(h) = {} /\ b = NoBest
  \/ \E i \in Evaluated(h) : IsIncumbent(h, i) /\ b = [episode_idx |-> i, result |-> h[i].result]

\* There is no other.
LEMMA LeaderIsBest ==
  ASSUME NEW h, Stored(h), NEW b, Leads(h, b)
  PROVE  RecomputeBest(h) = b /\ b \in Best \cup {NoBest}
<1>1. CASE Evaluated(h) = {}
  BY <1>1 DEF Leads, RecomputeBest
<1>2. CASE Evaluated(h) # {}
  <2>1. \A k \in Evaluated(h) : k \in DOMAIN h /\ k \in Nat /\ h[k].result \in Result
    BY DEF Stored, IsHistory, Evaluated, Episode, Outcomes
  <2>2. PICK i \in Evaluated(h) : IsIncumbent(h, i) /\ b = [episode_idx |-> i, result |-> h[i].result]
    BY <1>2 DEF Leads
  <2>3. ASSUME NEW k \in DOMAIN h, IsIncumbent(h, k) PROVE k = i
    BY <2>1, <2>2, <2>3 DEF IsIncumbent
  <2>4. (CHOOSE k \in DOMAIN h : IsIncumbent(h, k)) = i
    BY <2>1, <2>2, <2>3
  <2>. QED  BY <1>2, <2>1, <2>2, <2>4 DEF RecomputeBest, Best
<1>. QED  BY <1>1, <1>2

\* What better_than takes for the next incumbent is.
LEMMA LeaderExtend ==
  ASSUME NEW h, Stored(h), NEW i \in Nat, Beyond(h, i), NEW e \in Episode, NEW b, Leads(h, b)
  PROVE  Leads(Extend(h, i, e), IF e.result # ToolError /\ BetterThan(e.result, b)
                                THEN [episode_idx |-> i, result |-> e.result] ELSE b)
<1> DEFINE g == Extend(h, i, e)
<1>1. g[i] = e /\ i \notin Evaluated(h) /\ \A k \in Evaluated(h) : g[k] = h[k]
  BY ExtendBeyond DEF Stored, Evaluated
<1>2. Evaluated(g) = IF e.result = ToolError THEN Evaluated(h) ELSE Evaluated(h) \cup {i}
  BY ExtendBeyond DEF Stored
<1>3. \A k \in Evaluated(h) : k \in Nat /\ k < i /\ h[k].result \in Result
  BY DEF Stored, IsHistory, Evaluated, Episode, Outcomes, Beyond
<1>. HIDE DEF g
<1>4. CASE Evaluated(h) = {}
  <2>1. b = NoBest /\ BetterThan(e.result, b)
    BY <1>4 DEF Leads, BetterThan
  <2>2. e.result # ToolError => Evaluated(g) = {i} /\ IsIncumbent(g, i)
    BY <1>2, <1>4 DEF IsIncumbent
  <2>. QED  BY <1>1, <1>2, <1>4, <2>1, <2>2 DEF Leads, g
<1>5. CASE Evaluated(h) # {}
  <2>1. PICK l \in Evaluated(h) : IsIncumbent(h, l) /\ b = [episode_idx |-> l, result |-> h[l].result]
    BY <1>5 DEF Leads
  <2>2. BetterThan(e.result, b) <=> Beats(e.result, h[l].result)
    <3>1. b \in Best
      BY <1>3, <2>1 DEF Best
    <3>. QED  BY <2>1, <3>1, SentinelAssumption DEF BetterThan
  <2>3. CASE e.result # ToolError /\ Beats(e.result, h[l].result)
    <3>1. e.result \in Result
      BY <2>3 DEF Episode, Outcomes
    <3>2. ASSUME NEW j \in Evaluated(h) PROVE Beats(e.result, h[j].result)
      <4>1. j = l \/ ~Beats(h[j].result, h[l].result)
        <5>1. j < l => Beats(h[l].result, h[j].result)
          BY <2>1 DEF IsIncumbent
        <5>2. j > l => ~Beats(h[j].result, h[l].result)
          BY <2>1 DEF IsIncumbent
        <5>3. j = l \/ j < l \/ j > l
          BY <1>3
        <5>. QED  BY <1>3, <5>1, <5>2, <5>3, BeatsOrder
      <4>. QED  BY <1>3, <2>3, <3>1, <4>1, BeatsOrder
    <3>3. IsIncumbent(g, i)
      BY <1>1, <1>2, <1>3, <2>3, <3>2 DEF IsIncumbent
    <3>4. i \in Evaluated(g)
      BY <1>2, <2>3
    <3>5. Leads(g, [episode_idx |-> i, result |-> e.result])
      BY <1>1, <3>3, <3>4 DEF Leads
    <3>. QED  BY <2>2, <2>3, <3>5 DEF g
  <2>4. CASE ~(e.result # ToolError /\ Beats(e.result, h[l].result))
    <3>1. l \in Evaluated(g) /\ g[l] = h[l]
      BY <1>1, <1>2
    <3>2. IsIncumbent(g, l)
      BY <1>1, <1>2, <1>3, <2>1, <2>4, <3>1 DEF IsIncumbent
    <3>3. Leads(g, b)
      BY <2>1, <3>1, <3>2 DEF Leads
    <3>. QED  BY <2>2, <2>4, <3>3 DEF g
  <2>. QED  BY <2>3, <2>4
<1>. QED  BY <1>4, <1>5

-----------------------------------------------------------------------------
\* The order of the evaluations.

\* There is one k-th evaluation, for each k there is to be.
LEMMA KthIs ==
  ASSUME NEW h, Stored(h)
  PROVE  /\ Evaluations(h) \in Nat
         /\ \A k \in 1 .. Evaluations(h) :
              /\ Kth(h, k) \in Evaluated(h)
              /\ Cardinality(Smaller(Evaluated(h), Kth(h, k))) = k - 1
              /\ \A i \in Evaluated(h) : Cardinality(Smaller(Evaluated(h), i)) = k - 1 => i = Kth(h, k)
<1> DEFINE S == Evaluated(h)
<1>1. S \subseteq Int /\ IsFiniteSet(S)
  <2>1. S \subseteq DOMAIN h /\ DOMAIN h \subseteq Nat
    BY DEF Stored, IsHistory, Evaluated
  <2>. QED  BY <2>1, FS_Subset DEF Stored
<1>. HIDE DEF S
<1>2. Cardinality(S) \in Nat
  BY <1>1, Ranks
<1>3. ASSUME NEW k \in 1 .. Cardinality(S) PROVE \E i \in S : Cardinality(Smaller(S, i)) = k - 1
  BY <1>1, <1>3, Ranks
<1>4. ASSUME NEW i \in S, NEW j \in S, Cardinality(Smaller(S, i)) = Cardinality(Smaller(S, j))
      PROVE  i = j
  <2>1. \A v \in S : Cardinality(Smaller(S, v)) \in 0 .. Cardinality(S) - 1
    BY <1>1, Ranks
  <2>2. \A v, w \in S : v < w => Cardinality(Smaller(S, v)) < Cardinality(Smaller(S, w))
    BY <1>1, Ranks
  <2> DEFINE c == Cardinality(Smaller(S, i))
  <2>3. c \in Int /\ c = Cardinality(Smaller(S, j)) /\ i \in Int /\ j \in Int
    BY <1>1, <1>2, <1>4, <2>1
  <2>4. (i < j => c < c) /\ (j < i => c < c)
    BY <2>2, <2>3
  <2>. HIDE DEF c
  <2>. QED  BY <2>3, <2>4
<1>5. ASSUME NEW k \in 1 .. Cardinality(S)
      PROVE  /\ Kth(h, k) \in S /\ Cardinality(Smaller(S, Kth(h, k))) = k - 1
             /\ \A i \in S : Cardinality(Smaller(S, i)) = k - 1 => i = Kth(h, k)
  <2>1. Kth(h, k) = CHOOSE i \in S : Cardinality(Smaller(S, i)) = k - 1
    BY DEF Kth, Smaller, S
  <2>2. Kth(h, k) \in S /\ Cardinality(Smaller(S, Kth(h, k))) = k - 1
    BY <1>3, <2>1
  <2>. QED  BY <1>4, <2>2
<1>. QED  BY <1>2, <1>5 DEF S, Evaluations

\* The results are results.
LEMMA ResultsType ==
  ASSUME NEW h, Stored(h)
  PROVE  /\ Len(Results(h)) = Evaluations(h) /\ Evaluations(h) \in Nat
         /\ \A k \in 1 .. Evaluations(h) : Results(h)[k] \in Result
<1>1. Evaluations(h) \in Nat
  BY KthIs
<1>2. Results(h) = [k \in 1 .. Evaluations(h) |-> h[Kth(h, k)].result]
  BY DEF Results, Evaluations
<1>3. ASSUME NEW k \in 1 .. Evaluations(h) PROVE h[Kth(h, k)].result \in Result
  <2>1. Kth(h, k) \in Evaluated(h)
    BY KthIs
  <2>. QED  BY <2>1 DEF Evaluated, Stored, IsHistory, Episode, Outcomes
<1>. QED  BY <1>1, <1>2, <1>3

\* A history that goes on: i comes after all that was, and e is at i.
LEMMA ResultsExtend ==
  ASSUME NEW h, Stored(h), NEW i \in Nat, Beyond(h, i), NEW e \in Episode
  PROVE  LET g == Extend(h, i, e)
             n == Evaluations(h)
         IN  /\ Stored(g)
             /\ e.result = ToolError => Evaluations(g) = n /\ Results(g) = Results(h)
             /\ e.result # ToolError =>
                  /\ Evaluations(g) = n + 1 /\ Results(g)[n + 1] = e.result
                  /\ \A k \in 1 .. n : Results(g)[k] = Results(h)[k]
<1> DEFINE g == Extend(h, i, e)
           n == Evaluations(h)
<1>1. /\ g[i] = e /\ (\A k \in DOMAIN h : g[k] = h[k]) /\ IsHistory(g)
      /\ DOMAIN g = DOMAIN h \cup {i}
  <2>1. IsHistory(h)
    BY DEF Stored
  <2>2. g[i] = e /\ \A k \in DOMAIN h : g[k] = h[k]
    BY DEF Extend, Beyond
  <2>3. IsHistory(g)
    BY <2>1, ExtendBeyond
  <2>4. DOMAIN g = DOMAIN h \cup {i}
    BY DEF Extend
  <2>. QED  BY <2>2, <2>3, <2>4
<1>2. /\ Evaluated(g) = IF e.result = ToolError THEN Evaluated(h) ELSE Evaluated(h) \cup {i}
      /\ i \notin DOMAIN h /\ i \notin Evaluated(h)
  <2>1. i \notin DOMAIN h /\ i \notin Evaluated(h)
    BY ExtendBeyond DEF Stored
  <2>. QED  BY <1>1, <2>1 DEF Evaluated
<1>. HIDE DEF g
<1>3. Stored(g)
  <2>1. IsFiniteSet(DOMAIN h \cup {i})
    BY FS_AddElement DEF Stored
  <2>. QED  BY <1>1, <2>1 DEF Stored
<1>4. \A k \in Evaluated(h) : k \in DOMAIN h /\ k \in Nat /\ k < i /\ g[k] = h[k]
  BY <1>1 DEF Evaluated, Stored, IsHistory, Beyond
<1>5. ASSUME e.result = ToolError PROVE Evaluations(g) = n /\ Results(g) = Results(h)
  <2>1. Evaluated(g) = Evaluated(h)
    BY <1>2, <1>5
  <2>2. Evaluations(g) = n
    BY <2>1 DEF Evaluations
  <2>3. \A k \in 1 .. n : Kth(g, k) = Kth(h, k) /\ g[Kth(h, k)] = h[Kth(h, k)]
    <3>1. \A k : Kth(g, k) = Kth(h, k)
      BY <2>1 DEF Kth
    <3>. QED  BY <1>4, <3>1, KthIs
  <2>4. \A k \in 1 .. n : g[Kth(g, k)].result = h[Kth(h, k)].result
    BY <2>3
  <2>5. /\ Results(g) = [k \in 1 .. n |-> g[Kth(g, k)].result]
        /\ Results(h) = [k \in 1 .. n |-> h[Kth(h, k)].result]
    BY <2>2 DEF Results, Evaluations
  <2>. HIDE DEF n
  <2>. QED  BY <2>2, <2>4, <2>5
<1>6. ASSUME e.result # ToolError
      PROVE  /\ Evaluations(g) = n + 1 /\ Results(g)[n + 1] = e.result
             /\ \A k \in 1 .. n : Results(g)[k] = Results(h)[k]
  <2>1. Evaluated(g) = Evaluated(h) \cup {i}
    BY <1>2, <1>6
  <2>2. n \in Nat
    BY KthIs
  <2>3. Evaluations(g) = n + 1
    <3>1. IsFiniteSet(Evaluated(h))
      BY FS_Subset DEF Stored, Evaluated
    <3>. QED  BY <1>2, <2>1, <3>1, FS_AddElement DEF Evaluations
  <2>4. Smaller(Evaluated(g), i) = Evaluated(h)
    BY <1>4, <2>1 DEF Smaller
  <2>5. \A j \in Evaluated(h) : Smaller(Evaluated(g), j) = Smaller(Evaluated(h), j)
    BY <1>4, <2>1 DEF Smaller
  <2>. HIDE DEF n
  <2>6. Results(g) = [k \in 1 .. n + 1 |-> g[Kth(g, k)].result]
    BY <2>3 DEF Results, Evaluations
  <2>7. Results(h) = [k \in 1 .. n |-> h[Kth(h, k)].result]
    BY DEF Results, Evaluations, n
  <2>8. Kth(g, n + 1) = i
    <3>1. n + 1 \in 1 .. Evaluations(g) /\ (n + 1) - 1 = n
      BY <2>2, <2>3
    <3>2. Cardinality(Smaller(Evaluated(g), i)) = n /\ i \in Evaluated(g)
      BY <2>1, <2>4 DEF n, Evaluations
    <3>. QED  BY <1>3, <3>1, <3>2, KthIs
  <2>9. ASSUME NEW k \in 1 .. n PROVE Kth(g, k) = Kth(h, k)
    <3>1. k \in 1 .. Evaluations(g)
      BY <2>2, <2>3
    <3>2. Kth(h, k) \in Evaluated(h) /\ Cardinality(Smaller(Evaluated(h), Kth(h, k))) = k - 1
      BY KthIs DEF n
    <3>3. Kth(h, k) \in Evaluated(g) /\ Cardinality(Smaller(Evaluated(g), Kth(h, k))) = k - 1
      BY <2>1, <2>5, <3>2
    <3>. QED  BY <1>3, <3>1, <3>3, KthIs
  <2>10. ASSUME NEW k \in 1 .. n PROVE Results(g)[k] = Results(h)[k]
    <3>1. k \in 1 .. n + 1 /\ Kth(g, k) = Kth(h, k) /\ g[Kth(h, k)] = h[Kth(h, k)]
      BY <1>4, <2>2, <2>9, KthIs DEF n
    <3>. QED  BY <2>6, <2>7, <3>1
  <2>11. Results(g)[n + 1] = e.result
    BY <1>1, <2>2, <2>6, <2>8
  <2>. QED  BY <2>3, <2>10, <2>11
<1>. QED  BY <1>3, <1>5, <1>6 DEF g

-----------------------------------------------------------------------------
\* The curve.

LEMMA KeepBestType ==
  ASSUME NEW b \in Values, NEW r \in Result PROVE KeepBest(b, r) \in Values
BY DEF KeepBest, Values, Result

\* What there is to keep after k evaluations.
Kept(h, k) == IF k = 0 THEN NoValue ELSE Curve(h)[k]

LEMMA CurveIs ==
  ASSUME NEW h, Stored(h)
  PROVE  /\ Evaluations(h) \in Nat /\ DOMAIN Curve(h) = 1 .. Evaluations(h)
         /\ Len(Curve(h)) = Evaluations(h)
         /\ \A k \in 0 .. Evaluations(h) : Kept(h, k) \in Values
         /\ \A k \in 1 .. Evaluations(h) :
              Curve(h)[k] = Kept(h, k) /\ Kept(h, k) = KeepBest(Kept(h, k - 1), Results(h)[k])
<1> DEFINE rs == Results(h)
           m == Len(rs)
           next(k, b) == KeepBest(b, rs[k])
           step == [p \in (1 .. m) \X Values |-> next(p[1], p[2])]
           Is(q) == q = [k \in 0 .. m |-> IF k = 0 THEN NoValue ELSE KeepBest(q[k - 1], rs[k])]
           Q == CHOOSE q : Is(q)
<1>1. m = Evaluations(h) /\ m \in Nat /\ \A k \in 1 .. m : rs[k] \in Result
  BY ResultsType
<1>2. Curve(h) = [k \in 1 .. m |-> Q[k]]
  BY DEF Curve
<1>. HIDE DEF rs, m
<1>3. ASSUME NEW k \in 1 .. m, NEW b \in Values
      PROVE  next(k, b) \in Values /\ step[<<k, b>>] = next(k, b)
  BY <1>1, KeepBestType
<1>4. step \in [(1 .. m) \X Values -> Values]
  <2>1. \A p \in (1 .. m) \X Values : p[1] \in 1 .. m /\ p[2] \in Values /\ p = <<p[1], p[2]>>
    OBVIOUS
  <2>2. \A p \in (1 .. m) \X Values : next(p[1], p[2]) \in Values
    <3>. HIDE DEF next, step
    <3>1. ASSUME NEW p \in (1 .. m) \X Values PROVE next(p[1], p[2]) \in Values
      <4>1. p[1] \in 1 .. m /\ p[2] \in Values
        BY <2>1
      <4>. QED  BY <1>3, <4>1
    <3>. QED  BY <3>1
  <2>. HIDE DEF next
  <2>. QED  BY <2>2
<1>4a. PICK f : Follows(f, m, Values, NoValue, step)
  <2>1. NoValue \in Values
    BY DEF Values
  <2>. HIDE DEF step
  <2>. QED  BY <1>1, <1>4, <2>1, Solution
<1>5. /\ f = [k \in 0 .. m |-> f[k]] /\ f[0] = NoValue
      /\ \A k \in 1 .. m : /\ f[k - 1] \in Values /\ f[k] \in Values
                           /\ f[k] = step[<<k, f[k - 1]>>]
  <2>. HIDE DEF step
  <2>. QED  BY <1>4a DEF Follows
<1>6. Is(f)
  <2>1. \A k \in 1 .. m : f[k] = next(k, f[k - 1])
    <3>. HIDE DEF next, step
    <3>. QED  BY <1>3, <1>5
  <2>2. ASSUME NEW k \in 0 .. m
        PROVE  f[k] = IF k = 0 THEN NoValue ELSE KeepBest(f[k - 1], rs[k])
    <3>1. CASE k = 0
      BY <1>5, <3>1
    <3>2. CASE k # 0
      <4>1. k \in 1 .. m
        BY <1>1, <3>2
      <4>. QED  BY <2>1, <3>2, <4>1
    <3>. QED  BY <3>1, <3>2
  <2>3. [k \in 0 .. m |-> f[k]] = [k \in 0 .. m |-> IF k = 0 THEN NoValue ELSE KeepBest(f[k - 1], rs[k])]
    BY <2>2
  <2>. QED  BY <1>5, <2>3
<1>7. Is(Q)
  <2>. HIDE DEF Is
  <2>. QED  BY <1>6
<1>. HIDE DEF Q
<1>8. Q[0] = NoValue /\ \A k \in 1 .. m : Q[k] = KeepBest(Q[k - 1], rs[k])
  <2>1. \A k \in 0 .. m : Q[k] = IF k = 0 THEN NoValue ELSE KeepBest(Q[k - 1], rs[k])
    BY <1>7
  <2>2. 0 \in 0 .. m /\ \A k \in 1 .. m : k \in 0 .. m /\ k # 0
    BY <1>1
  <2>. QED  BY <2>1, <2>2
<1>. HIDE DEF Is
<1> DEFINE S == {k \in 0 .. m : Q[k] \in Values}
<1>9. \A k \in 0 .. m : k \in S
  <2>1. 0 \in S
    BY <1>1, <1>8 DEF Values
  <2>2. ASSUME NEW k \in 1 .. m, k - 1 \in S PROVE k \in S
    <3>1. Q[k] \in Values /\ k \in 0 .. m
      BY <1>1, <1>8, <2>2, KeepBestType
    <3>. QED  BY <3>1
  <2>. HIDE DEF S
  <2>. QED  BY <1>1, <2>1, <2>2, Along
<1>10. ASSUME NEW k \in 0 .. m PROVE Kept(h, k) = Q[k] /\ Q[k] \in Values
  <2>1. CASE k = 0
    BY <1>8, <2>1 DEF Kept, Values
  <2>2. CASE k # 0
    <3>1. k \in 1 .. m
      BY <1>1, <2>2
    <3>. QED  BY <1>2, <1>9, <2>2, <3>1 DEF Kept
  <2>. QED  BY <2>1, <2>2
<1>11. ASSUME NEW k \in 1 .. m
       PROVE  Curve(h)[k] = Kept(h, k) /\ Kept(h, k) = KeepBest(Kept(h, k - 1), rs[k])
  <2>1. k \in 0 .. m /\ k - 1 \in 0 .. m /\ k # 0
    BY <1>1
  <2>2. Kept(h, k) = Q[k] /\ Kept(h, k - 1) = Q[k - 1]
    BY <1>10, <2>1
  <2>3. Curve(h)[k] = Kept(h, k)
    BY <2>1 DEF Kept
  <2>. QED  BY <1>8, <2>2, <2>3
<1>12. DOMAIN Curve(h) = 1 .. m /\ Len(Curve(h)) = m
  BY <1>1, <1>2
<1>. QED  BY <1>1, <1>10, <1>11, <1>12 DEF rs

\* The curve of a longer history: one more entry per evaluation.
LEMMA CurveExtend ==
  ASSUME NEW h, Stored(h), NEW i \in Nat, Beyond(h, i), NEW e \in Episode
  PROVE  LET g == Extend(h, i, e)
             n == Evaluations(h)
         IN  /\ e.result = ToolError => Evaluations(g) = n /\ Curve(g) = Curve(h)
             /\ e.result # ToolError =>
                  /\ Evaluations(g) = n + 1 /\ Kept(g, n + 1) = KeepBest(Kept(h, n), e.result)
                  /\ \A k \in 0 .. n : Kept(g, k) = Kept(h, k)
<1> DEFINE g == Extend(h, i, e)
           n == Evaluations(h)
<1>1. /\ Stored(g)
      /\ e.result = ToolError => Evaluations(g) = n /\ Results(g) = Results(h)
      /\ e.result # ToolError =>
           /\ Evaluations(g) = n + 1 /\ Results(g)[n + 1] = e.result
           /\ \A k \in 1 .. n : Results(g)[k] = Results(h)[k]
  BY ResultsExtend
<1>. HIDE DEF g
<1>2. ASSUME e.result = ToolError PROVE Evaluations(g) = n /\ Curve(g) = Curve(h)
  BY <1>1, <1>2 DEF Curve
<1>3. ASSUME e.result # ToolError
      PROVE  /\ Evaluations(g) = n + 1 /\ Kept(g, n + 1) = KeepBest(Kept(h, n), e.result)
             /\ \A k \in 0 .. n : Kept(g, k) = Kept(h, k)
  <2>1. n \in Nat
    BY CurveIs
  <2> DEFINE S == {k \in 0 .. n : Kept(g, k) = Kept(h, k)}
  <2>2. \A k \in 0 .. n : k \in S
    <3>1. 0 \in S
      BY <2>1 DEF Kept
    <3>2. ASSUME NEW k \in 1 .. n, k - 1 \in S PROVE k \in S
      <4>1. k \in 1 .. Evaluations(g) /\ Results(g)[k] = Results(h)[k] /\ k \in 0 .. n
        BY <1>1, <1>3, <2>1
      <4>2. Kept(g, k) = KeepBest(Kept(g, k - 1), Results(g)[k])
        BY <1>1, <4>1, CurveIs
      <4>3. Kept(h, k) = KeepBest(Kept(h, k - 1), Results(h)[k])
        BY CurveIs
      <4>. QED  BY <3>2, <4>1, <4>2, <4>3
    <3>. HIDE DEF S, n
    <3>. QED  BY <2>1, <3>1, <3>2, Along
  <2>3. \A k \in 0 .. n : Kept(g, k) = Kept(h, k)
    BY <2>2
  <2>. HIDE DEF S
  <2>4. n + 1 \in 1 .. Evaluations(g) /\ (n + 1) - 1 = n /\ n \in 0 .. n
    <3>. HIDE DEF n
    <3>. QED  BY <1>1, <1>3, <2>1
  <2>5. Kept(g, n + 1) = KeepBest(Kept(g, (n + 1) - 1), Results(g)[n + 1])
    <3>. HIDE DEF n
    <3>. QED  BY <1>1, <2>4, CurveIs
  <2>. QED  BY <1>1, <1>3, <2>3, <2>4, <2>5
<1>. QED  BY <1>2, <1>3 DEF g

-----------------------------------------------------------------------------
\* The regret curve.

\* Regret is the distance to the optimum, from below 0.
LEMMA RegretIs ==
  ASSUME NEW v \in Values
  PROVE  /\ v = NoValue => RegretOf(v) = NoValue
         /\ v # NoValue =>
              LET d == IF Direction = "MINIMISE" THEN v - KnownOptimum ELSE KnownOptimum - v
              IN  /\ RegretOf(v) = (IF d > 0 THEN d ELSE 0)
                  /\ RegretOf(v) \in Nat /\ RegretOf(v) # NoValue
<1>1. KnownOptimum \in Int /\ NoValue \notin Int
  BY ScoringAssumption
<1>2. ASSUME v # NoValue
      PROVE  LET d == IF Direction = "MINIMISE" THEN v - KnownOptimum ELSE KnownOptimum - v
             IN  /\ RegretOf(v) = (IF d > 0 THEN d ELSE 0)
                 /\ RegretOf(v) \in Nat /\ RegretOf(v) # NoValue
  <2> DEFINE d == IF Direction = "MINIMISE" THEN v - KnownOptimum ELSE KnownOptimum - v
  <2>1. d \in Int
    BY <1>1, <1>2 DEF Values
  <2>2. RegretOf(v) = Max({0, d})
    BY <1>2 DEF RegretOf
  <2>. HIDE DEF d
  <2>3. {0, d} \subseteq Int /\ {0, d} # {} /\ IsFiniteSet({0, d})
    <3>1. IsFiniteSet({0} \cup {d})
      BY FS_Singleton, FS_Union
    <3>2. {0} \cup {d} = {0, d}
      OBVIOUS
    <3>. QED  BY <2>1, <3>1, <3>2
  <2>4. Max({0, d}) \in {0, d} /\ \A k \in {0, d} : k <= Max({0, d})
    BY <2>3, GreatestElement
  <2>5. Max({0, d}) = IF d > 0 THEN d ELSE 0
    BY <2>1, <2>4
  <2>6. (IF d > 0 THEN d ELSE 0) \in Nat
    BY <2>1
  <2>7. \A x \in Nat : x # NoValue
    BY <1>1
  <2>. QED  BY <2>2, <2>5, <2>6, <2>7 DEF d
<1>. QED  BY <1>2 DEF RegretOf

\* Keeping the best gives no value back.
LEMMA RegretFalls ==
  ASSUME NEW b \in Values, b # NoValue, NEW r \in Result
  PROVE  /\ KeepBest(b, r) \in Values /\ KeepBest(b, r) # NoValue
         /\ RegretOf(KeepBest(b, r)) <= RegretOf(b)
<1>1. NoValue \notin Int /\ KnownOptimum \in Int /\ b \in Int /\ r.value \in Int
  BY ScoringAssumption DEF Values, Result
<1>2. CASE r.feasible /\ Better(r.value, b)
  <2> DEFINE v == r.value
  <2>1. KeepBest(b, r) = v
    BY <1>2 DEF KeepBest
  <2>2. IF Direction = "MINIMISE" THEN v < b ELSE v > b
    BY <1>2 DEF Better
  <2>3. v \in Int /\ v \in Values /\ v # NoValue
    BY <1>1 DEF Values
  <2>. HIDE DEF v
  <2>4. RegretOf(v) <= RegretOf(b)
    BY <1>1, <2>2, <2>3, RegretIs
  <2>. QED  BY <2>1, <2>3, <2>4
<1>3. CASE ~(r.feasible /\ Better(r.value, b))
  <2>1. KeepBest(b, r) = b
    BY <1>3 DEF KeepBest
  <2>2. RegretOf(b) \in Nat
    BY RegretIs
  <2>. QED  BY <2>1, <2>2
<1>. QED  BY <1>2, <1>3

\* What stands at the k-th place of the padded curve.
Place(h, k) == IF k <= Evaluations(h) THEN k ELSE Evaluations(h)

LEMMA PaddedIs ==
  ASSUME NEW h, Stored(h)
  PROVE  /\ DOMAIN Padded(Curve(h)) = 1 .. MaxEvaluations
         /\ \A k \in 1 .. MaxEvaluations :
              /\ Place(h, k) \in 0 .. Evaluations(h)
              /\ Padded(Curve(h))[k] = RegretOf(Kept(h, Place(h, k)))
<1> DEFINE n == Evaluations(h)
           c == Curve(h)
<1>1. n \in Nat /\ Len(c) = n /\ DOMAIN c = 1 .. n /\ MaxEvaluations \in Nat
  BY CurveIs, LimitsAssumption
<1>2. \A k \in 1 .. n : c[k] = Kept(h, k)
  BY CurveIs
<1>3. Kept(h, 0) = NoValue /\ RegretOf(NoValue) = NoValue
  BY DEF Kept, RegretOf
<1>4. Padded(c) = [k \in 1 .. MaxEvaluations |->
                     IF k <= Len(c) THEN RegretOf(c[k])
                     ELSE IF c = <<>> THEN NoValue ELSE RegretOf(c[Len(c)])]
  BY DEF Padded, Last
<1>5. ASSUME NEW k \in 1 .. MaxEvaluations
      PROVE  Place(h, k) \in 0 .. n /\ Padded(c)[k] = RegretOf(Kept(h, Place(h, k)))
  <2>1. CASE k <= n
    <3>1. k \in 1 .. n /\ Place(h, k) = k
      BY <1>1, <2>1 DEF Place
    <3>2. Padded(c)[k] = RegretOf(c[k])
      BY <1>1, <1>4, <2>1
    <3>. HIDE DEF c, n
    <3>. QED  BY <1>1, <1>2, <3>1, <3>2
  <2>2. CASE ~(k <= n)
    <3>1. Place(h, k) = n /\ n \in 0 .. n
      BY <1>1, <2>2 DEF Place
    <3>2. CASE n = 0
      <4>1. c = <<>>
        <5>1. c = [j \in 1 .. Len(Results(h)) |-> c[j]] /\ Len(Results(h)) = 0
          BY <3>2, ResultsType DEF Curve
        <5>. HIDE DEF c
        <5>. QED  BY <5>1
      <4>. HIDE DEF c, n
      <4>. QED  BY <1>1, <1>3, <1>4, <2>2, <3>1, <3>2, <4>1
    <3>3. CASE n # 0
      <4>. HIDE DEF c, n
      <4>1. n \in 1 .. n /\ c # <<>>
        BY <1>1, <3>3
      <4>2. Padded(c)[k] = RegretOf(c[n])
        BY <1>1, <1>4, <2>2, <4>1
      <4>. QED  BY <1>2, <3>1, <4>1, <4>2
    <3>. QED  BY <3>2, <3>3
  <2>. QED  BY <2>1, <2>2
<1>. QED  BY <1>4, <1>5

\* An entry that evaluations_to_threshold looks for.
Hit(f, k) == f[k] # NoValue /\ f[k] <= Threshold

\* What it answers is the first of them.
LEMMA FirstHit ==
  ASSUME NEW f, NEW m \in Nat, DOMAIN f = 1 .. m
  PROVE  /\ ToThreshold(f) # NoValue =>
              /\ ToThreshold(f) \in 1 .. m /\ Hit(f, ToThreshold(f))
              /\ \A k \in 1 .. m : Hit(f, k) => ToThreshold(f) <= k
         /\ \A t \in 1 .. m :
              (Hit(f, t) /\ \A k \in 1 .. m : Hit(f, k) => t <= k) => ToThreshold(f) = t
<1> DEFINE hits == {k \in 1 .. m : Hit(f, k)}
<1>1. ToThreshold(f) = IF hits = {} THEN NoValue ELSE Min(hits)
  BY DEF ToThreshold, Hit
<1>2. hits \subseteq Int /\ IsFiniteSet(hits)
  <2>1. hits \in SUBSET (1 .. m) /\ IsFiniteSet(1 .. m)
    BY FS_Interval
  <2>. QED  BY <2>1, FS_Subset
<1>3. \A k : k \in hits <=> k \in 1 .. m /\ Hit(f, k)
  OBVIOUS
<1>. HIDE DEF hits
<1>4. ASSUME ToThreshold(f) # NoValue
      PROVE  /\ ToThreshold(f) \in hits /\ \A k \in hits : ToThreshold(f) <= k
  BY <1>1, <1>2, <1>4, GreatestElement
<1>5. ASSUME NEW t \in hits, \A k \in hits : t <= k PROVE ToThreshold(f) = t
  <2>1. ToThreshold(f) = Min(hits) /\ hits # {}
    BY <1>1, <1>5
  <2>2. Min(hits) \in hits /\ \A k \in hits : Min(hits) <= k
    BY <1>2, <2>1, GreatestElement
  <2>3. Min(hits) \in Int /\ t \in Int /\ Min(hits) <= t /\ t <= Min(hits)
    BY <1>2, <1>5, <2>2
  <2>. QED  BY <2>1, <2>3
<1>. QED  BY <1>3, <1>4, <1>5

\* A padded curve never gets worse.
LEMMA PaddedFalls ==
  ASSUME NEW h, Stored(h), NEW k \in 1 .. MaxEvaluations, k > 1,
         Padded(Curve(h))[k - 1] # NoValue
  PROVE  Padded(Curve(h))[k] # NoValue /\ Padded(Curve(h))[k] <= Padded(Curve(h))[k - 1]
<1> DEFINE n == Evaluations(h)
           p == Place(h, k)
           q == Place(h, k - 1)
<1>1. n \in Nat /\ MaxEvaluations \in Nat /\ k - 1 \in 1 .. MaxEvaluations
  BY CurveIs, LimitsAssumption
<1>2. /\ p \in 0 .. n /\ Padded(Curve(h))[k] = RegretOf(Kept(h, p))
      /\ q \in 0 .. n /\ Padded(Curve(h))[k - 1] = RegretOf(Kept(h, q))
  BY <1>1, PaddedIs
<1>3. Kept(h, q) \in Values /\ Kept(h, q) # NoValue
  BY <1>1, <1>2, CurveIs, RegretIs
<1>4. CASE k <= n
  <2>1. p \in 1 .. n /\ p - 1 = q
    BY <1>1, <1>4 DEF Place
  <2>2. Kept(h, p) = KeepBest(Kept(h, q), Results(h)[p]) /\ Results(h)[p] \in Result
    BY <2>1, CurveIs, ResultsType
  <2>. HIDE DEF p, q
  <2>3. /\ RegretOf(KeepBest(Kept(h, q), Results(h)[p])) <= RegretOf(Kept(h, q))
        /\ RegretOf(KeepBest(Kept(h, q), Results(h)[p])) # NoValue
    BY <1>3, <2>2, RegretFalls, RegretIs
  <2>. QED  BY <1>2, <2>2, <2>3
<1>5. CASE ~(k <= n)
  <2>1. p = q
    BY <1>1, <1>5 DEF Place
  <2>2. RegretOf(Kept(h, q)) \in Nat
    BY <1>3, RegretIs
  <2>. HIDE DEF p, q
  <2>. QED  BY <1>2, <2>1, <2>2
<1>. QED  BY <1>4, <1>5

\* ThresholdIsStable of two histories.
Stable(h, g) ==
  LET before == Padded(Curve(h))
      after  == Padded(Curve(g))
      hit    == ToThreshold(before)
  IN  /\ hit # NoValue => hit <= Cardinality(Evaluated(h)) /\ ToThreshold(after) = hit
      /\ \A k \in 1 .. MaxEvaluations : before[k] # NoValue =>
           /\ after[k] # NoValue /\ after[k] <= before[k]
           /\ k > 1 /\ before[k - 1] # NoValue => before[k] <= before[k - 1]

LEMMA StableStep ==
  ASSUME NEW h, Stored(h), NEW i \in Nat, Beyond(h, i), NEW e \in Episode
  PROVE  Stable(h, Extend(h, i, e))
<1> DEFINE g == Extend(h, i, e)
           n == Evaluations(h)
           M == MaxEvaluations
           before == Padded(Curve(h))
           after == Padded(Curve(g))
           hit == ToThreshold(before)
<1>1. /\ Stored(g) /\ n \in Nat /\ M \in Nat /\ n = Cardinality(Evaluated(h))
  BY ResultsExtend, CurveIs, LimitsAssumption DEF Evaluations
<1>2. /\ e.result = ToolError => Evaluations(g) = n /\ Curve(g) = Curve(h)
      /\ e.result # ToolError =>
           /\ Evaluations(g) = n + 1 /\ Kept(g, n + 1) = KeepBest(Kept(h, n), e.result)
           /\ \A k \in 0 .. n : Kept(g, k) = Kept(h, k)
  BY CurveExtend
<1>. HIDE DEF g
<1>3. DOMAIN before = 1 .. M /\ DOMAIN after = 1 .. M
  BY <1>1, PaddedIs
<1>4. ASSUME NEW k \in 1 .. M
      PROVE  /\ before[k] = RegretOf(Kept(h, Place(h, k))) /\ Place(h, k) \in 0 .. n
             /\ Kept(h, Place(h, k)) \in Values
             /\ after[k] = RegretOf(Kept(g, Place(g, k)))
  BY <1>1, PaddedIs, CurveIs
<1>5. ASSUME NEW k \in 1 .. M, before[k] # NoValue PROVE before[k] \in Nat
  BY <1>4, <1>5, RegretIs
<1>6. ASSUME NEW k \in 1 .. M, k <= n PROVE after[k] = before[k]
  <2>1. CASE e.result = ToolError
    BY <1>2, <2>1
  <2>2. CASE e.result # ToolError
    <3>1. Place(h, k) = k /\ Place(g, k) = k /\ Kept(g, k) = Kept(h, k)
      BY <1>1, <1>2, <1>6, <2>2 DEF Place
    <3>. QED  BY <1>4, <3>1
  <2>. QED  BY <2>1, <2>2
<1>7. ASSUME NEW k \in 1 .. M, before[k] # NoValue
      PROVE  after[k] # NoValue /\ after[k] <= before[k]
  <2>1. CASE k <= n
    BY <1>5, <1>6, <1>7, <2>1
  <2>2. CASE e.result = ToolError
    BY <1>2, <1>5, <1>7, <2>2
  <2>3. CASE ~(k <= n) /\ e.result # ToolError
    <3>1. Place(h, k) = n /\ Place(g, k) = n + 1
      BY <1>1, <1>2, <2>3 DEF Place
    <3>2. e.result \in Result
      BY <2>3 DEF Episode, Outcomes
    <3>3. Kept(h, n) \in Values /\ Kept(h, n) # NoValue
      BY <1>4, <1>7, <3>1, RegretIs
    <3>. HIDE DEF n
    <3>4. /\ RegretOf(KeepBest(Kept(h, n), e.result)) <= RegretOf(Kept(h, n))
          /\ RegretOf(KeepBest(Kept(h, n), e.result)) # NoValue
      BY <3>2, <3>3, RegretFalls, RegretIs
    <3>. QED  BY <1>2, <1>4, <2>3, <3>1, <3>4
  <2>. QED  BY <2>1, <2>2, <2>3
<1>8. ASSUME hit # NoValue PROVE hit <= n /\ ToThreshold(after) = hit
  <2>1. /\ hit \in 1 .. M /\ Hit(before, hit) /\ \A k \in 1 .. M : Hit(before, k) => hit <= k
    <3>. HIDE DEF before
    <3>. QED  BY <1>1, <1>3, <1>8, FirstHit
  <2>2. hit <= n
    <3>. SUFFICES ASSUME n < hit PROVE FALSE
      BY <1>1, <2>1
    <3>1. Place(h, hit) = n
      BY <1>1, <2>1 DEF Place
    <3>2. n # 0
      <4>1. Kept(h, 0) = NoValue /\ RegretOf(NoValue) = NoValue
        BY DEF Kept, RegretOf
      <4>. HIDE DEF before, hit
      <4>. QED  BY <1>4, <2>1, <3>1, <4>1 DEF Hit
    <3>3. n \in 1 .. M /\ Place(h, n) = n
      <4>. HIDE DEF hit
      <4>. QED  BY <1>1, <2>1, <3>2 DEF Place
    <3>4. before[n] = before[hit]
      <4>. HIDE DEF before, hit, n
      <4>. QED  BY <1>4, <2>1, <3>1, <3>3
    <3>. HIDE DEF before, hit, n
    <3>. QED  BY <1>1, <2>1, <3>3, <3>4 DEF Hit
  <2>3. Hit(after, hit) /\ \A k \in 1 .. M : Hit(after, k) => hit <= k
    <3>. HIDE DEF before, after, hit, n, M
    <3>1. Hit(after, hit)
      BY <1>6, <2>1, <2>2 DEF Hit
    <3>2. ASSUME NEW k \in 1 .. M, Hit(after, k) PROVE hit <= k
      <4>1. CASE k <= n
        BY <1>6, <2>1, <3>2, <4>1 DEF Hit
      <4>2. CASE ~(k <= n)
        BY <1>1, <2>1, <2>2, <4>2
      <4>. QED  BY <4>1, <4>2
    <3>. QED  BY <3>1, <3>2
  <2>. HIDE DEF before, after, hit, n, M
  <2>. QED  BY <1>1, <1>3, <2>1, <2>2, <2>3, FirstHit
<1>9. ASSUME NEW k \in 1 .. M, k > 1, before[k - 1] # NoValue PROVE before[k] <= before[k - 1]
  BY <1>9, PaddedFalls
<1>. HIDE DEF before, after, hit, M, n
<1>10. /\ hit # NoValue => hit <= n /\ ToThreshold(after) = hit
       /\ \A k \in 1 .. M : before[k] # NoValue =>
            /\ after[k] # NoValue /\ after[k] <= before[k]
            /\ k > 1 /\ before[k - 1] # NoValue => before[k] <= before[k - 1]
  BY <1>7, <1>8, <1>9
<1>. QED  BY <1>1, <1>10 DEF Stable, before, after, hit, M, g

-----------------------------------------------------------------------------
\* The replay.

\* The replay's n-th turn.
Turn(h, n, b) ==
  IF n - 1 \in Evaluated(h) /\ BetterThan(h[n - 1].result, b)
  THEN [episode_idx |-> n - 1, result |-> h[n - 1].result] ELSE b

LEMMA ReplayIs ==
  ASSUME NEW h, Stored(h), NextIdx(h) \in Nat
  PROVE  \E B : /\ B[0] = NoBest
                /\ \A n \in 1 .. NextIdx(h) : B[n] = Turn(h, n, B[n - 1])
                /\ Replay(h) = B[NextIdx(h)]
<1> DEFINE m == NextIdx(h)
           T == Best \cup {NoBest}
           step == [p \in (1 .. m) \X T |-> Turn(h, p[1], p[2])]
           Is(q) == q = [n \in 0 .. m |->
                           IF n = 0 THEN NoBest
                           ELSE IF n - 1 \in Evaluated(h) /\ BetterThan(h[n - 1].result, q[n - 1])
                                THEN [episode_idx |-> n - 1, result |-> h[n - 1].result]
                                ELSE q[n - 1]]
           Q == CHOOSE q : Is(q)
<1>1. Replay(h) = Q[m]
  BY DEF Replay
<1>2. m \in Nat
  OBVIOUS
<1>. HIDE DEF m
<1>3. ASSUME NEW n \in 1 .. m, NEW b \in T
      PROVE  Turn(h, n, b) \in T /\ step[<<n, b>>] = Turn(h, n, b)
  <2>1. n - 1 \in Evaluated(h) => h[n - 1].result \in Result /\ n - 1 \in Nat
    BY <1>2 DEF Stored, IsHistory, Evaluated, Episode, Outcomes
  <2>2. Turn(h, n, b) \in T
    BY <2>1 DEF Turn, Best
  <2>3. step[<<n, b>>] = Turn(h, n, b)
    OBVIOUS
  <2>. QED  BY <2>2, <2>3
<1>4. step \in [(1 .. m) \X T -> T]
  <2>1. ASSUME NEW p \in (1 .. m) \X T PROVE Turn(h, p[1], p[2]) \in T
    <3>1. p[1] \in 1 .. m /\ p[2] \in T
      OBVIOUS
    <3>. HIDE DEF T, step
    <3>. QED  BY <1>3, <3>1
  <2>. HIDE DEF T
  <2>. QED  BY <2>1
<1>5. PICK f : Follows(f, m, T, NoBest, step)
  <2>1. NoBest \in T
    OBVIOUS
  <2>. HIDE DEF step, T
  <2>. QED  BY <1>2, <1>4, <2>1, Solution
<1>6. /\ f = [n \in 0 .. m |-> f[n]] /\ f[0] = NoBest
      /\ \A n \in 1 .. m : f[n - 1] \in T /\ f[n] = step[<<n, f[n - 1]>>]
  <2>. HIDE DEF step, T
  <2>. QED  BY <1>5 DEF Follows
<1>7. Is(f)
  <2>1. \A n \in 1 .. m : f[n] = Turn(h, n, f[n - 1])
    <3>. HIDE DEF step, T
    <3>. QED  BY <1>3, <1>6
  <2>2. ASSUME NEW n \in 0 .. m
        PROVE  f[n] = IF n = 0 THEN NoBest
                      ELSE IF n - 1 \in Evaluated(h) /\ BetterThan(h[n - 1].result, f[n - 1])
                           THEN [episode_idx |-> n - 1, result |-> h[n - 1].result]
                           ELSE f[n - 1]
    <3>1. CASE n = 0
      BY <1>6, <3>1
    <3>2. CASE n # 0
      <4>1. n \in 1 .. m
        BY <1>2, <3>2
      <4>. QED  BY <2>1, <3>2, <4>1 DEF Turn
    <3>. QED  BY <3>1, <3>2
  <2>3. [n \in 0 .. m |-> f[n]] =
        [n \in 0 .. m |->
           IF n = 0 THEN NoBest
           ELSE IF n - 1 \in Evaluated(h) /\ BetterThan(h[n - 1].result, f[n - 1])
                THEN [episode_idx |-> n - 1, result |-> h[n - 1].result]
                ELSE f[n - 1]]
    BY <2>2
  <2>. QED  BY <1>6, <2>3
<1>8. Is(Q)
  <2>. HIDE DEF Is
  <2>. QED  BY <1>7
<1>. HIDE DEF Q
<1>9. Q[0] = NoBest /\ \A n \in 1 .. m : Q[n] = Turn(h, n, Q[n - 1])
  <2>1. \A n \in 0 .. m :
          Q[n] = IF n = 0 THEN NoBest
                 ELSE IF n - 1 \in Evaluated(h) /\ BetterThan(h[n - 1].result, Q[n - 1])
                      THEN [episode_idx |-> n - 1, result |-> h[n - 1].result]
                      ELSE Q[n - 1]
    BY <1>8
  <2>2. 0 \in 0 .. m /\ \A n \in 1 .. m : n \in 0 .. m /\ n # 0
    BY <1>2
  <2>. QED  BY <2>1, <2>2 DEF Turn
<1>. QED  BY <1>1, <1>9 DEF m

\* Where the next index is, and that it is beyond all others.
LEMMA NextIdxIs ==
  ASSUME NEW h, Stored(h)
  PROVE  /\ NextIdx(h) \in Nat
         /\ \A i \in Nat : i >= NextIdx(h) => Beyond(h, i)
         /\ \A i \in Nat : Beyond(h, i) => i >= NextIdx(h)
<1>1. DOMAIN h \subseteq Nat /\ DOMAIN h \subseteq Int /\ IsFiniteSet(DOMAIN h)
  BY DEF Stored, IsHistory
<1>2. CASE DOMAIN h = {}
  BY <1>2 DEF NextIdx, Beyond
<1>3. CASE DOMAIN h # {}
  <2> DEFINE m == Max(DOMAIN h)
  <2>1. m \in DOMAIN h /\ \A k \in DOMAIN h : k <= m
    BY <1>1, <1>3, GreatestElement
  <2>2. NextIdx(h) = m + 1
    BY <1>3 DEF NextIdx
  <2>. HIDE DEF m
  <2>. QED  BY <1>1, <2>1, <2>2 DEF Beyond
<1>. QED  BY <1>2, <1>3

LEMMA NextIdxExtend ==
  ASSUME NEW h, Stored(h), NEW i \in Nat, Beyond(h, i), NEW e \in Episode
  PROVE  NextIdx(Extend(h, i, e)) = i + 1
<1> DEFINE g == Extend(h, i, e)
<1>1. Stored(g) /\ DOMAIN g = DOMAIN h \cup {i}
  BY ResultsExtend DEF Extend
<1>. HIDE DEF g
<1>2. Beyond(g, i + 1) /\ ~Beyond(g, i) /\ \A k \in Nat : Beyond(g, k) => k >= i + 1
  <2>1. \A k \in DOMAIN h : k \in Nat /\ k < i
    BY DEF Stored, IsHistory, Beyond
  <2>2. i < i + 1 /\ ~(i < i) /\ \A k \in Nat : (i < k => k >= i + 1) /\ (k < i => k < i + 1)
    OBVIOUS
  <2>3. Beyond(g, i + 1)
    BY <1>1, <2>1, <2>2 DEF Beyond
  <2>4. ~Beyond(g, i) /\ \A k \in Nat : Beyond(g, k) => k >= i + 1
    BY <1>1, <2>2 DEF Beyond
  <2>. QED  BY <2>3, <2>4
<1>3. NextIdx(g) \in Nat /\ Beyond(g, NextIdx(g)) /\ i + 1 >= NextIdx(g)
  BY <1>1, <1>2, NextIdxIs
<1>. QED  BY <1>2, <1>3 DEF g

\* A replay of a longer history has one more turn that matters.
LEMMA ReplayExtend ==
  ASSUME NEW h, Stored(h), NEW i \in Nat, Beyond(h, i), NEW e \in Episode
  PROVE  Replay(Extend(h, i, e)) =
           IF e.result # ToolError /\ BetterThan(e.result, Replay(h))
           THEN [episode_idx |-> i, result |-> e.result] ELSE Replay(h)
<1> DEFINE g == Extend(h, i, e)
           N == NextIdx(h)
<1>1. N \in Nat /\ i >= N /\ Beyond(h, N)
  BY NextIdxIs
<1>2. Stored(g) /\ NextIdx(g) = i + 1
  BY ResultsExtend, NextIdxExtend
<1>3. g[i] = e /\ DOMAIN g = DOMAIN h \cup {i} /\ \A k \in DOMAIN h : g[k] = h[k]
  BY DEF Extend, Beyond
<1>. HIDE DEF g
<1>4. ASSUME NEW k \in Nat, k < i
      PROVE  /\ k \in Evaluated(g) <=> k \in Evaluated(h)
             /\ k \in Evaluated(h) => g[k] = h[k] /\ k < N
  BY <1>1, <1>3, <1>4 DEF Evaluated, Beyond
<1>5. i \in Evaluated(g) <=> e.result # ToolError
  BY <1>3 DEF Evaluated
<1>6. PICK P : /\ P[0] = NoBest /\ Replay(h) = P[N]
               /\ \A n \in 1 .. N : P[n] = Turn(h, n, P[n - 1])
  BY <1>1, ReplayIs
<1>7. PICK R : /\ R[0] = NoBest /\ Replay(g) = R[i + 1]
               /\ \A n \in 1 .. i + 1 : R[n] = Turn(g, n, R[n - 1])
  <2>1. NextIdx(g) \in Nat
    BY <1>2
  <2>2. PICK R : /\ R[0] = NoBest /\ Replay(g) = R[NextIdx(g)]
                 /\ \A n \in 1 .. NextIdx(g) : R[n] = Turn(g, n, R[n - 1])
    BY <1>2, <2>1, ReplayIs
  <2>. QED  BY <1>2, <2>2
<1>. HIDE DEF N
<1> DEFINE S == {n \in 0 .. i : R[n] = P[IF n <= N THEN n ELSE N]}
<1>8. \A n \in 0 .. i : n \in S
  <2>1. 0 \in S
    BY <1>1, <1>6, <1>7
  <2>2. ASSUME NEW n \in 1 .. i, n - 1 \in S PROVE n \in S
    <3> DEFINE k == n - 1
    <3>1. k \in Nat /\ k < i /\ n \in 0 .. i /\ n \in 1 .. i + 1
      OBVIOUS
    <3>2. R[n] = Turn(g, n, R[k])
      BY <1>7, <3>1
    <3>3. R[k] = P[IF k <= N THEN k ELSE N]
      BY <2>2
    <3>4. CASE n <= N
      <4>1. n \in 1 .. N /\ k <= N
        BY <1>1, <3>4
      <4>2. P[n] = Turn(h, n, P[k])
        BY <1>6, <4>1
      <4>3. Turn(g, n, P[k]) = Turn(h, n, P[k])
        BY <1>4, <3>1 DEF Turn
      <4>4. R[n] = P[n]
        BY <3>2, <3>3, <4>1, <4>2, <4>3
      <4>. QED  BY <3>1, <3>4, <4>4
    <3>5. CASE ~(n <= N)
      <4>1. k \notin Evaluated(h) /\ ~(k < N)
        BY <1>1, <1>4, <3>1, <3>5
      <4>2. Turn(g, n, R[k]) = R[k]
        BY <1>4, <3>1, <4>1 DEF Turn
      <4>3. (IF k <= N THEN k ELSE N) = N
        BY <1>1, <3>1, <4>1
      <4>4. R[n] = P[N]
        BY <3>2, <3>3, <4>2, <4>3
      <4>. QED  BY <3>1, <3>5, <4>4
    <3>. QED  BY <3>4, <3>5
  <2>. HIDE DEF S
  <2>. QED  BY <2>1, <2>2, Along
<1>9. R[i] = Replay(h)
  <2>1. i \in S
    BY <1>8
  <2>2. (IF i <= N THEN i ELSE N) = N
    BY <1>1
  <2>. QED  BY <1>6, <2>1, <2>2
<1>10. R[i + 1] = Turn(g, i + 1, R[i])
  <2>1. i + 1 \in 1 .. i + 1 /\ (i + 1) - 1 = i
    OBVIOUS
  <2>. QED  BY <1>7, <2>1
<1>11. Turn(g, i + 1, R[i]) =
         IF e.result # ToolError /\ BetterThan(e.result, R[i])
         THEN [episode_idx |-> i, result |-> e.result] ELSE R[i]
  <2>1. (i + 1) - 1 = i
    OBVIOUS
  <2>. QED  BY <1>3, <1>5, <2>1 DEF Turn
<1>. QED  BY <1>7, <1>9, <1>10, <1>11 DEF g

-----------------------------------------------------------------------------
\* The episodes that record wrote.

\* An episode is graded against the incumbent it meets.
LEMMA Recorded ==
  ASSUME NEW h, NEW c \in Answers, NEW t \in WallTimes, NEW e,
         e = MakeEpisode(c, t, RecomputeBest(h))
  PROVE  /\ e \in Episode /\ (e.result # ToolError => e.candidate \in Points)
         /\ e.improved <=> e.result # ToolError /\ BetterThan(e.result, RecomputeBest(h))
<1>1. Outcome(c) \in Outcomes /\ t \in {0, 1}
  BY WorldAssumption DEF Outcome, Outcomes
<1>2. e \in Episode
  BY <1>1 DEF MakeEpisode, Episode
<1>3. /\ e.result = Outcome(c) /\ e.candidate = c
      /\ e.improved = (Outcome(c) # ToolError /\ BetterThan(Outcome(c), RecomputeBest(h)))
  BY DEF MakeEpisode
<1>4. e.result # ToolError => e.candidate \in Points
  BY <1>3 DEF Outcome
<1>. QED  BY <1>2, <1>3, <1>4

Improved(h) == {i \in DOMAIN h : h[i].improved}

\* What the curve makes of an incumbent.
Earned(b) == IF b # NoBest /\ b.result.feasible THEN b.result.value ELSE NoValue

\* The four ways to the best result lead to one, in a form that each episode preserves.
Graded(h) ==
  LET best == RecomputeBest(h)
  IN  /\ Leads(h, best)
      /\ Replay(h) = best
      /\ Improved(h) = {} <=> best = NoBest
      /\ best # NoBest =>
           best.episode_idx \in Improved(h) /\ \A i \in Improved(h) : i <= best.episode_idx
      /\ Kept(h, Evaluations(h)) = Earned(best)

\* The curve takes a result as its next entry when better_than takes it as the
\* next incumbent, and is not deceived by an infeasible one.
LEMMA KeptIsEarned ==
  ASSUME NEW b \in Best \cup {NoBest}, NEW r \in Result, NEW i \in Nat
  PROVE  KeepBest(Earned(b), r) =
           Earned(IF BetterThan(r, b) THEN [episode_idx |-> i, result |-> r] ELSE b)
<1> DEFINE d == [episode_idx |-> i, result |-> r]
<1>1. d # NoBest /\ d.result = r
  BY SentinelAssumption DEF Best
<1>2. Earned(d) = IF r.feasible THEN r.value ELSE NoValue
  BY <1>1 DEF Earned
<1>3. CASE b = NoBest
  BY <1>2, <1>3 DEF Earned, BetterThan, KeepBest
<1>4. CASE b # NoBest
  <2> DEFINE s == b.result
  <2>1. s \in Result
    BY <1>4 DEF Best
  <2>2. Earned(b) = (IF s.feasible THEN s.value ELSE NoValue) /\ (BetterThan(r, b) <=> Beats(r, s))
    BY <1>4 DEF Earned, BetterThan
  <2>. HIDE DEF s, d
  <2>3. s.feasible \in BOOLEAN /\ r.feasible \in BOOLEAN /\ s.value # NoValue
    BY <2>1, ScoringAssumption DEF Result
  <2>4. CASE ~s.feasible
    <3>1. Earned(b) = NoValue
      BY <2>2, <2>4
    <3>2. (r.feasible => Beats(r, s)) /\ KeepBest(NoValue, r) = IF r.feasible THEN r.value ELSE NoValue
      BY <2>3, <2>4 DEF Beats, KeepBest
    <3>. QED  BY <1>2, <2>2, <2>3, <3>1, <3>2 DEF d
  <2>5. CASE s.feasible
    <3>1. Earned(b) = s.value
      BY <2>2, <2>5
    <3>2. Beats(r, s) <=> r.feasible /\ Better(r.value, s.value)
      BY <2>3, <2>5, LimitsAssumption DEF Beats, Better
    <3>3. KeepBest(s.value, r) = IF Beats(r, s) THEN r.value ELSE s.value
      BY <2>3, <3>2 DEF KeepBest
    <3>4. Beats(r, s) => Earned(d) = r.value
      BY <1>2, <3>2
    <3>. QED  BY <2>2, <3>1, <3>3, <3>4 DEF d
  <2>. QED  BY <2>3, <2>4, <2>5
<1>. QED  BY <1>3, <1>4

LEMMA GradedExtend ==
  ASSUME NEW h, Stored(h), Graded(h), NEW i \in Nat, Beyond(h, i), NEW e \in Episode,
         e.improved <=> e.result # ToolError /\ BetterThan(e.result, RecomputeBest(h))
  PROVE  Graded(Extend(h, i, e))
<1> DEFINE g == Extend(h, i, e)
           b == RecomputeBest(h)
           d == [episode_idx |-> i, result |-> e.result]
           n == Evaluations(h)
<1>1. /\ Leads(h, b) /\ Replay(h) = b
      /\ Improved(h) = {} <=> b = NoBest
      /\ b # NoBest => b.episode_idx \in Improved(h) /\ \A k \in Improved(h) : k <= b.episode_idx
      /\ Kept(h, n) = Earned(b)
  BY DEF Graded
<1>1b. b \in Best \cup {NoBest}
  BY <1>1, LeaderIsBest
<1>2. Leads(g, RecomputeBest(g)) /\ RecomputeBest(g) = IF e.improved THEN d ELSE b
  <2>1. Stored(g)
    BY ResultsExtend
  <2>2. Leads(g, IF e.improved THEN d ELSE b)
    BY <1>1, LeaderExtend
  <2>. HIDE DEF g, d, b
  <2>. QED  BY <2>1, <2>2, LeaderIsBest
<1>3. Replay(g) = IF e.improved THEN d ELSE b
  BY <1>1, ReplayExtend
<1>4. Improved(g) = IF e.improved THEN Improved(h) \cup {i} ELSE Improved(h)
  <2>1. DOMAIN g = DOMAIN h \cup {i} /\ i \notin DOMAIN h
    BY DEF Extend, Beyond
  <2>2. g[i] = e /\ \A k \in DOMAIN h : g[k] = h[k]
    BY DEF Extend, Beyond
  <2>. HIDE DEF g
  <2>. QED  BY <2>1, <2>2 DEF Improved
<1>5. e.improved => e.result \in Result /\ d \in Best /\ d # NoBest
  BY SentinelAssumption DEF Episode, Outcomes, Best
<1>6. Kept(g, Evaluations(g)) = Earned(IF e.improved THEN d ELSE b)
  <2>1. CASE e.result = ToolError
    <3>1. Evaluations(g) = n /\ Curve(g) = Curve(h)
      BY <2>1, CurveExtend
    <3>. QED  BY <1>1, <2>1, <3>1 DEF Kept
  <2>2. CASE e.result # ToolError
    <3>1. Evaluations(g) = n + 1 /\ Kept(g, n + 1) = KeepBest(Kept(h, n), e.result)
      BY <2>2, CurveExtend
    <3>2. e.result \in Result
      BY <2>2 DEF Episode, Outcomes
    <3>3. KeepBest(Earned(b), e.result) = Earned(IF BetterThan(e.result, b) THEN d ELSE b)
      BY <1>1b, <3>2, KeptIsEarned
    <3>. QED  BY <1>1, <2>2, <3>1, <3>3
  <2>. QED  BY <2>1, <2>2
<1>7. \A k \in Improved(h) : k \in Nat /\ k < i
  BY DEF Improved, Stored, IsHistory, Beyond
<1>. HIDE DEF g, b
<1>8. CASE e.improved
  <2>1. RecomputeBest(g) = d /\ d # NoBest /\ d \in Best /\ d.episode_idx = i
    BY <1>2, <1>5, <1>8
  <2>2. Improved(g) = Improved(h) \cup {i}
    BY <1>4, <1>8
  <2>3. i \in Improved(g) /\ \A k \in Improved(g) : k <= i
    BY <1>7, <2>2
  <2>4. Replay(g) = d /\ Kept(g, Evaluations(g)) = Earned(d)
    BY <1>3, <1>6, <1>8
  <2>. HIDE DEF d
  <2>. QED  BY <1>2, <2>1, <2>3, <2>4 DEF Graded, g
<1>9. CASE ~e.improved
  <2>. HIDE DEF d
  <2>1. RecomputeBest(g) = b /\ Replay(g) = b /\ Improved(g) = Improved(h)
        /\ Kept(g, Evaluations(g)) = Earned(b)
    BY <1>2, <1>3, <1>4, <1>6, <1>9
  <2>. QED  BY <1>1, <1>2, <2>1 DEF Graded, g
<1>. QED  BY <1>8, <1>9

-----------------------------------------------------------------------------
\* The detectors.

\* One coordinate's share of the distance.
Share(p, q, d) == Square(Coordinates[p][d] - Coordinates[q][d])

LEMMA ShareIs ==
  ASSUME NEW p \in Points, NEW q \in Points, NEW d \in 1 .. Len(Coordinates[p])
  PROVE  Share(p, q, d) \in Int /\ Share(p, q, d) = Share(q, p, d) /\ Share(p, p, d) = 0
<1> DEFINE a == Coordinates[p][d]
           b == Coordinates[q][d]
<1>1. Coordinates[p] \in Seq(Int) /\ Coordinates[q] \in Seq(Int)
      /\ Len(Coordinates[p]) = Len(Coordinates[q])
  BY ScoringAssumption
<1>2. a \in Int /\ b \in Int
  BY <1>1
<1>. HIDE DEF a, b
<1>3. Square(a - b) \in Int /\ Square(a - b) = Square(b - a) /\ Square(a - a) = 0
  BY <1>2 DEF Square
<1>. QED  BY <1>3 DEF Share, a, b

LEMMA ApartIs ==
  ASSUME NEW p \in Points, NEW q \in Points
  PROVE  \E f : /\ f[0] = 0
                /\ \A d \in 1 .. Len(Coordinates[p]) :
                     f[d - 1] \in Int /\ f[d] \in Int /\ f[d] = f[d - 1] + Share(p, q, d)
                /\ Apart(p, q) = f[Len(Coordinates[p])]
<1> DEFINE m == Len(Coordinates[p])
           next(d, v) == v + Share(p, q, d)
           step == [x \in (1 .. m) \X Int |-> next(x[1], x[2])]
           Is(s) == s = [d \in 0 .. m |->
                           IF d = 0 THEN 0
                           ELSE s[d - 1] + Square(Coordinates[p][d] - Coordinates[q][d])]
           Q == CHOOSE s : Is(s)
<1>1. Apart(p, q) = Q[m]
  BY DEF Apart
<1>2. m \in Nat
  BY ScoringAssumption
<1>3. ASSUME NEW d \in 1 .. m, NEW v \in Int
      PROVE  next(d, v) \in Int /\ step[<<d, v>>] = next(d, v)
  <2>1. next(d, v) \in Int
    BY ShareIs
  <2>2. step[<<d, v>>] = next(d, v)
    <3>. HIDE DEF m
    <3>. QED  OBVIOUS
  <2>. QED  BY <2>1, <2>2
<1>. HIDE DEF m
<1>4. step \in [(1 .. m) \X Int -> Int]
  <2>1. ASSUME NEW x \in (1 .. m) \X Int PROVE next(x[1], x[2]) \in Int
    <3>1. x[1] \in 1 .. m /\ x[2] \in Int
      OBVIOUS
    <3>. HIDE DEF step, next
    <3>. QED  BY <1>3, <3>1
  <2>. HIDE DEF next
  <2>. QED  BY <2>1
<1>5. PICK f : Follows(f, m, Int, 0, step)
  <2>1. 0 \in Int
    OBVIOUS
  <2>. HIDE DEF step
  <2>. QED  BY <1>2, <1>4, <2>1, Solution
<1>6. /\ f = [d \in 0 .. m |-> f[d]] /\ f[0] = 0
      /\ \A d \in 1 .. m : f[d - 1] \in Int /\ f[d] \in Int /\ f[d] = step[<<d, f[d - 1]>>]
  <2>. HIDE DEF step
  <2>. QED  BY <1>5 DEF Follows
<1>7. Is(f)
  <2>1. \A d \in 1 .. m : f[d] = next(d, f[d - 1])
    <3>. HIDE DEF step, next
    <3>. QED  BY <1>3, <1>6
  <2>2. ASSUME NEW d \in 0 .. m
        PROVE  f[d] = IF d = 0 THEN 0
                      ELSE f[d - 1] + Square(Coordinates[p][d] - Coordinates[q][d])
    <3>1. CASE d = 0
      BY <1>6, <3>1
    <3>2. CASE d # 0
      <4>1. d \in 1 .. m
        BY <1>2, <3>2
      <4>2. f[d] = f[d - 1] + Share(p, q, d)
        BY <2>1, <4>1
      <4>3. Share(p, q, d) = Square(Coordinates[p][d] - Coordinates[q][d])
        BY DEF Share
      <4>. QED  BY <3>2, <4>2, <4>3
    <3>. QED  BY <3>1, <3>2
  <2>3. [d \in 0 .. m |-> f[d]] =
        [d \in 0 .. m |-> IF d = 0 THEN 0
                          ELSE f[d - 1] + Square(Coordinates[p][d] - Coordinates[q][d])]
    BY <2>2
  <2>. QED  BY <1>6, <2>3
<1>8. Is(Q)
  <2>. HIDE DEF Is
  <2>. QED  BY <1>7
<1>. HIDE DEF Q
<1>9. Q[0] = 0 /\ \A d \in 1 .. m : Q[d] = next(d, Q[d - 1])
  <2>1. \A d \in 0 .. m :
          Q[d] = IF d = 0 THEN 0
                 ELSE Q[d - 1] + Square(Coordinates[p][d] - Coordinates[q][d])
    BY <1>8
  <2>2. 0 \in 0 .. m /\ \A d \in 1 .. m : d \in 0 .. m /\ d # 0
    BY <1>2
  <2>. QED  BY <2>1, <2>2 DEF Share
<1> DEFINE S == {d \in 0 .. m : Q[d] \in Int}
<1>10. \A d \in 0 .. m : d \in S
  <2>1. 0 \in S
    BY <1>2, <1>9
  <2>2. ASSUME NEW d \in 1 .. m, d - 1 \in S PROVE d \in S
    <3>1. Q[d - 1] \in Int
      BY <2>2
    <3>. HIDE DEF step, next
    <3>2. Q[d] \in Int
      BY <1>3, <1>9, <3>1
    <3>. QED  BY <3>2
  <2>. HIDE DEF S
  <2>. QED  BY <1>2, <2>1, <2>2, Along
<1>11. \A d \in 1 .. m : Q[d - 1] \in Int /\ Q[d] \in Int
  <2>1. \A d \in 0 .. m : Q[d] \in Int
    BY <1>10
  <2>2. \A d \in 1 .. m : d - 1 \in 0 .. m /\ d \in 0 .. m
    BY <1>2
  <2>. QED  BY <2>1, <2>2
<1>. QED  BY <1>1, <1>9, <1>11 DEF m

\* Distances are numbers, symmetric, and zero from a point to itself.
LEMMA ApartType ==
  ASSUME NEW p \in Points, NEW q \in Points
  PROVE  Apart(p, q) \in Int /\ Apart(p, q) = Apart(q, p) /\ Apart(p, p) = 0
<1> DEFINE m == Len(Coordinates[p])
<1>1. m \in Nat /\ m = Len(Coordinates[q])
  BY ScoringAssumption
<1>2. PICK f : /\ f[0] = 0 /\ Apart(p, q) = f[m]
               /\ \A d \in 1 .. m :
                    f[d - 1] \in Int /\ f[d] \in Int /\ f[d] = f[d - 1] + Share(p, q, d)
  BY ApartIs
<1>3. PICK r : /\ r[0] = 0 /\ Apart(q, p) = r[m]
               /\ \A d \in 1 .. m :
                    r[d - 1] \in Int /\ r[d] \in Int /\ r[d] = r[d - 1] + Share(q, p, d)
  BY <1>1, ApartIs
<1>4. PICK z : /\ z[0] = 0 /\ Apart(p, p) = z[m]
               /\ \A d \in 1 .. m :
                    z[d - 1] \in Int /\ z[d] \in Int /\ z[d] = z[d - 1] + Share(p, p, d)
  BY ApartIs
<1>5. \A d \in 1 .. m : Share(p, q, d) = Share(q, p, d) /\ Share(p, p, d) = 0
  BY ShareIs
<1>. HIDE DEF m
<1> DEFINE S == {d \in 0 .. m : f[d] = r[d] /\ z[d] = 0 /\ f[d] \in Int}
<1>6. \A d \in 0 .. m : d \in S
  <2>1. 0 \in S
    BY <1>1, <1>2, <1>3, <1>4
  <2>2. ASSUME NEW d \in 1 .. m, d - 1 \in S PROVE d \in S
    <3>1. f[d - 1] = r[d - 1] /\ z[d - 1] = 0
      BY <2>2
    <3>2. f[d] = r[d] /\ f[d] \in Int
      BY <1>2, <1>3, <1>5, <3>1
    <3>3. z[d] = 0
      BY <1>4, <1>5, <3>1
    <3>. QED  BY <3>2, <3>3
  <2>. HIDE DEF S
  <2>. QED  BY <1>1, <2>1, <2>2, Along
<1>7. m \in S
  BY <1>1, <1>6
<1>. QED  BY <1>2, <1>3, <1>4, <1>7

\* Later counts: an evaluation more, after all others, puts each one further back.
LEMMA LaterExtend ==
  ASSUME NEW S, IsFiniteSet(S), NEW i \in Nat, \A j \in S : j \in Nat /\ j < i
  PROVE  /\ \A k \in S : LET after(T) == Cardinality({j \in T : j > k})
                         IN  after(S) \in Nat /\ after(S \cup {i}) = after(S) + 1
         /\ Cardinality({j \in S \cup {i} : j > i}) = 0
<1>1. ASSUME NEW k \in S
      PROVE  LET after(T) == Cardinality({j \in T : j > k})
             IN  after(S) \in Nat /\ after(S \cup {i}) = after(S) + 1
  <2> DEFINE A == {j \in S : j > k}
  <2>1. {j \in S \cup {i} : j > k} = A \cup {i} /\ i \notin A
    OBVIOUS
  <2>2. IsFiniteSet(A)
    BY FS_Subset
  <2>. HIDE DEF A
  <2>3. Cardinality(A) \in Nat /\ Cardinality(A \cup {i}) = Cardinality(A) + 1
    BY <2>1, <2>2, FS_CardinalityType, FS_AddElement
  <2>. QED  BY <2>1, <2>3 DEF A
<1>2. {j \in S \cup {i} : j > i} = {}
  OBVIOUS
<1>. QED  BY <1>1, <1>2, FS_EmptySet

\* Every evaluated candidate is a point.
Placed(h) == \A k \in Evaluated(h) : h[k].candidate \in Points

\* The episodes that the detectors see, of a history and of the next.
LEMMA SeenExtend ==
  ASSUME NEW h, Stored(h), NEW i \in Nat, Beyond(h, i), NEW e \in Episode
  PROVE  LET g == Extend(h, i, e)
         IN  /\ DOMAIN g \ DOMAIN h = {i} /\ g[i] = e
             /\ \A k \in Evaluated(h) : k \in Nat /\ k < i /\ g[k] = h[k]
             /\ e.result = ToolError => Evaluated(g) = Evaluated(h)
             /\ e.result # ToolError => Evaluated(g) = Evaluated(h) \cup {i}
             /\ IsFiniteSet(Evaluated(h)) /\ i \notin Evaluated(h)
<1>1. DOMAIN Extend(h, i, e) \ DOMAIN h = {i} /\ Extend(h, i, e)[i] = e
  BY DEF Extend, Beyond
<1>2. \A k \in Evaluated(h) : k \in DOMAIN h /\ k \in Nat /\ k < i
  BY DEF Evaluated, Stored, IsHistory, Beyond
<1>3. \A k \in Evaluated(h) : Extend(h, i, e)[k] = h[k]
  BY <1>2 DEF Extend
<1>4. /\ e.result = ToolError => Evaluated(Extend(h, i, e)) = Evaluated(h)
      /\ e.result # ToolError => Evaluated(Extend(h, i, e)) = Evaluated(h) \cup {i}
  BY ExtendBeyond DEF Stored
<1>5. IsFiniteSet(Evaluated(h)) /\ i \notin Evaluated(h)
  <2>1. Evaluated(h) \subseteq DOMAIN h
    BY <1>2
  <2>. QED  BY <1>2, <2>1, FS_Subset DEF Stored
<1>. QED  BY <1>1, <1>2, <1>3, <1>4, <1>5

\* An episode without a result is invisible to both detectors.
LEMMA FailureUnseen ==
  ASSUME NEW h, Stored(h), NEW i \in Nat, Beyond(h, i), NEW e \in Episode, e.result = ToolError
  PROVE  LET g == Extend(h, i, e)
         IN  (Stuck(g) <=> Stuck(h)) /\ (Crowded(g) <=> Crowded(h)) /\ Verdict(g) = Verdict(h)
<1> DEFINE g == Extend(h, i, e)
<1>1. Evaluated(g) = Evaluated(h) /\ \A k \in Evaluated(h) : g[k] = h[k]
  BY SeenExtend
<1>. HIDE DEF g
<1>2. Stuck(g) <=> Stuck(h)
  BY <1>1 DEF Stuck
<1>3. Latest(g, CrowdWindow) = Latest(h, CrowdWindow)
  BY <1>1 DEF Latest
<1>4. \A k \in Latest(h, CrowdWindow) : g[k] = h[k]
  BY <1>1 DEF Latest
<1>5. {k \in Latest(g, CrowdWindow) : Coordinates[g[k].candidate] # <<>>} =
      {k \in Latest(h, CrowdWindow) : Coordinates[h[k].candidate] # <<>>}
  BY <1>3, <1>4
<1>6. Crowded(g) <=> Crowded(h)
  BY <1>1, <1>4, <1>5 DEF Crowded
<1>. QED  BY <1>2, <1>6 DEF Verdict, g

\* A stuck run that is stuck no more has improved.
LEMMA StuckUntilImproved ==
  ASSUME NEW h, Stored(h), NEW i \in Nat, Beyond(h, i), NEW e \in Episode,
         Stuck(h), ~Stuck(Extend(h, i, e))
  PROVE  e.improved
<1> DEFINE g == Extend(h, i, e)
           S == Evaluated(h)
           later(T, k) == Cardinality({j \in T : j > k})
<1>. SUFFICES ASSUME ~e.improved PROVE FALSE
  OBVIOUS
<1>1. e.result # ToolError
  BY FailureUnseen
<1>2. Evaluated(g) = S \cup {i} /\ IsFiniteSet(S) /\ i \notin S /\ g[i] = e
      /\ \A k \in S : k \in Nat /\ k < i /\ g[k] = h[k]
  BY <1>1, SeenExtend
<1>3. /\ Window > 0 /\ Cardinality(S) >= Window
      /\ \A k \in S : later(S, k) < Window => ~h[k].improved
  BY DEF Stuck
<1>4. ~Stuck(g)
  OBVIOUS
<1>. HIDE DEF g, S
<1>5. \A k \in S : later(S, k) \in Nat /\ later(S \cup {i}, k) = later(S, k) + 1
  BY <1>2, LaterExtend
<1>6. Cardinality(S \cup {i}) >= Window
  <2>1. Cardinality(S) \in Nat /\ Cardinality(S \cup {i}) = Cardinality(S) + 1
    BY <1>2, FS_CardinalityType, FS_AddElement
  <2>. QED  BY <1>3, <2>1, LimitsAssumption
<1>. HIDE DEF later
<1>7. \A k \in S \cup {i} : later(S \cup {i}, k) < Window => ~g[k].improved
  <2>. SUFFICES ASSUME NEW k \in S, later(S \cup {i}, k) < Window PROVE ~g[k].improved
    BY <1>2
  <2>1. later(S, k) < Window
    BY <1>5, LimitsAssumption
  <2>. QED  BY <1>2, <1>3, <2>1
<1>8. Stuck(g)
  BY <1>2, <1>3, <1>6, <1>7 DEF Stuck, later
<1>. QED  BY <1>4, <1>8

\* The latest results of a longer history: the new one, and earlier ones that
\* were among the latest before.
LEMMA LatestExtend ==
  ASSUME NEW h, Stored(h), NEW i \in Nat, Beyond(h, i), NEW e \in Episode, e.result # ToolError,
         Evaluations(h) >= CrowdWindow
  PROVE  LET g == Extend(h, i, e)
         IN  /\ i \in Latest(g, CrowdWindow)
             /\ \A k \in Latest(g, CrowdWindow) : k = i \/ k \in Latest(h, CrowdWindow)
             /\ \E k \in Latest(g, CrowdWindow) : k # i
<1> DEFINE g == Extend(h, i, e)
           S == Evaluated(h)
           W == CrowdWindow
           later(T, k) == Cardinality({j \in T : j > k})
<1>1. Evaluated(g) = S \cup {i} /\ IsFiniteSet(S) /\ i \notin S /\ \A k \in S : k \in Nat /\ k < i
  BY SeenExtend
<1>2. W \in Nat /\ W >= 2
  BY ScoringAssumption
<1>3. Cardinality(S) >= W
  BY DEF Evaluations
<1>4. /\ \A k : k \in Latest(g, W) <=> k \in Evaluated(g) /\ later(Evaluated(g), k) < W
      /\ \A k : k \in Latest(h, W) <=> k \in S /\ later(S, k) < W
  BY DEF Latest
<1>. HIDE DEF g, S, W
<1>5. /\ \A k \in S : later(S, k) \in Nat /\ later(S \cup {i}, k) = later(S, k) + 1
      /\ later(S \cup {i}, i) = 0
  BY <1>1, LaterExtend
<1>6. \E k \in S : later(S, k) = 0
  <2>1. S # {} /\ S \subseteq Int
    BY <1>1, <1>2, <1>3, FS_EmptySet
  <2>2. PICK k \in S : \A j \in S : j <= k
    BY <1>1, <2>1, GreatestElement
  <2>3. {j \in S : j > k} = {}
    <3>1. \A j \in S : j \in Int /\ k \in Int /\ j <= k
      BY <2>1, <2>2
    <3>2. \A j \in S : ~(j > k)
      BY <3>1
    <3>. QED  BY <3>2
  <2>. QED  BY <2>3, FS_EmptySet
<1>. HIDE DEF later
<1>7. i \in Latest(g, W)
  BY <1>1, <1>2, <1>4, <1>5
<1>8. ASSUME NEW k \in Latest(g, W) PROVE k = i \/ k \in Latest(h, W)
  BY <1>1, <1>2, <1>4, <1>5
<1>9. \E k \in Latest(g, W) : k # i
  <2>1. PICK k \in S : later(S, k) = 0
    BY <1>6
  <2>2. later(S \cup {i}, k) = 1
    BY <1>5, <2>1
  <2>. QED  BY <1>1, <1>2, <1>4, <2>2
<1>. QED  BY <1>7, <1>8, <1>9 DEF g, W

\* Some of the latest results is far from a point.
Away(h, p) == \E j \in Latest(h, CrowdWindow) :
               Apart(p, h[j].candidate) > Square(Epsilon)

\* A crowded run that is crowded no more has a result away from a recent one.
LEMMA CrowdedUntilFar ==
  ASSUME NEW h, Stored(h), NEW i \in Nat, Beyond(h, i), NEW e \in Episode, Placed(h),
         e.result # ToolError => e.candidate \in Points,
         Crowded(h), ~Crowded(Extend(h, i, e))
  PROVE  e.result # ToolError /\ Away(h, e.candidate)
<1> DEFINE g == Extend(h, i, e)
           W == CrowdWindow
           L == Latest(h, W)
           M == Latest(g, W)
<1>1. e.result # ToolError /\ e.candidate \in Points
  BY FailureUnseen
<1>. SUFFICES ASSUME ~Away(h, e.candidate) PROVE FALSE
  BY <1>1
<1>2. Evaluated(g) = Evaluated(h) \cup {i} /\ IsFiniteSet(Evaluated(h)) /\ i \notin Evaluated(h)
      /\ g[i] = e /\ \A k \in Evaluated(h) : g[k] = h[k]
  BY <1>1, SeenExtend
<1>3. L \subseteq Evaluated(h) /\ M \subseteq Evaluated(g)
  BY DEF Latest
<1>4. /\ Evaluations(h) >= W
      /\ \E k \in L : Coordinates[h[k].candidate] # <<>>
      /\ \A j, k \in {k \in L : Coordinates[h[k].candidate] # <<>>} :
           Apart(h[j].candidate, h[k].candidate) <= Square(Epsilon)
  <2> DEFINE R == {k \in L : Coordinates[h[k].candidate] # <<>>}
  <2>1. /\ Evaluations(h) >= W /\ Cardinality(R) >= 2
        /\ \A j, k \in R : Apart(h[j].candidate, h[k].candidate) <= Square(Epsilon)
    BY DEF Crowded, Evaluations
  <2>2. R # {}
    <3>1. Cardinality({}) = 0 /\ ~(0 >= 2)
      BY FS_EmptySet
    <3>2. Cardinality(R) >= 2
      BY <2>1
    <3>. HIDE DEF R
    <3>. QED  BY <3>1, <3>2
  <2>. QED  BY <2>1, <2>2
<1>5. W \in Nat /\ W >= 2 /\ Epsilon \in Nat /\ Square(Epsilon) \in Int /\ Square(Epsilon) >= 0
  <2>1. \A n \in Nat : Square(n) \in Int /\ Square(n) >= 0
    BY DEF Square
  <2>. QED  BY <2>1, ScoringAssumption
<1>6. \A p \in Points : Coordinates[p] # <<>>
  <2>1. \A p, q \in Points : Len(Coordinates[p]) = Len(Coordinates[q])
        /\ Coordinates[p] \in Seq(Int)
    BY ScoringAssumption
  <2>2. \A s \in Seq(Int) : s = <<>> <=> Len(s) = 0
    OBVIOUS
  <2>3. PICK p \in Points : Coordinates[p] # <<>>
    BY <1>3, <1>4 DEF Placed
  <2>. QED  BY <2>1, <2>2, <2>3
<1>7. /\ i \in M /\ \A k \in M : k = i \/ k \in L
      /\ \E k \in M : k # i
  BY <1>1, <1>4, LatestExtend
<1>8. \A k \in L : h[k].candidate \in Points /\ g[k] = h[k] /\ k # i
  BY <1>2, <1>3 DEF Placed
<1>9. ASSUME NEW j \in M, NEW k \in M
      PROVE  Apart(g[j].candidate, g[k].candidate) <= Square(Epsilon)
  <2>1. \A l \in L : Apart(e.candidate, h[l].candidate) \in Int
                     /\ ~(Apart(e.candidate, h[l].candidate) > Square(Epsilon))
                     /\ Apart(h[l].candidate, e.candidate) = Apart(e.candidate, h[l].candidate)
    BY <1>1, <1>8, ApartType DEF Away
  <2>2. \A l \in L : Apart(e.candidate, h[l].candidate) <= Square(Epsilon)
                     /\ Apart(h[l].candidate, e.candidate) <= Square(Epsilon)
    BY <1>5, <2>1
  <2>3. Apart(e.candidate, e.candidate) <= Square(Epsilon)
    <3>1. Apart(e.candidate, e.candidate) = 0
      BY <1>1, ApartType
    <3>. QED  BY <1>5, <3>1
  <2>4. \A l, m \in L : Apart(h[l].candidate, h[m].candidate) <= Square(Epsilon)
    BY <1>4, <1>6, <1>8
  <2>. HIDE DEF g, L, M
  <2>. QED  BY <1>2, <1>7, <1>8, <2>2, <2>3, <2>4
<1>. HIDE DEF g
<1>10. \A k \in M : Coordinates[g[k].candidate] # <<>>
  BY <1>1, <1>2, <1>6, <1>7, <1>8
<1>11. Cardinality(M) >= 2
  <2>1. PICK k \in M : k # i
    BY <1>7
  <2>2. IsFiniteSet(Evaluated(g))
    BY <1>2, FS_AddElement
  <2>3. IsFiniteSet(M)
    BY <1>3, <2>2, FS_Subset
  <2>4. IsFiniteSet({i}) /\ Cardinality({i}) = 1
    BY FS_Singleton
  <2>5. Cardinality({i} \cup {k}) = 2
    <3> DEFINE T == {i}
    <3>1. IsFiniteSet(T) /\ Cardinality(T) = 1 /\ k \notin T
      BY <2>1, <2>4
    <3>. HIDE DEF T
    <3>2. Cardinality(T \cup {k}) = Cardinality(T) + 1
      BY <3>1, FS_AddElement
    <3>3. Cardinality(T \cup {k}) = 2
      BY <3>1, <3>2
    <3>. QED  BY <3>3 DEF T
  <2>6. {i} \cup {k} \subseteq M
    BY <1>7
  <2>7. Cardinality({i} \cup {k}) <= Cardinality(M) /\ Cardinality(M) \in Nat
    BY <2>3, <2>6, FS_Subset, FS_CardinalityType
  <2>. QED  BY <2>5, <2>7
<1>12. Cardinality(Evaluated(g)) >= W
  <2>1. Cardinality(Evaluated(h)) \in Nat /\ Cardinality(Evaluated(g)) = Cardinality(Evaluated(h)) + 1
    BY <1>2, FS_CardinalityType, FS_AddElement
  <2>. QED  BY <1>4, <1>5, <2>1 DEF Evaluations
<1>13. {k \in M : Coordinates[g[k].candidate] # <<>>} = M
  BY <1>10
<1>14. Crowded(g)
  BY <1>9, <1>11, <1>12, <1>13 DEF Crowded
<1>. QED  BY <1>14 DEF g

\* RejectionsDoNotStagnate of two histories.
Lively(h, g) ==
  LET new    == DOMAIN g \ DOMAIN h
      Far(i) == \E j \in Latest(h, CrowdWindow) :
                  Apart(g[i].candidate, h[j].candidate) > Square(Epsilon)
  IN
  /\ (\A i \in new : g[i].result = ToolError) => Verdict(g) = Verdict(h)
  /\ Stuck(h) /\ ~Stuck(g) => \E i \in new : g[i].improved
  /\ Crowded(h) /\ ~Crowded(g) => \E i \in new \cap Evaluated(g) : Far(i)

LEMMA LivelyStep ==
  ASSUME NEW h, Stored(h), NEW i \in Nat, Beyond(h, i), NEW e \in Episode, Placed(h),
         e.result # ToolError => e.candidate \in Points
  PROVE  Lively(h, Extend(h, i, e))
<1> DEFINE g == Extend(h, i, e)
<1>1. DOMAIN g \ DOMAIN h = {i} /\ g[i] = e /\ (e.result # ToolError => i \in Evaluated(g))
  BY SeenExtend
<1>2. e.result = ToolError => Verdict(g) = Verdict(h)
  BY FailureUnseen
<1>3. Stuck(h) /\ ~Stuck(g) => e.improved
  BY StuckUntilImproved
<1>4. Crowded(h) /\ ~Crowded(g) => e.result # ToolError /\ Away(h, e.candidate)
  BY CrowdedUntilFar
<1>. HIDE DEF g
<1>5. Lively(h, g)
  BY <1>1, <1>2, <1>3, <1>4 DEF Lively, Away
<1>. QED  BY <1>5 DEF g

-----------------------------------------------------------------------------
\* What every record satisfies, and what a step makes of one.
Sound == Stored(history) /\ Graded(history) /\ Placed(history)

LEMMA SoundAtFirst ==
  ASSUME Init PROVE Sound
<1>1. DOMAIN history = {} /\ Evaluated(history) = {}
  BY DEF Init, EmptyHistory, Evaluated
<1>2. Stored(history)
  BY <1>1, FS_EmptySet DEF Stored, IsHistory, Init, EmptyHistory
<1>3. Evaluations(history) = 0
  BY <1>1, FS_EmptySet DEF Evaluations
<1>4. RecomputeBest(history) = NoBest /\ Leads(history, NoBest)
  BY <1>1 DEF RecomputeBest, Leads
<1>5. NextIdx(history) = 0
  BY <1>1 DEF NextIdx
<1>6. Replay(history) = NoBest
  <2>1. PICK B : /\ B[0] = NoBest /\ Replay(history) = B[NextIdx(history)]
    BY <1>2, <1>5, ReplayIs
  <2>. QED  BY <1>5, <2>1
<1>7. Kept(history, Evaluations(history)) = Earned(NoBest)
  BY <1>3 DEF Kept, Earned
<1>8. Improved(history) = {}
  BY <1>1 DEF Improved
<1>9. Placed(history)
  BY <1>1 DEF Placed
<1>. QED  BY <1>2, <1>4, <1>6, <1>7, <1>8, <1>9 DEF Sound, Graded

\* A step records one more episode, after all others, and grades it.
LEMMA Step ==
  ASSUME Sound, Next
  PROVE  \E i \in Nat, e \in Episode :
           /\ history' = Extend(history, i, e) /\ Beyond(history, i)
           /\ e.result # ToolError => e.candidate \in Points
           /\ e.improved <=> e.result # ToolError /\ BetterThan(e.result, RecomputeBest(history))
<1>1. PICK c \in Answers, t \in WallTimes, i \in NextIdx(history) .. NextIdx(history) + 1 :
        history' = Extend(history, i, MakeEpisode(c, t, RecomputeBest(history)))
  BY DEF Next, Record
<1> DEFINE e == MakeEpisode(c, t, RecomputeBest(history))
<1>2. /\ e \in Episode /\ (e.result # ToolError => e.candidate \in Points)
      /\ e.improved <=> e.result # ToolError /\ BetterThan(e.result, RecomputeBest(history))
  BY Recorded
<1>3. i \in Nat /\ Beyond(history, i)
  <2>1. NextIdx(history) \in Nat
    BY NextIdxIs DEF Sound
  <2>2. i \in Nat /\ i >= NextIdx(history)
    BY <2>1
  <2>. QED  BY <2>2, NextIdxIs DEF Sound
<1>. HIDE DEF e
<1>4. history' = Extend(history, i, e)
  BY <1>1 DEF e
<1>. QED  BY <1>2, <1>3, <1>4

LEMMA SoundStep ==
  ASSUME Sound, [Next]_history PROVE Sound'
<1>1. CASE Next
  <2>1. PICK i \in Nat, e \in Episode :
          /\ history' = Extend(history, i, e) /\ Beyond(history, i)
          /\ e.result # ToolError => e.candidate \in Points
          /\ e.improved <=> e.result # ToolError /\ BetterThan(e.result, RecomputeBest(history))
    BY <1>1, Step
  <2>2. Stored(history) /\ Graded(history) /\ Placed(history)
    BY DEF Sound
  <2>3. Stored(Extend(history, i, e))
    BY <2>1, <2>2, ResultsExtend
  <2>4. Graded(Extend(history, i, e))
    BY <2>1, <2>2, GradedExtend
  <2>5. Placed(Extend(history, i, e))
    <3>1. /\ Extend(history, i, e)[i] = e
          /\ \A k \in Evaluated(history) : Extend(history, i, e)[k] = history[k]
          /\ e.result = ToolError => Evaluated(Extend(history, i, e)) = Evaluated(history)
          /\ e.result # ToolError => Evaluated(Extend(history, i, e)) = Evaluated(history) \cup {i}
      BY <2>1, <2>2, SeenExtend
    <3>. QED  BY <2>1, <2>2, <3>1 DEF Placed
  <2>. QED  BY <2>1, <2>3, <2>4, <2>5 DEF Sound
<1>2. CASE UNCHANGED history
  BY <1>2 DEF Sound
<1>. QED  BY <1>1, <1>2

LEMMA Soundness == Spec => []Sound
<1>1. Init => Sound
  BY SoundAtFirst
<1>2. Sound /\ [Next]_history => Sound'
  BY SoundStep
<1>. QED  BY <1>1, <1>2, PTL DEF Spec

-----------------------------------------------------------------------------
LEMMA SoundAgrees ==
  ASSUME Sound PROVE IncumbentsAgree
<1> DEFINE b == RecomputeBest(history)
           n == Evaluations(history)
<1>1. /\ Replay(history) = b
      /\ Improved(history) = {} <=> b = NoBest
      /\ b # NoBest =>
           b.episode_idx \in Improved(history) /\ \A i \in Improved(history) : i <= b.episode_idx
      /\ Kept(history, n) = Earned(b)
  BY DEF Sound, Graded
<1>2. Stored(history)
  BY DEF Sound
<1>3. ASSUME Improved(history) # {} PROVE b.episode_idx = Max(Improved(history))
  <2> DEFINE S == Improved(history)
             m == Max(S)
             k == b.episode_idx
  <2>1. S \subseteq Int /\ IsFiniteSet(S)
    <3>1. S \subseteq DOMAIN history /\ DOMAIN history \subseteq Nat
      BY <1>2 DEF Stored, IsHistory, Improved
    <3>. QED  BY <1>2, <3>1, FS_Subset DEF Stored
  <2>2. k \in S /\ \A i \in S : i <= k
    BY <1>1, <1>3
  <2>. HIDE DEF S, k
  <2>3. m \in S /\ \A i \in S : i <= m
    BY <2>1, <2>2, GreatestElement
  <2>. HIDE DEF m
  <2>4. m \in Int /\ k \in Int /\ m <= k /\ k <= m
    BY <2>1, <2>2, <2>3
  <2>5. k = m
    BY <2>4
  <2>. QED  BY <2>5 DEF k, m, S
<1>4. BestObjective(history) = Kept(history, n)
  <2>1. n \in Nat /\ DOMAIN Curve(history) = 1 .. n /\ Len(Curve(history)) = n
    BY <1>2, CurveIs
  <2>2. CASE n = 0
    <3>1. Curve(history) = <<>>
      <4>1. Curve(history) = [k \in 1 .. Len(Results(history)) |-> Curve(history)[k]]
        BY <2>1 DEF Curve
      <4>2. 1 .. Len(Results(history)) = {}
        BY <1>2, <2>2, ResultsType
      <4>. QED  BY <4>1, <4>2
    <3>. QED  BY <2>2, <3>1 DEF BestObjective, Kept
  <2>3. CASE n # 0
    <3>1. Curve(history) # <<>> /\ Last(Curve(history)) = Curve(history)[n]
      BY <2>1, <2>3 DEF Last
    <3>. QED  BY <2>3, <3>1 DEF BestObjective, Kept
  <2>. QED  BY <2>2, <2>3
<1>5. Improved(history) = {i \in DOMAIN history : history[i].improved}
  BY DEF Improved
<1>. HIDE DEF b, n
<1>6. /\ Replay(history) = b
      /\ Improved(history) = {} <=> b = NoBest
      /\ Improved(history) # {} => b.episode_idx = Max(Improved(history))
      /\ BestObjective(history) = IF b # NoBest /\ b.result.feasible THEN b.result.value ELSE NoValue
  BY <1>1, <1>3, <1>4 DEF Earned
<1>. QED  BY <1>5, <1>6 DEF IncumbentsAgree, b

\* However a run's best result is computed, from the episodes, from the flags
\* or from the report's curve, it is the same, for any simulator and any gaps.
THEOREM BestIsOne == Spec => []IncumbentsAgree
<1>1. Sound => IncumbentsAgree
  BY SoundAgrees
<1>. QED  BY <1>1, Soundness, PTL

\* No later evaluation and no budget changes when a run reached the threshold,
\* and regret does not rise (summarise_run, evaluations_to_threshold).
THEOREM ThresholdStands == Spec => ThresholdIsStable
<1>1. Sound /\ Next => Stable(history, history')
  <2>. SUFFICES ASSUME Sound, Next PROVE Stable(history, history')
    OBVIOUS
  <2>1. PICK i \in Nat, e \in Episode : history' = Extend(history, i, e) /\ Beyond(history, i)
    BY Step
  <2>2. Stored(history)
    BY DEF Sound
  <2>. QED  BY <2>1, <2>2, StableStep
<1>2. Sound /\ [Next]_history => [Stable(history, history')]_history
  BY <1>1
<1>3. ThresholdIsStable <=> [][Stable(history, history')]_history
  BY PTL DEF ThresholdIsStable, Stable
<1>. QED  BY <1>2, <1>3, Soundness, PTL DEF Spec

\* A proposal that came to nothing changes no detector's verdict, and a run is
\* stuck or crowded no more only for an improvement or a result away from a
\* recent one, whatever the windows and the coordinates.
THEOREM DetectorsCountEvaluations == Spec => RejectionsDoNotStagnate
<1>1. Sound /\ Next => Lively(history, history')
  <2>. SUFFICES ASSUME Sound, Next PROVE Lively(history, history')
    OBVIOUS
  <2>1. PICK i \in Nat, e \in Episode :
          /\ history' = Extend(history, i, e) /\ Beyond(history, i)
          /\ e.result # ToolError => e.candidate \in Points
    BY Step
  <2>2. Stored(history) /\ Placed(history)
    BY DEF Sound
  <2>. QED  BY <2>1, <2>2, LivelyStep
<1>2. Sound /\ [Next]_history => [Lively(history, history')]_history
  BY <1>1
<1>3. RejectionsDoNotStagnate <=> [][Lively(history, history')]_history
  BY PTL DEF RejectionsDoNotStagnate, Lively
<1>. QED  BY <1>2, <1>3, Soundness, PTL DEF Spec
=============================================================================
