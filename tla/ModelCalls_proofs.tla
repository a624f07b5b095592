------------------------- MODULE ModelCalls_proofs -------------------------
(***************************************************************************)
(* For any number of processes, any answers, any allowances and any crash:  *)
(* one question costs one answer, the reply behind a stored proposal stays  *)
(* on record, a recorded plan is served in order, and a planner the cache   *)
(* has answered once is answered by it to the end.                          *)
(***************************************************************************)
EXTENDS ModelCalls, SequenceTheorems, Induction

Plan == <<"plan">>

\* Key and Position as functions of the strategy.
KeyOf(s, h) ==
  IF s = "single_shot" THEN Plan
  ELSE <<"next", Evaluations(h), Proposals(Recent(Rejections(h)))>>
PositionOf(s, h) == IF s = "single_shot" THEN Len(h) + 1 ELSE 1

MyKey(w) == KeyOf(strategy, local[w])
MyPosition(w) == PositionOf(strategy, local[w])

\* Times, of any sequence of questions.
Count(s, k) == Cardinality({i \in DOMAIN s : s[i] = k})

\* A sequence of anything.
IsSequence(s) == \E S : s \in Seq(S)

-----------------------------------------------------------------------------
\* What the types leave out: a process at `replied` or later holds a reply, and
\* the proposal it is about to store is one of that reply.
Holding ==
  \A w \in Workers :
    /\ pc[w] \in {"record", "replied"} => reply[w] # NoReply
    /\ (pc[w] = "commit" /\ reply[w] # NoReply) => MyPosition(w) <= Len(reply[w])

\* A process never works from a history that is not the beginning of the table.
LocalIsPrefix ==
  \A w \in Workers :
    Len(local[w]) <= Len(episodes) /\ local[w] = SubSeq(episodes, 1, Len(local[w]))

Types == TypeOK /\ IsSequence(asked)

\* Who may still be answered k by a provider.
Askers(k) ==
  {w \in Workers :
     /\ pc[w] # "idle"
     /\ \/ pc[w] = "asking" /\ MyKey(w) = k
        \/ k \notin DOMAIN llmCalls /\ ~ (pc[w] = "record" /\ MyKey(w) = k)}

\* AskedOnce, strengthened: every process that may still be answered k was
\* started for it.
EveryAskWasStarted == \A k : Count(asked, k) + Cardinality(Askers(k)) <= starts

\* A process that was answered, a stored reply, and a process that was answered
\* what is stored or what another one is about to store, each account for an
\* answer of their own.
AnswersAddUp ==
  /\ \A w \in Workers : pc[w] = "record" =>
       /\ Count(asked, MyKey(w)) >= 1
       /\ MyKey(w) \in DOMAIN llmCalls => Count(asked, MyKey(w)) >= 2
  /\ \A v, w \in Workers :
       (v # w /\ pc[v] = "record" /\ pc[w] = "record" /\ MyKey(v) = MyKey(w)) =>
         Count(asked, MyKey(w)) >= 2
  /\ \A k \in DOMAIN llmCalls : Count(asked, k) >= 1

\* The stored reply of k is the only one there was, and it can be read.
OnlyReply(calls, questions, k) == calls[k] # Unreadable /\ Count(questions, k) = 1
IsTheReply(k) == OnlyReply(llmCalls, asked, k)

\* A reply that was asked for did not come from the cache.
AskersMissed == \A w \in Workers : pc[w] \in {"asking", "record"} => ~ hit[w]

\* A process that goes on with a reply goes on with the stored one: with a
\* replayed one for good, with its own if that was the only one.
HeldIsStored ==
  \A w \in Workers :
    (pc[w] = "replied" \/ (pc[w] = "commit" /\ reply[w] # NoReply)) =>
      /\ MyKey(w) \in DOMAIN llmCalls
      /\ IsTheReply(MyKey(w)) => llmCalls[MyKey(w)] = reply[w]
      /\ hit[w] => llmCalls[MyKey(w)] # Unreadable /\ llmCalls[MyKey(w)] = reply[w]

\* The proposal of e, made after the history h, is the one that the stored reply
\* has at its position.
Vouched(s, calls, questions, h, e) ==
  e.proposal # Failed =>
    LET k == KeyOf(s, h)
        p == PositionOf(s, h) IN
    /\ k \in DOMAIN calls
    /\ OnlyReply(calls, questions, k) => p <= Len(calls[k]) /\ calls[k][p] = e.proposal
    /\ e.hit => calls[k] # Unreadable /\ p <= Len(calls[k]) /\ calls[k][p] = e.proposal

\* EvidenceSurvives, with the position inside the stored reply.
Evidence ==
  \A i \in DOMAIN episodes : Vouched(strategy, llmCalls, asked, Before(i), episodes[i])

\* Only a plan can run out, and then every position of it is behind.
RunsOutAtTheEnd ==
  /\ strategy # "single_shot" => Plan \notin DOMAIN llmCalls
  /\ ended = "EXHAUSTED" =>
       /\ strategy = "single_shot" /\ Plan \in DOMAIN llmCalls
       /\ IsTheReply(Plan) => Len(episodes) >= Len(llmCalls[Plan])

-----------------------------------------------------------------------------
LEMMA KeysAndPositions ==
  \A h : Key(h) = KeyOf(strategy, h) /\ Position(h) = PositionOf(strategy, h)
BY DEF Key, KeyOf, Position, PositionOf, Plan

LEMMA PlanKey ==
  ASSUME NEW s, NEW h
  PROVE  KeyOf(s, h) = Plan <=> s = "single_shot"
BY DEF KeyOf, Plan

\* A reply is a sequence of proposals, and not an empty one.
LEMMA RepliesAreSequences ==
  ASSUME NEW r \in Replies
  PROVE  /\ r \in Seq(Good \cup Bad) /\ Len(r) \in Nat \ {0} /\ r # NoReply
         /\ \A i \in 1 .. Len(r) : r[i] \in Good \cup Bad
<1>1. PICK n \in Nat \ {0} : r \in [1 .. n -> Good \cup Bad]
  <2>1. CASE strategy = "single_shot"
    <3>1. r \in UNION {[1 .. n -> Good \cup Bad] : n \in 1 .. MaxPlan}
      BY <2>1 DEF Replies
    <3>2. PICK n \in 1 .. MaxPlan : r \in [1 .. n -> Good \cup Bad]
      BY <3>1
    <3>. QED  BY <3>2, ModelCallsAssumption
  <2>2. CASE strategy # "single_shot"
    <3>1. r \in [1 .. 1 -> Good \cup Bad]
      BY <2>2 DEF Replies
    <3>. QED  BY <3>1
  <2>. QED  BY <2>1, <2>2
<1>2. r \in Seq(Good \cup Bad) /\ Len(r) = n
  BY <1>1
<1>. QED  BY <1>1, <1>2 DEF NoReply

LEMMA FixedStrategy ==
  [Next]_vars => strategy' = strategy /\ Replies' = Replies
<1>. SUFFICES ASSUME [Next]_vars PROVE strategy' = strategy
  BY DEF Replies
<1>. QED
  BY DEF Next, vars, Start, Stop, Hit, HitUnreadable, Miss, Answer, Fail, Record,
         Exhausted, Propose, Commit, Conflict, Crash

-----------------------------------------------------------------------------
\* Counting the answers to a question.
LEMMA CountIsNat ==
  ASSUME NEW s, IsSequence(s), NEW k
  PROVE  Count(s, k) \in Nat
<1>. DEFINE M == {i \in DOMAIN s : s[i] = k}
<1>1. PICK S : s \in Seq(S)
  BY DEF IsSequence
<1>2. DOMAIN s = 1 .. Len(s) /\ Len(s) \in Nat
  BY <1>1, LenProperties
<1>3. IsFiniteSet(1 .. Len(s))
  BY <1>2, FS_Interval
<1>4. M \in SUBSET (1 .. Len(s))
  BY <1>2
<1>5. IsFiniteSet(M)
  BY <1>3, <1>4, FS_Subset
<1>. QED  BY <1>5, FS_CardinalityType DEF Count

LEMMA CountOfAppend ==
  ASSUME NEW s, IsSequence(s), NEW e
  PROVE  /\ IsSequence(Append(s, e))
         /\ \A k : Count(Append(s, e), k) = IF k = e THEN Count(s, k) + 1 ELSE Count(s, k)
<1>1. PICK S : s \in Seq(S)
  BY DEF IsSequence
<1>2. s \in Seq(S \cup {e})
  BY <1>1, SeqMonotonic, S \subseteq S \cup {e}, Zenon
<1>. DEFINE t == Append(s, e)
            n == Len(s)
<1>3. /\ t \in Seq(S \cup {e}) /\ n \in Nat
      /\ DOMAIN s = 1 .. n /\ DOMAIN t = 1 .. n + 1
      /\ t[n + 1] = e /\ \A i \in 1 .. n : t[i] = s[i]
  BY <1>2
<1>4. ASSUME NEW k
      PROVE  Count(t, k) = IF k = e THEN Count(s, k) + 1 ELSE Count(s, k)
  <2>. DEFINE M == {i \in DOMAIN s : s[i] = k}
              L == {i \in DOMAIN t : t[i] = k}
  <2>. HIDE DEF t
  <2>1. IsFiniteSet(1 .. n) /\ M \in SUBSET (1 .. n)
    BY <1>3, FS_Interval
  <2>2. IsFiniteSet(M)
    BY <2>1, FS_Subset
  <2>3. CASE k = e
    <3>1. L = M \cup {n + 1} /\ n + 1 \notin M
      BY <1>3, <2>3
    <3>. QED  BY <3>1, <2>2, <2>3, FS_AddElement DEF Count
  <2>4. CASE k # e
    <3>1. L = M
      BY <1>3, <2>4
    <3>. QED  BY <3>1, <2>4 DEF Count
  <2>. QED  BY <2>3, <2>4
<1>. QED  BY <1>3, <1>4 DEF IsSequence

LEMMA AskersAreFew ==
  ASSUME NEW k
  PROVE  IsFiniteSet(Askers(k)) /\ Cardinality(Askers(k)) \in Nat
<1>1. IsFiniteSet(Workers) /\ Askers(k) \in SUBSET Workers
  BY ModelCallsAssumption DEF Askers
<1>. QED  BY <1>1, FS_Subset, FS_CardinalityType

-----------------------------------------------------------------------------
\* What a committed episode is.
LEMMA StoredEpisode ==
  ASSUME Types, Holding, NEW w \in Workers, pc[w] = "commit"
  PROVE  /\ EpisodeOf(w) \in Episode
         /\ EpisodeOf(w).hit = hit[w]
         /\ EpisodeOf(w).proposal # Failed =>
              /\ reply[w] # NoReply
              /\ EpisodeOf(w).proposal = reply[w][MyPosition(w)]
<1>1. Position(local[w]) = MyPosition(w)
  BY KeysAndPositions DEF MyPosition
<1>2. CASE reply[w] = NoReply
  BY <1>2 DEF EpisodeOf, Episode, Types, TypeOK, Proposal
<1>3. CASE reply[w] # NoReply
  <2>1. reply[w] \in Replies
    BY <1>3 DEF Types, TypeOK
  <2>2. MyPosition(w) \in 1 .. Len(reply[w])
    <3>1. MyPosition(w) <= Len(reply[w])
      BY <1>3 DEF Holding
    <3>2. Len(local[w]) \in Nat
      BY DEF Types, TypeOK
    <3>. QED  BY <3>1, <3>2, <2>1, RepliesAreSequences DEF MyPosition, PositionOf
  <2>3. reply[w][MyPosition(w)] \in Good \cup Bad
    BY <2>1, <2>2, RepliesAreSequences
  <2>. QED  BY <1>1, <1>3, <2>3 DEF EpisodeOf, Episode, Types, TypeOK, Proposal
<1>. QED  BY <1>2, <1>3

LEMMA TypesInit == Init => Types /\ Holding /\ LocalIsPrefix
<1>. SUFFICES ASSUME Init PROVE Types /\ Holding /\ LocalIsPrefix
  OBVIOUS
<1>1. TypeOK
  BY ModelCallsAssumption DEF Init, TypeOK, NoCalls, NoReply
<1>2. IsSequence(asked)
  BY DEF Init, IsSequence
<1>3. Holding
  BY DEF Init, Holding
<1>4. LocalIsPrefix
  BY DEF Init, LocalIsPrefix
<1>. QED  BY <1>1, <1>2, <1>3, <1>4 DEF Types


\* Every step keeps the types.
LEMMA TypesStep ==
  ASSUME Types, Holding, [Next]_vars
  PROVE  Types' /\ Holding'
<1>. USE DEF Types, TypeOK, Holding, MyPosition, Goto, Set
<1>a. strategy' = strategy /\ Replies' = Replies
  BY FixedStrategy
<1>b. \A r \in Replies : r # NoReply
  BY RepliesAreSequences
<1>1. ASSUME NEW w \in Workers, Start(w)
      PROVE  Types' /\ Holding'
  BY <1>1, <1>a, <1>b, ModelCallsAssumption DEF Start
<1>2. ASSUME NEW w \in Workers, Stop(w)
      PROVE  Types' /\ Holding'
  BY <1>2, <1>a, <1>b, ModelCallsAssumption DEF Stop
<1>3. ASSUME NEW w \in Workers, Hit(w)
      PROVE  Types' /\ Holding'
  BY <1>3, <1>a, <1>b, ModelCallsAssumption DEF Hit
<1>4. ASSUME NEW w \in Workers, HitUnreadable(w)
      PROVE  Types' /\ Holding'
  BY <1>4, <1>a, <1>b, ModelCallsAssumption DEF HitUnreadable
<1>5. ASSUME NEW w \in Workers, Miss(w)
      PROVE  Types' /\ Holding'
  BY <1>5, <1>a, <1>b, ModelCallsAssumption DEF Miss
<1>6. ASSUME NEW w \in Workers, NEW repairs \in 0 .. MaxRepairs, Answer(w, repairs)
      PROVE  Types' /\ Holding'
  <2>1. PICK r \in Replies : reply' = [reply EXCEPT ![w] = r]
    BY <1>6 DEF Answer
  <2>2. IsSequence(asked')
    BY <1>6, CountOfAppend DEF Answer
  <2>. QED  BY <1>6, <1>a, <1>b, <2>1, <2>2, ModelCallsAssumption DEF Answer
<1>7. ASSUME NEW w \in Workers, NEW completions \in 0 .. MaxRepairs + 1, Fail(w, completions)
      PROVE  Types' /\ Holding'
  BY <1>7, <1>a, <1>b, ModelCallsAssumption DEF Fail
<1>8. ASSUME NEW w \in Workers, Record(w)
      PROVE  Types' /\ Holding'
  <2>1. reply[w] \in Replies /\ Stored(reply[w]) \in Replies \cup {Unreadable}
    BY <1>8 DEF Record, Stored
  <2>. QED  BY <1>8, <1>a, <2>1 DEF Record
<1>9. ASSUME NEW w \in Workers, Exhausted(w)
      PROVE  Types' /\ Holding'
  BY <1>9, <1>a, <1>b, ModelCallsAssumption DEF Exhausted
<1>10. ASSUME NEW w \in Workers, Propose(w)
      PROVE  Types' /\ Holding'
  <2>1. PositionOf(strategy, local[w]) <= Len(reply[w])
    BY <1>10, KeysAndPositions DEF Propose
  <2>. QED  BY <1>10, <1>a, <2>1 DEF Propose
<1>11. ASSUME NEW w \in Workers, Commit(w)
      PROVE  Types' /\ Holding'
  <2>1. EpisodeOf(w) \in Episode
    BY <1>11, StoredEpisode DEF Commit
  <2>. QED  BY <1>11, <1>a, <2>1 DEF Commit
<1>12. ASSUME NEW w \in Workers, Conflict(w)
      PROVE  Types' /\ Holding'
  BY <1>12, <1>a, <1>b, ModelCallsAssumption DEF Conflict
<1>13. ASSUME NEW w \in Workers, Crash(w)
      PROVE  Types' /\ Holding'
  BY <1>13, <1>a, <1>b, ModelCallsAssumption DEF Crash
<1>14. CASE UNCHANGED vars
  BY <1>14, <1>a DEF vars
<1>. QED
  BY <1>1, <1>2, <1>3, <1>4, <1>5, <1>6, <1>7, <1>8, <1>9, <1>10, <1>11, <1>12, <1>13, <1>14 DEF Next

-----------------------------------------------------------------------------
\* The first n episodes, before and after another one is stored.
LEMMA FirstOfAppend ==
  ASSUME NEW S, NEW s \in Seq(S), NEW e \in S, NEW n \in 0 .. Len(s)
  PROVE  SubSeq(Append(s, e), 1, n) = SubSeq(s, 1, n)
<1>. DEFINE t == Append(s, e)
<1>1. t \in Seq(S) /\ Len(t) = Len(s) + 1 /\ \A i \in 1 .. Len(s) : t[i] = s[i]
  BY AppendProperties
<1>. HIDE DEF t
<1>2. SubSeq(t, 1, n) \in Seq(S) /\ SubSeq(s, 1, n) \in Seq(S)
  BY <1>1, SubSeqProperties
<1>3. /\ Len(SubSeq(t, 1, n)) = n /\ Len(SubSeq(s, 1, n)) = n
      /\ \A i \in 1 .. n : SubSeq(t, 1, n)[i] = t[i] /\ SubSeq(s, 1, n)[i] = s[i]
  BY <1>1, SubSeqProperties
<1>4. \A i \in 1 .. n : SubSeq(t, 1, n)[i] = SubSeq(s, 1, n)[i]
  BY <1>1, <1>3
<1>5. SubSeq(t, 1, n) = SubSeq(s, 1, n)
  BY <1>2, <1>3, <1>4, SeqEqual
<1>. QED  BY <1>5 DEF t

\* Nothing but Start and Commit touches a history that is in use.
LEMMA LocalIsPrefixStep ==
  ASSUME Types, Types', Holding, LocalIsPrefix, [Next]_vars
  PROVE  LocalIsPrefix'
<1>. USE DEF Goto, Set, Types, TypeOK
<1>a. episodes \in Seq(Episode) /\ SubSeq(episodes, 1, Len(episodes)) = episodes
  BY SubSeqFull
<1>1. ASSUME NEW w \in Workers, Start(w)
      PROVE  LocalIsPrefix'
  BY <1>1, <1>a DEF Start, LocalIsPrefix
<1>2. ASSUME NEW w \in Workers, Stop(w)
      PROVE  LocalIsPrefix'
  BY <1>2 DEF Stop, LocalIsPrefix
<1>3. ASSUME NEW w \in Workers, Hit(w)
      PROVE  LocalIsPrefix'
  BY <1>3 DEF Hit, LocalIsPrefix
<1>4. ASSUME NEW w \in Workers, HitUnreadable(w)
      PROVE  LocalIsPrefix'
  BY <1>4 DEF HitUnreadable, LocalIsPrefix
<1>5. ASSUME NEW w \in Workers, Miss(w)
      PROVE  LocalIsPrefix'
  BY <1>5 DEF Miss, LocalIsPrefix
<1>6. ASSUME NEW w \in Workers, NEW repairs \in 0 .. MaxRepairs, Answer(w, repairs)
      PROVE  LocalIsPrefix'
  BY <1>6 DEF Answer, LocalIsPrefix
<1>7. ASSUME NEW w \in Workers, NEW completions \in 0 .. MaxRepairs + 1, Fail(w, completions)
      PROVE  LocalIsPrefix'
  BY <1>7 DEF Fail, LocalIsPrefix
<1>8. ASSUME NEW w \in Workers, Record(w)
      PROVE  LocalIsPrefix'
  BY <1>8 DEF Record, LocalIsPrefix
<1>9. ASSUME NEW w \in Workers, Exhausted(w)
      PROVE  LocalIsPrefix'
  BY <1>9 DEF Exhausted, LocalIsPrefix
<1>10. ASSUME NEW w \in Workers, Propose(w)
      PROVE  LocalIsPrefix'
  BY <1>10 DEF Propose, LocalIsPrefix
<1>11. ASSUME NEW w \in Workers, Commit(w)
      PROVE  LocalIsPrefix'
  <2>. DEFINE e == EpisodeOf(w)
              n == Len(episodes)
  <2>1. /\ Len(local[w]) = n /\ e \in Episode /\ n \in Nat
        /\ episodes' = Append(episodes, e)
        /\ local' = [local EXCEPT ![w] = Append(local[w], e)]
    BY <1>11, StoredEpisode DEF Commit
  <2>. HIDE DEF e
  <2>2. local[w] = episodes
    BY <1>a, <2>1 DEF LocalIsPrefix
  <2>3. /\ Append(episodes, e) \in Seq(Episode)
        /\ SubSeq(Append(episodes, e), 1, n + 1) = Append(episodes, e)
        /\ Len(Append(episodes, e)) = n + 1
    BY <2>1, SubSeqFull, AppendProperties
  <2>4. ASSUME NEW u \in Workers
        PROVE  Len(local'[u]) <= Len(episodes') /\ local'[u] = SubSeq(episodes', 1, Len(local'[u]))
    <3>1. CASE u = w
      BY <2>1, <2>2, <2>3, <3>1
    <3>2. CASE u # w
      <4>1. local'[u] = local[u] /\ Len(local[u]) \in 0 .. n
        BY <2>1, <3>2 DEF LocalIsPrefix
      <4>2. SubSeq(Append(episodes, e), 1, Len(local[u])) = SubSeq(episodes, 1, Len(local[u]))
        BY <2>1, <4>1, FirstOfAppend
      <4>. QED  BY <2>1, <2>3, <4>1, <4>2 DEF LocalIsPrefix
    <3>. QED  BY <3>1, <3>2
  <2>. QED  BY <2>4 DEF LocalIsPrefix
<1>12. ASSUME NEW w \in Workers, Conflict(w)
      PROVE  LocalIsPrefix'
  BY <1>12 DEF Conflict, LocalIsPrefix
<1>13. ASSUME NEW w \in Workers, Crash(w)
      PROVE  LocalIsPrefix'
  <2>1. SubSeq(episodes, 1, 0) = <<>>
    BY <1>a, SubSeqEmpty
  <2>. QED  BY <1>13, <2>1 DEF Crash, LocalIsPrefix
<1>14. CASE UNCHANGED vars
  BY <1>14 DEF vars, LocalIsPrefix
<1>. QED
  BY <1>1, <1>2, <1>3, <1>4, <1>5, <1>6, <1>7, <1>8, <1>9, <1>10, <1>11, <1>12, <1>13, <1>14 DEF Next

-----------------------------------------------------------------------------
\* A step adds at most one answer to the question of the process that asked, and
\* stores at most one reply under the key of the process that records.
LEMMA AskedStep ==
  ASSUME Types, [Next]_vars
  PROVE  /\ \A k : Count(asked, k) \in Nat /\ Count(asked', k) \in Nat
                   /\ Count(asked, k) <= Count(asked', k)
         /\ DOMAIN llmCalls \subseteq DOMAIN llmCalls'
         /\ \A k \in DOMAIN llmCalls : llmCalls'[k] = llmCalls[k]
<1>. USE DEF Types
<1>a. \A k : Count(asked, k) \in Nat
  BY CountIsNat
<1>1. ASSUME NEW w \in Workers, NEW repairs \in 0 .. MaxRepairs, Answer(w, repairs)
      PROVE  /\ \A k : Count(asked, k) \in Nat /\ Count(asked', k) \in Nat
                  /\ Count(asked, k) <= Count(asked', k)
             /\ DOMAIN llmCalls \subseteq DOMAIN llmCalls'
             /\ \A k \in DOMAIN llmCalls : llmCalls'[k] = llmCalls[k]
  <2>1. asked' = Append(asked, Key(local[w])) /\ llmCalls' = llmCalls
    BY <1>1 DEF Answer
  <2>. QED  BY <1>a, <2>1, CountOfAppend
<1>2. ASSUME NEW w \in Workers, Record(w)
      PROVE  /\ \A k : Count(asked, k) \in Nat /\ Count(asked', k) \in Nat
                  /\ Count(asked, k) <= Count(asked', k)
             /\ DOMAIN llmCalls \subseteq DOMAIN llmCalls'
             /\ \A k \in DOMAIN llmCalls : llmCalls'[k] = llmCalls[k]
  BY <1>2, <1>a DEF Record
<1>3. CASE asked' = asked /\ llmCalls' = llmCalls
  BY <1>3, <1>a
<1>. QED
  BY <1>1, <1>2, <1>3
     DEF Next, vars, Start, Stop, Hit, HitUnreadable, Miss, Fail, Exhausted, Propose,
         Commit, Conflict, Crash

\* A set with at most one element more.
LEMMA OneMore ==
  ASSUME NEW S, IsFiniteSet(S), NEW x, NEW T, T \subseteq S \cup {x}
  PROVE  Cardinality(T) \in Nat /\ Cardinality(T) <= Cardinality(S) + 1
<1>1. Cardinality(S) \in Nat
  BY FS_CardinalityType
<1>2. IsFiniteSet(S \cup {x})
  BY FS_AddElement
<1>3. Cardinality(S \cup {x}) = IF x \in S THEN Cardinality(S) ELSE Cardinality(S) + 1
  BY FS_AddElement
<1>4. IsFiniteSet(T) /\ Cardinality(T) <= Cardinality(S \cup {x})
  BY <1>2, FS_Subset
<1>5. Cardinality(T) \in Nat
  BY <1>4, FS_CardinalityType
<1>. QED  BY <1>1, <1>3, <1>4, <1>5

LEMMA EveryAskWasStartedInit == Init => EveryAskWasStarted
<1>. SUFFICES ASSUME Init, NEW k PROVE Count(asked, k) + Cardinality(Askers(k)) <= starts
  BY DEF EveryAskWasStarted
<1>1. Askers(k) = {} /\ {i \in DOMAIN asked : asked[i] = k} = {}
  BY DEF Init, Askers
<1>2. Cardinality(Askers(k)) = 0 /\ Count(asked, k) = 0
  BY <1>1, FS_EmptySet DEF Count
<1>. QED  BY <1>2 DEF Init

\* Whoever may ask k after a step might have asked it before, or was just started;
\* whoever is answered may not ask the same again.
LEMMA EveryAskWasStartedStep ==
  ASSUME Types, Holding, EveryAskWasStarted, [Next]_vars
  PROVE  EveryAskWasStarted'
<1>. SUFFICES ASSUME NEW k PROVE Count(asked', k) + Cardinality(Askers(k)') <= starts'
  BY DEF EveryAskWasStarted
<1>. USE DEF Types, TypeOK, Goto, Set
<1>a. /\ Count(asked, k) + Cardinality(Askers(k)) <= starts
      /\ Count(asked, k) \in Nat /\ starts \in Nat
      /\ IsFiniteSet(Askers(k)) /\ Cardinality(Askers(k)) \in Nat
  BY AskersAreFew, CountIsNat DEF EveryAskWasStarted
<1>b. strategy' = strategy
  BY FixedStrategy
<1>c. ASSUME Askers(k)' \subseteq Askers(k), asked' = asked, starts' = starts
      PROVE  Count(asked', k) + Cardinality(Askers(k)') <= starts'
  <2>1. Cardinality(Askers(k)') \in Nat /\ Cardinality(Askers(k)') <= Cardinality(Askers(k))
    BY <1>a, <1>c, FS_Subset, FS_CardinalityType
  <2>. QED  BY <1>a, <1>c, <2>1
<1>1. ASSUME NEW w \in Workers, Start(w)
      PROVE  Count(asked', k) + Cardinality(Askers(k)') <= starts'
  <2>1. Askers(k)' \subseteq Askers(k) \cup {w}
    BY <1>1, <1>b DEF Start, Askers, MyKey
  <2>2. Cardinality(Askers(k)') \in Nat /\ Cardinality(Askers(k)') <= Cardinality(Askers(k)) + 1
    BY <1>a, <2>1, OneMore
  <2>4. asked' = asked /\ starts' = starts + 1
    BY <1>1 DEF Start
  <2>. QED  BY <1>a, <2>2, <2>4
<1>2. ASSUME NEW w \in Workers, Stop(w)
      PROVE  Count(asked', k) + Cardinality(Askers(k)') <= starts'
  <2>1. Askers(k)' \subseteq Askers(k)
    BY <1>2, <1>b DEF Stop, Askers, MyKey
  <2>. QED  BY <1>2, <1>c, <2>1 DEF Stop
<1>3. ASSUME NEW w \in Workers, Hit(w)
      PROVE  Count(asked', k) + Cardinality(Askers(k)') <= starts'
  <2>1. Askers(k)' \subseteq Askers(k)
    BY <1>3, <1>b DEF Hit, Askers, MyKey
  <2>. QED  BY <1>3, <1>c, <2>1 DEF Hit
<1>4. ASSUME NEW w \in Workers, HitUnreadable(w)
      PROVE  Count(asked', k) + Cardinality(Askers(k)') <= starts'
  <2>1. Askers(k)' \subseteq Askers(k)
    BY <1>4, <1>b DEF HitUnreadable, Askers, MyKey
  <2>. QED  BY <1>4, <1>c, <2>1 DEF HitUnreadable
<1>5. ASSUME NEW w \in Workers, Miss(w)
      PROVE  Count(asked', k) + Cardinality(Askers(k)') <= starts'
  <2>1. MyKey(w) \notin DOMAIN llmCalls
    BY <1>5, KeysAndPositions DEF Miss, MyKey
  <2>2. Askers(k)' \subseteq Askers(k)
    BY <1>5, <1>b, <2>1 DEF Miss, Askers, MyKey
  <2>. QED  BY <1>5, <1>c, <2>2 DEF Miss
<1>6. ASSUME NEW w \in Workers, NEW repairs \in 0 .. MaxRepairs, Answer(w, repairs)
      PROVE  Count(asked', k) + Cardinality(Askers(k)') <= starts'
  <2>1. asked' = Append(asked, MyKey(w)) /\ starts' = starts
    BY <1>6, KeysAndPositions DEF Answer, MyKey
  <2>2. CASE k # MyKey(w)
    <3>1. Askers(k)' \subseteq Askers(k)
      BY <1>6, <1>b, <2>2 DEF Answer, Askers, MyKey
    <3>2. Count(asked', k) = Count(asked, k)
      BY <2>1, <2>2, CountOfAppend
    <3>3. Cardinality(Askers(k)') \in Nat /\ Cardinality(Askers(k)') <= Cardinality(Askers(k))
      BY <1>a, <3>1, FS_Subset, FS_CardinalityType
    <3>. QED  BY <1>a, <2>1, <3>2, <3>3
  <2>3. CASE k = MyKey(w)
    <3>1. Askers(k)' \subseteq Askers(k) \ {w} /\ w \in Askers(k)
      BY <1>6, <1>b, <2>3 DEF Answer, Askers, MyKey
    <3>2. Count(asked', k) = Count(asked, k) + 1
      BY <2>1, <2>3, CountOfAppend
    <3>3. /\ IsFiniteSet(Askers(k) \ {w})
          /\ Cardinality(Askers(k) \ {w}) = Cardinality(Askers(k)) - 1
      BY <1>a, <3>1, FS_RemoveElement
    <3>4. /\ Cardinality(Askers(k)') \in Nat
          /\ Cardinality(Askers(k)') <= Cardinality(Askers(k) \ {w})
      BY <3>1, <3>3, FS_Subset, FS_CardinalityType
    <3>. QED  BY <1>a, <2>1, <3>2, <3>3, <3>4
  <2>. QED  BY <2>2, <2>3
<1>7. ASSUME NEW w \in Workers, NEW completions \in 0 .. MaxRepairs + 1, Fail(w, completions)
      PROVE  Count(asked', k) + Cardinality(Askers(k)') <= starts'
  <2>1. Askers(k)' \subseteq Askers(k)
    BY <1>7, <1>b DEF Fail, Askers, MyKey
  <2>. QED  BY <1>7, <1>c, <2>1 DEF Fail
<1>8. ASSUME NEW w \in Workers, Record(w)
      PROVE  Count(asked', k) + Cardinality(Askers(k)') <= starts'
  <2>1. DOMAIN llmCalls' = DOMAIN llmCalls \cup {MyKey(w)}
    BY <1>8, KeysAndPositions DEF Record, MyKey
  <2>2. Askers(k)' \subseteq Askers(k)
    BY <1>8, <1>b, <2>1 DEF Record, Askers, MyKey
  <2>. QED  BY <1>8, <1>c, <2>2 DEF Record
<1>9. ASSUME NEW w \in Workers, Exhausted(w)
      PROVE  Count(asked', k) + Cardinality(Askers(k)') <= starts'
  <2>1. Askers(k)' \subseteq Askers(k)
    BY <1>9, <1>b DEF Exhausted, Askers, MyKey
  <2>. QED  BY <1>9, <1>c, <2>1 DEF Exhausted
<1>10. ASSUME NEW w \in Workers, Propose(w)
      PROVE  Count(asked', k) + Cardinality(Askers(k)') <= starts'
  <2>1. Askers(k)' \subseteq Askers(k)
    BY <1>10, <1>b DEF Propose, Askers, MyKey
  <2>. QED  BY <1>10, <1>c, <2>1 DEF Propose
<1>11. ASSUME NEW w \in Workers, Commit(w)
      PROVE  Count(asked', k) + Cardinality(Askers(k)') <= starts'
  <2>1. Askers(k)' \subseteq Askers(k)
    BY <1>11, <1>b DEF Commit, Askers, MyKey
  <2>. QED  BY <1>11, <1>c, <2>1 DEF Commit
<1>12. ASSUME NEW w \in Workers, Conflict(w)
      PROVE  Count(asked', k) + Cardinality(Askers(k)') <= starts'
  <2>1. Askers(k)' \subseteq Askers(k)
    BY <1>12, <1>b DEF Conflict, Askers, MyKey
  <2>. QED  BY <1>12, <1>c, <2>1 DEF Conflict
<1>13. ASSUME NEW w \in Workers, Crash(w)
      PROVE  Count(asked', k) + Cardinality(Askers(k)') <= starts'
  <2>1. Askers(k)' \subseteq Askers(k)
    BY <1>13, <1>b DEF Crash, Askers, MyKey
  <2>. QED  BY <1>13, <1>c, <2>1 DEF Crash
<1>14. CASE UNCHANGED vars
  <2>1. Askers(k)' = Askers(k)
    BY <1>14 DEF vars, Askers, MyKey
  <2>. QED  BY <1>14, <1>c, <2>1 DEF vars
<1>. QED
  BY <1>1, <1>2, <1>3, <1>4, <1>5, <1>6, <1>7, <1>8, <1>9, <1>10, <1>11, <1>12, <1>13, <1>14 DEF Next

-----------------------------------------------------------------------------
\* A stored reply stays, and if it is the only one after a step it was before.
LEMMA ReplyStays ==
  ASSUME Types, AnswersAddUp, [Next]_vars, NEW k \in DOMAIN llmCalls
  PROVE  /\ k \in DOMAIN llmCalls' /\ llmCalls'[k] = llmCalls[k]
         /\ IsTheReply(k)' => IsTheReply(k)
<1>1. Count(asked, k) \in Nat /\ Count(asked', k) \in Nat /\ Count(asked, k) <= Count(asked', k)
  BY AskedStep
<1>2. Count(asked, k) >= 1
  BY DEF AnswersAddUp
<1>. QED  BY <1>1, <1>2, AskedStep DEF IsTheReply, OnlyReply

LEMMA AnswersAddUpStep ==
  ASSUME Types, Holding, AnswersAddUp, [Next]_vars
  PROVE  AnswersAddUp'
<1>. USE DEF Types, TypeOK, Goto, Set
<1>a. /\ strategy' = strategy
      /\ \A k : Count(asked, k) \in Nat /\ Count(asked', k) \in Nat
                /\ Count(asked, k) <= Count(asked', k)
  BY FixedStrategy, AskedStep
<1>b. ASSUME UNCHANGED <<asked, llmCalls>>,
             \A u \in Workers : pc'[u] = "record" => pc[u] = "record" /\ local'[u] = local[u]
      PROVE  AnswersAddUp'
  BY <1>a, <1>b DEF AnswersAddUp, MyKey
<1>1. ASSUME NEW w \in Workers, Start(w)
      PROVE  AnswersAddUp'
  BY <1>1, <1>b DEF Start
<1>2. ASSUME NEW w \in Workers, Stop(w)
      PROVE  AnswersAddUp'
  BY <1>2, <1>b DEF Stop
<1>3. ASSUME NEW w \in Workers, Hit(w)
      PROVE  AnswersAddUp'
  BY <1>3, <1>b DEF Hit
<1>4. ASSUME NEW w \in Workers, HitUnreadable(w)
      PROVE  AnswersAddUp'
  BY <1>4, <1>b DEF HitUnreadable
<1>5. ASSUME NEW w \in Workers, Miss(w)
      PROVE  AnswersAddUp'
  BY <1>5, <1>b DEF Miss
<1>6. ASSUME NEW w \in Workers, NEW repairs \in 0 .. MaxRepairs, Answer(w, repairs)
      PROVE  AnswersAddUp'
  <2>1. /\ pc[w] = "asking" /\ pc' = [pc EXCEPT ![w] = "record"]
        /\ local' = local /\ llmCalls' = llmCalls
        /\ asked' = Append(asked, MyKey(w))
    BY <1>6, KeysAndPositions DEF Answer, MyKey
  <2>2. Count(asked', MyKey(w)) = Count(asked, MyKey(w)) + 1
    BY <2>1, CountOfAppend
  <2>3. \A u \in Workers : MyKey(u)' = MyKey(u)
    BY <1>a, <2>1 DEF MyKey
  <2>4. ASSUME NEW u \in Workers, pc'[u] = "record"
        PROVE  /\ Count(asked', MyKey(u)) >= 1
               /\ MyKey(u) \in DOMAIN llmCalls => Count(asked', MyKey(u)) >= 2
    <3>1. CASE u = w
      BY <1>a, <2>2, <3>1 DEF AnswersAddUp
    <3>2. CASE u # w
      BY <1>a, <2>1, <2>4, <3>2 DEF AnswersAddUp
    <3>. QED  BY <3>1, <3>2
  <2>5. ASSUME NEW u \in Workers, NEW v \in Workers, u # v, pc'[u] = "record", pc'[v] = "record",
               MyKey(u) = MyKey(v)
        PROVE  Count(asked', MyKey(v)) >= 2
    <3>1. CASE u = w
      BY <1>a, <2>1, <2>2, <2>5, <3>1 DEF AnswersAddUp
    <3>2. CASE v = w
      BY <1>a, <2>1, <2>2, <2>5, <3>2 DEF AnswersAddUp
    <3>3. CASE u # w /\ v # w
      BY <1>a, <2>1, <2>5, <3>3 DEF AnswersAddUp
    <3>. QED  BY <3>1, <3>2, <3>3
  <2>6. \A k \in DOMAIN llmCalls : Count(asked', k) >= 1
    BY <1>a DEF AnswersAddUp
  <2>. QED  BY <2>1, <2>3, <2>4, <2>5, <2>6 DEF AnswersAddUp
<1>7. ASSUME NEW w \in Workers, NEW completions \in 0 .. MaxRepairs + 1, Fail(w, completions)
      PROVE  AnswersAddUp'
  BY <1>7, <1>b DEF Fail
<1>8. ASSUME NEW w \in Workers, Record(w)
      PROVE  AnswersAddUp'
  <2>1. /\ pc[w] = "record" /\ pc' = [pc EXCEPT ![w] = "replied"]
        /\ UNCHANGED <<local, asked>>
        /\ DOMAIN llmCalls' = DOMAIN llmCalls \cup {MyKey(w)}
    BY <1>8, KeysAndPositions DEF Record, MyKey
  <2>2. \A u \in Workers : MyKey(u)' = MyKey(u)
    BY <1>a, <2>1 DEF MyKey
  <2>2a. \A u \in Workers : pc'[u] = "record" => u # w /\ pc[u] = "record"
    BY <2>1
  <2>3. ASSUME NEW u \in Workers, pc'[u] = "record"
        PROVE  /\ Count(asked', MyKey(u)) >= 1
               /\ MyKey(u) \in DOMAIN llmCalls' => Count(asked', MyKey(u)) >= 2
    <3>1. Count(asked, MyKey(u)) >= 1 /\ (MyKey(u) \in DOMAIN llmCalls => Count(asked, MyKey(u)) >= 2)
      BY <2>2a, <2>3 DEF AnswersAddUp
    <3>2. MyKey(u) = MyKey(w) => Count(asked, MyKey(u)) >= 2
      BY <2>1, <2>2a, <2>3 DEF AnswersAddUp
    <3>. QED  BY <2>1, <3>1, <3>2
  <2>4. \A u, v \in Workers :
          (u # v /\ pc'[u] = "record" /\ pc'[v] = "record" /\ MyKey(u) = MyKey(v)) =>
            Count(asked', MyKey(v)) >= 2
    BY <2>1, <2>2a DEF AnswersAddUp
  <2>5. \A k \in DOMAIN llmCalls' : Count(asked', k) >= 1
    BY <2>1 DEF AnswersAddUp
  <2>. QED  BY <2>2, <2>3, <2>4, <2>5 DEF AnswersAddUp
<1>9. ASSUME NEW w \in Workers, Exhausted(w)
      PROVE  AnswersAddUp'
  BY <1>9, <1>b DEF Exhausted
<1>10. ASSUME NEW w \in Workers, Propose(w)
      PROVE  AnswersAddUp'
  BY <1>10, <1>b DEF Propose
<1>11. ASSUME NEW w \in Workers, Commit(w)
      PROVE  AnswersAddUp'
  BY <1>11, <1>b DEF Commit
<1>12. ASSUME NEW w \in Workers, Conflict(w)
      PROVE  AnswersAddUp'
  BY <1>12, <1>b DEF Conflict
<1>13. ASSUME NEW w \in Workers, Crash(w)
      PROVE  AnswersAddUp'
  BY <1>13, <1>b DEF Crash
<1>14. CASE UNCHANGED vars
  BY <1>14, <1>b DEF vars
<1>. QED
  BY <1>1, <1>2, <1>3, <1>4, <1>5, <1>6, <1>7, <1>8, <1>9, <1>10, <1>11, <1>12, <1>13, <1>14 DEF Next

LEMMA AskersMissedStep ==
  ASSUME Types, AskersMissed, [Next]_vars
  PROVE  AskersMissed'
<1>. USE DEF AskersMissed, Types, TypeOK, Goto, Set
<1>1. ASSUME NEW w \in Workers, Start(w)
      PROVE  AskersMissed'
  BY <1>1 DEF Start
<1>2. ASSUME NEW w \in Workers, Stop(w)
      PROVE  AskersMissed'
  BY <1>2 DEF Stop
<1>3. ASSUME NEW w \in Workers, Hit(w)
      PROVE  AskersMissed'
  BY <1>3 DEF Hit
<1>4. ASSUME NEW w \in Workers, HitUnreadable(w)
      PROVE  AskersMissed'
  BY <1>4 DEF HitUnreadable
<1>5. ASSUME NEW w \in Workers, Miss(w)
      PROVE  AskersMissed'
  BY <1>5 DEF Miss
<1>6. ASSUME NEW w \in Workers, NEW repairs \in 0 .. MaxRepairs, Answer(w, repairs)
      PROVE  AskersMissed'
  BY <1>6 DEF Answer
<1>7. ASSUME NEW w \in Workers, NEW completions \in 0 .. MaxRepairs + 1, Fail(w, completions)
      PROVE  AskersMissed'
  BY <1>7 DEF Fail
<1>8. ASSUME NEW w \in Workers, Record(w)
      PROVE  AskersMissed'
  BY <1>8 DEF Record
<1>9. ASSUME NEW w \in Workers, Exhausted(w)
      PROVE  AskersMissed'
  BY <1>9 DEF Exhausted
<1>10. ASSUME NEW w \in Workers, Propose(w)
      PROVE  AskersMissed'
  BY <1>10 DEF Propose
<1>11. ASSUME NEW w \in Workers, Commit(w)
      PROVE  AskersMissed'
  BY <1>11 DEF Commit
<1>12. ASSUME NEW w \in Workers, Conflict(w)
      PROVE  AskersMissed'
  BY <1>12 DEF Conflict
<1>13. ASSUME NEW w \in Workers, Crash(w)
      PROVE  AskersMissed'
  BY <1>13 DEF Crash
<1>14. CASE UNCHANGED vars
  BY <1>14 DEF vars
<1>. QED
  BY <1>1, <1>2, <1>3, <1>4, <1>5, <1>6, <1>7, <1>8, <1>9, <1>10, <1>11, <1>12, <1>13, <1>14 DEF Next

LEMMA HeldIsStoredStep ==
  ASSUME Types, Holding, AnswersAddUp, AskersMissed, HeldIsStored, [Next]_vars
  PROVE  HeldIsStored'
<1>. USE DEF Types, TypeOK, Goto, Set
<1>. DEFINE Held(u) == pc[u] = "replied" \/ (pc[u] = "commit" /\ reply[u] # NoReply)
<1>a. strategy' = strategy
  BY FixedStrategy
<1>b. ASSUME NEW u \in Workers, Held(u), local'[u] = local[u], reply'[u] = reply[u],
             hit'[u] = hit[u]
      PROVE  /\ MyKey(u)' \in DOMAIN llmCalls'
             /\ IsTheReply(MyKey(u))' => llmCalls'[MyKey(u)'] = reply'[u]
             /\ hit'[u] => llmCalls'[MyKey(u)'] # Unreadable /\ llmCalls'[MyKey(u)'] = reply'[u]
  <2>1. MyKey(u)' = MyKey(u) /\ MyKey(u) \in DOMAIN llmCalls
    BY <1>a, <1>b DEF MyKey, HeldIsStored
  <2>2. IsTheReply(MyKey(u))' => IsTheReply(MyKey(u))
    <3>. DEFINE k == MyKey(u)
    <3>1. k \in DOMAIN llmCalls /\ k' = k
      BY <2>1
    <3>2. llmCalls'[k] = llmCalls[k] /\ Count(asked, k) \in Nat /\ Count(asked', k) \in Nat
          /\ Count(asked, k) <= Count(asked', k) /\ Count(asked, k) >= 1
      BY <3>1, AskedStep DEF AnswersAddUp
    <3>. HIDE DEF k
    <3>3. IsTheReply(k)' => IsTheReply(k)
      BY <3>1, <3>2 DEF IsTheReply, OnlyReply
    <3>. QED  BY <3>3 DEF k
  <2>3. llmCalls'[MyKey(u)] = llmCalls[MyKey(u)] /\ MyKey(u) \in DOMAIN llmCalls'
    BY <2>1, ReplyStays
  <2>. QED  BY <1>b, <2>1, <2>2, <2>3 DEF HeldIsStored
<1>c. ASSUME \A u \in Workers : Held(u)' => Held(u) /\ local'[u] = local[u] /\ reply'[u] = reply[u]
                              /\ hit'[u] = hit[u]
      PROVE  HeldIsStored'
  BY <1>b, <1>c DEF HeldIsStored
<1>1. ASSUME NEW w \in Workers, Start(w)
      PROVE  HeldIsStored'
  BY <1>1, <1>c DEF Start
<1>2. ASSUME NEW w \in Workers, Stop(w)
      PROVE  HeldIsStored'
  BY <1>2, <1>c DEF Stop
<1>3. ASSUME NEW w \in Workers, Hit(w)
      PROVE  HeldIsStored'
  <2>1. /\ MyKey(w)' = MyKey(w) /\ MyKey(w) \in DOMAIN llmCalls
        /\ llmCalls[MyKey(w)] # Unreadable /\ hit' = [hit EXCEPT ![w] = TRUE]
        /\ llmCalls' = llmCalls /\ reply' = [reply EXCEPT ![w] = llmCalls[MyKey(w)]]
        /\ local' = local /\ pc' = [pc EXCEPT ![w] = "replied"]
    BY <1>3, <1>a, KeysAndPositions DEF Hit, MyKey
  <2>2. \A u \in Workers \ {w} : Held(u)' => Held(u) /\ local'[u] = local[u] /\ reply'[u] = reply[u]
                              /\ hit'[u] = hit[u]
    BY <2>1
  <2>3. /\ MyKey(w)' \in DOMAIN llmCalls' /\ llmCalls'[MyKey(w)'] = reply'[w]
        /\ llmCalls'[MyKey(w)'] # Unreadable
    BY <2>1
  <2>. QED  BY <1>b, <2>2, <2>3 DEF HeldIsStored
<1>4. ASSUME NEW w \in Workers, HitUnreadable(w)
      PROVE  HeldIsStored'
  BY <1>4, <1>c DEF HitUnreadable
<1>5. ASSUME NEW w \in Workers, Miss(w)
      PROVE  HeldIsStored'
  BY <1>5, <1>c DEF Miss
<1>6. ASSUME NEW w \in Workers, NEW repairs \in 0 .. MaxRepairs, Answer(w, repairs)
      PROVE  HeldIsStored'
  BY <1>6, <1>c DEF Answer
<1>7. ASSUME NEW w \in Workers, NEW completions \in 0 .. MaxRepairs + 1, Fail(w, completions)
      PROVE  HeldIsStored'
  BY <1>7, <1>c DEF Fail
<1>8. ASSUME NEW w \in Workers, Record(w)
      PROVE  HeldIsStored'
  <2>. DEFINE k == MyKey(w)
  <2>1. /\ pc[w] = "record" /\ pc' = [pc EXCEPT ![w] = "replied"]
        /\ UNCHANGED <<local, asked, reply, hit>> /\ MyKey(w)' = k
        /\ llmCalls' = IF k \in DOMAIN llmCalls THEN llmCalls
                       ELSE [j \in DOMAIN llmCalls \cup {k} |->
                               IF j \in DOMAIN llmCalls THEN llmCalls[j] ELSE Stored(reply[w])]
    BY <1>8, <1>a, KeysAndPositions DEF Record, MyKey
  <2>2. \A u \in Workers \ {w} : Held(u)' => Held(u) /\ local'[u] = local[u] /\ reply'[u] = reply[u]
                              /\ hit'[u] = hit[u]
    BY <2>1
  <2>3. k \in DOMAIN llmCalls' /\ (k \notin DOMAIN llmCalls => llmCalls'[k] = Stored(reply[w]))
    BY <2>1
  <2>4. IsTheReply(MyKey(w))' => k \notin DOMAIN llmCalls /\ llmCalls'[k] # Unreadable
    BY <2>1 DEF IsTheReply, OnlyReply, AnswersAddUp
  <2>5. IsTheReply(MyKey(w))' => llmCalls'[MyKey(w)'] = reply'[w]
    BY <2>1, <2>3, <2>4 DEF Stored
  <2>6. ~ hit'[w]
    BY <2>1 DEF AskersMissed
  <2>. QED  BY <1>b, <2>1, <2>2, <2>3, <2>5, <2>6 DEF HeldIsStored
<1>9. ASSUME NEW w \in Workers, Exhausted(w)
      PROVE  HeldIsStored'
  BY <1>9, <1>c DEF Exhausted
<1>10. ASSUME NEW w \in Workers, Propose(w)
      PROVE  HeldIsStored'
  BY <1>10, <1>c DEF Propose
<1>11. ASSUME NEW w \in Workers, Commit(w)
      PROVE  HeldIsStored'
  BY <1>11, <1>c DEF Commit
<1>12. ASSUME NEW w \in Workers, Conflict(w)
      PROVE  HeldIsStored'
  BY <1>12, <1>c DEF Conflict
<1>13. ASSUME NEW w \in Workers, Crash(w)
      PROVE  HeldIsStored'
  BY <1>13, <1>c DEF Crash
<1>14. CASE UNCHANGED vars
  BY <1>14, <1>c DEF vars
<1>. QED
  BY <1>1, <1>2, <1>3, <1>4, <1>5, <1>6, <1>7, <1>8, <1>9, <1>10, <1>11, <1>12, <1>13, <1>14 DEF Next

-----------------------------------------------------------------------------
\* What was vouched for stays so.
LEMMA VouchedStays ==
  ASSUME Types, AnswersAddUp, [Next]_vars, NEW h, NEW e,
         Vouched(strategy, llmCalls, asked, h, e)
  PROVE  Vouched(strategy', llmCalls', asked', h, e)
<1>. DEFINE k == KeyOf(strategy, h)
<1>1. strategy' = strategy
  BY FixedStrategy
<1>2. CASE k \in DOMAIN llmCalls
  <2>1. k \in DOMAIN llmCalls' /\ llmCalls'[k] = llmCalls[k]
    BY <1>2, AskedStep
  <2>2. Count(asked', k) = 1 => Count(asked, k) = 1
    <3>1. /\ Count(asked, k) \in Nat /\ Count(asked', k) \in Nat
          /\ Count(asked, k) <= Count(asked', k)
      BY AskedStep
    <3>2. Count(asked, k) >= 1
      BY <1>2 DEF AnswersAddUp
    <3>. QED  BY <3>1, <3>2
  <2>. QED  BY <1>1, <1>2, <2>1, <2>2 DEF Vouched, OnlyReply
<1>3. CASE k \notin DOMAIN llmCalls
  BY <1>3 DEF Vouched
<1>. QED  BY <1>2, <1>3

\* Only Commit adds a proposal, and it is one of the stored reply.
LEMMA EvidenceStep ==
  ASSUME Types, Holding, LocalIsPrefix, AnswersAddUp, HeldIsStored, Evidence, [Next]_vars
  PROVE  Evidence'
<1>1. \A i \in DOMAIN episodes : Vouched(strategy', llmCalls', asked', Before(i), episodes[i])
  BY VouchedStays DEF Evidence
<1>2. CASE episodes' = episodes
  <2>1. \A i \in DOMAIN episodes : Before(i)' = Before(i)
    BY <1>2 DEF Before
  <2>. QED  BY <1>1, <1>2, <2>1 DEF Evidence
<1>3. ASSUME NEW w \in Workers, Commit(w)
      PROVE  Evidence'
  <2>. DEFINE e == EpisodeOf(w)
              n == Len(episodes)
  <2>1. /\ pc[w] = "commit" /\ Len(local[w]) = n /\ n \in Nat /\ episodes \in Seq(Episode)
        /\ episodes' = Append(episodes, e)
    BY <1>3 DEF Commit, Goto, Types, TypeOK
  <2>2. /\ e \in Episode /\ e.hit = hit[w]
        /\ e.proposal # Failed => reply[w] # NoReply /\ e.proposal = reply[w][MyPosition(w)]
    BY <2>1, StoredEpisode
  <2>3. local[w] = episodes /\ SubSeq(episodes, 1, n) = episodes
    BY <2>1, SubSeqFull DEF LocalIsPrefix
  <2>4. Vouched(strategy, llmCalls, asked, episodes, e)
    <3>1. MyKey(w) = KeyOf(strategy, episodes) /\ MyPosition(w) = PositionOf(strategy, episodes)
      BY <2>3 DEF MyKey, MyPosition
    <3>2. e.proposal # Failed =>
            /\ MyKey(w) \in DOMAIN llmCalls
            /\ OnlyReply(llmCalls, asked, MyKey(w)) => llmCalls[MyKey(w)] = reply[w]
            /\ e.hit => llmCalls[MyKey(w)] # Unreadable /\ llmCalls[MyKey(w)] = reply[w]
            /\ MyPosition(w) <= Len(reply[w])
            /\ e.proposal = reply[w][MyPosition(w)]
      BY <2>1, <2>2 DEF HeldIsStored, Holding, IsTheReply
    <3>. HIDE DEF e
    <3>. QED  BY <3>1, <3>2 DEF Vouched
  <2>5. Vouched(strategy', llmCalls', asked', episodes, e)
    BY <2>4, VouchedStays
  <2>. HIDE DEF e
  <2>6. /\ DOMAIN episodes = 1 .. n /\ DOMAIN episodes' = 1 .. n + 1
        /\ episodes'[n + 1] = e /\ \A i \in 1 .. n : episodes'[i] = episodes[i]
    BY <2>1, <2>2
  <2>7. \A i \in 1 .. n + 1 : Before(i)' = SubSeq(episodes, 1, i - 1)
    <3>1. \A m \in 0 .. n : SubSeq(Append(episodes, e), 1, m) = SubSeq(episodes, 1, m)
      BY <2>1, <2>2, FirstOfAppend
    <3>. QED  BY <2>1, <3>1 DEF Before
  <2>8. ASSUME NEW i \in 1 .. n + 1
        PROVE  Vouched(strategy', llmCalls', asked', Before(i)', episodes'[i])
    <3>1. CASE i = n + 1
      BY <2>1, <2>3, <2>5, <2>6, <2>7, <3>1
    <3>2. CASE i \in 1 .. n
      BY <1>1, <2>6, <2>7, <3>2 DEF Before
    <3>. QED  BY <2>1, <3>1, <3>2
  <2>. QED  BY <2>6, <2>8 DEF Evidence
<1>. QED
  BY <1>2, <1>3
     DEF Next, vars, Start, Stop, Hit, HitUnreadable, Miss, Answer, Fail, Record, Exhausted,
         Propose, Conflict, Crash

LEMMA RunsOutAtTheEndStep ==
  ASSUME Types, Holding, LocalIsPrefix, AnswersAddUp, HeldIsStored, RunsOutAtTheEnd, [Next]_vars
  PROVE  RunsOutAtTheEnd'
<1>. USE DEF Types, TypeOK, Goto, Set
<1>a. strategy' = strategy
  BY FixedStrategy
<1>b. Len(episodes) \in Nat /\ Len(episodes') \in Nat /\ Len(episodes) <= Len(episodes')
  <2>1. episodes' = episodes \/ \E w \in Workers : Commit(w)
    BY DEF Next, vars, Start, Stop, Hit, HitUnreadable, Miss, Answer, Fail, Record, Exhausted,
           Propose, Conflict, Crash
  <2>2. ASSUME NEW w \in Workers, Commit(w)
        PROVE  Len(episodes') = Len(episodes) + 1
    <3>1. EpisodeOf(w) \in Episode /\ episodes' = Append(episodes, EpisodeOf(w))
      BY <2>2, StoredEpisode DEF Commit
    <3>. QED  BY <3>1, AppendProperties
  <2>. QED  BY <2>1, <2>2
<1>c. Plan \in DOMAIN llmCalls =>
        /\ Plan \in DOMAIN llmCalls' /\ llmCalls'[Plan] = llmCalls[Plan]
        /\ IsTheReply(Plan)' => IsTheReply(Plan)
  BY ReplyStays DEF Plan
<1>d. strategy # "single_shot" => Plan \notin DOMAIN llmCalls'
  <2>1. DOMAIN llmCalls' = DOMAIN llmCalls \/ \E w \in Workers : Record(w)
    BY DEF Next, vars, Start, Stop, Hit, HitUnreadable, Miss, Answer, Fail, Exhausted,
           Propose, Commit, Conflict, Crash
  <2>2. ASSUME NEW w \in Workers, Record(w)
        PROVE  DOMAIN llmCalls' \subseteq DOMAIN llmCalls \cup {MyKey(w)}
    BY <2>2, KeysAndPositions DEF Record, MyKey
  <2>3. \A w \in Workers : MyKey(w) = Plan <=> strategy = "single_shot"
    BY PlanKey DEF MyKey
  <2>. QED  BY <2>1, <2>2, <2>3 DEF RunsOutAtTheEnd
<1>1. CASE ended' = ended \/ ended' # "EXHAUSTED"
  BY <1>1, <1>a, <1>b, <1>c, <1>d DEF RunsOutAtTheEnd, IsTheReply, Plan
<1>2. ASSUME NEW w \in Workers, Exhausted(w)
      PROVE  RunsOutAtTheEnd'
  <2>1. /\ pc[w] = "replied" /\ UNCHANGED <<llmCalls, asked, episodes>>
        /\ MyPosition(w) > Len(reply[w])
    BY <1>2, KeysAndPositions DEF Exhausted, MyPosition
  <2>2. reply[w] \in Replies /\ Len(local[w]) \in Nat
    BY <2>1 DEF Holding
  <2>3. Len(reply[w]) \in Nat \ {0}
    BY <2>2, RepliesAreSequences
  <2>4. strategy = "single_shot" /\ Len(local[w]) >= Len(reply[w])
    BY <2>1, <2>2, <2>3 DEF MyPosition, PositionOf
  <2>5. Plan \in DOMAIN llmCalls /\ (IsTheReply(Plan) => llmCalls[Plan] = reply[w])
    <3>1. MyKey(w) = Plan
      BY <2>4, PlanKey DEF MyKey
    <3>. QED  BY <2>1, <3>1 DEF HeldIsStored
  <2>6. Len(episodes) >= Len(reply[w])
    BY <1>b, <2>2, <2>3, <2>4 DEF LocalIsPrefix
  <2>. QED  BY <1>a, <2>1, <2>4, <2>5, <2>6 DEF RunsOutAtTheEnd, IsTheReply
<1>. QED
  BY <1>1, <1>2
     DEF Next, vars, Start, Stop, Hit, HitUnreadable, Miss, Answer, Fail, Record, Propose,
         Commit, Conflict, Crash

-----------------------------------------------------------------------------
IInv ==
  /\ Types /\ Holding /\ LocalIsPrefix /\ EveryAskWasStarted
  /\ AnswersAddUp /\ AskersMissed /\ HeldIsStored /\ Evidence /\ RunsOutAtTheEnd

LEMMA IInvInit == Init => IInv
<1>. SUFFICES ASSUME Init PROVE IInv
  OBVIOUS
<1>1. AnswersAddUp /\ AskersMissed /\ HeldIsStored /\ Evidence /\ RunsOutAtTheEnd
  BY DEF Init, NoCalls, AnswersAddUp, AskersMissed, HeldIsStored, Evidence, RunsOutAtTheEnd
<1>. QED  BY <1>1, TypesInit, EveryAskWasStartedInit DEF IInv

LEMMA IInvStep == IInv /\ [Next]_vars => IInv'
<1>. SUFFICES ASSUME IInv, [Next]_vars PROVE IInv'
  OBVIOUS
<1>1. Types' /\ Holding'
  BY TypesStep DEF IInv
<1>. QED
  BY <1>1, LocalIsPrefixStep, EveryAskWasStartedStep, AnswersAddUpStep, AskersMissedStep,
     HeldIsStoredStep, EvidenceStep, RunsOutAtTheEndStep
     DEF IInv

LEMMA Invariance == Spec => []IInv
BY IInvInit, IInvStep, PTL DEF Spec

-----------------------------------------------------------------------------
\* TypeOK, for every value of the constants.
THEOREM TypeCorrect == Spec => []TypeOK
<1>1. IInv => TypeOK
  BY DEF IInv, Types
<1>. QED  BY <1>1, Invariance, PTL

\* EvidenceSurvives: whatever the crashes and however many processes, the reply
\* a replayed proposal came from is still in llm_calls, and readable, and so is
\* the reply any other proposal came from where it was the only one.
THEOREM EvidenceIsKept == Spec => []EvidenceSurvives
<1>1. ASSUME IInv PROVE EvidenceSurvives
  <2>. SUFFICES ASSUME NEW i \in DOMAIN episodes, episodes[i].proposal # Failed
                PROVE  /\ Key(Before(i)) \in DOMAIN llmCalls
                       /\ episodes[i].hit => llmCalls[Key(Before(i))] # Unreadable
                       /\ (\/ episodes[i].hit
                           \/ llmCalls[Key(Before(i))] # Unreadable /\ Times(Key(Before(i))) = 1) =>
                            llmCalls[Key(Before(i))][Position(Before(i))] = episodes[i].proposal
    BY DEF EvidenceSurvives
  <2>1. /\ Key(Before(i)) = KeyOf(strategy, Before(i))
        /\ Position(Before(i)) = PositionOf(strategy, Before(i))
    BY KeysAndPositions
  <2>2. Vouched(strategy, llmCalls, asked, Before(i), episodes[i])
    BY <1>1 DEF IInv, Evidence
  <2>3. \A k : Times(k) = Count(asked, k)
    BY DEF Times, Count
  <2>. QED  BY <2>1, <2>2, <2>3 DEF Vouched, OnlyReply
<1>. QED  BY <1>1, Invariance, PTL

\* AskedOnce: no question is answered with a validated reply by a provider more
\* often than processes were started.
THEOREM OneAnswerPerStart == Spec => []AskedOnce
<1>1. ASSUME IInv PROVE AskedOnce
  <2>. SUFFICES ASSUME NEW i \in DOMAIN asked PROVE Times(asked[i]) <= starts
    BY DEF AskedOnce
  <2>. DEFINE k == asked[i]
  <2>1. Times(k) = Count(asked, k) /\ Count(asked, k) \in Nat /\ starts \in Nat
    <3>1. Times(k) = Count(asked, k)
      BY DEF Times, Count
    <3>2. IsSequence(asked) /\ starts \in Nat
      BY <1>1 DEF IInv, Types, TypeOK
    <3>. QED  BY <3>1, <3>2, CountIsNat
  <2>2. Count(asked, k) + Cardinality(Askers(k)) <= starts /\ Cardinality(Askers(k)) \in Nat
    BY <1>1, AskersAreFew DEF IInv, EveryAskWasStarted
  <2>. QED  BY <2>1, <2>2
<1>. QED  BY <1>1, Invariance, PTL

\* PlanServedInOrder: a recorded plan is served from its first proposal on, each
\* once, and run to its end before EXHAUSTED.
THEOREM PlansAreServed == Spec => []PlanServedInOrder
<1>1. ASSUME IInv PROVE PlanServedInOrder
  <2>. DEFINE served == Proposals(episodes)
              plan == llmCalls[Plan]
  <2>. SUFFICES ASSUME Plan \in DOMAIN llmCalls, plan # Unreadable, Times(Plan) = 1,
                       \A i \in DOMAIN episodes : episodes[i].proposal # Failed
                PROVE  /\ IsPrefix(served, plan)
                       /\ ended = "EXHAUSTED" => served = plan
    BY DEF PlanServedInOrder, Plan
  <2>1. strategy = "single_shot" /\ OnlyReply(llmCalls, asked, Plan)
    <3>1. Times(Plan) = Count(asked, Plan)
      BY DEF Times, Count
    <3>2. strategy # "single_shot" => Plan \notin DOMAIN llmCalls
      BY <1>1 DEF IInv, RunsOutAtTheEnd
    <3>. QED  BY <3>1, <3>2 DEF OnlyReply
  <2>2. /\ plan \in Replies /\ episodes \in Seq(Episode)
    BY <1>1 DEF IInv, Types, TypeOK
  <2>3. plan \in Seq(Good \cup Bad) /\ Len(plan) \in Nat
    BY <2>2, RepliesAreSequences
  <2>4. /\ DOMAIN episodes = 1 .. Len(episodes) /\ Len(episodes) \in Nat
        /\ served \in Seq(Proposal) /\ Len(served) = Len(episodes)
        /\ \A i \in 1 .. Len(episodes) : served[i] = episodes[i].proposal
    <3>1. DOMAIN episodes = 1 .. Len(episodes) /\ Len(episodes) \in Nat
      BY <2>2, LenProperties
    <3>2. \A i \in 1 .. Len(episodes) : episodes[i].proposal \in Proposal
      <4>1. \A i \in 1 .. Len(episodes) : episodes[i] \in Episode
        BY <2>2, ElementOfSeq
      <4>2. \A e \in Episode : e.proposal \in Proposal
        BY DEF Episode
      <4>. QED  BY <4>1, <4>2
    <3>3. served = [i \in 1 .. Len(episodes) |-> episodes[i].proposal]
      BY <3>1 DEF Proposals
    <3>4. served \in [1 .. Len(episodes) -> Proposal]
      BY <3>2, <3>3
    <3>5. served \in Seq(Proposal) /\ Len(served) = Len(episodes)
      BY <3>1, <3>4
    <3>. QED  BY <3>1, <3>3, <3>5
  <2>5. ASSUME NEW i \in 1 .. Len(episodes)
        PROVE  i <= Len(plan) /\ plan[i] = served[i]
    <3>1. Vouched(strategy, llmCalls, asked, Before(i), episodes[i])
      BY <1>1, <2>4 DEF IInv, Evidence
    <3>2. KeyOf(strategy, Before(i)) = Plan
      BY <2>1, PlanKey
    <3>3. PositionOf(strategy, Before(i)) = i
      <4>1. \A j \in 1 .. i - 1 : episodes[j] \in Episode
        BY <2>2, <2>4
      <4>2. Len(Before(i)) = i - 1
        BY <4>1, SubSeqProperties DEF Before
      <4>. QED  BY <2>1, <4>2 DEF PositionOf
    <3>. QED  BY <2>1, <2>4, <3>1, <3>2, <3>3 DEF Vouched
  <2>. HIDE DEF served, plan
  <2>6. Len(served) <= Len(plan)
    BY <2>3, <2>4, <2>5
  <2>7. SubSeq(served, 1, Len(served)) = SubSeq(plan, 1, Len(served))
    <3>1. /\ SubSeq(served, 1, Len(served)) = served
          /\ SubSeq(plan, 1, Len(served)) \in Seq(Proposal)
          /\ Len(SubSeq(plan, 1, Len(served))) = Len(served)
          /\ \A i \in 1 .. Len(served) : SubSeq(plan, 1, Len(served))[i] = plan[i]
      <4>1. \A i \in 1 .. Len(served) : plan[i] \in Proposal
        BY <2>3, <2>6 DEF Proposal
      <4>. QED  BY <2>4, <4>1, SubSeqFull, SubSeqProperties
    <3>2. SubSeq(plan, 1, Len(served)) = served
      BY <2>4, <2>5, <3>1, SeqEqual
    <3>. QED  BY <3>1, <3>2
  <2>8. ended = "EXHAUSTED" => served = plan
    <3>. SUFFICES ASSUME ended = "EXHAUSTED" PROVE served = plan
      OBVIOUS
    <3>1. Len(episodes) >= Len(plan)
      BY <1>1, <2>1 DEF IInv, RunsOutAtTheEnd, IsTheReply, plan
    <3>2. Len(served) = Len(plan) /\ plan \in Seq(Proposal)
      BY <2>3, <2>4, <2>6, <3>1 DEF Proposal
    <3>. QED  BY <2>4, <2>5, <3>2, SeqEqual
  <2>. QED  BY <2>6, <2>7, <2>8 DEF IsPrefix
<1>. QED  BY <1>1, Invariance, PTL

-----------------------------------------------------------------------------
\* The lock-in: what a question is, and what one more episode makes of it.

\* What Rejections is: nothing of nothing, and one more for a rejected episode.
LEMMA RejectionsAre ==
  ASSUME NEW h \in Seq(Episode)
  PROVE  \E R : /\ \A n \in 0 .. Len(h) : R[n] \in Seq(Episode)
                /\ R[0] = <<>>
                /\ \A n \in 1 .. Len(h) :
                     R[n] = IF h[n].proposal \in Good THEN R[n - 1] ELSE Append(R[n - 1], h[n])
                /\ Rejections(h) = R[Len(h)]
<1> DEFINE m == Len(h)
           next(i, y) == IF h[i].proposal \in Good THEN y ELSE Append(y, h[i])
           step == [p \in (1 .. m) \X Seq(Episode) |-> next(p[1], p[2])]
           Is(R) == R = [n \in 0 .. m |-> IF n = 0 THEN <<>> ELSE next(n, R[n - 1])]
<1>0. m \in Nat /\ \A i \in 1 .. m : h[i] \in Episode
  OBVIOUS
<1>1. PICK f : Recursive(f, m, <<>>, step)
  <2>. HIDE DEF step, m
  <2>. QED  BY <1>0, Recursion
<1>2. f = [n \in 0 .. m |-> IF n = 0 THEN <<>> ELSE step[<<n, f[n - 1]>>]]
  BY <1>1 DEF Recursive
<1>3. ASSUME NEW i \in 1 .. m, NEW y \in Seq(Episode)
      PROVE  step[<<i, y>>] = next(i, y) /\ next(i, y) \in Seq(Episode)
  BY <1>0
<1> DEFINE S == {i \in 0 .. m : f[i] \in Seq(Episode)}
<1>4. \A i \in 0 .. m : i \in S
  <2>. HIDE DEF m, next, step
  <2>1. 0 \in S
    BY <1>0, <1>2
  <2>2. ASSUME NEW i \in 0 .. m - 1, i \in S PROVE i + 1 \in S
    <3> DEFINE k == i + 1
               y == f[i]
    <3>1. k \in 1 .. m /\ k \in 0 .. m /\ k # 0 /\ k - 1 = i /\ y \in Seq(Episode)
      BY <1>0, <2>2
    <3>2. f[k] = step[<<k, f[k - 1]>>]
      <4>. HIDE DEF k, y
      <4>. QED  BY <1>2, <3>1
    <3>3. f[k] = step[<<k, y>>]
      BY <3>1, <3>2
    <3>. HIDE DEF k, y
    <3>4. f[k] \in Seq(Episode)
      BY <1>3, <3>1, <3>3
    <3>. QED  BY <3>1, <3>4 DEF k
  <2>. HIDE DEF S
  <2>. QED  BY <1>0, <2>1, <2>2, BoundedInduction
<1>5. Is(f)
  <2>. HIDE DEF m, next, step
  <2>1. ASSUME NEW n \in 0 .. m
        PROVE  f[n] = IF n = 0 THEN <<>> ELSE next(n, f[n - 1])
    <3>1. CASE n = 0
      BY <1>2, <3>1
    <3>2. CASE n # 0
      <4> DEFINE y == f[n - 1]
      <4>1. n \in 1 .. m /\ n - 1 \in 0 .. m
        BY <1>0, <3>2
      <4>2. y \in Seq(Episode)
        BY <1>4, <4>1
      <4>3. f[n] = step[<<n, y>>]
        BY <1>2, <3>2
      <4>. HIDE DEF y
      <4>4. f[n] = next(n, y)
        BY <1>3, <4>1, <4>2, <4>3
      <4>. QED  BY <3>2, <4>4 DEF y
    <3>. QED  BY <3>1, <3>2
  <2>2. f = [n \in 0 .. m |-> f[n]]
    BY <1>2
  <2>3. [n \in 0 .. m |-> f[n]] = [n \in 0 .. m |-> IF n = 0 THEN <<>> ELSE next(n, f[n - 1])]
    BY <2>1
  <2>. QED  BY <2>2, <2>3
<1> DEFINE Q == CHOOSE R : Is(R)
<1>6. Is(Q)
  <2>. HIDE DEF Is
  <2>. QED  BY <1>5
<1>7. Rejections(h) = Q[m]
  BY DEF Rejections
<1>. HIDE DEF Q, m
<1>8. Q[0] = <<>> /\ \A n \in 1 .. m : Q[n] = next(n, Q[n - 1])
  <2>. HIDE DEF next
  <2>1. Q = [n \in 0 .. m |-> IF n = 0 THEN <<>> ELSE next(n, Q[n - 1])]
    BY <1>6
  <2>2. \A n \in 0 .. m : Q[n] = IF n = 0 THEN <<>> ELSE next(n, Q[n - 1])
    BY <2>1
  <2>3. 0 \in 0 .. m /\ \A n \in 1 .. m : n \in 0 .. m /\ n # 0
    BY <1>0
  <2>. QED  BY <2>2, <2>3
<1> DEFINE T == {i \in 0 .. m : Q[i] \in Seq(Episode)}
<1>9. \A i \in 0 .. m : i \in T
  <2>1. 0 \in T
    <3>1. 0 \in 0 .. m /\ Q[0] \in Seq(Episode)
      BY <1>0, <1>8
    <3>. QED  BY <3>1
  <2>2. ASSUME NEW i \in 0 .. m - 1, i \in T PROVE i + 1 \in T
    <3>1. i + 1 \in 1 .. m /\ (i + 1) - 1 = i /\ Q[i] \in Seq(Episode)
      BY <1>0, <2>2
    <3>2. Q[i + 1] = next(i + 1, Q[i])
      BY <1>8, <3>1
    <3>3. Q[i + 1] \in Seq(Episode)
      <4>. HIDE DEF next
      <4>. QED  BY <1>3, <3>1, <3>2
    <3>. QED  BY <3>1, <3>3
  <2>. HIDE DEF T
  <2>. QED  BY <1>0, <2>1, <2>2, BoundedInduction
<1>10. \A n \in 0 .. m : Q[n] \in Seq(Episode)
  BY <1>9
<1>. QED  BY <1>7, <1>8, <1>10 DEF m

LEMMA RejectionsType ==
  ASSUME NEW h \in Seq(Episode) PROVE Rejections(h) \in Seq(Episode)
<1>1. Len(h) \in 0 .. Len(h)
  OBVIOUS
<1>. QED  BY <1>1, RejectionsAre

\* What one more episode makes of the rejections.
LEMMA RejectionsAppend ==
  ASSUME NEW h \in Seq(Episode), NEW e \in Episode
  PROVE  Rejections(Append(h, e)) =
           IF e.proposal \in Good THEN Rejections(h) ELSE Append(Rejections(h), e)
<1> DEFINE g == Append(h, e)
           m == Len(h)
<1>1. /\ m \in Nat /\ g \in Seq(Episode) /\ Len(g) = m + 1 /\ g[m + 1] = e
      /\ \A i \in 1 .. m : g[i] = h[i]
  OBVIOUS
<1>. HIDE DEF g
<1>2. PICK P : /\ P[0] = <<>>
               /\ \A n \in 1 .. m :
                    P[n] = IF h[n].proposal \in Good THEN P[n - 1] ELSE Append(P[n - 1], h[n])
               /\ Rejections(h) = P[m]
  BY RejectionsAre
<1>3. PICK R : /\ R[0] = <<>>
               /\ \A n \in 1 .. Len(g) :
                    R[n] = IF g[n].proposal \in Good THEN R[n - 1] ELSE Append(R[n - 1], g[n])
               /\ Rejections(g) = R[Len(g)]
  BY <1>1, RejectionsAre
<1>. HIDE DEF m
<1> DEFINE S == {i \in 0 .. m : P[i] = R[i]}
<1>4. \A i \in 0 .. m : i \in S
  <2>1. 0 \in S
    BY <1>1, <1>2, <1>3
  <2>2. ASSUME NEW i \in 0 .. m - 1, i \in S PROVE i + 1 \in S
    <3> DEFINE k == i + 1
    <3>0. k \in 1 .. m /\ k \in 1 .. m + 1 /\ k - 1 = i /\ P[i] = R[i]
      BY <1>1, <2>2
    <3>1. k \in 1 .. m /\ k \in 1 .. m + 1 /\ k - 1 = i /\ P[i] = R[i] /\ g[k] = h[k]
      <4>. HIDE DEF k
      <4>. QED  BY <1>1, <3>0
    <3>. HIDE DEF k
    <3>2. P[k] = IF h[k].proposal \in Good THEN P[i] ELSE Append(P[i], h[k])
      BY <1>2, <3>1
    <3>3. R[k] = IF g[k].proposal \in Good THEN R[i] ELSE Append(R[i], g[k])
      BY <1>1, <1>3, <3>1
    <3>4. P[k] = R[k]
      BY <3>1, <3>2, <3>3
    <3>. QED  BY <1>1, <3>1, <3>4 DEF k
  <2>. HIDE DEF S
  <2>. QED  BY <1>1, <2>1, <2>2, BoundedInduction
<1>5. P[m] = R[m]
  <2>1. m \in 0 .. m
    BY <1>1
  <2>. QED  BY <1>4, <2>1
<1>6. R[m + 1] = IF e.proposal \in Good THEN R[m] ELSE Append(R[m], e)
  <2>1. m + 1 \in 1 .. m + 1 /\ (m + 1) - 1 = m
    BY <1>1
  <2>. QED  BY <1>1, <1>3, <2>1
<1>. QED  BY <1>1, <1>2, <1>3, <1>5, <1>6 DEF g

\* What one more episode makes of the evaluations.
LEMMA EvaluationsAppend ==
  ASSUME NEW h \in Seq(Episode), NEW e \in Episode
  PROVE  /\ Evaluations(h) \in Nat
         /\ Evaluations(Append(h, e)) =
              IF e.proposal \in Good THEN Evaluations(h) + 1 ELSE Evaluations(h)
<1> DEFINE g == Append(h, e)
           m == Len(h)
           A == {i \in DOMAIN h : h[i].proposal \in Good}
           B == {i \in DOMAIN g : g[i].proposal \in Good}
<1>1. /\ m \in Nat /\ DOMAIN h = 1 .. m /\ DOMAIN g = 1 .. m + 1 /\ g[m + 1] = e
      /\ \A i \in 1 .. m : g[i] = h[i]
  OBVIOUS
<1>2. Evaluations(h) = Cardinality(A) /\ Evaluations(g) = Cardinality(B)
  BY DEF Evaluations
<1>. HIDE DEF g, m
<1>3. IsFiniteSet(A) /\ Cardinality(A) \in Nat
  <2>1. A \in SUBSET (1 .. m) /\ IsFiniteSet(1 .. m)
    BY <1>1, FS_Interval
  <2>. HIDE DEF A
  <2>. QED  BY <2>1, FS_Subset, FS_CardinalityType
<1>4. B = IF e.proposal \in Good THEN A \cup {m + 1} ELSE A
  BY <1>1
<1>5. m + 1 \notin A
  BY <1>1
<1>. HIDE DEF A, B
<1>6. Cardinality(A \cup {m + 1}) = Cardinality(A) + 1
  BY <1>3, <1>5, FS_AddElement
<1>. QED  BY <1>2, <1>3, <1>4, <1>6 DEF g

\* An evaluated episode is in every later count.
LEMMA EvaluationsTell ==
  ASSUME NEW s \in Seq(Episode), NEW i \in DOMAIN s, s[i].proposal \in Good
  PROVE  Evaluations(SubSeq(s, 1, i - 1)) # Evaluations(s)
<1> DEFINE h == SubSeq(s, 1, i - 1)
           A == {j \in DOMAIN h : h[j].proposal \in Good}
           B == {j \in DOMAIN s : s[j].proposal \in Good}
<1>1. i \in 1 .. Len(s) /\ Len(s) \in Nat /\ DOMAIN s = 1 .. Len(s)
  OBVIOUS
<1>2. DOMAIN h = 1 .. i - 1 /\ \A j \in 1 .. i - 1 : h[j] = s[j]
  BY <1>1
<1>3. Evaluations(h) = Cardinality(A) /\ Evaluations(s) = Cardinality(B)
  BY DEF Evaluations
<1>4. IsFiniteSet(1 .. Len(s)) /\ B \in SUBSET (1 .. Len(s))
  BY <1>1, FS_Interval
<1>. HIDE DEF h
<1>5. A \in SUBSET (B \ {i}) /\ i \in B
  BY <1>1, <1>2
<1>. HIDE DEF A, B
<1>6. IsFiniteSet(B)
  BY <1>4, FS_Subset
<1>7. IsFiniteSet(B \ {i}) /\ Cardinality(B \ {i}) = Cardinality(B) - 1 /\ Cardinality(B) \in Nat
  BY <1>5, <1>6, FS_RemoveElement, FS_CardinalityType
<1>8. Cardinality(A) <= Cardinality(B \ {i}) /\ Cardinality(A) \in Nat
  BY <1>5, <1>7, FS_Subset, FS_CardinalityType
<1>. QED  BY <1>3, <1>7, <1>8 DEF h

\* How many of the last of n there are, and what they are.
Shown(n) == IF n > ShownRejections THEN ShownRejections ELSE n

LEMMA RecentIs ==
  ASSUME NEW s \in Seq(Episode)
  PROVE  LET m == Shown(Len(s))
         IN  /\ m \in 0 .. Len(s)
             /\ Proposals(Recent(s)) = [t \in 1 .. m |-> s[Len(s) - m + t].proposal]
<1> DEFINE n == Len(s)
           m == Shown(n)
           a == n - m + 1
           r == SubSeq(s, a, n)
<1>1. n \in Nat /\ ShownRejections \in Nat /\ m \in 0 .. n /\ a \in 1 .. n + 1
  <2>1. n \in Nat /\ ShownRejections \in Nat
    BY ModelCallsAssumption
  <2>2. m = IF n > ShownRejections THEN ShownRejections ELSE n
    BY DEF Shown
  <2>. HIDE DEF n, m
  <2>3. m \in 0 .. n
    BY <2>1, <2>2
  <2>4. n - m + 1 \in 1 .. n + 1
    BY <2>1, <2>3
  <2>. QED  BY <2>1, <2>3, <2>4
<1>2. Recent(s) = r
  <2>1. a = IF n > ShownRejections THEN n - ShownRejections + 1 ELSE 1
    BY <1>1 DEF Shown
  <2>. QED  BY <2>1 DEF Recent
<1>. HIDE DEF m, a, n
<1>3. /\ r \in Seq(Episode) /\ Len(r) = IF a <= n THEN n - a + 1 ELSE 0
      /\ \A t \in 1 .. n - a + 1 : r[t] = s[a + t - 1]
  BY <1>1, SubSeqProperties DEF n
<1>4. n - a + 1 = m
  BY <1>1 DEF a
<1>. HIDE DEF r
<1>5. DOMAIN r = 1 .. m
  BY <1>1, <1>3, <1>4
<1>6. \A t \in 1 .. m : a + t - 1 = n - m + t
  BY <1>1 DEF a
<1>7. \A t \in 1 .. m : r[t].proposal = s[n - m + t].proposal
  BY <1>3, <1>4, <1>6
<1>8. Proposals(r) = [t \in 1 .. m |-> s[n - m + t].proposal]
  BY <1>5, <1>7 DEF Proposals
<1>. QED  BY <1>1, <1>2, <1>8 DEF m, n

\* What is shown after one more rejection depends on what was shown before it.
LEMMA RecentAppend ==
  ASSUME NEW a \in Seq(Episode), NEW b \in Seq(Episode), NEW d \in Episode, NEW e \in Episode,
         d.proposal = e.proposal, Proposals(Recent(a)) = Proposals(Recent(b))
  PROVE  Proposals(Recent(Append(a, d))) = Proposals(Recent(Append(b, e)))
<1> DEFINE S == ShownRejections
           m == Shown(Len(a))
           k == IF m < S THEN m + 1 ELSE m
           before == Proposals(Recent(a))
           now == [t \in 1 .. k |-> IF t = k THEN d.proposal
                                    ELSE IF m < S THEN before[t] ELSE before[t + 1]]
<1>1. ASSUME NEW s \in Seq(Episode), NEW x \in Episode, x.proposal = d.proposal,
             Proposals(Recent(s)) = before
      PROVE  Proposals(Recent(Append(s, x))) = now
  <2> DEFINE n == Len(s)
             u == Append(s, x)
             l == Shown(n)
  <2>1. /\ n \in Nat /\ S \in Nat /\ u \in Seq(Episode) /\ Len(u) = n + 1 /\ u[n + 1] = x
        /\ \A i \in 1 .. n : u[i] = s[i]
    BY ModelCallsAssumption
  <2>2. l \in 0 .. n /\ before = [t \in 1 .. l |-> s[n - l + t].proposal]
    BY <1>1, RecentIs
  <2>3. m \in 0 .. Len(a) /\ DOMAIN before = 1 .. m
    <3>1. m \in 0 .. Len(a) /\ before = [t \in 1 .. m |-> a[Len(a) - m + t].proposal]
      BY RecentIs
    <3>. QED  BY <3>1
  <2>4. m = l
    <3>1. 1 .. l = 1 .. m /\ l \in Nat /\ m \in Nat
      <4>. HIDE DEF before, l, m
      <4>. QED  BY <2>1, <2>2, <2>3
    <3>. HIDE DEF l, m, before
    <3>2. Cardinality(1 .. l) = l /\ Cardinality(1 .. m) = m
      BY <3>1, FS_Interval
    <3>. QED  BY <3>1, <3>2
  <2>5. Shown(n + 1) = k
    BY <2>1, <2>4 DEF Shown
  <2>6. /\ k \in 0 .. n + 1
        /\ Proposals(Recent(u)) = [t \in 1 .. k |-> u[(n + 1) - k + t].proposal]
    <3>. HIDE DEF k, u, n
    <3>1. /\ Shown(Len(u)) \in 0 .. Len(u)
          /\ Proposals(Recent(u)) =
               [t \in 1 .. Shown(Len(u)) |-> u[Len(u) - Shown(Len(u)) + t].proposal]
      BY <2>1, RecentIs
    <3>2. Len(u) = n + 1 /\ Shown(Len(u)) = k
      BY <2>1, <2>5
    <3>3. k \in 0 .. n + 1
      BY <3>1, <3>2, Zenon
    <3> DEFINE last(i, j) == [t \in 1 .. j |-> u[i - j + t].proposal]
    <3>4. Proposals(Recent(u)) = last(n + 1, k)
      <4>1. Proposals(Recent(u)) = last(Len(u), Shown(Len(u)))
        BY <3>1
      <4>. HIDE DEF last
      <4>. QED  BY <3>2, <4>1
    <3>. QED  BY <3>3, <3>4
  <2>7. ASSUME NEW t \in 1 .. k PROVE u[(n + 1) - k + t].proposal = now[t]
    <3>1. CASE t = k
      <4>1. (n + 1) - k + t = n + 1
        BY <2>1, <2>6, <3>1
      <4>. QED  BY <1>1, <2>1, <3>1, <4>1
    <3>2. CASE t # k /\ m < S
      <4>1. (n + 1) - k + t = n - l + t /\ t \in 1 .. l /\ n - l + t \in 1 .. n
        BY <2>1, <2>2, <2>4, <2>6, <3>2
      <4>2. before[t] = s[n - l + t].proposal
        <5>. HIDE DEF before, l
        <5>. QED  BY <2>2, <4>1
      <4>3. now[t] = before[t]
        BY <3>2
      <4>4. u[n - l + t] = s[n - l + t]
        <5>. HIDE DEF u, l
        <5>. QED  BY <2>1, <4>1
      <4>. HIDE DEF now, before, u, l, k
      <4>. QED  BY <4>1, <4>2, <4>3, <4>4
    <3>3. CASE t # k /\ ~(m < S)
      <4>0. k = l /\ t \in 1 .. l /\ t # l /\ l \in 0 .. n /\ n \in Nat
        BY <2>1, <2>2, <2>4, <3>3
      <4>1. (n + 1) - k + t = n - l + (t + 1) /\ t + 1 \in 1 .. l /\ n - l + (t + 1) \in 1 .. n
        <5>. HIDE DEF k, l, n
        <5>. QED  BY <4>0
      <4>2. before[t + 1] = s[n - l + (t + 1)].proposal
        <5>. HIDE DEF before, l
        <5>. QED  BY <2>2, <4>1
      <4>3. now[t] = before[t + 1]
        BY <3>3
      <4>4. u[n - l + (t + 1)] = s[n - l + (t + 1)]
        <5>. HIDE DEF u, l
        <5>. QED  BY <2>1, <4>1
      <4>. HIDE DEF now, before, u, l, k
      <4>. QED  BY <4>1, <4>2, <4>3, <4>4
    <3>. QED  BY <3>1, <3>2, <3>3
  <2>8. now = [t \in 1 .. k |-> now[t]]
    OBVIOUS
  <2>. HIDE DEF now, u, k
  <2>. QED  BY <2>6, <2>7, <2>8 DEF u
<1>2. Proposals(Recent(Append(a, d))) = now
  <2>. HIDE DEF now
  <2>. QED  BY <1>1
<1>3. Proposals(Recent(Append(b, e))) = now
  <2>. HIDE DEF now
  <2>. QED  BY <1>1
<1>. QED  BY <1>2, <1>3

\* Two histories with the same prompt have the same prompt after the same rejection.
LEMMA KeyAppend ==
  ASSUME NEW a \in Seq(Episode), NEW b \in Seq(Episode), NEW d \in Episode, NEW e \in Episode,
         d.proposal = e.proposal, d.proposal \notin Good,
         KeyOf("planner", a) = KeyOf("planner", b)
  PROVE  KeyOf("planner", Append(a, d)) = KeyOf("planner", Append(b, e))
<1>1. ASSUME NEW h
      PROVE  KeyOf("planner", h) = <<"next", Evaluations(h), Proposals(Recent(Rejections(h)))>>
  BY DEF KeyOf
<1>2. /\ Evaluations(a) = Evaluations(b)
      /\ Proposals(Recent(Rejections(a))) = Proposals(Recent(Rejections(b)))
  BY <1>1
<1>3. /\ Evaluations(Append(a, d)) = Evaluations(a) /\ Evaluations(Append(b, e)) = Evaluations(b)
      /\ Rejections(Append(a, d)) = Append(Rejections(a), d)
      /\ Rejections(Append(b, e)) = Append(Rejections(b), e)
  BY EvaluationsAppend, RejectionsAppend
<1>4. Proposals(Recent(Append(Rejections(a), d))) = Proposals(Recent(Append(Rejections(b), e)))
  BY <1>2, RejectionsType, RecentAppend
<1>. QED  BY <1>1, <1>2, <1>3, <1>4

-----------------------------------------------------------------------------
\* While only one process was started, only one runs, on the table as it is.
OneProcess ==
  starts <= 1 =>
    /\ \A v, w \in Workers : pc[v] # "idle" /\ pc[w] # "idle" => v = w
    /\ \A w \in Workers : pc[w] # "idle" => local[w] = episodes /\ starts = 1
    /\ starts = 0 => episodes = <<>> /\ DOMAIN llmCalls = {}

\* Process w takes a step.
Acts(w) ==
  \/ Start(w) \/ Stop(w) \/ Hit(w) \/ HitUnreadable(w) \/ Miss(w) \/ Record(w)
  \/ Exhausted(w) \/ Propose(w) \/ Commit(w) \/ Conflict(w) \/ Crash(w)
  \/ \E repairs \in 0 .. MaxRepairs : Answer(w, repairs)
  \/ \E completions \in 0 .. MaxRepairs + 1 : Fail(w, completions)

\* Before the first start nothing happens, and after it only that process acts.
LEMMA ActsAlone ==
  ASSUME Types, OneProcess, NEW w \in Workers, Acts(w), starts' <= 1
  PROVE  /\ starts \in Nat /\ starts <= 1
         /\ \A v \in Workers : v # w => pc[v] = "idle" /\ pc'[v] = "idle"
         /\ Start(w) \/ (pc[w] # "idle" /\ starts' = starts /\ local[w] = episodes)
<1>. USE DEF Types, TypeOK, Goto
<1>1. starts \in Nat
  BY ModelCallsAssumption
<1>2. CASE Start(w)
  <2>1. starts' = starts + 1 /\ pc' = [pc EXCEPT ![w] = "head"]
    BY <1>2 DEF Start
  <2>2. starts = 0
    BY <1>1, <2>1
  <2>3. \A v \in Workers : pc[v] = "idle"
    BY <2>2 DEF OneProcess
  <2>. QED  BY <1>2, <2>1, <2>2, <2>3
<1>3. CASE ~Start(w)
  <2>1. /\ pc[w] # "idle" /\ starts' = starts
        /\ \E to \in {"idle", "head", "asking", "record", "replied", "commit"} :
             pc' = [pc EXCEPT ![w] = to]
    BY <1>3
       DEF Acts, Stop, Hit, HitUnreadable, Miss, Answer, Fail, Record, Exhausted, Propose,
           Commit, Conflict, Crash
  <2>2. starts <= 1
    BY <2>1
  <2>3. \A v \in Workers : v # w => pc[v] = "idle"
    BY <2>1, <2>2 DEF OneProcess
  <2>4. \A v \in Workers : v # w => pc'[v] = pc[v]
    BY <2>1
  <2>5. local[w] = episodes
    BY <2>1, <2>2 DEF OneProcess
  <2>. QED  BY <1>1, <2>1, <2>2, <2>3, <2>4, <2>5
<1>. QED  BY <1>2, <1>3

LEMMA OneProcessStep ==
  ASSUME Types, OneProcess, [Next]_vars PROVE OneProcess'
<1>. USE DEF Types, TypeOK, Goto, Set
<1>1. CASE UNCHANGED vars
  BY <1>1 DEF vars, OneProcess
<1>2. ASSUME NEW w \in Workers, Acts(w) PROVE OneProcess'
  <2>. SUFFICES ASSUME starts' <= 1
                PROVE  /\ \A v \in Workers : pc'[v] # "idle" => v = w
                       /\ pc'[w] # "idle" => local'[w] = episodes' /\ starts' = 1
                       /\ starts' = 0 => episodes' = <<>> /\ DOMAIN llmCalls' = {}
    BY DEF OneProcess
  <2>1. /\ starts \in Nat /\ starts <= 1
        /\ \A v \in Workers : v # w => pc[v] = "idle" /\ pc'[v] = "idle"
        /\ Start(w) \/ (pc[w] # "idle" /\ starts' = starts /\ local[w] = episodes)
    BY <1>2, ActsAlone
  <2>2. CASE Start(w)
    <3>1. starts' = 1 /\ local'[w] = episodes' /\ starts' # 0
      BY <2>1, <2>2 DEF Start
    <3>. QED  BY <2>1, <3>1
  <2>3. CASE ~Start(w)
    <3>1. pc[w] # "idle" /\ starts' = starts /\ local[w] = episodes /\ starts = 1
      BY <2>1, <2>3 DEF OneProcess
    <3>2. CASE Commit(w)
      BY <2>1, <3>1, <3>2 DEF Commit
    <3>3. CASE ~Commit(w)
      <4>1. episodes' = episodes /\ (local' = local \/ pc'[w] = "idle")
        BY <1>2, <2>3, <3>3
           DEF Acts, Stop, Hit, HitUnreadable, Miss, Answer, Fail, Record, Exhausted, Propose,
               Conflict, Crash
      <4>. QED  BY <2>1, <3>1, <4>1
    <3>. QED  BY <3>2, <3>3
  <2>. QED  BY <2>2, <2>3
<1>. QED  BY <1>1, <1>2 DEF Next, Acts

-----------------------------------------------------------------------------
\* The reply r was given under the key k to a history of the run, and the
\* episode after that history has its proposal.
Given(s, h, k, r) ==
  \E i \in DOMAIN h : KeyOf(s, SubSeq(h, 1, i - 1)) = k /\ r[1] = h[i].proposal

\* Every readable reply is behind an episode, or about to be.
RepliesAreGiven ==
  \A w \in Workers : pc[w] # "idle" =>
    \A k \in DOMAIN llmCalls : llmCalls[k] # Unreadable =>
      \/ Given(strategy, episodes, k, llmCalls[k])
      \/ pc[w] \in {"replied", "commit"} /\ MyKey(w) = k /\ reply[w] = llmCalls[k]

\* What the cache answers is behind an episode already.
HitsAreGiven ==
  \A w \in Workers :
    /\ pc[w] \in {"asking", "record"} => ~ hit[w]
    /\ (pc[w] \in {"replied", "commit"} /\ hit[w] /\ reply[w] # NoReply) =>
         Given(strategy, episodes, MyKey(w), reply[w])

\* After a hit the next question is one the cache knows.
Locked ==
  (\E i \in DOMAIN episodes : episodes[i].hit) =>
    \A w \in Workers : pc[w] # "idle" =>
      /\ MyKey(w) \in DOMAIN llmCalls
      /\ pc[w] \in {"head", "replied", "commit"}
      /\ pc[w] # "head" => hit[w]

\* LockInIsForGood of an undisturbed planner.
ReplaysOnly ==
  \A i, j \in DOMAIN episodes :
    (episodes[i].hit /\ i <= j) => episodes[j].hit /\ episodes[j].proposal \in Bad

NoFailure == \A i \in DOMAIN episodes : episodes[i].proposal # Failed

LockIn ==
  (strategy = "planner" /\ starts <= 1 /\ NoFailure) =>
    RepliesAreGiven /\ HitsAreGiven /\ Locked /\ ReplaysOnly

\* A reply that was given stays given.
LEMMA GivenStays ==
  ASSUME NEW s, NEW h \in Seq(Episode), NEW e \in Episode, NEW k, NEW r, Given(s, h, k, r)
  PROVE  Given(s, Append(h, e), k, r)
<1>1. PICK i \in DOMAIN h : KeyOf(s, SubSeq(h, 1, i - 1)) = k /\ r[1] = h[i].proposal
  BY DEF Given
<1>2. i - 1 \in 0 .. Len(h) /\ i \in 1 .. Len(h)
  OBVIOUS
<1>3. SubSeq(Append(h, e), 1, i - 1) = SubSeq(h, 1, i - 1)
  BY <1>2, FirstOfAppend
<1>4. i \in DOMAIN Append(h, e) /\ Append(h, e)[i] = h[i]
  BY <1>2
<1>. QED  BY <1>1, <1>3, <1>4 DEF Given

\* The history after i episodes is the one before the next of them.
LEMMA BeforeNext ==
  ASSUME NEW h \in Seq(Episode), NEW i \in DOMAIN h
  PROVE  /\ SubSeq(h, 1, i - 1) \in Seq(Episode) /\ h[i] \in Episode
         /\ Append(SubSeq(h, 1, i - 1), h[i]) = SubSeq(h, 1, i)
<1> DEFINE a == SubSeq(h, 1, i - 1)
           b == SubSeq(h, 1, i)
           c == Append(a, h[i])
<1>1. i \in 1 .. Len(h) /\ Len(h) \in Nat /\ h[i] \in Episode
  OBVIOUS
<1>2. /\ a \in Seq(Episode) /\ Len(a) = i - 1 /\ \A j \in 1 .. i - 1 : a[j] = h[j]
      /\ b \in Seq(Episode) /\ Len(b) = i /\ \A j \in 1 .. i : b[j] = h[j]
  BY <1>1, SubSeqProperties
<1>. HIDE DEF a, b
<1>3. /\ c \in Seq(Episode) /\ Len(c) = i /\ c[i] = h[i] /\ \A j \in 1 .. i - 1 : c[j] = a[j]
  BY <1>1, <1>2
<1>. HIDE DEF c
<1>4. \A j \in 1 .. i : c[j] = b[j]
  BY <1>1, <1>2, <1>3
<1>5. c = b
  BY <1>2, <1>3, <1>4, SeqEqual
<1>. QED  BY <1>1, <1>2, <1>5 DEF a, b, c

\* A proposal answered from the cache was answered before, since when no
\* evaluation was made: it is a rejected one, and the next question is known too.
LEMMA HitRepeats ==
  ASSUME NEW h \in Seq(Episode), \A i \in DOMAIN h : h[i].proposal # Failed,
         NEW r, Given("planner", h, KeyOf("planner", h), r),
         NEW e \in Episode, e.proposal = r[1],
         NEW K, KeyOf("planner", h) \in K,
         \A i \in DOMAIN h : KeyOf("planner", SubSeq(h, 1, i - 1)) \in K
  PROVE  e.proposal \in Bad /\ KeyOf("planner", Append(h, e)) \in K
<1>1. PICK i \in DOMAIN h :
        KeyOf("planner", SubSeq(h, 1, i - 1)) = KeyOf("planner", h) /\ r[1] = h[i].proposal
  BY DEF Given
<1> DEFINE b == SubSeq(h, 1, i - 1)
<1>2. b \in Seq(Episode) /\ h[i] \in Episode /\ Append(b, h[i]) = SubSeq(h, 1, i)
  BY BeforeNext
<1>3. Evaluations(b) = Evaluations(h)
  BY <1>1 DEF KeyOf
<1>4. h[i].proposal \notin Good
  BY <1>3, EvaluationsTell
<1>5. e.proposal \in Bad
  BY <1>1, <1>2, <1>4 DEF Episode, Proposal
<1>6. KeyOf("planner", Append(b, h[i])) = KeyOf("planner", Append(h, e))
  <2>1. KeyOf("planner", b) = KeyOf("planner", h) /\ e.proposal = h[i].proposal
    BY <1>1
  <2>. HIDE DEF b
  <2>. QED  BY <1>2, <1>4, <2>1, KeyAppend
<1>7. KeyOf("planner", SubSeq(h, 1, i)) \in K
  <2>1. CASE i = Len(h)
    BY <2>1, SubSeqFull
  <2>2. CASE i # Len(h)
    <3>1. i + 1 \in DOMAIN h /\ (i + 1) - 1 = i
      BY <2>2
    <3>. QED  BY <3>1
  <2>. QED  BY <2>1, <2>2
<1>. QED  BY <1>2, <1>5, <1>6, <1>7

LEMMA LockInCommit ==
  ASSUME Types, Types', Holding, HeldIsStored, Evidence, OneProcess, LockIn,
         NEW w \in Workers, Commit(w), strategy = "planner", starts <= 1, NoFailure'
  PROVE  LockIn'
<1> DEFINE h == episodes
           e == EpisodeOf(w)
           n == Len(h)
           r == reply[w]
           k == KeyOf("planner", h)
<1>. USE DEF Types, TypeOK
<1>1. /\ h \in Seq(Episode) /\ n \in Nat /\ e \in Episode /\ pc[w] = "commit"
      /\ episodes' = Append(h, e) /\ pc' = [pc EXCEPT ![w] = "head"]
      /\ local' = [local EXCEPT ![w] = Append(local[w], e)]
      /\ llmCalls' = llmCalls /\ strategy' = strategy /\ hit' = hit /\ starts' = starts
  BY StoredEpisode DEF Commit, Goto, Set
<1>2. local[w] = h /\ \A v \in Workers : v # w => pc[v] = "idle"
  BY <1>1 DEF OneProcess
<1>3. /\ DOMAIN h = 1 .. n /\ DOMAIN episodes' = 1 .. n + 1 /\ episodes'[n + 1] = e
      /\ \A i \in 1 .. n : episodes'[i] = h[i]
  <2>. HIDE DEF e
  <2>. QED  BY <1>1
<1>. HIDE DEF e
<1>4. NoFailure /\ e.proposal # Failed
  <2>1. \A i \in 1 .. n + 1 : episodes'[i].proposal # Failed
    BY <1>3 DEF NoFailure
  <2>. HIDE DEF n
  <2>2. n + 1 \in 1 .. n + 1 /\ \A i \in 1 .. n : i \in 1 .. n + 1
    BY <1>1
  <2>. QED  BY <1>3, <2>1, <2>2 DEF NoFailure
<1>5. RepliesAreGiven /\ HitsAreGiven /\ Locked /\ ReplaysOnly
  BY <1>4 DEF LockIn
<1>6. /\ r # NoReply /\ e.proposal = r[1] /\ e.hit = hit[w]
      /\ MyKey(w) = k /\ MyKey(w) \in DOMAIN llmCalls
  <2>1. r # NoReply /\ e.proposal = r[MyPosition(w)]
    BY <1>1, <1>4, StoredEpisode DEF e
  <2>2. e.hit = hit[w]
    BY DEF e, EpisodeOf
  <2>3. MyPosition(w) = 1 /\ MyKey(w) = k
    BY <1>2 DEF MyPosition, PositionOf, MyKey
  <2>4. MyKey(w) \in DOMAIN llmCalls
    BY <1>1, <2>1 DEF HeldIsStored
  <2>. QED  BY <2>1, <2>2, <2>3, <2>4
<1>7. ASSUME hit[w]
      PROVE  e.proposal \in Bad /\ KeyOf("planner", Append(h, e)) \in DOMAIN llmCalls
  <2>1. Given("planner", h, k, r)
    BY <1>1, <1>5, <1>6, <1>7 DEF HitsAreGiven
  <2>2. \A i \in DOMAIN h : h[i].proposal # Failed
    BY <1>4 DEF NoFailure
  <2>3. \A i \in DOMAIN h : KeyOf("planner", SubSeq(h, 1, i - 1)) \in DOMAIN llmCalls
    BY <2>2 DEF Evidence, Vouched, Before
  <2>4. k \in DOMAIN llmCalls
    BY <1>6
  <2> DEFINE K == DOMAIN llmCalls
  <2>5. /\ Given("planner", h, KeyOf("planner", h), r) /\ KeyOf("planner", h) \in K
        /\ \A i \in DOMAIN h : KeyOf("planner", SubSeq(h, 1, i - 1)) \in K
    BY <2>1, <2>3, <2>4
  <2>6. h \in Seq(Episode) /\ e \in Episode /\ e.proposal = r[1]
    BY <1>1, <1>6, StoredEpisode DEF e
  <2>. HIDE DEF h, r, K, k
  <2>7. e.proposal \in Bad /\ KeyOf("planner", Append(h, e)) \in K
    BY <2>2, <2>5, <2>6, HitRepeats
  <2>. QED  BY <2>7 DEF K
<1>8. (\E i \in DOMAIN h : h[i].hit) => hit[w]
  BY <1>1, <1>5 DEF Locked
<1>9. Given("planner", Append(h, e), k, r)
  <2>1. n + 1 \in DOMAIN Append(h, e) /\ Append(h, e)[n + 1] = e
    BY <1>1, <1>3
  <2>2. SubSeq(Append(h, e), 1, (n + 1) - 1) = h
    <3>1. n \in 0 .. Len(h) /\ (n + 1) - 1 = n
      BY <1>1
    <3>2. SubSeq(Append(h, e), 1, n) = SubSeq(h, 1, n)
      BY <1>1, <3>1, FirstOfAppend
    <3>. QED  BY <1>1, <3>1, <3>2, SubSeqFull
  <2>. HIDE DEF h, n, r, k
  <2>. QED  BY <1>6, <2>1, <2>2 DEF Given, k
<1>10. RepliesAreGiven'
  <2>. SUFFICES ASSUME NEW q \in DOMAIN llmCalls, llmCalls[q] # Unreadable
                PROVE  Given("planner", Append(h, e), q, llmCalls[q])
    BY <1>1, <1>2 DEF RepliesAreGiven
  <2>1. CASE Given("planner", h, q, llmCalls[q])
    BY <1>1, <2>1, GivenStays
  <2>2. CASE MyKey(w) = q /\ r = llmCalls[q]
    BY <1>6, <1>9, <2>2
  <2>. QED  BY <1>1, <1>5, <2>1, <2>2 DEF RepliesAreGiven
<1>11. HitsAreGiven'
  BY <1>1, <1>2 DEF HitsAreGiven
<1>12. Locked'
  <2>. SUFFICES ASSUME NEW i \in DOMAIN episodes', episodes'[i].hit, NEW v \in Workers, pc'[v] # "idle"
                PROVE  /\ KeyOf(strategy, local'[v]) \in DOMAIN llmCalls /\ pc'[v] = "head"
    BY <1>1 DEF Locked, MyKey
  <2>1. v = w /\ pc'[v] = "head" /\ local'[v] = Append(h, e)
    BY <1>1, <1>2
  <2>2. hit[w]
    <3>1. CASE i = n + 1
      BY <1>3, <1>6, <3>1
    <3>2. CASE i # n + 1
      <4>1. i \in 1 .. n
        BY <1>1, <1>3, <3>2
      <4>. QED  BY <1>3, <1>8, <4>1
    <3>. QED  BY <3>1, <3>2
  <2>3. KeyOf("planner", local'[v]) \in DOMAIN llmCalls
    BY <1>7, <2>1, <2>2
  <2>. QED  BY <2>1, <2>3
<1>13. ReplaysOnly'
  <2>. SUFFICES ASSUME NEW i \in 1 .. n + 1, NEW j \in 1 .. n + 1, episodes'[i].hit, i <= j
                PROVE  episodes'[j].hit /\ episodes'[j].proposal \in Bad
    BY <1>3 DEF ReplaysOnly
  <2>1. CASE j = n + 1
    <3>1. hit[w]
      <4>1. CASE i = n + 1
        BY <1>3, <1>6, <4>1
      <4>2. CASE i # n + 1
        <5>1. i \in 1 .. n
          BY <1>1, <4>2
        <5>. QED  BY <1>3, <1>8, <5>1
      <4>. QED  BY <4>1, <4>2
    <3>. QED  BY <1>3, <1>6, <1>7, <2>1, <3>1
  <2>2. CASE j # n + 1
    <3>1. i \in 1 .. n /\ j \in 1 .. n
      BY <1>1, <2>2
    <3>. QED  BY <1>3, <1>5, <3>1 DEF ReplaysOnly
  <2>. QED  BY <2>1, <2>2
<1>. QED  BY <1>10, <1>11, <1>12, <1>13 DEF LockIn

LEMMA LockInStep ==
  ASSUME Types, Types', Holding, AnswersAddUp, EveryAskWasStarted, HeldIsStored, Evidence,
         OneProcess, LockIn, [Next]_vars
  PROVE  LockIn'
<1>. USE DEF Types, TypeOK, Goto, Set
<1>1. CASE UNCHANGED vars
  BY <1>1 DEF vars, LockIn, NoFailure, RepliesAreGiven, HitsAreGiven, Locked, ReplaysOnly, MyKey
<1>2. ASSUME NEW w \in Workers, Acts(w) PROVE LockIn'
  <2>. SUFFICES ASSUME strategy' = "planner", starts' <= 1, NoFailure' PROVE LockIn'
    BY DEF LockIn
  <2>0. strategy = "planner"
    BY <1>2, FixedStrategy DEF Next, Acts
  <2>1. /\ starts \in Nat /\ starts <= 1
        /\ \A v \in Workers : v # w => pc[v] = "idle" /\ pc'[v] = "idle"
        /\ Start(w) \/ (pc[w] # "idle" /\ starts' = starts /\ local[w] = episodes)
    BY <1>2, ActsAlone
  <2>2. CASE Commit(w)
    BY <2>0, <2>1, <2>2, LockInCommit
  <2>3. CASE ~Commit(w)
    <3>1. episodes' = episodes
      BY <1>2, <2>3
         DEF Acts, Start, Stop, Hit, HitUnreadable, Miss, Answer, Fail, Record, Exhausted,
             Propose, Conflict, Crash
    <3>2. RepliesAreGiven /\ HitsAreGiven /\ Locked /\ ReplaysOnly
      BY <2>0, <2>1, <3>1 DEF LockIn, NoFailure
    <3>3. ReplaysOnly'
      BY <3>1, <3>2 DEF ReplaysOnly
    <3>4. SUFFICES ASSUME pc'[w] # "idle"
                   PROVE  /\ \A k \in DOMAIN llmCalls' : llmCalls'[k] # Unreadable =>
                               \/ Given("planner", episodes, k, llmCalls'[k])
                               \/ /\ pc'[w] \in {"replied", "commit"}
                                  /\ KeyOf("planner", local'[w]) = k /\ reply'[w] = llmCalls'[k]
                          /\ pc'[w] \in {"asking", "record"} => ~ hit'[w]
                          /\ (pc'[w] \in {"replied", "commit"} /\ hit'[w] /\ reply'[w] # NoReply) =>
                               Given("planner", episodes, KeyOf("planner", local'[w]), reply'[w])
                          /\ (\E i \in DOMAIN episodes : episodes[i].hit) =>
                               /\ KeyOf("planner", local'[w]) \in DOMAIN llmCalls'
                               /\ pc'[w] \in {"head", "replied", "commit"}
                               /\ pc'[w] # "head" => hit'[w]
      <4>1. CASE pc'[w] = "idle"
        <5>1. \A v \in Workers : pc'[v] = "idle"
          BY <2>1, <4>1
        <5>. QED  BY <3>3, <5>1 DEF LockIn, RepliesAreGiven, HitsAreGiven, Locked
      <4>2. CASE pc'[w] # "idle"
        <5>1. RepliesAreGiven'
          BY <2>1, <3>1, <3>4, <4>2 DEF RepliesAreGiven, MyKey
        <5>2. HitsAreGiven'
          BY <2>1, <3>1, <3>4, <4>2 DEF HitsAreGiven, MyKey
        <5>3. Locked'
          BY <2>1, <3>1, <3>4, <4>2 DEF Locked, MyKey
        <5>. QED  BY <3>3, <5>1, <5>2, <5>3 DEF LockIn
      <4>. QED  BY <4>1, <4>2
    <3>5. CASE Start(w)
      <4>1. starts = 0 /\ llmCalls' = llmCalls /\ pc'[w] = "head"
        BY <2>1, <3>5 DEF Start
      <4>2. episodes = <<>> /\ DOMAIN llmCalls = {}
        BY <2>1, <4>1 DEF OneProcess
      <4>. QED  BY <4>1, <4>2
    <3>6. CASE ~Start(w)
      <4>1. pc[w] # "idle" /\ MyKey(w) = KeyOf("planner", local[w]) /\ Key(local[w]) = MyKey(w)
        BY <2>0, <2>1, <3>6, KeysAndPositions DEF MyKey
      <4>2. \A k \in DOMAIN llmCalls : llmCalls[k] # Unreadable =>
              \/ Given("planner", episodes, k, llmCalls[k])
              \/ pc[w] \in {"replied", "commit"} /\ MyKey(w) = k /\ reply[w] = llmCalls[k]
        BY <2>0, <3>2, <4>1 DEF RepliesAreGiven
      <4>3. /\ pc[w] \in {"asking", "record"} => ~ hit[w]
            /\ (pc[w] \in {"replied", "commit"} /\ hit[w] /\ reply[w] # NoReply) =>
                 Given("planner", episodes, MyKey(w), reply[w])
        BY <2>0, <3>2 DEF HitsAreGiven
      <4>4. (\E i \in DOMAIN episodes : episodes[i].hit) =>
              /\ MyKey(w) \in DOMAIN llmCalls
              /\ pc[w] \in {"head", "replied", "commit"}
              /\ pc[w] # "head" => hit[w]
        BY <3>2, <4>1 DEF Locked
      <4>5. CASE Hit(w)
        BY <4>1, <4>2, <4>3, <4>4, <4>5 DEF Hit
      <4>6. CASE HitUnreadable(w)
        BY <4>1, <4>2, <4>3, <4>4, <4>6 DEF HitUnreadable
      <4>7. CASE Miss(w)
        BY <4>1, <4>2, <4>3, <4>4, <4>7 DEF Miss
      <4>8. CASE Record(w)
        <5>1. /\ pc[w] = "record" /\ pc'[w] = "replied" /\ local' = local /\ reply' = reply /\ hit' = hit
              /\ DOMAIN llmCalls \subseteq DOMAIN llmCalls'
              /\ \A k \in DOMAIN llmCalls : llmCalls'[k] = llmCalls[k]
              /\ \A k \in DOMAIN llmCalls' : k \in DOMAIN llmCalls
                   \/ (k = MyKey(w) /\ llmCalls'[k] = Stored(reply[w]))
          BY <4>1, <4>8 DEF Record
        <5>2. Stored(reply[w]) # Unreadable => Stored(reply[w]) = reply[w]
          BY DEF Stored
        <5>. QED  BY <4>1, <4>2, <4>3, <4>4, <5>1, <5>2
      <4>9. CASE Propose(w)
        BY <4>1, <4>2, <4>3, <4>4, <4>9 DEF Propose
      <4>10. ASSUME NEW repairs \in 0 .. MaxRepairs, Answer(w, repairs)
             PROVE  /\ pc[w] = "asking" /\ pc'[w] = "record" /\ hit' = hit /\ local' = local
                    /\ llmCalls' = llmCalls
        BY <4>10 DEF Answer
      <4>11. ASSUME NEW completions \in 0 .. MaxRepairs + 1, Fail(w, completions)
             PROVE  /\ pc[w] = "asking" /\ pc'[w] = "commit" /\ hit' = hit /\ local' = local
                    /\ llmCalls' = llmCalls
        BY <4>11 DEF Fail
      <4>12. CASE pc[w] = "asking" /\ pc'[w] \in {"record", "commit"} /\ hit' = hit
                  /\ local' = local /\ llmCalls' = llmCalls
        BY <4>1, <4>2, <4>3, <4>4, <4>12
      <4>13. CASE Stop(w) \/ Exhausted(w) \/ Conflict(w) \/ Crash(w)
        BY <3>4, <4>13 DEF Stop, Exhausted, Conflict, Crash
      <4>. QED
        BY <1>2, <2>3, <3>6, <4>5, <4>6, <4>7, <4>8, <4>9, <4>10, <4>11, <4>12, <4>13 DEF Acts
    <3>. QED  BY <3>5, <3>6
  <2>. QED  BY <2>2, <2>3
<1>. QED  BY <1>1, <1>2 DEF Next, Acts

LEMMA LockInInvariance == Spec => [](OneProcess /\ LockIn)
<1>1. Init => OneProcess /\ LockIn
  BY DEF Init, NoCalls, OneProcess, LockIn, RepliesAreGiven, HitsAreGiven, Locked, ReplaysOnly
<1>2. IInv /\ IInv' /\ OneProcess /\ LockIn /\ [Next]_vars => OneProcess' /\ LockIn'
  BY OneProcessStep, LockInStep DEF IInv
<1>. QED  BY <1>1, <1>2, Invariance, PTL DEF Spec

\* LockInIsForGood: once the cache answers an undisturbed planner it answers for
\* good, and every later proposal is a rejected one again.
THEOREM HitsLockIn == Spec => []LockInIsForGood
<1>1. OneProcess /\ LockIn => LockInIsForGood
  BY DEF LockIn, LockInIsForGood, Uninterrupted, NoFailure, ReplaysOnly
<1>. QED  BY <1>1, LockInInvariance, PTL
=============================================================================
