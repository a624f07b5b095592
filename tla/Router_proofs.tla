--------------------------- MODULE Router_proofs ---------------------------
(***************************************************************************)
(* For any fallback chain, registry, retry policy and answers: the          *)
(* invariants of Router. RequestsReturn is liveness and stays with TLC.     *)
(***************************************************************************)
EXTENDS Router, FiniteSetTheorems, SequenceTheorems, TLAPS

\* What a list of failures owes to a walk over the positions below n, given the
\* answers so far and the usable positions.
Fair(entry, n, ans, usable) ==
  /\ entry.at \in usable /\ entry.at < n /\ entry.provider = Order[entry.at]
  /\ Spent(ans[entry.at])
  /\ entry.error = "PermanentError" <=> ans[entry.at][Len(ans[entry.at])] = "permanent"

Explains(list, n, ans, usable) ==
  /\ \A k \in usable : k < n => \E i \in 1 .. Len(list) : list[i].at = k
  /\ \A i \in 1 .. Len(list) : Fair(list[i], n, ans, usable)
  /\ \A i, j \in 1 .. Len(list) : i < j => list[i].at < list[j].at

UsableSet == {k \in 1 .. Len(Order) : Usable(k)}

\* A walk in progress: the current provider has only failed transiently.
Walking ==
  stage = "call" =>
    /\ Len(answers[who]) = attempt - 1
    /\ \A i \in 1 .. Len(answers[who]) : answers[who][i] = "transient"
    /\ who \notin UsableSet => attempt = 1
    /\ Explains(failures, who, answers, UsableSet)

\* A request in progress has one rejected completion for each past round.
Repairing ==
  stage # "idle" =>
    /\ outcome = NoOutcome
    /\ Len(served) = round /\ calls = round
    /\ \A i \in 1 .. Len(served) : ~ served[i].valid

OneClock == fresh \/ since = elapsed

IInv ==
  /\ TypeOK
  /\ FallbackIsLastResort /\ Walking /\ FailuresExplain
  /\ Repairing /\ CostIsHonest /\ OutputErrorIsTheModels
  /\ OneClock /\ CallsArePaced

-----------------------------------------------------------------------------
\* The parameters the walk is bounded by.

LEMMA SingletonType == ASSUME NEW S, NEW x \in S PROVE <<x>> \in Seq(S)
  OBVIOUS

LEMMA OrderType ==
  /\ Order \in Seq(STRING) /\ Len(Order) \in Nat
  /\ \A k \in 1 .. Len(Order) : Order[k] \in Provider
<1>1. Preferred \in STRING /\ FallbackOrder \in Seq(STRING)
  BY RouterAssumption
<1>2. <<Preferred>> \in Seq(STRING)
  BY <1>1, SingletonType, Zenon
<1>3. Order \in Seq(STRING)
  BY <1>1, <1>2, ConcatProperties DEF Order
<1>. QED  BY <1>3 DEF Provider

LEMMA PowerType == ASSUME NEW n \in Nat PROVE 2 ^ n \in Nat
<1>1. IsFiniteSet(1 .. n) /\ Cardinality(1 .. n) = n
  BY FS_Interval
<1>2. IsFiniteSet(SUBSET (1 .. n)) /\ Cardinality(SUBSET (1 .. n)) = 2 ^ n
  BY <1>1, FS_SUBSET
<1>. QED  BY <1>2, FS_CardinalityType

LEMMA DelaysType ==
  ASSUME NEW n \in 1 .. MaxAttempts, NEW hint \in Hints \cup {NoHint}, NEW d \in Delays(n, hint)
  PROVE  d \in Nat
<1>1. CASE hint # NoHint
  <2>1. hint \in Int /\ MaxRetryAfter \in Nat
    BY <1>1, RouterAssumption
  <2>. QED  BY <1>1, <2>1 DEF Delays, Least, Greatest
<1>2. CASE hint = NoHint
  <2>1. n - 1 \in Nat /\ BaseDelay \in Nat /\ MaxDelay \in Nat
    BY RouterAssumption
  <2>2. 2 ^ (n - 1) \in Nat
    BY <2>1, PowerType
  <2>3. BaseDelay * 2 ^ (n - 1) \in Nat
    BY <2>1, <2>2
  <2>4. Least(BaseDelay * 2 ^ (n - 1), MaxDelay) \in Nat
    BY <2>1, <2>3 DEF Least
  <2>. QED  BY <1>2, <2>4 DEF Delays
<1>. QED  BY <1>1, <1>2

LEMMA ClockType == ASSUME NEW t \in Nat PROVE UpToInterval(t) \in 0 .. MinInterval
  BY RouterAssumption DEF UpToInterval, Least

\* One call moves the clocks and nothing else, and it is paced.
LEMMA AskIsPaced ==
  ASSUME TypeOK, OneClock, NEW t \in Nat, Ask(t)
  PROVE  /\ elapsed' \in 0 .. MinInterval /\ since' \in 0 .. MinInterval
         /\ fresh' \in BOOLEAN /\ gap' \in [time : 0 .. MinInterval, first : BOOLEAN]
         /\ OneClock' /\ CallsArePaced'
         /\ registered' = registered /\ counts' = counts
         /\ stage = "call" /\ who \in 1 .. Len(Order) /\ Usable(who)
<1>1. /\ MinInterval \in Nat /\ elapsed \in 0 .. MinInterval /\ since \in 0 .. MinInterval
      /\ fresh \in BOOLEAN
  BY RouterAssumption DEF TypeOK
<1>2. Pause \in Nat /\ elapsed + Pause >= MinInterval
  BY <1>1 DEF Pause, Greatest
<1>3. UpToInterval(since + Pause) \in 0 .. MinInterval /\ UpToInterval(t) \in 0 .. MinInterval
  BY <1>1, <1>2, ClockType
<1>4. since = elapsed => UpToInterval(since + Pause) = MinInterval
  BY <1>1, <1>2 DEF UpToInterval, Least
<1>5. /\ gap' = [time |-> UpToInterval(since + Pause), first |-> fresh] /\ fresh' = FALSE
      /\ elapsed' = UpToInterval(t) /\ since' = UpToInterval(t)
      /\ registered' = registered /\ counts' = counts
      /\ stage = "call" /\ who <= Len(Order) /\ Usable(who)
  BY DEF Ask
<1>6. OneClock' /\ CallsArePaced'
  BY <1>1, <1>4, <1>5 DEF OneClock, CallsArePaced
<1>7. who \in 1 .. Len(Order)
  BY <1>5, OrderType DEF TypeOK
<1>. QED  BY <1>1, <1>3, <1>5, <1>6, <1>7

-----------------------------------------------------------------------------
\* What recording an answer does to the answers so far.

LEMMA AnsweredFacts ==
  ASSUME TypeOK, NEW a \in Answer
  PROVE  /\ Answered(a) \in Seq(Seq(Answer)) /\ Len(Answered(a)) = who
         /\ Answered(a)[who] = Append(answers[who], a)
         /\ \A k \in 1 .. who - 1 : Answered(a)[k] = answers[k]
<1>1. answers \in Seq(Seq(Answer)) /\ Len(answers) = who /\ who \in 1 .. Len(answers)
  BY OrderType DEF TypeOK
<1>2. answers[who] \in Seq(Answer)
  BY <1>1
<1>3. Append(answers[who], a) \in Seq(Answer)
  BY <1>2
<1>. QED  BY <1>1, <1>3 DEF Answered

LEMMA NextTurnFacts ==
  ASSUME NEW s \in Seq(Seq(Answer))
  PROVE  /\ Append(s, <<>>) \in Seq(Seq(Answer)) /\ Len(Append(s, <<>>)) = Len(s) + 1
         /\ Append(s, <<>>)[Len(s) + 1] = <<>> /\ Len(Append(s, <<>>)[Len(s) + 1]) = 0
         /\ \A k \in 1 .. Len(s) : Append(s, <<>>)[k] = s[k]
<1>1. <<>> \in Seq(Answer)
  OBVIOUS
<1>. QED  BY <1>1

\* Usable depends on the registry alone.
LEMMA UsableFrame ==
  ASSUME registered' = registered
  PROVE  /\ \A k : Usable(k)' = Usable(k)
         /\ UsableSet' = UsableSet
  BY DEF Usable, UsableSet

\* One more answer to whoever is being asked disturbs nobody before them.
LEMMA AnswerKeepsTheChain ==
  ASSUME TypeOK, FallbackIsLastResort, Walking, stage = "call", NEW a \in Answer,
         answers' = Answered(a), who' = who, registered' = registered, who <= Len(Order)
  PROVE  /\ answers' \in Seq(Seq(Answer)) /\ Len(answers') = who'
         /\ FallbackIsLastResort'
         /\ Len(answers'[who]) = attempt
         /\ answers'[who][attempt] = a
         /\ \A i \in 1 .. attempt - 1 : answers'[who][i] = "transient"
<1>1. /\ answers' \in Seq(Seq(Answer)) /\ Len(answers') = who
      /\ answers'[who] = Append(answers[who], a)
      /\ \A k \in 1 .. who - 1 : answers'[k] = answers[k]
  BY AnsweredFacts
<1>2. answers \in Seq(Seq(Answer)) /\ who \in 1 .. Len(answers)
  BY OrderType DEF TypeOK
<1>3. /\ answers[who] \in Seq(Answer) /\ Len(answers[who]) = attempt - 1
      /\ \A i \in 1 .. attempt - 1 : answers[who][i] = "transient"
  BY <1>2 DEF Walking
<1>4. attempt \in 1 .. MaxAttempts /\ MaxAttempts \in Nat
  BY RouterAssumption DEF TypeOK
<1>5. /\ Len(answers'[who]) = attempt /\ answers'[who][attempt] = a
      /\ \A i \in 1 .. attempt - 1 : answers'[who][i] = "transient"
  BY <1>1, <1>3, <1>4
<1>6. \A k \in 1 .. who - 1 : Usable(k)' => Spent(answers'[k])
  BY <1>1, UsableFrame DEF FallbackIsLastResort
<1>7. FallbackIsLastResort'
  BY <1>4, <1>5, <1>6 DEF FallbackIsLastResort
<1>. QED  BY <1>1, <1>5, <1>7

\* A completion, valid or not: the request now has round + 1 of them and only
\* the last may have validated.
LEMMA CompletionCounts ==
  ASSUME TypeOK, Repairing, NEW valid \in BOOLEAN, Completed(valid),
         stage = "call", who \in 1 .. Len(Order)
  PROVE  /\ served' \in Seq([provider : Provider, valid : BOOLEAN])
         /\ Len(served') = round + 1 /\ calls' = round + 1
         /\ served'[round + 1] = [provider |-> Order[who], valid |-> valid]
         /\ \A i \in 1 .. round : ~ served'[i].valid
<1>1. /\ served \in Seq([provider : Provider, valid : BOOLEAN])
      /\ Len(served) = round /\ calls = round /\ round \in Nat
      /\ \A i \in 1 .. round : ~ served[i].valid
  BY RouterAssumption DEF TypeOK, Repairing
<1>2. [provider |-> Order[who], valid |-> valid] \in [provider : Provider, valid : BOOLEAN]
  BY OrderType
<1>3. served' = Append(served, [provider |-> Order[who], valid |-> valid]) /\ calls' = calls + 1
  BY DEF Completed
<1>. QED  BY <1>1, <1>2, <1>3

-----------------------------------------------------------------------------
LEMMA OutcomeType ==
  ASSUME NEW P, NEW F, NEW k \in Outcomes, NEW c \in Nat, NEW r \in Nat, NEW p \in P, NEW f \in F
  PROVE  [kind |-> k, calls |-> c, repairs |-> r, provider |-> p, failures |-> f]
           \in [kind : Outcomes, calls : Nat, repairs : Nat, provider : P, failures : F]
  OBVIOUS

LEMMA NoOutcomeType ==
  NoOutcome \in [kind : Outcomes, calls : Nat, repairs : Nat, provider : Provider \cup {"none"},
                 failures : Seq([at : Nat, provider : Provider, error : Error])]
<1>1. <<>> \in Seq([at : Nat, provider : Provider, error : Error])
  OBVIOUS
<1>2. "none" \in Outcomes
  BY DEF Outcomes
<1>3. "none" \in Provider \cup {"none"}
  OBVIOUS
<1>4. 0 \in Nat
  OBVIOUS
<1>. QED  BY <1>1, <1>2, <1>3, <1>4, OutcomeType, Zenon DEF NoOutcome

LEMMA InitInv == Init => IInv
<1> SUFFICES ASSUME Init PROVE IInv
  OBVIOUS
<1> USE DEF Init
<1>1. MinInterval \in Nat /\ MaxRepairs \in Nat /\ MaxRequests \in Nat /\ MaxAttempts \in Nat \ {0}
  BY RouterAssumption
<1>2. answers \in Seq(Seq(Answer)) /\ Len(answers) = 1 /\ answers[1] = <<>>
  OBVIOUS
<1>4. TypeOK
  BY <1>1, <1>2, NoOutcomeType, OrderType DEF TypeOK
<1>5. FallbackIsLastResort
  BY <1>1, <1>2 DEF FallbackIsLastResort
<1>6. Walking /\ Repairing /\ OneClock /\ CallsArePaced
  BY DEF Walking, Repairing, OneClock, CallsArePaced
<1>7. FailuresExplain /\ CostIsHonest /\ OutputErrorIsTheModels
  BY DEF FailuresExplain, CostIsHonest, OutputErrorIsTheModels, NoOutcome
<1>. QED  BY <1>4, <1>5, <1>6, <1>7 DEF IInv

\* Without an outcome nothing is claimed about one.
LEMMA NothingClaimed ==
  outcome' = NoOutcome => FailuresExplain' /\ CostIsHonest' /\ OutputErrorIsTheModels'
  BY DEF FailuresExplain, CostIsHonest, OutputErrorIsTheModels, NoOutcome

LEMMA CompleteInv == ASSUME IInv, NEW t \in Durations, Complete(t) PROVE IInv'
<1> USE DEF Complete
<1>1. t \in Nat /\ MinInterval \in Nat /\ MaxRequests \in Nat /\ MaxRepairs \in Nat
  BY RouterAssumption
<1>2. UpToInterval(elapsed + t) \in 0 .. MinInterval /\ UpToInterval(since + t) \in 0 .. MinInterval
  <2>1. elapsed + t \in Nat /\ since + t \in Nat
    BY <1>1 DEF IInv, TypeOK
  <2>. QED  BY <2>1, ClockType
<1>3. TypeOK'
  BY <1>1, <1>2, NoOutcomeType DEF IInv, TypeOK
<1>4. FallbackIsLastResort'
  BY UsableFrame DEF IInv, FallbackIsLastResort
<1>5. Walking' /\ Repairing'
  BY DEF Walking, Repairing
<1>6. OneClock' /\ CallsArePaced'
  BY DEF IInv, OneClock, CallsArePaced
<1>. QED  BY <1>3, <1>4, <1>5, <1>6, NothingClaimed DEF IInv

LEMMA NewRouterInv == ASSUME IInv, NEW t \in Durations, NewRouter(t) PROVE IInv'
<1> USE DEF NewRouter
<1>1. t \in Nat /\ MinInterval \in Nat /\ MaxRepairs \in Nat /\ MaxAttempts \in Nat \ {0}
  BY RouterAssumption
<1>2. UpToInterval(since + t) \in 0 .. MinInterval
  <2>1. since + t \in Nat
    BY <1>1 DEF IInv, TypeOK
  <2>. QED  BY <2>1, ClockType
<1>3. answers' \in Seq(Seq(Answer)) /\ Len(answers') = 1 /\ answers'[1] = <<>>
  OBVIOUS
<1>4. TypeOK'
  BY <1>1, <1>2, <1>3, OrderType, NoOutcomeType DEF IInv, TypeOK
<1>5. FallbackIsLastResort'
  BY <1>1, <1>3 DEF FallbackIsLastResort
<1>6. Walking' /\ Repairing' /\ OneClock'
  BY DEF Walking, Repairing, OneClock
<1>7. CallsArePaced'
  BY DEF IInv, CallsArePaced
<1>. QED  BY <1>4, <1>5, <1>6, <1>7, NothingClaimed DEF IInv

LEMMA GenerateInv == ASSUME IInv, Generate PROVE IInv'
<1> USE DEF Generate, clock, counts
<1>1. MaxAttempts \in Nat \ {0}
  BY RouterAssumption
<1>2. answers' \in Seq(Seq(Answer)) /\ Len(answers') = 1 /\ answers'[1] = <<>>
  OBVIOUS
<1>3. TypeOK'
  BY <1>1, <1>2, OrderType DEF IInv, TypeOK
<1>4. FallbackIsLastResort'
  BY <1>1, <1>2 DEF FallbackIsLastResort
<1>5. Explains(failures, who, answers, UsableSet)'
  BY DEF Explains, UsableSet
<1>6. Walking'
  BY <1>2, <1>5 DEF Walking
<1>7. Repairing' /\ outcome' = NoOutcome
  BY DEF IInv, Repairing
<1>8. OneClock' /\ CallsArePaced'
  BY DEF IInv, OneClock, CallsArePaced
<1>. QED  BY <1>3, <1>4, <1>6, <1>7, <1>8, NothingClaimed DEF IInv

\* A call that completes: what holds whatever the reply is.
LEMMA CompletionInv ==
  ASSUME IInv, NEW t \in Durations, NEW valid \in BOOLEAN, NEW a \in Answer,
         Ask(t), Completed(valid), answers' = Answered(a), who' = who, attempt' = attempt,
         failures' = failures, waited' = waited, stage' # "call",
         stage' \in {"idle", "generate"}, round' \in 0 .. MaxRepairs,
         outcome' \in [kind : Outcomes, calls : Nat, repairs : Nat, provider : Provider \cup {"none"},
                       failures : Seq([at : Nat, provider : Provider, error : Error])]
  PROVE  TypeOK' /\ FallbackIsLastResort' /\ Walking' /\ OneClock' /\ CallsArePaced'
<1>1. t \in Nat
  BY RouterAssumption
<1>2. /\ elapsed' \in 0 .. MinInterval /\ since' \in 0 .. MinInterval
      /\ fresh' \in BOOLEAN /\ gap' \in [time : 0 .. MinInterval, first : BOOLEAN]
      /\ OneClock' /\ CallsArePaced'
      /\ registered' = registered /\ counts' = counts
      /\ stage = "call" /\ who \in 1 .. Len(Order)
  BY <1>1, AskIsPaced DEF IInv
<1>3. answers' \in Seq(Seq(Answer)) /\ Len(answers') = who' /\ FallbackIsLastResort'
  BY <1>2, OrderType, AnswerKeepsTheChain DEF IInv
<1>4. served' \in Seq([provider : Provider, valid : BOOLEAN]) /\ calls' \in Nat
  <2>1. round \in Nat
    BY RouterAssumption DEF IInv, TypeOK
  <2>2. TypeOK /\ Repairing
    BY DEF IInv
  <2>3. served' \in Seq([provider : Provider, valid : BOOLEAN]) /\ calls' = round + 1
    BY <1>2, <2>2, CompletionCounts
  <2>. QED  BY <2>1, <2>3
<1>5. TypeOK'
  BY <1>2, <1>3, <1>4 DEF IInv, TypeOK, counts
<1>. QED  BY <1>2, <1>3, <1>5 DEF Walking

LEMMA ParsedInv == ASSUME IInv, NEW t \in Durations, Parsed(t) PROVE IInv'
<1> USE DEF Parsed
<1>1. stage = "call" /\ who \in 1 .. Len(Order) /\ round \in 0 .. MaxRepairs /\ MaxRepairs \in Nat
  BY OrderType, RouterAssumption DEF IInv, TypeOK, Ask
<1>2. /\ Len(served') = round + 1 /\ calls' = round + 1
      /\ served'[round + 1] = [provider |-> Order[who], valid |-> TRUE]
      /\ \A i \in 1 .. round : ~ served'[i].valid
  BY <1>1, CompletionCounts DEF IInv
<1>3. outcome' \in [kind : Outcomes, calls : Nat, repairs : Nat, provider : Provider \cup {"none"},
                    failures : Seq([at : Nat, provider : Provider, error : Error])]
  <2>1. "parsed" \in Outcomes /\ calls' \in Nat /\ round \in Nat
    BY <1>1, <1>2 DEF Outcomes
  <2>2. Order[who] \in Provider \cup {"none"}
    BY <1>1, OrderType
  <2>3. <<>> \in Seq([at : Nat, provider : Provider, error : Error])
    OBVIOUS
  <2>. QED  BY <2>1, <2>2, <2>3, OutcomeType, Zenon
<1>4. TypeOK' /\ FallbackIsLastResort' /\ Walking' /\ OneClock' /\ CallsArePaced'
  BY <1>1, <1>3, CompletionInv DEF Answer
<1>5. {i \in 1 .. Len(served') : ~ served'[i].valid} = 1 .. round
  BY <1>1, <1>2
<1>6. Cardinality({i \in 1 .. Len(served') : ~ served'[i].valid}) = round
  <2>1. Cardinality(1 .. round) = round
    BY <1>1, FS_Interval
  <2>. QED  BY <1>5, <2>1
<1>7. CostIsHonest'
  BY <1>2, <1>6 DEF CostIsHonest
<1>8. FailuresExplain' /\ OutputErrorIsTheModels' /\ Repairing'
  BY DEF FailuresExplain, OutputErrorIsTheModels, Repairing
<1>. QED  BY <1>4, <1>7, <1>8 DEF IInv

LEMMA RepairInv == ASSUME IInv, NEW t \in Durations, Repair(t) PROVE IInv'
<1> USE DEF Repair
<1>1. /\ stage = "call" /\ who \in 1 .. Len(Order) /\ outcome = NoOutcome
      /\ round \in 0 .. MaxRepairs /\ MaxRepairs \in Nat
  BY OrderType, RouterAssumption DEF IInv, TypeOK, Ask, Repairing
<1>2. /\ Len(served') = round + 1 /\ calls' = round + 1
      /\ served'[round + 1] = [provider |-> Order[who], valid |-> FALSE]
      /\ \A i \in 1 .. round : ~ served'[i].valid
  BY <1>1, CompletionCounts DEF IInv
<1>3. round' \in 0 .. MaxRepairs
  BY <1>1
<1>4. TypeOK' /\ FallbackIsLastResort' /\ Walking' /\ OneClock' /\ CallsArePaced'
  BY <1>1, <1>3, NoOutcomeType, CompletionInv DEF Answer
<1>5. Repairing'
  BY <1>1, <1>2 DEF Repairing
<1>. QED  BY <1>1, <1>4, <1>5, NothingClaimed DEF IInv

LEMMA OutputErrorInv == ASSUME IInv, NEW t \in Durations, OutputError(t) PROVE IInv'
<1> USE DEF OutputError
<1>1. stage = "call" /\ who \in 1 .. Len(Order) /\ round \in 0 .. MaxRepairs /\ MaxRepairs \in Nat
  BY OrderType, RouterAssumption DEF IInv, TypeOK, Ask
<1>2. /\ Len(served') = round + 1 /\ served'[round + 1] = [provider |-> Order[who], valid |-> FALSE]
      /\ \A i \in 1 .. round : ~ served'[i].valid
  BY <1>1, CompletionCounts DEF IInv
<1>3. outcome'.kind = "output_error"
  BY DEF NoOutcome
<1>4. outcome' \in [kind : Outcomes, calls : Nat, repairs : Nat, provider : Provider \cup {"none"},
                    failures : Seq([at : Nat, provider : Provider, error : Error])]
  BY NoOutcomeType DEF Outcomes
<1>5. TypeOK' /\ FallbackIsLastResort' /\ Walking' /\ OneClock' /\ CallsArePaced'
  BY <1>1, <1>4, CompletionInv DEF Answer
<1>6. OutputErrorIsTheModels'
  BY <1>1, <1>2 DEF OutputErrorIsTheModels
<1>7. FailuresExplain' /\ CostIsHonest' /\ Repairing'
  BY <1>3 DEF FailuresExplain, CostIsHonest, Repairing
<1>. QED  BY <1>5, <1>6, <1>7 DEF IInv

\* The transient failures that stay with the provider.
LEMMA RetryInv ==
  ASSUME IInv, NEW t \in Durations, NEW hint \in Hints \cup {NoHint}, Retry(t, hint)
  PROVE  IInv'
<1>1. PICK delay \in Delays(attempt, hint) : Ask(t + delay) /\ waited' = waited + delay
  BY DEF Retry
<1>2. attempt \in 1 .. MaxAttempts /\ MaxAttempts \in Nat /\ attempt < MaxAttempts
  BY RouterAssumption DEF Retry, IInv, TypeOK
<1>3. delay \in Nat /\ t \in Nat /\ t + delay \in Nat
  <2>1. delay \in Nat
    BY <1>2, DelaysType
  <2>. QED  BY <2>1, RouterAssumption
<1>4. /\ elapsed' \in 0 .. MinInterval /\ since' \in 0 .. MinInterval
      /\ fresh' \in BOOLEAN /\ gap' \in [time : 0 .. MinInterval, first : BOOLEAN]
      /\ OneClock' /\ CallsArePaced'
      /\ registered' = registered /\ counts' = counts
      /\ stage = "call" /\ who \in 1 .. Len(Order) /\ Usable(who)
  BY <1>1, <1>3, AskIsPaced DEF IInv
<1>5. /\ answers' = Answered("transient") /\ attempt' = attempt + 1
      /\ UNCHANGED <<stage, round, who, failures, calls, served, outcome>>
  BY DEF Retry
<1>6. /\ answers' \in Seq(Seq(Answer)) /\ Len(answers') = who'
      /\ FallbackIsLastResort'
      /\ Len(answers'[who]) = attempt
      /\ answers'[who][attempt] = "transient"
      /\ \A i \in 1 .. attempt - 1 : answers'[who][i] = "transient"
  BY <1>4, <1>5, OrderType, AnswerKeepsTheChain DEF IInv, Answer
<1>7. TypeOK'
  <2>1. waited' \in Nat /\ attempt' \in 1 .. MaxAttempts
    BY <1>1, <1>2, <1>3, <1>5 DEF IInv, TypeOK
  <2>. QED  BY <1>4, <1>5, <1>6, <2>1 DEF IInv, TypeOK, counts
<1>8. Explains(failures, who, answers, UsableSet)'
  <2>1. Explains(failures, who, answers, UsableSet) /\ who \in Nat
    BY <1>4, OrderType DEF IInv, Walking
  <2>2. \A k \in 1 .. who - 1 : answers'[k] = answers[k]
    BY <1>5, AnsweredFacts DEF IInv, Answer
  <2>3. \A k \in UsableSet : k < who => k \in 1 .. who - 1
    BY <2>1, OrderType DEF UsableSet
  <2>4. Explains(failures, who, answers', UsableSet)
    BY <2>1, <2>2, <2>3 DEF Explains, Fair
  <2>. QED  BY <1>4, <1>5, <2>4, UsableFrame
<1>9. Walking'
  <2>1. who \in UsableSet'
    <3>1. who \in UsableSet
      BY <1>4 DEF UsableSet
    <3>. QED  BY <1>4, <3>1, UsableFrame
  <2>. QED  BY <1>2, <1>4, <1>5, <1>6, <1>8, <2>1, OrderType DEF Walking
<1>10. Repairing' /\ outcome' = NoOutcome
  BY <1>4, <1>5 DEF IInv, Repairing
<1>. QED  BY <1>4, <1>6, <1>7, <1>9, <1>10, NothingClaimed DEF IInv

\* One more failure, of the usable provider n, explains one more position.
LEMMA ExplainsGrows ==
  ASSUME NEW n \in Nat, NEW usable \in SUBSET (Nat \ {0}), n \in usable, NEW list, Len(list) \in Nat,
         NEW more, NEW entry, Len(more) = Len(list) + 1, more[Len(list) + 1] = entry,
         \A i \in 1 .. Len(list) : more[i] = list[i],
         NEW ans, NEW ans2, \A k \in 1 .. n - 1 : ans2[k] = ans[k],
         Explains(list, n, ans, usable), entry.at = n, Fair(entry, n + 1, ans2, usable)
  PROVE  Explains(more, n + 1, ans2, usable)
<1>0. \A k \in usable : k \in Nat /\ k > 0
  OBVIOUS
<1>1. \A i \in 1 .. Len(list) : list[i].at \in 1 .. n - 1 /\ Fair(list[i], n, ans, usable)
  <2>1. \A i \in 1 .. Len(list) : Fair(list[i], n, ans, usable)
    BY DEF Explains
  <2>2. \A i \in 1 .. Len(list) : list[i].at \in 1 .. n - 1
    <3>1. TAKE i \in 1 .. Len(list)
    <3>2. list[i].at \in usable /\ list[i].at < n
      BY <2>1 DEF Fair
    <3>3. list[i].at \in Nat /\ list[i].at > 0
      BY <1>0, <3>2
    <3>. QED  BY <3>2, <3>3
  <2>. QED  BY <2>1, <2>2
<1>2. \A i \in 1 .. Len(list) : Fair(more[i], n + 1, ans2, usable)
  BY <1>1 DEF Fair
<1>3. \A i \in 1 .. Len(more) : Fair(more[i], n + 1, ans2, usable)
  BY <1>2
<1>4. \A i, j \in 1 .. Len(more) : i < j => more[i].at < more[j].at
  <2>1. \A i, j \in 1 .. Len(list) : i < j => more[i].at < more[j].at
    BY DEF Explains
  <2>2. \A i \in 1 .. Len(list) : more[i].at < more[Len(list) + 1].at
    BY <1>1
  <2>3. \A j \in 1 .. Len(more) : j \in 1 .. Len(list) \/ j = Len(list) + 1
    OBVIOUS
  <2>4. \A i \in 1 .. Len(more) : i < Len(list) + 1 => i \in 1 .. Len(list)
    OBVIOUS
  <2>. QED  BY <2>1, <2>2, <2>3, <2>4
<1>5. \A k \in usable : k < n + 1 => \E i \in 1 .. Len(more) : more[i].at = k
  <2> SUFFICES ASSUME NEW k \in usable, k < n + 1 PROVE \E i \in 1 .. Len(more) : more[i].at = k
    OBVIOUS
  <2>1. CASE k = n
    BY <2>1
  <2>2. CASE k # n
    <3>1. PICK i \in 1 .. Len(list) : list[i].at = k
      BY <1>0, <2>2 DEF Explains
    <3>. QED  BY <3>1
  <2>. QED  BY <2>1, <2>2
<1>. QED  BY <1>3, <1>4, <1>5 DEF Explains

\* The failures that end a provider's turn.
Ends(a) == answers' = Append(Answered(a), <<>>)

LEMMA TurnOverInv ==
  ASSUME IInv, NEW t \in Durations, NEW a \in {"transient", "permanent"}, NEW e \in Error,
         Ask(t), Ends(a), NextProvider(e),
         a = "transient" => attempt = MaxAttempts,
         e = "PermanentError" <=> a = "permanent"
  PROVE  IInv'
<1>1. t \in Nat /\ MaxAttempts \in Nat \ {0}
  BY RouterAssumption
<1>2. /\ elapsed' \in 0 .. MinInterval /\ since' \in 0 .. MinInterval
      /\ fresh' \in BOOLEAN /\ gap' \in [time : 0 .. MinInterval, first : BOOLEAN]
      /\ OneClock' /\ CallsArePaced'
      /\ registered' = registered /\ counts' = counts
      /\ stage = "call" /\ who \in 1 .. Len(Order) /\ Usable(who)
  BY <1>1, AskIsPaced DEF IInv
<1>3. /\ failures' = Append(failures, [at |-> who, provider |-> Order[who], error |-> e])
      /\ who' = who + 1 /\ attempt' = 1
      /\ UNCHANGED <<stage, round, calls, served, outcome, waited>>
  BY DEF NextProvider
<1>4. attempt \in 1 .. MaxAttempts /\ Len(Order) \in Nat
  BY OrderType DEF IInv, TypeOK
<1>5. /\ Answered(a) \in Seq(Seq(Answer)) /\ Len(Answered(a)) = who
      /\ Answered(a)[who] = Append(answers[who], a)
      /\ \A k \in 1 .. who - 1 : Answered(a)[k] = answers[k]
  BY AnsweredFacts DEF IInv, Answer
<1>6. answers' \in Seq(Seq(Answer)) /\ Len(answers') = who + 1
  BY <1>2, <1>5, NextTurnFacts DEF Ends
<1>18. Len(answers'[who + 1]) = 0
  BY <1>2, <1>5, NextTurnFacts DEF Ends
<1>19. answers'[who] = Append(answers[who], a) /\ \A k \in 1 .. who - 1 : answers'[k] = answers[k]
  BY <1>2, <1>5, NextTurnFacts DEF Ends
<1>7. /\ answers[who] \in Seq(Answer) /\ Len(answers[who]) = attempt - 1
      /\ \A i \in 1 .. attempt - 1 : answers[who][i] = "transient"
  <2>1. answers \in Seq(Seq(Answer)) /\ who \in 1 .. Len(answers)
    BY <1>2, <1>4 DEF IInv, TypeOK
  <2>2. /\ Len(answers[who]) = attempt - 1
        /\ \A i \in 1 .. Len(answers[who]) : answers[who][i] = "transient"
    BY <1>2 DEF IInv, Walking
  <2>. QED  BY <2>1, <2>2
<1>8. /\ Len(answers'[who]) = attempt /\ answers'[who][attempt] = a
      /\ \A i \in 1 .. attempt - 1 : answers'[who][i] = "transient"
  <2>1. a \in Answer
    BY DEF Answer
  <2>2. attempt \in Nat /\ answers'[who] = Append(answers[who], a)
    BY <1>1, <1>4, <1>19
  <2>3. Len(answers'[who]) = attempt
    BY <1>7, <2>1, <2>2
  <2>4. answers'[who][attempt] = a
    BY <1>7, <2>1, <2>2
  <2>5. \A i \in 1 .. attempt - 1 : answers'[who][i] = "transient"
    BY <1>7, <2>1, <2>2
  <2>. QED  BY <2>3, <2>4, <2>5
<1>9. Spent(answers'[who])
  BY <1>1, <1>4, <1>8 DEF Spent
<1>10. FallbackIsLastResort'
  <2>1. \A k \in 1 .. who - 1 : Usable(k) => Spent(answers'[k])
    BY <1>19 DEF IInv, FallbackIsLastResort
  <2>2. \A k \in 1 .. who : Usable(k)' => Spent(answers'[k])
    BY <1>2, <1>9, <2>1, UsableFrame
  <2>. QED  BY <1>1, <1>2, <1>3, <1>18, <2>2 DEF FallbackIsLastResort
<1>11. DEFINE entry == [at |-> who, provider |-> Order[who], error |-> e]
<1>20. failures \in Seq([at : Nat, provider : Provider, error : Error])
  BY DEF IInv, TypeOK
<1>21. entry \in [at : Nat, provider : Provider, error : Error]
  BY <1>2, OrderType
<1>22. entry.at = who /\ entry.provider = Order[who] /\ entry.error = e
  OBVIOUS
<1>23. failures' = Append(failures, entry)
  BY <1>3
<1> HIDE DEF entry
<1>12. /\ failures' \in Seq([at : Nat, provider : Provider, error : Error])
       /\ Len(failures') = Len(failures) + 1 /\ Len(failures) \in Nat
       /\ failures'[Len(failures) + 1] = entry
       /\ \A i \in 1 .. Len(failures) : failures'[i] = failures[i]
  BY <1>20, <1>21, <1>23
<1>13. TypeOK'
  <2>1. who' \in 1 .. Len(Order) + 1 /\ attempt' \in 1 .. MaxAttempts
    BY <1>1, <1>2, <1>3, <1>4
  <2>. QED  BY <1>2, <1>3, <1>6, <1>12, <2>1 DEF IInv, TypeOK, counts
<1>14. Explains(failures, who, answers, UsableSet)'
  <2>1. Explains(failures, who, answers, UsableSet) /\ who \in Nat
    BY <1>2, <1>4 DEF IInv, Walking
  <2>2. UsableSet \in SUBSET (Nat \ {0}) /\ who \in UsableSet
    BY <1>2, <1>4 DEF UsableSet
  <2>3. Fair(entry, who + 1, answers', UsableSet)
    BY <1>8, <1>9, <1>22, <2>1, <2>2 DEF Fair
  <2>4. Explains(failures', who + 1, answers', UsableSet)
    BY <1>12, <1>19, <1>22, <2>1, <2>2, <2>3, ExplainsGrows
  <2>. QED  BY <1>2, <1>3, <2>4, UsableFrame
<1>15. Walking'
  BY <1>3, <1>14, <1>18 DEF Walking
<1>16. Repairing' /\ outcome' = NoOutcome
  BY <1>2, <1>3 DEF IInv, Repairing
<1>. QED  BY <1>2, <1>10, <1>13, <1>15, <1>16, NothingClaimed DEF IInv

LEMMA GiveUpInv == ASSUME IInv, NEW t \in Durations, GiveUp(t) PROVE IInv'
<1>1. attempt = MaxAttempts /\ Ask(t) /\ Ends("transient") /\ NextProvider("RetriesExhausted")
  BY DEF GiveUp, Ends
<1>. QED  BY <1>1, TurnOverInv DEF Error

LEMMA RefusedInv == ASSUME IInv, NEW t \in Durations, Refused(t) PROVE IInv'
<1>1. Ask(t) /\ Ends("permanent") /\ NextProvider("PermanentError")
  BY DEF Refused, Ends
<1>. QED  BY <1>1, TurnOverInv DEF Error

LEMMA SkipInv == ASSUME IInv, Skip PROVE IInv'
<1> USE DEF Skip, clock, counts
<1>1. MaxAttempts \in Nat \ {0} /\ Len(Order) \in Nat /\ who \in 1 .. Len(Order)
  BY RouterAssumption, OrderType DEF IInv, TypeOK
<1>2. answers \in Seq(Seq(Answer)) /\ Len(answers) = who /\ answers' = Append(answers, <<>>)
  BY DEF IInv, TypeOK
<1>3. answers' \in Seq(Seq(Answer)) /\ Len(answers') = who + 1
  BY <1>2, NextTurnFacts
<1>4. Len(answers'[who + 1]) = 0
  BY <1>2, NextTurnFacts
<1>5. \A k \in 1 .. who : answers'[k] = answers[k]
  BY <1>2, NextTurnFacts
<1>6. who' = who + 1 /\ who' \in 1 .. Len(Order) + 1
  BY <1>1
<1> HIDE DEF Skip
<1>7. /\ UNCHANGED <<registered, stage, round, attempt, failures, calls, served, outcome,
                     waited, elapsed, since, fresh, gap, requests, routers>>
      /\ stage = "call" /\ ~ Usable(who)
  BY DEF Skip
<1>8. TypeOK'
  BY <1>3, <1>6, <1>7 DEF IInv, TypeOK
<1>9. FallbackIsLastResort'
  <2>1. \A k \in 1 .. who : Usable(k) => Spent(answers'[k])
    BY <1>1, <1>5, <1>7 DEF IInv, FallbackIsLastResort
  <2>2. \A k \in 1 .. who : Usable(k)' => Spent(answers'[k])
    BY <1>7, <2>1, UsableFrame
  <2>. QED  BY <1>1, <1>4, <1>6, <2>2 DEF FallbackIsLastResort
<1>10. attempt = 1
  BY <1>7 DEF IInv, Walking, UsableSet
<1>11. Explains(failures, who, answers, UsableSet)'
  <2>1. Explains(failures, who, answers, UsableSet)
    BY <1>7 DEF IInv, Walking
  <2>2. who \notin UsableSet
    BY <1>7 DEF UsableSet
  <2>3. \A k \in UsableSet : k \in Nat /\ k > 0
    BY <1>1 DEF UsableSet
  <2>4. \A k \in UsableSet : k < who + 1 => k \in 1 .. who - 1
    BY <1>1, <2>2, <2>3
  <2>5. \A i \in 1 .. Len(failures) : Fair(failures[i], who + 1, answers', UsableSet)
    <3>1. \A i \in 1 .. Len(failures) : Fair(failures[i], who, answers, UsableSet)
      BY <2>1 DEF Explains
    <3>. QED  BY <1>1, <1>5, <2>3, <2>4, <3>1 DEF Fair
  <2>6. \A k \in UsableSet : k < who + 1 => \E i \in 1 .. Len(failures) : failures[i].at = k
    BY <1>1, <2>1, <2>4 DEF Explains
  <2>7. Explains(failures, who + 1, answers', UsableSet)
    BY <2>1, <2>5, <2>6 DEF Explains
  <2>. QED  BY <1>6, <1>7, <2>7, UsableFrame
<1>12. Walking'
  BY <1>4, <1>6, <1>7, <1>10, <1>11 DEF Walking
<1>13. Repairing' /\ OneClock' /\ CallsArePaced' /\ outcome' = NoOutcome
  BY <1>7 DEF IInv, Repairing, OneClock, CallsArePaced
<1>. QED  BY <1>8, <1>9, <1>12, <1>13, NothingClaimed DEF IInv

LEMMA AllFailedInv == ASSUME IInv, AllFailed PROVE IInv'
<1>1. /\ UNCHANGED <<registered, round, who, attempt, failures, answers, calls, served,
                     waited, elapsed, since, fresh, gap, requests, routers>>
      /\ stage = "call" /\ who > Len(Order) /\ stage' = "idle"
      /\ outcome' = IF failures = <<>> THEN [NoOutcome EXCEPT !.kind = "no_usable_provider"]
                    ELSE [NoOutcome EXCEPT !.kind = "all_failed", !.failures = failures]
  BY DEF AllFailed, clock, counts
<1>2. who = Len(Order) + 1 /\ Len(Order) \in Nat
  <2>1. who \in 1 .. Len(Order) + 1
    BY DEF IInv, TypeOK
  <2>. QED  BY <1>1, <2>1, OrderType
<1>3. outcome' \in [kind : Outcomes, calls : Nat, repairs : Nat, provider : Provider \cup {"none"},
                    failures : Seq([at : Nat, provider : Provider, error : Error])]
  <2>1. failures \in Seq([at : Nat, provider : Provider, error : Error])
    BY DEF IInv, TypeOK
  <2>. QED  BY <1>1, <2>1, NoOutcomeType DEF Outcomes
<1>4. TypeOK'
  BY <1>1, <1>3 DEF IInv, TypeOK
<1>5. FallbackIsLastResort'
  BY <1>1, UsableFrame DEF IInv, FallbackIsLastResort
<1>6. outcome'.kind = "all_failed" => outcome'.failures = failures
  BY <1>1 DEF NoOutcome
<1>7. FailuresExplain'
  <2>1. Explains(failures, Len(Order) + 1, answers, UsableSet)
    BY <1>1, <1>2 DEF IInv, Walking
  <2>2. \A k \in 1 .. Len(Order) : Usable(k) => k \in UsableSet /\ k < Len(Order) + 1
    BY <1>2 DEF UsableSet
  <2>3. \A k \in 1 .. Len(Order) : Usable(k)' => \E i \in 1 .. Len(failures) : failures[i].at = k
    BY <1>1, <2>1, <2>2, UsableFrame DEF Explains
  <2>4. \A i \in 1 .. Len(failures) :
          LET k == failures[i].at IN
          /\ k \in 1 .. Len(Order) /\ Usable(k)' /\ failures[i].provider = Order[k]
          /\ Spent(answers[k])
          /\ failures[i].error = "PermanentError" <=> answers[k][Len(answers[k])] = "permanent"
    BY <1>1, <2>1, UsableFrame DEF Explains, Fair, UsableSet
  <2>5. \A i, j \in 1 .. Len(failures) : i < j => failures[i].at < failures[j].at
    BY <2>1 DEF Explains
  <2>. QED  BY <1>1, <1>6, <2>3, <2>4, <2>5 DEF FailuresExplain
<1>8. outcome'.kind \in {"all_failed", "no_usable_provider"}
  BY <1>1 DEF NoOutcome
<1>9. Walking' /\ Repairing' /\ CostIsHonest' /\ OutputErrorIsTheModels'
  BY <1>1, <1>8 DEF Walking, Repairing, CostIsHonest, OutputErrorIsTheModels
<1>10. OneClock' /\ CallsArePaced'
  BY <1>1 DEF IInv, OneClock, CallsArePaced
<1>. QED  BY <1>4, <1>5, <1>7, <1>9, <1>10 DEF IInv

LEMMA StutterInv == ASSUME IInv, UNCHANGED vars PROVE IInv'
<1> USE DEF vars, trace, clock, counts
<1>1. TypeOK'
  BY DEF IInv, TypeOK
<1>2. FallbackIsLastResort' /\ FailuresExplain'
  BY UsableFrame DEF IInv, FallbackIsLastResort, FailuresExplain
<1>3. Walking'
  BY UsableFrame DEF IInv, Walking
<1>4. Repairing' /\ CostIsHonest' /\ OutputErrorIsTheModels' /\ OneClock' /\ CallsArePaced'
  BY DEF IInv, Repairing, CostIsHonest, OutputErrorIsTheModels, OneClock, CallsArePaced
<1>. QED  BY <1>1, <1>2, <1>3, <1>4 DEF IInv

LEMMA NextInv == IInv /\ [Next]_vars => IInv'
<1> SUFFICES ASSUME IInv, [Next]_vars PROVE IInv'
  OBVIOUS
<1>1. CASE Generate
  BY <1>1, GenerateInv
<1>2. CASE Skip
  BY <1>2, SkipInv
<1>3. CASE AllFailed
  BY <1>3, AllFailedInv
<1>4. ASSUME NEW t \in Durations, Parsed(t) PROVE IInv'
  BY <1>4, ParsedInv
<1>5. ASSUME NEW t \in Durations, Repair(t) PROVE IInv'
  BY <1>5, RepairInv
<1>6. ASSUME NEW t \in Durations, OutputError(t) PROVE IInv'
  BY <1>6, OutputErrorInv
<1>7. ASSUME NEW t \in Durations, GiveUp(t) PROVE IInv'
  BY <1>7, GiveUpInv
<1>8. ASSUME NEW t \in Durations, Refused(t) PROVE IInv'
  BY <1>8, RefusedInv
<1>9. ASSUME NEW t \in Durations, NEW hint \in Hints \cup {NoHint}, Retry(t, hint) PROVE IInv'
  BY <1>9, RetryInv
<1>10. ASSUME NEW t \in Durations, Complete(t) PROVE IInv'
  BY <1>10, CompleteInv
<1>11. ASSUME NEW t \in Durations, NewRouter(t) PROVE IInv'
  BY <1>11, NewRouterInv
<1>12. CASE UNCHANGED vars
  BY <1>12, StutterInv
<1>. QED  BY <1>1, <1>2, <1>3, <1>4, <1>5, <1>6, <1>7, <1>8, <1>9, <1>10, <1>11, <1>12
          DEF Next, Proceed

-----------------------------------------------------------------------------
\* Waiting. A turn on one provider, and a walk down the chain, cost at most:
Longest == Greatest(MaxDelay, MaxRetryAfter)
Turn == (MaxAttempts - 1) * Longest
Walk(usable) == Cardinality(usable) * Turn

Tried(usable, n) == Cardinality({k \in usable : k < n})

\* The walks behind, the turns of this walk, the retries of this turn.
SoFar == round * Walk(UsableSet) + Tried(UsableSet, who) * Turn + (attempt - 1) * Longest

WaitInv ==
  /\ stage = "idle" => waited <= (MaxRepairs + 1) * Walk(UsableSet)
  /\ stage = "generate" => waited <= round * Walk(UsableSet)
  /\ stage = "call" => waited <= SoFar

LEMMA Products ==
  ASSUME NEW a \in Nat, NEW b \in Nat, NEW c \in Nat
  PROVE  /\ a * b \in Nat /\ (a + 1) * b = a * b + b
         /\ a <= c => a * b <= c * b
         /\ (a * b) * c = a * (b * c)
<1>1. a * b \in Nat /\ (a + 1) * b = a * b + b
  OBVIOUS
<1>2. a <= c => a * b <= c * b
  OBVIOUS
<1>3. (a * b) * c = a * (b * c)
  OBVIOUS
<1>. QED  BY <1>1, <1>2, <1>3

LEMMA WalkTypes ==
  /\ Longest \in Nat /\ MaxAttempts - 1 \in Nat /\ Turn \in Nat
  /\ IsFiniteSet(UsableSet) /\ Cardinality(UsableSet) \in Nat /\ Walk(UsableSet) \in Nat
<1>1. Longest \in Nat /\ MaxAttempts - 1 \in Nat
  BY RouterAssumption DEF Longest, Greatest
<1>2. Turn \in Nat
  BY <1>1, Products DEF Turn
<1>3. UsableSet \in SUBSET (1 .. Len(Order)) /\ IsFiniteSet(1 .. Len(Order))
  BY OrderType, FS_Interval DEF UsableSet
<1>4. IsFiniteSet(UsableSet) /\ Cardinality(UsableSet) \in Nat
  BY <1>3, FS_Subset, FS_CardinalityType
<1>. QED  BY <1>1, <1>2, <1>4, Products DEF Walk

LEMMA TriedFacts ==
  ASSUME NEW n \in Nat
  PROVE  /\ Tried(UsableSet, n) \in Nat
         /\ Tried(UsableSet, n) <= Cardinality(UsableSet)
         /\ n \in UsableSet => /\ Tried(UsableSet, n + 1) = Tried(UsableSet, n) + 1
                               /\ Tried(UsableSet, n) + 1 <= Cardinality(UsableSet)
         /\ n \notin UsableSet => Tried(UsableSet, n + 1) = Tried(UsableSet, n)
         /\ Tried(UsableSet, 1) = 0
<1>. DEFINE Below(m) == {k \in UsableSet : k < m}
<1>1. UsableSet \subseteq Nat \ {0} /\ IsFiniteSet(UsableSet) /\ Cardinality(UsableSet) \in Nat
  BY WalkTypes, OrderType DEF UsableSet
<1>1a. \A k \in UsableSet : k \in Nat /\ k >= 1
  BY OrderType DEF UsableSet
<1>2. ASSUME NEW m \in Nat
      PROVE  /\ IsFiniteSet(Below(m)) /\ Cardinality(Below(m)) \in Nat
             /\ Cardinality(Below(m)) <= Cardinality(UsableSet)
  BY <1>1, FS_Subset, FS_CardinalityType, Below(m) \subseteq UsableSet
<1>3. ASSUME n \in UsableSet
      PROVE  Cardinality(Below(n + 1)) = Cardinality(Below(n)) + 1
  <2>1. Below(n + 1) = Below(n) \cup {n} /\ n \notin Below(n)
    <3>1. \A k \in UsableSet : k < n + 1 <=> (k < n \/ k = n)
      BY <1>1a
    <3>2. \A k : k \in Below(n + 1) <=> (k \in Below(n) \/ k = n)
      BY <1>3, <3>1
    <3>. QED  BY <3>2
  <2>2. IsFiniteSet(Below(n))
    BY <1>2
  <2>3. ASSUME NEW S, IsFiniteSet(S), n \notin S
        PROVE  Cardinality(S \cup {n}) = Cardinality(S) + 1
    BY <2>3, FS_AddElement
  <2>4. Cardinality(Below(n) \cup {n}) = Cardinality(Below(n)) + 1
    BY <2>1, <2>2, <2>3
  <2>. QED  BY <2>1, <2>4, Zenon
<1>4. ASSUME n \notin UsableSet
      PROVE  Below(n + 1) = Below(n)
  <2>1. \A k \in UsableSet : k < n + 1 <=> k < n
    BY <1>1a, <1>4
  <2>. QED  BY <2>1
<1>5. Below(1) = {}
  <2>1. \A k \in UsableSet : ~ (k < 1)
    BY <1>1a
  <2>. QED  BY <2>1
<1>6. Cardinality(Below(1)) = 0
  BY <1>5, FS_EmptySet
<1>7. n + 1 \in Nat
  OBVIOUS
<1>. HIDE DEF Below
<1>8. n \in UsableSet => Cardinality(Below(n)) + 1 <= Cardinality(UsableSet)
  BY <1>2, <1>3, <1>7
<1>9. \A m : Tried(UsableSet, m) = Cardinality(Below(m))
  BY DEF Tried, Below
<1>. QED  BY <1>2, <1>3, <1>4, <1>6, <1>8, <1>9

LEMMA DelaysAreShort ==
  ASSUME NEW n \in 1 .. MaxAttempts, NEW hint \in Hints \cup {NoHint}, NEW d \in Delays(n, hint)
  PROVE  d <= Longest
<1>1. MaxRetryAfter \in Nat /\ MaxDelay \in Nat /\ BaseDelay \in Nat
  BY RouterAssumption
<1>2. CASE hint # NoHint
  <2>1. hint \in Int
    BY <1>2, RouterAssumption
  <2>. QED  BY <1>1, <1>2, <2>1 DEF Delays, Longest, Least, Greatest
<1>3. CASE hint = NoHint
  <2>1. BaseDelay * 2 ^ (n - 1) \in Nat
    <3>1. 2 ^ (n - 1) \in Nat
      BY RouterAssumption, PowerType, n - 1 \in Nat
    <3>. QED  BY <1>1, <3>1
  <2>2. Least(BaseDelay * 2 ^ (n - 1), MaxDelay) <= MaxDelay
    BY <1>1, <2>1 DEF Least
  <2>3. Longest \in Nat /\ MaxDelay <= Longest /\ 0 <= Longest
    BY <1>1 DEF Longest, Greatest
  <2>4. d = 0 \/ d = Least(BaseDelay * 2 ^ (n - 1), MaxDelay)
    BY <1>3 DEF Delays
  <2>. HIDE DEF Least
  <2>5. Least(BaseDelay * 2 ^ (n - 1), MaxDelay) \in Nat
    BY <1>1, <2>1 DEF Least
  <2>. QED  BY <1>1, <2>2, <2>3, <2>4, <2>5
<1>. QED  BY <1>2, <1>3

\* While somebody is being asked: the turn will cost at most Turn, and the walk
\* at most Walk.
LEMMA TurnIsBounded ==
  ASSUME IInv, WaitInv, stage = "call", who \in UsableSet
  PROVE  /\ waited <= round * Walk(UsableSet) + Tried(UsableSet, who + 1) * Turn
         /\ waited <= (round + 1) * Walk(UsableSet)
         /\ round + 1 <= MaxRepairs + 1 /\ round \in Nat /\ waited \in Nat
<1>. DEFINE W == Walk(UsableSet)
            T == Tried(UsableSet, who)
<1>1. /\ who \in Nat /\ attempt - 1 \in Nat /\ attempt - 1 <= MaxAttempts - 1
      /\ round \in Nat /\ round <= MaxRepairs /\ waited \in Nat
  BY RouterAssumption, OrderType DEF IInv, TypeOK
<1>2. /\ W \in Nat /\ Turn \in Nat /\ Longest \in Nat /\ T \in Nat
      /\ Tried(UsableSet, who + 1) = T + 1 /\ T + 1 <= Cardinality(UsableSet)
      /\ Cardinality(UsableSet) \in Nat /\ MaxAttempts - 1 \in Nat
  BY <1>1, WalkTypes, TriedFacts
<1>3. (attempt - 1) * Longest \in Nat /\ (attempt - 1) * Longest <= Turn
  BY <1>1, <1>2, Products DEF Turn
<1>4. (T + 1) * Turn = T * Turn + Turn /\ T * Turn \in Nat /\ (T + 1) * Turn <= W
  BY <1>2, Products, T + 1 \in Nat DEF Walk
<1>5. (round + 1) * W = round * W + W /\ round * W \in Nat
  BY <1>1, <1>2, Products
<1>6. waited <= round * W + T * Turn + (attempt - 1) * Longest
  BY DEF WaitInv, SoFar
<1>. HIDE DEF W, T
<1>7. waited <= round * W + (T + 1) * Turn
  BY <1>1, <1>2, <1>3, <1>4, <1>5, <1>6
<1>8. waited <= (round + 1) * W
  BY <1>1, <1>2, <1>4, <1>5, <1>7
<1>. QED  BY <1>1, <1>2, <1>7, <1>8, RouterAssumption DEF W

LEMMA WaitStep == IInv /\ WaitInv /\ [Next]_vars => WaitInv'
<1>. SUFFICES ASSUME IInv, WaitInv, [Next]_vars PROVE WaitInv'
  OBVIOUS
<1>. DEFINE W == Walk(UsableSet)
<1>a. /\ W \in Nat /\ Turn \in Nat /\ Longest \in Nat
      /\ MaxRepairs \in Nat /\ round \in 0 .. MaxRepairs /\ waited \in Nat
      /\ who \in Nat /\ attempt \in 1 .. MaxAttempts
  BY WalkTypes, RouterAssumption, OrderType DEF IInv, TypeOK
<1>b. /\ round * W \in Nat /\ (MaxRepairs + 1) * W \in Nat
      /\ (round + 1) * W <= (MaxRepairs + 1) * W /\ round * W <= (MaxRepairs + 1) * W
  <2>1. round \in Nat /\ round + 1 \in Nat /\ MaxRepairs + 1 \in Nat
    BY <1>a
  <2>. QED  BY <1>a, <2>1, Products
<1>. HIDE DEF W
<1>c. registered' = registered => UsableSet' = UsableSet
  BY DEF UsableSet, Usable
<1>1. ASSUME NEW t \in Durations, Complete(t) PROVE WaitInv'
  <2>1. stage' = "generate" /\ round' = 0 /\ waited' = 0 /\ registered' = registered
    BY <1>1 DEF Complete
  <2>2. 0 * Walk(UsableSet) = 0
    BY <1>a DEF W
  <2>. QED  BY <1>c, <2>1, <2>2 DEF WaitInv
<1>2. ASSUME NEW t \in Durations, NewRouter(t) PROVE WaitInv'
  <2>1. stage' = "idle" /\ waited' = 0
    BY <1>2 DEF NewRouter
  <2>2. Walk(UsableSet') \in Nat
    <3>1. UsableSet' \in SUBSET (1 .. Len(Order)) /\ IsFiniteSet(1 .. Len(Order))
      BY OrderType, FS_Interval DEF UsableSet
    <3>2. Cardinality(UsableSet') \in Nat
      BY <3>1, FS_Subset, FS_CardinalityType
    <3>. QED  BY <1>a, <3>2, Products DEF Walk
  <2>3. (MaxRepairs + 1) * Walk(UsableSet') \in Nat
    BY <1>a, <2>2, Products, MaxRepairs + 1 \in Nat
  <2>. QED  BY <2>1, <2>3 DEF WaitInv
<1>3. ASSUME Generate PROVE WaitInv'
  <2>1. /\ stage = "generate" /\ stage' = "call" /\ who' = 1 /\ attempt' = 1
        /\ round' = round /\ waited' = waited /\ registered' = registered
    BY <1>3 DEF Generate, clock
  <2>2. Tried(UsableSet, 1) = 0 /\ 0 * Turn = 0 /\ (1 - 1) * Longest = 0
    BY <1>a, TriedFacts
  <2>3. waited <= round * W
    BY <2>1 DEF WaitInv, W
  <2>4. round' * Walk(UsableSet') + Tried(UsableSet', who') * Turn + (attempt' - 1) * Longest = round * W
    BY <1>a, <1>b, <1>c, <2>1, <2>2 DEF W
  <2>. QED  BY <2>1, <2>3, <2>4 DEF WaitInv, SoFar
<1>4. ASSUME NEW t \in Durations, NEW hint \in Hints \cup {NoHint}, Retry(t, hint) PROVE WaitInv'
  <2>1. PICK d \in Delays(attempt, hint) : Ask(t + d) /\ waited' = waited + d
    BY <1>4 DEF Retry
  <2>2. /\ stage = "call" /\ stage' = "call" /\ who' = who /\ attempt' = attempt + 1
        /\ round' = round /\ registered' = registered
    BY <1>4, <2>1 DEF Retry, Ask
  <2>3. d \in Nat /\ d <= Longest
    BY <1>a, DelaysType, DelaysAreShort
  <2>4. (attempt' - 1) * Longest = (attempt - 1) * Longest + Longest
    <3>1. attempt - 1 \in Nat /\ attempt' - 1 = (attempt - 1) + 1
      BY <1>a, <2>2
    <3>. QED  BY <1>a, <3>1, Products
  <2>5. waited <= round * W + Tried(UsableSet, who) * Turn + (attempt - 1) * Longest
    BY <2>2 DEF WaitInv, SoFar, W
  <2>6. Tried(UsableSet, who) * Turn \in Nat /\ (attempt - 1) * Longest \in Nat
    BY <1>a, TriedFacts, Products, attempt - 1 \in Nat
  <2>7. waited' <= round * W + Tried(UsableSet, who) * Turn + (attempt' - 1) * Longest
    BY <1>a, <1>b, <2>1, <2>3, <2>4, <2>5, <2>6
  <2>. QED  BY <1>c, <2>2, <2>7 DEF WaitInv, SoFar, W
<1>5. ASSUME NEW t \in Durations, Ask(t), stage' = "call",
             NextProvider("RetriesExhausted") \/ NextProvider("PermanentError")
      PROVE  WaitInv'
  <2>1. /\ stage = "call" /\ who \in UsableSet /\ who' = who + 1 /\ attempt' = 1
        /\ round' = round /\ waited' = waited /\ registered' = registered
    BY <1>5, <1>a, AskIsPaced, RouterAssumption DEF Ask, NextProvider, UsableSet, IInv
  <2>2. waited <= round * W + Tried(UsableSet, who + 1) * Turn
    BY <2>1, TurnIsBounded DEF W
  <2>3. (1 - 1) * Longest = 0 /\ Tried(UsableSet, who + 1) * Turn \in Nat
    BY <1>a, TriedFacts, Products, who + 1 \in Nat
  <2>. QED  BY <1>5, <1>a, <1>b, <1>c, <2>1, <2>2, <2>3 DEF WaitInv, SoFar, W
<1>6. ASSUME NEW t \in Durations, Repair(t) PROVE WaitInv'
  <2>1. /\ stage = "call" /\ who \in UsableSet /\ stage' = "generate"
        /\ round' = round + 1 /\ waited' = waited /\ registered' = registered
    BY <1>6, AskIsPaced, RouterAssumption DEF Repair, UsableSet, IInv
  <2>. QED  BY <1>c, <2>1, TurnIsBounded DEF WaitInv
<1>7. ASSUME NEW t \in Durations, Parsed(t) \/ OutputError(t) PROVE WaitInv'
  <2>1. /\ stage = "call" /\ who \in UsableSet /\ stage' = "idle"
        /\ waited' = waited /\ registered' = registered
    BY <1>7, AskIsPaced, RouterAssumption DEF Parsed, OutputError, UsableSet, IInv
  <2>2. waited <= (round + 1) * W
    BY <2>1, TurnIsBounded DEF W
  <2>3. waited <= (MaxRepairs + 1) * W
    BY <1>a, <1>b, <2>2, (round + 1) * W \in Nat, Products
  <2>. QED  BY <1>c, <2>1, <2>3 DEF WaitInv, W
<1>8. ASSUME Skip PROVE WaitInv'
  <2>1. /\ stage = "call" /\ stage' = "call" /\ who \notin UsableSet /\ who' = who + 1
        /\ attempt' = attempt /\ round' = round /\ waited' = waited /\ registered' = registered
    BY <1>8 DEF Skip, UsableSet, clock
  <2>2. Tried(UsableSet, who + 1) = Tried(UsableSet, who)
    BY <1>a, <2>1, TriedFacts
  <2>. QED  BY <1>c, <2>1, <2>2 DEF WaitInv, SoFar
<1>9. ASSUME AllFailed PROVE WaitInv'
  <2>1. /\ stage = "call" /\ who > Len(Order) /\ stage' = "idle"
        /\ waited' = waited /\ registered' = registered
    BY <1>9 DEF AllFailed, clock
  <2>2. who \notin UsableSet
    BY <1>a, <2>1, OrderType DEF UsableSet
  <2>3. attempt = 1
    BY <2>1, <2>2 DEF IInv, Walking
  <2>4. waited <= round * W + Tried(UsableSet, who) * Turn
    <3>1. (1 - 1) * Longest = 0 /\ Tried(UsableSet, who) * Turn \in Nat
      BY <1>a, TriedFacts, Products
    <3>. QED  BY <1>a, <1>b, <2>1, <2>3, <3>1 DEF WaitInv, SoFar, W
  <2>5. Tried(UsableSet, who) * Turn <= W
    BY <1>a, WalkTypes, TriedFacts, Products DEF W, Walk
  <2>6. (round + 1) * W = round * W + W
    BY <1>a, Products
  <2>7. Tried(UsableSet, who) * Turn \in Nat
    BY <1>a, TriedFacts, Products
  <2>8. waited <= (MaxRepairs + 1) * W
    BY <1>a, <1>b, <2>4, <2>5, <2>6, <2>7
  <2>. QED  BY <1>c, <2>1, <2>8 DEF WaitInv, W
<1>10. CASE UNCHANGED vars
  BY <1>10, <1>c DEF vars, clock, WaitInv, SoFar
<1>11. ASSUME NEW t \in Durations, GiveUp(t) \/ Refused(t) PROVE WaitInv'
  <2>1. Ask(t) /\ stage' = "call"
        /\ (NextProvider("RetriesExhausted") \/ NextProvider("PermanentError"))
    BY <1>11 DEF GiveUp, Refused, NextProvider, Ask
  <2>. QED  BY <1>5, <2>1
<1>. QED
  BY <1>1, <1>2, <1>3, <1>4, <1>6, <1>7, <1>8, <1>9, <1>10, <1>11 DEF Next, Proceed

-----------------------------------------------------------------------------
\* The inductive invariant holds in every reachable state.
THEOREM Invariant == Spec => []IInv
<1>1. Init => IInv
  BY InitInv
<1>2. IInv /\ [Next]_vars => IInv'
  BY NextInv
<1>. QED  BY <1>1, <1>2, PTL DEF Spec

\* The router's registers and traces keep their types, whatever the providers
\* answer (DefaultRouter.complete, _generate, call_with_backoff).
THEOREM TypeCorrect == Spec => []TypeOK
<1>1. IInv => TypeOK
  BY DEF IInv
<1>. QED  BY <1>1, Invariant, PTL

\* Nobody further down the chain is called while an earlier usable provider
\* could still have been (DefaultRouter._generate, call_with_backoff).
THEOREM LastResort == Spec => []FallbackIsLastResort
<1>1. IInv => FallbackIsLastResort
  BY DEF IInv
<1>. QED  BY <1>1, Invariant, PTL

\* AllProvidersFailed lists every usable provider, in order, with what ended its
\* turn, and nobody else (AllProvidersFailed.primary_error).
THEOREM FailuresAreComplete == Spec => []FailuresExplain
<1>1. IInv => FailuresExplain
  BY DEF IInv
<1>. QED  BY <1>1, Invariant, PTL

\* A CostRecord counts every completion the request took, rejected ones included
\* (DefaultRouter.complete).
THEOREM CostsAreHonest == Spec => []CostIsHonest
<1>1. IInv => CostIsHonest
  BY DEF IInv
<1>. QED  BY <1>1, Invariant, PTL

\* LLMOutputError is raised after max_repair_attempts + 1 rejected replies, never
\* for a provider's failure (DefaultRouter.complete).
THEOREM OutputErrors == Spec => []OutputErrorIsTheModels
<1>1. IInv => OutputErrorIsTheModels
  BY DEF IInv
<1>. QED  BY <1>1, Invariant, PTL

\* Any two calls of one router are min_interval_s apart (DefaultRouter._pace).
THEOREM Paced == Spec => []CallsArePaced
<1>1. IInv => CallsArePaced
  BY DEF IInv
<1>. QED  BY <1>1, Invariant, PTL

\* What one request can cost in waiting is bounded by its retry policy, whatever
\* the providers hint (BackoffPolicy.delay_for, call_with_backoff, _generate).
THEOREM WaitsAreBounded == Spec => []WaitIsBounded
<1>1. Init => WaitInv
  <2>. SUFFICES ASSUME Init PROVE WaitInv
    OBVIOUS
  <2>1. (MaxRepairs + 1) * Walk(UsableSet) \in Nat
    BY WalkTypes, RouterAssumption, Products, MaxRepairs + 1 \in Nat
  <2>. QED  BY <2>1 DEF Init, WaitInv
<1>2. IInv /\ WaitInv => WaitIsBounded
  <2>. SUFFICES ASSUME IInv, WaitInv PROVE WaitIsBounded
    OBVIOUS
  <2>. DEFINE W == Walk(UsableSet)
  <2>1. waited <= (MaxRepairs + 1) * W
    <3>1. /\ W \in Nat /\ round \in Nat /\ round <= MaxRepairs + 1
          /\ MaxRepairs + 1 \in Nat /\ who \in Nat /\ waited \in Nat
      BY WalkTypes, RouterAssumption, OrderType DEF IInv, TypeOK
    <3>2. round * W <= (MaxRepairs + 1) * W /\ round * W \in Nat /\ (MaxRepairs + 1) * W \in Nat
      BY <3>1, Products
    <3>3. CASE stage = "call" /\ who \in UsableSet
      <4>1. round + 1 \in Nat /\ round + 1 <= MaxRepairs + 1 /\ waited <= (round + 1) * W
        BY <3>1, <3>3, TurnIsBounded
      <4>2. (round + 1) * W <= (MaxRepairs + 1) * W /\ (round + 1) * W \in Nat
        BY <3>1, <4>1, Products
      <4>. HIDE DEF W
      <4>. QED  BY <3>1, <3>2, <4>1, <4>2
    <3>4. CASE stage = "call" /\ who \notin UsableSet
      <4>1. attempt = 1
        BY <3>4 DEF IInv, Walking
      <4>2. /\ Tried(UsableSet, who) * Turn <= W /\ Tried(UsableSet, who) * Turn \in Nat
            /\ (1 - 1) * Longest = 0
        BY <3>1, WalkTypes, TriedFacts, Products DEF Walk
      <4>3. waited <= round * W + Tried(UsableSet, who) * Turn
        BY <3>1, <3>2, <3>4, <4>1, <4>2 DEF WaitInv, SoFar
      <4>4. round \in 0 .. MaxRepairs /\ (round + 1) * W = round * W + W
        BY <3>1, Products DEF IInv, TypeOK
      <4>5. (round + 1) * W <= (MaxRepairs + 1) * W
        BY <3>1, <4>4, Products, round + 1 \in Nat, RouterAssumption
      <4>. HIDE DEF W
      <4>. QED  BY <3>1, <3>2, <4>2, <4>3, <4>4, <4>5
    <3>5. CASE stage # "call"
      <4>1. stage \in {"idle", "generate"}
        BY <3>5 DEF IInv, TypeOK
      <4>2. waited <= (MaxRepairs + 1) * W \/ waited <= round * W
        BY <4>1 DEF WaitInv
      <4>. HIDE DEF W
      <4>. QED  BY <3>1, <3>2, <4>2
    <3>. QED  BY <3>3, <3>4, <3>5
  <2>2. (MaxRepairs + 1) * W
          = ((MaxRepairs + 1) * Cardinality(UsableSet)) * (MaxAttempts - 1) * Longest
    <3>1. /\ MaxRepairs + 1 \in Nat /\ Cardinality(UsableSet) \in Nat
          /\ MaxAttempts - 1 \in Nat /\ Longest \in Nat
      BY WalkTypes, RouterAssumption
    <3>2. (MaxRepairs + 1) * W = ((MaxRepairs + 1) * Cardinality(UsableSet)) * Turn
      BY <3>1, WalkTypes, Products DEF Walk
    <3>3. \A p \in Nat : p * Turn = (p * (MaxAttempts - 1)) * Longest
      BY <3>1, Products DEF Turn
    <3>4. (MaxRepairs + 1) * Cardinality(UsableSet) \in Nat
      BY <3>1, Products
    <3>. QED  BY <3>2, <3>3, <3>4
  <2>. QED  BY <2>1, <2>2 DEF WaitIsBounded, Longest, UsableSet
<1>. QED  BY <1>1, <1>2, Invariant, WaitStep, PTL DEF Spec

=============================================================================
