------------------------------- MODULE Router -------------------------------
(***************************************************************************)
(* DefaultRouter.complete: the repair loop around the fallback chain around *)
(* call_with_backoff around one paced provider call. A router outlives its  *)
(* requests and keeps only the time of its last call; the harness builds a  *)
(* new one for every cell, from the environment of the day.                 *)
(***************************************************************************)
EXTENDS Integers, Sequences, FiniteSets

CONSTANTS
  Preferred,        \* spec.provider of the role's tier
  FallbackOrder,    \* RouterConfig.fallback_order
  Registries,       \* the sets of providers a router may be built with
  Modelled,         \* names _fallback_spec has a model for
  MaxAttempts,      \* BackoffPolicy.max_attempts
  BaseDelay, MaxDelay, MaxRetryAfter,   \* BackoffPolicy, in time units
  MaxRepairs,       \* RouterConfig.max_repair_attempts
  MinInterval,      \* RouterConfig.min_interval_s, in time units
  Hints,            \* the Retry-After values providers send
  NoHint,           \* exc.retry_after is None
  Durations,        \* how long a provider call, or the time between requests, may be
  MaxRequests,      \* bound on requests, so that TLC's state space is finite
  MaxRouters        \* bound on routers built, likewise

ASSUME RouterAssumption ==
  /\ Preferred \in STRING /\ FallbackOrder \in Seq(STRING)
  /\ MaxAttempts \in Nat \ {0}
  /\ BaseDelay \in Nat /\ MaxDelay \in Nat /\ MaxRetryAfter \in Nat
  /\ MaxRepairs \in Nat /\ MinInterval \in Nat
  /\ NoHint \notin Int /\ Hints \subseteq Int
  /\ Durations \subseteq Nat
  /\ MaxRequests \in Nat /\ MaxRouters \in Nat

VARIABLES
  registered, \* the names in self._providers
  stage,      \* where complete() is: "idle", "generate" or "call"
  round,      \* attempt of the repair loop
  who,        \* position in the fallback chain
  attempt,    \* attempt of call_with_backoff, from 1
  failures,   \* _generate's list of (provider, error)
  answers,    \* what each provider tried by this _generate has answered
  calls,      \* complete()'s own count of completions
  served,     \* the completions this request really received
  outcome,    \* what the last complete() returned or raised
  waited,     \* time this request spent in call_with_backoff's sleep
  elapsed,    \* time.monotonic() - _last_call_at, up to MinInterval
  since,      \* time since this process last called a provider, likewise
  fresh,      \* this router has called nobody yet
  gap,        \* the time before the last call, and whether it was a router's first
  requests, routers

trace == <<failures, answers, calls, served, outcome>>
clock == <<waited, elapsed, since, fresh, gap>>
counts == <<requests, routers>>
vars == <<registered, stage, round, who, attempt, trace, clock, counts>>

-----------------------------------------------------------------------------
Least(a, b) == IF a < b THEN a ELSE b
Greatest(a, b) == IF a < b THEN b ELSE a
UpToInterval(t) == Least(t, MinInterval)

\* _generate's order, and who in it can be called: registered, and with a model
\* of its own unless it is the preferred one, which comes first and only once.
Order == <<Preferred>> \o FallbackOrder

Usable(k) ==
  /\ Order[k] \in registered
  /\ k = 1 \/ (Order[k] # Preferred /\ Order[k] \in Modelled)

\* Mutant: the provider's hint is obeyed without the cap.
DelaysUncapped(n, hint) ==
  IF hint # NoHint THEN {Greatest(hint, 0)}
  ELSE {0, Least(BaseDelay * 2 ^ (n - 1), MaxDelay)}

\* BackoffPolicy.delay_for: a hint is obeyed up to the cap, otherwise full
\* jitter; the two ends stand for the draws in between.
Delays(n, hint) ==
  IF hint # NoHint THEN {Least(Greatest(hint, 0), MaxRetryAfter)}
  ELSE {0, Least(BaseDelay * 2 ^ (n - 1), MaxDelay)}

NoOutcome == [kind |-> "none", calls |-> 0, repairs |-> 0, provider |-> "none", failures |-> <<>>]

Init ==
  /\ registered \in Registries
  /\ stage = "idle" /\ round = 0 /\ who = 1 /\ attempt = 1
  /\ failures = <<>> /\ answers = << <<>> >> /\ outcome = NoOutcome
  /\ calls = 0 /\ served = <<>>
  /\ waited = 0 /\ elapsed = MinInterval /\ since = MinInterval
  /\ fresh = TRUE /\ gap = [time |-> MinInterval, first |-> TRUE]
  /\ requests = 0 /\ routers = 1

\* complete() is called, some time after the previous request.
Complete(t) ==
  /\ stage = "idle" /\ requests < MaxRequests
  /\ stage' = "generate" /\ round' = 0
  /\ calls' = 0 /\ served' = <<>> /\ outcome' = NoOutcome /\ waited' = 0
  /\ elapsed' = UpToInterval(elapsed + t) /\ since' = UpToInterval(since + t)
  /\ requests' = requests + 1
  /\ UNCHANGED <<registered, who, attempt, failures, answers, fresh, gap, routers>>

\* The next cell of the experiment: build_default_router, _last_call_at = 0.0.
NewRouter(t) ==
  /\ stage = "idle" /\ routers < MaxRouters
  /\ registered' \in Registries
  /\ round' = 0 /\ who' = 1 /\ attempt' = 1
  /\ failures' = <<>> /\ answers' = << <<>> >> /\ outcome' = NoOutcome
  /\ calls' = 0 /\ served' = <<>> /\ waited' = 0
  /\ fresh' = TRUE /\ elapsed' = MinInterval /\ since' = UpToInterval(since + t)
  /\ routers' = routers + 1
  /\ UNCHANGED <<stage, gap, requests>>

\* One round of the repair loop enters _generate.
Generate ==
  /\ stage = "generate"
  /\ stage' = "call" /\ who' = 1 /\ attempt' = 1
  /\ failures' = <<>> /\ answers' = << <<>> >>
  /\ UNCHANGED <<registered, round, calls, served, outcome, clock, counts>>

\* Mutant: only the first attempt on a provider is paced.
PauseOnce == IF attempt = 1 THEN Greatest(MinInterval - elapsed, 0) ELSE 0

\* _pace: how long operation() sleeps before it calls the provider.
Pause == Greatest(MinInterval - elapsed, 0)

Answered(answer) == [answers EXCEPT ![who] = Append(@, answer)]

\* operation(): pace, note the time, call the provider; `t` later, the sleep of
\* call_with_backoff included, the router acts on the answer.
Ask(t) ==
  /\ stage = "call" /\ who <= Len(Order) /\ Usable(who)
  /\ gap' = [time |-> UpToInterval(since + Pause), first |-> fresh]
  /\ fresh' = FALSE
  /\ elapsed' = UpToInterval(t) /\ since' = UpToInterval(t)
  /\ UNCHANGED <<registered, counts>>

\* Mutant: a reply that does not validate is not counted.
CompletedIfValid(valid) ==
  /\ calls' = IF valid THEN calls + 1 ELSE calls
  /\ served' = Append(served, [provider |-> Order[who], valid |-> valid])

Completed(valid) ==
  /\ calls' = calls + 1
  /\ served' = Append(served, [provider |-> Order[who], valid |-> valid])

\* The reply validates: complete() returns it with its CostRecord.
Parsed(t) ==
  /\ Ask(t) /\ Completed(TRUE) /\ answers' = Answered("valid")
  /\ stage' = "idle"
  /\ outcome' = [kind |-> "parsed", calls |-> calls', repairs |-> round,
                 provider |-> Order[who], failures |-> <<>>]
  /\ UNCHANGED <<round, who, attempt, failures, waited>>

\* The reply does not validate: show it to the model and ask again, from the
\* preferred provider down.
Repair(t) ==
  /\ Ask(t) /\ Completed(FALSE) /\ answers' = Answered("invalid")
  /\ round < MaxRepairs
  /\ stage' = "generate" /\ round' = round + 1
  /\ UNCHANGED <<who, attempt, failures, outcome, waited>>

\* The last repair attempt does not validate either.
OutputError(t) ==
  /\ Ask(t) /\ Completed(FALSE) /\ answers' = Answered("invalid")
  /\ round = MaxRepairs
  /\ stage' = "idle"
  /\ outcome' = [NoOutcome EXCEPT !.kind = "output_error"]
  /\ UNCHANGED <<round, who, attempt, failures, waited>>

\* Mutant: one attempt too many.
RetryOnceMore(t, hint) ==
  /\ attempt <= MaxAttempts
  /\ answers' = Answered("transient")
  /\ \E delay \in Delays(attempt, hint) : Ask(t + delay) /\ waited' = waited + delay
  /\ attempt' = attempt + 1
  /\ UNCHANGED <<stage, round, who, failures, calls, served, outcome>>

\* A transient failure with attempts left: sleep, then try again.
Retry(t, hint) ==
  /\ attempt < MaxAttempts
  /\ answers' = Answered("transient")
  /\ \E delay \in Delays(attempt, hint) : Ask(t + delay) /\ waited' = waited + delay
  /\ attempt' = attempt + 1
  /\ UNCHANGED <<stage, round, who, failures, calls, served, outcome>>

NextProvider(error) ==
  /\ failures' = Append(failures, [at |-> who, provider |-> Order[who], error |-> error])
  /\ who' = who + 1 /\ attempt' = 1
  /\ UNCHANGED <<stage, round, calls, served, outcome, waited>>

\* Mutant: the first transient failure already hands over to the fallback.
GiveUpAtOnce(t) ==
  /\ Ask(t) /\ answers' = Append(Answered("transient"), <<>>)
  /\ NextProvider("RetriesExhausted")

\* The last attempt fails too: RetriesExhausted, on to the next provider.
GiveUp(t) ==
  /\ attempt = MaxAttempts
  /\ Ask(t) /\ answers' = Append(Answered("transient"), <<>>)
  /\ NextProvider("RetriesExhausted")

\* PermanentError: no retry, on to the next provider.
Refused(t) ==
  /\ Ask(t) /\ answers' = Append(Answered("permanent"), <<>>)
  /\ NextProvider("PermanentError")

\* _generate passes over a name that cannot be called.
Skip ==
  /\ stage = "call" /\ who <= Len(Order) /\ ~ Usable(who)
  /\ who' = who + 1 /\ answers' = Append(answers, <<>>)
  /\ UNCHANGED <<registered, stage, round, attempt, failures, calls, served, outcome,
                 clock, counts>>

\* Mutant: the error of the last provider tried is the one reported.
AllFailedWithLast ==
  /\ stage = "call" /\ who > Len(Order)
  /\ stage' = "idle"
  /\ outcome' = IF failures = <<>> THEN [NoOutcome EXCEPT !.kind = "no_usable_provider"]
                ELSE [NoOutcome EXCEPT !.kind = "all_failed", !.failures = <<failures[Len(failures)]>>]
  /\ UNCHANGED <<registered, round, who, attempt, failures, answers, calls, served, clock, counts>>

\* Mutant: a walk that found nobody to call is tried again.
AllFailedAgain ==
  /\ stage = "call" /\ who > Len(Order)
  /\ stage' = IF failures = <<>> THEN "generate" ELSE "idle"
  /\ outcome' = IF failures = <<>> THEN outcome
                ELSE [NoOutcome EXCEPT !.kind = "all_failed", !.failures = failures]
  /\ UNCHANGED <<registered, round, who, attempt, failures, answers, calls, served, clock, counts>>

\* The chain is walked: AllProvidersFailed with every failure, or a
\* PermanentError if there was nobody to call.
AllFailed ==
  /\ stage = "call" /\ who > Len(Order)
  /\ stage' = "idle"
  /\ outcome' = IF failures = <<>> THEN [NoOutcome EXCEPT !.kind = "no_usable_provider"]
                ELSE [NoOutcome EXCEPT !.kind = "all_failed", !.failures = failures]
  /\ UNCHANGED <<registered, round, who, attempt, failures, answers, calls, served, clock, counts>>

Proceed ==
  \/ Generate \/ Skip \/ AllFailed
  \/ \E t \in Durations :
       \/ Parsed(t) \/ Repair(t) \/ OutputError(t) \/ GiveUp(t) \/ Refused(t)
       \/ \E hint \in Hints \cup {NoHint} : Retry(t, hint)

Next == Proceed \/ \E t \in Durations : Complete(t) \/ NewRouter(t)

Spec == Init /\ [][Next]_vars

\* complete() runs in one thread and every provider call ends, because the HTTP
\* clients have a timeout. Nothing obliges anyone to make another request.
FairSpec == Spec /\ WF_vars(Proceed)

-----------------------------------------------------------------------------
Answer == {"valid", "invalid", "transient", "permanent"}
Error == {"RetriesExhausted", "PermanentError"}
Provider == {Order[k] : k \in 1 .. Len(Order)}
Outcomes == {"none", "parsed", "output_error", "all_failed", "no_usable_provider"}

\* The router's registers and the request's traces have their types.
TypeOK ==
  /\ stage \in {"idle", "generate", "call"}
  /\ round \in 0 .. MaxRepairs
  /\ who \in 1 .. Len(Order) + 1
  /\ attempt \in 1 .. MaxAttempts
  /\ failures \in Seq([at : Nat, provider : Provider, error : Error])
  /\ answers \in Seq(Seq(Answer)) /\ Len(answers) = who
  /\ served \in Seq([provider : Provider, valid : BOOLEAN])
  /\ calls \in Nat /\ waited \in Nat
  /\ outcome \in [kind : Outcomes, calls : Nat, repairs : Nat, provider : Provider \cup {"none"},
                  failures : Seq([at : Nat, provider : Provider, error : Error])]
  /\ elapsed \in 0 .. MinInterval /\ since \in 0 .. MinInterval
  /\ fresh \in BOOLEAN /\ gap \in [time : 0 .. MinInterval, first : BOOLEAN]
  /\ requests \in 0 .. MaxRequests /\ routers \in Nat

\* A provider is spent once it refused for good or used every attempt.
Spent(s) ==
  /\ s # <<>>
  /\ \A i \in 1 .. Len(s) - 1 : s[i] = "transient"
  /\ \/ s[Len(s)] = "permanent"
     \/ s[Len(s)] = "transient" /\ Len(s) = MaxAttempts

\* "Each provider gets the full backoff budget before the next is tried":
\* whoever is asked, everyone before them in the chain is spent, and nobody is
\* asked more often than the budget or again after a definite answer.
FallbackIsLastResort ==
  /\ \A k \in 1 .. who - 1 : Usable(k) => Spent(answers[k])
  /\ Len(answers[who]) <= MaxAttempts
  /\ \A i \in 1 .. Len(answers[who]) - 1 : answers[who][i] = "transient"

\* AllProvidersFailed explains the run: every usable provider is in it and nobody
\* else, in the order of the chain, each with what ended its turn; so
\* primary_error is the preferred provider's whenever that one is registered.
FailuresExplain ==
  outcome.kind = "all_failed" =>
    LET told == outcome.failures IN
    /\ \A k \in 1 .. Len(Order) : Usable(k) => \E i \in 1 .. Len(told) : told[i].at = k
    /\ \A i \in 1 .. Len(told) :
         LET k == told[i].at IN
         /\ k \in 1 .. Len(Order) /\ Usable(k) /\ told[i].provider = Order[k]
         /\ Spent(answers[k])
         /\ told[i].error = "PermanentError" <=> answers[k][Len(answers[k])] = "permanent"
    /\ \A i, j \in 1 .. Len(told) : i < j => told[i].at < told[j].at

\* The CostRecord of a parsed reply covers every completion the request took,
\* whichever providers gave them and however often the chain was walked; only
\* the last of them validated and it is the one the record names.
CostIsHonest ==
  outcome.kind = "parsed" =>
    /\ outcome.calls = Len(served)
    /\ outcome.repairs = Cardinality({i \in 1 .. Len(served) : ~ served[i].valid})
    /\ served[Len(served)] = [provider |-> outcome.provider, valid |-> TRUE]

\* LLMOutputError blames the model and nobody else: it was given every repair
\* attempt, and each of its replies was rejected.
OutputErrorIsTheModels ==
  outcome.kind = "output_error" =>
    Len(served) = MaxRepairs + 1 /\ \A i \in 1 .. Len(served) : ~ served[i].valid

\* What one request may cost in waiting, hints of hours included: the bound an
\* episode's lease would have to cover.
WaitIsBounded ==
  waited <= (MaxRepairs + 1) * Cardinality({k \in 1 .. Len(Order) : Usable(k)}) * (MaxAttempts - 1)
              * Greatest(MaxDelay, MaxRetryAfter)

\* min_interval_s holds between any two calls of one router: across retries
\* whose jittered delay is near zero, fallbacks, repairs and requests. The first
\* call of a new router is not: it knows nothing of the last router's calls.
CallsArePaced == gap.first \/ gap.time >= MinInterval

\* Every request returns or raises, whatever the providers answer.
RequestsReturn == stage # "idle" ~> stage = "idle"
=============================================================================
