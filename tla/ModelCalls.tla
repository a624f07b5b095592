----------------------------- MODULE ModelCalls -----------------------------
(***************************************************************************)
(* How an LLM strategy gets its proposals: the strategy renders the stored  *)
(* history into a prompt, CachingRouter looks the prompt up in llm_calls,   *)
(* asks the router on a miss, records the reply and hands it on, and the    *)
(* loop stores what became of it. The router is what Router.tla says it is: *)
(* it returns a reply or raises. Processes may be killed between any two    *)
(* steps and start again from the two tables.                               *)
(***************************************************************************)
EXTENDS Integers, Sequences, FiniteSets, SequencesExt

CONSTANTS
  Workers,          \* processes that may run the same run_id
  Strategies,       \* the strategies a run may have: "planner", "single_shot"
  Good,             \* proposals the guard and the simulator accept
  Bad,              \* proposals the guard rejects, however they are shown
  NonFinite,        \* rejected proposals with a NaN, which JSON cannot carry
  Failed,           \* no proposal: propose() raised a ProviderError
  MaxPlan,          \* longest plan a single-shot reply may hold
  MaxRepairs,       \* RouterConfig.max_repair_attempts
  ShownRejections,  \* describe_history shows this many rejections
  MaxEvaluations, MaxRejections,
  MaxStarts         \* bound on process starts, so that TLC's state space is finite

ASSUME ModelCallsAssumption ==
  /\ MaxPlan \in Nat \ {0} /\ MaxRepairs \in Nat /\ ShownRejections \in Nat
  /\ MaxEvaluations \in Nat /\ MaxRejections \in Nat /\ MaxStarts \in Nat
  /\ Strategies \subseteq {"planner", "single_shot"}
  /\ IsFiniteSet(Workers)
  /\ NonFinite \subseteq Bad /\ Good \cap Bad = {} /\ Failed \notin Good \cup Bad

VARIABLES
  strategy,   \* the run's strategy
  llmCalls,   \* the llm_calls table: the stored reply of each call_key
  episodes,   \* the episodes table
  pc,         \* where each process is
  local,      \* the history each process works from
  reply,      \* the reply a process holds
  lastCost,   \* strategy.last_cost: the calls of its CostRecord
  paid,       \* completions this process received for the episode in progress
  hit,        \* whether the reply came from llm_calls
  asked,      \* every question the provider answered with a validated reply, in order
  ended,      \* why run_loop ended, once it did
  starts      \* how many processes took up the run

vars == <<strategy, llmCalls, episodes, pc, local, reply, lastCost, paid, hit,
          asked, ended, starts>>

-----------------------------------------------------------------------------
NoReply == <<>>
Unreadable == <<"unreadable">>

\* The episodes of h that were not evaluated, in order, and the number of those that were.
Rejections(h) ==
  LET R[n \in 0 .. Len(h)] ==
        IF n = 0 THEN <<>>
        ELSE IF h[n].proposal \in Good THEN R[n - 1] ELSE Append(R[n - 1], h[n])
  IN  R[Len(h)]
Evaluations(h) == Cardinality({i \in DOMAIN h : h[i].proposal \in Good})
Proposals(h) == [i \in DOMAIN h |-> h[i].proposal]

\* The last few of a sequence.
Recent(s) == SubSeq(s, IF Len(s) > ShownRejections THEN Len(s) - ShownRejections + 1 ELSE 1, Len(s))

\* Mutant: the prompt does not say how many evaluations were used.
KeyWithoutProgress(h) ==
  IF strategy = "single_shot" THEN <<"plan">>
  ELSE <<"next", Proposals(Recent(Rejections(h)))>>

\* call_key of the prompt rendered from h. A run's history only grows, so the
\* number of evaluations stands for everything shown about them; of the
\* rejections only the most recent are shown. The single-shot prompt shows
\* neither.
Key(h) ==
  IF strategy = "single_shot" THEN <<"plan">>
  ELSE <<"next", Evaluations(h), Proposals(Recent(Rejections(h)))>>

\* What a model may answer: one proposal, or a plan of several.
Replies ==
  IF strategy = "single_shot" THEN UNION {[1 .. n -> Good \cup Bad] : n \in 1 .. MaxPlan}
  ELSE [1 .. 1 -> Good \cup Bad]

\* Mutant: the index counts the evaluations, not the episodes.
PositionOfEvaluations(h) == IF strategy = "single_shot" THEN Evaluations(h) + 1 ELSE 1

\* Which proposal of the reply is next: max(idx) + 1 episodes are behind.
Position(h) == IF strategy = "single_shot" THEN Len(h) + 1 ELSE 1

\* model_dump_json writes a NaN as null, which the schema does not accept back.
Stored(r) == IF \E i \in DOMAIN r : r[i] \in NonFinite THEN Unreadable ELSE r

Finished(h) == Evaluations(h) >= MaxEvaluations \/ Len(Rejections(h)) >= MaxRejections

NoCalls == [k \in {} |-> NoReply]

Init ==
  /\ strategy \in Strategies
  /\ llmCalls = NoCalls /\ episodes = <<>>
  /\ pc = [w \in Workers |-> "idle"] /\ local = [w \in Workers |-> <<>>]
  /\ reply = [w \in Workers |-> NoReply] /\ hit = [w \in Workers |-> FALSE]
  /\ lastCost = [w \in Workers |-> 0] /\ paid = [w \in Workers |-> 0]
  /\ asked = <<>> /\ ended = "no" /\ starts = 0

Goto(w, from, to) == pc[w] = from /\ pc' = [pc EXCEPT ![w] = to]
Set(f, w, v) == [f EXCEPT ![w] = v]

\* A process takes up the run: a new strategy object, a new CachingRouter.
Start(w) ==
  /\ Goto(w, "idle", "head") /\ ended = "no" /\ starts < MaxStarts
  /\ local' = Set(local, w, episodes)
  /\ lastCost' = Set(lastCost, w, 0)
  /\ starts' = starts + 1
  /\ UNCHANGED <<strategy, llmCalls, episodes, reply, paid, hit, asked, ended>>

\* run_loop stops on one of its allowances.
Stop(w) ==
  /\ Goto(w, "head", "idle") /\ Finished(local[w])
  /\ ended' = IF Evaluations(local[w]) >= MaxEvaluations THEN "BUDGET" ELSE "REJECTIONS"
  /\ UNCHANGED <<strategy, llmCalls, episodes, local, reply, lastCost, paid, hit, asked, starts>>

\* CachingRouter.complete finds the prompt and the stored reply still parses.
Hit(w) ==
  /\ Goto(w, "head", "replied") /\ ~ Finished(local[w])
  /\ Key(local[w]) \in DOMAIN llmCalls
  /\ llmCalls[Key(local[w])] # Unreadable
  /\ reply' = Set(reply, w, llmCalls[Key(local[w])])
  /\ hit' = Set(hit, w, TRUE) /\ paid' = Set(paid, w, 0)
  /\ lastCost' = Set(lastCost, w, 0)
  /\ UNCHANGED <<strategy, llmCalls, episodes, local, asked, ended, starts>>

\* ... and when it does not, parse_into raises LLMOutputError.
HitUnreadable(w) ==
  /\ Goto(w, "head", "commit") /\ ~ Finished(local[w])
  /\ Key(local[w]) \in DOMAIN llmCalls
  /\ llmCalls[Key(local[w])] = Unreadable
  /\ reply' = Set(reply, w, NoReply)
  /\ hit' = Set(hit, w, TRUE) /\ paid' = Set(paid, w, 0)
  /\ UNCHANGED <<strategy, llmCalls, episodes, local, lastCost, asked, ended, starts>>

\* CachingRouter.complete does not find the prompt.
Miss(w) ==
  /\ Goto(w, "head", "asking") /\ ~ Finished(local[w])
  /\ Key(local[w]) \notin DOMAIN llmCalls
  /\ hit' = Set(hit, w, FALSE) /\ paid' = Set(paid, w, 0)
  /\ UNCHANGED <<strategy, llmCalls, episodes, local, reply, lastCost, asked, ended, starts>>

\* Mutant: the router repairs once more than it may.
AnswerRepairedOnceMore(w, repairs) ==
  /\ Goto(w, "asking", "record")
  /\ \E r \in Replies : reply' = Set(reply, w, r)
  /\ paid' = Set(paid, w, repairs + 2)
  /\ asked' = Append(asked, Key(local[w]))
  /\ UNCHANGED <<strategy, llmCalls, episodes, local, lastCost, hit, ended, starts>>

\* inner.complete returns, after `repairs` replies that did not validate.
Answer(w, repairs) ==
  /\ Goto(w, "asking", "record")
  /\ \E r \in Replies : reply' = Set(reply, w, r)
  /\ paid' = Set(paid, w, repairs + 1)
  /\ asked' = Append(asked, Key(local[w]))
  /\ UNCHANGED <<strategy, llmCalls, episodes, local, lastCost, hit, ended, starts>>

\* inner.complete raises: LLMOutputError after MaxRepairs + 1 completions, or
\* the providers failed after fewer. There is no CostRecord.
Fail(w, completions) ==
  /\ Goto(w, "asking", "commit")
  /\ reply' = Set(reply, w, NoReply)
  /\ paid' = Set(paid, w, completions)
  /\ UNCHANGED <<strategy, llmCalls, episodes, local, lastCost, hit, asked, ended, starts>>

\* Mutant: a call is only recorded when the guard will take its proposal.
RecordGoodOnly(w) ==
  /\ Goto(w, "record", "replied")
  /\ llmCalls' = IF Key(local[w]) \in DOMAIN llmCalls \/ reply[w][1] \notin Good THEN llmCalls
                 ELSE [k \in DOMAIN llmCalls \cup {Key(local[w])} |->
                         IF k \in DOMAIN llmCalls THEN llmCalls[k] ELSE Stored(reply[w])]
  /\ lastCost' = Set(lastCost, w, paid[w])
  /\ UNCHANGED <<strategy, episodes, local, reply, paid, hit, asked, ended, starts>>

\* record_llm_call, ON CONFLICT DO NOTHING; then complete() returns its own
\* result, and propose() sets last_cost.
Record(w) ==
  /\ Goto(w, "record", "replied")
  /\ llmCalls' = IF Key(local[w]) \in DOMAIN llmCalls THEN llmCalls
                 ELSE [k \in DOMAIN llmCalls \cup {Key(local[w])} |->
                         IF k \in DOMAIN llmCalls THEN llmCalls[k] ELSE Stored(reply[w])]
  /\ lastCost' = Set(lastCost, w, paid[w])
  /\ UNCHANGED <<strategy, episodes, local, reply, paid, hit, asked, ended, starts>>

\* SingleShotLLM: the plan has no proposal for this episode.
Exhausted(w) ==
  /\ Goto(w, "replied", "idle")
  /\ Position(local[w]) > Len(reply[w])
  /\ ended' = "EXHAUSTED"
  /\ UNCHANGED <<strategy, llmCalls, episodes, local, reply, lastCost, paid, hit, asked, starts>>

\* The proposal goes to the guard and the simulator.
Propose(w) ==
  /\ Goto(w, "replied", "commit")
  /\ Position(local[w]) <= Len(reply[w])
  /\ UNCHANGED <<strategy, llmCalls, episodes, local, reply, lastCost, paid, hit, asked,
                 ended, starts>>

\* The episode as run_loop builds it: its cost is strategy.last_cost.
EpisodeOf(w) ==
  [proposal |-> IF reply[w] = NoReply THEN Failed ELSE reply[w][Position(local[w])],
   cost |-> lastCost[w], paid |-> paid[w], hit |-> hit[w]]

\* append_episode and save_run.
Commit(w) ==
  /\ Goto(w, "commit", "head")
  /\ Len(local[w]) = Len(episodes)
  /\ episodes' = Append(episodes, EpisodeOf(w))
  /\ local' = Set(local, w, Append(local[w], EpisodeOf(w)))
  /\ reply' = Set(reply, w, NoReply)
  /\ UNCHANGED <<strategy, llmCalls, lastCost, paid, hit, asked, ended, starts>>

\* Another process stored this episode first.
Conflict(w) ==
  /\ Goto(w, "commit", "idle")
  /\ Len(local[w]) < Len(episodes)
  /\ reply' = Set(reply, w, NoReply)
  /\ UNCHANGED <<strategy, llmCalls, episodes, local, lastCost, paid, hit, asked, ended, starts>>

\* The process is killed; the tables stay.
Crash(w) ==
  /\ pc[w] # "idle"
  /\ pc' = [pc EXCEPT ![w] = "idle"]
  /\ local' = Set(local, w, <<>>)
  /\ reply' = Set(reply, w, NoReply)
  /\ lastCost' = Set(lastCost, w, 0) /\ paid' = Set(paid, w, 0) /\ hit' = Set(hit, w, FALSE)
  /\ UNCHANGED <<strategy, llmCalls, episodes, asked, ended, starts>>

Next ==
  \E w \in Workers :
    \/ Start(w) \/ Stop(w) \/ Hit(w) \/ HitUnreadable(w) \/ Miss(w) \/ Record(w)
    \/ Exhausted(w) \/ Propose(w) \/ Commit(w) \/ Conflict(w) \/ Crash(w)
    \/ \E repairs \in 0 .. MaxRepairs : Answer(w, repairs)
    \/ \E completions \in 0 .. MaxRepairs + 1 : Fail(w, completions)

Spec == Init /\ [][Next]_vars

-----------------------------------------------------------------------------
Proposal == Good \cup Bad \cup {Failed}
Episode == [proposal : Proposal, cost : 0 .. MaxRepairs + 1, paid : 0 .. MaxRepairs + 1,
            hit : BOOLEAN]

\* The tables and every process's memory have their types.
TypeOK ==
  /\ strategy \in Strategies
  /\ \A k \in DOMAIN llmCalls : llmCalls[k] \in Replies \cup {Unreadable}
  /\ episodes \in Seq(Episode)
  /\ pc \in [Workers -> {"idle", "head", "asking", "record", "replied", "commit"}]
  /\ local \in [Workers -> Seq(Episode)] /\ reply \in [Workers -> Replies \cup {NoReply}]
  /\ lastCost \in [Workers -> 0 .. MaxRepairs + 1] /\ paid \in [Workers -> 0 .. MaxRepairs + 1]
  /\ hit \in [Workers -> BOOLEAN]
  /\ ended \in {"no", "BUDGET", "REJECTIONS", "EXHAUSTED"}
  /\ starts \in 0 .. MaxStarts

Before(i) == SubSeq(episodes, 1, i - 1)

Times(k) == Cardinality({i \in DOMAIN asked : asked[i] = k})

\* The evidence behind every stored proposal survives: the prompt its history
\* renders to is in llm_calls, and the stored reply has the proposal. For a
\* replayed one that is so whoever else asked: nothing takes the place of a
\* reply on record, and one that cannot be read back (it had a NaN) never gives
\* a proposal again. A process that asked itself may have gone on with another
\* reply than the stored one: its own, where the stored one cannot be read or
\* another process asked the same question.
EvidenceSurvives ==
  \A i \in DOMAIN episodes :
    episodes[i].proposal # Failed =>
      LET k == Key(Before(i)) IN
      /\ k \in DOMAIN llmCalls
      /\ episodes[i].hit => llmCalls[k] # Unreadable
      /\ episodes[i].hit \/ (llmCalls[k] # Unreadable /\ Times(k) = 1) =>
           llmCalls[k][Position(Before(i))] = episodes[i].proposal

\* One question costs one answer: a prompt is answered with a validated reply at
\* most once for every start of a process, whatever fails, repeats or is
\* replayed, so an undisturbed SingleShotLLM makes "exactly one real provider
\* call" that succeeds. Completions that never validate are not counted: nothing
\* records them, and the next episode asks again.
AskedOnce == \A i \in DOMAIN asked : Times(asked[i]) <= starts

Uninterrupted == strategy = "planner" /\ starts = 1

\* Stateless as it is, SingleShotLLM serves the recorded plan from its first
\* proposal on, each once and in order, rejections, kills and resumes included,
\* and EXHAUSTED means it was served whole; provided only one call was answered
\* and none failed (a failure uses up an index: that proposal is never tried).
PlanServedInOrder ==
  LET k == <<"plan">> IN
  (/\ k \in DOMAIN llmCalls /\ llmCalls[k] # Unreadable /\ Times(k) = 1
   /\ \A i \in DOMAIN episodes : episodes[i].proposal # Failed) =>
    /\ IsPrefix(Proposals(episodes), llmCalls[k])
    /\ ended = "EXHAUSTED" => Proposals(episodes) = llmCalls[k]

\* Once the cache answers an undisturbed planner, it answers for good: unless a
\* call failed on the way, every later proposal is a replayed rejection, and the
\* run can only end on REJECTIONS.
LockInIsForGood ==
  (Uninterrupted /\ \A i \in DOMAIN episodes : episodes[i].proposal # Failed) =>
    \A i, j \in DOMAIN episodes :
      (episodes[i].hit /\ i <= j) => episodes[j].hit /\ episodes[j].proposal \in Bad

\* replay.py: the same prompt comes back "because history has not changed, or
\* because a run was resumed". (Violated: ReplayLockIn.)
HitMeansSameHistory ==
  Uninterrupted =>
    \A i \in DOMAIN episodes : episodes[i].hit => Key(Before(i)) \notin {Key(Before(j)) : j \in 1 .. i - 1}

\* What summarise_run counts an episode as: a model call that its cost says was
\* paid for, and a call that never validated (an LLMOutputError: of the model,
\* or of a stored reply that does not parse).
IsModelCall(e) == e.cost > 0
IsSchemaFailure(e) == e.proposal = Failed /\ (e.hit \/ e.paid = MaxRepairs + 1)

\* metrics.py: the calls that never validated "raise before a CostRecord exists,
\* so they appear only as the episode's error", and the report's compliance
\* rate adds them to the model calls. (Violated: StaleCost.)
FailuresAppearOnlyAsErrors ==
  \A i \in DOMAIN episodes : IsSchemaFailure(episodes[i]) => ~IsModelCall(episodes[i])
=============================================================================
