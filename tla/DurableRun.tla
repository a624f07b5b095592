----------------------------- MODULE DurableRun -----------------------------
(***************************************************************************)
(* One durable run: run_loop, the harness and `resume` as processes that   *)
(* load, extend and overwrite one run row and one episodes table in        *)
(* Postgres. Nothing serialises them (the Redis lock of services/locks.py  *)
(* is taken nowhere in src/), so every step may interleave with every      *)
(* other worker's, and a worker may be killed between any two steps.       *)
(***************************************************************************)
EXTENDS History

CONSTANTS
  Workers,       \* processes that may run the same run_id
  MaxCrashes     \* bound on kills, so that TLC's state space is finite

ASSUME MaxCrashesAssumption == MaxCrashes \in Nat

VARIABLES
  row,        \* the runs row: status and the snapshot save_run writes
  episodes,   \* the episodes table, keyed by idx
  pc,         \* where each worker is
  local,      \* each worker's RunState
  pending,    \* the episode a worker holds before the commit point
  reason,     \* the TerminationReason run_loop is about to report
  crashes

vars == <<row, episodes, pc, local, pending, reason, crashes>>

Status == {"PENDING", "EXECUTING", "DONE", "FAILED"}
Locations == {"idle", "ensure", "create", "head", "commit", "save", "final"}
Reasons == {"NONE", "BUDGET", "REJECTIONS", "SUCCESS", "STAGNATION", "EXHAUSTED", "ERROR"}

Fresh == Rehydrate(EmptyHistory)
NoEpisode == [candidate |-> Failed, result |-> ToolError, wall |-> 0, improved |-> FALSE]

Snapshot(status, s) ==
  [status |-> status, best |-> s.best, budget |-> s.budget, step_idx |-> s.step_idx]

Absent == Snapshot("ABSENT", Fresh)

\* Mutants: an interrupted run counts as finished; rejections are forgotten.
DeriveTerminationOfStarted(r) ==
  IF r.status = "FAILED" THEN "ERROR"
  ELSE IF r.status \in {"ABSENT", "PENDING"} THEN "NONE"
  ELSE IF RejectionsExceeded(r.budget) THEN "REJECTIONS"
  ELSE IF BudgetExhausted(r.budget) THEN "BUDGET"
  ELSE "EXHAUSTED"

DeriveTerminationNoRejections(r) ==
  IF r.status = "FAILED" THEN "ERROR"
  ELSE IF r.status # "DONE" THEN "NONE"
  ELSE IF BudgetExhausted(r.budget) THEN "BUDGET"
  ELSE "EXHAUSTED"

\* derive_termination: why a stored run stopped, from its row alone.
DeriveTermination(r) ==
  IF r.status = "FAILED" THEN "ERROR"
  ELSE IF r.status # "DONE" THEN "NONE"
  ELSE IF RejectionsExceeded(r.budget) THEN "REJECTIONS"
  ELSE IF BudgetExhausted(r.budget) THEN "BUDGET"
  ELSE IF Target # NoTarget /\ r.best # NoBest /\ r.best.result.feasible THEN "SUCCESS"
  ELSE "EXHAUSTED"

-----------------------------------------------------------------------------
Init ==
  /\ row = Absent
  /\ episodes = EmptyHistory
  /\ pc = [w \in Workers |-> "idle"]
  /\ local = [w \in Workers |-> Fresh]
  /\ pending = [w \in Workers |-> NoEpisode]
  /\ reason = [w \in Workers |-> "NONE"]
  /\ crashes = 0

Goto(w, from, to) == pc[w] = from /\ pc' = [pc EXCEPT ![w] = to]

\* execute_cell: the first load; a cell that counts as finished is skipped.
EnterCell(w) ==
  /\ Goto(w, "idle", "ensure")
  /\ DeriveTermination(row) = "NONE"
  /\ UNCHANGED <<row, episodes, local, pending, reason, crashes>>

\* ensure_run: the second load finds the row and rehydrates.
EnsureLoad(w) ==
  /\ Goto(w, "ensure", "head")
  /\ row.status # "ABSENT"
  /\ local' = [local EXCEPT ![w] = Rehydrate(episodes)]
  /\ UNCHANGED <<row, episodes, pending, reason, crashes>>

\* ensure_run: the second load finds nothing.
EnsureMissing(w) ==
  /\ Goto(w, "ensure", "create")
  /\ row.status = "ABSENT"
  /\ UNCHANGED <<row, episodes, local, pending, reason, crashes>>

\* ensure_run's (and `sil-agent run`'s) first save_run. It is an upsert, so it
\* lands even if another worker created and advanced the row meanwhile.
Create(w) ==
  /\ Goto(w, "create", "head")
  /\ row' = Snapshot("PENDING", Fresh)
  /\ local' = [local EXCEPT ![w] = Fresh]
  /\ UNCHANGED <<episodes, pending, reason, crashes>>

\* command_resume: load and rehydrate whatever the status says.
Resume(w) ==
  /\ Goto(w, "idle", "head")
  /\ row.status # "ABSENT"
  /\ local' = [local EXCEPT ![w] = Rehydrate(episodes)]
  /\ UNCHANGED <<row, episodes, pending, reason, crashes>>

\* run_loop stops: one of the checks fires or the strategy is exhausted.
Stop(w) ==
  /\ Goto(w, "head", "final")
  /\ StopReason(local[w]) # "NONE"
  /\ reason' = [reason EXCEPT ![w] = StopReason(local[w])]
  /\ UNCHANGED <<row, episodes, local, pending, crashes>>

\* propose, guard, simulate and grade, against this worker's own history.
Propose(w) ==
  /\ Goto(w, "head", "commit")
  /\ StopReason(local[w]) = "NONE"
  /\ \E e \in NextEpisodes(local[w]) : pending' = [pending EXCEPT ![w] = e]
  /\ UNCHANGED <<row, episodes, local, reason, crashes>>

\* Mutant: a rejection is charged as an evaluation.
AdvancedChargingRejections(s, e) ==
  [history  |-> Extend(s.history, s.step_idx, e),
   best     |-> IF e.improved THEN [episode_idx |-> s.step_idx, result |-> e.result]
                              ELSE s.best,
   budget   |-> [s.budget EXCEPT !.evaluations = @ + 1, !.wall = @ + e.wall],
   step_idx |-> s.step_idx + 1]

\* The worker's RunState after it committed e (with_evaluation or
\* with_rejection, then RunState.advanced).
Advanced(s, e) ==
  [history  |-> Extend(s.history, s.step_idx, e),
   best     |-> IF e.improved THEN [episode_idx |-> s.step_idx, result |-> e.result]
                              ELSE s.best,
   budget   |-> IF e.result = ToolError
                THEN [s.budget EXCEPT !.rejections = @ + 1]
                ELSE [s.budget EXCEPT !.evaluations = @ + 1, !.wall = @ + e.wall],
   step_idx |-> s.step_idx + 1]

\* Mutant: append_episode upserts instead of ON CONFLICT DO NOTHING.
AppendUpsert(w) ==
  /\ Goto(w, "commit", "save")
  /\ episodes' = Extend(episodes, local[w].step_idx, pending[w])
  /\ local' = [local EXCEPT ![w] = Advanced(@, pending[w])]
  /\ pending' = [pending EXCEPT ![w] = NoEpisode]
  /\ UNCHANGED <<row, reason, crashes>>

\* append_episode inserts: no episode has this idx yet.
Append(w) ==
  /\ Goto(w, "commit", "save")
  /\ local[w].step_idx \notin DOMAIN episodes
  /\ episodes' = Extend(episodes, local[w].step_idx, pending[w])
  /\ local' = [local EXCEPT ![w] = Advanced(@, pending[w])]
  /\ pending' = [pending EXCEPT ![w] = NoEpisode]
  /\ UNCHANGED <<row, reason, crashes>>

\* Mutant: the loser of the race goes round again with what it has.
ConflictRetries(w) ==
  /\ Goto(w, "commit", "head")
  /\ local[w].step_idx \in DOMAIN episodes
  /\ pending' = [pending EXCEPT ![w] = NoEpisode]
  /\ UNCHANGED <<row, episodes, local, reason, crashes>>

\* append_episode hits ON CONFLICT DO NOTHING: another process got there first.
Conflict(w) ==
  /\ Goto(w, "commit", "final")
  /\ local[w].step_idx \in DOMAIN episodes
  /\ reason' = [reason EXCEPT ![w] = "ERROR"]
  /\ pending' = [pending EXCEPT ![w] = NoEpisode]
  /\ UNCHANGED <<row, episodes, local, crashes>>

\* Mutant: the update clause leaves out best.
SaveProgressWithoutBest(w) ==
  /\ Goto(w, "save", "head")
  /\ row' = [Snapshot("EXECUTING", local[w]) EXCEPT !.best = row.best]
  /\ UNCHANGED <<episodes, local, pending, reason, crashes>>

\* save_run after each episode: the whole snapshot, unconditionally.
SaveProgress(w) ==
  /\ Goto(w, "save", "head")
  /\ row' = Snapshot("EXECUTING", local[w])
  /\ UNCHANGED <<episodes, local, pending, reason, crashes>>

\* Mutant: a run that stopped on a conflict is saved as DONE.
SaveFinalAlwaysDone(w) ==
  /\ Goto(w, "final", "idle")
  /\ row' = Snapshot("DONE", local[w])
  /\ local' = [local EXCEPT ![w] = Fresh]
  /\ reason' = [reason EXCEPT ![w] = "NONE"]
  /\ UNCHANGED <<episodes, pending, crashes>>

\* save_run at the end of run_loop.
SaveFinal(w) ==
  /\ Goto(w, "final", "idle")
  /\ row' = Snapshot(IF reason[w] = "ERROR" THEN "FAILED" ELSE "DONE", local[w])
  /\ local' = [local EXCEPT ![w] = Fresh]
  /\ reason' = [reason EXCEPT ![w] = "NONE"]
  /\ UNCHANGED <<episodes, pending, crashes>>

\* kill -9, Ctrl-C, or an exception run_loop does not catch: memory is lost,
\* the tables are not.
Crash(w) ==
  /\ pc[w] # "idle" /\ crashes < MaxCrashes
  /\ pc' = [pc EXCEPT ![w] = "idle"]
  /\ local' = [local EXCEPT ![w] = Fresh]
  /\ pending' = [pending EXCEPT ![w] = NoEpisode]
  /\ reason' = [reason EXCEPT ![w] = "NONE"]
  /\ crashes' = crashes + 1
  /\ UNCHANGED <<row, episodes>>

Proceed(w) ==
  \/ EnsureLoad(w) \/ EnsureMissing(w) \/ Create(w)
  \/ Stop(w) \/ Propose(w) \/ Append(w) \/ Conflict(w)
  \/ SaveProgress(w) \/ SaveFinal(w)

Next == \E w \in Workers : EnterCell(w) \/ Resume(w) \/ Proceed(w) \/ Crash(w)

Spec == Init /\ [][Next]_vars

\* A started process keeps running until it ends or is killed, and the
\* operator re-runs the experiment command while it still has work to do.
Fairness == \A w \in Workers : WF_vars(Proceed(w)) /\ WF_vars(EnterCell(w))

FairSpec == Spec /\ Fairness

-----------------------------------------------------------------------------
\* The run row, the episodes table and every worker's memory have their types.
TypeOK ==
  /\ row \in [status : Status \cup {"ABSENT"}, best : Best \cup {NoBest},
              budget : Budget, step_idx : Nat]
  /\ IsHistory(episodes)
  /\ pc \in [Workers -> Locations]
  /\ DOMAIN local = Workers /\ \A w \in Workers : IsRunState(local[w])
  /\ pending \in [Workers -> Episode]
  /\ reason \in [Workers -> Reasons]
  /\ crashes \in 0 .. MaxCrashes

\* The table has no gap, and what a worker believes to be the history is
\* always a prefix of it, however many workers write and crash (rehydrate and
\* the (run_id, idx) key of append_episode).
HistoryIsPrefix ==
  /\ Contiguous(episodes)
  /\ \A w \in Workers : IsPrefixOf(local[w].history, episodes)

\* Rule 1: best, budget and step_idx kept incrementally by the live loop are
\* what rehydrate recomputes from the same episodes.
LocalIsRecomputed == \A w \in Workers : local[w] = Rehydrate(local[w].history)

\* Rule 2 in the table: an episode is marked improved exactly when its result
\* beats the best of all episodes stored before it, whichever worker wrote them.
ImprovedIsHonest ==
  \A i \in DOMAIN episodes :
    episodes[i].improved <=>
      /\ episodes[i].result # ToolError
      /\ BetterThan(episodes[i].result, RecomputeBest(Prefix(episodes, i)))

\* Crashes, re-runs and rival workers never buy extra simulator calls: the
\* stored episodes stay within each of the run's limits.
BudgetNeverOverspent ==
  LET used == Used(episodes) IN
  /\ used.evaluations <= MaxEvaluations
  /\ used.wall <= MaxWall
  /\ used.rejections <= MaxRejections
  /\ Size(episodes) <= Supply

\* The row may lag behind the table but never invents: its snapshot is what
\* rehydrate computes from some prefix of the stored episodes.
SnapshotIsOfAPrefix ==
  \E n \in 0 .. Size(episodes) : row = Snapshot(row.status, Rehydrate(Prefix(episodes, n)))

\* A row that says DONE is complete: the loop would stop on the stored
\* episodes, and the snapshot the report reads is the one they prove.
DoneIsFinal ==
  row.status = "DONE" =>
    Terminal(episodes) /\ row = Snapshot("DONE", Rehydrate(episodes))

\* What the harness skips really is finished. Holds for a single worker at a
\* time (DurableSingle); two at once break it (RivalWorkers).
SkippedMeansFinished == DeriveTermination(row) # "NONE" => Terminal(episodes)

\* The reason the report derives from the row is the one run_loop stopped for,
\* in every run but those that STAGNATION or EXHAUSTED ended. The row does not
\* tell these two apart, nor (derive_termination never compares the best with
\* the target) from SUCCESS once there is a target and a feasible best.
ReasonIsDerivable ==
  row.status = "DONE" =>
    LET stopped == StopReason(Rehydrate(episodes))
        derived == DeriveTermination(row)
    IN  \/ derived = stopped
        \/ /\ stopped \in {"STAGNATION", "EXHAUSTED"}
           /\ derived = IF Target # NoTarget /\ row.best # NoBest /\ row.best.result.feasible
                        THEN "SUCCESS" ELSE "EXHAUSTED"

\* Every run_loop that is not killed returns: it cannot cycle between
\* proposing, failing and proposing again.
LoopTerminates == \A w \in Workers : pc[w] = "head" ~> pc[w] = "idle"

\* Re-running the experiment command finishes the run for good, whatever
\* (finitely many) kills happen on the way.
EventuallyDone == <>[](row.status = "DONE")

\* Refinement: however the workers interleave, crash and overwrite each other's
\* row, the episodes table behaves like one sequential, atomic run.
Record == INSTANCE RunRecord WITH log <- episodes
ImplementsRunRecord == Record!Spec
=============================================================================
