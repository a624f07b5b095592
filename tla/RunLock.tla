------------------------------ MODULE RunLock -------------------------------
(***************************************************************************)
(* RunLock: a lease on one run, kept as a Redis key with an expiry.          *)
(*                                                                           *)
(*     with RunLock(client, run_id):   \* Enter ... Entered or Unavailable   *)
(*         run_loop(...)               \* Renew ... Renewed or Lost          *)
(*                                     \* Leave ... Released                 *)
(*                                                                           *)
(* A lock object is used for one such block, whose process may be killed     *)
(* anywhere and may stall for any time. Requests and replies travel: each    *)
(* may be lost, a lost one is re-sent by the client or not, and a request     *)
(* may reach Redis after its sender has given up.                            *)
(***************************************************************************)
EXTENDS Integers

CONSTANTS
  Locks,    \* the lock objects made for this run, each with its own token
  Nobody,   \* the key does not exist
  TTL       \* ttl_s, in time units

ASSUME LockAssumption == Nobody \notin Locks /\ TTL \in Nat \ {0}

VARIABLES
  owner,    \* whose token is the value of the key
  left,     \* the key's remaining time to live; 0 if it has no expiry
  kind,     \* what build_lock made: "redis" or "null"
  pc,       \* where each with-block is
  held,     \* self._held
  reply,    \* the answer to the request a block waits for
  wire,     \* requests on their way to Redis
  asked,    \* time since the request in progress was sent, up to TTL
  age       \* time since the last granted request was sent, up to TTL

store == <<owner, left>>
vars == <<store, kind, pc, held, reply, wire, asked, age>>

-----------------------------------------------------------------------------
Waiting == {"acquiring", "renewing", "releasing"}
Body == {"inside", "renewing", "failing"}

Request(l, op) == [lock |-> l, op |-> op]

\* build_lock: what each process gets depends on its own environment, and on
\* whether Redis answers its ping.
Built == [Locks -> {"redis", "null"}]

Init ==
  /\ owner = Nobody /\ left = 0
  /\ kind \in Built
  /\ pc = [l \in Locks |-> "new"] /\ held = [l \in Locks |-> kind[l] = "null"]
  /\ reply = [l \in Locks |-> "none"]
  /\ wire = {}
  /\ asked = [l \in Locks |-> 0] /\ age = [l \in Locks |-> 0]

Goto(l, where) == pc' = [pc EXCEPT ![l] = where]

\* A command leaves for Redis, and the block waits for its answer.
Send(l, where) ==
  /\ Goto(l, where)
  /\ wire' = wire \cup {Request(l, where)}
  /\ reply' = [reply EXCEPT ![l] = "none"]
  /\ asked' = [asked EXCEPT ![l] = 0]
  /\ UNCHANGED <<store, kind, held, age>>

\* The connection breaks and the client sends the command again: Redis may have
\* executed it already, and the answer to that is gone.
Resend(l) ==
  /\ pc[l] \in Waiting /\ Request(l, pc[l]) \notin wire
  /\ wire' = wire \cup {Request(l, pc[l])}
  /\ reply' = [reply EXCEPT ![l] = "none"]
  /\ UNCHANGED <<store, kind, pc, held, asked, age>>

\* The answer has come, or the wait for it has ended.
Receive(l, where) ==
  /\ Goto(l, where)
  /\ reply' = [reply EXCEPT ![l] = "none"]
  /\ UNCHANGED <<store, kind, wire, asked>>

\* __enter__ of a RunLock calls acquire, of a NullLock nothing.
Enter(l) == pc[l] = "new" /\ kind[l] = "redis" /\ Send(l, "acquiring")

EnterNull(l) ==
  /\ pc[l] = "new" /\ kind[l] = "null"
  /\ Goto(l, "inside")
  /\ UNCHANGED <<store, kind, held, reply, wire, asked, age>>

\* acquire() returns, and the block is entered.
Entered(l) ==
  /\ pc[l] = "acquiring" /\ reply[l] = "yes"
  /\ Receive(l, "inside")
  /\ held' = [held EXCEPT ![l] = TRUE] /\ age' = [age EXCEPT ![l] = asked[l]]

\* LockUnavailable (also when the key holds its own token, because the first
\* copy of a re-sent command had set it): the block is never entered, and
\* __exit__ never called.
Unavailable(l) ==
  /\ pc[l] = "acquiring" /\ reply[l] = "no"
  /\ Receive(l, "out")
  /\ UNCHANGED <<held, age>>

\* Somewhere in the block: renew(), which asks nothing once the lock was lost.
Renew(l) == pc[l] = "inside" /\ kind[l] = "redis" /\ held[l] /\ Send(l, "renewing")

Renewed(l) ==
  /\ pc[l] = "renewing" /\ reply[l] = "yes"
  /\ Receive(l, "inside")
  /\ age' = [age EXCEPT ![l] = asked[l]] /\ UNCHANGED held

\* renew() returns False and remembers it.
Lost(l) ==
  /\ pc[l] = "renewing" /\ reply[l] = "no"
  /\ Receive(l, "inside")
  /\ held' = [held EXCEPT ![l] = FALSE] /\ UNCHANGED age

\* The block ends, whatever ended it: __exit__ asks for the release of a held
\* lock, and does nothing for one that was lost or is null.
Leave(l) ==
  /\ pc[l] \in {"inside", "failing"} /\ kind[l] = "redis" /\ held[l]
  /\ Send(l, "releasing")

LeaveQuietly(l) ==
  /\ pc[l] = "inside" /\ (kind[l] = "null" \/ ~ held[l])
  /\ Goto(l, "out")
  /\ UNCHANGED <<store, kind, held, reply, wire, asked, age>>

\* release() clears held, whether or not the key was still its own.
Released(l) ==
  /\ pc[l] = "releasing" /\ reply[l] # "none"
  /\ Receive(l, "out")
  /\ held' = [held EXCEPT ![l] = FALSE] /\ UNCHANGED age

\* Mutant: a renewal that could not be sent counts as a lost lock.
BrokenIsLost(l) ==
  /\ pc[l] \in Waiting
  /\ Receive(l, IF pc[l] = "renewing" THEN "inside" ELSE "out")
  /\ held' = [held EXCEPT ![l] = FALSE] /\ UNCHANGED age

\* The connection breaks or times out and the exception goes up: out of
\* __enter__, out of the block (and on to __exit__), or out of __exit__.
Broken(l) ==
  /\ pc[l] \in Waiting
  /\ Receive(l, IF pc[l] = "renewing" THEN "failing" ELSE "out")
  /\ UNCHANGED <<held, age>>

\* The process is killed.
Crash(l) ==
  /\ pc[l] \notin {"new", "out"}
  /\ Receive(l, "out")
  /\ UNCHANGED <<held, age>>

-----------------------------------------------------------------------------
\* Redis. SET NX needs the key to be absent; the two scripts compare first.
\* Mutant: EXPIRE without the comparison.
GrantedToAnyone(r) ==
  CASE r.op = "acquiring" -> owner = Nobody
    [] r.op = "renewing" -> owner # Nobody
    [] OTHER -> owner = r.lock

\* Mutant: DEL without the comparison.
GrantedToReleaser(r) ==
  CASE r.op = "acquiring" -> owner = Nobody
    [] r.op = "renewing" -> owner = r.lock
    [] OTHER -> TRUE

Granted(r) == IF r.op = "acquiring" THEN owner = Nobody ELSE owner = r.lock

\* Mutant: SET NX without EX: a renewal is what first gives the key an expiry.
LifetimeOfRenewed(op) == IF op = "renewing" THEN TTL ELSE 0

\* Mutant: the lease is extended by, instead of to, its full length.
LifetimeAdded(op) == IF op = "releasing" THEN 0 ELSE left + TTL

\* EX ttl_s and EXPIRE ttl_s; a deleted key has none.
Lifetime(op) == IF op = "releasing" THEN 0 ELSE TTL

\* Redis executes a request. Its answer reaches the block if that still waits.
Serve(r) ==
  /\ r \in wire /\ wire' = wire \ {r}
  /\ \/ /\ Granted(r)
        /\ owner' = IF r.op = "releasing" THEN Nobody ELSE r.lock
        /\ left' = Lifetime(r.op)
     \/ ~ Granted(r) /\ UNCHANGED store
  /\ reply' = IF pc[r.lock] = r.op
              THEN [reply EXCEPT ![r.lock] = IF Granted(r) THEN "yes" ELSE "no"]
              ELSE reply
  /\ UNCHANGED <<kind, pc, held, asked, age>>

\* A request never arrives.
Lose(r) ==
  /\ r \in wire /\ wire' = wire \ {r}
  /\ UNCHANGED <<store, kind, pc, held, reply, asked, age>>

Older(t) == IF t < TTL THEN t + 1 ELSE TTL

\* Time passes for everyone, and the key expires.
Tick ==
  /\ left' = IF left = 0 THEN 0 ELSE left - 1
  /\ owner' = IF left = 1 THEN Nobody ELSE owner
  /\ asked' = [l \in Locks |-> Older(asked[l])]
  /\ age' = [l \in Locks |-> Older(age[l])]
  /\ UNCHANGED <<kind, pc, held, reply, wire>>

Step(l) ==
  \/ Enter(l) \/ EnterNull(l) \/ Entered(l) \/ Unavailable(l)
  \/ Renew(l) \/ Renewed(l) \/ Lost(l)
  \/ Leave(l) \/ LeaveQuietly(l) \/ Released(l)
  \/ Resend(l) \/ Broken(l) \/ Crash(l)

Deliver == \E r \in wire : Serve(r) \/ Lose(r)

Next == Tick \/ Deliver \/ \E l \in Locks : Step(l)

Spec == Init /\ [][Next]_vars

\* Time passes. No block, no request and no reply is obliged to get anywhere.
FairSpec == Spec /\ WF_vars(Tick)

-----------------------------------------------------------------------------
Place == {"new", "acquiring", "inside", "renewing", "failing", "releasing", "out"}

TypeOK ==
  /\ owner \in Locks \cup {Nobody} /\ left \in 0 .. TTL
  /\ kind \in Built
  /\ pc \in [Locks -> Place] /\ held \in [Locks -> BOOLEAN]
  /\ reply \in [Locks -> {"none", "yes", "no"}]
  /\ wire \subseteq [lock : Locks, op : Waiting]
  /\ asked \in [Locks -> 0 .. TTL] /\ age \in [Locks -> 0 .. TTL]

\* A block that has had a request granted less than the TTL ago, counted from
\* when it sent the request and not from when it heard.
Fresh(l) == kind[l] = "redis" /\ pc[l] \in Body /\ held[l] /\ age[l] < TTL

\* The lease: while its last granted request is younger than the TTL, a block
\* has the run to itself, through stalls, lost replies, late requests of others
\* and kills. A block whose renewals are further apart has no such promise.
OneFreshHolder == \A l, m \in Locks : Fresh(l) /\ Fresh(m) => l = m

\* "Releasing must be conditional on still owning the lock", and so must
\* renewing: a lease ends when its time is up or when its own holder asks, and
\* only its own holder can prolong it.
OnlyTheOwner ==
  [][\A l \in Locks : owner = l =>
       /\ owner' # l => owner' = Nobody /\ (left = 1 \/ Request(l, "releasing") \in wire)
       /\ left' > left => Request(l, "renewing") \in wire]_vars

\* renew's False "means this worker no longer owns the run", and it never comes
\* to own it again behind the block's back: no late request restores the lease.
LossIsForGood ==
  \A l \in Locks : kind[l] = "redis" /\ pc[l] = "inside" /\ ~ held[l] => owner # l

\* "A crashed worker frees the run": a key whose block is over, by a kill or by a
\* request that outlived its sender, does not stay.
CrashedFrees == \A l \in Locks : owner = l /\ pc[l] = "out" ~> owner # l
=============================================================================
