--------------------------- MODULE RunLock_proofs ---------------------------
(***************************************************************************)
(* The lease of RunLock, for any number of lock objects and any TTL.         *)
(***************************************************************************)
EXTENDS RunLock, TLAPS

\* `l` owns the key, for TTL - t more at least.
Owns(l, t) == owner = l /\ left + t >= TTL

\* Only a finished block, or one that has not heard, has an acquire under way;
\* only a block that is on its way out has a release; only a holder renews.
Requests ==
  \A l \in Locks :
    /\ Request(l, "acquiring") \in wire =>
         pc[l] = "out" \/ (pc[l] = "acquiring" /\ reply[l] = "none")
    /\ Request(l, "releasing") \in wire => pc[l] \in {"releasing", "out"}
    /\ pc[l] = "renewing" => held[l]

\* The lease of a block, and the one it is about to hear of.
Leases ==
  \A l \in Locks :
    /\ Fresh(l) => Owns(l, age[l])
    /\ pc[l] \in {"acquiring", "renewing"} /\ reply[l] = "yes" /\ asked[l] < TTL
         => Owns(l, asked[l])

\* A refusal a block is about to hear of.
Refusals == \A l \in Locks : pc[l] = "renewing" /\ reply[l] = "no" => owner # l

IInv == TypeOK /\ Requests /\ Leases /\ Refusals /\ LossIsForGood

LEMMA Initially == Init => IInv
  BY LockAssumption, SMT DEF Init, Built, IInv, TypeOK, Requests, Leases, Refusals, LossIsForGood,
       Fresh, Owns, Body, Place, Waiting, Request

LEMMA ServePreserves ==
  ASSUME IInv, NEW r \in wire, Serve(r)
  PROVE  IInv'
<1> USE DEF IInv, TypeOK
<1> DEFINE l == r.lock
<1>1. l \in Locks /\ r.op \in Waiting /\ r = Request(l, r.op)
  BY DEF Request
<1>2. UNCHANGED <<kind, pc, held, asked, age>> /\ wire' = wire \ {r}
  BY DEF Serve
<1>3. TypeOK'
  BY <1>1, <1>2, LockAssumption DEF Serve, Lifetime, store
<1>4. Requests'
  BY <1>1, <1>2 DEF Requests, Serve
<1>5. Leases'
  <2>1. \A m \in Locks : m # l => reply'[m] = reply[m]
    BY <1>1 DEF Serve
  <2>2. CASE ~ Granted(r)
    BY <1>1, <1>2, <2>1, <2>2 DEF Serve, Leases, Fresh, Owns, store
  <2>3. CASE Granted(r) /\ r.op = "releasing"
    <3>1. owner = l /\ pc[l] \in {"releasing", "out"}
      BY <1>1, <2>3 DEF Granted, Requests
    <3> QED
      BY <1>1, <1>2, <2>1, <3>1 DEF Leases, Fresh, Owns, Body
  <2>4. CASE Granted(r) /\ r.op # "releasing"
    <3>1. owner' = l /\ left' = TTL
      BY <2>4 DEF Serve, Lifetime
    <3>2. \A m \in Locks : m # l => owner # m
      BY <1>1, <2>4, LockAssumption DEF Granted
    <3> QED
      BY <1>2, <1>3, <2>1, <3>1, <3>2, LockAssumption DEF Leases, Fresh, Owns
  <2> QED
    BY <2>2, <2>3, <2>4
<1>6. Refusals'
  <2> SUFFICES ASSUME NEW m \in Locks, pc'[m] = "renewing", reply'[m] = "no"
               PROVE  owner' # m
    BY DEF Refusals
  <2>1. CASE m = l
    <3>1. Request(m, "acquiring") \notin wire
      BY <1>2 DEF Requests
    <3>2. r.op # "acquiring"
      BY <1>1, <2>1, <3>1
    <3>3. CASE r.op = "renewing"
      BY <1>1, <1>2, <2>1, <3>3 DEF Serve, Granted, store
    <3>4. CASE r.op = "releasing"
      BY <1>1, <1>2, <2>1, <3>4, LockAssumption DEF Serve, Granted, Refusals, store
    <3> QED
      BY <1>1, <3>2, <3>3, <3>4 DEF Waiting
  <2>2. CASE m # l
    BY <1>1, <1>2, <2>2, LockAssumption DEF Serve, Refusals, store
  <2> QED
    BY <2>1, <2>2
<1>7. LossIsForGood'
  <2> SUFFICES ASSUME NEW m \in Locks, kind[m] = "redis", pc[m] = "inside", ~ held[m]
               PROVE  owner' # m
    BY <1>2 DEF LossIsForGood
  <2>1. owner # m
    BY DEF LossIsForGood
  <2>2. CASE r.op = "acquiring"
    <3>1. l # m
      BY <1>1, <2>2 DEF Requests
    <3> QED
      BY <2>1, <2>2, <3>1 DEF Serve, store
  <2>3. CASE r.op # "acquiring"
    BY <2>1, <2>3, LockAssumption DEF Serve, Granted, store
  <2> QED
    BY <2>2, <2>3
<1> QED
  BY <1>3, <1>4, <1>5, <1>6, <1>7

LEMMA TickPreserves ==
  ASSUME IInv, Tick
  PROVE  IInv'
<1> USE DEF IInv, TypeOK, Tick, Older
<1>1. TypeOK'
  BY LockAssumption
<1>2. Requests'
  BY DEF Requests
<1>3. Leases'
  BY LockAssumption, SMTT(30) DEF Leases, Fresh, Owns
<1>4. Refusals' /\ LossIsForGood'
  BY LockAssumption DEF Refusals, LossIsForGood
<1> QED
  BY <1>1, <1>2, <1>3, <1>4

\* A block's own steps leave the key alone.
LEMMA StepPreserves ==
  ASSUME IInv, NEW l \in Locks, Step(l)
  PROVE  IInv'
<1> USE DEF IInv, TypeOK, Place, Waiting, Body, Goto, store
<1> DEFINE Kept == UNCHANGED <<owner, left, kind>>
<1>1. CASE Enter(l) \/ Renew(l) \/ Leave(l)
  <2>1. PICK op \in Waiting : Send(l, op) /\ pc[l] # "out"
          /\ (op = "releasing" => pc[l] \in {"inside", "failing"})
          /\ (op = "acquiring" => pc[l] = "new")
          /\ (op = "renewing" => pc[l] = "inside" /\ kind[l] = "redis" /\ held[l])
    BY <1>1 DEF Enter, Renew, Leave
  <2>2. TypeOK'
    BY <2>1, LockAssumption DEF Send, Request
  <2>3. Requests'
    BY <2>1 DEF Send, Request, Requests
  <2>4. Leases'
    BY <2>1 DEF Send, Leases, Fresh, Owns
  <2>5. Refusals' /\ LossIsForGood'
    BY <2>1 DEF Send, Refusals, LossIsForGood
  <2> QED
    BY <2>2, <2>3, <2>4, <2>5
<1>2. CASE EnterNull(l)
  BY <1>2 DEF EnterNull, Requests, Leases, Fresh, Owns, Refusals, LossIsForGood, Request
<1>3. CASE Entered(l)
  BY <1>3 DEF Entered, Receive, Requests, Leases, Fresh, Owns, Refusals, LossIsForGood, Request
<1>4. CASE Unavailable(l)
  BY <1>4 DEF Unavailable, Receive, Requests, Leases, Fresh, Owns, Refusals, LossIsForGood, Request
<1>5. CASE Renewed(l)
  BY <1>5 DEF Renewed, Receive, Requests, Leases, Fresh, Owns, Refusals, LossIsForGood, Request
<1>6. CASE Lost(l)
  BY <1>6 DEF Lost, Receive, Requests, Leases, Fresh, Owns, Refusals, LossIsForGood, Request
<1>7. CASE LeaveQuietly(l)
  BY <1>7 DEF LeaveQuietly, Requests, Leases, Fresh, Owns, Refusals, LossIsForGood, Request
<1>8. CASE Released(l)
  BY <1>8 DEF Released, Receive, Requests, Leases, Fresh, Owns, Refusals, LossIsForGood, Request
<1>9. CASE Broken(l)
  BY <1>9 DEF Broken, Receive, Requests, Leases, Fresh, Owns, Refusals, LossIsForGood, Request
<1>10. CASE Crash(l)
  BY <1>10 DEF Crash, Receive, Requests, Leases, Fresh, Owns, Refusals, LossIsForGood, Request
<1>11. CASE Resend(l)
  BY <1>11 DEF Resend, Requests, Leases, Fresh, Owns, Refusals, LossIsForGood, Request
<1> QED
  BY <1>1, <1>2, <1>3, <1>4, <1>5, <1>6, <1>7, <1>8, <1>9, <1>10, <1>11 DEF Step

\* The inductive invariant of the lock.
THEOREM LockInvariant == Spec => []IInv
<1>1. IInv /\ [Next]_vars => IInv'
  <2> SUFFICES ASSUME IInv, [Next]_vars PROVE IInv'
    OBVIOUS
  <2>1. CASE Tick
    BY <2>1, TickPreserves
  <2>2. ASSUME NEW r \in wire, Serve(r) PROVE IInv'
    BY <2>2, ServePreserves
  <2>3. ASSUME NEW r \in wire, Lose(r) PROVE IInv'
    BY <2>3 DEF Lose, IInv, TypeOK, Requests, Leases, Fresh, Owns, Refusals, LossIsForGood, store
  <2>4. ASSUME NEW l \in Locks, Step(l) PROVE IInv'
    BY <2>4, StepPreserves
  <2>5. CASE UNCHANGED vars
    BY <2>5 DEF vars, store, IInv, TypeOK, Requests, Leases, Fresh, Owns, Refusals, LossIsForGood
  <2> QED
    BY <2>1, <2>2, <2>3, <2>4, <2>5 DEF Next, Deliver
<1> QED
  BY Initially, <1>1, PTL DEF Spec

\* The lock's registers, the key and the requests have their types.
THEOREM LockTypes == Spec => []TypeOK
  BY LockInvariant, PTL DEF IInv

\* No two blocks have had a request granted less than the TTL ago.
THEOREM LeaseIsExclusive == Spec => []OneFreshHolder
<1>1. IInv => OneFreshHolder
  BY DEF IInv, Leases, OneFreshHolder, Owns
<1> QED
  BY <1>1, LockInvariant, PTL

\* A block that was told it lost the lock never owns the key again.
THEOREM LossIsFinal == Spec => []LossIsForGood
  BY LockInvariant, PTL DEF IInv

\* A lease ends with its time or at its holder's request, and nobody else
\* prolongs it.
THEOREM OwnersOnly == Spec => OnlyTheOwner
<1> DEFINE P(l) == owner = l =>
       /\ owner' # l => owner' = Nobody /\ (left = 1 \/ Request(l, "releasing") \in wire)
       /\ left' > left => Request(l, "renewing") \in wire
<1>1. IInv /\ [Next]_vars => [\A l \in Locks : P(l)]_vars
  <2> SUFFICES ASSUME TypeOK, Next, NEW l \in Locks, owner = l PROVE P(l)
    BY DEF IInv
  <2> USE DEF TypeOK
  <2>1. CASE Tick
    BY <2>1 DEF Tick
  <2>2. ASSUME NEW r \in wire, Serve(r) PROVE P(l)
    <3>1. r = Request(r.lock, r.op) /\ r.op \in Waiting
      BY DEF Request
    <3> QED
      BY <2>2, <3>1, LockAssumption DEF Serve, Granted, Lifetime, store, Waiting
  <2>3. ASSUME NEW r \in wire, Lose(r) PROVE P(l)
    BY <2>3 DEF Lose, store
  <2>4. ASSUME NEW m \in Locks, Step(m) PROVE P(l)
    <3>1. UNCHANGED store
      BY <2>4 DEF Step, Enter, EnterNull, Entered, Unavailable, Renew, Renewed, Lost, Leave,
           LeaveQuietly, Released, Broken, Crash, Send, Receive, Resend
    <3> QED
      BY <3>1 DEF store
  <2> QED
    BY <2>1, <2>2, <2>3, <2>4 DEF Next, Deliver
<1> QED
  BY <1>1, LockInvariant, PTL DEF Spec, OnlyTheOwner
=============================================================================
