--------------------------- MODULE OperationQueue ---------------------------
(***************************************************************************)
(* The per-session operation queue of src/operation-queue.ts: every tool   *)
(* call of an MCP session goes through one OperationQueue.                 *)
(*                                                                         *)
(* JavaScript runs each of run, dispose, an abort listener, a timer        *)
(* callback and the finally block of execute to completion, so each is one *)
(* action here, with the drain() it ends in.  What interleaves is which of *)
(* them the event loop runs next.                                          *)
(*                                                                         *)
(* An element of Ops is one call of run (the code's opId, a fresh UUID)    *)
(* with an AbortSignal of its own, as server.ts passes one per request.    *)
(* Nothing of the call but its lane and its signal matters to the queue.   *)
(***************************************************************************)
EXTENDS Integers, Sequences, FiniteSets

CONSTANTS
    Ops,                    \* calls of run
    Readers,                \* those with lane "readonly"; the rest mutate
    MaxConcurrent,          \* slots of the mutating lane
    MaxReadonlyConcurrent,  \* slots of the read-only lane
    QueueMax                \* limit on the backlog

\* The constructor clamps its options with Math.max.
ASSUME OptionsAssumption ==
    /\ IsFiniteSet(Ops)
    /\ Readers \subseteq Ops
    /\ MaxConcurrent \in Nat \ {0}
    /\ MaxReadonlyConcurrent \in Nat \ {0}
    /\ QueueMax \in Nat

VARIABLES
    pending,           \* the backlog, a FIFO of Ops
    inFlight,          \* the counters inFlight, inFlightMutating, inFlightReadonly
    stats,             \* overflowedCount, cancelledCount, completedTotal
    dispatchSequence,  \* number of operations ever started
    disposed,
    aborted,           \* calls whose AbortSignal has fired
    enqueuedAt,        \* arrival number of a call that got past the first checks
    startedAs,         \* dispatchSequence number of a call, 0 if it never started
    outcome            \* how the promise returned by run settled

queueVars == <<pending, inFlight, stats, dispatchSequence, disposed>>
callVars  == <<aborted, enqueuedAt, startedAs, outcome>>
vars      == <<pending, inFlight, stats, dispatchSequence, disposed,
               aborted, enqueuedAt, startedAs, outcome>>

-----------------------------------------------------------------------------
Withdrawn == {"cancelled", "queue_timeout", "session_disposed"}
Finished  == {"resolved", "rejected"}
Outcomes  == {"none", "queue_full"} \cup Withdrawn \cup Finished

\* A call that has not been made yet.
Fresh == {o \in Ops : enqueuedAt[o] = 0 /\ outcome[o] = "none"}

\* The calls whose fn has been invoked and has not settled.
Running == {o \in Ops : startedAs[o] # 0 /\ outcome[o] = "none"}

RunningMutating == Running \ Readers
RunningReadonly == Running \cap Readers

Queued == {pending[i] : i \in 1..Len(pending)}

\* enqueuedAt is a timestamp in the code; here arrivals are numbered.
Arrivals == Cardinality({o \in Ops : enqueuedAt[o] # 0})

-----------------------------------------------------------------------------
(***************************************************************************)
(* Slots.  held is a value of inFlight.                                    *)
(***************************************************************************)
\* Mutant: a read-only call does not wait for running mutating ones.
CanDispatch_ReadersIgnoreMutating(o, held) ==
    IF o \in Readers
    THEN held.readonly < MaxReadonlyConcurrent
    ELSE held.mutating < MaxConcurrent

\* Mutant: off by one at the read-only limit.
CanDispatch_OneTooMany(o, held) ==
    IF o \in Readers
    THEN held.mutating = 0 /\ held.readonly <= MaxReadonlyConcurrent
    ELSE held.mutating < MaxConcurrent

CanDispatch(o, held) ==
    IF o \in Readers
    THEN held.mutating = 0 /\ held.readonly < MaxReadonlyConcurrent
    ELSE held.mutating < MaxConcurrent

Acquire(held, S) ==
    [total    |-> held.total + Cardinality(S),
     mutating |-> held.mutating + Cardinality(S \ Readers),
     readonly |-> held.readonly + Cardinality(S \cap Readers)]

\* Mutant: the slot is always given back to the mutating lane.
Release_WrongLane(held, o) ==
    [held EXCEPT !.total = @ - 1, !.mutating = @ - 1]

Release(held, o) ==
    [total    |-> held.total - 1,
     mutating |-> IF o \in Readers THEN held.mutating ELSE held.mutating - 1,
     readonly |-> IF o \in Readers THEN held.readonly - 1 ELSE held.readonly]

(***************************************************************************)
(* drain() takes entries off the head of the backlog q for as long as the  *)
(* head can be dispatched with the slots held so far; an entry it takes    *)
(* starts, or is cancelled when its signal has fired.  The loop is given   *)
(* by the number n of entries it takes, which DrainStops determines.       *)
(***************************************************************************)
Taken(q, n)   == {q[i] : i \in 1..n}
Started(q, n) == Taken(q, n) \ aborted

DispatchableAt(q, i, held) ==
    CanDispatch(q[i], Acquire(held, Started(q, i - 1)))

DrainStops(q, n, held) ==
    /\ \A i \in 1..n : DispatchableAt(q, i, held)
    /\ n < Len(q) => ~DispatchableAt(q, n + 1, held)

Index(q, n, o) == CHOOSE j \in 1..n : q[j] = o

\* execute() of the entries of q that start among the first n, in order.
Execute(q, n, held) ==
    /\ inFlight' = Acquire(held, Started(q, n))
    /\ dispatchSequence' = dispatchSequence + Cardinality(Started(q, n))
    /\ startedAs' = [o \in Ops |->
           IF o \in Started(q, n)
           THEN dispatchSequence + Cardinality(Started(q, Index(q, n, o)))
           ELSE startedAs[o]]

\* out and done are the values the caller gives outcome and stats.
Drain(q, held, out, done) ==
    \E n \in 0..Len(q) :
        LET dropped == Taken(q, n) \cap aborted
        IN  /\ DrainStops(q, n, held)
            /\ pending' = SubSeq(q, n + 1, Len(q))
            /\ Execute(q, n, held)
            /\ outcome' = [o \in Ops |->
                               IF o \in dropped THEN "cancelled" ELSE out[o]]
            /\ stats' = [done EXCEPT !.cancelled = @ + Cardinality(dropped)]

-----------------------------------------------------------------------------
Init ==
    /\ pending = <<>>
    /\ inFlight = [total |-> 0, mutating |-> 0, readonly |-> 0]
    /\ stats = [overflowed |-> 0, cancelled |-> 0, completed |-> 0]
    /\ dispatchSequence = 0
    /\ disposed = FALSE
    /\ aborted = {}
    /\ enqueuedAt = [o \in Ops |-> 0]
    /\ startedAs = [o \in Ops |-> 0]
    /\ outcome = [o \in Ops |-> "none"]

(***************************************************************************)
(* run(): the early returns in the order the code tests them.              *)
(***************************************************************************)
Refuse(o, code) ==
    /\ outcome' = [outcome EXCEPT ![o] = code]
    /\ stats' = [stats EXCEPT !.cancelled = @ + 1]
    /\ UNCHANGED <<pending, inFlight, dispatchSequence, disposed,
                   aborted, enqueuedAt, startedAs>>

RunDisposed(o) ==
    /\ o \in Fresh
    /\ disposed
    /\ Refuse(o, "session_disposed")

RunAborted(o) ==
    /\ o \in Fresh
    /\ ~disposed
    /\ o \in aborted
    /\ Refuse(o, "cancelled")

\* The call gets past both checks and is given its arrival number.
\* Mutant: run() does not test disposed.
Arrive_AfterDispose(o) ==
    /\ o \in Fresh
    /\ o \notin aborted
    /\ enqueuedAt' = [enqueuedAt EXCEPT ![o] = Arrivals + 1]
    /\ UNCHANGED <<disposed, aborted>>

Arrive(o) ==
    /\ o \in Fresh
    /\ ~disposed
    /\ o \notin aborted
    /\ enqueuedAt' = [enqueuedAt EXCEPT ![o] = Arrivals + 1]
    /\ UNCHANGED <<disposed, aborted>>

\* Mutant: the fast path is taken over the heads of queued calls.
MayStartNow_JumpsQueue(o) == CanDispatch(o, inFlight)

MayStartNow(o) == CanDispatch(o, inFlight) /\ pending = <<>>

RunNow(o) ==
    /\ Arrive(o)
    /\ MayStartNow(o)
    /\ Execute(<<o>>, 1, inFlight)
    /\ UNCHANGED <<pending, stats, outcome>>

RunOverflow(o) ==
    /\ Arrive(o)
    /\ ~MayStartNow(o)
    /\ Len(pending) >= QueueMax
    /\ outcome' = [outcome EXCEPT ![o] = "queue_full"]
    /\ stats' = [stats EXCEPT !.overflowed = @ + 1]
    /\ UNCHANGED <<pending, inFlight, dispatchSequence, startedAs>>

RunEnqueue(o) ==
    /\ Arrive(o)
    /\ ~MayStartNow(o)
    /\ Len(pending) < QueueMax
    /\ pending' = Append(pending, o)
    /\ UNCHANGED <<inFlight, stats, dispatchSequence, startedAs, outcome>>

Run(o) ==
    \/ RunDisposed(o)
    \/ RunAborted(o)
    \/ RunNow(o)
    \/ RunOverflow(o)
    \/ RunEnqueue(o)

(***************************************************************************)
(* The finally block of execute(): fn resolved or threw.                   *)
(***************************************************************************)
\* Mutant: the slot is returned but the backlog is not drained.
Complete_NoDrain(o, result) ==
    /\ o \in Running
    /\ inFlight' = Release(inFlight, o)
    /\ outcome' = [outcome EXCEPT ![o] = result]
    /\ stats' = [stats EXCEPT !.completed = @ + 1]
    /\ UNCHANGED <<pending, dispatchSequence, startedAs,
                   disposed, aborted, enqueuedAt>>

Complete(o, result) ==
    LET held == Release(inFlight, o)
        out  == [outcome EXCEPT ![o] = result]
        done == [stats EXCEPT !.completed = @ + 1]
    IN  /\ o \in Running
        /\ IF disposed
           THEN /\ inFlight' = held
                /\ outcome' = out
                /\ stats' = done
                /\ UNCHANGED <<pending, dispatchSequence, startedAs>>
           ELSE Drain(pending, held, out, done)
        /\ UNCHANGED <<disposed, aborted, enqueuedAt>>

(***************************************************************************)
(* cancelPending(): the entry leaves the backlog, its caller is rejected,  *)
(* and the backlog is drained because the head may have changed.           *)
(***************************************************************************)
Without(q, i) == SubSeq(q, 1, i - 1) \o SubSeq(q, i + 1, Len(q))

\* Mutant: the entry is removed without looking at the new head.
CancelPending_NoDrain(o, code) ==
    \E i \in 1..Len(pending) :
        /\ pending[i] = o
        /\ pending' = Without(pending, i)
        /\ outcome' = [outcome EXCEPT ![o] = code]
        /\ stats' = [stats EXCEPT !.cancelled = @ + 1]
        /\ UNCHANGED <<inFlight, dispatchSequence, startedAs>>

CancelPending(o, code) ==
    \E i \in 1..Len(pending) :
        /\ pending[i] = o
        /\ Drain(Without(pending, i), inFlight,
                 [outcome EXCEPT ![o] = code],
                 [stats EXCEPT !.cancelled = @ + 1])

\* The timer armed by enqueue; cleanup() clears it when the entry leaves.
Timeout(o) ==
    /\ CancelPending(o, "queue_timeout")
    /\ UNCHANGED <<disposed, aborted, enqueuedAt>>

\* Mutant: the abort listener is not installed.
AbortQueued_NoListener(o) ==
    /\ o \notin aborted
    /\ o \in Queued
    /\ aborted' = aborted \cup {o}
    /\ UNCHANGED <<queueVars, enqueuedAt, startedAs, outcome>>

\* The caller's AbortSignal fires; only a queued call has a listener on it.
AbortQueued(o) ==
    /\ o \notin aborted
    /\ aborted' = aborted \cup {o}
    /\ CancelPending(o, "cancelled")
    /\ UNCHANGED <<disposed, enqueuedAt>>

AbortElsewhere(o) ==
    /\ o \notin aborted
    /\ o \in Fresh \cup Running
    /\ o \notin Queued
    /\ aborted' = aborted \cup {o}
    /\ UNCHANGED <<queueVars, enqueuedAt, startedAs, outcome>>

\* Mutant: disposal rejects the running calls as well.
Dispose_KillsRunning ==
    /\ ~disposed
    /\ disposed' = TRUE
    /\ pending' = <<>>
    /\ outcome' = [o \in Ops |-> IF o \in Queued \cup Running
                                 THEN "session_disposed" ELSE outcome[o]]
    /\ stats' = [stats EXCEPT !.cancelled = @ + Len(pending)]
    /\ UNCHANGED <<inFlight, dispatchSequence, aborted, enqueuedAt, startedAs>>

\* Mutant: disposal drops the backlog and never rejects its callers.
Dispose_NoReject ==
    /\ ~disposed
    /\ disposed' = TRUE
    /\ pending' = <<>>
    /\ stats' = [stats EXCEPT !.cancelled = @ + Len(pending)]
    /\ UNCHANGED <<inFlight, dispatchSequence, aborted, enqueuedAt, startedAs,
                   outcome>>

Dispose ==
    /\ ~disposed
    /\ disposed' = TRUE
    /\ pending' = <<>>
    /\ outcome' = [o \in Ops |->
                       IF o \in Queued THEN "session_disposed" ELSE outcome[o]]
    /\ stats' = [stats EXCEPT !.cancelled = @ + Len(pending)]
    /\ UNCHANGED <<inFlight, dispatchSequence, aborted, enqueuedAt, startedAs>>

Next ==
    \/ \E o \in Ops :
           \/ Run(o)
           \/ \E result \in Finished : Complete(o, result)
           \/ Timeout(o)
           \/ AbortQueued(o)
           \/ AbortElsewhere(o)
    \/ Dispose

Spec == Init /\ [][Next]_vars

-----------------------------------------------------------------------------
(***************************************************************************)
(* Fairness.  Nothing in the queue bounds a running fn: that it settles is *)
(* an assumption about the tools.                                          *)
(***************************************************************************)
FnsSettle    == \A o \in Ops : WF_vars(\E result \in Finished : Complete(o, result))

SettlingSpec == Spec /\ FnsSettle

-----------------------------------------------------------------------------
TypeOK ==
    /\ pending \in Seq(Ops)
    /\ inFlight \in [total : Nat, mutating : Nat, readonly : Nat]
    /\ stats \in [overflowed : Nat, cancelled : Nat, completed : Nat]
    /\ dispatchSequence \in Nat
    /\ disposed \in BOOLEAN
    /\ aborted \subseteq Ops
    /\ enqueuedAt \in [Ops -> Nat]
    /\ startedAs \in [Ops -> Nat]
    /\ outcome \in [Ops -> Outcomes]

(***************************************************************************)
(* Every call that arrived and neither started nor settled is in the       *)
(* backlog, once, and nothing else is: the queue loses no promise and      *)
(* holds none twice, whatever cancellations, timeouts, completions and     *)
(* disposal did to the backlog in between.                                 *)
(***************************************************************************)
NoCallLost ==
    /\ Queued = {o \in Ops : /\ enqueuedAt[o] # 0
                             /\ startedAs[o] = 0
                             /\ outcome[o] = "none"}
    /\ \A i, j \in 1..Len(pending) : pending[i] = pending[j] => i = j

(***************************************************************************)
(* The three counters of held slots always say which functions are really  *)
(* executing (execute() takes and returns a slot of the same lane).        *)
(***************************************************************************)
SlotsMatchRunning ==
    /\ inFlight.total = Cardinality(Running)
    /\ inFlight.mutating = Cardinality(RunningMutating)
    /\ inFlight.readonly = Cardinality(RunningReadonly)

\* No lane runs more operations than it has slots, and the backlog never
\* outgrows queueMax, also when one drain starts several entries.
WithinLimits ==
    /\ Cardinality(RunningMutating) <= MaxConcurrent
    /\ Cardinality(RunningReadonly) <= MaxReadonlyConcurrent
    /\ Len(pending) <= QueueMax

(***************************************************************************)
(* The books of the queue: the backlog and the slots agree with what the   *)
(* calls are doing, in every order of events (operation-queue.ts).         *)
(***************************************************************************)
QueueInv == TypeOK /\ NoCallLost /\ SlotsMatchRunning

(***************************************************************************)
(* Work conservation: whenever the event loop is idle, an operation at the *)
(* head of the backlog could not be dispatched.  Every handler that frees  *)
(* a slot or changes the head must therefore end in drain().               *)
(***************************************************************************)
HeadBlocked ==
    pending # <<>> => ~CanDispatch(Head(pending), inFlight)

(***************************************************************************)
(* "The pending list stays a single FIFO" (run's doc comment): a call that *)
(* started overtook no earlier arrival, except those that never start.     *)
(***************************************************************************)
ServedInArrivalOrder ==
    \A a, b \in Ops :
        (/\ enqueuedAt[a] # 0
         /\ enqueuedAt[a] < enqueuedAt[b]
         /\ startedAs[b] # 0)
        => \/ startedAs[a] # 0 /\ startedAs[a] < startedAs[b]
           \/ startedAs[a] = 0 /\ outcome[a] \in Withdrawn \cup {"queue_full"}

\* The abort listener removes an entry in the same turn its signal fires, so
\* drain() never meets an entry whose signal has fired.
AbortedNotQueued == aborted \cap Queued = {}

\* The backlog is served in order, bounded, and free of entries whose caller
\* has given up, when drain() gets to them.
BacklogInOrder == ServedInArrivalOrder /\ AbortedNotQueued /\ WithinLimits

\* If running operations settle, every call that arrives is answered: no
\* order of arrivals starves a lane.
EveryCallAnswered == \A o \in Ops : enqueuedAt[o] # 0 ~> outcome[o] # "none"

-----------------------------------------------------------------------------
(***************************************************************************)
(* The queue implements the service its callers rely on.                   *)
(***************************************************************************)
Phase(o) ==
    CASE o \in Fresh                -> "idle"
      [] o \in Queued               -> "waiting"
      [] o \in Running              -> "serving"
      [] outcome[o] \in Finished    -> "done"
      [] OTHER                      -> "turned away"

Service == INSTANCE OperationService
               WITH phase <- [o \in Ops |-> Phase(o)], closed <- disposed

\* Every step of the queue is a step of the service, or none of its business.
ImplementsService == Service!Spec

=============================================================================
