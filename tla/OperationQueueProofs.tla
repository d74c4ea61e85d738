------------------------ MODULE OperationQueueProofs ------------------------
(***************************************************************************)
(* Proofs about OperationQueue for every set of calls and every setting of *)
(* the limits.                                                             *)
(***************************************************************************)
EXTENDS OperationQueue, FiniteSetTheorems, SequenceTheorems,
        WellFoundedInduction, TLAPS

Counters == [total : Nat, mutating : Nat, readonly : Nat]
Totals   == [overflowed : Nat, cancelled : Nat, completed : Nat]

-----------------------------------------------------------------------------
(***************************************************************************)
(* Lemmas about the operators of the drain loop.                           *)
(***************************************************************************)

\* The calls a prefix of the backlog starts are finitely many calls.
LEMMA StartedFinite ==
    ASSUME NEW q \in Seq(Ops), NEW n \in 0..Len(q)
    PROVE  /\ Taken(q, n) \subseteq Ops
           /\ Started(q, n) \subseteq Ops
           /\ IsFiniteSet(Taken(q, n))
           /\ IsFiniteSet(Started(q, n))
<1>1. Taken(q, n) \subseteq Ops
  BY DEF Taken
<1>2. Started(q, n) \subseteq Ops
  BY <1>1 DEF Started
<1>3. IsFiniteSet(Taken(q, n)) /\ IsFiniteSet(Started(q, n))
  BY <1>1, <1>2, OptionsAssumption, FS_Subset
<1> QED
  BY <1>1, <1>2, <1>3

\* Acquiring slots for finitely many calls keeps the counters natural.
LEMMA AcquireType ==
    ASSUME NEW held \in Counters, NEW S \in SUBSET Ops
    PROVE  /\ IsFiniteSet(S)
           /\ Cardinality(S) \in Nat
           /\ Acquire(held, S) \in Counters
<1>1. /\ IsFiniteSet(S)
      /\ IsFiniteSet(S \ Readers)
      /\ IsFiniteSet(S \cap Readers)
  BY OptionsAssumption, FS_Subset
<1>2. /\ Cardinality(S) \in Nat
      /\ Cardinality(S \ Readers) \in Nat
      /\ Cardinality(S \cap Readers) \in Nat
  BY <1>1, FS_CardinalityType
<1> QED
  BY <1>1, <1>2 DEF Acquire, Counters

\* Starting a prefix of the backlog keeps the variables it changes well typed.
LEMMA ExecuteType ==
    ASSUME dispatchSequence \in Nat, startedAs \in [Ops -> Nat],
           NEW q \in Seq(Ops), NEW n \in 0..Len(q), NEW held \in Counters,
           Execute(q, n, held)
    PROVE  /\ inFlight' \in Counters
           /\ dispatchSequence' \in Nat
           /\ startedAs' \in [Ops -> Nat]
<1>1. \A i \in 0..n : Started(q, i) \in SUBSET Ops
  BY StartedFinite
<1>2. \A i \in 0..n : Cardinality(Started(q, i)) \in Nat
  BY <1>1, AcquireType
<1>3. inFlight' \in Counters
  BY <1>1, AcquireType DEF Execute
<1>4. dispatchSequence' \in Nat
  BY <1>2 DEF Execute
<1>5. ASSUME NEW o \in Started(q, n)
      PROVE  Index(q, n, o) \in 1..n
  BY DEF Started, Taken, Index
<1>6. ASSUME NEW o \in Started(q, n)
      PROVE  dispatchSequence + Cardinality(Started(q, Index(q, n, o))) \in Nat
  BY <1>2, <1>5
<1>7. startedAs' \in [Ops -> Nat]
  BY <1>6 DEF Execute
<1> QED
  BY <1>3, <1>4, <1>7

\* Adding to one of the totals keeps them natural numbers.
LEMMA CountedType ==
    ASSUME NEW done \in Totals, NEW c \in Nat
    PROVE  /\ [done EXCEPT !.cancelled = @ + c] \in Totals
           /\ [done EXCEPT !.completed = @ + c] \in Totals
           /\ [done EXCEPT !.overflowed = @ + c] \in Totals
<1>1. /\ done.cancelled + c \in Nat
      /\ done.completed + c \in Nat
      /\ done.overflowed + c \in Nat
  BY DEF Totals
<1>2. ASSUME NEW v \in Nat
      PROVE  /\ [done EXCEPT !.cancelled = v] \in Totals
             /\ [done EXCEPT !.completed = v] \in Totals
             /\ [done EXCEPT !.overflowed = v] \in Totals
  BY DEF Totals
<1> QED
  BY <1>1, <1>2

\* Draining keeps the variables it changes well typed.
LEMMA DrainType ==
    ASSUME dispatchSequence \in Nat, startedAs \in [Ops -> Nat],
           NEW q \in Seq(Ops), NEW held \in Counters,
           NEW out \in [Ops -> Outcomes], NEW done \in Totals,
           Drain(q, held, out, done)
    PROVE  /\ pending' \in Seq(Ops)
           /\ inFlight' \in Counters
           /\ stats' \in Totals
           /\ dispatchSequence' \in Nat
           /\ startedAs' \in [Ops -> Nat]
           /\ outcome' \in [Ops -> Outcomes]
<1>1. PICK n \in 0..Len(q) :
          /\ DrainStops(q, n, held)
          /\ pending' = SubSeq(q, n + 1, Len(q))
          /\ Execute(q, n, held)
          /\ outcome' = [o \in Ops |-> IF o \in Taken(q, n) \cap aborted
                                       THEN "cancelled" ELSE out[o]]
          /\ stats' = [done EXCEPT
                          !.cancelled = @ + Cardinality(Taken(q, n) \cap aborted)]
  BY DEF Drain
<1>2. pending' \in Seq(Ops)
  BY <1>1, SubSeqProperties
<1>3. outcome' \in [Ops -> Outcomes]
  BY <1>1 DEF Outcomes, Withdrawn, Finished
<1>4. Cardinality(Taken(q, n) \cap aborted) \in Nat
  BY StartedFinite, FS_Intersection, FS_CardinalityType
<1>5. stats' \in Totals
  BY <1>1, <1>4, CountedType
<1> QED
  BY <1>1, <1>2, <1>3, <1>5, ExecuteType

(***************************************************************************)
(* The loop stops at an entry that cannot be dispatched with the slots the *)
(* entries before it have taken.                                           *)
(***************************************************************************)
LEMMA DrainHead ==
    ASSUME NEW q \in Seq(Ops), NEW held, NEW out, NEW done,
           Drain(q, held, out, done)
    PROVE  HeadBlocked'
<1>1. PICK n \in 0..Len(q) :
          /\ DrainStops(q, n, held)
          /\ pending' = SubSeq(q, n + 1, Len(q))
          /\ inFlight' = Acquire(held, Started(q, n))
  BY DEF Drain, Execute
<1>2. CASE n = Len(q)
  BY <1>1, <1>2, SubSeqEmpty DEF HeadBlocked
<1>3. CASE n < Len(q)
  <2>1. Head(pending') = q[n + 1]
    BY <1>1, <1>3, HeadTailOfSubSeq
  <2>2. ~CanDispatch(q[n + 1], Acquire(held, Started(q, n)))
    BY <1>1, <1>3 DEF DrainStops, DispatchableAt
  <2> QED
    BY <1>1, <2>1, <2>2 DEF HeadBlocked, CanDispatch
<1> QED
  BY <1>2, <1>3

-----------------------------------------------------------------------------
(***************************************************************************)
(* Counting.  Counts(S) is what the counters say when S is running.        *)
(***************************************************************************)
Counts(S) == [total    |-> Cardinality(S),
              mutating |-> Cardinality(S \ Readers),
              readonly |-> Cardinality(S \cap Readers)]

\* Starting calls that were not running adds them to the count.
LEMMA AcquireCounts ==
    ASSUME NEW S \in SUBSET Ops, NEW T \in SUBSET Ops, S \cap T = {}
    PROVE  Acquire(Counts(S), T) = Counts(S \cup T)
<1> DEFINE Adds(A, B) == Cardinality(A \cup B) = Cardinality(A) + Cardinality(B)
<1>1. ASSUME NEW A \in SUBSET Ops, NEW B \in SUBSET Ops, A \cap B = {}
      PROVE  Adds(A, B)
  <2>1. IsFiniteSet(A) /\ IsFiniteSet(B)
    BY OptionsAssumption, FS_Subset
  <2>2. Cardinality(A) \in Nat /\ Cardinality(B) \in Nat
    BY <2>1, FS_CardinalityType
  <2>3. Cardinality(A \cup B)
            = Cardinality(A) + Cardinality(B) - Cardinality(A \cap B)
    BY <2>1, FS_Union
  <2>4. Cardinality(A \cap B) = 0
    BY <1>1, FS_EmptySet
  <2> QED
    BY <2>2, <2>3, <2>4
<1>2. Adds(S, T)
  BY <1>1
<1>3. Adds(S \ Readers, T \ Readers)
  BY <1>1
<1>4. Adds(S \cap Readers, T \cap Readers)
  BY <1>1
<1>5. /\ (S \cup T) \ Readers = (S \ Readers) \cup (T \ Readers)
      /\ (S \cup T) \cap Readers = (S \cap Readers) \cup (T \cap Readers)
  OBVIOUS
<1> QED
  BY <1>2, <1>3, <1>4, <1>5 DEF Acquire, Counts

\* A running call that settles is taken off the count.
LEMMA ReleaseCounts ==
    ASSUME NEW S \in SUBSET Ops, NEW o \in S
    PROVE  Release(Counts(S), o) = Counts(S \ {o})
<1>1. /\ IsFiniteSet(S)
      /\ IsFiniteSet(S \ Readers)
      /\ IsFiniteSet(S \cap Readers)
  BY OptionsAssumption, FS_Subset
<1>2. Cardinality(S \ {o}) = Cardinality(S) - 1
  BY <1>1, FS_RemoveElement
<1>3. CASE o \in Readers
  <2>1. /\ (S \ {o}) \ Readers = S \ Readers
        /\ (S \ {o}) \cap Readers = (S \cap Readers) \ {o}
    BY <1>3
  <2>2. Cardinality((S \cap Readers) \ {o}) = Cardinality(S \cap Readers) - 1
    BY <1>1, <1>3, FS_RemoveElement
  <2> QED
    BY <1>2, <1>3, <2>1, <2>2 DEF Release, Counts
<1>4. CASE o \notin Readers
  <2>1. /\ (S \ {o}) \ Readers = (S \ Readers) \ {o}
        /\ (S \ {o}) \cap Readers = S \cap Readers
    BY <1>4
  <2>2. Cardinality((S \ Readers) \ {o}) = Cardinality(S \ Readers) - 1
    BY <1>1, <1>4, FS_RemoveElement
  <2> QED
    BY <1>2, <1>4, <2>1, <2>2 DEF Release, Counts
<1> QED
  BY <1>3, <1>4

LEMMA CountsType ==
    ASSUME NEW S \in SUBSET Ops
    PROVE  Counts(S) \in Counters
<1>1. /\ IsFiniteSet(S)
      /\ IsFiniteSet(S \ Readers)
      /\ IsFiniteSet(S \cap Readers)
  BY OptionsAssumption, FS_Subset
<1> QED
  BY <1>1, FS_CardinalityType DEF Counts, Counters

\* A started call is numbered from 1.
LEMMA StartNumber ==
    ASSUME NEW q \in Seq(Ops), NEW n \in 0..Len(q), NEW o \in Started(q, n)
    PROVE  /\ Index(q, n, o) \in 1..n
           /\ Cardinality(Started(q, Index(q, n, o))) \in Nat \ {0}
<1>1. /\ Index(q, n, o) \in 1..n
      /\ q[Index(q, n, o)] = o
  BY DEF Started, Taken, Index
<1>2. o \in Started(q, Index(q, n, o))
  BY <1>1 DEF Started, Taken
<1>3. IsFiniteSet(Started(q, Index(q, n, o)))
  BY <1>1, StartedFinite
<1>4. Cardinality(Started(q, Index(q, n, o))) \in Nat
  BY <1>3, FS_CardinalityType
<1>5. Cardinality(Started(q, Index(q, n, o))) # 0
  BY <1>2, <1>3, FS_EmptySet
<1> QED
  BY <1>1, <1>4, <1>5

-----------------------------------------------------------------------------
(***************************************************************************)
(* The inductive invariant.  The counters stay natural numbers because a   *)
(* slot is only given back by a call that holds one (SlotsMatchRunning);   *)
(* starting a queued call adds to the count because it was not running     *)
(* (NoCallLost); the handlers that skip drain() when disposed leave no     *)
(* dispatchable head behind because the backlog is empty.                  *)
(***************************************************************************)
StartedHasArrived == \A o \in Ops : enqueuedAt[o] = 0 => startedAs[o] = 0
DisposedEmpty     == disposed => pending = <<>>

IInv ==
    /\ TypeOK
    /\ StartedHasArrived
    /\ NoCallLost
    /\ SlotsMatchRunning
    /\ DisposedEmpty
    /\ HeadBlocked

\* The calls that wait and those that run once outcome has the value out.
Waiting(out)   == {o \in Ops : /\ enqueuedAt[o] # 0
                               /\ startedAs[o] = 0
                               /\ out[o] = "none"}
RunningIn(out) == {o \in Ops : startedAs[o] # 0 /\ out[o] = "none"}

Injective(q) == \A i, j \in 1..Len(q) : q[i] = q[j] => i = j

(***************************************************************************)
(* Draining a backlog that holds exactly the waiting calls, with the slots *)
(* of the running ones held, re-establishes the invariant.                 *)
(***************************************************************************)
LEMMA DrainInv ==
    ASSUME TypeOK, StartedHasArrived,
           NEW q \in Seq(Ops), NEW held \in Counters,
           NEW out \in [Ops -> Outcomes], NEW done \in Totals,
           Waiting(out) = Taken(q, Len(q)),
           Injective(q),
           held = Counts(RunningIn(out)),
           Drain(q, held, out, done),
           enqueuedAt' = enqueuedAt, aborted' \subseteq Ops,
           disposed' = disposed, disposed = FALSE
    PROVE  IInv'
<1>1. PICK n \in 0..Len(q) :
          /\ pending' = SubSeq(q, n + 1, Len(q))
          /\ Execute(q, n, held)
          /\ outcome' = [o \in Ops |-> IF o \in Taken(q, n) \cap aborted
                                       THEN "cancelled" ELSE out[o]]
  BY DEF Drain
<1>2. ASSUME NEW o \in Started(q, n)
      PROVE  /\ o \in Waiting(out)
             /\ startedAs'[o] \in Nat \ {0}
             /\ outcome'[o] = "none"
  <2>1. o \in Waiting(out)
    BY DEF Started, Taken
  <2>2. startedAs'[o] \in Nat \ {0}
    <3>1. startedAs'[o]
              = dispatchSequence + Cardinality(Started(q, Index(q, n, o)))
      BY <1>1, <2>1 DEF Execute, Waiting
    <3>2. Cardinality(Started(q, Index(q, n, o))) \in Nat \ {0}
      BY StartNumber
    <3>3. dispatchSequence \in Nat
      BY DEF TypeOK
    <3> QED
      BY <3>1, <3>2, <3>3
  <2>3. outcome'[o] = "none"
    BY <1>1, <2>1 DEF Started, Waiting
  <2> QED
    BY <2>1, <2>2, <2>3
<1>3. ASSUME NEW o \in Ops, o \notin Started(q, n)
      PROVE  startedAs'[o] = startedAs[o]
  BY <1>1, <1>3 DEF Execute
<1>4. TypeOK'
  BY DrainType DEF TypeOK, Counters, Totals
<1>5. StartedHasArrived'
  <2>1. \A o \in Waiting(out) : enqueuedAt[o] # 0
    BY DEF Waiting
  <2> QED
    BY <1>2, <1>3, <2>1 DEF StartedHasArrived
<1>6. NoCallLost'
  <2>1. \A i \in 1..Len(pending') : pending'[i] = q[n + i]
    BY <1>1
  <2>2. Len(pending') = Len(q) - n
    BY <1>1
  <2>3. \A i, j \in 1..Len(pending') : pending'[i] = pending'[j] => i = j
    <3> SUFFICES ASSUME NEW i \in 1..Len(pending'), NEW j \in 1..Len(pending'),
                        pending'[i] = pending'[j]
                 PROVE  i = j
      OBVIOUS
    <3>1. n + i \in 1..Len(q) /\ n + j \in 1..Len(q)
      BY <2>2
    <3>2. q[n + i] = q[n + j]
      BY <2>1
    <3>3. n + i = n + j
      BY <3>1, <3>2 DEF Injective
    <3> QED
      BY <3>3
  <2>4. Queued' = Waiting(out) \ Taken(q, n)
    <3>1. ASSUME NEW o \in Queued'
          PROVE  o \in Waiting(out) /\ o \notin Taken(q, n)
      <4>1. PICK i \in 1..Len(pending') : pending'[i] = o
        BY DEF Queued
      <4>2. n + i \in 1..Len(q) /\ n + i \notin 1..n
        BY <2>2
      <4>3. q[n + i] = o
        BY <2>1, <4>1
      <4>4. o \in Taken(q, Len(q))
        BY <4>2, <4>3 DEF Taken
      <4>5. ASSUME NEW k \in 1..n
            PROVE  q[k] # o
        <5>1. k \in 1..Len(q) /\ k # n + i
          BY <4>2
        <5> QED
          BY <4>2, <4>3, <5>1 DEF Injective
      <4> QED
        BY <4>4, <4>5 DEF Taken
    <3>2. ASSUME NEW o \in Waiting(out), o \notin Taken(q, n)
          PROVE  o \in Queued'
      <4>1. PICK k \in 1..Len(q) : q[k] = o
        <5>1. o \in Taken(q, Len(q))
          OBVIOUS
        <5> QED
          BY <5>1 DEF Taken
      <4>2. k \notin 1..n
        BY <3>2, <4>1 DEF Taken
      <4>3. k - n \in 1..Len(pending') /\ n + (k - n) = k
        BY <2>2, <4>2
      <4>4. pending'[k - n] = o
        BY <2>1, <4>1, <4>3
      <4> QED
        BY <4>3, <4>4 DEF Queued
    <3> QED
      BY <3>1, <3>2
  <2>5. Waiting(out) \ Taken(q, n)
            = {o \in Ops : /\ enqueuedAt'[o] # 0
                           /\ startedAs'[o] = 0
                           /\ outcome'[o] = "none"}
    <3>1. ASSUME NEW o \in Ops, o \notin Taken(q, n)
          PROVE  startedAs'[o] = startedAs[o] /\ outcome'[o] = out[o]
      BY <1>1, <1>3, <3>1 DEF Started
    <3>2. ASSUME NEW o \in Ops, o \in Taken(q, n)
          PROVE  startedAs'[o] # 0 \/ outcome'[o] # "none"
      BY <1>1, <1>2, <3>2 DEF Started
    <3> QED
      BY <3>1, <3>2 DEF Waiting
  <2> QED
    BY <2>3, <2>4, <2>5 DEF NoCallLost
<1>7. SlotsMatchRunning'
  <2>1. Running' = RunningIn(out) \cup Started(q, n)
    <3>1. ASSUME NEW o \in Ops, o \notin Taken(q, n)
          PROVE  startedAs'[o] = startedAs[o] /\ outcome'[o] = out[o]
      BY <1>1, <1>3, <3>1 DEF Started
    <3>2. ASSUME NEW o \in Taken(q, n), o \in aborted
          PROVE  o \notin RunningIn(out) /\ outcome'[o] # "none"
      <4>1. o \in Waiting(out) /\ o \in Ops
        <5>1. o \in Taken(q, Len(q))
          BY DEF Taken
        <5> QED
          BY <5>1 DEF Waiting
      <4> QED
        BY <1>1, <3>2, <4>1 DEF Waiting, RunningIn
    <3>3. Taken(q, n) \subseteq Ops
      BY StartedFinite
    <3> QED
      BY <1>2, <3>1, <3>2, <3>3 DEF Running, RunningIn, Started
  <2>2. /\ RunningIn(out) \in SUBSET Ops
        /\ Started(q, n) \in SUBSET Ops
        /\ RunningIn(out) \cap Started(q, n) = {}
    BY <1>2, StartedFinite DEF RunningIn, Waiting
  <2>3. inFlight' = Counts(Running')
    BY <1>1, <2>1, <2>2, AcquireCounts DEF Execute
  <2> QED
    BY <2>3 DEF SlotsMatchRunning, Counts, RunningMutating, RunningReadonly
<1>8. DisposedEmpty'
  BY DEF DisposedEmpty
<1>9. HeadBlocked'
  BY DrainHead
<1> QED
  BY <1>4, <1>5, <1>6, <1>7, <1>8, <1>9 DEF IInv

-----------------------------------------------------------------------------
(***************************************************************************)
(* The steps.                                                              *)
(***************************************************************************)
LEMMA TakenAll ==
    ASSUME NEW q \in Seq(Ops)
    PROVE  Taken(q, Len(q)) = {q[i] : i \in 1..Len(q)}
  BY DEF Taken

LEMMA CountsOfRunning == TypeOK /\ SlotsMatchRunning => inFlight = Counts(Running)
  BY DEF TypeOK, SlotsMatchRunning, Counts, RunningMutating, RunningReadonly

\* Init establishes the invariant.
LEMMA InitInv == Init => IInv
<1> SUFFICES ASSUME Init PROVE IInv
  OBVIOUS
<1>1. TypeOK
  <2>1. pending \in Seq(Ops)
    BY DEF Init
  <2>2. /\ inFlight \in Counters
        /\ stats \in Totals
    BY DEF Init, Counters, Totals
  <2>3. /\ enqueuedAt \in [Ops -> Nat]
        /\ startedAs \in [Ops -> Nat]
        /\ outcome \in [Ops -> Outcomes]
    BY DEF Init, Outcomes
  <2> QED
    BY <2>1, <2>2, <2>3 DEF Init, TypeOK, Counters, Totals
<1>2. StartedHasArrived
  BY DEF Init, StartedHasArrived
<1>3. NoCallLost
  BY DEF Init, NoCallLost, Queued
<1>4. SlotsMatchRunning
  <2>1. Running = {} /\ RunningMutating = {} /\ RunningReadonly = {}
    BY DEF Init, Running, RunningMutating, RunningReadonly
  <2> QED
    BY <2>1, FS_EmptySet DEF Init, SlotsMatchRunning
<1>5. DisposedEmpty /\ HeadBlocked
  BY DEF Init, DisposedEmpty, HeadBlocked
<1> QED
  BY <1>1, <1>2, <1>3, <1>4, <1>5 DEF IInv

\* A call that is refused at once changes nothing but its own outcome.
LEMMA RefuseInv ==
    ASSUME IInv, NEW o \in Fresh, NEW code \in Withdrawn, Refuse(o, code)
    PROVE  IInv'
<1> USE DEF IInv
<1>1. o \in Ops /\ enqueuedAt[o] = 0 /\ startedAs[o] = 0
  BY DEF Fresh, StartedHasArrived
<1>2. TypeOK'
  <2>1. stats' \in Totals
    BY CountedType DEF Refuse, TypeOK, Totals
  <2> QED
    BY <2>1 DEF Refuse, TypeOK, Totals, Outcomes
<1>3. StartedHasArrived'
  BY DEF Refuse, StartedHasArrived
<1>4. NoCallLost'
  <2>1. \A p \in Ops \ {o} : outcome'[p] = outcome[p]
    BY DEF Refuse, TypeOK
  <2>2. Queued' = Queued
    BY DEF Refuse, Queued
  <2> QED
    BY <1>1, <2>1, <2>2 DEF Refuse, NoCallLost
<1>5. SlotsMatchRunning'
  <2>1. Running' = Running
    BY <1>1 DEF Refuse, Running, TypeOK
  <2> QED
    BY <2>1 DEF Refuse, SlotsMatchRunning, RunningMutating, RunningReadonly
<1>6. DisposedEmpty' /\ HeadBlocked'
  BY DEF Refuse, DisposedEmpty, HeadBlocked, CanDispatch
<1> QED
  BY <1>2, <1>3, <1>4, <1>5, <1>6

\* A new arrival gets a positive number and leaves the other calls alone.
LEMMA ArriveFacts ==
    ASSUME IInv, NEW o \in Ops, Arrive(o)
    PROVE  /\ startedAs[o] = 0
           /\ outcome[o] = "none"
           /\ o \notin Queued
           /\ o \notin Running
           /\ o \notin aborted
           /\ enqueuedAt' \in [Ops -> Nat]
           /\ enqueuedAt'[o] # 0
           /\ \A p \in Ops \ {o} : enqueuedAt'[p] = enqueuedAt[p]
<1> USE DEF IInv
<1>1. o \in Fresh /\ o \notin aborted
  BY DEF Arrive
<1>2. enqueuedAt[o] = 0 /\ startedAs[o] = 0 /\ outcome[o] = "none"
  BY <1>1 DEF Fresh, StartedHasArrived
<1>3. Arrivals \in Nat
  <2>1. IsFiniteSet({p \in Ops : enqueuedAt[p] # 0})
    BY OptionsAssumption, FS_Subset
  <2> QED
    BY <2>1, FS_CardinalityType DEF Arrivals
<1>4. enqueuedAt' = [enqueuedAt EXCEPT ![o] = Arrivals + 1]
  BY DEF Arrive
<1>5. o \notin Queued
  BY <1>2 DEF NoCallLost
<1>6. o \notin Running
  BY <1>2 DEF Running
<1>7. enqueuedAt \in [Ops -> Nat]
  BY DEF TypeOK
<1> QED
  BY <1>1, <1>2, <1>3, <1>4, <1>5, <1>6, <1>7

\* The fast path of run().
LEMMA RunNowInv ==
    ASSUME IInv, NEW o \in Ops, RunNow(o)
    PROVE  IInv'
<1> USE DEF IInv
<1>1. /\ Arrive(o)
      /\ pending = <<>>
      /\ Execute(<<o>>, 1, inFlight)
      /\ UNCHANGED <<pending, stats, outcome, disposed, aborted>>
  BY DEF RunNow, MayStartNow, Arrive
<1>2. <<o>> \in Seq(Ops) /\ 1 \in 0..Len(<<o>>) /\ <<o>>[1] = o
  OBVIOUS
<1>3. Started(<<o>>, 1) = {o}
  <2>1. Taken(<<o>>, 1) = {o}
    BY <1>2 DEF Taken
  <2> QED
    BY <1>1, <2>1, ArriveFacts DEF Started
<1>4. /\ startedAs' \in [Ops -> Nat]
      /\ inFlight' \in Counters
      /\ dispatchSequence' \in Nat
  <2>1. /\ dispatchSequence \in Nat
        /\ startedAs \in [Ops -> Nat]
        /\ inFlight \in Counters
    BY DEF TypeOK, Counters
  <2> QED
    BY <1>1, <1>2, <2>1, ExecuteType
<1>5. \A p \in Ops \ {o} : startedAs'[p] = startedAs[p]
  BY <1>1, <1>3 DEF Execute
<1>6. startedAs'[o] # 0
  <2>1. startedAs'[o]
            = dispatchSequence + Cardinality(Started(<<o>>, Index(<<o>>, 1, o)))
    BY <1>1, <1>3 DEF Execute
  <2>2. Cardinality(Started(<<o>>, Index(<<o>>, 1, o))) \in Nat \ {0}
    BY <1>2, <1>3, StartNumber
  <2>3. dispatchSequence \in Nat
    BY DEF TypeOK
  <2> QED
    BY <2>1, <2>2, <2>3
<1>7. TypeOK'
  BY <1>1, <1>4, ArriveFacts DEF TypeOK, Counters
<1>8. StartedHasArrived'
  BY <1>1, <1>5, ArriveFacts DEF StartedHasArrived
<1>9. NoCallLost'
  <2>1. Queued' = Queued
    BY <1>1 DEF Queued
  <2> QED
    BY <1>1, <1>5, <1>6, <2>1, ArriveFacts DEF NoCallLost
<1>10. SlotsMatchRunning'
  <2>1. Running' = Running \cup {o}
    BY <1>1, <1>5, <1>6, ArriveFacts DEF Running
  <2>2. inFlight = Counts(Running)
    BY CountsOfRunning
  <2>3. Running \in SUBSET Ops /\ Running \cap {o} = {}
    BY <1>1, ArriveFacts DEF Running
  <2>4. inFlight' = Counts(Running')
    BY <1>1, <1>3, <2>1, <2>2, <2>3, AcquireCounts DEF Execute
  <2> QED
    BY <2>4 DEF SlotsMatchRunning, Counts, RunningMutating, RunningReadonly
<1>11. DisposedEmpty' /\ HeadBlocked'
  BY <1>1 DEF DisposedEmpty, HeadBlocked
<1> QED
  BY <1>7, <1>8, <1>9, <1>10, <1>11

\* The overflow guard of run().
LEMMA RunOverflowInv ==
    ASSUME IInv, NEW o \in Ops, RunOverflow(o)
    PROVE  IInv'
<1> USE DEF IInv
<1>1. /\ Arrive(o)
      /\ outcome' = [outcome EXCEPT ![o] = "queue_full"]
      /\ stats' = [stats EXCEPT !.overflowed = @ + 1]
      /\ UNCHANGED <<pending, inFlight, dispatchSequence, startedAs,
                     disposed, aborted>>
  BY DEF RunOverflow, Arrive
<1>2. TypeOK'
  <2>1. stats' \in Totals
    BY <1>1, CountedType DEF TypeOK, Totals
  <2> QED
    BY <1>1, <2>1, ArriveFacts DEF TypeOK, Totals, Outcomes
<1>3. StartedHasArrived'
  BY <1>1, ArriveFacts DEF StartedHasArrived
<1>4. \A p \in Ops \ {o} : outcome'[p] = outcome[p]
  BY <1>1 DEF TypeOK
<1>5. outcome'[o] # "none"
  BY <1>1 DEF TypeOK
<1>6. NoCallLost'
  <2>1. Queued' = Queued
    BY <1>1 DEF Queued
  <2> QED
    BY <1>1, <1>4, <1>5, <2>1, ArriveFacts DEF NoCallLost
<1>7. SlotsMatchRunning'
  <2>1. Running' = Running
    BY <1>1, <1>4, ArriveFacts DEF Running
  <2> QED
    BY <1>1, <2>1 DEF SlotsMatchRunning, RunningMutating, RunningReadonly
<1>8. DisposedEmpty' /\ HeadBlocked'
  BY <1>1 DEF DisposedEmpty, HeadBlocked, CanDispatch
<1> QED
  BY <1>2, <1>3, <1>6, <1>7, <1>8

\* enqueue().
LEMMA RunEnqueueInv ==
    ASSUME IInv, NEW o \in Ops, RunEnqueue(o)
    PROVE  IInv'
<1> USE DEF IInv
<1>1. /\ Arrive(o)
      /\ ~MayStartNow(o)
      /\ pending' = Append(pending, o)
      /\ UNCHANGED <<inFlight, stats, dispatchSequence, startedAs, outcome,
                     disposed, aborted>>
  BY DEF RunEnqueue, Arrive
<1>2. pending \in Seq(Ops)
  BY DEF TypeOK
<1>3. /\ pending' \in Seq(Ops)
      /\ Len(pending') = Len(pending) + 1
      /\ \A i \in 1..Len(pending) : pending'[i] = pending[i]
      /\ pending'[Len(pending) + 1] = o
  BY <1>1, <1>2, AppendProperties
<1>4. TypeOK'
  BY <1>1, <1>3, ArriveFacts DEF TypeOK
<1>5. StartedHasArrived'
  BY <1>1, ArriveFacts DEF StartedHasArrived
<1>6. NoCallLost'
  <2>1. Queued' = Queued \cup {o}
    BY <1>2, <1>3 DEF Queued
  <2>2. \A i, j \in 1..Len(pending') : pending'[i] = pending'[j] => i = j
    BY <1>1, <1>2, <1>3, ArriveFacts DEF NoCallLost, Queued
  <2> QED
    BY <1>1, <2>1, <2>2, ArriveFacts DEF NoCallLost
<1>7. SlotsMatchRunning'
  <2>1. Running' = Running
    BY <1>1 DEF Running
  <2> QED
    BY <1>1, <2>1 DEF SlotsMatchRunning, RunningMutating, RunningReadonly
<1>8. DisposedEmpty'
  BY <1>1 DEF Arrive, DisposedEmpty
<1>9. HeadBlocked'
  <2>1. Head(pending') = IF pending = <<>> THEN o ELSE Head(pending)
    BY <1>1, <1>2, HeadTailAppend
  <2>2. ~CanDispatch(Head(pending'), inFlight)
    BY <1>1, <2>1 DEF MayStartNow, HeadBlocked
  <2> QED
    BY <1>1, <2>2 DEF HeadBlocked, CanDispatch
<1> QED
  BY <1>4, <1>5, <1>6, <1>7, <1>8, <1>9

\* The finally block of execute().
LEMMA CompleteInv ==
    ASSUME IInv, NEW o \in Ops, NEW result \in Finished, Complete(o, result)
    PROVE  IInv'
<1> USE DEF IInv
<1> DEFINE held == Release(inFlight, o)
           out  == [outcome EXCEPT ![o] = result]
           done == [stats EXCEPT !.completed = @ + 1]
<1>1. /\ o \in Running
      /\ UNCHANGED <<disposed, aborted, enqueuedAt>>
  BY DEF Complete
<1>2. /\ out \in [Ops -> Outcomes]
      /\ out[o] # "none"
      /\ \A p \in Ops \ {o} : out[p] = outcome[p]
  BY DEF TypeOK, Outcomes, Finished
<1>3. RunningIn(out) = Running \ {o}
  BY <1>2 DEF RunningIn, Running
<1>4. held = Counts(RunningIn(out))
  BY <1>1, <1>3, CountsOfRunning, ReleaseCounts DEF Running
<1>5. held \in Counters
  BY <1>4, CountsType DEF RunningIn
<1>6. done \in Totals
  BY CountedType DEF TypeOK, Totals
<1>7. Waiting(out) = Queued
  BY <1>1, <1>2 DEF Waiting, NoCallLost, Running
<1>8. CASE ~disposed
  <2>1. pending \in Seq(Ops) /\ Injective(pending)
    BY DEF TypeOK, NoCallLost, Injective
  <2>2. Waiting(out) = Taken(pending, Len(pending))
    BY <1>7 DEF Queued, Taken
  <2>3. Drain(pending, held, out, done)
    BY <1>8 DEF Complete
  <2>4. aborted' \subseteq Ops /\ disposed' = disposed /\ disposed = FALSE
    BY <1>1, <1>8 DEF TypeOK
  <2> HIDE DEF held, out, done
  <2> QED
    BY <1>1, <1>2, <1>4, <1>5, <1>6, <2>1, <2>2, <2>3, <2>4, DrainInv
<1>9. CASE disposed
  <2>1. /\ inFlight' = held
        /\ outcome' = out
        /\ stats' = done
        /\ UNCHANGED <<pending, dispatchSequence, startedAs>>
    BY <1>9 DEF Complete
  <2> HIDE DEF held, out, done
  <2>2. TypeOK'
    BY <1>1, <1>2, <1>5, <1>6, <2>1 DEF TypeOK, Counters, Totals
  <2>3. StartedHasArrived'
    BY <1>1, <2>1 DEF StartedHasArrived
  <2>4. NoCallLost'
    <3>1. Queued' = Queued
      BY <2>1 DEF Queued
    <3>2. Waiting(out) = {p \in Ops : /\ enqueuedAt'[p] # 0
                                      /\ startedAs'[p] = 0
                                      /\ outcome'[p] = "none"}
      BY <1>1, <2>1 DEF Waiting
    <3> QED
      BY <1>7, <2>1, <3>1, <3>2 DEF NoCallLost
  <2>5. SlotsMatchRunning'
    <3>1. Running' = RunningIn(out)
      BY <2>1 DEF Running, RunningIn
    <3> QED
      BY <1>4, <2>1, <3>1
      DEF SlotsMatchRunning, Counts, RunningMutating, RunningReadonly
  <2>6. DisposedEmpty' /\ HeadBlocked'
    BY <1>9, <2>1 DEF DisposedEmpty, HeadBlocked
  <2> QED
    BY <2>2, <2>3, <2>4, <2>5, <2>6
<1> QED
  BY <1>8, <1>9

\* Removing one entry moves those behind it up by one.
LEMMA WithoutIndexed ==
    ASSUME NEW q \in Seq(Ops), NEW i \in 1..Len(q)
    PROVE  /\ Without(q, i) \in Seq(Ops)
           /\ Len(Without(q, i)) = Len(q) - 1
           /\ \A k \in 1..(Len(q) - 1) :
                  Without(q, i)[k] = IF k < i THEN q[k] ELSE q[k + 1]
<1> DEFINE r == Without(q, i)
<1>1. /\ SubSeq(q, 1, i - 1) \in Seq(Ops)
      /\ Len(SubSeq(q, 1, i - 1)) = i - 1
      /\ \A k \in 1..(i - 1) : SubSeq(q, 1, i - 1)[k] = q[k]
  BY SubSeqProperties
<1>2. /\ SubSeq(q, i + 1, Len(q)) \in Seq(Ops)
      /\ Len(SubSeq(q, i + 1, Len(q))) = Len(q) - i
      /\ \A k \in 1..(Len(q) - i) : SubSeq(q, i + 1, Len(q))[k] = q[i + k]
  BY SubSeqProperties
<1>3. /\ r \in Seq(Ops)
      /\ Len(r) = Len(q) - 1
      /\ \A k \in 1..(Len(q) - 1) : r[k] = IF k < i THEN q[k] ELSE q[k + 1]
  <2> DEFINE a == SubSeq(q, 1, i - 1)
             b == SubSeq(q, i + 1, Len(q))
  <2> HIDE DEF a, b
  <2>1. /\ a \in Seq(Ops) /\ Len(a) = i - 1
        /\ b \in Seq(Ops) /\ Len(b) = Len(q) - i
    BY <1>1, <1>2 DEF a, b
  <2>2. /\ a \o b \in Seq(Ops)
        /\ Len(a \o b) = (i - 1) + (Len(q) - i)
        /\ \A k \in 1..(i - 1) + (Len(q) - i) :
               (a \o b)[k] = IF k <= i - 1 THEN a[k] ELSE b[k - (i - 1)]
    <3>1. /\ a \o b \in Seq(Ops)
          /\ Len(a \o b) = Len(a) + Len(b)
          /\ \A k \in 1..Len(a) + Len(b) :
                 (a \o b)[k] = IF k <= Len(a) THEN a[k] ELSE b[k - Len(a)]
      BY <2>1, ConcatProperties
    <3> QED
      BY <2>1, <3>1
  <2>3. ASSUME NEW k \in 1..(Len(q) - 1)
        PROVE  (a \o b)[k] = IF k < i THEN q[k] ELSE q[k + 1]
    <3>1. CASE k < i
      BY <1>1, <2>2, <3>1 DEF a
    <3>2. CASE k >= i
      <4>1. k - (i - 1) \in 1..(Len(q) - i) /\ i + (k - (i - 1)) = k + 1
        BY <3>2
      <4>2. b[k - (i - 1)] = q[k + 1]
        BY <1>2, <4>1 DEF b
      <4> QED
        BY <2>2, <3>2, <4>2
    <3>3. k < i \/ k >= i
      BY Len(q) \in Nat
    <3> QED
      BY <3>1, <3>2, <3>3
  <2>4. r = a \o b
    BY DEF r, a, b, Without
  <2>5. (i - 1) + (Len(q) - i) = Len(q) - 1
    OBVIOUS
  <2>6. a \o b \in Seq(Ops) /\ Len(a \o b) = Len(q) - 1
    BY <2>2, <2>5
  <2> HIDE DEF r
  <2> QED
    BY <2>3, <2>4, <2>6
<1> QED
  BY <1>3

\* Removing one entry of the backlog.
LEMMA WithoutFacts ==
    ASSUME NEW q \in Seq(Ops), Injective(q), NEW i \in 1..Len(q)
    PROVE  /\ Without(q, i) \in Seq(Ops)
           /\ Injective(Without(q, i))
           /\ Taken(Without(q, i), Len(Without(q, i)))
                  = Taken(q, Len(q)) \ {q[i]}
<1> DEFINE r == Without(q, i)
<1>3. /\ r \in Seq(Ops)
      /\ Len(r) = Len(q) - 1
      /\ \A k \in 1..(Len(q) - 1) : r[k] = IF k < i THEN q[k] ELSE q[k + 1]
  BY WithoutIndexed
<1> HIDE DEF r
<1>4. Injective(r)
  <2>1. ASSUME NEW j \in 1..Len(r), NEW k \in 1..Len(r), r[j] = r[k]
        PROVE  j = k
    <3> DEFINE jj == IF j < i THEN j ELSE j + 1
               kk == IF k < i THEN k ELSE k + 1
    <3>1. jj \in 1..Len(q) /\ kk \in 1..Len(q) /\ r[j] = q[jj] /\ r[k] = q[kk]
      BY <1>3
    <3>2. jj = kk
      BY <2>1, <3>1 DEF Injective
    <3> QED
      BY <3>2
  <2> QED
    BY <2>1 DEF Injective
<1>5. ASSUME NEW o \in Taken(r, Len(r))
      PROVE  o \in Taken(q, Len(q)) \ {q[i]}
  <2>1. PICK k \in 1..(Len(q) - 1) : r[k] = o
    BY <1>3 DEF Taken
  <2>2. CASE k < i
    BY <1>3, <2>1, <2>2 DEF Taken, Injective
  <2>3. CASE k >= i
    BY <1>3, <2>1, <2>3 DEF Taken, Injective
  <2> QED
    BY <2>2, <2>3
<1>6. ASSUME NEW o \in Taken(q, Len(q)) \ {q[i]}
      PROVE  o \in Taken(r, Len(r))
  <2>1. PICK k \in 1..Len(q) : q[k] = o /\ k # i
    BY DEF Taken
  <2>2. CASE k < i
    <3>1. k \in 1..Len(r) /\ r[k] = o
      BY <1>3, <2>1, <2>2
    <3> QED
      BY <3>1 DEF Taken
  <2>3. CASE k > i
    <3>1. k - 1 \in 1..Len(r) /\ r[k - 1] = o
      BY <1>3, <2>1, <2>3
    <3> QED
      BY <3>1 DEF Taken
  <2> QED
    BY <2>1, <2>2, <2>3
<1> QED
  BY <1>3, <1>4, <1>5, <1>6 DEF r

\* cancelPending(), reached from a timer or from an abort listener.
LEMMA CancelPendingInv ==
    ASSUME IInv, NEW o \in Ops, NEW code \in Withdrawn,
           CancelPending(o, code),
           UNCHANGED <<disposed, enqueuedAt>>, aborted' \subseteq Ops
    PROVE  IInv'
<1> USE DEF IInv
<1> DEFINE out  == [outcome EXCEPT ![o] = code]
           done == [stats EXCEPT !.cancelled = @ + 1]
<1>1. PICK i \in 1..Len(pending) :
          /\ pending[i] = o
          /\ Drain(Without(pending, i), inFlight, out, done)
  BY DEF CancelPending
<1>2. /\ out \in [Ops -> Outcomes]
      /\ out[o] # "none"
      /\ \A p \in Ops \ {o} : out[p] = outcome[p]
  BY DEF TypeOK, Outcomes, Withdrawn
<1>3. done \in Totals
  BY CountedType DEF TypeOK, Totals
<1>4. pending \in Seq(Ops) /\ Injective(pending)
  BY DEF TypeOK, NoCallLost, Injective
<1>5. o \in Queued /\ Queued = Taken(pending, Len(pending))
  BY <1>1 DEF Queued, Taken
<1>6. startedAs[o] = 0
  BY <1>5 DEF NoCallLost
<1>7. RunningIn(out) = Running
  BY <1>2, <1>6 DEF RunningIn, Running
<1>8. inFlight = Counts(RunningIn(out)) /\ inFlight \in Counters
  BY <1>7, CountsOfRunning DEF TypeOK, Counters
<1>9. Waiting(out) = Queued \ {o}
  BY <1>2 DEF Waiting, NoCallLost
<1>10. disposed = FALSE
  <2>1. pending # <<>>
    BY <1>1
  <2> QED
    BY <2>1 DEF DisposedEmpty, TypeOK
<1> HIDE DEF out, done
<1>11. /\ Without(pending, i) \in Seq(Ops)
       /\ Injective(Without(pending, i))
       /\ Waiting(out) = Taken(Without(pending, i), Len(Without(pending, i)))
  BY <1>1, <1>4, <1>5, <1>9, WithoutFacts
<1> QED
  BY <1>1, <1>2, <1>3, <1>8, <1>10, <1>11, DrainInv

\* dispose().
LEMMA DisposeInv == IInv /\ Dispose => IInv'
<1> SUFFICES ASSUME IInv, Dispose PROVE IInv'
  OBVIOUS
<1> USE DEF IInv
<1>1. /\ disposed' = TRUE
      /\ pending' = <<>>
      /\ outcome' = [o \in Ops |->
                        IF o \in Queued THEN "session_disposed" ELSE outcome[o]]
      /\ UNCHANGED <<inFlight, dispatchSequence, aborted, enqueuedAt, startedAs>>
  BY DEF Dispose
<1>2. stats' \in Totals
  <2>1. Len(pending) \in Nat
    BY DEF TypeOK
  <2> QED
    BY <2>1, CountedType DEF Dispose, TypeOK, Totals
<1>3. outcome' \in [Ops -> Outcomes] /\ pending' \in Seq(Ops)
  BY <1>1 DEF TypeOK, Outcomes, Withdrawn
<1>4. TypeOK'
  BY <1>1, <1>2, <1>3 DEF TypeOK, Totals
<1>5. StartedHasArrived'
  BY <1>1 DEF StartedHasArrived
<1>6. NoCallLost'
  <2>1. Queued' = {}
    BY <1>1 DEF Queued
  <2>2. \A o \in Ops : ~(/\ enqueuedAt[o] # 0
                         /\ startedAs[o] = 0
                         /\ outcome'[o] = "none")
    BY <1>1 DEF NoCallLost
  <2> QED
    BY <1>1, <2>1, <2>2 DEF NoCallLost
<1>7. SlotsMatchRunning'
  <2>1. Running' = Running
    BY <1>1 DEF Running, NoCallLost
  <2> QED
    BY <1>1, <2>1 DEF SlotsMatchRunning, RunningMutating, RunningReadonly
<1>8. DisposedEmpty' /\ HeadBlocked'
  BY <1>1 DEF DisposedEmpty, HeadBlocked
<1> QED
  BY <1>4, <1>5, <1>6, <1>7, <1>8

\* A step that leaves all but the set of fired signals alone.
LEMMA QuietInv ==
    ASSUME IInv, aborted' \subseteq Ops,
           UNCHANGED <<queueVars, enqueuedAt, startedAs, outcome>>
    PROVE  IInv'
  BY DEF IInv, queueVars, TypeOK, StartedHasArrived, NoCallLost, Queued,
         SlotsMatchRunning, Running, RunningMutating, RunningReadonly,
         DisposedEmpty, HeadBlocked, CanDispatch

\* Every step keeps the invariant.
LEMMA NextInv == IInv /\ [Next]_vars => IInv'
<1> SUFFICES ASSUME IInv, [Next]_vars PROVE IInv'
  OBVIOUS
<1>1. aborted \subseteq Ops
  BY DEF IInv, TypeOK
<1>2. ASSUME NEW o \in Ops, RunDisposed(o)
      PROVE  IInv'
  BY <1>2, RefuseInv DEF RunDisposed, Withdrawn
<1>3. ASSUME NEW o \in Ops, RunAborted(o)
      PROVE  IInv'
  BY <1>3, RefuseInv DEF RunAborted, Withdrawn
<1>4. ASSUME NEW o \in Ops, Timeout(o)
      PROVE  IInv'
  BY <1>1, <1>4, CancelPendingInv DEF Timeout, Withdrawn
<1>5. ASSUME NEW o \in Ops, AbortQueued(o)
      PROVE  IInv'
  BY <1>1, <1>5, CancelPendingInv DEF AbortQueued, Withdrawn
<1>6. ASSUME NEW o \in Ops, AbortElsewhere(o)
      PROVE  IInv'
  BY <1>1, <1>6, QuietInv DEF AbortElsewhere
<1>7. CASE UNCHANGED vars
  BY <1>1, <1>7, QuietInv DEF vars, queueVars
<1> QED
  BY <1>2, <1>3, <1>4, <1>5, <1>6, <1>7,
     RunNowInv, RunOverflowInv, RunEnqueueInv, CompleteInv, DisposeInv
  DEF Next, Run

-----------------------------------------------------------------------------
(***************************************************************************)
(* The theorems.                                                           *)
(***************************************************************************)

\* IInv holds in every reachable state of the queue.
THEOREM Invariance == Spec => []IInv
  BY InitInv, NextInv, PTL DEF Spec

\* The variables of the queue keep their types; in particular no counter of
\* held slots becomes negative.
THEOREM TypeCorrect == Spec => []TypeOK
<1>1. IInv => TypeOK
  BY DEF IInv
<1> QED
  BY <1>1, Invariance, PTL

\* No call is lost from the backlog or held in it twice, for any number of
\* calls and any limits.
THEOREM CallsAreKept == Spec => []NoCallLost
<1>1. IInv => NoCallLost
  BY DEF IInv
<1> QED
  BY <1>1, Invariance, PTL

\* The counters say what runs, whatever the order of completions,
\* cancellations and disposal.
THEOREM SlotAccounting == Spec => []SlotsMatchRunning
<1>1. IInv => SlotsMatchRunning
  BY DEF IInv
<1> QED
  BY <1>1, Invariance, PTL

\* Work conservation: no dispatchable operation is left at the head.
THEOREM WorkConservation == Spec => []HeadBlocked
<1>1. IInv => HeadBlocked
  BY DEF IInv
<1> QED
  BY <1>1, Invariance, PTL

\* The books of the queue are right: types, backlog and slots together
\* (run, drain, execute, cancelPending and dispose).
THEOREM BooksKept == Spec => []QueueInv
<1>1. TypeOK /\ NoCallLost /\ SlotsMatchRunning => QueueInv
  BY DEF QueueInv
<1> QED
  BY <1>1, TypeCorrect, CallsAreKept, SlotAccounting, PTL
-----------------------------------------------------------------------------
(***************************************************************************)
(* The order of service.  The backlog is sorted by arrival, so draining a  *)
(* prefix of it starts the earlier arrival of two first; what has started  *)
(* is numbered up to dispatchSequence; and what never starts was refused   *)
(* or withdrawn.  A call whose signal has fired has left the backlog, so   *)
(* drain() starts every entry it takes.                                    *)
(***************************************************************************)
ByArrival(q) ==
    \A i, j \in 1..Len(q) : i < j => enqueuedAt[q[i]] < enqueuedAt[q[j]]

ArrivalsNumbered == \A o \in Ops : enqueuedAt[o] <= Arrivals
StartsNumbered   == \A o \in Ops : startedAs[o] <= dispatchSequence

NeverStarted(out) ==
    \A o \in Ops : startedAs[o] = 0
                       => out[o] \in {"none", "queue_full"} \cup Withdrawn

OrderInv ==
    /\ ByArrival(pending)
    /\ ArrivalsNumbered
    /\ StartsNumbered
    /\ NeverStarted(outcome)
    /\ BacklogInOrder

\* The two lanes keep to their slots when the calls in S run.
InSlots(S) == /\ Cardinality(S \ Readers) <= MaxConcurrent
              /\ Cardinality(S \cap Readers) <= MaxReadonlyConcurrent

\* A set of indices has a last one.
LEMMA LastIndex ==
    ASSUME NEW n \in Nat, NEW M \in SUBSET (1..n), M # {}
    PROVE  \E m \in M : \A i \in M : i <= m
<1> DEFINE T == {n - i : i \in M}
           R == OpToRel(<, Nat)
<1>1. \A i \in M : i \in 1..n /\ n - i \in Nat
  OBVIOUS
<1>2. T \subseteq Nat /\ T # {}
  BY <1>1
<1>3. PICK x \in T : \A y \in T : ~(<<y, x>> \in R)
  BY <1>2, NatLessThanWellFounded, WFMin
<1>4. PICK m \in M : x = n - m
  BY <1>3
<1>5. ASSUME NEW i \in M
      PROVE  i <= m
  <2>1. n - i \in T /\ n - i \in Nat /\ x \in Nat
    BY <1>2, <1>3
  <2>2. ~(n - i < x)
    BY <1>3, <2>1 DEF OpToRel
  <2> QED
    BY <1>1, <1>4, <2>2
<1> QED
  BY <1>5

(***************************************************************************)
(* Starting a prefix of the backlog keeps a lane within its limit: look at *)
(* the last entry of the lane that is started.  L is the lane, R what runs *)
(* already, and each entry of the lane found a free slot.                  *)
(***************************************************************************)
LEMMA LaneBound ==
    ASSUME NEW q \in Seq(Ops), NEW n \in 0..Len(q),
           NEW R \in SUBSET Ops, NEW L, NEW limit \in Nat,
           Cardinality(R \cap L) <= limit,
           \A i \in 1..n : q[i] \in L =>
               Cardinality((R \cup Taken(q, i - 1)) \cap L) < limit
    PROVE  Cardinality((R \cup Taken(q, n)) \cap L) <= limit
<1> DEFINE M == {i \in 1..n : q[i] \in L}
<1>1. CASE M = {}
  <2>1. Taken(q, n) \cap L = {}
    BY <1>1 DEF Taken
  <2>2. (R \cup Taken(q, n)) \cap L = R \cap L
    BY <2>1
  <2> QED
    BY <2>2
<1>2. CASE M # {}
  <2>1. n \in Nat /\ M \in SUBSET (1..n)
    OBVIOUS
  <2>2. PICK m \in M : \A i \in M : i <= m
    BY <1>2, <2>1, LastIndex
  <2> HIDE DEF M
  <2>3. m \in 1..n /\ q[m] \in L
    BY DEF M
  <2> DEFINE U == (R \cup Taken(q, m - 1)) \cap L
  <2>4. (R \cup Taken(q, n)) \cap L = U \cup {q[m]}
    <3>1. Taken(q, m - 1) \subseteq Taken(q, n) /\ q[m] \in Taken(q, n)
      BY <2>3 DEF Taken
    <3>2. ASSUME NEW o \in Taken(q, n), o \in L
          PROVE  o \in Taken(q, m - 1) \cup {q[m]}
      <4>1. PICK i \in 1..n : q[i] = o
        BY DEF Taken
      <4>2. i \in M
        BY <3>2, <4>1 DEF M
      <4>3. i <= m
        BY <2>2, <4>2
      <4>4. i \in 1..(m - 1) \/ i = m
        BY <2>3, <4>3
      <4> QED
        BY <4>1, <4>4 DEF Taken
    <3> QED
      BY <2>3, <3>1, <3>2
  <2>5. IsFiniteSet(U)
    <3>1. m - 1 \in 0..Len(q)
      BY <2>3
    <3>2. Taken(q, m - 1) \subseteq Ops
      BY <3>1, StartedFinite
    <3>3. U \in SUBSET Ops
      BY <3>2
    <3> QED
      BY <3>3, OptionsAssumption, FS_Subset
  <2>6. Cardinality(U) < limit
    BY <2>3
  <2>7. Cardinality(U) \in Nat
    BY <2>5, FS_CardinalityType
  <2> HIDE DEF U
  <2>8. Cardinality(U \cup {q[m]})
            = IF q[m] \in U THEN Cardinality(U) ELSE Cardinality(U) + 1
    BY <2>5, FS_AddElement
  <2>9. Cardinality(U \cup {q[m]}) <= limit
    BY <2>6, <2>7, <2>8
  <2> QED
    BY <2>4, <2>9
<1> QED
  BY <1>1, <1>2

\* A longer prefix of the backlog starts more calls.
LEMMA StartedGrows ==
    ASSUME NEW q \in Seq(Ops), Injective(q), NEW n \in 0..Len(q),
           NEW i \in 1..n, NEW j \in 1..n, i < j,
           aborted \cap Taken(q, n) = {}
    PROVE  Cardinality(Started(q, i)) < Cardinality(Started(q, j))
<1>1. /\ i \in 0..Len(q) /\ j \in 0..Len(q)
      /\ i \in 1..Len(q) /\ j \in 1..Len(q)
  OBVIOUS
<1>2. Started(q, i) \subseteq Started(q, j)
  BY DEF Started, Taken
<1>3. q[j] \in Started(q, j)
  BY DEF Started, Taken
<1>4. q[j] \notin Started(q, i)
  <2>1. ASSUME NEW k \in 1..i
        PROVE  q[k] # q[j]
    <3>1. k \in 1..Len(q) /\ k # j
      BY <1>1
    <3> QED
      BY <1>1, <3>1 DEF Injective
  <2> QED
    BY <2>1 DEF Started, Taken
<1>5. IsFiniteSet(Started(q, i)) /\ IsFiniteSet(Started(q, j))
  BY <1>1, StartedFinite
<1>6. /\ Cardinality(Started(q, i)) <= Cardinality(Started(q, j))
      /\ Cardinality(Started(q, i)) # Cardinality(Started(q, j))
      /\ Cardinality(Started(q, i)) \in Nat
      /\ Cardinality(Started(q, j)) \in Nat
  BY <1>2, <1>3, <1>4, <1>5, FS_Subset, FS_CardinalityType
<1> QED
  BY <1>6
(***************************************************************************)
(* What draining a backlog of waiting calls does when none of them has     *)
(* been aborted: it starts the calls of a prefix, numbered in order, keeps *)
(* the lanes within their slots, and lets a read-only call in only if no   *)
(* mutating one was running.                                               *)
(***************************************************************************)
LEMMA DrainStarts ==
    ASSUME TypeOK,
           NEW q \in Seq(Ops), Injective(q),
           NEW out \in [Ops -> Outcomes], NEW done,
           Waiting(out) = Taken(q, Len(q)),
           InSlots(RunningIn(out)),
           aborted \cap Taken(q, Len(q)) = {},
           Drain(q, Counts(RunningIn(out)), out, done)
    PROVE  \E n \in 0..Len(q) :
               /\ Started(q, n) = Taken(q, n)
               /\ Taken(q, n) \subseteq Waiting(out)
               /\ pending' = SubSeq(q, n + 1, Len(q))
               /\ outcome' = out
               /\ dispatchSequence' = dispatchSequence + Cardinality(Taken(q, n))
               /\ \A o \in Ops \ Taken(q, n) : startedAs'[o] = startedAs[o]
               /\ \A i \in 1..n :
                      startedAs'[q[i]]
                          = dispatchSequence + Cardinality(Started(q, i))
               /\ InSlots(RunningIn(out) \cup Taken(q, n))
               /\ Taken(q, n) \cap Readers # {} => RunningIn(out) \subseteq Readers
<1> DEFINE R == RunningIn(out)
<1>1. PICK n \in 0..Len(q) :
          /\ DrainStops(q, n, Counts(R))
          /\ pending' = SubSeq(q, n + 1, Len(q))
          /\ Execute(q, n, Counts(R))
          /\ outcome' = [o \in Ops |-> IF o \in Taken(q, n) \cap aborted
                                       THEN "cancelled" ELSE out[o]]
  BY DEF Drain
<1>2. \A i \in 0..n : /\ Taken(q, i) \subseteq Taken(q, Len(q))
                      /\ Taken(q, i) \in SUBSET Ops
                      /\ Started(q, i) = Taken(q, i)
  <2> SUFFICES ASSUME NEW i \in 0..n
               PROVE  /\ Taken(q, i) \subseteq Taken(q, Len(q))
                      /\ Taken(q, i) \in SUBSET Ops
                      /\ Started(q, i) = Taken(q, i)
    OBVIOUS
  <2>1. i \in 0..Len(q)
    OBVIOUS
  <2>2. Taken(q, i) \subseteq Taken(q, Len(q))
    BY <2>1 DEF Taken
  <2> QED
    BY <2>1, <2>2, StartedFinite DEF Started
<1>3. R \in SUBSET Ops /\ \A i \in 0..n : R \cap Taken(q, i) = {}
  BY <1>2 DEF RunningIn, Waiting
<1>4. \A i \in 1..n : CanDispatch(q[i], Counts(R \cup Taken(q, i - 1)))
  <2> SUFFICES ASSUME NEW i \in 1..n
               PROVE  CanDispatch(q[i], Counts(R \cup Taken(q, i - 1)))
    OBVIOUS
  <2>1. i - 1 \in 0..n
    OBVIOUS
  <2>2. Acquire(Counts(R), Started(q, i - 1)) = Counts(R \cup Taken(q, i - 1))
    BY <1>2, <1>3, <2>1, AcquireCounts
  <2> QED
    BY <1>1, <2>2 DEF DrainStops, DispatchableAt
<1>5. InSlots(R \cup Taken(q, n))
  <2>1. Cardinality((R \cup Taken(q, n)) \cap Readers) <= MaxReadonlyConcurrent
    <3>1. \A i \in 1..n : q[i] \in Readers =>
              Cardinality((R \cup Taken(q, i - 1)) \cap Readers)
                  < MaxReadonlyConcurrent
      BY <1>4 DEF CanDispatch, Counts
    <3>2. Cardinality(R \cap Readers) <= MaxReadonlyConcurrent
      BY DEF InSlots
    <3> HIDE DEF R
    <3> QED
      BY <1>3, <3>1, <3>2, LaneBound, OptionsAssumption
  <2>2. Cardinality((R \cup Taken(q, n)) \ Readers) <= MaxConcurrent
    <3>1. \A i \in 1..n : q[i] \in Ops \ Readers =>
              Cardinality((R \cup Taken(q, i - 1)) \cap (Ops \ Readers))
                  < MaxConcurrent
      <4> SUFFICES ASSUME NEW i \in 1..n, q[i] \in Ops \ Readers
                   PROVE  Cardinality((R \cup Taken(q, i - 1)) \cap (Ops \ Readers))
                              < MaxConcurrent
        OBVIOUS
      <4>1. i - 1 \in 0..n
        OBVIOUS
      <4>2. (R \cup Taken(q, i - 1)) \cap (Ops \ Readers)
                = (R \cup Taken(q, i - 1)) \ Readers
        BY <1>2, <1>3, <4>1
      <4> QED
        BY <1>4, <4>2 DEF CanDispatch, Counts
    <3>2. Cardinality(R \cap (Ops \ Readers)) <= MaxConcurrent
      <4>1. R \cap (Ops \ Readers) = R \ Readers
        BY <1>3
      <4> QED
        BY <4>1 DEF InSlots
    <3> HIDE DEF R
    <3>3. Cardinality((R \cup Taken(q, n)) \cap (Ops \ Readers)) <= MaxConcurrent
      BY <1>3, <3>1, <3>2, LaneBound, OptionsAssumption
    <3>4. (R \cup Taken(q, n)) \cap (Ops \ Readers)
              = (R \cup Taken(q, n)) \ Readers
      BY <1>2, <1>3
    <3> QED
      BY <3>3, <3>4
  <2> QED
    BY <2>1, <2>2 DEF InSlots
<1>6. Taken(q, n) \cap Readers # {} => R \subseteq Readers
  <2> SUFFICES ASSUME NEW i \in 1..n, q[i] \in Readers
               PROVE  R \subseteq Readers
    BY DEF Taken
  <2>1. Cardinality((R \cup Taken(q, i - 1)) \ Readers) = 0
    BY <1>4 DEF CanDispatch, Counts
  <2>2. i - 1 \in 0..n
    OBVIOUS
  <2>3. IsFiniteSet((R \cup Taken(q, i - 1)) \ Readers)
    <3>1. (R \cup Taken(q, i - 1)) \ Readers \in SUBSET Ops
      BY <1>2, <1>3, <2>2
    <3> QED
      BY <3>1, OptionsAssumption, FS_Subset
  <2> HIDE DEF R
  <2>4. (R \cup Taken(q, i - 1)) \ Readers = {}
    BY <2>1, <2>3, FS_EmptySet
  <2> QED
    BY <2>4
<1>7. outcome' = out
  <2>1. Taken(q, n) \cap aborted = {}
    BY <1>2
  <2> QED
    BY <1>1, <2>1
<1>8. \A o \in Ops \ Taken(q, n) : startedAs'[o] = startedAs[o]
  BY <1>1, <1>2 DEF Execute
<1>9. \A i \in 1..n :
          startedAs'[q[i]] = dispatchSequence + Cardinality(Started(q, i))
  <2> SUFFICES ASSUME NEW i \in 1..n
               PROVE  startedAs'[q[i]]
                          = dispatchSequence + Cardinality(Started(q, i))
    OBVIOUS
  <2>1. q[i] \in Started(q, n) /\ q[i] \in Ops
    BY <1>2 DEF Taken
  <2>2. Index(q, n, q[i]) = i
    <3>1. Index(q, n, q[i]) \in 1..n /\ q[Index(q, n, q[i])] = q[i]
      BY DEF Index
    <3>2. Index(q, n, q[i]) \in 1..Len(q) /\ i \in 1..Len(q)
      BY <3>1
    <3> QED
      BY <3>1, <3>2 DEF Injective
  <2> QED
    BY <1>1, <2>1, <2>2 DEF Execute
<1>10. dispatchSequence' = dispatchSequence + Cardinality(Taken(q, n))
  BY <1>1, <1>2 DEF Execute
<1>11. Started(q, n) = Taken(q, n) /\ Taken(q, n) \subseteq Waiting(out)
  BY <1>2
<1> QED
  BY <1>1, <1>5, <1>6, <1>7, <1>8, <1>9, <1>10, <1>11
\* ServedInArrivalOrder once outcome has the value out.
ServedWith(out) ==
    \A a, b \in Ops :
        (/\ enqueuedAt[a] # 0
         /\ enqueuedAt[a] < enqueuedAt[b]
         /\ startedAs[b] # 0)
        => \/ startedAs[a] # 0 /\ startedAs[a] < startedAs[b]
           \/ startedAs[a] = 0 /\ out[a] \in Withdrawn \cup {"queue_full"}

\* Draining a backlog sorted by arrival keeps the order of service.
LEMMA DrainOrder ==
    ASSUME TypeOK, ArrivalsNumbered, StartsNumbered,
           NEW q \in Seq(Ops), Injective(q), ByArrival(q), Len(q) <= QueueMax,
           NEW out \in [Ops -> Outcomes], NEW done,
           NeverStarted(out), ServedWith(out),
           Waiting(out) = Taken(q, Len(q)),
           InSlots(RunningIn(out)),
           (aborted \cup aborted') \cap Taken(q, Len(q)) = {},
           Drain(q, Counts(RunningIn(out)), out, done),
           enqueuedAt' = enqueuedAt
    PROVE  OrderInv'
<1>1. PICK n \in 0..Len(q) :
          /\ Started(q, n) = Taken(q, n)
          /\ Taken(q, n) \subseteq Waiting(out)
          /\ pending' = SubSeq(q, n + 1, Len(q))
          /\ outcome' = out
          /\ dispatchSequence' = dispatchSequence + Cardinality(Taken(q, n))
          /\ \A o \in Ops \ Taken(q, n) : startedAs'[o] = startedAs[o]
          /\ \A i \in 1..n :
                 startedAs'[q[i]] = dispatchSequence + Cardinality(Started(q, i))
          /\ InSlots(RunningIn(out) \cup Taken(q, n))
  BY DrainStarts
<1>2. /\ dispatchSequence \in Nat
      /\ startedAs \in [Ops -> Nat]
      /\ enqueuedAt \in [Ops -> Nat]
  BY DEF TypeOK
<1>3. /\ Taken(q, n) \subseteq Ops
      /\ IsFiniteSet(Taken(q, n))
      /\ Cardinality(Taken(q, n)) \in Nat
  BY StartedFinite, FS_CardinalityType
<1>4. \A i \in 1..n : /\ Cardinality(Started(q, i)) \in Nat \ {0}
                      /\ Cardinality(Started(q, i)) <= Cardinality(Taken(q, n))
                      /\ q[i] \in Taken(q, n)
  <2> SUFFICES ASSUME NEW i \in 1..n
               PROVE  /\ Cardinality(Started(q, i)) \in Nat \ {0}
                      /\ Cardinality(Started(q, i)) <= Cardinality(Taken(q, n))
                      /\ q[i] \in Taken(q, n)
    OBVIOUS
  <2>1. q[i] \in Taken(q, n) /\ q[i] \in Started(q, i)
    BY <1>1 DEF Taken, Started
  <2>2. Started(q, i) \subseteq Taken(q, n)
    BY DEF Started, Taken
  <2>3. IsFiniteSet(Started(q, i))
    BY <1>3, <2>2, FS_Subset
  <2> QED
    BY <1>3, <2>1, <2>2, <2>3, FS_Subset, FS_CardinalityType, FS_EmptySet
<1>5. \A o \in Waiting(out) : startedAs[o] = 0 /\ out[o] = "none"
  BY DEF Waiting
<1>6. ByArrival(pending)'
  <2>1. Len(pending') = Len(q) - n
    BY <1>1
  <2>2. \A i \in 1..Len(pending') : pending'[i] = q[n + i]
    BY <1>1
  <2> SUFFICES ASSUME NEW i \in 1..Len(pending'), NEW j \in 1..Len(pending'),
                      i < j
               PROVE  enqueuedAt'[pending'[i]] < enqueuedAt'[pending'[j]]
    BY DEF ByArrival
  <2>3. n + i \in 1..Len(q) /\ n + j \in 1..Len(q) /\ n + i < n + j
    BY <2>1
  <2> QED
    BY <2>2, <2>3 DEF ByArrival
<1>7. ArrivalsNumbered'
  BY DEF ArrivalsNumbered, Arrivals
<1>8. StartsNumbered'
  <2> SUFFICES ASSUME NEW o \in Ops
               PROVE  startedAs'[o] <= dispatchSequence'
    BY DEF StartsNumbered
  <2>1. CASE o \in Taken(q, n)
    <3>1. PICK i \in 1..n : q[i] = o
      BY <2>1 DEF Taken
    <3>2. startedAs'[o] = dispatchSequence + Cardinality(Started(q, i))
      BY <1>1, <3>1
    <3> QED
      BY <1>1, <1>2, <1>3, <1>4, <3>2
  <2>2. CASE o \notin Taken(q, n)
    <3>1. startedAs'[o] = startedAs[o] /\ startedAs[o] <= dispatchSequence
      BY <1>1, <2>2 DEF StartsNumbered
    <3> QED
      BY <1>1, <1>2, <1>3, <3>1
  <2> QED
    BY <2>1, <2>2
<1>9. NeverStarted(outcome)'
  <2> SUFFICES ASSUME NEW o \in Ops, startedAs'[o] = 0
               PROVE  out[o] \in {"none", "queue_full"} \cup Withdrawn
    BY <1>1 DEF NeverStarted
  <2>1. CASE o \in Taken(q, n)
    BY <1>5, <1>1, <2>1
  <2>2. CASE o \notin Taken(q, n)
    BY <1>1, <2>2 DEF NeverStarted
  <2> QED
    BY <2>1, <2>2
<1>10. ServedInArrivalOrder'
  <2> SUFFICES ASSUME NEW a \in Ops, NEW b \in Ops,
                      enqueuedAt[a] # 0,
                      enqueuedAt[a] < enqueuedAt[b],
                      startedAs'[b] # 0
               PROVE  \/ startedAs'[a] # 0 /\ startedAs'[a] < startedAs'[b]
                      \/ startedAs'[a] = 0 /\ out[a] \in Withdrawn \cup {"queue_full"}
    BY <1>1 DEF ServedInArrivalOrder
  <2>1. CASE b \notin Taken(q, n)
    <3>1. startedAs'[b] = startedAs[b]
      BY <1>1, <2>1
    <3>2. \/ startedAs[a] # 0 /\ startedAs[a] < startedAs[b]
          \/ startedAs[a] = 0 /\ out[a] \in Withdrawn \cup {"queue_full"}
      BY <3>1 DEF ServedWith
    <3>3. a \notin Taken(q, n)
      <4>1. "none" \notin Withdrawn \cup {"queue_full"}
        BY DEF Withdrawn
      <4> QED
        BY <1>1, <1>5, <3>2, <4>1
    <3> QED
      BY <1>1, <3>1, <3>2, <3>3
  <2>2. CASE b \in Taken(q, n)
    <3>1. PICK j \in 1..n : q[j] = b
      BY <2>2 DEF Taken
    <3>2. startedAs'[b] = dispatchSequence + Cardinality(Started(q, j))
      BY <1>1, <3>1
    <3>3. CASE a \in Taken(q, n)
      <4>1. PICK i \in 1..n : q[i] = a
        BY <3>3 DEF Taken
      <4>2. startedAs'[a] = dispatchSequence + Cardinality(Started(q, i))
        BY <1>1, <4>1
      <4>3. i < j
        <5>1. i \in 1..Len(q) /\ j \in 1..Len(q)
          OBVIOUS
        <5>2. enqueuedAt[a] \in Nat /\ enqueuedAt[b] \in Nat
          BY <1>2
        <5>3. j < i => enqueuedAt[b] < enqueuedAt[a]
          BY <3>1, <4>1, <5>1 DEF ByArrival
        <5>4. i # j
          BY <3>1, <4>1, <5>2
        <5> QED
          BY <5>1, <5>2, <5>3, <5>4
      <4>4. aborted \cap Taken(q, n) = {}
        BY <1>1 DEF Started
      <4>5. Cardinality(Started(q, i)) < Cardinality(Started(q, j))
        BY <4>3, <4>4, StartedGrows
      <4>6. /\ Cardinality(Started(q, i)) \in Nat \ {0}
            /\ Cardinality(Started(q, j)) \in Nat
        BY <1>4
      <4> QED
        BY SMTT(30), <1>2, <3>2, <4>2, <4>5, <4>6
    <3>4. CASE a \notin Taken(q, n) /\ startedAs[a] # 0
      <4>1. startedAs'[a] = startedAs[a] /\ startedAs[a] <= dispatchSequence
        BY <1>1, <3>4 DEF StartsNumbered
      <4>2. Cardinality(Started(q, j)) \in Nat \ {0} /\ startedAs[a] \in Nat
        BY <1>2, <1>4
      <4>3. startedAs'[a] # 0
        BY <3>4, <4>1
      <4> QED
        BY SMTT(30), <1>2, <3>2, <4>1, <4>2, <4>3
    <3>5. CASE a \notin Taken(q, n) /\ startedAs[a] = 0
      <4>1. startedAs'[a] = 0
        BY <1>1, <3>5
      <4>2. out[a] # "none"
        <5>1. SUFFICES ASSUME out[a] = "none" PROVE FALSE
          OBVIOUS
        <5>2. a \in Waiting(out)
          BY <3>5, <5>1 DEF Waiting
        <5>3. PICK i \in 1..Len(q) : q[i] = a
          BY <5>2 DEF Taken
        <5>4. i \notin 1..n
          BY <3>5, <5>3 DEF Taken
        <5>5. j < i /\ j \in 1..Len(q)
          BY <5>4
        <5>6. enqueuedAt[b] < enqueuedAt[a]
          BY <3>1, <5>3, <5>5 DEF ByArrival
        <5> QED
          BY <1>2, <5>6
      <4>3. out[a] \in {"none", "queue_full"} \cup Withdrawn
        BY <3>5 DEF NeverStarted
      <4> QED
        BY <4>1, <4>2, <4>3
    <3> QED
      BY <3>3, <3>4, <3>5
  <2> QED
    BY <2>1, <2>2
<1>11. AbortedNotQueued'
  <2>1. Queued' \subseteq Taken(q, Len(q))
    <3> SUFFICES ASSUME NEW i \in 1..Len(pending')
                 PROVE  pending'[i] \in Taken(q, Len(q))
      BY DEF Queued
    <3>1. n + i \in 1..Len(q) /\ pending'[i] = q[n + i]
      BY <1>1
    <3> QED
      BY <3>1 DEF Taken
  <2> QED
    BY <2>1 DEF AbortedNotQueued
<1>12. WithinLimits'
  <2>1. Running' = RunningIn(out) \cup Taken(q, n)
    <3>1. \A o \in Taken(q, n) : startedAs'[o] # 0 /\ out[o] = "none" /\ o \in Ops
      <4> SUFFICES ASSUME NEW i \in 1..n
                   PROVE  /\ startedAs'[q[i]] # 0
                          /\ out[q[i]] = "none"
                          /\ q[i] \in Ops
        BY DEF Taken
      <4>1. startedAs'[q[i]] = dispatchSequence + Cardinality(Started(q, i))
        BY <1>1
      <4>2. Cardinality(Started(q, i)) \in Nat \ {0}
        BY <1>4
      <4>3. startedAs'[q[i]] # 0
        BY <1>2, <4>1, <4>2
      <4>4. q[i] \in Taken(q, n)
        BY <1>4
      <4> QED
        BY <1>1, <1>3, <1>5, <4>3, <4>4
    <3>2. \A o \in Ops \ Taken(q, n) : startedAs'[o] = startedAs[o]
      BY <1>1
    <3> QED
      BY <1>1, <3>1, <3>2 DEF Running, RunningIn
  <2>2. Len(pending') <= QueueMax
    <3>1. Len(pending') = Len(q) - n
      BY <1>1
    <3> QED
      BY <3>1, OptionsAssumption
  <2> QED
    BY <1>1, <2>1, <2>2
    DEF WithinLimits, InSlots, RunningMutating, RunningReadonly
<1> QED
  BY <1>6, <1>7, <1>8, <1>9, <1>10, <1>11, <1>12 DEF OrderInv, BacklogInOrder
-----------------------------------------------------------------------------
(***************************************************************************)
(* The steps again, now for OrderInv.  SettledAs is the value outcome gets *)
(* before the two handlers that drain the backlog do so.                   *)
(***************************************************************************)
SettledAs(o, code) == [outcome EXCEPT ![o] = code]

\* The backlog that the finally block of execute() drains.
LEMMA CompleteDrains ==
    ASSUME IInv, NEW o \in Ops, NEW result \in Finished, Complete(o, result),
           ~disposed
    PROVE  /\ o \in Running
           /\ SettledAs(o, result) \in [Ops -> Outcomes]
           /\ RunningIn(SettledAs(o, result)) = Running \ {o}
           /\ Waiting(SettledAs(o, result)) = Taken(pending, Len(pending))
           /\ Queued = Taken(pending, Len(pending))
           /\ pending \in Seq(Ops)
           /\ Injective(pending)
           /\ \E done : Drain(pending, Counts(RunningIn(SettledAs(o, result))),
                              SettledAs(o, result), done)
<1> USE DEF IInv
<1> DEFINE out  == SettledAs(o, result)
           done == [stats EXCEPT !.completed = @ + 1]
<1>1. o \in Running
  BY DEF Complete
<1>2. /\ out \in [Ops -> Outcomes]
      /\ out[o] # "none"
      /\ \A p \in Ops \ {o} : out[p] = outcome[p]
  BY DEF TypeOK, Outcomes, Finished, SettledAs
<1>3. Drain(pending, Release(inFlight, o), out, done)
  BY DEF Complete, SettledAs
<1> HIDE DEF out, done
<1>4. RunningIn(out) = Running \ {o}
  BY <1>2 DEF RunningIn, Running
<1>5. Release(inFlight, o) = Counts(RunningIn(out))
  BY <1>1, <1>4, CountsOfRunning, ReleaseCounts DEF Running
<1>6. Waiting(out) = Queued
  BY <1>1, <1>2 DEF Waiting, NoCallLost, Running
<1>7. pending \in Seq(Ops) /\ Injective(pending)
  BY DEF TypeOK, NoCallLost, Injective
<1>8. Queued = Taken(pending, Len(pending))
  BY DEF Queued, Taken
<1> QED
  BY <1>1, <1>2, <1>3, <1>4, <1>5, <1>6, <1>7, <1>8 DEF out

\* The backlog that cancelPending() drains.
LEMMA CancelDrains ==
    ASSUME IInv, NEW o \in Ops, NEW code \in Withdrawn, CancelPending(o, code)
    PROVE  \E i \in 1..Len(pending) :
               /\ pending[i] = o
               /\ ~disposed
               /\ o \in Queued
               /\ SettledAs(o, code) \in [Ops -> Outcomes]
               /\ RunningIn(SettledAs(o, code)) = Running
               /\ Waiting(SettledAs(o, code)) = Queued \ {o}
               /\ Taken(Without(pending, i), Len(Without(pending, i)))
                      = Queued \ {o}
               /\ pending \in Seq(Ops)
               /\ Without(pending, i) \in Seq(Ops)
               /\ Injective(Without(pending, i))
               /\ \E done : Drain(Without(pending, i),
                                  Counts(RunningIn(SettledAs(o, code))),
                                  SettledAs(o, code), done)
<1> USE DEF IInv
<1> DEFINE out  == SettledAs(o, code)
           done == [stats EXCEPT !.cancelled = @ + 1]
<1>1. PICK i \in 1..Len(pending) :
          /\ pending[i] = o
          /\ Drain(Without(pending, i), inFlight, out, done)
  BY DEF CancelPending, SettledAs
<1>2. /\ out \in [Ops -> Outcomes]
      /\ out[o] # "none"
      /\ \A p \in Ops \ {o} : out[p] = outcome[p]
  BY DEF TypeOK, Outcomes, Withdrawn, SettledAs
<1>3. pending \in Seq(Ops) /\ Injective(pending)
  BY DEF TypeOK, NoCallLost, Injective
<1>4. o \in Queued /\ Queued = Taken(pending, Len(pending))
  BY <1>1 DEF Queued, Taken
<1>5. startedAs[o] = 0
  BY <1>4 DEF NoCallLost
<1> HIDE DEF out, done
<1>6. RunningIn(out) = Running
  BY <1>2, <1>5 DEF RunningIn, Running
<1>7. inFlight = Counts(RunningIn(out))
  BY <1>6, CountsOfRunning
<1>8. Waiting(out) = Queued \ {o}
  BY <1>2 DEF Waiting, NoCallLost
<1>9. ~disposed
  BY <1>1 DEF DisposedEmpty
<1>10. /\ Without(pending, i) \in Seq(Ops)
       /\ Injective(Without(pending, i))
       /\ Taken(Without(pending, i), Len(Without(pending, i))) = Queued \ {o}
  BY <1>1, <1>3, <1>4, WithoutFacts
<1>11. Drain(Without(pending, i), Counts(RunningIn(out)), out, done)
  BY <1>1, <1>7
<1> QED
  BY <1>1, <1>2, <1>3, <1>4, <1>6, <1>8, <1>9, <1>10, <1>11 DEF out

\* Fewer running calls fit the slots that more of them fit.
LEMMA FewerInSlots ==
    ASSUME NEW S \in SUBSET Ops, InSlots(S), NEW T \in SUBSET S
    PROVE  InSlots(T)
<1>1. /\ IsFiniteSet(S \ Readers)
      /\ IsFiniteSet(S \cap Readers)
  BY OptionsAssumption, FS_Subset
<1>2. T \ Readers \subseteq S \ Readers /\ T \cap Readers \subseteq S \cap Readers
  OBVIOUS
<1>3. /\ Cardinality(T \ Readers) <= Cardinality(S \ Readers)
      /\ Cardinality(T \cap Readers) <= Cardinality(S \cap Readers)
      /\ Cardinality(T \ Readers) \in Nat /\ Cardinality(S \ Readers) \in Nat
      /\ Cardinality(T \cap Readers) \in Nat /\ Cardinality(S \cap Readers) \in Nat
  BY <1>1, <1>2, FS_Subset, FS_CardinalityType
<1> QED
  BY <1>3, OptionsAssumption DEF InSlots

\* Settling a call that ran or was refused or withdrawn keeps the order.
LEMMA SettlingKeepsOrder ==
    ASSUME IInv, OrderInv, NEW o \in Ops, NEW code,
           startedAs[o] # 0 \/ code \in Withdrawn \cup {"queue_full"}
    PROVE  NeverStarted(SettledAs(o, code)) /\ ServedWith(SettledAs(o, code))
<1> DEFINE out == SettledAs(o, code)
<1>1. out[o] = code /\ \A p \in Ops \ {o} : out[p] = outcome[p]
  BY DEF SettledAs, IInv, TypeOK
<1> HIDE DEF out
<1>2. NeverStarted(out)
  BY <1>1 DEF NeverStarted, OrderInv
<1>3. ServedWith(out)
  BY <1>1 DEF ServedWith, OrderInv, BacklogInOrder, ServedInArrivalOrder
<1> QED
  BY <1>2, <1>3 DEF out
\* A new arrival is the last one.
LEMMA ArrivesLast ==
    ASSUME IInv, ArrivalsNumbered, NEW o \in Ops, Arrive(o)
    PROVE  /\ ArrivalsNumbered'
           /\ \A p \in Ops \ {o} : /\ enqueuedAt'[p] = enqueuedAt[p]
                                   /\ enqueuedAt'[p] < enqueuedAt'[o]
<1> DEFINE A == {p \in Ops : enqueuedAt[p] # 0}
<1>1. /\ o \in Fresh
      /\ enqueuedAt' = [enqueuedAt EXCEPT ![o] = Arrivals + 1]
      /\ enqueuedAt \in [Ops -> Nat]
      /\ enqueuedAt[o] = 0
  BY DEF Arrive, IInv, TypeOK, Fresh
<1>2. IsFiniteSet(A)
  BY OptionsAssumption, FS_Subset
<1>3. Arrivals = Cardinality(A) /\ Arrivals \in Nat
  BY <1>2, FS_CardinalityType DEF Arrivals
<1>4. /\ enqueuedAt'[o] = Arrivals + 1
      /\ \A p \in Ops \ {o} : enqueuedAt'[p] = enqueuedAt[p]
  BY <1>1
<1>5. {p \in Ops : enqueuedAt'[p] # 0} = A \cup {o}
  BY <1>3, <1>4
<1>6. Arrivals' = Arrivals + 1
  <2>1. o \notin A
    BY <1>1
  <2> HIDE DEF A
  <2>2. Cardinality(A \cup {o}) = Cardinality(A) + 1
    BY <1>2, <2>1, FS_AddElement
  <2> QED
    BY <1>3, <1>5, <2>2 DEF Arrivals
<1>7. \A p \in Ops \ {o} : enqueuedAt'[p] \in Nat /\ enqueuedAt'[p] <= Arrivals
  BY <1>1, <1>4 DEF ArrivalsNumbered
<1>8. \A p \in Ops : enqueuedAt'[p] <= Arrivals + 1
  BY <1>3, <1>4, <1>7
<1>9. ArrivalsNumbered'
  BY <1>6, <1>8 DEF ArrivalsNumbered
<1>10. \A p \in Ops \ {o} : enqueuedAt'[p] < enqueuedAt'[o]
  BY <1>3, <1>4, <1>7
<1> QED
  BY <1>4, <1>9, <1>10

\* A call refused before it arrives.
LEMMA RefuseOrder ==
    ASSUME IInv, OrderInv, NEW o \in Fresh, NEW code \in Withdrawn,
           Refuse(o, code)
    PROVE  OrderInv'
<1>1. o \in Ops /\ startedAs[o] = 0 /\ outcome[o] = "none"
  BY DEF Fresh, IInv, StartedHasArrived
<1>2. /\ outcome' = SettledAs(o, code)
      /\ UNCHANGED <<pending, inFlight, dispatchSequence, disposed,
                     aborted, enqueuedAt, startedAs>>
  BY DEF Refuse, SettledAs
<1>3. NeverStarted(outcome)' /\ ServedInArrivalOrder'
  BY <1>1, <1>2, SettlingKeepsOrder
  DEF NeverStarted, ServedWith, ServedInArrivalOrder
<1>4. ByArrival(pending)' /\ ArrivalsNumbered' /\ StartsNumbered'
  BY <1>2 DEF OrderInv, ByArrival, ArrivalsNumbered, Arrivals, StartsNumbered
<1>5. AbortedNotQueued'
  BY <1>2 DEF OrderInv, BacklogInOrder, AbortedNotQueued, Queued
<1>6. WithinLimits'
  <2>1. Running' = Running
    BY <1>1, <1>2 DEF Running, SettledAs, IInv, TypeOK
  <2> QED
    BY <1>2, <2>1 DEF OrderInv, BacklogInOrder, WithinLimits, RunningMutating,
                      RunningReadonly
<1> QED
  BY <1>3, <1>4, <1>5, <1>6 DEF OrderInv, BacklogInOrder

\* The slots a call started on the fast path takes.
LEMMA OneMoreInSlots ==
    ASSUME IInv, NEW o \in Ops, CanDispatch(o, inFlight), InSlots(Running)
    PROVE  /\ InSlots(Running \cup {o})
           /\ o \in Readers => Running \subseteq Readers
<1>1. inFlight = Counts(Running)
  BY CountsOfRunning DEF IInv
<1>2. /\ IsFiniteSet(Running \ Readers) /\ IsFiniteSet(Running \cap Readers)
      /\ Cardinality(Running \ Readers) \in Nat
      /\ Cardinality(Running \cap Readers) \in Nat
  BY OptionsAssumption, FS_Subset, FS_CardinalityType DEF Running
<1>3. CASE o \in Readers
  <2>1. /\ Cardinality(Running \ Readers) = 0
        /\ Cardinality(Running \cap Readers) < MaxReadonlyConcurrent
    BY <1>1, <1>3 DEF CanDispatch, Counts
  <2>2. Running \subseteq Readers
    BY <1>2, <2>1, FS_EmptySet
  <2>3. /\ (Running \cup {o}) \ Readers = Running \ Readers
        /\ (Running \cup {o}) \cap Readers = (Running \cap Readers) \cup {o}
    BY <1>3
  <2>4. Cardinality((Running \cap Readers) \cup {o})
            = IF o \in Running \cap Readers THEN Cardinality(Running \cap Readers)
              ELSE Cardinality(Running \cap Readers) + 1
    BY <1>2, FS_AddElement
  <2> QED
    BY <1>2, <2>1, <2>2, <2>3, <2>4, OptionsAssumption DEF InSlots
<1>4. CASE o \notin Readers
  <2>1. Cardinality(Running \ Readers) < MaxConcurrent
    BY <1>1, <1>4 DEF CanDispatch, Counts
  <2>2. /\ (Running \cup {o}) \ Readers = (Running \ Readers) \cup {o}
        /\ (Running \cup {o}) \cap Readers = Running \cap Readers
    BY <1>4
  <2>3. Cardinality((Running \ Readers) \cup {o})
            = IF o \in Running \ Readers THEN Cardinality(Running \ Readers)
              ELSE Cardinality(Running \ Readers) + 1
    BY <1>2, FS_AddElement
  <2> QED
    BY <1>2, <1>4, <2>1, <2>2, <2>3, OptionsAssumption DEF InSlots
<1> QED
  BY <1>3, <1>4

\* The limits as a statement about the set of running calls.
LEMMA LimitsInSlots ==
    WithinLimits <=> InSlots(Running) /\ Len(pending) <= QueueMax
  BY DEF WithinLimits, InSlots, RunningMutating, RunningReadonly

\* What the fast path of run() starts.
LEMMA RunNowStarts ==
    ASSUME IInv, NEW o \in Ops, RunNow(o)
    PROVE  /\ dispatchSequence' = dispatchSequence + 1
           /\ startedAs'[o] = dispatchSequence + 1
           /\ \A p \in Ops \ {o} : startedAs'[p] = startedAs[p]
           /\ Running' = Running \cup {o}
<1>1. /\ Arrive(o)
      /\ Execute(<<o>>, 1, inFlight)
      /\ UNCHANGED outcome
  BY DEF RunNow
<1>2. /\ startedAs[o] = 0 /\ outcome[o] = "none"
      /\ o \notin Running /\ o \notin aborted
  BY <1>1, ArriveFacts
<1>3. Started(<<o>>, 1) = {o}
  BY <1>2 DEF Started, Taken
<1>4. Index(<<o>>, 1, o) = 1
  BY DEF Index
<1>5. Cardinality({o}) = 1
  BY FS_Singleton
<1>6. /\ dispatchSequence' = dispatchSequence + 1
      /\ startedAs' = [p \in Ops |-> IF p \in {o} THEN dispatchSequence + 1
                                     ELSE startedAs[p]]
  <2>1. startedAs' = [p \in Ops |->
            IF p \in {o}
            THEN dispatchSequence + Cardinality(Started(<<o>>, Index(<<o>>, 1, p)))
            ELSE startedAs[p]]
    BY <1>1, <1>3 DEF Execute
  <2>2. \A p \in {o} : Cardinality(Started(<<o>>, Index(<<o>>, 1, p))) = 1
    BY <1>3, <1>4, <1>5
  <2>3. dispatchSequence' = dispatchSequence + 1
    BY <1>1, <1>3, <1>5 DEF Execute
  <2> QED
    BY <2>1, <2>2, <2>3
<1>7. Running' = Running \cup {o}
  <2>1. dispatchSequence + 1 # 0
    BY DEF IInv, TypeOK
  <2> QED
    BY <1>1, <1>2, <1>6, <2>1 DEF Running
<1> QED
  BY <1>6, <1>7

LEMMA RunNowOrder ==
    ASSUME IInv, OrderInv, NEW o \in Ops, RunNow(o)
    PROVE  OrderInv'
<1>1. /\ Arrive(o)
      /\ CanDispatch(o, inFlight)
      /\ pending = <<>>
      /\ UNCHANGED <<pending, outcome, aborted>>
  BY DEF RunNow, MayStartNow, Arrive
<1>2. /\ ArrivalsNumbered'
      /\ \A p \in Ops \ {o} : /\ enqueuedAt'[p] = enqueuedAt[p]
                              /\ enqueuedAt'[p] < enqueuedAt'[o]
  BY <1>1, ArrivesLast DEF OrderInv
<1>3. /\ dispatchSequence' = dispatchSequence + 1
      /\ startedAs'[o] = dispatchSequence + 1
      /\ \A p \in Ops \ {o} : startedAs'[p] = startedAs[p]
      /\ Running' = Running \cup {o}
  BY RunNowStarts
<1>4. /\ dispatchSequence \in Nat
      /\ \A p \in Ops : startedAs[p] \in Nat /\ startedAs[p] <= dispatchSequence
      /\ enqueuedAt' \in [Ops -> Nat]
  BY <1>1, ArriveFacts DEF IInv, TypeOK, OrderInv, StartsNumbered
<1>5. ByArrival(pending)'
  BY <1>1 DEF ByArrival
<1>6. StartsNumbered'
  BY <1>3, <1>4 DEF StartsNumbered
<1>7. NeverStarted(outcome)'
  BY <1>1, <1>3, <1>4 DEF NeverStarted, OrderInv
<1>8. ServedInArrivalOrder'
  <2> SUFFICES ASSUME NEW a \in Ops, NEW b \in Ops,
                      enqueuedAt'[a] # 0,
                      enqueuedAt'[a] < enqueuedAt'[b],
                      startedAs'[b] # 0
               PROVE  \/ startedAs'[a] # 0 /\ startedAs'[a] < startedAs'[b]
                      \/ /\ startedAs'[a] = 0
                         /\ outcome'[a] \in Withdrawn \cup {"queue_full"}
    BY DEF ServedInArrivalOrder
  <2>1. a # o
    <3>1. enqueuedAt'[a] \in Nat /\ enqueuedAt'[b] \in Nat
      BY <1>4
    <3> QED
      BY <1>2, <3>1
  <2>2. CASE b = o
    <3>1. CASE startedAs[a] # 0
      BY <1>3, <1>4, <2>1, <2>2, <3>1
    <3>2. CASE startedAs[a] = 0
      <4>1. outcome[a] # "none"
        BY <1>1, <1>2, <2>1, <3>2 DEF IInv, NoCallLost, Queued
      <4> QED
        BY <1>1, <1>3, <2>1, <3>2, <4>1 DEF OrderInv, NeverStarted
    <3> QED
      BY <3>1, <3>2
  <2>3. CASE b # o
    BY <1>1, <1>2, <1>3, <2>1, <2>3
    DEF OrderInv, BacklogInOrder, ServedInArrivalOrder
  <2> QED
    BY <2>2, <2>3
<1>9. AbortedNotQueued'
  BY <1>1 DEF AbortedNotQueued, Queued
<1>10. WithinLimits'
  <2>1. InSlots(Running) /\ Len(pending) <= QueueMax
    BY LimitsInSlots DEF OrderInv, BacklogInOrder
  <2>2. InSlots(Running')
    BY <1>1, <1>3, <2>1, OneMoreInSlots
  <2> QED
    BY <1>1, <2>1, <2>2
    DEF WithinLimits, InSlots, RunningMutating, RunningReadonly
<1> QED
  BY <1>2, <1>5, <1>6, <1>7, <1>8, <1>9, <1>10 DEF OrderInv, BacklogInOrder
LEMMA RunOverflowOrder ==
    ASSUME IInv, OrderInv, NEW o \in Ops, RunOverflow(o)
    PROVE  OrderInv'
<1>1. /\ Arrive(o)
      /\ outcome' = SettledAs(o, "queue_full")
      /\ UNCHANGED <<pending, inFlight, dispatchSequence, startedAs,
                     disposed, aborted>>
  BY DEF RunOverflow, Arrive, SettledAs
<1>2. /\ ArrivalsNumbered'
      /\ \A p \in Ops \ {o} : /\ enqueuedAt'[p] = enqueuedAt[p]
                              /\ enqueuedAt'[p] < enqueuedAt'[o]
  BY <1>1, ArrivesLast DEF OrderInv
<1>3. /\ startedAs[o] = 0 /\ outcome[o] = "none"
      /\ o \notin Queued /\ o \notin Running
      /\ enqueuedAt' \in [Ops -> Nat]
  BY <1>1, ArriveFacts
<1>4. /\ outcome'[o] = "queue_full"
      /\ \A p \in Ops \ {o} : outcome'[p] = outcome[p]
  BY <1>1 DEF SettledAs, IInv, TypeOK
<1>5. ByArrival(pending)'
  <2>1. \A i \in 1..Len(pending) : pending[i] \in Ops \ {o}
    BY SMTT(30), <1>3 DEF Queued, IInv, TypeOK
  <2> QED
    BY <1>1, <1>2, <2>1 DEF OrderInv, ByArrival
<1>6. StartsNumbered'
  BY <1>1 DEF OrderInv, StartsNumbered
<1>7. NeverStarted(outcome)'
  BY <1>1, <1>4 DEF NeverStarted, OrderInv
<1>8. ServedInArrivalOrder'
  <2> SUFFICES ASSUME NEW a \in Ops, NEW b \in Ops,
                      enqueuedAt'[a] # 0,
                      enqueuedAt'[a] < enqueuedAt'[b],
                      startedAs[b] # 0
               PROVE  \/ startedAs[a] # 0 /\ startedAs[a] < startedAs[b]
                      \/ /\ startedAs[a] = 0
                         /\ outcome'[a] \in Withdrawn \cup {"queue_full"}
    BY <1>1 DEF ServedInArrivalOrder
  <2>1. b # o
    BY <1>3
  <2>2. CASE a = o
    BY <1>3, <1>4, <2>2
  <2>3. CASE a # o
    BY <1>2, <1>4, <2>1, <2>3 DEF OrderInv, BacklogInOrder, ServedInArrivalOrder
  <2> QED
    BY <2>2, <2>3
<1>9. AbortedNotQueued'
  BY <1>1 DEF OrderInv, BacklogInOrder, AbortedNotQueued, Queued
<1>10. WithinLimits'
  <2>1. Running' = Running
    BY <1>1, <1>3, <1>4 DEF Running
  <2> QED
    BY <1>1, <2>1 DEF OrderInv, BacklogInOrder, WithinLimits, RunningMutating,
                      RunningReadonly
<1> QED
  BY <1>2, <1>5, <1>6, <1>7, <1>8, <1>9, <1>10 DEF OrderInv, BacklogInOrder

LEMMA RunEnqueueOrder ==
    ASSUME IInv, OrderInv, NEW o \in Ops, RunEnqueue(o)
    PROVE  OrderInv'
<1>1. /\ Arrive(o)
      /\ Len(pending) < QueueMax
      /\ pending' = Append(pending, o)
      /\ UNCHANGED <<inFlight, stats, dispatchSequence, startedAs, outcome,
                     disposed, aborted>>
  BY DEF RunEnqueue, Arrive
<1>2. /\ ArrivalsNumbered'
      /\ \A p \in Ops \ {o} : /\ enqueuedAt'[p] = enqueuedAt[p]
                              /\ enqueuedAt'[p] < enqueuedAt'[o]
  BY <1>1, ArrivesLast DEF OrderInv
<1>3. /\ startedAs[o] = 0 /\ outcome[o] = "none"
      /\ o \notin Queued /\ o \notin aborted
      /\ enqueuedAt' \in [Ops -> Nat]
  BY <1>1, ArriveFacts
<1>4. pending \in Seq(Ops)
  BY DEF IInv, TypeOK
<1>5. /\ Len(pending') = Len(pending) + 1
      /\ \A i \in 1..Len(pending) : pending'[i] = pending[i]
      /\ pending'[Len(pending) + 1] = o
  BY <1>1, <1>4, AppendProperties
<1>6. ByArrival(pending)'
  <2>1. \A i \in 1..Len(pending) : pending[i] \in Ops \ {o}
    BY <1>3, <1>4 DEF Queued
  <2> SUFFICES ASSUME NEW i \in 1..Len(pending'), NEW j \in 1..Len(pending'),
                      i < j
               PROVE  enqueuedAt'[pending'[i]] < enqueuedAt'[pending'[j]]
    BY DEF ByArrival
  <2>2. Len(pending) \in Nat
    BY <1>4
  <2>3. i \in 1..Len(pending)
    BY <1>5, <2>2
  <2>4. CASE j = Len(pending) + 1
    BY <1>2, <1>5, <2>1, <2>3, <2>4
  <2>5. CASE j # Len(pending) + 1
    <3>1. j \in 1..Len(pending)
      BY <1>5, <2>2, <2>5
    <3> QED
      BY <1>2, <1>5, <2>1, <2>3, <3>1 DEF OrderInv, ByArrival
  <2> QED
    BY <2>4, <2>5
<1>7. StartsNumbered' /\ NeverStarted(outcome)'
  BY <1>1 DEF OrderInv, StartsNumbered, NeverStarted
<1>8. ServedInArrivalOrder'
  <2> SUFFICES ASSUME NEW a \in Ops, NEW b \in Ops,
                      enqueuedAt'[a] # 0,
                      enqueuedAt'[a] < enqueuedAt'[b],
                      startedAs[b] # 0
               PROVE  \/ startedAs[a] # 0 /\ startedAs[a] < startedAs[b]
                      \/ /\ startedAs[a] = 0
                         /\ outcome[a] \in Withdrawn \cup {"queue_full"}
    BY <1>1 DEF ServedInArrivalOrder
  <2>1. b # o
    BY <1>3
  <2>2. a # o
    <3>1. enqueuedAt'[a] \in Nat /\ enqueuedAt'[b] \in Nat
      BY <1>3
    <3> QED
      BY <1>2, <2>1, <3>1
  <2> QED
    BY <1>2, <2>1, <2>2 DEF OrderInv, BacklogInOrder, ServedInArrivalOrder
<1>9. AbortedNotQueued'
  <2>1. Queued' \subseteq Queued \cup {o}
    BY <1>4, <1>5 DEF Queued
  <2> QED
    BY <1>1, <1>3, <2>1 DEF OrderInv, BacklogInOrder, AbortedNotQueued
<1>10. WithinLimits'
  <2>1. Running' = Running
    BY <1>1 DEF Running
  <2>2. Len(pending') <= QueueMax
    BY <1>1, <1>4, <1>5, OptionsAssumption
  <2> QED
    BY <2>1, <2>2 DEF OrderInv, BacklogInOrder, WithinLimits, RunningMutating,
                      RunningReadonly
<1> QED
  BY <1>2, <1>6, <1>7, <1>8, <1>9, <1>10 DEF OrderInv, BacklogInOrder

LEMMA CompleteOrder ==
    ASSUME IInv, OrderInv, NEW o \in Ops, NEW result \in Finished,
           Complete(o, result)
    PROVE  OrderInv'
<1> DEFINE out == SettledAs(o, result)
<1>1. o \in Running /\ UNCHANGED <<disposed, aborted, enqueuedAt>>
  BY DEF Complete
<1>2. startedAs[o] # 0
  BY <1>1 DEF Running
<1>3. NeverStarted(out) /\ ServedWith(out)
  BY <1>2, SettlingKeepsOrder
<1>4. InSlots(Running) /\ Len(pending) <= QueueMax
  BY LimitsInSlots DEF OrderInv, BacklogInOrder
<1>5. InSlots(Running \ {o})
  BY <1>4, FewerInSlots DEF Running
<1>6. CASE ~disposed
  <2>1. /\ out \in [Ops -> Outcomes]
        /\ RunningIn(out) = Running \ {o}
        /\ Waiting(out) = Taken(pending, Len(pending))
        /\ Queued = Taken(pending, Len(pending))
        /\ pending \in Seq(Ops)
        /\ Injective(pending)
        /\ \E done : Drain(pending, Counts(RunningIn(out)), out, done)
    BY <1>6, CompleteDrains
  <2> HIDE DEF out
  <2>2. PICK done : Drain(pending, Counts(RunningIn(out)), out, done)
    BY <2>1
  <2>3. (aborted \cup aborted') \cap Taken(pending, Len(pending)) = {}
    BY <1>1, <2>1 DEF OrderInv, BacklogInOrder, AbortedNotQueued
  <2>4. TypeOK /\ ArrivalsNumbered /\ StartsNumbered /\ ByArrival(pending)
    BY DEF IInv, OrderInv
  <2> QED
    BY <1>1, <1>3, <1>4, <1>5, <2>1, <2>2, <2>3, <2>4, DrainOrder
<1>7. CASE disposed
  <2>1. /\ outcome' = out
        /\ UNCHANGED <<pending, dispatchSequence, startedAs>>
    BY <1>7 DEF Complete, SettledAs
  <2>2. Running' = Running \ {o}
    BY <1>1, <2>1 DEF Running, SettledAs, IInv, TypeOK, Finished
  <2> HIDE DEF out
  <2>3. NeverStarted(outcome)' /\ ServedInArrivalOrder'
    BY <1>1, <1>3, <2>1 DEF NeverStarted, ServedWith, ServedInArrivalOrder
  <2>4. ByArrival(pending)' /\ ArrivalsNumbered' /\ StartsNumbered'
    BY <1>1, <2>1
    DEF OrderInv, ByArrival, ArrivalsNumbered, Arrivals, StartsNumbered
  <2>5. AbortedNotQueued'
    BY <1>1, <2>1 DEF OrderInv, BacklogInOrder, AbortedNotQueued, Queued
  <2>6. WithinLimits'
    BY <1>4, <1>5, <2>1, <2>2
    DEF WithinLimits, InSlots, RunningMutating, RunningReadonly
  <2> QED
    BY <2>3, <2>4, <2>5, <2>6 DEF OrderInv, BacklogInOrder
<1> QED
  BY <1>6, <1>7

\* Taking an entry out of a backlog sorted by arrival leaves it sorted.
LEMMA WithoutByArrival ==
    ASSUME NEW q \in Seq(Ops), ByArrival(q), NEW i \in 1..Len(q)
    PROVE  ByArrival(Without(q, i)) /\ Len(Without(q, i)) = Len(q) - 1
<1> DEFINE r == Without(q, i)
<1>1. /\ Len(r) = Len(q) - 1
      /\ \A k \in 1..(Len(q) - 1) : r[k] = IF k < i THEN q[k] ELSE q[k + 1]
  BY WithoutIndexed
<1> HIDE DEF r
<1>2. ASSUME NEW j \in 1..Len(r), NEW k \in 1..Len(r), j < k
      PROVE  enqueuedAt[r[j]] < enqueuedAt[r[k]]
  <2> DEFINE at(l) == IF l < i THEN l ELSE l + 1
  <2>1. r[j] = q[at(j)] /\ r[k] = q[at(k)]
    BY <1>1
  <2>2. at(j) \in 1..Len(q) /\ at(k) \in 1..Len(q) /\ at(j) < at(k)
    BY <1>1, <1>2
  <2> HIDE DEF at
  <2> QED
    BY <2>1, <2>2 DEF ByArrival
<1> QED
  BY <1>1, <1>2 DEF ByArrival, r

LEMMA CancelPendingOrder ==
    ASSUME IInv, OrderInv, NEW o \in Ops, NEW code \in Withdrawn,
           CancelPending(o, code),
           enqueuedAt' = enqueuedAt, aborted' \subseteq aborted \cup {o}
    PROVE  OrderInv'
<1> DEFINE out == SettledAs(o, code)
<1>1. PICK i \in 1..Len(pending) :
          /\ pending[i] = o
          /\ out \in [Ops -> Outcomes]
          /\ RunningIn(out) = Running
          /\ Waiting(out) = Queued \ {o}
          /\ Taken(Without(pending, i), Len(Without(pending, i))) = Queued \ {o}
          /\ pending \in Seq(Ops)
          /\ Without(pending, i) \in Seq(Ops)
          /\ Injective(Without(pending, i))
          /\ \E done : Drain(Without(pending, i), Counts(RunningIn(out)), out, done)
  BY CancelDrains
<1>2. NeverStarted(out) /\ ServedWith(out)
  BY SettlingKeepsOrder
<1> HIDE DEF out
<1>3. PICK done : Drain(Without(pending, i), Counts(RunningIn(out)), out, done)
  BY <1>1
<1>4. /\ ByArrival(Without(pending, i))
      /\ Len(Without(pending, i)) = Len(pending) - 1
  BY <1>1, WithoutByArrival DEF OrderInv
<1>5. InSlots(RunningIn(out)) /\ Len(pending) <= QueueMax
  BY <1>1, LimitsInSlots DEF OrderInv, BacklogInOrder
<1>6. Len(Without(pending, i)) <= QueueMax
  <2>1. Len(pending) \in Nat
    BY <1>1
  <2> QED
    BY <1>4, <1>5, <2>1, OptionsAssumption
<1>7. (aborted \cup aborted') \cap (Queued \ {o}) = {}
  BY DEF OrderInv, BacklogInOrder, AbortedNotQueued
<1>8. TypeOK /\ ArrivalsNumbered /\ StartsNumbered
  BY DEF IInv, OrderInv
<1> QED
  BY <1>1, <1>2, <1>3, <1>4, <1>5, <1>6, <1>7, <1>8, DrainOrder

LEMMA DisposeOrder == IInv /\ OrderInv /\ Dispose => OrderInv'
<1> SUFFICES ASSUME IInv, OrderInv, Dispose PROVE OrderInv'
  OBVIOUS
<1>1. /\ pending' = <<>>
      /\ outcome' = [o \in Ops |->
                        IF o \in Queued THEN "session_disposed" ELSE outcome[o]]
      /\ UNCHANGED <<inFlight, dispatchSequence, aborted, enqueuedAt, startedAs>>
  BY DEF Dispose
<1>2. \A o \in Queued : startedAs[o] = 0
  BY DEF IInv, NoCallLost
<1>3. NeverStarted(outcome)'
  BY <1>1 DEF NeverStarted, OrderInv, Withdrawn
<1>4. ServedInArrivalOrder'
  BY <1>1, <1>2 DEF OrderInv, BacklogInOrder, ServedInArrivalOrder, Withdrawn
<1>5. ByArrival(pending)' /\ ArrivalsNumbered' /\ StartsNumbered'
  BY <1>1 DEF OrderInv, ByArrival, ArrivalsNumbered, Arrivals, StartsNumbered
<1>6. AbortedNotQueued'
  BY <1>1 DEF AbortedNotQueued, Queued
<1>7. WithinLimits'
  <2>1. Running' = Running
    BY <1>1, <1>2 DEF Running
  <2> QED
    BY <1>1, <2>1, OptionsAssumption
    DEF OrderInv, BacklogInOrder, WithinLimits, RunningMutating, RunningReadonly
<1> QED
  BY <1>3, <1>4, <1>5, <1>6, <1>7 DEF OrderInv, BacklogInOrder

\* A signal that fires away from the backlog, or a step of something else.
LEMMA QuietOrder ==
    ASSUME OrderInv, aborted' \cap Queued = {},
           UNCHANGED <<queueVars, enqueuedAt, startedAs, outcome>>
    PROVE  OrderInv'
  BY DEF OrderInv, ByArrival, ArrivalsNumbered, Arrivals, StartsNumbered,
         NeverStarted, BacklogInOrder, ServedInArrivalOrder, AbortedNotQueued,
         Queued, WithinLimits, Running, RunningMutating, RunningReadonly, queueVars

LEMMA InitOrder == Init => OrderInv
<1> SUFFICES ASSUME Init PROVE OrderInv
  OBVIOUS
<1>1. {o \in Ops : enqueuedAt[o] # 0} = {} /\ Running = {}
  BY DEF Init, Running
<1>2. RunningMutating = {} /\ RunningReadonly = {} /\ Len(pending) = 0
  BY <1>1 DEF Init, RunningMutating, RunningReadonly
<1>3. Arrivals = 0
  BY <1>1, FS_EmptySet DEF Arrivals
<1>4. WithinLimits
  BY <1>2, FS_EmptySet, OptionsAssumption DEF WithinLimits
<1> QED
  BY <1>3, <1>4 DEF Init, OrderInv, ByArrival, ArrivalsNumbered, StartsNumbered,
                   NeverStarted, BacklogInOrder, ServedInArrivalOrder,
                   AbortedNotQueued, Queued

LEMMA NextOrder == IInv /\ OrderInv /\ [Next]_vars => OrderInv'
<1> SUFFICES ASSUME IInv, OrderInv, [Next]_vars PROVE OrderInv'
  OBVIOUS
<1>1. aborted \cap Queued = {}
  BY DEF OrderInv, BacklogInOrder, AbortedNotQueued
<1>2. ASSUME NEW o \in Ops, RunDisposed(o) \/ RunAborted(o)
      PROVE  OrderInv'
  BY <1>2, RefuseOrder DEF RunDisposed, RunAborted, Withdrawn
<1>3. ASSUME NEW o \in Ops, Timeout(o)
      PROVE  OrderInv'
  BY <1>3, CancelPendingOrder DEF Timeout, Withdrawn
<1>4. ASSUME NEW o \in Ops, AbortQueued(o)
      PROVE  OrderInv'
  BY <1>4, CancelPendingOrder DEF AbortQueued, Withdrawn
<1>5. ASSUME NEW o \in Ops, AbortElsewhere(o)
      PROVE  OrderInv'
  BY <1>1, <1>5, QuietOrder DEF AbortElsewhere
<1>6. CASE UNCHANGED vars
  BY <1>1, <1>6, QuietOrder DEF vars, queueVars
<1> QED
  BY <1>2, <1>3, <1>4, <1>5, <1>6, RunNowOrder, RunOverflowOrder,
     RunEnqueueOrder, CompleteOrder, DisposeOrder
  DEF Next, Run

\* Both invariants hold in every reachable state.
THEOREM OrderInvariance == Spec => [](IInv /\ OrderInv)
<1>1. Init => IInv /\ OrderInv
  BY InitInv, InitOrder
<1>2. IInv /\ OrderInv /\ [Next]_vars => (IInv /\ OrderInv)'
  BY NextInv, NextOrder
<1> QED
  BY <1>1, <1>2, PTL DEF Spec

\* The pending list stays a single FIFO, neither it nor a lane outgrows its
\* limit, and drain() meets no entry whose signal has fired, for any number of
\* calls and whatever is cancelled, timed out, completed or disposed (run,
\* enqueue, drain, cancelPending and dispose of src/operation-queue.ts).
THEOREM FirstComeFirstServed == Spec => []BacklogInOrder
<1>1. IInv /\ OrderInv => BacklogInOrder
  BY DEF OrderInv
<1> QED
  BY <1>1, OrderInvariance, PTL
-----------------------------------------------------------------------------
(***************************************************************************)
(* The queue implements the service.  Every call is in one phase; each     *)
(* handler moves calls between phases as one step of the service, or moves *)
(* none.                                                                   *)
(***************************************************************************)
Phases == [o \in Ops |-> Phase(o)]

\* The service counts as the queue does.
LEMMA SameCardinality == \A S : Service!Cardinality(S) = Cardinality(S)
  BY Zenon DEF Service!Cardinality, Cardinality

\* The phases of a call, told apart by what the queue keeps of it.
LEMMA PhaseFacts ==
    ASSUME IInv, NEW o \in Ops
    PROVE  /\ Phase(o) \in {"idle", "waiting", "serving", "done", "turned away"}
           /\ Phase(o) = "idle" <=> o \in Fresh
           /\ Phase(o) = "waiting" <=> o \in Queued
           /\ Phase(o) = "serving" <=> o \in Running
           /\ Phase(o) = "done" <=> outcome[o] \in Finished
           /\ Phase(o) = "turned away"
                  <=> outcome[o] \in Withdrawn \cup {"queue_full"}
<1>1. /\ o \in Queued <=> /\ enqueuedAt[o] # 0
                          /\ startedAs[o] = 0
                          /\ outcome[o] = "none"
      /\ enqueuedAt[o] = 0 => startedAs[o] = 0
      /\ outcome[o] \in Outcomes
  BY DEF IInv, NoCallLost, StartedHasArrived, TypeOK
<1> QED
  BY <1>1 DEF Phase, Fresh, Running, Outcomes, Withdrawn, Finished

\* The same after a step, for the invariant holds there too.
LEMMA PhaseFactsNext ==
    ASSUME IInv', NEW o \in Ops
    PROVE  /\ Phase(o)' \in {"idle", "waiting", "serving", "done", "turned away"}
           /\ Phase(o)' = "idle" <=> o \in Fresh'
           /\ Phase(o)' = "waiting" <=> o \in Queued'
           /\ Phase(o)' = "serving" <=> o \in Running'
           /\ Phase(o)' = "done" <=> outcome'[o] \in Finished
           /\ Phase(o)' = "turned away"
                  <=> outcome'[o] \in Withdrawn \cup {"queue_full"}
<1>1. /\ o \in Queued' <=> /\ enqueuedAt'[o] # 0
                           /\ startedAs'[o] = 0
                           /\ outcome'[o] = "none"
      /\ enqueuedAt'[o] = 0 => startedAs'[o] = 0
      /\ outcome'[o] \in Outcomes
  BY DEF IInv, NoCallLost, StartedHasArrived, TypeOK
<1> QED
  BY <1>1 DEF Phase, Fresh, Running, Outcomes, Withdrawn, Finished

\* A call whose books do not change keeps its phase.
LEMMA PhaseKept ==
    ASSUME IInv, IInv', NEW o \in Ops,
           enqueuedAt'[o] = enqueuedAt[o], startedAs'[o] = startedAs[o],
           outcome'[o] = outcome[o]
    PROVE  Phase(o)' = Phase(o)
<1>1. /\ o \in Queued <=> /\ enqueuedAt[o] # 0
                          /\ startedAs[o] = 0
                          /\ outcome[o] = "none"
      /\ o \in Queued' <=> /\ enqueuedAt'[o] # 0
                           /\ startedAs'[o] = 0
                           /\ outcome'[o] = "none"
  BY DEF IInv, NoCallLost
<1>2. /\ o \in Fresh <=> o \in Fresh'
      /\ o \in Queued <=> o \in Queued'
      /\ o \in Running <=> o \in Running'
  BY <1>1 DEF Fresh, Running
<1>3. /\ Phase(o) \in {"idle", "waiting", "serving", "done", "turned away"}
      /\ Phase(o) = "idle" <=> o \in Fresh
      /\ Phase(o) = "waiting" <=> o \in Queued
      /\ Phase(o) = "serving" <=> o \in Running
      /\ Phase(o) = "done" <=> outcome[o] \in Finished
  BY PhaseFacts
<1>4. /\ Phase(o)' \in {"idle", "waiting", "serving", "done", "turned away"}
      /\ Phase(o)' = "idle" <=> o \in Fresh'
      /\ Phase(o)' = "waiting" <=> o \in Queued'
      /\ Phase(o)' = "serving" <=> o \in Running'
      /\ Phase(o)' = "done" <=> outcome[o] \in Finished
  BY PhaseFactsNext
<1>5. \A p, r \in {"idle", "waiting", "serving", "done", "turned away"} :
          (/\ p = "idle" <=> r = "idle"
           /\ p = "waiting" <=> r = "waiting"
           /\ p = "serving" <=> r = "serving"
           /\ p = "done" <=> r = "done")
          => p = r
  OBVIOUS
<1> QED
  BY <1>2, <1>3, <1>4, <1>5

\* What the service sees of a state of the queue.
LEMMA ServiceSees ==
    ASSUME IInv
    PROVE  /\ Service!In("idle") = Fresh
           /\ Service!In("waiting") = Queued
           /\ Service!In("serving") = Running
<1>1. Queued \subseteq Ops /\ Fresh \subseteq Ops /\ Running \subseteq Ops
  BY DEF IInv, NoCallLost, Fresh, Running
<1> QED
  BY <1>1, PhaseFacts DEF Service!In

\* A step after which just the calls in A are newly served, those in B newly
\* turned away and those in C newly done is a Move of the service.
LEMMA MovesOf ==
    ASSUME NEW A \in SUBSET Ops, NEW B \in SUBSET Ops, NEW C \in SUBSET Ops,
           A \cap B = {}, A \cap C = {}, B \cap C = {},
           \A o \in A : Phase(o)' = "serving",
           \A o \in B : Phase(o)' = "turned away",
           \A o \in C : Phase(o)' = "done",
           \A o \in Ops \ (A \cup B \cup C) : Phase(o)' = Phase(o)
    PROVE  Service!Move(A, B, C)
  BY DEF Service!Move

\* Init of the queue is Init of the service.
LEMMA InitServes == Init => Service!Init
<1> SUFFICES ASSUME Init PROVE Service!Init
  OBVIOUS
<1>1. \A o \in Ops : Phase(o) = "idle"
  <2>1. IInv /\ Fresh = Ops
    BY InitInv DEF Init, Fresh
  <2> QED
    BY <2>1, PhaseFacts
<1> QED
  BY <1>1 DEF Init, Service!Init

\* A call that is refused at once, or overflows the backlog, is turned away.
LEMMA TurnedAway ==
    ASSUME IInv, IInv', NEW o \in Fresh,
           startedAs' = startedAs, disposed' = disposed,
           outcome'[o] \in Withdrawn \cup {"queue_full"},
           \A p \in Ops \ {o} : /\ enqueuedAt'[p] = enqueuedAt[p]
                                /\ outcome'[p] = outcome[p]
    PROVE  Service!Call(o)
<1>1. o \in Ops
  BY DEF Fresh
<1>2. Phase(o)' = "turned away"
  BY <1>1, PhaseFactsNext
<1>3. \A p \in Ops \ {o} : Phase(p)' = Phase(p)
  BY PhaseKept
<1>4. Service!Move({}, {o}, {})
  BY <1>1, <1>2, <1>3, MovesOf
<1>5. o \in Service!In("idle")
  BY ServiceSees
<1> QED
  BY <1>4, <1>5 DEF Service!Call

LEMMA RunNowServes ==
    ASSUME IInv, OrderInv, IInv', NEW o \in Ops, RunNow(o)
    PROVE  Service!Call(o)
<1>1. /\ o \in Fresh /\ ~disposed /\ disposed' = disposed
      /\ CanDispatch(o, inFlight)
      /\ outcome' = outcome
  BY DEF RunNow, Arrive, MayStartNow
<1>2. \A p \in Ops \ {o} : enqueuedAt'[p] = enqueuedAt[p]
  BY ArriveFacts DEF RunNow
<1>3. /\ \A p \in Ops \ {o} : startedAs'[p] = startedAs[p]
      /\ Running' = Running \cup {o}
  BY RunNowStarts
<1>4. InSlots(Running)
  BY LimitsInSlots DEF OrderInv, BacklogInOrder
<1>5. InSlots(Running \cup {o}) /\ (o \in Readers => Running \subseteq Readers)
  BY <1>1, <1>4, OneMoreInSlots
<1>6. Service!Admissible({o}, Service!In("serving"))
  <2>1. Service!In("serving") = Running /\ {o} \cup Running = Running \cup {o}
    BY ServiceSees
  <2>2. {o} \cap Readers # {} => Running \subseteq Readers
    BY <1>5
  <2> QED
    BY <1>5, <2>1, <2>2, SameCardinality, Zenon DEF Service!Admissible, InSlots
<1>7. Phase(o)' = "serving"
  BY <1>3, PhaseFactsNext
<1>8. \A p \in Ops \ {o} : Phase(p)' = Phase(p)
  BY <1>1, <1>2, <1>3, PhaseKept
<1>9. Service!Move({o}, {}, {})
  BY <1>7, <1>8, MovesOf
<1>10. o \in Service!In("idle")
  BY <1>1, ServiceSees
<1> QED
  BY <1>1, <1>6, <1>9, <1>10 DEF Service!Call

LEMMA RunEnqueueServes ==
    ASSUME IInv, IInv', NEW o \in Ops, RunEnqueue(o)
    PROVE  Service!Call(o)
<1>1. /\ o \in Fresh /\ ~disposed /\ disposed' = disposed
      /\ pending' = Append(pending, o)
      /\ outcome' = outcome /\ startedAs' = startedAs
  BY DEF RunEnqueue, Arrive
<1>2. \A p \in Ops \ {o} : enqueuedAt'[p] = enqueuedAt[p]
  BY ArriveFacts DEF RunEnqueue
<1>3. o \in Queued'
  <2>1. /\ Len(pending') = Len(pending) + 1 /\ Len(pending) \in Nat
        /\ pending'[Len(pending) + 1] = o
    BY SMTT(30), <1>1, AppendProperties DEF IInv, TypeOK
  <2> QED
    BY <2>1 DEF Queued
<1>4. Phase(o)' = "waiting"
  BY <1>3, PhaseFactsNext
<1>5. \A p \in Ops \ {o} : Phase(p)' = Phase(p)
  BY <1>1, <1>2, PhaseKept
<1>6. o \in Service!In("idle")
  BY <1>1, ServiceSees
<1>7. Phases' = [Phases EXCEPT ![o] = "waiting"]
  BY <1>4, <1>5 DEF Phases
<1> QED
  BY <1>1, <1>6, <1>7 DEF Service!Call, Phases

(***************************************************************************)
(* Draining the backlog q after the calls in settled have been answered:   *)
(* one Turn of the service, that admits what the drain starts.             *)
(***************************************************************************)
LEMMA DrainServes ==
    ASSUME IInv, IInv', ~disposed, UNCHANGED <<disposed, enqueuedAt>>,
           NEW q \in Seq(Ops), Injective(q),
           NEW out \in [Ops -> Outcomes], NEW done,
           Waiting(out) = Taken(q, Len(q)),
           InSlots(RunningIn(out)),
           aborted \cap Taken(q, Len(q)) = {},
           Drain(q, Counts(RunningIn(out)), out, done),
           NEW finished \in SUBSET Running, NEW rejected \in SUBSET Queued,
           Cardinality(finished \cup rejected) = 1,
           RunningIn(out) = Running \ finished,
           Waiting(out) = Queued \ rejected,
           \A o \in finished : out[o] \in Finished,
           \A o \in rejected : out[o] \in Withdrawn,
           \A o \in Ops \ (finished \cup rejected) : out[o] = outcome[o]
    PROVE  Service!Turn
<1>1. PICK n \in 0..Len(q) :
          /\ Taken(q, n) \subseteq Waiting(out)
          /\ outcome' = out
          /\ \A o \in Ops \ Taken(q, n) : startedAs'[o] = startedAs[o]
          /\ \A i \in 1..n :
                 startedAs'[q[i]] = dispatchSequence + Cardinality(Started(q, i))
          /\ InSlots(RunningIn(out) \cup Taken(q, n))
          /\ Taken(q, n) \cap Readers # {} => RunningIn(out) \subseteq Readers
          /\ Started(q, n) = Taken(q, n)
  BY DrainStarts DEF IInv
<1> DEFINE admitted == Taken(q, n)
<1>2. /\ admitted \in SUBSET (Queued \ rejected)
      /\ admitted \in SUBSET Ops
      /\ finished \in SUBSET Ops /\ rejected \in SUBSET Ops
      /\ Queued \cap Running = {}
  BY <1>1 DEF IInv, NoCallLost, Running
<1>3. \A o \in admitted : Phase(o)' = "serving"
  <2> SUFFICES ASSUME NEW i \in 1..n
               PROVE  Phase(q[i])' = "serving"
    BY DEF Taken
  <2>1. q[i] \in admitted
    BY DEF Taken
  <2>2. startedAs'[q[i]] = dispatchSequence + Cardinality(Started(q, i))
    BY <1>1
  <2>3. Cardinality(Started(q, i)) \in Nat \ {0}
    <3>1. i \in 0..Len(q) /\ i \in 1..i
      OBVIOUS
    <3>2. q[i] \in Started(q, i)
      BY <1>1, <2>1, <3>1 DEF Started, Taken
    <3> QED
      BY <3>1, <3>2, StartedFinite, FS_CardinalityType, FS_EmptySet
  <2>4. startedAs'[q[i]] # 0
    <3>1. dispatchSequence \in Nat
      BY DEF IInv, TypeOK
    <3> QED
      BY <2>2, <2>3, <3>1
  <2>5. outcome'[q[i]] = "none"
    BY <1>1, <2>1 DEF Waiting
  <2>6. q[i] \in Running'
    BY <1>2, <2>1, <2>4, <2>5 DEF Running
  <2> QED
    BY <1>2, <2>1, <2>6, PhaseFactsNext
<1>4. \A o \in finished : Phase(o)' = "done"
  BY <1>1, <1>2, PhaseFactsNext
<1>5. \A o \in rejected : Phase(o)' = "turned away"
  BY <1>1, <1>2, PhaseFactsNext
<1>6. \A o \in Ops \ (admitted \cup rejected \cup finished) : Phase(o)' = Phase(o)
  BY <1>1, PhaseKept
<1> HIDE DEF admitted
<1>7. Service!Move(admitted, rejected, finished)
  BY <1>2, <1>3, <1>4, <1>5, <1>6, MovesOf
<1>8. Service!Admissible(admitted, Running \ finished)
  <2>1. admitted \cup (Running \ finished) = RunningIn(out) \cup Taken(q, n)
    BY <1>1 DEF admitted
  <2>2. admitted \cap Readers # {} => Running \ finished \subseteq Readers
    BY <1>1 DEF admitted
  <2> QED
    BY <1>1, <2>1, <2>2, SameCardinality, Zenon DEF Service!Admissible, InSlots
<1> QED
  <2>1. /\ Service!In("serving") = Running
        /\ Service!In("waiting") = Queued
    BY ServiceSees
  <2>2. /\ finished \in SUBSET Service!In("serving")
        /\ rejected \in SUBSET Service!In("waiting")
        /\ admitted \in SUBSET (Service!In("waiting") \ rejected)
        /\ disposed => admitted = {}
        /\ Service!Admissible(admitted, Service!In("serving") \ finished)
    BY <1>2, <1>8, <2>1
  <2>3. Service!Cardinality(finished \cup rejected) = 1
    BY SameCardinality
  <2> QED
    BY <1>7, <2>2, <2>3 DEF Service!Turn
LEMMA CompleteServes ==
    ASSUME IInv, OrderInv, IInv', NEW o \in Ops, NEW result \in Finished,
           Complete(o, result)
    PROVE  Service!Turn
<1> DEFINE out == SettledAs(o, result)
<1>1. o \in Running /\ UNCHANGED <<disposed, aborted, enqueuedAt>>
  BY DEF Complete
<1>2. /\ out[o] \in Finished
      /\ \A p \in Ops \ {o} : out[p] = outcome[p]
  BY DEF SettledAs, IInv, TypeOK
<1>3. InSlots(Running) /\ {o} \in SUBSET Running /\ Running \in SUBSET Ops
  BY <1>1, LimitsInSlots DEF OrderInv, BacklogInOrder, Running
<1>4. InSlots(Running \ {o})
  BY <1>3, FewerInSlots
<1>5. Cardinality({o} \cup {}) = 1
  <2>1. {o} \cup {} = {o}
    OBVIOUS
  <2> QED
    BY <2>1, FS_Singleton
<1>6. CASE ~disposed
  <2>1. /\ out \in [Ops -> Outcomes]
        /\ RunningIn(out) = Running \ {o}
        /\ Waiting(out) = Taken(pending, Len(pending))
        /\ Queued = Taken(pending, Len(pending))
        /\ pending \in Seq(Ops)
        /\ Injective(pending)
        /\ \E done : Drain(pending, Counts(RunningIn(out)), out, done)
    BY <1>6, CompleteDrains
  <2> HIDE DEF out
  <2>2. PICK done : Drain(pending, Counts(RunningIn(out)), out, done)
    BY <2>1
  <2>3. aborted \cap Taken(pending, Len(pending)) = {}
    BY <2>1 DEF OrderInv, BacklogInOrder, AbortedNotQueued
  <2>4. {} \in SUBSET Queued /\ Waiting(out) = Queued \ {}
    BY <2>1
  <2>5. \A p \in Ops \ ({o} \cup {}) : out[p] = outcome[p]
    BY <1>2
  <2>6. \A p \in {} : out[p] \in Withdrawn
    OBVIOUS
  <2> QED
    BY ZenonT(60), <1>1, <1>2, <1>3, <1>4, <1>5, <1>6, <2>1, <2>2, <2>3, <2>4, <2>5, <2>6,
       DrainServes
<1>7. CASE disposed
  <2>1. outcome' = out /\ startedAs' = startedAs
    BY <1>7 DEF Complete, SettledAs
  <2> HIDE DEF out
  <2>2. Phase(o)' = "done"
    BY <1>2, <2>1, PhaseFactsNext
  <2>3. \A p \in Ops \ {o} : Phase(p)' = Phase(p)
    BY <1>1, <1>2, <2>1, PhaseKept
  <2>4. Service!Move({}, {}, {o})
    BY <2>2, <2>3, MovesOf
  <2>5. Service!Admissible({}, Running \ {o})
    <3>1. {} \cup (Running \ {o}) = Running \ {o} /\ {} \cap Readers = {}
      OBVIOUS
    <3> QED
      BY <1>4, <3>1, SameCardinality, Zenon DEF Service!Admissible, InSlots
  <2>6. /\ Service!In("serving") = Running
        /\ Service!Cardinality({o} \cup {}) = 1
    BY <1>5, ServiceSees, SameCardinality
  <2>7. /\ {o} \in SUBSET Service!In("serving")
        /\ {} \in SUBSET Service!In("waiting")
        /\ {} \in SUBSET (Service!In("waiting") \ {})
        /\ Service!Admissible({}, Service!In("serving") \ {o})
    BY <1>3, <2>5, <2>6
  <2> QED
    BY <1>1, <2>4, <2>6, <2>7 DEF Service!Turn
<1> QED
  BY <1>6, <1>7

LEMMA CancelPendingServes ==
    ASSUME IInv, OrderInv, IInv', NEW o \in Ops, NEW code \in Withdrawn,
           CancelPending(o, code), UNCHANGED <<disposed, enqueuedAt>>
    PROVE  Service!Turn
<1> DEFINE out == SettledAs(o, code)
<1>1. PICK i \in 1..Len(pending) :
          /\ ~disposed
          /\ o \in Queued
          /\ out \in [Ops -> Outcomes]
          /\ RunningIn(out) = Running
          /\ Waiting(out) = Queued \ {o}
          /\ Taken(Without(pending, i), Len(Without(pending, i))) = Queued \ {o}
          /\ Without(pending, i) \in Seq(Ops)
          /\ Injective(Without(pending, i))
          /\ \E done : Drain(Without(pending, i), Counts(RunningIn(out)), out, done)
  BY CancelDrains
<1>2. /\ out[o] \in Withdrawn
      /\ \A p \in Ops \ {o} : out[p] = outcome[p]
  BY DEF SettledAs, IInv, TypeOK
<1> HIDE DEF out
<1>3. PICK done : Drain(Without(pending, i), Counts(RunningIn(out)), out, done)
  BY <1>1
<1>4. aborted \cap (Queued \ {o}) = {}
  BY DEF OrderInv, BacklogInOrder, AbortedNotQueued
<1>5. InSlots(RunningIn(out))
  BY <1>1, LimitsInSlots DEF OrderInv, BacklogInOrder
<1>6. /\ {} \in SUBSET Running /\ RunningIn(out) = Running \ {}
      /\ {o} \in SUBSET Queued
      /\ \A p \in {} : out[p] \in Finished
      /\ \A p \in {o} : out[p] \in Withdrawn
      /\ \A p \in Ops \ ({} \cup {o}) : out[p] = outcome[p]
  BY <1>1, <1>2
<1>7. Cardinality({} \cup {o}) = 1
  <2>1. {} \cup {o} = {o}
    OBVIOUS
  <2> QED
    BY <2>1, FS_Singleton
<1> QED
  BY <1>1, <1>3, <1>4, <1>5, <1>6, <1>7, DrainServes

LEMMA DisposeServes ==
    ASSUME IInv, IInv', Dispose
    PROVE  Service!Close
<1>1. /\ ~disposed /\ disposed' = TRUE
      /\ outcome' = [o \in Ops |->
                        IF o \in Queued THEN "session_disposed" ELSE outcome[o]]
      /\ UNCHANGED <<enqueuedAt, startedAs>>
  BY DEF Dispose
<1>2. Queued \in SUBSET Ops
  BY DEF IInv, NoCallLost
<1>3. \A o \in Queued : Phase(o)' = "turned away"
  BY <1>1, <1>2, PhaseFactsNext DEF Withdrawn
<1>4. \A o \in Ops \ Queued : Phase(o)' = Phase(o)
  BY <1>1, PhaseKept
<1>5. Service!Move({}, Queued, {})
  BY <1>2, <1>3, <1>4, MovesOf
<1> QED
  BY <1>1, <1>5, ServiceSees DEF Service!Close

\* A step that changes no call's books is none of the service's business.
LEMMA QuietServes ==
    ASSUME IInv, IInv',
           UNCHANGED <<disposed, enqueuedAt, startedAs, outcome>>
    PROVE  UNCHANGED <<Phases, disposed>>
  BY PhaseKept DEF Phases

\* Every step of the queue is a step of the service or leaves it alone.
LEMMA StepServes ==
    ASSUME IInv, OrderInv, IInv', [Next]_vars
    PROVE  Service!Next \/ UNCHANGED <<Phases, disposed>>
<1>1. ASSUME NEW o \in Ops, RunDisposed(o) \/ RunAborted(o)
      PROVE  Service!Call(o)
  <2>1. PICK code \in Withdrawn : o \in Fresh /\ Refuse(o, code)
    BY <1>1 DEF RunDisposed, RunAborted, Withdrawn
  <2>2. /\ UNCHANGED <<enqueuedAt, startedAs, disposed>>
        /\ outcome'[o] = code
        /\ \A p \in Ops \ {o} : outcome'[p] = outcome[p]
    BY <2>1 DEF Refuse, IInv, TypeOK
  <2> QED
    BY <2>1, <2>2, TurnedAway
<1>2. ASSUME NEW o \in Ops, RunOverflow(o)
      PROVE  Service!Call(o)
  <2>1. o \in Fresh /\ startedAs' = startedAs /\ disposed' = disposed
    BY <1>2 DEF RunOverflow, Arrive
  <2>2. \A p \in Ops \ {o} : enqueuedAt'[p] = enqueuedAt[p]
    BY <1>2, ArriveFacts DEF RunOverflow
  <2>3. /\ outcome'[o] = "queue_full"
        /\ \A p \in Ops \ {o} : outcome'[p] = outcome[p]
    BY <1>2 DEF RunOverflow, IInv, TypeOK
  <2> QED
    BY <2>1, <2>2, <2>3, TurnedAway
<1>3. ASSUME NEW o \in Ops, Run(o)
      PROVE  Service!Call(o)
  BY <1>1, <1>2, <1>3, RunNowServes, RunEnqueueServes DEF Run
<1>4. ASSUME NEW o \in Ops, Timeout(o) \/ AbortQueued(o)
      PROVE  Service!Turn
  BY <1>4, CancelPendingServes DEF Timeout, AbortQueued, Withdrawn
<1>5. ASSUME NEW o \in Ops, AbortElsewhere(o)
      PROVE  UNCHANGED <<Phases, disposed>>
  BY <1>5, QuietServes DEF AbortElsewhere, queueVars
<1>6. ASSUME UNCHANGED vars
      PROVE  UNCHANGED <<Phases, disposed>>
  BY <1>6, QuietServes DEF vars
<1> QED
  BY <1>3, <1>4, <1>5, <1>6, CompleteServes, DisposeServes
  DEF Next, Service!Next

\* The queue of src/operation-queue.ts implements OperationService: it serves
\* a call at most once and answers it once, keeps the lanes to their slots,
\* admits no read-only call beside a mutating one and nobody once disposed.
THEOREM Implementation == Spec => ImplementsService
<1>1. Init => Service!Init
  BY InitServes
<1>2. /\ IInv /\ OrderInv /\ IInv'
      /\ [Next]_vars
      => [Service!Next]_<<[o \in Ops |-> Phase(o)], disposed>>
  BY StepServes DEF Phases
<1> QED
  BY <1>1, <1>2, OrderInvariance, PTL DEF Spec, ImplementsService, Service!Spec
=============================================================================
