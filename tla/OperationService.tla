-------------------------- MODULE OperationService --------------------------
(***************************************************************************)
(* What a session promises its callers, without the backlog, the counters, *)
(* the signals or the timers of src/operation-queue.ts: a call is served   *)
(* at most once and answered once, the two lanes keep to their slots, a    *)
(* read-only call is not admitted while a mutating one stays in service,   *)
(* and a closed service admits nobody.                                     *)
(***************************************************************************)
EXTENDS Integers, FiniteSets

CONSTANTS Ops, Readers, MaxConcurrent, MaxReadonlyConcurrent

VARIABLES phase, closed

\* A call that is "done" was served, one that is "turned away" never was.
Phases == {"idle", "waiting", "serving", "done", "turned away"}

In(p) == {o \in Ops : phase[o] = p}

Init ==
    /\ phase = [o \in Ops |-> "idle"]
    /\ closed = FALSE

\* The calls in `admitted` enter service, those in `rejected` are turned away
\* and those in `finished` leave service, in one step.
Move(admitted, rejected, finished) ==
    phase' = [o \in Ops |-> CASE o \in admitted -> "serving"
                              [] o \in rejected -> "turned away"
                              [] o \in finished -> "done"
                              [] OTHER -> phase[o]]

\* `admitted` may join the calls that stay in service.
Admissible(admitted, staying) ==
    LET serving == admitted \cup staying
    IN  /\ Cardinality(serving \ Readers) <= MaxConcurrent
        /\ Cardinality(serving \cap Readers) <= MaxReadonlyConcurrent
        /\ admitted \cap Readers # {} => staying \subseteq Readers

\* A caller arrives and is served at once, told to wait, or turned away.
Call(o) ==
    /\ o \in In("idle")
    /\ \/ /\ ~closed
          /\ Admissible({o}, In("serving"))
          /\ Move({o}, {}, {})
       \/ /\ ~closed
          /\ phase' = [phase EXCEPT ![o] = "waiting"]
       \/ Move({}, {o}, {})
    /\ UNCHANGED closed

\* At most one call leaves service or gives up waiting; any number of
\* waiting calls are admitted in its place.
Turn ==
    \E finished \in SUBSET In("serving"), rejected \in SUBSET In("waiting") :
        /\ Cardinality(finished \cup rejected) = 1
        /\ \E admitted \in SUBSET (In("waiting") \ rejected) :
               /\ closed => admitted = {}
               /\ Admissible(admitted, In("serving") \ finished)
               /\ Move(admitted, rejected, finished)
        /\ UNCHANGED closed

Close ==
    /\ ~closed
    /\ closed' = TRUE
    /\ Move({}, In("waiting"), {})

Next == (\E o \in Ops : Call(o)) \/ Turn \/ Close

Spec == Init /\ [][Next]_<<phase, closed>>
=============================================================================
