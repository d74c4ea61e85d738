---------------------------- MODULE SnapshotRefs ----------------------------
(***************************************************************************)
(* The refs that browser_snapshot hands out: Session's page generation     *)
(* (src/session.ts), the RefRegistry (src/refs.ts) and the primitives that *)
(* fill it, empty it and use it (src/tools.ts), as the operation queue     *)
(* lets them overlap.                                                      *)
(*                                                                         *)
(* A handler runs without interruption from one await to the next; each    *)
(* such segment is an action.  A ref token p<page>s<snap>_r<node> is a     *)
(* record.  The DOM is not modelled: that an element was detached or       *)
(* changed its meaning is a failure the browser may answer with at any     *)
(* time.                                                                   *)
(***************************************************************************)
EXTENDS Integers, FiniteSets

CONSTANTS
    Snaps,          \* calls of browser_snapshot, on the read-only lane
    Users,          \* calls of browser_click and the like with a ref
    Draggers,       \* those that are browser_drag between two refs
    Navs,           \* calls of browser_navigate
    Nodes,          \* number of refs in a snapshot
    MaxReadonlyConcurrent,
    MaxGeneration   \* bound on page events, for model checking

ASSUME ParametersAssumption ==
    /\ IsFiniteSet(Snaps) /\ IsFiniteSet(Users) /\ IsFiniteSet(Navs)
    /\ Draggers \subseteq Users
    /\ Snaps \cap Users = {} /\ Snaps \cap Navs = {} /\ Users \cap Navs = {}
    /\ Nodes \in Nat \ {0}
    /\ MaxReadonlyConcurrent \in Nat \ {0}
    /\ MaxGeneration \in Nat

Calls == Snaps \cup Users \cup Navs

VARIABLES
    generation,          \* Session.currentPageGeneration
    snapshotGeneration,  \* RefRegistry.snapshotGeneration
    entries,             \* tokens in RefRegistry.entries
    bound,               \* those whose entry has a handle
    at,                  \* where each call is
    taken,               \* of a snapshot: page, snap, and nodes bound so far
    args,                \* of a user: the ref it acts on, and a drag's target
    hovers               \* of a drag: the times it has hovered

registry == <<snapshotGeneration, entries, bound>>
users    == <<args, hovers>>
vars     == <<generation, snapshotGeneration, entries, bound, at, taken, args, hovers>>

-----------------------------------------------------------------------------
Token == [page : Nat, snap : Nat, node : 1..Nodes]

NoToken == [page |-> 0, snap |-> 0, node |-> 1]

\* The tokens of a snapshot that has been ingested.
TokensOf(s) == {[page |-> taken[s].page, snap |-> taken[s].snap, node |-> k] :
                    k \in 1..Nodes}

\* The ref a user is at: a drag comes to its target after the first hover.
Held(u) == IF hovers[u] = 0 THEN args[u].ref ELSE args[u].toRef

Returned == {s \in Snaps : at[s] = "returned"}

Running == {c \in Calls : at[c] \notin {"idle", "returned", "failed"}}

(***************************************************************************)
(* OperationQueue.canDispatch with one mutating slot: a snapshot waits for *)
(* mutating calls, a mutating call does not wait for snapshots.            *)
(***************************************************************************)
MayStart(c) ==
    /\ at[c] = "idle"
    /\ Running \subseteq Snaps
    /\ c \in Snaps => Cardinality(Running) < MaxReadonlyConcurrent

Go(c, where) == at' = [at EXCEPT ![c] = where]

\* RefRegistry.clear(): every handle is disposed as well.
Clear ==
    /\ entries' = {}
    /\ bound' = {}

-----------------------------------------------------------------------------
Init ==
    /\ generation = 1
    /\ snapshotGeneration = 0
    /\ entries = {}
    /\ bound = {}
    /\ at = [c \in Calls |-> "idle"]
    /\ taken = [s \in Snaps |-> [page |-> 0, snap |-> 0, node |-> 0]]
    /\ args = [u \in Users |-> [ref |-> NoToken, toRef |-> NoToken]]
    /\ hovers = [u \in Users |-> 0]

(***************************************************************************)
(* A frame navigated, the page closed, or page() adopted another one.      *)
(***************************************************************************)
\* Mutant: the generation advances and the old refs stay.
PageChanged_KeepsRefs ==
    /\ generation < MaxGeneration
    /\ generation' = generation + 1
    /\ UNCHANGED <<registry, at, taken, users>>

PageChanged ==
    /\ generation < MaxGeneration
    /\ generation' = generation + 1
    /\ Clear
    /\ UNCHANGED <<snapshotGeneration, at, taken, users>>

(***************************************************************************)
(* browser_snapshot                                                        *)
(***************************************************************************)
\* The page generation is read and ariaSnapshot() awaited.
StartSnapshot(s) ==
    /\ MayStart(s)
    /\ Go(s, "capturing")
    /\ taken' = [taken EXCEPT ![s].page = generation]
    /\ UNCHANGED <<generation, registry, users>>

\* Mutant: the catch block of the bind is widened to the capture.
CaptureFails_Clears(s) ==
    /\ at[s] = "capturing"
    /\ Clear
    /\ Go(s, "failed")
    /\ UNCHANGED <<generation, snapshotGeneration, taken, users>>

\* ariaSnapshot() rejects, or the page changed while it ran.
CaptureFails(s) ==
    /\ at[s] = "capturing"
    /\ Go(s, "failed")
    /\ UNCHANGED <<generation, registry, taken, users>>

\* Mutant: the generation is not compared after the capture.
Ingest_Unchecked(s) ==
    /\ at[s] = "capturing"
    /\ snapshotGeneration' = snapshotGeneration + 1
    /\ taken' = [taken EXCEPT ![s].snap = snapshotGeneration + 1]
    /\ entries' = {[page |-> taken[s].page, snap |-> snapshotGeneration + 1,
                    node |-> k] : k \in 1..Nodes}
    /\ bound' = {}
    /\ Go(s, "binding")
    /\ UNCHANGED <<generation, users>>

\* ingest() empties the registry and fills it with this snapshot's refs.
Ingest(s) ==
    /\ at[s] = "capturing"
    /\ taken[s].page = generation
    /\ snapshotGeneration' = snapshotGeneration + 1
    /\ taken' = [taken EXCEPT ![s].snap = snapshotGeneration + 1]
    /\ entries' = {[page |-> generation, snap |-> snapshotGeneration + 1,
                    node |-> k] : k \in 1..Nodes}
    /\ bound' = {}
    /\ Go(s, "binding")
    /\ UNCHANGED <<generation, users>>

\* The YAML does not parse: the registry has been emptied by then.
IngestFails(s) ==
    /\ at[s] = "capturing"
    /\ taken[s].page = generation
    /\ snapshotGeneration' = snapshotGeneration + 1
    /\ Clear
    /\ Go(s, "failed")
    /\ UNCHANGED <<generation, taken, users>>

NextToken(s) == [page |-> taken[s].page, snap |-> taken[s].snap,
                 node |-> taken[s].node + 1]

\* Mutant: the comparison after the awaits is left out.
StillRegistered_Unchecked(s) == TRUE

\* After an await of bindHandles: is the entry being bound still the one in
\* the registry?
StillRegistered(s) ==
    /\ taken[s].snap = snapshotGeneration
    /\ NextToken(s) \in entries

\* One round of bindHandles' loop: the handle is stored in its entry.  After
\* the last one the handler compares the generation once more and returns.
Bind(s) ==
    /\ at[s] = "binding"
    /\ StillRegistered(s)
    /\ taken' = [taken EXCEPT ![s].node = @ + 1]
    /\ IF taken[s].node + 1 < Nodes
       THEN /\ bound' = bound \cup {NextToken(s)}
            /\ UNCHANGED <<entries, at>>
       ELSE IF taken[s].page = generation
       THEN /\ bound' = bound \cup {NextToken(s)}
            /\ Go(s, "returned")
            /\ UNCHANGED entries
       ELSE /\ Clear
            /\ Go(s, "failed")
    /\ UNCHANGED <<generation, snapshotGeneration, users>>

\* bindHandles rejects, because the browser could not produce the element or
\* the entry is no longer registered: the catch block clears the registry,
\* whoever's refs it holds by now.
BindFails(s) ==
    /\ at[s] = "binding"
    /\ Clear
    /\ Go(s, "failed")
    /\ UNCHANGED <<generation, snapshotGeneration, taken, users>>

(***************************************************************************)
(* browser_click, _fill, _hover, _select, _type and _drag with refs        *)
(***************************************************************************)
Issued == UNION {TokensOf(s) : s \in Returned}

\* A call of a primitive, and the first resolveRef() and lines of
\* currentHandle(): the entry is looked up once and its handle is revalidated
\* over several awaits.
LookUp(u) ==
    /\ MayStart(u)
    /\ \E t \in Issued : \E d \in IF u \in Draggers THEN Issued ELSE {t} :
           IF t \in bound
           THEN /\ Go(u, "validating")
                /\ args' = [args EXCEPT ![u] = [ref |-> t, toRef |-> d]]
           ELSE /\ Go(u, "failed")
                /\ UNCHANGED args
    /\ UNCHANGED <<generation, registry, taken, hovers>>

\* The element is connected and has the fingerprint of the snapshot; the
\* action goes through its handle, which fails once it has been disposed.
Act(u) ==
    /\ u \notin Draggers
    /\ at[u] = "validating"
    /\ Held(u) \in bound
    /\ \/ Go(u, "returned")
       \/ Go(u, "focused")          \* browser_type goes on
    /\ UNCHANGED <<generation, registry, taken, users>>

\* It only focuses through the handle; the keys go to the page.
Type(u) ==
    /\ at[u] = "focused"
    /\ Go(u, "returned")
    /\ UNCHANGED <<generation, registry, taken, users>>

\* browser_drag hovers the source, presses the button, hovers the target twice
\* and lets go.
Hover(u) ==
    /\ u \in Draggers
    /\ at[u] = "validating"
    /\ Held(u) \in bound
    /\ hovers' = [hovers EXCEPT ![u] = @ + 1]
    /\ Go(u, IF hovers[u] = 2 THEN "returned" ELSE "pressed")
    /\ UNCHANGED <<generation, registry, taken, args>>

\* The target is looked up for each hover of its own.
Aim(u) ==
    /\ at[u] = "pressed"
    /\ Held(u) \in bound
    /\ Go(u, "validating")
    /\ UNCHANGED <<generation, registry, taken, users>>

\* StaleRefError: not registered, detached, recycled, or disposed.  Typing and
\* the mouse fail with the page.  The button is let go at the source.
ActFails(u) ==
    /\ at[u] \in {"validating", "focused", "pressed"}
    /\ Go(u, "failed")
    /\ UNCHANGED <<generation, registry, taken, users>>

\* The primitives that take refs.
Use(u) ==
    \/ LookUp(u)
    \/ Act(u)
    \/ Type(u)
    \/ Hover(u)
    \/ Aim(u)
    \/ ActFails(u)

(***************************************************************************)
(* browser_navigate                                                        *)
(***************************************************************************)
StartNavigate(n) ==
    /\ MayStart(n)
    /\ Go(n, "loading")
    /\ UNCHANGED <<generation, registry, taken, users>>

\* goto() resolved; framenavigated events are PageChanged steps on the way.
FinishNavigate(n) ==
    /\ at[n] = "loading"
    /\ Clear
    /\ Go(n, "returned")
    /\ UNCHANGED <<generation, snapshotGeneration, taken, users>>

NavigateFails(n) ==
    /\ at[n] = "loading"
    /\ Go(n, "failed")
    /\ UNCHANGED <<generation, registry, taken, users>>

Snapshot(s) ==
    \/ StartSnapshot(s)
    \/ CaptureFails(s)
    \/ Ingest(s)
    \/ IngestFails(s)
    \/ Bind(s)
    \/ BindFails(s)

Next ==
    \/ PageChanged
    \/ \E s \in Snaps : Snapshot(s)
    \/ \E u \in Users : Use(u)
    \/ \E n \in Navs : StartNavigate(n) \/ FinishNavigate(n) \/ NavigateFails(n)

Spec == Init /\ [][Next]_vars

-----------------------------------------------------------------------------
TypeOK ==
    /\ generation \in Nat
    /\ snapshotGeneration \in Nat
    /\ entries \subseteq Token
    /\ bound \subseteq entries
    /\ at \in [Calls -> {"idle", "capturing", "binding", "validating",
                         "focused", "pressed", "loading", "returned", "failed"}]
    /\ taken \in [Snaps -> [page : Nat, snap : Nat, node : 0..Nodes]]
    /\ args \in [Users -> [ref : Token, toRef : Token]]
    /\ hovers \in [Users -> Nat]

(***************************************************************************)
(* Every registered ref belongs to the current page state and to the       *)
(* newest snapshot, whatever overlapped: the token of a superseded         *)
(* snapshot or of an earlier document resolves to nothing.                 *)
(***************************************************************************)
RefsAreCurrent ==
    \A t \in entries : t.page = generation /\ t.snap = snapshotGeneration

\* The registry between two segments of any handlers (RefRegistry).
RegistryInv == TypeOK /\ RefsAreCurrent

(***************************************************************************)
(* "Refs are valid from the moment browser_snapshot returns" (README): a   *)
(* snapshot that returns has every one of its refs registered and pinned,  *)
(* also if others were taken, failed or navigated while it was being bound.*)
(***************************************************************************)
UsableOnReturn(s) ==
    (at[s] # "returned" /\ at'[s] = "returned")
        => /\ TokensOf(s)' = entries'
           /\ bound' = entries'
           /\ taken'[s].page = generation'

ReturnsUsableRefs == [][\A s \in Snaps : UsableOnReturn(s)]_vars

(***************************************************************************)
(* An action through a ref, at the end of several awaits, takes effect     *)
(* only if no page event and no newer snapshot intervened since the        *)
(* snapshot that issued the ref.  A drag, which may start at a ref of one  *)
(* snapshot and end at one of another, has all its hovers on one page.     *)
(***************************************************************************)
ActsInTime(u) ==
    (at[u] = "validating" /\ at'[u] \in {"focused", "pressed", "returned"})
        => /\ Held(u).page = generation
           /\ Held(u).snap = snapshotGeneration
           /\ args[u].ref.page = generation

ActsOnTheCapturedPage == [][\A u \in Users : ActsInTime(u)]_vars

(***************************************************************************)
(* Refs that have been returned are valid "until the next navigation (or   *)
(* another snapshot replaces them)" (README), with one exception the code  *)
(* makes: an older snapshot that is still being bound empties the registry *)
(* when it fails.  Nothing else does, whatever fails or rejects beside it. *)
(***************************************************************************)
Superseded(s) == \E t \in Snaps : /\ at[t] = "binding" /\ at'[t] = "failed"
                                  /\ taken[t].snap < taken[s].snap

KeepsRefs(s) ==
    (TokensOf(s) \subseteq entries /\ ~(TokensOf(s) \subseteq entries'))
        => \/ generation' # generation
           \/ snapshotGeneration' # snapshotGeneration
           \/ \E n \in Navs : at[n] = "loading" /\ at'[n] = "returned"
           \/ Superseded(s)

RefsLast == [][\A s \in Returned : KeepsRefs(s)]_vars
=============================================================================
