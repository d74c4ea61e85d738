------------------------- MODULE SnapshotRefsProofs -------------------------
(***************************************************************************)
(* Proofs about SnapshotRefs for any number of overlapping calls, refs per *)
(* snapshot and page events.                                               *)
(***************************************************************************)
EXTENDS SnapshotRefs, TLAPS

Places == {"idle", "capturing", "binding", "validating", "focused",
           "pressed", "loading", "returned", "failed"}

Refs == [ref : Token, toRef : Token]

Progress == [page : Nat, snap : Nat, node : 0..Nodes]

\* The snapshots that have filled the registry and not failed since.
Live == {s \in Snaps : at[s] \in {"binding", "returned"}}

\* The tokens of s whose entries have a handle.
BoundOf(s) == {[page |-> taken[s].page, snap |-> taken[s].snap, node |-> k] :
                   k \in 1..taken[s].node}

\* The registry holds what s put there, or has been cleared.
Owns(s) == \/ entries = {} /\ bound = {}
           \/ entries = TokensOf(s) /\ bound = BoundOf(s)

(***************************************************************************)
(* No two live snapshots have the same number, so the newest one, if it is *)
(* live, is alone the owner of the registry: that is why the comparison in *)
(* bindHandles with the number and with the entry suffices.                *)
(***************************************************************************)
NodesInOrder ==
    \A s \in Snaps : /\ at[s] \in {"idle", "capturing"} => taken[s].node = 0
                     /\ at[s] = "binding" => taken[s].node < Nodes

Numbered ==
    /\ \A s \in Live : taken[s].snap <= snapshotGeneration
    /\ \A r, s \in Live : taken[r].snap = taken[s].snap => r = s

Owned == \A s \in Live : taken[s].snap = snapshotGeneration => Owns(s)

IInv ==
    /\ TypeOK
    /\ RefsAreCurrent
    /\ NodesInOrder
    /\ Numbered
    /\ Owned

-----------------------------------------------------------------------------
\* A step that empties the registry, whoever takes it, and makes no snapshot
\* live that was not.
LEMMA ClearInv ==
    ASSUME IInv, Clear, args' = args, hovers' = hovers,
           generation' \in Nat, snapshotGeneration' \in Nat,
           snapshotGeneration' >= snapshotGeneration,
           at' \in [Calls -> Places], taken' = taken,
           Live' \subseteq Live,
           NodesInOrder'
    PROVE  IInv'
<1> USE DEF IInv
<1>1. entries' = {} /\ bound' = {}
  BY DEF Clear
<1>2. TypeOK'
  BY <1>1 DEF TypeOK, Places
<1>3. RefsAreCurrent'
  BY <1>1 DEF RefsAreCurrent
<1>4. Numbered'
  <2>1. \A s \in Live : taken[s].snap \in Nat
    BY DEF Live, TypeOK
  <2>2. snapshotGeneration \in Nat
    BY DEF TypeOK
  <2> QED
    BY <2>1, <2>2 DEF Numbered
<1>5. Owned'
  BY <1>1 DEF Owned, Owns
<1> QED
  BY <1>2, <1>3, <1>4, <1>5

\* A step that moves a call and leaves the registry alone.
LEMMA MoveInv ==
    ASSUME IInv, UNCHANGED <<generation, snapshotGeneration, entries, bound>>,
           args' \in [Users -> Refs], hovers' \in [Users -> Nat],
           at' \in [Calls -> Places],
           taken' \in [Snaps -> Progress],
           Live' \subseteq Live,
           \A s \in Live : taken'[s] = taken[s],
           NodesInOrder'
    PROVE  IInv'
<1> USE DEF IInv
<1>1. TypeOK'
  BY DEF TypeOK, Places, Progress, Refs
<1>2. RefsAreCurrent'
  BY DEF RefsAreCurrent
<1>3. Numbered'
  BY DEF Numbered
<1>4. Owned'
  BY DEF Owned, Owns, TokensOf, BoundOf
<1> QED
  BY <1>1, <1>2, <1>3, <1>4

LEMMA InitInv == Init => IInv
<1> SUFFICES ASSUME Init PROVE IInv
  OBVIOUS
<1> USE ParametersAssumption DEF Init
<1>1. TypeOK
  BY DEF TypeOK, Token, NoToken
<1>2. RefsAreCurrent /\ NodesInOrder
  BY DEF RefsAreCurrent, NodesInOrder, Calls
<1>3. Live = {}
  BY DEF Live, Calls
<1>4. Numbered /\ Owned
  BY <1>3 DEF Numbered, Owned
<1> QED
  BY <1>1, <1>2, <1>4 DEF IInv

\* ingest() makes its snapshot the only owner.
LEMMA IngestInv ==
    ASSUME IInv, NEW s \in Snaps, Ingest(s)
    PROVE  IInv'
<1> USE DEF IInv
<1>1. /\ at[s] = "capturing"
      /\ taken[s].page = generation
      /\ snapshotGeneration' = snapshotGeneration + 1
      /\ taken' = [taken EXCEPT ![s].snap = snapshotGeneration + 1]
      /\ bound' = {}
      /\ at' = [at EXCEPT ![s] = "binding"]
      /\ UNCHANGED <<generation, args, hovers>>
  BY DEF Ingest, Go, users
<1>2. snapshotGeneration \in Nat /\ generation \in Nat /\ s \in Calls
  BY DEF TypeOK, Calls
<1>3. /\ taken'[s].page = generation
      /\ taken'[s].snap = snapshotGeneration'
      /\ taken'[s].node = 0
      /\ taken' \in [Snaps -> Progress]
      /\ \A r \in Snaps \ {s} : taken'[r] = taken[r]
  BY <1>1, <1>2 DEF TypeOK, Progress, NodesInOrder
<1>4. entries' = TokensOf(s)'
  BY <1>1, <1>3 DEF Ingest, TokensOf
<1>5. Live' = Live \cup {s} /\ s \notin Live
  BY <1>1, <1>2 DEF Live, TypeOK
<1>6. TypeOK'
  <2>1. entries' \subseteq Token
    BY <1>1, <1>2, <1>3, <1>4 DEF TokensOf, Token
  <2> QED
    BY <1>1, <1>2, <1>3, <2>1 DEF TypeOK, Progress
<1>7. RefsAreCurrent'
  BY <1>1, <1>3, <1>4 DEF RefsAreCurrent, TokensOf
<1>8. NodesInOrder'
  BY <1>1, <1>3, ParametersAssumption DEF NodesInOrder, TypeOK, Calls
<1>9. \A r \in Live : taken'[r].snap < snapshotGeneration'
  <2>1. \A r \in Live : /\ taken[r].snap \in Nat
                        /\ taken[r].snap <= snapshotGeneration
                        /\ taken'[r] = taken[r]
    BY <1>3, <1>5 DEF Live, TypeOK, Numbered
  <2> SUFFICES ASSUME NEW r \in Live
               PROVE  taken'[r].snap < snapshotGeneration'
    OBVIOUS
  <2>2. taken'[r].snap = taken[r].snap
    BY <2>1
  <2>3. taken[r].snap \in Nat /\ taken[r].snap <= snapshotGeneration
    BY <2>1
  <2> QED
    BY <1>1, <1>2, <2>2, <2>3
<1>10. Numbered'
  <2>1. \A q, r \in Live : taken'[q].snap = taken'[r].snap => q = r
    BY <1>3, <1>5 DEF Numbered, Live
  <2>2. \A r \in Live : taken'[r].snap # taken'[s].snap
    BY <1>1, <1>2, <1>3, <1>9 DEF Live
  <2>3. \A r \in Live' : taken'[r].snap <= snapshotGeneration'
    BY <1>1, <1>2, <1>3, <1>5, <1>9 DEF Progress, Live
  <2> QED
    BY <1>5, <2>1, <2>2, <2>3 DEF Numbered
<1>11. Owned'
  <2>1. BoundOf(s)' = {}
    BY <1>3 DEF BoundOf
  <2>2. Owns(s)'
    BY <1>1, <1>4, <2>1 DEF Owns
  <2>3. \A r \in Live : taken'[r].snap # snapshotGeneration'
    BY <1>1, <1>2, <1>3, <1>9 DEF Live, Progress
  <2> QED
    BY <1>5, <2>2, <2>3 DEF Owned
<1> QED
  BY <1>6, <1>7, <1>8, <1>10, <1>11

\* One round of the loop in bindHandles.  The comparison with the number tells
\* s that it is still the owner.
LEMMA BindInv ==
    ASSUME IInv, NEW s \in Snaps, Bind(s)
    PROVE  IInv'
<1> USE DEF IInv
<1>1. /\ at[s] = "binding"
      /\ taken[s].snap = snapshotGeneration
      /\ NextToken(s) \in entries
      /\ taken' = [taken EXCEPT ![s].node = taken[s].node + 1]
      /\ UNCHANGED <<generation, snapshotGeneration, args, hovers>>
  BY DEF Bind, StillRegistered, users
<1>2. /\ s \in Live /\ s \in Calls
      /\ taken[s].node \in Nat /\ taken[s].node < Nodes /\ Nodes \in Nat
  BY <1>1, ParametersAssumption DEF Live, TypeOK, NodesInOrder, Calls
<1>3. entries = TokensOf(s) /\ bound = BoundOf(s)
  BY <1>1, <1>2 DEF Owned, Owns
<1>4. /\ taken' \in [Snaps -> Progress]
      /\ taken'[s].node = taken[s].node + 1
      /\ taken'[s].page = taken[s].page
      /\ taken'[s].snap = taken[s].snap
      /\ \A r \in Snaps \ {s} : taken'[r] = taken[r]
  BY <1>1, <1>2 DEF TypeOK, Progress
<1>5. \A r \in Snaps : taken'[r].page = taken[r].page /\ taken'[r].snap = taken[r].snap
  BY <1>4
<1>6. TokensOf(s)' = TokensOf(s)
  BY <1>4 DEF TokensOf
<1>7. BoundOf(s)' = BoundOf(s) \cup {NextToken(s)}
  BY <1>2, <1>4 DEF BoundOf, NextToken
<1>8. \/ /\ taken[s].node + 1 < Nodes
         /\ bound' = bound \cup {NextToken(s)}
         /\ UNCHANGED <<entries, at>>
      \/ /\ ~ (taken[s].node + 1 < Nodes)
         /\ taken[s].page = generation
         /\ bound' = bound \cup {NextToken(s)}
         /\ at' = [at EXCEPT ![s] = "returned"]
         /\ UNCHANGED entries
      \/ /\ ~ (taken[s].node + 1 < Nodes)
         /\ Clear
         /\ at' = [at EXCEPT ![s] = "failed"]
  BY DEF Bind, Go
<1>9. /\ at' \in [Calls -> Places]
      /\ \A c \in Calls \ {s} : at'[c] = at[c]
      /\ Live' \subseteq Live
      /\ at'[s] \in {"binding", "returned", "failed"}
      /\ at'[s] = "binding" => taken[s].node + 1 < Nodes
  BY <1>1, <1>2, <1>8 DEF TypeOK, Places, Live, Calls
<1>10. \/ entries' = {} /\ bound' = {}
       \/ entries' = entries /\ bound' = bound \cup {NextToken(s)}
  BY <1>8 DEF Clear
<1>11. TypeOK'
  BY <1>1, <1>4, <1>9, <1>10 DEF TypeOK, Places, Progress
<1>12. RefsAreCurrent'
  BY <1>1, <1>10 DEF RefsAreCurrent
<1>13. NodesInOrder'
  BY <1>4, <1>9 DEF NodesInOrder, Calls
<1>14. Numbered'
  BY <1>1, <1>5, <1>9 DEF Numbered, Live
<1>15. Owned'
  <2>1. Owns(s)'
    BY <1>3, <1>6, <1>7, <1>10 DEF Owns
  <2>2. \A r \in Live' : taken'[r].snap = snapshotGeneration' => r = s
    BY <1>1, <1>2, <1>5, <1>9 DEF Numbered, Live
  <2> QED
    BY <2>1, <2>2 DEF Owned
<1> QED
  BY <1>11, <1>12, <1>13, <1>14, <1>15

LEMMA SnapshotInv ==
    ASSUME IInv, NEW s \in Snaps, Snapshot(s)
    PROVE  IInv'
<1>1. s \in Calls /\ at \in [Calls -> Places] /\ taken \in [Snaps -> Progress]
  BY DEF IInv, TypeOK, Calls, Places, Progress
<1>2. snapshotGeneration \in Nat /\ generation \in Nat /\ args \in [Users -> Refs] /\ hovers \in [Users -> Nat]
  BY DEF IInv, TypeOK, Refs
<1>3. CASE StartSnapshot(s)
  <2>1. /\ at[s] = "idle"
        /\ at' = [at EXCEPT ![s] = "capturing"]
        /\ taken' = [taken EXCEPT ![s].page = generation]
        /\ UNCHANGED <<generation, snapshotGeneration, entries, bound, args, hovers>>
    BY <1>3 DEF StartSnapshot, MayStart, Go, registry, users
  <2>2. taken' \in [Snaps -> Progress] /\ taken'[s].node = taken[s].node
    BY <1>1, <1>2, <2>1 DEF Progress
  <2>3. at' \in [Calls -> Places] /\ Live' = Live /\ s \notin Live
    BY <1>1, <2>1 DEF Places, Live
  <2>4. NodesInOrder'
    BY <1>1, <2>1, <2>2 DEF NodesInOrder, IInv, Calls
  <2> QED
    BY <1>2, <2>1, <2>2, <2>3, <2>4, MoveInv DEF Live
<1>4. CASE CaptureFails(s)
  <2>1. /\ at[s] = "capturing"
        /\ at' = [at EXCEPT ![s] = "failed"]
        /\ UNCHANGED <<generation, snapshotGeneration, entries, bound, taken, args, hovers>>
    BY <1>4 DEF CaptureFails, Go, registry, users
  <2>2. at' \in [Calls -> Places] /\ Live' = Live
    BY <1>1, <2>1 DEF Places, Live
  <2>3. NodesInOrder'
    BY <1>1, <2>1 DEF NodesInOrder, IInv, Calls
  <2> QED
    BY <1>1, <1>2, <2>1, <2>2, <2>3, MoveInv
<1>5. CASE Ingest(s)
  BY <1>5, IngestInv
<1>6. CASE IngestFails(s)
  <2>1. /\ at' = [at EXCEPT ![s] = "failed"]
        /\ snapshotGeneration' = snapshotGeneration + 1
        /\ Clear
        /\ UNCHANGED <<generation, taken, args, hovers>>
    BY <1>6 DEF IngestFails, Go, users
  <2>2. at' \in [Calls -> Places] /\ Live' \subseteq Live
    BY <1>1, <2>1 DEF Places, Live
  <2>3. NodesInOrder'
    BY <1>1, <2>1 DEF NodesInOrder, IInv, Calls
  <2> QED
    BY <1>2, <2>1, <2>2, <2>3, ClearInv
<1>7. CASE Bind(s)
  BY <1>7, BindInv
<1>8. CASE BindFails(s)
  <2>1. /\ at' = [at EXCEPT ![s] = "failed"]
        /\ Clear
        /\ UNCHANGED <<generation, snapshotGeneration, taken, args, hovers>>
    BY <1>8 DEF BindFails, Go, users
  <2>2. at' \in [Calls -> Places] /\ Live' \subseteq Live
    BY <1>1, <2>1 DEF Places, Live
  <2>3. NodesInOrder'
    BY <1>1, <2>1 DEF NodesInOrder, IInv, Calls
  <2> QED
    BY <1>2, <2>1, <2>2, <2>3, ClearInv
<1> QED
  BY <1>3, <1>4, <1>5, <1>6, <1>7, <1>8 DEF Snapshot

\* A call that is not a snapshot moves.
LEMMA OtherMoves ==
    ASSUME IInv, NEW c \in Users \cup Navs, NEW where \in Places,
           at' = [at EXCEPT ![c] = where]
    PROVE  /\ at' \in [Calls -> Places]
           /\ Live' = Live
           /\ taken' = taken => NodesInOrder'
<1>1. c \notin Snaps /\ c \in Calls
  BY ParametersAssumption DEF Calls
<1>2. at \in [Calls -> Places]
  BY DEF IInv, TypeOK, Places
<1>3. \A s \in Snaps : at'[s] = at[s]
  BY <1>1, <1>2 DEF Calls
<1> QED
  BY <1>1, <1>2, <1>3 DEF Live, NodesInOrder, IInv

\* What a call of a primitive does to itself.
LEMMA UserMoves ==
    ASSUME IInv, NEW u \in Users, Use(u)
    PROVE  /\ UNCHANGED <<generation, snapshotGeneration, entries, bound, taken>>
           /\ hovers' \in [Users -> Nat]
           /\ args' = args \/ \E a \in Refs : args' = [args EXCEPT ![u] = a]
           /\ \E where \in Places : at' = [at EXCEPT ![u] = where]
<1>1. hovers \in [Users -> Nat] /\ taken \in [Snaps -> Progress]
  BY DEF IInv, TypeOK, Progress
<1>2. CASE LookUp(u)
  <2>1. Issued \subseteq Token
    BY <1>1 DEF Issued, TokensOf, Returned, Token, Progress
  <2> QED
    BY <1>1, <1>2, <2>1 DEF LookUp, Go, Places, registry, Refs
<1>3. CASE Act(u) \/ Type(u) \/ Aim(u) \/ ActFails(u)
  BY <1>1, <1>3 DEF Act, Type, Aim, ActFails, Go, Places, registry, users
<1>4. CASE Hover(u)
  <2>1. hovers' \in [Users -> Nat]
    BY <1>1, <1>4 DEF Hover
  <2>2. at' = [at EXCEPT ![u] = "returned"] \/ at' = [at EXCEPT ![u] = "pressed"]
    BY <1>4 DEF Hover, Go
  <2> QED
    BY <1>4, <2>1, <2>2 DEF Hover, registry, Places
<1> QED
  BY <1>2, <1>3, <1>4 DEF Use

LEMMA UserInv ==
    ASSUME IInv, NEW u \in Users, Use(u)
    PROVE  IInv'
<1>1. taken \in [Snaps -> Progress] /\ args \in [Users -> Refs]
  BY DEF IInv, TypeOK, Progress, Refs
<1>2. args' \in [Users -> Refs]
  BY <1>1, UserMoves
<1>3. at' \in [Calls -> Places] /\ Live' = Live /\ NodesInOrder'
  BY UserMoves, OtherMoves
<1> QED
  BY <1>1, <1>2, <1>3, UserMoves, MoveInv

LEMMA NavInv ==
    ASSUME IInv, NEW n \in Navs,
           StartNavigate(n) \/ FinishNavigate(n) \/ NavigateFails(n)
    PROVE  IInv'
<1>1. /\ taken \in [Snaps -> Progress] /\ args \in [Users -> Refs] /\ hovers \in [Users -> Nat]
      /\ generation \in Nat /\ snapshotGeneration \in Nat
  BY DEF IInv, TypeOK, Progress, Refs
<1>2. /\ UNCHANGED <<generation, snapshotGeneration, taken, args, hovers>>
      /\ UNCHANGED <<entries, bound>> \/ Clear
      /\ \E where \in Places : at' = [at EXCEPT ![n] = where]
  BY DEF StartNavigate, FinishNavigate, NavigateFails, Go, Places, registry, users
<1>3. at' \in [Calls -> Places] /\ Live' = Live /\ NodesInOrder'
  BY <1>2, OtherMoves
<1>4. CASE UNCHANGED <<entries, bound>>
  BY <1>1, <1>2, <1>3, <1>4, MoveInv
<1>5. CASE Clear
  BY <1>1, <1>2, <1>3, <1>5, ClearInv
<1> QED
  BY <1>2, <1>4, <1>5

LEMMA NextInv == IInv /\ [Next]_vars => IInv'
<1> SUFFICES ASSUME IInv, [Next]_vars PROVE IInv'
  OBVIOUS
<1>1. CASE PageChanged
  <2>1. /\ Clear /\ generation' = generation + 1
        /\ UNCHANGED <<snapshotGeneration, at, taken, args, hovers>>
    BY <1>1 DEF PageChanged, users
  <2>2. /\ generation' \in Nat /\ snapshotGeneration' \in Nat
        /\ snapshotGeneration' >= snapshotGeneration
        /\ at' \in [Calls -> Places]
    BY <2>1 DEF IInv, TypeOK, Places
  <2>3. Live' = Live /\ NodesInOrder'
    BY <2>1 DEF IInv, Live, NodesInOrder
  <2> QED
    BY <2>1, <2>2, <2>3, ClearInv
<1>2. ASSUME NEW s \in Snaps, Snapshot(s) PROVE IInv'
  BY <1>2, SnapshotInv
<1>3. ASSUME NEW u \in Users, Use(u) PROVE IInv'
  BY <1>3, UserInv
<1>4. ASSUME NEW n \in Navs,
             StartNavigate(n) \/ FinishNavigate(n) \/ NavigateFails(n)
      PROVE  IInv'
  BY <1>4, NavInv
<1>5. CASE UNCHANGED vars
  <2>1. UNCHANGED <<generation, snapshotGeneration, entries, bound, at, taken, args, hovers>>
    BY <1>5 DEF vars
  <2> QED
    BY <2>1 DEF IInv, TypeOK, RefsAreCurrent, NodesInOrder, Numbered, Owned,
                Owns, Live, TokensOf, BoundOf
<1> QED
  BY <1>1, <1>2, <1>3, <1>4, <1>5 DEF Next

-----------------------------------------------------------------------------
\* However many snapshots overlap, the newest live one owns the registry and
\* its refs are of the current page generation.
THEOREM Invariance == Spec => []IInv
<1>1. Init => IInv
  BY InitInv
<1>2. IInv /\ [Next]_vars => IInv'
  BY NextInv
<1> QED
  BY <1>1, <1>2, PTL DEF Spec

\* Types; in particular no handle is kept for a token that has left the
\* registry.
THEOREM TypeCorrect == Spec => []TypeOK
<1>1. IInv => TypeOK
  BY DEF IInv
<1> QED
  BY <1>1, Invariance, PTL

\* No superseded token and no token of an earlier document resolves
\* (RefRegistry.get, refs.ts).
THEOREM OnlyCurrentRefs == Spec => []RefsAreCurrent
<1>1. IInv => RefsAreCurrent
  BY DEF IInv
<1> QED
  BY <1>1, Invariance, PTL

\* Only the last round of its own loop returns a snapshot.
LEMMA ReturnsByBind ==
    ASSUME IInv, [Next]_vars, NEW s \in Snaps,
           at[s] # "returned", at'[s] = "returned"
    PROVE  Bind(s)
<1>1. at \in [Calls -> Places] /\ s \in Calls
  BY DEF IInv, TypeOK, Places, Calls
<1>2. CASE PageChanged \/ UNCHANGED vars
  BY <1>2 DEF PageChanged, vars
<1>3. ASSUME NEW r \in Snaps, Snapshot(r) PROVE Bind(s)
  <2>1. r \in Calls
    BY DEF Calls
  <2>2. CASE Bind(r)
    <3>1. at' = at \/ \E where \in Places : at' = [at EXCEPT ![r] = where]
      BY <2>2 DEF Bind, Go, Places
    <3>2. r = s
      BY <1>1, <2>1, <3>1
    <3> QED
      BY <2>2, <3>2
  <2>3. CASE ~Bind(r)
    <3>1. \E where \in Places \ {"returned"} : at' = [at EXCEPT ![r] = where]
      BY <1>3, <2>3 DEF Snapshot, StartSnapshot, CaptureFails, Ingest,
                        IngestFails, BindFails, Go, Places
    <3> QED
      BY <1>1, <2>1, <3>1
  <2> QED
    BY <2>2, <2>3
<1>4. ASSUME NEW u \in Users, Use(u) PROVE Bind(s)
  <2>1. u # s
    BY ParametersAssumption
  <2>2. \E where \in Places : at' = [at EXCEPT ![u] = where]
    BY <1>4, UserMoves
  <2> QED
    BY <1>1, <2>1, <2>2
<1>5. ASSUME NEW n \in Navs,
             StartNavigate(n) \/ FinishNavigate(n) \/ NavigateFails(n)
      PROVE  Bind(s)
  <2>1. n # s
    BY ParametersAssumption
  <2>2. \E where \in Places : at' = [at EXCEPT ![n] = where]
    BY <1>5 DEF StartNavigate, FinishNavigate, NavigateFails, Go, Places
  <2> QED
    BY <1>1, <2>1, <2>2
<1> QED
  BY <1>2, <1>3, <1>4, <1>5 DEF Next

LEMMA UsableStep ==
    ASSUME IInv, [Next]_vars, NEW s \in Snaps
    PROVE  UsableOnReturn(s)
<1> SUFFICES ASSUME at[s] # "returned", at'[s] = "returned"
             PROVE  /\ TokensOf(s)' = entries'
                    /\ bound' = entries'
                    /\ taken'[s].page = generation'
  BY DEF UsableOnReturn
<1>1. Bind(s) /\ IInv'
  BY ReturnsByBind, NextInv
<1>2. s \in Calls /\ at \in [Calls -> Places]
  BY DEF IInv, TypeOK, Places, Calls
<1>3. /\ at[s] = "binding"
      /\ taken[s].snap = snapshotGeneration
      /\ NextToken(s) \in entries
      /\ ~ (taken[s].node + 1 < Nodes)
      /\ taken[s].page = generation
      /\ taken' = [taken EXCEPT ![s].node = taken[s].node + 1]
      /\ UNCHANGED <<entries, generation, snapshotGeneration>>
  BY <1>1, <1>2 DEF Bind, StillRegistered, Go
<1>4. taken[s] \in Progress /\ taken[s].node < Nodes /\ Nodes \in Nat
  BY <1>3, ParametersAssumption DEF IInv, TypeOK, NodesInOrder, Progress
<1>5. taken'[s].snap = snapshotGeneration' /\ taken'[s].page = generation'
      /\ taken'[s].node = Nodes
  BY <1>3, <1>4 DEF IInv, TypeOK, Progress
<1>6. TokensOf(s)' = BoundOf(s)'
  BY <1>5 DEF TokensOf, BoundOf
<1>7. Owns(s)'
  BY <1>1, <1>5 DEF IInv, Owned, Live
<1> QED
  BY <1>3, <1>5, <1>6, <1>7 DEF Owns

\* A snapshot that returns does so with all its refs registered, pinned and of
\* the current page, whatever ran while it was being bound.
THEOREM SnapshotsReturnUsableRefs == Spec => ReturnsUsableRefs
<1>1. IInv /\ [Next]_vars => [\A s \in Snaps : UsableOnReturn(s)]_vars
  BY UsableStep
<1> QED
  BY <1>1, Invariance, PTL DEF Spec, ReturnsUsableRefs

(***************************************************************************)
(* What the refs of a drag have in common: its source was of the current   *)
(* page when it started and its target is of a page no later than that.    *)
(* Together with the lookup before each hover this puts all of a drag on   *)
(* one page.                                                               *)
(***************************************************************************)
TakenPast == \A s \in Snaps : taken[s].page <= generation

SourceFirst(u) == /\ args[u].toRef.page <= args[u].ref.page
                  /\ args[u].ref.page <= generation

Aimed == \A u \in Users : at[u] \in {"validating", "pressed"} => SourceFirst(u)

Drags == TakenPast /\ Aimed

LEMMA InitDrags == Init => Drags
  BY DEF Init, Drags, TakenPast, Aimed, Calls

LEMMA PagesGoOn ==
    ASSUME IInv, [Next]_vars
    PROVE  /\ generation' \in Nat /\ generation' >= generation
           /\ \A s \in Snaps : taken'[s].page \in {taken[s].page, generation}
<1>1. generation \in Nat /\ taken \in [Snaps -> Progress]
  BY DEF IInv, TypeOK, Progress
<1>2. CASE PageChanged \/ UNCHANGED vars
  BY <1>1, <1>2 DEF PageChanged, vars
<1>3. ASSUME NEW s \in Snaps, Snapshot(s)
      PROVE  /\ generation' = generation
             /\ \A r \in Snaps : taken'[r].page \in {taken[r].page, generation}
  <2>1. generation' = generation
    BY <1>3 DEF Snapshot, StartSnapshot, CaptureFails, Ingest, IngestFails,
                Bind, BindFails
  <2>2. \/ taken' = taken
        \/ taken' = [taken EXCEPT ![s].page = generation]
        \/ taken' = [taken EXCEPT ![s].snap = snapshotGeneration + 1]
        \/ taken' = [taken EXCEPT ![s].node = taken[s].node + 1]
    BY <1>3 DEF Snapshot, StartSnapshot, CaptureFails, Ingest, IngestFails,
                Bind, BindFails
  <2> QED
    BY <1>1, <2>1, <2>2 DEF Progress
<1>4. ASSUME NEW u \in Users, Use(u) PROVE UNCHANGED <<generation, taken>>
  BY <1>4 DEF Use, LookUp, Act, Type, Hover, Aim, ActFails
<1>5. ASSUME NEW n \in Navs,
             StartNavigate(n) \/ FinishNavigate(n) \/ NavigateFails(n)
      PROVE  UNCHANGED <<generation, taken>>
  BY <1>5 DEF StartNavigate, FinishNavigate, NavigateFails
<1> QED
  BY <1>1, <1>2, <1>3, <1>4, <1>5 DEF Next

\* Others leave a user where it is, with its refs.
LEMMA OnlyItself ==
    ASSUME IInv, [Next]_vars, NEW u \in Users, ~Use(u)
    PROVE  at'[u] = at[u] /\ args'[u] = args[u]
<1>1. at \in [Calls -> Places] /\ u \in Calls /\ args \in [Users -> Refs]
  BY DEF IInv, TypeOK, Places, Calls, Refs
<1>2. CASE PageChanged \/ UNCHANGED vars
  BY <1>2 DEF PageChanged, vars, users
<1>3. ASSUME NEW s \in Snaps, Snapshot(s) PROVE at'[u] = at[u] /\ args' = args
  <2>1. s # u
    BY ParametersAssumption
  <2>2. /\ at' = at \/ \E where \in Places : at' = [at EXCEPT ![s] = where]
        /\ args' = args
    BY <1>3 DEF Snapshot, StartSnapshot, CaptureFails, Ingest, IngestFails,
                Bind, BindFails, Go, Places, users
  <2> QED
    BY <1>1, <2>1, <2>2
<1>4. ASSUME NEW v \in Users, Use(v) PROVE at'[u] = at[u] /\ args'[u] = args[u]
  <2>1. v # u
    BY <1>4
  <2>2. \E where \in Places : at' = [at EXCEPT ![v] = where]
    BY <1>4, UserMoves
  <2>3. args' = args \/ \E a \in Refs : args' = [args EXCEPT ![v] = a]
    BY <1>4, UserMoves
  <2> QED
    BY <1>1, <2>1, <2>2, <2>3
<1>5. ASSUME NEW n \in Navs,
             StartNavigate(n) \/ FinishNavigate(n) \/ NavigateFails(n)
      PROVE  at'[u] = at[u] /\ args' = args
  <2>1. n # u
    BY ParametersAssumption
  <2>2. /\ \E where \in Places : at' = [at EXCEPT ![n] = where]
        /\ args' = args
    BY <1>5 DEF StartNavigate, FinishNavigate, NavigateFails, Go, Places, users
  <2> QED
    BY <1>1, <2>1, <2>2
<1> QED
  BY <1>2, <1>3, <1>4, <1>5 DEF Next

LEMMA DragsInv == IInv /\ Drags /\ [Next]_vars => Drags'
<1> SUFFICES ASSUME IInv, Drags, [Next]_vars PROVE Drags'
  OBVIOUS
<1>1. /\ generation \in Nat /\ taken \in [Snaps -> Progress]
      /\ at \in [Calls -> Places] /\ args \in [Users -> Refs]
  BY DEF IInv, TypeOK, Places, Progress, Refs
<1>2. TakenPast'
  <2> SUFFICES ASSUME NEW s \in Snaps PROVE taken'[s].page <= generation'
    BY DEF TakenPast
  <2>1. taken[s].page \in Nat /\ taken[s].page <= generation
    BY <1>1 DEF Progress, Drags, TakenPast
  <2>2. taken'[s].page \in {taken[s].page, generation}
    BY PagesGoOn
  <2> QED
    BY <1>1, <2>1, <2>2, PagesGoOn
<1>3. Aimed'
  <2> SUFFICES ASSUME NEW u \in Users, at'[u] \in {"validating", "pressed"}
               PROVE  SourceFirst(u)'
    BY DEF Aimed
  <2>1. u \in Calls
    BY DEF Calls
  <2>2. args[u].ref.page \in Nat /\ args[u].toRef.page \in Nat
    BY <1>1 DEF Refs, Token
  <2>3. CASE at[u] \in {"validating", "pressed"} /\ args'[u] = args[u]
    <3>1. SourceFirst(u)
      BY <2>3 DEF Drags, Aimed
    <3> QED
      BY <1>1, <2>2, <2>3, <3>1, PagesGoOn DEF SourceFirst
  <2>4. CASE LookUp(u)
    <3>1. PICK t \in Issued :
              \E d \in IF u \in Draggers THEN Issued ELSE {t} :
                  IF t \in bound
                  THEN /\ Go(u, "validating")
                       /\ args' = [args EXCEPT ![u] = [ref |-> t, toRef |-> d]]
                  ELSE /\ Go(u, "failed")
                       /\ UNCHANGED args
      BY <2>4 DEF LookUp
    <3>2. PICK d \in IF u \in Draggers THEN Issued ELSE {t} :
                  IF t \in bound
                  THEN /\ Go(u, "validating")
                       /\ args' = [args EXCEPT ![u] = [ref |-> t, toRef |-> d]]
                  ELSE /\ Go(u, "failed")
                       /\ UNCHANGED args
      BY <3>1
    <3>3. d \in Issued
      BY <3>2
    <3>4. t \in bound /\ args'[u].ref = t /\ args'[u].toRef = d
      BY <1>1, <2>1, <3>2 DEF Go
    <3>5. t.page = generation
      BY <3>4 DEF IInv, TypeOK, RefsAreCurrent
    <3>6. d.page <= generation
      BY <3>3 DEF Issued, TokensOf, Returned, Drags, TakenPast
    <3>7. generation' = generation
      BY <2>4 DEF LookUp
    <3> QED
      BY <1>1, <3>4, <3>5, <3>6, <3>7 DEF SourceFirst
  <2>5. CASE Use(u) /\ ~LookUp(u)
    <3>1. at[u] \in {"validating", "pressed"} /\ args' = args
      BY <1>1, <2>1, <2>5 DEF Use, Act, Type, Hover, Aim, ActFails, Go, users
    <3> QED
      BY <2>3, <3>1
  <2>6. CASE ~Use(u)
    BY <2>3, <2>6, OnlyItself
  <2> QED
    BY <2>4, <2>5, <2>6
<1> QED
  BY <1>2, <1>3 DEF Drags

LEMMA ActsInTimeStep ==
    ASSUME IInv, Drags, [Next]_vars, NEW u \in Users
    PROVE  ActsInTime(u)
<1> SUFFICES ASSUME at[u] = "validating",
                    at'[u] \in {"focused", "pressed", "returned"}
             PROVE  /\ Held(u).page = generation
                    /\ Held(u).snap = snapshotGeneration
                    /\ args[u].ref.page = generation
  BY DEF ActsInTime
<1>1. /\ at \in [Calls -> Places] /\ u \in Calls
      /\ generation \in Nat /\ args \in [Users -> Refs]
  BY DEF IInv, TypeOK, Places, Calls, Refs
<1>2. Use(u)
  BY OnlyItself
<1>3. Held(u) \in bound
  BY <1>1, <1>2 DEF Use, LookUp, Act, Type, Hover, Aim, ActFails, MayStart, Go
<1>4. Held(u).page = generation /\ Held(u).snap = snapshotGeneration
  BY <1>3 DEF IInv, TypeOK, RefsAreCurrent
<1>5. SourceFirst(u)
  BY DEF Drags, Aimed
<1>6. args[u].ref.page \in Nat /\ args[u].toRef.page \in Nat
  BY <1>1 DEF Refs, Token
<1>7. args[u].ref.page = generation
  BY <1>1, <1>4, <1>5, <1>6 DEF Held, SourceFirst
<1> QED
  BY <1>4, <1>7

\* An action through a ref hits the page and the snapshot the ref was issued
\* for, and a drag between refs of two snapshots stays on one page
\* (ResolvedRef.currentHandle, refs.ts; browser_drag, tools.ts).
THEOREM ActionsHitTheirSnapshot == Spec => ActsOnTheCapturedPage
<1>1. Init => IInv /\ Drags
  BY InitInv, InitDrags
<1>2. IInv /\ Drags /\ [Next]_vars => (IInv /\ Drags)'
  BY NextInv, DragsInv
<1>3. IInv /\ Drags /\ [Next]_vars => [\A u \in Users : ActsInTime(u)]_vars
  BY ActsInTimeStep
<1> QED
  BY <1>1, <1>2, <1>3, PTL DEF Spec, ActsOnTheCapturedPage

LEMMA KeepsStep ==
    ASSUME IInv, [Next]_vars, NEW s \in Returned
    PROVE  KeepsRefs(s)
<1> SUFFICES ASSUME TokensOf(s) \subseteq entries,
                    entries' # entries,
                    generation' = generation,
                    snapshotGeneration' = snapshotGeneration
             PROVE  \/ \E n \in Navs : at[n] = "loading" /\ at'[n] = "returned"
                    \/ Superseded(s)
  BY DEF KeepsRefs
<1>1. /\ s \in Snaps /\ s \in Live /\ at[s] = "returned"
      /\ generation \in Nat /\ snapshotGeneration \in Nat
      /\ at \in [Calls -> Places] /\ taken \in [Snaps -> Progress]
  BY DEF IInv, TypeOK, Returned, Live, Places, Progress
<1>2. taken[s].snap = snapshotGeneration
  <2>1. [page |-> taken[s].page, snap |-> taken[s].snap, node |-> 1] \in TokensOf(s)
    BY ParametersAssumption DEF TokensOf
  <2> QED
    BY <2>1 DEF IInv, RefsAreCurrent
<1>3. CASE PageChanged \/ UNCHANGED vars
  BY <1>1, <1>3 DEF PageChanged, vars
<1>4. ASSUME NEW r \in Snaps, Snapshot(r) PROVE Superseded(s)
  <2>1. r \in Calls
    BY DEF Calls
  <2>2. /\ at[r] = "binding" => r \in Live /\ r # s
        /\ Bind(r) \/ BindFails(r)
    BY <1>1, <1>4 DEF Snapshot, StartSnapshot, CaptureFails, Ingest, IngestFails,
                      registry, Live
  <2>3. r \in Live /\ r # s /\ at[r] = "binding"
    BY <2>2 DEF Bind, BindFails
  <2>4. taken[r].snap # snapshotGeneration /\ taken[r].snap <= snapshotGeneration
    BY <1>1, <1>2, <2>3 DEF IInv, Numbered
  <2>5. BindFails(r)
    BY <2>2, <2>4 DEF Bind, StillRegistered
  <2>6. at'[r] = "failed"
    BY <1>1, <2>1, <2>5 DEF BindFails, Go
  <2>7. taken[r].snap < taken[s].snap
    BY <1>1, <1>2, <2>4 DEF Progress
  <2> QED
    BY <2>3, <2>6, <2>7 DEF Superseded
<1>5. ASSUME NEW u \in Users, Use(u)
      PROVE  FALSE
  BY <1>5 DEF Use, LookUp, Act, Type, Hover, Aim, ActFails, registry
<1>6. ASSUME NEW n \in Navs,
             StartNavigate(n) \/ FinishNavigate(n) \/ NavigateFails(n)
      PROVE  at[n] = "loading" /\ at'[n] = "returned"
  <2>1. FinishNavigate(n) /\ n \in Calls
    BY <1>6 DEF StartNavigate, NavigateFails, registry, users, Calls
  <2> QED
    BY <1>1, <2>1 DEF FinishNavigate, Go
<1> QED
  BY <1>3, <1>4, <1>5, <1>6 DEF Next

\* Returned refs are lost to a navigation, a newer snapshot or the failure of
\* an older one that was still being bound, and to nothing else
\* (RefRegistry.clear and its callers).
THEOREM RefsOutlastFailures == Spec => RefsLast
<1>1. IInv /\ [Next]_vars => [\A s \in Returned : KeepsRefs(s)]_vars
  BY KeepsStep
<1> QED
  BY <1>1, Invariance, PTL DEF Spec, RefsLast

\* What is registered is well typed, current and of the newest snapshot
\* (RefRegistry).
THEOREM RegistrySound == Spec => []RegistryInv
<1>1. TypeOK /\ RefsAreCurrent => RegistryInv
  BY DEF RegistryInv
<1> QED
  BY <1>1, TypeCorrect, OnlyCurrentRefs, PTL
=============================================================================
