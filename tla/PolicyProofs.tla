---------------------------- MODULE PolicyProofs -----------------------------
(***************************************************************************)
(* Proofs about the policy: ApprovalGate for every classification of       *)
(* risks, deny list, mode, lifetime and cache size, then what the risk     *)
(* matrix and the decision engine of PolicyDecision promise for all        *)
(* inputs.                                                                 *)
(***************************************************************************)
EXTENDS PolicyDecision, TLAPS

(***************************************************************************)
(* Time orders proposal, approval and action; with it, SpentInTime is      *)
(* inductive.                                                              *)
(***************************************************************************)
Dated ==
    /\ \A i \in 1..Len(proposals) : proposals[i].at <= now
    /\ \A k \in 1..Len(approvals) :
          /\ approvals[k].digest.at <= approvals[k].issuedAt
          /\ approvals[k].issuedAt <= now

IInv ==
    /\ TypeOK
    /\ Dated
    /\ OneUse
    /\ SpentInTime
    /\ PaidFor

LEMMA InitInv == Init => IInv
<1> SUFFICES ASSUME Init PROVE IInv
  OBVIOUS
<1>1. /\ policyMode \in PolicyModes /\ now = 0 /\ page \in Pages /\ proposed = 0
      /\ proposals = <<>> /\ approvals = <<>> /\ byDigest = <<>> /\ done = <<>>
  BY DEF Init
<1>2. TypeOK
  BY <1>1 DEF TypeOK
<1>3. Dated /\ OneUse /\ SpentInTime /\ PaidFor
  BY <1>1 DEF Dated, OneUse, SpentInTime, PaidFor
<1> QED
  BY <1>2, <1>3 DEF IInv

\* A new envelope is one, and is dated now.
LEMMA FreshType ==
    ASSUME TypeOK, NEW id \in Ids, NEW tool \in Tools, NEW args \in Args,
           NEW secrets \in BOOLEAN
    PROVE  /\ Fresh(id, tool, args, secrets) \in Envelope
           /\ Fresh(id, tool, args, secrets).at = now
           /\ Fresh(id, tool, args, secrets).id = id
  BY ParametersAssumption DEF TypeOK, Fresh, Envelope

\* A step that changes neither the approvals nor what was done.
LEMMA QuietStep ==
    ASSUME IInv, UNCHANGED <<policyMode, approvals, byDigest, done>>,
           now' \in Nat, now' >= now, page' \in Pages, proposed' \in Nat,
           proposals' \in Seq(Envelope),
           \A i \in 1..Len(proposals') : proposals'[i].at <= now'
    PROVE  IInv'
<1> USE DEF IInv
<1>1. TypeOK'
  BY DEF TypeOK
<1>2. Dated'
  <2>1. \A k \in 1..Len(approvals) : approvals[k].issuedAt \in Nat
    <3>1. approvals \in Seq(Approval)
      BY DEF TypeOK
    <3>2. \A k \in 1..Len(approvals) : approvals[k] \in Approval
      BY <3>1
    <3> QED
      BY <3>2 DEF Approval
  <2>2. now \in Nat
    BY DEF TypeOK
  <2> QED
    BY <2>1, <2>2 DEF Dated
<1>3. OneUse'
  BY DEF OneUse
<1>4. SpentInTime'
  BY DEF SpentInTime
<1>5. PaidFor'
  BY DEF PaidFor, RequiresApproval
<1> QED
  BY <1>1, <1>2, <1>3, <1>4, <1>5

LEMMA ProposeInv ==
    ASSUME IInv, NEW tool \in Tools, NEW args \in Args, NEW secrets \in SecretChoices,
           Propose(tool, args, secrets)
    PROVE  IInv'
<1> DEFINE env  == Fresh(proposed + 1, tool, args, secrets)
           kept == Append(proposals, env)
<1>1. /\ now \in Nat /\ proposed \in Nat /\ page \in Pages
      /\ proposals \in Seq(Envelope)
      /\ secrets \in BOOLEAN
  BY ParametersAssumption DEF IInv, TypeOK
<1>2. env \in Envelope /\ env.at = now
  BY <1>1, FreshType DEF IInv, Ids
<1>3. /\ UNCHANGED <<policyMode, approvals, byDigest, done, now, page>>
      /\ proposed' = proposed + 1
      /\ proposals' = kept \/ proposals' = Tail(kept)
  BY DEF Propose, store
<1>4. \A i \in 1..Len(proposals) : proposals[i].at <= now
  BY DEF IInv, Dated
<1> HIDE DEF env
<1>5. /\ kept \in Seq(Envelope) /\ kept # <<>>
      /\ \A i \in 1..Len(kept) : kept[i].at <= now
  <2>1. kept \in Seq(Envelope) /\ Len(kept) = Len(proposals) + 1 /\ Len(proposals) \in Nat
    BY <1>1, <1>2
  <2>2. \A i \in 1..Len(kept) : IF i \in 1..Len(proposals) THEN kept[i] = proposals[i]
                                                           ELSE kept[i] = env
    BY <1>1, <1>2, <2>1
  <2>3. now <= now
    BY <1>1
  <2> HIDE DEF kept
  <2>4. \A i \in 1..Len(kept) : kept[i].at <= now
    BY <1>2, <1>4, <2>2, <2>3
  <2>5. kept # <<>>
    BY <2>1
  <2> QED
    BY <2>1, <2>4, <2>5
<1> HIDE DEF kept
<1>6. /\ Tail(kept) \in Seq(Envelope)
      /\ \A i \in 1..Len(Tail(kept)) : Tail(kept)[i].at <= now
  BY <1>5
<1>7. /\ proposals' \in Seq(Envelope)
      /\ \A i \in 1..Len(proposals') : proposals'[i].at <= now'
  BY <1>3, <1>5, <1>6
<1> QED
  BY <1>1, <1>3, <1>7, QuietStep

LEMMA ApproveInv ==
    ASSUME IInv, NEW env \in Cached, NEW decision \in {"approve", "deny"},
           Approve(env, decision)
    PROVE  IInv'
<1> DEFINE rec == Minted(env, decision)
<1>1. /\ now \in Nat /\ proposals \in Seq(Envelope) /\ approvals \in Seq(Approval)
      /\ done \in Seq(Action)
  BY DEF IInv, TypeOK
<1>2. env \in Envelope /\ env.at <= now
  BY <1>1 DEF Cached, IInv, Dated
<1>3. rec \in Approval
  BY <1>1, <1>2, ParametersAssumption DEF Approval, Envelope, Minted
<1>4. rec.digest = env /\ rec.issuedAt = now /\ rec.consumed = FALSE
  BY DEF Minted
<1>5. /\ approvals' = Append(approvals, rec)
      /\ byDigest' = [x \in DOMAIN byDigest \cup {env} |->
                        IF x = env THEN Len(approvals) + 1 ELSE byDigest[x]]
      /\ UNCHANGED <<policyMode, now, page, proposed, proposals, done>>
  BY DEF Approve
<1> HIDE DEF rec
<1>6. /\ approvals' \in Seq(Approval)
      /\ Len(approvals') = Len(approvals) + 1
      /\ \A k \in 1..Len(approvals) : approvals'[k] = approvals[k]
      /\ approvals'[Len(approvals) + 1] = rec
      /\ Len(approvals) \in Nat
  BY <1>1, <1>3, <1>5
<1>7. TypeOK'
  <2>1. \A x \in DOMAIN byDigest' :
           byDigest'[x] \in 1..Len(approvals') /\ approvals'[byDigest'[x]].digest = x
    <3> SUFFICES ASSUME NEW x \in DOMAIN byDigest'
                 PROVE  /\ byDigest'[x] \in 1..Len(approvals')
                        /\ approvals'[byDigest'[x]].digest = x
      OBVIOUS
    <3>1. CASE x = env
      BY <1>4, <1>5, <1>6, <3>1
    <3>2. CASE x # env
      <4>1. x \in DOMAIN byDigest /\ byDigest'[x] = byDigest[x]
        BY <1>5, <3>2
      <4>2. byDigest[x] \in 1..Len(approvals) /\ approvals[byDigest[x]].digest = x
        BY <4>1 DEF IInv, TypeOK
      <4> QED
        BY <1>6, <4>1, <4>2
    <3> QED
      BY <3>1, <3>2
  <2> QED
    BY <1>5, <1>6, <2>1 DEF IInv, TypeOK
<1>8. Dated'
  <2>1. \A k \in 1..Len(approvals') : k \in 1..Len(approvals) \/ k = Len(approvals) + 1
    BY <1>6
  <2>2. ASSUME NEW k \in 1..Len(approvals')
        PROVE  /\ approvals'[k].digest.at <= approvals'[k].issuedAt
               /\ approvals'[k].issuedAt <= now
    <3>1. CASE k \in 1..Len(approvals)
      BY <1>6, <3>1 DEF IInv, Dated
    <3>2. CASE k = Len(approvals) + 1
      BY <1>1, <1>2, <1>4, <1>6, <3>2 DEF IInv, Dated
    <3> QED
      BY <2>1, <3>1, <3>2
  <2> QED
    BY <1>5, <2>2 DEF IInv, Dated
<1>9. SpentInTime'
  BY <1>5, <1>6 DEF IInv, SpentInTime, Covers
<1>10. OneUse'
  <2>1. \A i \in 1..Len(done) : done[i].spent # Len(approvals) + 1
    <3> SUFFICES ASSUME NEW i \in 1..Len(done) PROVE done[i].spent # Len(approvals) + 1
      OBVIOUS
    <3>1. done[i].spent # NoApproval => done[i].spent \in 1..Len(approvals)
      BY DEF IInv, SpentInTime
    <3> QED
      BY <1>6, <3>1 DEF NoApproval
  <2>2. \A k \in 1..Len(approvals') : k \in 1..Len(approvals) \/ k = Len(approvals) + 1
    BY <1>6
  <2>3. \A k \in 1..Len(approvals') :
           approvals'[k].consumed <=> \E i \in 1..Len(done) : done[i].spent = k
    <3> SUFFICES ASSUME NEW k \in 1..Len(approvals')
                 PROVE  approvals'[k].consumed <=> \E i \in 1..Len(done) : done[i].spent = k
      OBVIOUS
    <3>1. CASE k \in 1..Len(approvals)
      BY <1>6, <3>1 DEF IInv, OneUse
    <3>2. CASE k = Len(approvals) + 1
      <4>1. approvals'[k].consumed = FALSE
        BY <1>4, <1>6, <3>2
      <4> QED
        BY <2>1, <3>2, <4>1
    <3> QED
      BY <2>2, <3>1, <3>2
  <2> QED
    BY <1>5, <2>3 DEF IInv, OneUse
<1>11. PaidFor'
  BY <1>5 DEF IInv, PaidFor, RequiresApproval
<1> QED
  BY <1>7, <1>8, <1>9, <1>10, <1>11 DEF IInv

(***************************************************************************)
(* The handler is called, and at most one approval consumed for it.        *)
(***************************************************************************)
LEMMA PerformInv ==
    ASSUME IInv, NEW env \in Envelope, NEW tool \in Tools, NEW args \in Args,
           NEW cited \in Nat, NEW spent \in {NoApproval, cited},
           Perform(env, tool, args, cited, spent),
           Intact(env, tool),
           spent = NoApproval => UNCHANGED <<approvals, byDigest>>,
           spent # NoApproval => Consumable(spent, env) /\ Consume(spent),
           RequiresApproval(env) => \/ spent # NoApproval
                                    \/ policyMode = "audit" /\ cited = NoApproval,
           UNCHANGED <<policyMode, now, page, proposed>>,
           proposals' \in Seq(Envelope),
           \A i \in 1..Len(proposals') : proposals'[i].at <= now
    PROVE  IInv'
<1> DEFINE rec == [env |-> env, tool |-> tool, args |-> args,
                   page |-> page, at |-> now, bare |-> cited = NoApproval, spent |-> spent]
           n   == Len(done) + 1
<1>1. /\ now \in Nat /\ page \in Pages /\ done \in Seq(Action)
      /\ approvals \in Seq(Approval)
      /\ \A x \in DOMAIN byDigest :
           byDigest[x] \in 1..Len(approvals) /\ approvals[byDigest[x]].digest = x
  BY DEF IInv, TypeOK
<1>2. rec \in Action
  BY <1>1 DEF Action, NoApproval
<1>3. /\ rec.env = env /\ rec.tool = tool /\ rec.page = page /\ rec.at = now
      /\ rec.bare = (cited = NoApproval) /\ rec.spent = spent
  OBVIOUS
<1>4. done' = Append(done, rec)
  BY DEF Perform
<1> HIDE DEF rec
<1>5. /\ done' \in Seq(Action) /\ Len(done') = n /\ Len(done) \in Nat
      /\ done'[n] = rec
      /\ \A i \in 1..Len(done) : done'[i] = done[i]
      /\ \A i \in 1..Len(done') : i \in 1..Len(done) \/ i = n
  BY <1>1, <1>2, <1>4
<1> HIDE DEF n
\* What becomes of the approvals.
<1>6. /\ approvals' \in Seq(Approval) /\ Len(approvals') = Len(approvals)
      /\ \A k \in 1..Len(approvals) :
            /\ approvals'[k].digest = approvals[k].digest
            /\ approvals'[k].decision = approvals[k].decision
            /\ approvals'[k].issuedAt = approvals[k].issuedAt
            /\ approvals'[k].expiresAt = approvals[k].expiresAt
            /\ approvals'[k].consumed <=> approvals[k].consumed \/ k = spent
      /\ \A x \in DOMAIN byDigest' : x \in DOMAIN byDigest /\ byDigest'[x] = byDigest[x]
  <2>1. CASE spent = NoApproval
    BY <1>1, <2>1 DEF NoApproval
  <2>2. CASE spent # NoApproval
    <3>1. /\ approvals' = [approvals EXCEPT ![spent].consumed = TRUE]
          /\ byDigest' = [x \in DOMAIN byDigest \ {approvals[spent].digest} |-> byDigest[x]]
          /\ spent \in 1..Len(approvals)
      BY <2>2 DEF Consume, Consumable
    <3>2. approvals[spent] \in Approval
      BY <1>1, <3>1
    <3>3. [approvals[spent] EXCEPT !.consumed = TRUE] \in Approval
      BY <3>2 DEF Approval
    <3>4. approvals' = [approvals EXCEPT ![spent] = [approvals[spent] EXCEPT !.consumed = TRUE]]
      BY <3>1
    <3>5. approvals' \in Seq(Approval) /\ Len(approvals') = Len(approvals)
      BY <1>1, <3>1, <3>3, <3>4
    <3>6. \A k \in 1..Len(approvals) : k # spent => approvals'[k] = approvals[k]
      BY <1>1, <3>4
    <3>7. /\ approvals'[spent].digest = approvals[spent].digest
          /\ approvals'[spent].decision = approvals[spent].decision
          /\ approvals'[spent].issuedAt = approvals[spent].issuedAt
          /\ approvals'[spent].expiresAt = approvals[spent].expiresAt
          /\ approvals'[spent].consumed = TRUE
      BY <1>1, <3>1, <3>2, <3>4 DEF Approval
    <3> QED
      BY <3>1, <3>5, <3>6, <3>7
  <2> QED
    BY <2>1, <2>2
<1>7. TypeOK'
  <2>1. \A x \in DOMAIN byDigest' :
           byDigest'[x] \in 1..Len(approvals') /\ approvals'[byDigest'[x]].digest = x
    BY <1>1, <1>6
  <2> QED
    BY <1>5, <1>6, <2>1 DEF IInv, TypeOK
<1>8. Dated'
  BY <1>6 DEF IInv, Dated
<1>9. \A i \in 1..Len(done) : done[i].spent # NoApproval => done[i].spent # spent
  <2>1. spent # NoApproval => spent \in 1..Len(approvals) /\ ~approvals[spent].consumed
    BY DEF Consumable
  <2> QED
    BY <2>1 DEF IInv, OneUse
<1>10. OneUse'
  <2>1. \A i, j \in 1..Len(done') :
           done'[i].spent = done'[j].spent /\ done'[i].spent # NoApproval => i = j
    BY <1>3, <1>5, <1>9 DEF IInv, OneUse
  <2>2. \A k \in 1..Len(approvals') :
           approvals'[k].consumed <=> \E i \in 1..Len(done') : done'[i].spent = k
    <3> SUFFICES ASSUME NEW k \in 1..Len(approvals')
                 PROVE  approvals'[k].consumed <=> \E i \in 1..Len(done') : done'[i].spent = k
      OBVIOUS
    <3>1. approvals[k].consumed <=> \E i \in 1..Len(done) : done[i].spent = k
      BY <1>6 DEF IInv, OneUse
    <3>2. (\E i \in 1..Len(done') : done'[i].spent = k)
             <=> (\E i \in 1..Len(done) : done[i].spent = k) \/ k = spent
      <4>1. n \in 1..Len(done') /\ 1..Len(done) \subseteq 1..Len(done')
        BY <1>5 DEF n
      <4> QED
        BY <1>3, <1>5, <4>1
    <3> QED
      BY <1>6, <3>1, <3>2
  <2> QED
    BY <2>1, <2>2 DEF OneUse
<1>11. SpentInTime'
  <2>1. \A i \in 1..Len(done) :
           done'[i].spent # NoApproval =>
              /\ done'[i].spent \in 1..Len(approvals')
              /\ Covers(approvals'[done'[i].spent], done'[i])
    <3> SUFFICES ASSUME NEW i \in 1..Len(done), done'[i].spent # NoApproval
                 PROVE  /\ done'[i].spent \in 1..Len(approvals')
                        /\ Covers(approvals'[done'[i].spent], done'[i])
      OBVIOUS
    <3>1. done'[i] = done[i]
      BY <1>5
    <3>2. /\ done[i].spent \in 1..Len(approvals)
          /\ Covers(approvals[done[i].spent], done[i])
      BY <3>1 DEF IInv, SpentInTime
    <3> QED
      BY <1>6, <3>1, <3>2 DEF Covers
  <2>2. spent # NoApproval =>
           spent \in 1..Len(approvals') /\ Covers(approvals'[spent], rec)
    <3> SUFFICES ASSUME spent # NoApproval
                 PROVE  spent \in 1..Len(approvals') /\ Covers(approvals'[spent], rec)
      OBVIOUS
    <3>1. /\ spent \in 1..Len(approvals)
          /\ approvals[spent].digest = env
          /\ approvals[spent].decision = "approve"
          /\ now <= approvals[spent].expiresAt
      BY DEF Consumable
    <3>2. approvals[spent].digest.at <= approvals[spent].issuedAt
          /\ approvals[spent].issuedAt <= now
      BY <3>1 DEF IInv, Dated
    <3>3. env.page = page /\ env.tool = tool
      <4>1. [env EXCEPT !.tool = tool, !.page = page, !.secrets = FALSE] = env
        BY DEF Intact, LiveEnvelope
      <4> QED
        BY <4>1 DEF Envelope
    <3> QED
      BY <1>3, <1>6, <3>1, <3>2, <3>3 DEF Covers
  <2> QED
    BY <1>3, <1>5, <2>1, <2>2 DEF SpentInTime
<1>12. PaidFor'
  BY <1>3, <1>5 DEF IInv, PaidFor, RequiresApproval
<1> QED
  BY <1>7, <1>8, <1>10, <1>11, <1>12 DEF IInv

LEMMA DispatchInv ==
    ASSUME IInv, NEW tool \in Tools, NEW args \in Args,
           NEW id \in Ids, NEW cited \in Nat,
           Dispatch(tool, args, id, cited)
    PROVE  IInv'
<1>1. /\ now \in Nat /\ page \in Pages /\ proposed \in Nat
      /\ proposals \in Seq(Envelope)
      /\ \A i \in 1..Len(proposals) : proposals[i].at <= now
  BY DEF IInv, TypeOK, Dated
<1>2. UNCHANGED <<policyMode, now, page, proposed>>
  BY DEF Dispatch
<1>3. PICK env \in Cached \cup {Fresh(id, tool, args, FALSE)} :
          /\ proposals' = IF env \in Cached \/ id = NoId
                          THEN proposals ELSE Append(proposals, env)
          /\ \/ Unrestricted(env, tool, args, cited)
             \/ WithApproval(env, tool, args, cited)
             \/ Audited(env, tool, args, cited)
             \/ Blocked(env, tool, cited)
  BY DEF Dispatch
<1>4. env \in Envelope /\ env.at <= now
  <2>1. Fresh(id, tool, args, FALSE) \in Envelope /\ Fresh(id, tool, args, FALSE).at = now
    BY FreshType DEF IInv
  <2>2. \A e \in Cached : e \in Envelope /\ e.at <= now
    BY <1>1 DEF Cached
  <2>3. CASE env \in Cached
    BY <2>2, <2>3
  <2>4. CASE env = Fresh(id, tool, args, FALSE)
    <3>1. now <= now
      BY <1>1
    <3> QED
      BY <2>1, <2>4, <3>1
  <2> QED
    BY <1>3, <2>3, <2>4
<1>5. /\ proposals' \in Seq(Envelope)
      /\ \A i \in 1..Len(proposals') : proposals'[i].at <= now
  BY <1>1, <1>3, <1>4
<1>6. CASE Unrestricted(env, tool, args, cited)
  BY <1>2, <1>4, <1>5, <1>6, PerformInv DEF Unrestricted, store
<1>7. CASE WithApproval(env, tool, args, cited)
  <2>1. cited # NoApproval
    BY <1>7 DEF WithApproval, Consumable, NoApproval
  <2> QED
    BY <1>2, <1>4, <1>5, <1>7, <2>1, PerformInv DEF WithApproval
<1>8. CASE Audited(env, tool, args, cited)
  BY <1>2, <1>4, <1>5, <1>8, PerformInv DEF Audited, store
<1>9. CASE Blocked(env, tool, cited)
  BY <1>1, <1>2, <1>5, <1>9, QuietStep DEF Blocked, store
<1> QED
  BY <1>3, <1>6, <1>7, <1>8, <1>9

LEMMA NextInv == IInv /\ [Next]_vars => IInv'
<1> SUFFICES ASSUME IInv, [Next]_vars PROVE IInv'
  OBVIOUS
<1>1. /\ now \in Nat /\ page \in Pages /\ proposed \in Nat
      /\ proposals \in Seq(Envelope) /\ approvals \in Seq(Approval)
      /\ \A i \in 1..Len(proposals) : proposals[i].at <= now
      /\ \A i \in 1..Len(proposals) : proposals[i].at \in Nat
  <2>1. proposals \in Seq(Envelope)
    BY DEF IInv, TypeOK
  <2>2. \A i \in 1..Len(proposals) : proposals[i] \in Envelope
    BY <2>1
  <2>3. \A i \in 1..Len(proposals) : proposals[i].at \in Nat
    BY <2>2 DEF Envelope
  <2> QED
    BY <2>3 DEF IInv, TypeOK, Dated
<1>2. CASE Tick
  <2>1. now' = now + 1 /\ UNCHANGED <<policyMode, page, proposed, proposals, approvals, byDigest, done>>
    BY <1>2 DEF Tick, store
  <2>2. \A i \in 1..Len(proposals') : proposals'[i].at <= now'
    BY <1>1, <2>1
  <2> QED
    BY <1>1, <2>1, <2>2, QuietStep
<1>3. CASE PageMoves
  <2>1. page' \in Pages /\ UNCHANGED <<policyMode, now, proposed, proposals, approvals, byDigest, done>>
    BY <1>3 DEF PageMoves, store
  <2> QED
    BY <1>1, <2>1, QuietStep
<1>4. ASSUME NEW tool \in Tools, NEW args \in Args, NEW secrets \in SecretChoices,
             Propose(tool, args, secrets)
      PROVE  IInv'
  BY <1>4, ProposeInv
<1>5. ASSUME NEW tool \in Tools, NEW args \in Args,
             NEW id \in 0..proposed \cup ClientIds,
             NEW cited \in 0..Len(approvals)+1,
             Dispatch(tool, args, id, cited)
      PROVE  IInv'
  <2>1. id \in Ids /\ cited \in Nat
    BY <1>1, <1>5 DEF Ids
  <2> QED
    BY <1>5, <2>1, DispatchInv
<1>6. ASSUME NEW env \in Cached, NEW decision \in {"approve", "deny"},
             Approve(env, decision)
      PROVE  IInv'
  BY <1>6, ApproveInv
<1>7. CASE UNCHANGED vars
  BY <1>1, <1>7, QuietStep DEF vars
<1> QED
  BY <1>2, <1>3, <1>4, <1>5, <1>6, <1>7 DEF Next

-----------------------------------------------------------------------------
\* The inductive invariant of the gate.
THEOREM Invariance == Spec => []IInv
<1>1. Init => IInv
  BY InitInv
<1>2. IInv /\ [Next]_vars => IInv'
  BY NextInv
<1> QED
  BY <1>1, <1>2, PTL DEF Spec

\* Types; every pointer of byDigest leads to an approval of its digest.
THEOREM TypeCorrect == Spec => []TypeOK
<1>1. IInv => TypeOK
  BY DEF IInv
<1> QED
  BY <1>1, Invariance, PTL

\* An approval pays for one action (ApprovalStore.consume, approval.ts).
THEOREM OneActionPerApproval == Spec => []OneUse
<1>1. IInv => OneUse
  BY DEF IInv
<1> QED
  BY <1>1, Invariance, PTL

\* What is spent was approved, for this proposal, and has not expired.
THEOREM ApprovedInTime == Spec => []SpentInTime
<1>1. IInv => SpentInTime
  BY DEF IInv
<1> QED
  BY <1>1, Invariance, PTL

\* No proposal above the threshold runs unpaid, but for audit mode's exception
\* (dispatchTool, server.ts).
THEOREM RiskyActionsArePaidFor == Spec => []PaidFor
<1>1. IInv => PaidFor
  BY DEF IInv
<1> QED
  BY <1>1, Invariance, PTL

\* Approvals are spent once and in time (ApprovalStore.consume).
THEOREM ApprovalsWellSpent == Spec => []SpendingInv
<1>1. TypeOK /\ OneUse /\ SpentInTime => SpendingInv
  BY DEF SpendingInv
<1> QED
  BY <1>1, TypeCorrect, OneActionPerApproval, ApprovedInTime, PTL

-----------------------------------------------------------------------------
(***************************************************************************)
(* The risk matrix and the decision engine.                                *)
(***************************************************************************)
Classes == {RiskClasses[r] : r \in 1..4}

\* The four classes and their ranks.
LEMMA ClassesAre ==
    Classes = {"read", "mutate", "sensitive", "irreversible"}
<1>1. /\ RiskClasses[1] = "read" /\ RiskClasses[2] = "mutate"
      /\ RiskClasses[3] = "sensitive" /\ RiskClasses[4] = "irreversible"
  BY DEF RiskClasses
<1> QED  BY <1>1 DEF Classes

LEMMA RankIs ==
    /\ Rank("read") = 1 /\ Rank("mutate") = 2
    /\ Rank("sensitive") = 3 /\ Rank("irreversible") = 4
<1>1. /\ RiskClasses[1] = "read" /\ RiskClasses[2] = "mutate"
      /\ RiskClasses[3] = "sensitive" /\ RiskClasses[4] = "irreversible"
  BY DEF RiskClasses
<1>2. \A r \in 1..4 : r = 1 \/ r = 2 \/ r = 3 \/ r = 4
  OBVIOUS
<1>3. ASSUME NEW r \in 1..4
      PROVE  \A q \in 1..4 : RiskClasses[q] = RiskClasses[r] <=> q = r
  BY <1>1, <1>2
<1>4. ASSUME NEW r \in 1..4
      PROVE  Rank(RiskClasses[r]) = r
  BY <1>3 DEF Rank
<1> QED  BY <1>1, <1>4

\* Combining gives the higher of two classes.
LEMMA CombineIsMaximum ==
    ASSUME NEW a \in Classes, NEW b \in Classes
    PROVE  /\ CombineRisk(a, b) \in {a, b}
           /\ CombineRisk(a, b) \in Classes
           /\ Rank(CombineRisk(a, b)) >= Rank(a)
           /\ Rank(CombineRisk(a, b)) >= Rank(b)
BY ClassesAre, RankIs DEF CombineRisk

(***************************************************************************)
(* classifyRisk() gives the highest class of its four signals: no signal   *)
(* is lost, and none is exceeded.  A tool that the matrix does not list is *)
(* at least sensitive.                                                     *)
(***************************************************************************)
THEOREM RiskIsHighest ==
    ASSUME NEW tool, NEW hint, NEW place, NEW form
    PROVE  LET risk == RiskOf(tool, hint, place, form)
               signals == {ToolRisk(tool), OriginRisk(place), FormRisk(form),
                           ArgumentRisk(hint)}
           IN  /\ risk \in signals
               /\ \A s \in signals : Rank(risk) >= Rank(s)
               /\ tool \notin ReadTools \cup MutateTools => Rank(risk) >= Rank("sensitive")
<1> DEFINE a == ToolRisk(tool)
           b == OriginRisk(place)
           c == FormRisk(form)
           d == ArgumentRisk(hint)
           ab == CombineRisk(a, b)
           abc == CombineRisk(ab, c)
           abcd == CombineRisk(abc, d)
<1>1. a \in Classes /\ b \in Classes /\ c \in Classes /\ d \in Classes
  BY ClassesAre DEF ToolRisk, OriginRisk, FormRisk, ArgumentRisk
<1>2. tool \notin ReadTools \cup MutateTools => a = "sensitive"
  BY DEF ToolRisk
<1>3. RiskOf(tool, hint, place, form) = abcd
  BY DEF RiskOf
<1>4. \A x \in Classes : Rank(x) \in Nat
  BY ClassesAre, RankIs
<1> HIDE DEF a, b, c, d
<1>5. ab \in {a, b} /\ ab \in Classes /\ Rank(ab) >= Rank(a) /\ Rank(ab) >= Rank(b)
  BY <1>1, CombineIsMaximum
<1> HIDE DEF ab
<1>6. abc \in {ab, c} /\ abc \in Classes /\ Rank(abc) >= Rank(ab) /\ Rank(abc) >= Rank(c)
  BY <1>1, <1>5, CombineIsMaximum
<1> HIDE DEF abc
<1>7. abcd \in {abc, d} /\ abcd \in Classes /\ Rank(abcd) >= Rank(abc) /\ Rank(abcd) >= Rank(d)
  BY <1>1, <1>6, CombineIsMaximum
<1> HIDE DEF abcd
<1>8. abcd \in {a, b, c, d}
  BY <1>5, <1>6, <1>7
<1>9. /\ Rank(abcd) >= Rank(a) /\ Rank(abcd) >= Rank(b)
      /\ Rank(abcd) >= Rank(c) /\ Rank(abcd) >= Rank(d)
  BY <1>1, <1>4, <1>5, <1>6, <1>7
<1>10. tool \notin ReadTools \cup MutateTools => Rank(abcd) >= Rank("sensitive")
  BY <1>2, <1>9
<1> QED  BY <1>3, <1>8, <1>9, <1>10 DEF a, b, c, d

-----------------------------------------------------------------------------
\* The controls answer with one of the four kinds.
LEMMA ControlsType ==
    ASSUME NEW i \in Inputs
    PROVE  /\ Auth(i) \in Kinds /\ Egress(i) \in Kinds /\ Capability(i) \in Kinds
           /\ Dataflow(i) \in Kinds /\ RiskControl(i) \in Kinds
BY DEF Inputs, Kinds, Auth, Egress, Capability, Dataflow, RiskControl

LEMMA WinningIsMaximum ==
    ASSUME NEW a \in Kinds, NEW b \in Kinds
    PROVE  /\ Winning(a, b) \in {a, b}
           /\ Winning(a, b) \in Kinds
           /\ Precedence(Winning(a, b)) >= Precedence(a)
           /\ Precedence(Winning(a, b)) >= Precedence(b)
BY DEF Kinds, Winning, Precedence

LEMMA PrecedenceType == \A k \in Kinds : Precedence(k) \in 1..4
BY DEF Kinds, Precedence

(***************************************************************************)
(* decide(): "The final verdict is the highest-precedence verdict produced *)
(* by any control, never a default allow inserted by the engine".          *)
(***************************************************************************)
THEOREM StrictestWins ==
    ASSUME NEW i \in Inputs
    PROVE  /\ Decide(i) \in Contributions(i)
           /\ \A k \in Contributions(i) : Precedence(Decide(i)) >= Precedence(k)
<1> DEFINE a == Auth(i)
           b == Egress(i)
           c == Capability(i)
           d == Dataflow(i)
           e == RiskControl(i)
           wa == Winning("allow", a)
           wb == Winning(wa, b)
           wc == Winning(wb, c)
           wd == Winning(wc, d)
           we == Winning(wd, e)
<1>1. a \in Kinds /\ b \in Kinds /\ c \in Kinds /\ d \in Kinds /\ e \in Kinds
  BY ControlsType
<1>2. Decide(i) = we
  BY DEF Decide
<1> HIDE DEF a, b, c, d, e
<1>3. wa = a
  BY <1>1 DEF Winning, Precedence, Kinds
<1> HIDE DEF wa
<1>4. wb \in {a, b} /\ wb \in Kinds /\ Precedence(wb) >= Precedence(a)
      /\ Precedence(wb) >= Precedence(b)
  BY <1>1, <1>3, WinningIsMaximum
<1> HIDE DEF wb
<1>5. wc \in {wb, c} /\ wc \in Kinds /\ Precedence(wc) >= Precedence(wb)
      /\ Precedence(wc) >= Precedence(c)
  BY <1>1, <1>4, WinningIsMaximum
<1> HIDE DEF wc
<1>6. wd \in {wc, d} /\ wd \in Kinds /\ Precedence(wd) >= Precedence(wc)
      /\ Precedence(wd) >= Precedence(d)
  BY <1>1, <1>5, WinningIsMaximum
<1> HIDE DEF wd
<1>7. we \in {wd, e} /\ we \in Kinds /\ Precedence(we) >= Precedence(wd)
      /\ Precedence(we) >= Precedence(e)
  BY <1>1, <1>6, WinningIsMaximum
<1> HIDE DEF we
<1>8. we \in {a, b, c, d, e}
  BY <1>4, <1>5, <1>6, <1>7
<1>9. \A k \in {a, b, c, d, e} : Precedence(we) >= Precedence(k)
  <2>1. \A k \in {a, b, c, d, e, wb, wc, wd, we} : Precedence(k) \in Int
    BY <1>1, <1>4, <1>5, <1>6, <1>7, PrecedenceType
  <2> QED  BY <2>1, <1>4, <1>5, <1>6, <1>7
<1> QED  BY <1>2, <1>8, <1>9 DEF Contributions, a, b, c, d, e

(***************************************************************************)
(* A further scope never makes a decision stricter.                        *)
(***************************************************************************)
THEOREM ScopesOnlyHelp ==
    ASSUME NEW i \in Inputs, NEW j \in Inputs,
           i.known = j.known, i.labelled = j.labelled, i.risk = j.risk, i.place = j.place,
           i.scopes \subseteq j.scopes
    PROVE  Precedence(Decide(j)) <= Precedence(Decide(i))
<1>1. /\ Precedence(Auth(j)) <= Precedence(Auth(i))
      /\ Precedence(Egress(j)) <= Precedence(Egress(i))
      /\ Precedence(Capability(j)) <= Precedence(Capability(i))
      /\ Dataflow(j) = Dataflow(i) /\ RiskControl(j) = RiskControl(i)
  <2>1. Precedence(Auth(j)) <= Precedence(Auth(i))
    BY DEF Inputs, Auth, Precedence
  <2>2. Precedence(Egress(j)) <= Precedence(Egress(i))
    <3>1. \/ Egress(j) = Egress(i)
          \/ (Egress(i) = "require_elevated_scope" /\ Egress(j) = "allow")
      <4>1. CASE i.place \in {"none", "unparseable", "file"}
        <5>1. Egress(i) = "deny"
          BY <4>1 DEF Egress, Internal
        <5>2. Egress(j) = "deny"
          BY <4>1 DEF Egress, Internal
        <5> QED  BY <5>1, <5>2
      <4>2. CASE i.place \notin {"none", "unparseable", "file"} /\ i.place \notin Internal
        BY <4>2 DEF Egress
      <4>3. CASE i.place \in Internal /\ "egress:internal" \in i.scopes
        <5>1. "egress:internal" \in j.scopes
          BY <4>3
        <5> QED  BY <4>3, <5>1 DEF Egress, Internal
      <4>4. CASE i.place \in Internal /\ "egress:internal" \notin i.scopes
        <5>1. i.place \notin {"none", "unparseable", "file"}
          BY <4>4 DEF Internal
        <5>2. Egress(i) = "require_elevated_scope"
          BY <4>4, <5>1 DEF Egress
        <5>3. Egress(j) \in {"require_elevated_scope", "allow"}
          BY <4>4, <5>1 DEF Egress
        <5> QED  BY <5>2, <5>3
      <4> QED  BY <4>1, <4>2, <4>3, <4>4
    <3>2. CASE Egress(j) = Egress(i)
      BY <3>2, ControlsType, PrecedenceType
    <3>3. CASE Egress(i) = "require_elevated_scope" /\ Egress(j) = "allow"
      BY <3>3 DEF Precedence
    <3> QED  BY <3>1, <3>2, <3>3
  <2>3. Precedence(Capability(j)) <= Precedence(Capability(i))
    BY DEF Inputs, Capability, Precedence
  <2> QED  BY <2>1, <2>2, <2>3 DEF Dataflow, RiskControl
<1>2. /\ Decide(j) \in Contributions(j)
      /\ \A k \in Contributions(i) : Precedence(Decide(i)) >= Precedence(k)
  BY StrictestWins
<1>3. PICK k \in Contributions(i) : Precedence(Decide(j)) <= Precedence(k)
  <2>1. \A k \in Contributions(j) : Precedence(k) \in Int
    BY ControlsType, PrecedenceType DEF Contributions
  <2> QED  BY <1>1, <1>2, <2>1 DEF Contributions
<1>4. Precedence(Decide(j)) \in Int /\ Precedence(Decide(i)) \in Int /\ Precedence(k) \in Int
  BY StrictestWins, ControlsType, PrecedenceType DEF Contributions
<1> QED  BY <1>2, <1>3, <1>4

=============================================================================
