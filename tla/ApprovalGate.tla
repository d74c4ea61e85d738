---------------------------- MODULE ApprovalGate ----------------------------
(***************************************************************************)
(* The policy gate of one MCP server: browser_propose_action,              *)
(* browser_approve_action and the dispatch of a primitive tool             *)
(* (src/server.ts, dispatchTool), with the proposal cache, the approval    *)
(* store (src/policy/approval.ts) and the checks of ActionGate             *)
(* (src/policy/gate.ts).                                                   *)
(*                                                                         *)
(* After its only await, which reads the live page, each handler runs to   *)
(* the decision without interruption, so each is one action.  An envelope  *)
(* is a record and serves as its own digest: SHA-256 over the canonical    *)
(* form is taken to be injective.  The page record stands for page, frame, *)
(* effective URL and origin, an argument record for the normalised         *)
(* arguments with the target picked from them.                             *)
(***************************************************************************)
EXTENDS Integers, Sequences

CONSTANTS
    Tools, Args, Pages,
    ClientIds,        \* proposal ids that a caller makes up
    SecretChoices,    \* does a proposal name secrets?
    Risk(_, _, _),    \* classifyRisk(tool, arguments, page)
    DenyTools,        \* GatePolicy.denyTools
    PolicyModes,      \* the modes considered, of "audit" and "enforce"
    Ttl,              \* GatePolicy.approvalTtlMs
    ProposalCap,      \* 200
    MaxProposals,     \* bounds for TLC: proposals drawn, and ticks, approvals
    MaxWork           \* and actions together

RiskClasses == <<"read", "mutate", "sensitive", "irreversible">>

ASSUME ParametersAssumption ==
    /\ \A t \in Tools, a \in Args, p \in Pages :
           Risk(t, a, p) \in {RiskClasses[r] : r \in 1..4}
    /\ DenyTools \subseteq Tools
    /\ SecretChoices \subseteq BOOLEAN
    /\ ClientIds \cap Nat = {}
    /\ PolicyModes \subseteq {"audit", "enforce"}
    /\ Ttl \in Nat /\ ProposalCap \in Nat
    /\ MaxProposals \in Nat /\ MaxWork \in Nat

VARIABLES
    policyMode,   \* of this server, from its configuration
    now,          \* Date.now()
    page,         \* what the live page shows
    proposed,     \* number of ids drawn for proposals
    proposals,    \* the cache, oldest first
    approvals,    \* ApprovalStore.approvals, an id is an index
    byDigest,     \* ApprovalStore.byDigest
    done          \* the calls of tool handlers so far

store == <<approvals, byDigest>>
vars  == <<policyMode, now, page, proposed, proposals, approvals, byDigest, done>>

-----------------------------------------------------------------------------
\* The id of an envelope that its caller gave none is known to nobody else.
NoId == 0

NoApproval == 0

Ids == Nat \cup ClientIds

Envelope == [id : Ids, tool : Tools, args : Args, page : Pages,
             risk : {RiskClasses[r] : r \in 1..4}, secrets : BOOLEAN, at : Nat]

Fresh(id, tool, args, secrets) ==
    [id |-> id, tool |-> tool, args |-> args, page |-> page,
     risk |-> Risk(tool, args, page), secrets |-> secrets, at |-> now]

Cached == {proposals[i] : i \in 1..Len(proposals)}

Rank(class) == CHOOSE r \in 1..4 : RiskClasses[r] = class

\* DEFAULT_POLICY.requireApprovalFor
RequiresApproval(env) == env.risk \in {"sensitive", "irreversible"}

-----------------------------------------------------------------------------
Init ==
    /\ policyMode \in PolicyModes
    /\ now = 0
    /\ page \in Pages
    /\ proposed = 0
    /\ proposals = <<>>
    /\ approvals = <<>>
    /\ byDigest = <<>>
    /\ done = <<>>

Tick ==
    /\ now + Len(approvals) + Len(done) < MaxWork
    /\ now' = now + 1
    /\ UNCHANGED <<policyMode, page, proposed, proposals, store, done>>

\* A navigation, by a dispatched action or by the page itself.
PageMoves ==
    /\ page' \in Pages \ {page}
    /\ UNCHANGED <<policyMode, now, proposed, proposals, store, done>>

(***************************************************************************)
(* browser_propose_action, and the trimming of the cache after it          *)
(***************************************************************************)
Propose(tool, args, secrets) ==
    /\ proposed < MaxProposals
    /\ proposed' = proposed + 1
    /\ LET kept == Append(proposals, Fresh(proposed + 1, tool, args, secrets))
       IN  proposals' = IF Len(kept) > ProposalCap THEN Tail(kept) ELSE kept
    /\ UNCHANGED <<policyMode, now, page, store, done>>

\* ApprovalStore.mint()
Minted(env, decision) ==
    [digest    |-> env,
     decision  |-> decision,
     issuedAt  |-> now,
     expiresAt |-> now + (IF Ttl > 1 THEN Ttl ELSE 1),
     risk      |-> env.risk,
     consumed  |-> FALSE]

\* Mutant: only the pointer is stored.
Approve_NotStored(env, decision) ==
    /\ now + Len(approvals) + Len(done) < MaxWork
    /\ env \in Cached
    /\ byDigest' = [x \in DOMAIN byDigest \cup {env} |->
                        IF x = env THEN Len(approvals) + 1 ELSE byDigest[x]]
    /\ UNCHANGED <<policyMode, now, page, proposed, proposals, approvals, done>>

(***************************************************************************)
(* browser_approve_action: the digest names a cached proposal; of the live *)
(* page nothing is asked.                                                  *)
(***************************************************************************)
Approve(env, decision) ==
    /\ now + Len(approvals) + Len(done) < MaxWork
    /\ env \in Cached
    /\ approvals' = Append(approvals, Minted(env, decision))
    /\ byDigest' = [x \in DOMAIN byDigest \cup {env} |->
                        IF x = env THEN Len(approvals) + 1 ELSE byDigest[x]]
    /\ UNCHANGED <<policyMode, now, page, proposed, proposals, done>>

-----------------------------------------------------------------------------
(***************************************************************************)
(* The checks of ActionGate.gate(), in its order                           *)
(***************************************************************************)
\* Mutants: page or tool of the proposal are taken for the live ones.
LiveEnvelope_OldPage(env, tool) == [env EXCEPT !.tool = tool, !.secrets = FALSE]

LiveEnvelope_OldTool(env, tool) == [env EXCEPT !.page = page, !.secrets = FALSE]

\* What the live state makes of the proposal.  The tool and the page are live;
\* target, arguments, risk and time are the proposal's own; a dispatch names no
\* secrets.
LiveEnvelope(env, tool) ==
    [env EXCEPT !.tool = tool, !.page = page, !.secrets = FALSE]

\* The server knows no live secret versions.
SecretDrift(env) == env.secrets

Intact(env, tool) ==
    /\ tool \notin DenyTools
    /\ ~SecretDrift(env)
    /\ LiveEnvelope(env, tool) = env

\* Mutants: the consumed flag is not looked at; the expiry is a tick late.
Consumable_Twice(k, env) ==
    /\ k \in 1..Len(approvals)
    /\ approvals[k].digest = env
    /\ approvals[k].decision = "approve"
    /\ now <= approvals[k].expiresAt

Consumable_Late(k, env) ==
    /\ k \in 1..Len(approvals)
    /\ ~approvals[k].consumed
    /\ approvals[k].digest = env
    /\ approvals[k].decision = "approve"
    /\ now <= approvals[k].expiresAt + 1

\* The guards of ApprovalStore.consume().
Consumable(k, env) ==
    /\ k \in 1..Len(approvals)
    /\ ~approvals[k].consumed
    /\ approvals[k].digest = env
    /\ approvals[k].decision = "approve"
    /\ now <= approvals[k].expiresAt
    /\ Rank(env.risk) >= Rank(approvals[k].risk)

Consume(k) ==
    /\ approvals' = [approvals EXCEPT ![k].consumed = TRUE]
    /\ byDigest' = [x \in DOMAIN byDigest \ {approvals[k].digest} |-> byDigest[x]]

\* The handler of the tool is called; "bare" records that no approval was cited.
Perform(env, tool, args, cited, spent) ==
    done' = Append(done, [env |-> env, tool |-> tool, args |-> args,
                          page |-> page, at |-> now,
                          bare |-> cited = NoApproval, spent |-> spent])

\* Below the threshold no approval is asked for, and none consumed.
Unrestricted(env, tool, args, cited) ==
    /\ Intact(env, tool)
    /\ ~RequiresApproval(env)
    /\ Perform(env, tool, args, cited, NoApproval)
    /\ UNCHANGED store

WithApproval(env, tool, args, cited) ==
    /\ Intact(env, tool)
    /\ RequiresApproval(env)
    /\ Consumable(cited, env)
    /\ Consume(cited)
    /\ Perform(env, tool, args, cited, cited)

\* Mutant: in audit mode a refused approval is forgiven like a missing one.
Audited_AnyApproval(env, tool, args, cited) ==
    /\ policyMode = "audit"
    /\ Intact(env, tool)
    /\ RequiresApproval(env)
    /\ ~Consumable(cited, env)
    /\ Perform(env, tool, args, cited, NoApproval)
    /\ UNCHANGED store

\* Audit mode lets a call pass that cites no approval.
Audited(env, tool, args, cited) ==
    /\ policyMode = "audit"
    /\ Intact(env, tool)
    /\ RequiresApproval(env)
    /\ cited = NoApproval
    /\ Perform(env, tool, args, cited, NoApproval)
    /\ UNCHANGED store

Blocked(env, tool, cited) ==
    /\ \/ ~Intact(env, tool)
       \/ /\ RequiresApproval(env)
          /\ ~Consumable(cited, env)
          /\ ~(policyMode = "audit" /\ cited = NoApproval)
    /\ UNCHANGED <<store, done>>

(***************************************************************************)
(* dispatchTool for a primitive: the cached proposal, or one made on the   *)
(* spot, which is cached under the id the caller gave.                     *)
(***************************************************************************)
Dispatch(tool, args, id, cited) ==
    /\ now + Len(approvals) + Len(done) < MaxWork
    /\ \E env \in IF \E e \in Cached : e.id = id
                  THEN {e \in Cached : e.id = id}
                  ELSE {Fresh(id, tool, args, FALSE)} :
          /\ proposals' = IF env \in Cached \/ id = NoId
                          THEN proposals ELSE Append(proposals, env)
          /\ \/ Unrestricted(env, tool, args, cited)
             \/ WithApproval(env, tool, args, cited)
             \/ Audited(env, tool, args, cited)
             \/ Blocked(env, tool, cited)
    /\ UNCHANGED <<policyMode, now, page, proposed>>

Next ==
    \/ Tick
    \/ PageMoves
    \/ \E tool \in Tools, args \in Args :
          \/ \E secrets \in SecretChoices : Propose(tool, args, secrets)
          \/ \E id \in 0..proposed \cup ClientIds, cited \in 0..Len(approvals)+1 :
                Dispatch(tool, args, id, cited)
    \/ \E env \in Cached, decision \in {"approve", "deny"} : Approve(env, decision)

Spec == Init /\ [][Next]_vars

-----------------------------------------------------------------------------
Approval == [digest : Envelope, decision : {"approve", "deny"},
             issuedAt : Nat, expiresAt : Nat,
             risk : {RiskClasses[r] : r \in 1..4}, consumed : BOOLEAN]

Action == [env : Envelope, tool : Tools, args : Args, page : Pages, at : Nat,
           bare : BOOLEAN, spent : Nat]

TypeOK ==
    /\ policyMode \in PolicyModes
    /\ now \in Nat
    /\ page \in Pages
    /\ proposed \in Nat
    /\ proposals \in Seq(Envelope)
    /\ approvals \in Seq(Approval)
    /\ \A x \in DOMAIN byDigest :
          byDigest[x] \in 1..Len(approvals) /\ approvals[byDigest[x]].digest = x
    /\ done \in Seq(Action)

(***************************************************************************)
(* An approval pays for one action: the consumed ones are exactly those    *)
(* that some action spent, and no two actions spent the same, whatever is  *)
(* retried, evicted, approved again or dispatched in between.              *)
(***************************************************************************)
OneUse ==
    /\ \A i, j \in 1..Len(done) :
          done[i].spent = done[j].spent /\ done[i].spent # NoApproval => i = j
    /\ \A k \in 1..Len(approvals) :
          approvals[k].consumed <=> \E i \in 1..Len(done) : done[i].spent = k

(***************************************************************************)
(* What was spent on an action is an approval, not a denial, of the very   *)
(* proposal it was dispatched for, given after that proposal was made, not *)
(* expired when it was spent, and for the tool that ran on the page it ran *)
(* on, although pages moved and ids were used again in between.  The       *)
(* arguments are the proposal's; what its handler gets is another matter,  *)
(* see ArgumentsAsApproved.                                                *)
(***************************************************************************)
Covers(approval, action) ==
    /\ approval.decision = "approve"
    /\ approval.digest = action.env
    /\ approval.digest.tool = action.tool
    /\ approval.digest.page = action.page
    /\ action.env.at <= approval.issuedAt
    /\ approval.issuedAt <= action.at
    /\ action.at <= approval.expiresAt

SpentInTime ==
    \A i \in 1..Len(done) :
        done[i].spent # NoApproval =>
            /\ done[i].spent \in 1..Len(approvals)
            /\ Covers(approvals[done[i].spent], done[i])

(***************************************************************************)
(* Whatever proposal needs an approval is paid for.  Audit mode forgives a *)
(* missing approval, never a bad one.                                      *)
(***************************************************************************)
PaidFor ==
    \A i \in 1..Len(done) :
        RequiresApproval(done[i].env) =>
            \/ done[i].spent # NoApproval
            \/ policyMode = "audit" /\ done[i].bare

\* Approvals and what they paid for correspond: one action each, in time
\* (ApprovalStore.consume).
SpendingInv == TypeOK /\ OneUse /\ SpentInTime

(***************************************************************************)
(* A statement of the repository that the code does not keep               *)
(***************************************************************************)
\* server.ts: "proposal and dispatch must digest the same normalized argument
\* bytes."  An approved action runs with the arguments that were approved.
ArgumentsAsApproved ==
    \A i \in 1..Len(done) :
        done[i].spent # NoApproval =>
            done[i].args = approvals[done[i].spent].digest.args
=============================================================================
