--------------------------- MODULE PolicyDecision ---------------------------
(***************************************************************************)
(* The risk matrix (src/policy/risk.ts), by which the gate tells which     *)
(* actions need an approval, and the decision engine                       *)
(* (src/policy/decision.ts), which puts five controls together.  Both are  *)
(* functions of their inputs.                                              *)
(*                                                                         *)
(* A page stands for the kind of place its URL names, an argument record   *)
(* for what its keys and values hint at.                                   *)
(***************************************************************************)
EXTENDS ApprovalGate

Places == {"none", "unparseable", "file", "public", "dotlocal", "loopback",
           "loopback:port", "private", "linklocal", "uniquelocal"}
Hints == {"plain", "secret", "path", "amount"}

-----------------------------------------------------------------------------
(***************************************************************************)
(* classifyRisk()                                                          *)
(***************************************************************************)
CombineRisk(a, b) == IF Rank(a) >= Rank(b) THEN a ELSE b

\* TOOL_RISK; a tool without an entry is sensitive.
ReadTools == {"browser_snapshot", "browser_console", "browser_network", "browser_wait"}
MutateTools == {"browser_navigate", "browser_click", "browser_type", "browser_fill",
                "browser_press", "browser_hover", "browser_drag", "browser_select",
                "browser_screenshot"}

ToolRisk(tool) ==
    CASE tool \in ReadTools -> "read"
      [] tool \in MutateTools -> "mutate"
      [] OTHER -> "sensitive"

OriginRisk(place) ==
    CASE place = "file" -> "irreversible"
      [] place \in {"none", "public", "dotlocal"} -> "read"
      [] OTHER -> "sensitive"

\* A form that is not fetched; the dispatch path names none.
FormRisk(form) ==
    CASE form = "none" -> "read"
      [] form \in {"loopback", "loopback:port"} -> "mutate"
      [] OTHER -> "sensitive"

ArgumentRisk(hint) ==
    CASE hint = "amount" -> "irreversible"
      [] hint \in {"secret", "path"} -> "sensitive"
      [] OTHER -> "read"

RiskOf(tool, hint, place, form) ==
    CombineRisk(CombineRisk(CombineRisk(ToolRisk(tool), OriginRisk(place)), FormRisk(form)),
                ArgumentRisk(hint))

ClassifyRisk(tool, hint, place) == RiskOf(tool, hint, place, "none")

-----------------------------------------------------------------------------
(***************************************************************************)
(* PolicyDecisionEngine with the default controls.  A principal is known   *)
(* or not; its scopes are a set; "labelled" tells whether its data labels  *)
(* cover those of the action and of the secrets in it.                     *)
(***************************************************************************)
Scopes == {"browser:basic", "egress:internal", "capability:sensitive",
           "capability:irreversible"}

Inputs == [known : BOOLEAN, scopes : SUBSET Scopes, labelled : BOOLEAN,
           risk : {RiskClasses[r] : r \in 1..4}, place : Places]

Kinds == {"allow", "require_approval", "require_elevated_scope", "deny"}

Precedence(kind) ==
    CASE kind = "deny" -> 4
      [] kind = "require_elevated_scope" -> 3
      [] kind = "require_approval" -> 2
      [] kind = "allow" -> 1

Auth(i) ==
    CASE ~i.known -> "deny"
      [] i.known /\ i.scopes = {} -> "require_elevated_scope"
      [] OTHER -> "allow"

\* A host with a port is not compared without it, and not found internal.
Internal == {"dotlocal", "loopback", "private"}

Egress(i) ==
    CASE i.place \in {"none", "unparseable", "file"} -> "deny"
      [] i.place \in Internal /\ "egress:internal" \notin i.scopes -> "require_elevated_scope"
      [] OTHER -> "allow"

Capability(i) ==
    CASE i.risk = "irreversible" /\ "capability:irreversible" \notin i.scopes ->
             "require_elevated_scope"
      [] i.risk = "sensitive" /\ "capability:sensitive" \notin i.scopes ->
             "require_elevated_scope"
      [] OTHER -> "allow"

Dataflow(i) == IF i.labelled THEN "allow" ELSE "deny"

RiskControl(i) == IF i.risk \in {"irreversible", "sensitive"} THEN "require_approval" ELSE "allow"

Winning(a, b) == IF Precedence(a) >= Precedence(b) THEN a ELSE b

\* decide(): the kind of the composed verdict.
Decide(i) ==
    Winning(Winning(Winning(Winning(Winning("allow", Auth(i)), Egress(i)), Capability(i)),
                    Dataflow(i)),
            RiskControl(i))

Contributions(i) == {Auth(i), Egress(i), Capability(i), Dataflow(i), RiskControl(i)}

=============================================================================
