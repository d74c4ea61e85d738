----------------------------- MODULE MCSiteGate -----------------------------
(* An http page of one host, which the gate asks the https origin for, and  *)
(* an https page of another; one tab, two dispatches.                       *)
EXTENDS SiteGate, TLC

CONSTANTS n1, n2, h1, h2, tab1, t1, d1, d2

Page(s, h) == [scheme |-> s, host |-> h]
MCPages == {Page("http", h1), Page("https", h2)}
MCNameOf == (h1 :> n1) @@ (h2 :> n2)
MCTabs == {tab1}
MCTokens == {t1}
MCDispatches == {d1, d2}
MCKinds == {"once", "site"}

Symmetry == Permutations(MCDispatches)
=============================================================================
