--------------------------- MODULE MCApprovalGate ---------------------------
(* Instances of ApprovalGate for TLC, with the project's risk matrix.      *)
EXTENDS PolicyDecision, TLC

CONSTANTS click, type, x1

\* The matrix has the two tools in the same class.
MCTools == {click, type}
MCRisk(tool, args, page_) == ClassifyRisk("browser_click", args, page_)

Symmetry == Permutations(MCTools)
=============================================================================
