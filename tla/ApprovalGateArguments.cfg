\* Does what runs have the arguments that were approved?
CONSTANTS
    x1 = x1
    click = click
    type = type
    Tools = {click}
    Args = {"plain", "secret"}
    Pages = {"public", "loopback"}
    ClientIds = {x1}
    Risk <- MCRisk
    SecretChoices = {TRUE, FALSE}
    DenyTools = {}
    PolicyModes = {"audit", "enforce"}
    Ttl = 0
    ProposalCap = 1
    MaxProposals = 1
    MaxWork = 4
SPECIFICATION Spec
\* The bounds run out.
CHECK_DEADLOCK FALSE
INVARIANTS
    ArgumentsAsApproved
