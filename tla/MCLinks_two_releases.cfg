CONSTANTS
    l1 = l1
    c1 = c1
    c2 = c2
    u1 = u1
    u2 = u2
    Sends <- MCSends
    Claims <- MCClaims
    Users <- MCUsers
    Claimant <- MCClaimant
    Proposals <- MCProposals
    None = None
    MaxAttempts = 2
SPECIFICATION Spec
CHECK_DEADLOCK FALSE
INVARIANTS
    OneReleasePerLink
