\* Two callers, two signed releases, one of which is pinned at a time or both.
SPECIFICATION NexusSpec
CONSTANTS
    Callers = {c1, c2}
    NoCaller = NoCaller
    NoSession = NoSession
    MaxAge = 1
    MaxSkew = 1
    ClockBound = 2
    MaxVerifications = 3
    Releases = {1, 2, 3}
    Revision <- Distinct
    Signed = {1, 2}
    MaxPolicyReleases = 2
SYMMETRY CallerSymmetry
INVARIANTS NexusTypeOK TrustOutlivesBriefly VerifyFollowsPolicy
CHECK_DEADLOCK FALSE
