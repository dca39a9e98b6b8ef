\* Two signed releases; nobody but the client touches its cache file.
SPECIFICATION Spec
CONSTANTS
    Releases = {1, 2}
    Revision <- Distinct
    Signed = {1, 2}
    Count = 2
    MaxPolicyReleases = 2
    Damages <- NoDamage
INVARIANTS LosingTheNetworkKeepsPolicy
