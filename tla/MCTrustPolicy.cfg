\* Builds 2 and 3 share a revision; build 4 is unsigned and claims build 1's.
SPECIFICATION Spec
CONSTANTS
    Releases = {1, 2, 3, 4}
    Revision <- Rebuilt
    Signed = {1, 2, 3}
    Count = 2
    MaxPolicyReleases = 2
    Damages <- SomeCaches
INVARIANTS TypeOK PolicyIsTrusted
PROPERTIES ImplementsPinnedPolicy
