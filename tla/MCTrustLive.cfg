\* Two signed releases, of which a policy pins the newest.
SPECIFICATION FairSpec
CONSTANTS
    Releases = {1, 2}
    Revision <- Distinct
    Signed = {1, 2}
    Count = 1
    MaxPolicyReleases = 2
    Damages <- AnyCache
PROPERTIES DeployRecognised
