----------------------------- MODULE TrustPolicy -----------------------------
(***************************************************************************)
(* A client that follows signed Gateway releases: release.Source with its  *)
(* cache file, the attestation verifier's policy in force, the periodic    *)
(* refresh of the SDK client and the refresh a verification triggers when  *)
(* it meets a release it does not know (internal/release, policy_refresh.go*)
(* internal/attestation, client.go:284-325).                               *)
(*                                                                         *)
(* A release is a number, newer releases having greater ones; it stands    *)
(* for a build: a source revision and the measurements that belong to it.  *)
(* Signatures, digests and encodings come down to whether a release is in  *)
(* Signed: published, signed by the release workflow for production and    *)
(* above the encryption floor.  A set of releases is a policy, or a cache. *)
(***************************************************************************)
EXTENDS Integers, FiniteSets

CONSTANTS
    Releases,       \* builds, ordered by publication
    Revision,       \* the source revision each was built from
    Signed,         \* those Source's verifier accepts
    Count,          \* releases a derived policy pins
    MaxPolicyReleases,
    Damages         \* what another hand may leave in the cache file

None == 0

ASSUME ReleasesAssumption ==
    Releases \subseteq Nat \ {None} /\ IsFiniteSet(Releases) /\ Signed \subseteq Releases
ASSUME CountAssumption ==
    MaxPolicyReleases \in Nat /\ Count \in 1..MaxPolicyReleases
ASSUME RevisionAssumption == DOMAIN Revision = Releases
ASSUME DamageAssumption == Damages \subseteq SUBSET Releases

VARIABLES
    published,  \* releases GitHub lists
    gateway,    \* the build the Gateway runs
    cache,      \* the releases in the cache file, {} when there is none
    policy,     \* the releases the verifier pins, {} before there is a verifier
    running,    \* New has a policy and the client serves
    cooling,    \* a triggered refresh began less than 5 minutes ago
    rpc, got,   \* where each refresh is, and the releases it has so far
    vpc, seen,  \* where the verification is, and the build its evidence names
    accepted    \* the build of the last accepted evidence

vars == <<published, gateway, cache, policy, running, cooling, rpc, got, vpc, seen, accepted>>
world == <<published, gateway>>
verification == <<vpc, seen, accepted>>

(* Who runs Source.Policy: New, the ticker goroutine, and the verification  *)
(* under Client.mu, of which there is one at a time.                        *)
Refreshers == {"start", "ticker", "contact"}

TypeOK ==
    /\ published \subseteq Releases
    /\ gateway \in Releases
    /\ cache \subseteq Releases /\ policy \subseteq Releases
    /\ running \in BOOLEAN /\ cooling \in BOOLEAN
    /\ rpc \in [Refreshers -> {"idle", "fetch", "store", "load", "apply"}]
    /\ got \in [Refreshers -> SUBSET Releases]
    /\ vpc \in {"idle", "check", "refresh", "reattest", "recheck"}
    /\ seen \in Releases \cup {None} /\ (vpc \in {"check", "recheck"} => seen # None)
    /\ accepted \in Releases \cup {None}

Init ==
    /\ published = {} /\ gateway \in Releases
    /\ cache = {} /\ policy = {}
    /\ running = FALSE /\ cooling = FALSE
    /\ rpc = [p \in Refreshers |-> "idle"]
    /\ got = [p \in Refreshers |-> {}]
    /\ vpc = "idle" /\ seen = None /\ accepted = None

Newest(S, n) == {r \in S : Cardinality({q \in S : q > r}) < n}

Revisions(S) == {Revision[r] : r \in S}

(* Policy.validate: 1 to MaxPolicyReleases releases, no revision twice.     *)
Valid(S) ==
    /\ S # {}
    /\ Cardinality(S) <= MaxPolicyReleases
    /\ \A q, r \in S : Revision[q] = Revision[r] => q = r

-----------------------------------------------------------------------------
(* Source.Policy, run by p. *)

Begin(p) == rpc' = [rpc EXCEPT ![p] = "fetch"]

(* The listing shows the newest Count * 3 releases. *)
Listed == Newest(published, 3 * Count)

(* The downloads that succeed and verify, newest first, until there are     *)
(* Count of them.                                                           *)
Fetched(p, downloaded) ==
    /\ rpc[p] = "fetch"
    /\ downloaded # {}
    /\ got' = [got EXCEPT ![p] = Newest(downloaded, Count)]
    /\ rpc' = [rpc EXCEPT ![p] = "store"]
    /\ UNCHANGED <<world, cache, policy, running, cooling, verification>>

Fetch(p) == Fetched(p, Listed \cap Signed)

(* Some downloads fail; their releases are skipped. *)
FetchPart(p) == \E downloaded \in SUBSET (Listed \cap Signed) : Fetched(p, downloaded)

(* No listing, or nothing in it could be downloaded and verified. *)
FetchFails(p) ==
    /\ rpc[p] = "fetch"
    /\ rpc' = [rpc EXCEPT ![p] = "load"]
    /\ UNCHANGED <<world, cache, policy, running, cooling, got, verification>>

(* The cache is replaced before a policy is derived.  Its error is dropped. *)
Store(p) ==
    /\ rpc[p] = "store"
    /\ cache' \in {got[p], cache}
    /\ rpc' = [rpc EXCEPT ![p] = "apply"]
    /\ UNCHANGED <<world, policy, running, cooling, got, verification>>

(* Mutants: a failed refresh ends the ticker's goroutine; the policy that a  *)
(* refresh brought is applied to the evidence that was already refused.      *)
RestForGood(p, ok) == IF p = "ticker" /\ ~ok THEN rpc ELSE [rpc EXCEPT ![p] = "idle"]
ResumeRechecking(p, ok) == IF p # "contact" THEN vpc ELSE IF ok THEN "recheck" ELSE "idle"

Rest(p, ok) == [rpc EXCEPT ![p] = "idle"]
Resume(p, ok) == IF p # "contact" THEN vpc ELSE IF ok THEN "reattest" ELSE "idle"

(* The refresh is over: New fails or goes on, the ticker waits for its next *)
(* tick, and the verification that asked for it gives up or tries again.    *)
Finish(p, ok) ==
    /\ rpc' = Rest(p, ok)
    /\ running' = (running \/ (p = "start" /\ ok))
    /\ vpc' = Resume(p, ok)
    /\ seen' = IF p # "contact" THEN seen ELSE None
    /\ got' = IF p = "contact" /\ ok THEN got ELSE [got EXCEPT ![p] = {}]
    /\ UNCHANGED <<world, cache, cooling, accepted>>

(* Mutant: what is in the cache file was verified when it was stored. *)
CacheUsableUnverified == cache # {}

(* The entries used, which are stored newest first, are verified again. *)
CacheUsable == cache # {} /\ Newest(cache, Count) \subseteq Signed

LoadCache(p) ==
    /\ rpc[p] = "load"
    /\ CacheUsable
    /\ got' = [got EXCEPT ![p] = Newest(cache, Count)]
    /\ rpc' = [rpc EXCEPT ![p] = "apply"]
    /\ UNCHANGED <<world, cache, policy, running, cooling, verification>>

CacheUnusable(p) ==
    /\ rpc[p] = "load"
    /\ ~CacheUsable
    /\ Finish(p, FALSE)
    /\ UNCHANGED policy

(* release.Policy and SetPolicy, or NewVerifier when New runs it. *)
Apply(p) ==
    /\ rpc[p] = "apply"
    /\ Valid(got[p])
    /\ policy' = got[p]
    /\ Finish(p, TRUE)

ApplyFails(p) ==
    /\ rpc[p] = "apply"
    /\ ~Valid(got[p])
    /\ Finish(p, FALSE)
    /\ UNCHANGED policy

Refresh(p) ==
    \/ Fetch(p) \/ FetchPart(p) \/ FetchFails(p) \/ Store(p)
    \/ LoadCache(p) \/ CacheUnusable(p) \/ Apply(p) \/ ApplyFails(p)

-----------------------------------------------------------------------------
(* New, the ticker, and a verification. *)

New ==
    /\ ~running /\ rpc["start"] = "idle"
    /\ Begin("start")
    /\ UNCHANGED <<world, cache, policy, running, cooling, got, verification>>

Ticker ==
    /\ running /\ rpc["ticker"] = "idle"
    /\ Begin("ticker")
    /\ UNCHANGED <<world, cache, policy, running, cooling, got, verification>>

(* The Gateway answers with evidence of the build it runs now. *)
Attest ==
    /\ running
    /\ \/ vpc = "idle" /\ vpc' = "check"
       \/ vpc = "reattest" /\ vpc' = "recheck"
    /\ seen' = gateway
    /\ UNCHANGED <<world, cache, policy, running, cooling, rpc, got, accepted>>

(* The verification ends; what its triggered refresh learned is forgotten. *)
Answer ==
    /\ vpc' = "idle"
    /\ seen' = None
    /\ got' = [got EXCEPT !["contact"] = {}]
    /\ UNCHANGED <<world, cache, policy, running, cooling, rpc>>

AttestFails == vpc = "reattest" /\ Answer /\ UNCHANGED accepted

Checking == vpc \in {"check", "recheck"}
Pinned == Revision[seen] \in Revisions(policy)

(* Mutant: the revision is looked up, its measurements are not compared. *)
MatchesRevision == Pinned

(* The one release with the attested revision, and its measurements. *)
Matches == \E r \in policy : Revision[r] = Revision[seen] /\ r = seen

Accept == Checking /\ Matches /\ accepted' = seen /\ Answer

(* A pinned revision with other measurements: refused, never refreshed for. *)
Mismatch == Checking /\ Pinned /\ ~Matches /\ Answer /\ UNCHANGED accepted

(* ErrUnpinnedRelease when no refresh may be triggered, or after one. *)
RejectUnpinned ==
    /\ Checking /\ ~Pinned
    /\ cooling \/ vpc = "recheck"
    /\ Answer
    /\ UNCHANGED accepted

(* allowRefresh: the slot is taken before the refresh is known to work. *)
FirstContact ==
    /\ vpc = "check" /\ ~Pinned
    /\ ~cooling /\ cooling' = TRUE
    /\ Begin("contact")
    /\ vpc' = "refresh"
    /\ UNCHANGED <<world, cache, policy, running, got, seen, accepted>>

CoolDown ==
    /\ cooling /\ cooling' = FALSE
    /\ UNCHANGED <<world, cache, policy, running, rpc, got, verification>>

-----------------------------------------------------------------------------
(* The world. *)

Publish ==
    /\ \E r \in Releases \ published :
          /\ \A q \in Releases \ published : r <= q
          /\ published' = published \cup {r}
    /\ UNCHANGED <<gateway, cache, policy, running, cooling, rpc, got, verification>>

Deploy ==
    /\ gateway' \in Releases \ {gateway}
    /\ UNCHANGED <<published, cache, policy, running, cooling, rpc, got, verification>>

(* The cache file lives on ordinary disk: it can be lost, rolled back, or   *)
(* hold releases nobody signed, among signed ones or instead of them.       *)
CacheDamaged ==
    /\ cache' \in Damages
    /\ UNCHANGED <<world, policy, running, cooling, rpc, got, verification>>

(* The process ends, whatever it is doing, and with it everything but the   *)
(* cache file; another may start from that.                                 *)
Restart ==
    /\ running /\ running' = FALSE
    /\ policy' = {} /\ cooling' = FALSE
    /\ rpc' = [p \in Refreshers |-> "idle"]
    /\ got' = [p \in Refreshers |-> {}]
    /\ vpc' = "idle" /\ seen' = None /\ accepted' = None
    /\ UNCHANGED <<world, cache>>

Next ==
    \/ New \/ Ticker \/ \E p \in Refreshers : Refresh(p)
    \/ Attest \/ AttestFails \/ Accept \/ Mismatch \/ RejectUnpinned \/ FirstContact \/ CoolDown
    \/ Publish \/ Deploy \/ CacheDamaged \/ Restart

Spec == Init /\ [][Next]_vars

(***************************************************************************)
(* Fairness.  The ticker fires and its refresh's steps end, requests being *)
(* bounded by timeouts; the network is not out for ever.                   *)
(***************************************************************************)
Fairness ==
    /\ WF_vars(Ticker) /\ WF_vars(Refresh("ticker"))
    /\ SF_vars(Fetch("ticker"))

FairSpec == Spec /\ Fairness

-----------------------------------------------------------------------------
(* Properties. *)

(* source.go:133-216, verifier.go:363: whatever is downloaded, lost, found  *)
(* in the cache or refreshed concurrently, a serving client has a policy,   *)
(* and it pins only signed releases, no more than allowed, each revision    *)
(* with one set of measurements.                                            *)
PolicyIsTrusted == running => Valid(policy) /\ policy \subseteq Signed

(* verifier.go:267-334: evidence is accepted only from a build that was     *)
(* signed, even when an unsigned build claims a signed one's revision, and  *)
(* whatever refreshes happen between the two attestations of a verification.*)
OnlySignedAccepted == accepted # None => accepted \in Signed

(* Downloads, cache, ticker and triggered refreshes together keep the        *)
(* promise of PinnedPolicy: a policy is only ever replaced by one of signed *)
(* releases, as a whole, never emptied while the client runs, and evidence  *)
(* is accepted against the one in force at that moment.                     *)
Abstract == INSTANCE PinnedPolicy
ImplementsPinnedPolicy == Abstract!Spec

(* client.go:291-293: losing the network narrows nothing and widens nothing:*)
(* a periodic refresh that got nothing and falls back to the cache, while   *)
(* no other refresh runs, falls back to the releases already pinned.        *)
LosingTheNetworkKeepsPolicy ==
    running /\ rpc["ticker"] = "load" /\ rpc["contact"] = "idle" /\ CacheUsable
        => ~Valid(Newest(cache, Count)) \/ Newest(cache, Count) = policy

(* A Gateway that stays on one of the releases the source would pin is      *)
(* recognised again and again, whatever failed before (client.go:294-325).  *)
Current == LET newest == Newest(Listed \cap Signed, Count)
           IN  Valid(newest) /\ gateway \in newest
DeployRecognised == (<>[](running /\ Current)) => []<>(gateway \in policy)

=============================================================================
