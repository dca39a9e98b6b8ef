------------------------------- MODULE Nexus -------------------------------
(***************************************************************************)
(* One Client as client.go:128-235 puts it together: callers share a       *)
(* verified session (Session), and the verifier behind it accepts evidence *)
(* against a trust policy that is replaced while they run (PinnedPolicy,   *)
(* which TrustPolicy implements).  What is modelled here and in neither is *)
(* the order the two parts meet in: a verification reads the policy once,  *)
(* after the Gateway has answered; the session it makes is cached without  *)
(* the policy it was accepted under; SetPolicy does not touch the session. *)
(***************************************************************************)
EXTENDS Session

CONSTANTS Releases, Revision, Signed, MaxPolicyReleases

ASSUME BuildsAssumption ==
    Releases \subseteq Nat \ {0} /\ IsFiniteSet(Releases) /\ Signed \subseteq Releases
ASSUME BuildRevisionAssumption == DOMAIN Revision = Releases

VARIABLES
    policy, running, accepted,  \* as in PinnedPolicy
    build,          \* history: the build each verification accepted, or 0
    droppedAt,      \* history: clock reading when a release last left the policy
    pinnedSince     \* history: builds pinned at some time during a Verify call

Trust == INSTANCE PinnedPolicy

trustVars == <<policy, running, accepted>>
traceVars == <<build, droppedAt, pinnedSince>>

NexusTypeOK ==
    /\ TypeOK
    /\ policy \subseteq Releases /\ running \in BOOLEAN
    /\ accepted \in Releases \cup {0}
    /\ build \in [1..MaxVerifications -> Releases \cup {0}]
    /\ droppedAt \in [Releases -> 0..ClockBound]
    /\ pinnedSince \in [Callers -> SUBSET Releases]

NexusInit ==
    /\ Init /\ Trust!Init
    /\ build = [v \in 1..MaxVerifications |-> 0]
    /\ droppedAt = [r \in Releases |-> 0]
    /\ pinnedSince = [c \in Callers |-> {}]

(* The histories: when releases left the policy, and what has been pinned   *)
(* during each Verify call that is not over.                                *)
Observe ==
    /\ droppedAt' = [r \in Releases |-> IF r \in policy \ policy' THEN now ELSE droppedAt[r]]
    /\ pinnedSince' = [c \in Callers |->
          IF op'[c] = "verify" THEN pinnedSince[c] \cup policy' ELSE {}]

(* New derives or loads a policy and gives it to NewVerifier; a policy file *)
(* comes into force the same way and is never replaced.                     *)
Load ==
    /\ phase = "new" /\ Trust!Start
    /\ UNCHANGED <<vars, build>>
    /\ Observe

(* Verifier.Verify inside sessionFor: validate reads the policy once, after *)
(* the answer, and the evidence it accepts is what a session is made of.    *)
Attested(c) ==
    /\ Attest(c)
    /\ Trust!Accept
    /\ build' = [build EXCEPT ![verifications] = accepted']
    /\ Observe

Served(c) ==
    /\ Step(c) /\ ~(pc[c] = "verify" /\ pc'[c] = "admit")
    /\ phase = "new" => running
    /\ UNCHANGED <<trustVars, build>>
    /\ Observe

(* SetPolicy: by the ticker, which New starts last, or by a verification    *)
(* that met a release it did not know, under Client.mu.                     *)
Replaced ==
    /\ phase = "open" \/ mutex # NoCaller
    /\ Trust!Replace
    /\ UNCHANGED <<vars, build>>
    /\ Observe

Elapsed == Tick /\ UNCHANGED <<trustVars, build>> /\ Observe

NexusNext == Load \/ Replaced \/ Elapsed \/ \E c \in Callers : Attested(c) \/ Served(c)

NexusSpec == NexusInit /\ [][NexusNext]_<<vars, trustVars, traceVars>>

-----------------------------------------------------------------------------
(* Properties. *)

(* SetPolicy leaves the cached session alone (verifier.go:363-376), so a    *)
(* prompt may be given a session of a build that is no longer pinned: but   *)
(* only of one that was signed, and it is only handed out for less than the *)
(* validity of a document after the release was dropped.  How long the      *)
(* prompt then waits before it is encrypted, nothing in the code bounds.    *)
TrustOutlivesBriefly == \A c \in Callers :
    pc[c] \in {"exchange", "invalidate"} =>
        LET b == build[held[c].begun]
        IN  /\ b \in Signed
            /\ b \notin policy => gotAt[c] - droppedAt[b] < MaxAge + MaxSkew

(* Verify (root client.go:404-424) throws its session away and answers with *)
(* the ledger's newest record, which another caller may have made since, or *)
(* not at all if that record is a rejection.  Whosever record it is, its    *)
(* build was pinned at some moment of this call, though refreshes may have  *)
(* replaced the policy any number of times.                                 *)
VerifyFollowsPolicy == \A c \in Callers :
    pc[c] = "snapshot" /\ ledger.status = "verified" =>
        build[ledger.current] \in pinnedSince[c]

=============================================================================
