---------------------------- MODULE PinnedPolicy ----------------------------
(***************************************************************************)
(* What the parts that follow signed releases promise to the ones that     *)
(* verify the Gateway (client.go:71-73, verifier.go:114-117, 360-362):     *)
(* while the client runs there is always one coherent policy in force, it  *)
(* pins nothing that was not signed, it is replaced as a whole, and        *)
(* evidence is accepted only from a build it pins at that moment.  Where   *)
(* policies come from, and when, is left to the implementation.            *)
(***************************************************************************)
EXTENDS Integers, FiniteSets

CONSTANTS Releases, Revision, Signed, MaxPolicyReleases

None == 0

VARIABLES
    policy,     \* the builds pinned, {} before there is a verifier
    running,    \* there is a verifier
    accepted    \* the build of the last accepted evidence

vars == <<policy, running, accepted>>

(* The policies that may come into force. *)
Pinnable == {S \in SUBSET Signed :
    /\ S # {}
    /\ Cardinality(S) <= MaxPolicyReleases
    /\ \A q, r \in S : Revision[q] = Revision[r] => q = r}

Init == policy = {} /\ running = FALSE /\ accepted = None

Start ==
    /\ ~running /\ running' = TRUE
    /\ policy' \in Pinnable
    /\ UNCHANGED accepted

Replace ==
    /\ running
    /\ policy' \in Pinnable
    /\ UNCHANGED <<running, accepted>>

Accept ==
    /\ running
    /\ accepted' \in policy
    /\ UNCHANGED <<policy, running>>

Stop ==
    /\ running' = FALSE /\ policy' = {} /\ accepted' = None

Next == Start \/ Replace \/ Accept \/ Stop

Spec == Init /\ [][Next]_vars

=============================================================================
