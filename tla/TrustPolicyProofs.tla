-------------------------- MODULE TrustPolicyProofs --------------------------
(***************************************************************************)
(* Proofs about TrustPolicy for any releases, signed or not, any source    *)
(* revisions and any number of releases in a policy.                       *)
(***************************************************************************)
EXTENDS TrustPolicy, TLAPS

(* What Source has so far is signed, whichever way it came, and so is what  *)
(* is in force: the cache alone may hold anything.                          *)
SignedInv ==
    /\ \A p \in Refreshers : got[p] \subseteq Signed
    /\ policy \subseteq Signed
    /\ running => Valid(policy)
    /\ accepted # None => accepted \in Signed

IInv == TypeOK /\ SignedInv

(* Newest releases of S are releases of S.                                  *)
LEMMA NewestSubset == ASSUME NEW S, NEW n PROVE Newest(S, n) \subseteq S
BY DEF Newest

LEMMA InitIInv == Init => IInv
BY DEF Init, IInv, TypeOK, SignedInv, Refreshers

(* Every step of New, the ticker and a verification, and everything that    *)
(* happens to the cache, preserves the invariant.                           *)
LEMMA StepIInv == IInv /\ [Next]_vars => IInv'
<1> SUFFICES ASSUME IInv, [Next]_vars PROVE IInv'
  OBVIOUS
<1> USE ReleasesAssumption DEF IInv, TypeOK, SignedInv, Refreshers, Valid, world, verification
<1>1. ASSUME NEW p \in Refreshers, Refresh(p) PROVE IInv'
  <2>1. ASSUME NEW downloaded \in SUBSET Signed, Fetched(p, downloaded) PROVE IInv'
    <3>1. Newest(downloaded, Count) \subseteq Signed
      BY NewestSubset
    <3> QED
      BY <2>1, <3>1 DEF Fetched
  <2>2. CASE Fetch(p) \/ FetchPart(p)
    <3>1. Listed \cap Signed \in SUBSET Signed
      OBVIOUS
    <3> QED
      BY <2>1, <2>2, <3>1 DEF Fetch, FetchPart
  <2>3. CASE FetchFails(p)
    BY <2>3 DEF FetchFails
  <2>4. CASE Store(p)
    BY <2>4 DEF Store
  <2>5. CASE LoadCache(p)
    BY <2>5 DEF LoadCache, CacheUsable
  <2>6. CASE CacheUnusable(p)
    BY <2>6 DEF CacheUnusable, Finish, Rest, Resume
  <2>7. CASE Apply(p)
    BY <2>7 DEF Apply, Finish, Rest, Resume
  <2>8. CASE ApplyFails(p)
    BY <2>8 DEF ApplyFails, Finish, Rest, Resume
  <2> QED
    BY <1>1, <2>2, <2>3, <2>4, <2>5, <2>6, <2>7, <2>8 DEF Refresh
<1>2. ASSUME NEW p \in Refreshers, Begin(p) PROVE rpc' \in [Refreshers -> {"idle", "fetch", "store", "load", "apply"}]
  BY <1>2 DEF Begin
<1>3. CASE New
  BY <1>2, <1>3 DEF New
<1>4. CASE Ticker
  BY <1>2, <1>4 DEF Ticker
<1>5. CASE FirstContact
  BY <1>2, <1>5 DEF FirstContact
<1>6. CASE Attest
  BY <1>6 DEF Attest
<1>7. ASSUME Answer, accepted' = accepted PROVE IInv'
  BY <1>7 DEF Answer
<1>8. CASE AttestFails \/ Mismatch \/ RejectUnpinned
  BY <1>7, <1>8 DEF AttestFails, Mismatch, RejectUnpinned
<1>9. CASE Accept
  <2>1. seen \in policy
    BY <1>9 DEF Accept, Matches
  <2> QED
    BY <1>9, <2>1 DEF Accept, Answer
<1>10. CASE CoolDown
  BY <1>10 DEF CoolDown
<1>11. CASE Publish
  BY <1>11 DEF Publish
<1>12. CASE Deploy
  BY <1>12 DEF Deploy
<1>13. CASE CacheDamaged
  BY <1>13, DamageAssumption DEF CacheDamaged
<1>14. CASE Restart
  BY <1>14 DEF Restart
<1>15. CASE UNCHANGED vars
  BY <1>15 DEF vars
<1> QED
  BY <1>1, <1>3, <1>4, <1>5, <1>6, <1>8, <1>9, <1>10, <1>11, <1>12, <1>13, <1>14, <1>15 DEF Next

LEMMA Invariance == Spec => []IInv
BY InitIInv, StepIInv, PTL DEF Spec

(* Type correctness of the source, the verifier and their refreshes.        *)
THEOREM TypeCorrect == Spec => []TypeOK
<1>1. IInv => TypeOK
  BY DEF IInv
<1> QED
  BY <1>1, Invariance, PTL

(* source.go:133, verifier.go:367: a client that serves pins a valid set of *)
(* signed releases, whatever its cache file and its network do.             *)
THEOREM Trusted == Spec => []PolicyIsTrusted
<1>1. IInv => PolicyIsTrusted
  BY DEF IInv, SignedInv, PolicyIsTrusted
<1> QED
  BY <1>1, Invariance, PTL

(* verifier.go:267-334: no evidence of an unsigned build is accepted.       *)
THEOREM SignedOnly == Spec => []OnlySignedAccepted
<1>1. IInv => OnlySignedAccepted
  BY DEF IInv, SignedInv, OnlySignedAccepted
<1> QED
  BY <1>1, Invariance, PTL

-----------------------------------------------------------------------------
(***************************************************************************)
(* The refinement.  Only what a serving client started may still be under  *)
(* way: were a ticker or a verification left over from before, its policy  *)
(* would come into force behind a client that is not there.                *)
(***************************************************************************)
ServingInv == ~running => vpc = "idle" /\ rpc["ticker"] = "idle" /\ rpc["contact"] = "idle"

LEMMA InitServing == Init => ServingInv
BY DEF Init, ServingInv, Refreshers

LEMMA StepServing == IInv /\ ServingInv /\ [Next]_vars => ServingInv'
<1> SUFFICES ASSUME IInv, ServingInv, [Next]_vars PROVE ServingInv'
  OBVIOUS
<1> USE DEF IInv, TypeOK, ServingInv, Refreshers, world, verification
<1>1. ASSUME NEW p \in Refreshers, Refresh(p) PROVE ServingInv'
  <2>1. CASE Fetch(p) \/ FetchPart(p)
    BY <2>1 DEF Fetch, FetchPart, Fetched
  <2>2. CASE FetchFails(p) \/ Store(p) \/ LoadCache(p)
    BY <2>2 DEF FetchFails, Store, LoadCache
  <2>3. CASE CacheUnusable(p) \/ Apply(p) \/ ApplyFails(p)
    BY <2>3 DEF CacheUnusable, Apply, ApplyFails, Finish, Rest, Resume
  <2> QED
    BY <1>1, <2>1, <2>2, <2>3 DEF Refresh
<1>2. CASE New \/ Ticker \/ FirstContact
  BY <1>2 DEF New, Ticker, FirstContact, Begin
<1>3. CASE Attest
  BY <1>3 DEF Attest
<1>4. CASE AttestFails \/ Accept \/ Mismatch \/ RejectUnpinned
  BY <1>4 DEF AttestFails, Accept, Mismatch, RejectUnpinned, Answer
<1>5. CASE CoolDown \/ Publish \/ Deploy \/ CacheDamaged
  BY <1>5 DEF CoolDown, Publish, Deploy, CacheDamaged
<1>6. CASE Restart
  BY <1>6 DEF Restart
<1>7. CASE UNCHANGED vars
  BY <1>7 DEF vars
<1> QED
  BY <1>1, <1>2, <1>3, <1>4, <1>5, <1>6, <1>7 DEF Next

LEMMA InitPinned == Init => Abstract!Init
BY DEF Init, None, Abstract!Init, Abstract!None

(* What is applied may be pinned: signed, and valid. *)
LEMMA ValidPinnable ==
    ASSUME NEW S, Valid(S), S \subseteq Signed
    PROVE  S \in Abstract!Pinnable
<1>1. Abstract!Cardinality(S) = Cardinality(S)
  BY Zenon DEF Cardinality, Abstract!Cardinality
<1> QED
  BY <1>1 DEF Valid, Abstract!Pinnable

(* Every step is one of PinnedPolicy, or leaves what it sees alone.         *)
LEMMA StepPinned ==
    ASSUME IInv, ServingInv, [Next]_vars
    PROVE  [Abstract!Next]_(Abstract!vars)
<1> USE DEF IInv, TypeOK, world, verification
<1> DEFINE Hidden == UNCHANGED <<policy, running, accepted>>
<1>0. Hidden => [Abstract!Next]_(Abstract!vars)
  BY DEF Abstract!vars
<1>1. ASSUME NEW p \in Refreshers, Apply(p) PROVE Abstract!Next
  <2>1. policy' \in Abstract!Pinnable /\ UNCHANGED accepted
    <3>1. got[p] \in Abstract!Pinnable
      BY <1>1, ValidPinnable DEF Apply, SignedInv
    <3> QED
      BY <1>1, <3>1 DEF Apply, Finish
  <2>2. running' = (running \/ p = "start")
    BY <1>1 DEF Apply, Finish
  <2>3. CASE running
    BY <2>1, <2>2, <2>3 DEF Abstract!Next, Abstract!Replace
  <2>4. CASE ~running
    <3>1. p = "start"
      BY <1>1, <2>4 DEF Apply, ServingInv, Refreshers
    <3> QED
      BY <2>1, <2>2, <2>4, <3>1 DEF Abstract!Next, Abstract!Start
  <2> QED
    BY <2>3, <2>4
<1>2. ASSUME NEW p \in Refreshers, Refresh(p), ~Apply(p) PROVE Hidden
  <2>1. CASE Fetch(p) \/ FetchPart(p)
    BY <2>1 DEF Fetch, FetchPart, Fetched
  <2>2. CASE FetchFails(p) \/ Store(p) \/ LoadCache(p)
    BY <2>2 DEF FetchFails, Store, LoadCache
  <2>3. CASE CacheUnusable(p) \/ ApplyFails(p)
    BY <2>3 DEF CacheUnusable, ApplyFails, Finish
  <2> QED
    BY <1>2, <2>1, <2>2, <2>3 DEF Refresh
<1>3. ASSUME New \/ Ticker \/ FirstContact \/ Attest PROVE Hidden
  BY <1>3 DEF New, Ticker, FirstContact, Attest, Begin
<1>4. CASE Accept
  <2>1. seen \in policy
    BY <1>4 DEF Accept, Matches
  <2>2. running
    BY <1>4 DEF Accept, Checking, ServingInv
  <2> QED
    BY <1>4, <2>1, <2>2 DEF Accept, Answer, Abstract!Next, Abstract!Accept
<1>5. ASSUME AttestFails \/ Mismatch \/ RejectUnpinned PROVE Hidden
  BY <1>5 DEF AttestFails, Mismatch, RejectUnpinned, Answer
<1>6. ASSUME CoolDown \/ Publish \/ Deploy \/ CacheDamaged PROVE Hidden
  BY <1>6 DEF CoolDown, Publish, Deploy, CacheDamaged
<1>7. CASE Restart
  BY <1>7 DEF Restart, None, Abstract!Next, Abstract!Stop, Abstract!None
<1>8. ASSUME UNCHANGED vars PROVE Hidden
  BY <1>8 DEF vars
<1> QED
  BY <1>0, <1>1, <1>2, <1>3, <1>4, <1>5, <1>6, <1>7, <1>8 DEF Next

(* Downloads, cache, ticker and triggered refreshes together are a          *)
(* PinnedPolicy (policy_refresh.go, source.go, verifier.go): whoever shares *)
(* the policy with them may rely on that alone, as Nexus does.              *)
THEOREM PinsPolicies == Spec => ImplementsPinnedPolicy
<1>1. Spec => []ServingInv
  BY InitServing, StepServing, Invariance, PTL DEF Spec
<1>2. IInv /\ ServingInv /\ [Next]_vars => [Abstract!Next]_(Abstract!vars)
  BY StepPinned
<1> QED
  BY <1>1, <1>2, InitPinned, Invariance, PTL DEF Spec, ImplementsPinnedPolicy, Abstract!Spec

=============================================================================
