---------------------------- MODULE NexusProofs ----------------------------
(***************************************************************************)
(* Proofs about Session and about Nexus, which puts it together with the   *)
(* policy, for any set of callers, any validity window, any number of      *)
(* verifications and any set of releases.  The first half is about Session *)
(* alone.  The second shows that the session and the policy keep their     *)
(* promises together, and that what is cached, held or about to be cached  *)
(* stays vouched for by a policy however often SetPolicy replaces it.      *)
(***************************************************************************)
EXTENDS Nexus, FiniteSetTheorems, TLAPS

-----------------------------------------------------------------------------
(* Session. *)

(***************************************************************************)
(* The inductive strengthening of Session's invariants.  It says, beyond   *)
(* them, how serial numbers order the sessions that exist: while a         *)
(* verification runs every session is older than it, and outside one no    *)
(* session is newer than the last.                                         *)
(***************************************************************************)
Exists(s) == s # NoSession

(* s was made by a verification that is over, and expires in time. *)
Older(s) ==
    /\ s.begun <= verifications
    /\ mutex # NoCaller => s.begun < verifications
    /\ s.expiresAt <= s.checkedAt + MaxAge + MaxSkew

LockInv ==
    /\ \A c \in Callers : pc[c] \in {"verify", "admit"} <=> mutex = c
    /\ mutex # NoCaller => verifications > 0 /\ ~Cached
    /\ \A c \in Callers : pc[c] = "admit" =>
          /\ Exists(evidence)
          /\ evidence.begun = verifications
          /\ evidence.expiresAt <= evidence.checkedAt + MaxAge + MaxSkew

SerialInv ==
    /\ Exists(session) => Older(session) /\ session.begun \notin refused
    /\ \A c \in Callers : Exists(held[c]) =>
          /\ Older(held[c])
          /\ Exists(session) /\ session.begun = held[c].begun => session = held[c]
    /\ \A n \in refused : n <= verifications /\ (mutex # NoCaller => n < verifications)

HeldInv == \A c \in Callers :
    pc[c] \in {"exchange", "invalidate", "snapshot"} =>
        Exists(held[c]) /\ gotAt[c] < held[c].expiresAt

MarkInv == \A c \in Callers :
    /\ mark[c] <= verifications
    /\ pc[c] = "snapshot" => held[c].begun > mark[c]
    /\ op[c] = "verify" /\ pc[c] = "lock" =>
          /\ Exists(session) => session.begun > mark[c]
          /\ mutex # NoCaller => verifications > mark[c]
    /\ op[c] = "verify" /\ pc[c] \in {"verify", "admit"} => verifications > mark[c]

LedgerInv ==
    /\ LedgerAgrees
    /\ ledger.status = "verified" =>
          /\ Exists(session) => ledger.current >= session.begun
          /\ \A c \in Callers : Exists(held[c]) => ledger.current >= held[c].begun

IInv == TypeOK /\ LockInv /\ SerialInv /\ HeldInv /\ MarkInv /\ LedgerInv

(* New starts with nothing verified, whatever the ledger was opened with.   *)
LEMMA InitIInv == Init => IInv
BY CallersAssumption, AgeAssumption
   DEF Init, IInv, TypeOK, LockInv, SerialInv, HeldInv, MarkInv, LedgerInv, LedgerAgrees,
       Ops, PCs, Ledgers, Cached, Exists

(* Every step of every caller preserves the strengthened invariant. *)
LEMMA StepIInv == IInv /\ [Next]_vars => IInv'
<1> SUFFICES ASSUME IInv, [Next]_vars PROVE IInv'
  OBVIOUS
<1> USE CallersAssumption, AgeAssumption, SessionAssumption
    DEF TypeOK, Ops, PCs, Ledgers, Sessions, Goto, callVars, grantVars,
        IInv, Exists, Older, Cached, Unexpired
<1>1. ASSUME NEW c \in Callers, WarmUp(c) PROVE IInv'
  <2>1. TypeOK'
    BY <1>1 DEF WarmUp, Call, LockInv
  <2>2. LockInv'
    BY <1>1 DEF WarmUp, Call, LockInv
  <2>3. SerialInv'
    BY <1>1 DEF WarmUp, Call, LockInv, SerialInv
  <2>4. HeldInv'
    BY <1>1 DEF WarmUp, Call, HeldInv, SerialInv
  <2>5. MarkInv'
    BY <1>1 DEF WarmUp, Call, LockInv, SerialInv, MarkInv
  <2>6. LedgerInv'
    BY <1>1 DEF WarmUp, Call, LockInv, SerialInv, LedgerInv, LedgerAgrees
  <2> QED
    BY <2>1, <2>2, <2>3, <2>4, <2>5, <2>6
<1>2. ASSUME NEW c \in Callers, Do(c) PROVE IInv'
  <2>1. TypeOK'
    BY <1>2 DEF Do, Call, LockInv
  <2>2. LockInv'
    BY <1>2 DEF Do, Call, LockInv
  <2>3. SerialInv'
    BY <1>2 DEF Do, Call, LockInv, SerialInv
  <2>4. HeldInv'
    BY <1>2 DEF Do, Call, HeldInv, SerialInv
  <2>5. MarkInv'
    BY <1>2 DEF Do, Call, LockInv, SerialInv, MarkInv
  <2>6. LedgerInv'
    BY <1>2 DEF Do, Call, LockInv, SerialInv, LedgerInv, LedgerAgrees
  <2> QED
    BY <2>1, <2>2, <2>3, <2>4, <2>5, <2>6
<1>3. ASSUME NEW c \in Callers, Verify(c) PROVE IInv'
  <2>1. TypeOK'
    BY <1>3 DEF Verify, Call, LockInv
  <2>2. LockInv'
    BY <1>3 DEF Verify, Call, LockInv
  <2>3. SerialInv'
    BY <1>3 DEF Verify, Call, LockInv, SerialInv
  <2>4. HeldInv'
    BY <1>3 DEF Verify, Call, HeldInv, SerialInv
  <2>5. MarkInv'
    BY <1>3 DEF Verify, Call, LockInv, SerialInv, MarkInv
  <2>6. LedgerInv'
    BY <1>3 DEF Verify, Call, LockInv, SerialInv, LedgerInv, LedgerAgrees
  <2> QED
    BY <2>1, <2>2, <2>3, <2>4, <2>5, <2>6
<1>4. ASSUME NEW c \in Callers, Discard(c) PROVE IInv'
  <2>1. TypeOK'
    BY <1>4 DEF Discard, LockInv
  <2>2. LockInv'
    BY <1>4 DEF Discard, LockInv
  <2>3. SerialInv'
    BY <1>4 DEF Discard, LockInv, SerialInv
  <2>4. HeldInv'
    BY <1>4 DEF Discard, HeldInv, SerialInv
  <2>5. MarkInv'
    BY <1>4 DEF Discard, LockInv, SerialInv, MarkInv
  <2>6. LedgerInv'
    BY <1>4 DEF Discard, LockInv, SerialInv, LedgerInv, LedgerAgrees
  <2> QED
    BY <2>1, <2>2, <2>3, <2>4, <2>5, <2>6
<1>5. ASSUME NEW c \in Callers, UseCached(c) PROVE IInv'
  <2>1. TypeOK'
    BY <1>5 DEF UseCached, Grant, Return, LockInv
  <2>2. LockInv'
    BY <1>5 DEF UseCached, Grant, Return, LockInv
  <2>3. SerialInv'
    BY <1>5 DEF UseCached, Grant, Return, LockInv, SerialInv
  <2>4. HeldInv'
    BY <1>5 DEF UseCached, Grant, Return, HeldInv, SerialInv
  <2>5. MarkInv'
    BY <1>5 DEF UseCached, Grant, Return, LockInv, SerialInv, MarkInv
  <2>6. LedgerInv'
    BY <1>5 DEF UseCached, Grant, Return, LockInv, SerialInv, LedgerInv, LedgerAgrees
  <2> QED
    BY <2>1, <2>2, <2>3, <2>4, <2>5, <2>6
<1>6. ASSUME NEW c \in Callers, BeginVerify(c) PROVE IInv'
  <2>1. TypeOK'
    BY <1>6 DEF BeginVerify, StartVerification, LockInv
  <2>2. LockInv'
    BY <1>6 DEF BeginVerify, StartVerification, LockInv
  <2>3. SerialInv'
    BY <1>6 DEF BeginVerify, StartVerification, LockInv, SerialInv
  <2>4. HeldInv'
    BY <1>6 DEF BeginVerify, StartVerification, HeldInv, SerialInv
  <2>5. MarkInv'
    BY <1>6 DEF BeginVerify, StartVerification, LockInv, SerialInv, MarkInv
  <2>6. LedgerInv'
    BY <1>6 DEF BeginVerify, StartVerification, LockInv, SerialInv, LedgerInv, LedgerAgrees
  <2> QED
    BY <2>1, <2>2, <2>3, <2>4, <2>5, <2>6
<1>7. ASSUME NEW c \in Callers, Attest(c) PROVE IInv'
  <2>1. TypeOK'
    BY <1>7 DEF Attest, Document, LockInv
  <2>2. LockInv'
    BY <1>7 DEF Attest, Document, LockInv
  <2>3. SerialInv'
    BY <1>7 DEF Attest, Document, LockInv, SerialInv
  <2>4. HeldInv'
    BY <1>7 DEF Attest, Document, HeldInv, SerialInv
  <2>5. MarkInv'
    BY <1>7 DEF Attest, Document, LockInv, SerialInv, MarkInv
  <2>6. LedgerInv'
    BY <1>7 DEF Attest, Document, LockInv, SerialInv, LedgerInv, LedgerAgrees
  <2> QED
    BY <2>1, <2>2, <2>3, <2>4, <2>5, <2>6
<1>8. ASSUME NEW c \in Callers, VerifyFails(c) PROVE IInv'
  <2>1. TypeOK'
    BY <1>8 DEF VerifyFails, Refused, Unlock, Return, LockInv
  <2>2. LockInv'
    BY <1>8 DEF VerifyFails, Refused, Unlock, Return, LockInv
  <2>3. SerialInv'
    BY <1>8 DEF VerifyFails, Refused, Unlock, Return, LockInv, SerialInv
  <2>4. HeldInv'
    BY <1>8 DEF VerifyFails, Refused, Unlock, Return, HeldInv, SerialInv
  <2>5. MarkInv'
    BY <1>8 DEF VerifyFails, Refused, Unlock, Return, LockInv, SerialInv, MarkInv
  <2>6. LedgerInv'
    BY <1>8 DEF VerifyFails, Refused, Unlock, Return, LockInv, SerialInv, LedgerInv, LedgerAgrees
  <2> QED
    BY <2>1, <2>2, <2>3, <2>4, <2>5, <2>6
<1>9. ASSUME NEW c \in Callers, Reject(c) PROVE IInv'
  <2>1. TypeOK'
    BY <1>9 DEF Reject, Refused, Unlock, Return, LockInv
  <2>2. LockInv'
    BY <1>9 DEF Reject, Refused, Unlock, Return, LockInv
  <2>3. SerialInv'
    BY <1>9 DEF Reject, Refused, Unlock, Return, LockInv, SerialInv
  <2>4. HeldInv'
    BY <1>9 DEF Reject, Refused, Unlock, Return, HeldInv, SerialInv
  <2>5. MarkInv'
    BY <1>9 DEF Reject, Refused, Unlock, Return, LockInv, SerialInv, MarkInv
  <2>6. LedgerInv'
    BY <1>9 DEF Reject, Refused, Unlock, Return, LockInv, SerialInv, LedgerInv, LedgerAgrees
  <2> QED
    BY <2>1, <2>2, <2>3, <2>4, <2>5, <2>6
<1>10. ASSUME NEW c \in Callers, Admit(c) PROVE IInv'
  <2>1. TypeOK'
    BY <1>10 DEF Admit, Unlock, Grant, Return, LockInv
  <2>2. LockInv'
    BY <1>10 DEF Admit, Unlock, Grant, Return, LockInv
  <2>3. SerialInv'
    BY <1>10 DEF Admit, Unlock, Grant, Return, LockInv, SerialInv
  <2>4. HeldInv'
    BY <1>10 DEF Admit, Unlock, Grant, Return, LockInv, HeldInv
  <2>5. MarkInv'
    BY <1>10 DEF Admit, Unlock, Grant, Return, LockInv, SerialInv, MarkInv
  <2>6. LedgerInv'
    BY <1>10 DEF Admit, Unlock, Grant, Return, LockInv, SerialInv, LedgerInv, LedgerAgrees
  <2> QED
    BY <2>1, <2>2, <2>3, <2>4, <2>5, <2>6
<1>11. ASSUME NEW c \in Callers, ExchangeEnds(c) PROVE IInv'
  <2>1. TypeOK'
    BY <1>11 DEF ExchangeEnds, Return, LockInv
  <2>2. LockInv'
    BY <1>11 DEF ExchangeEnds, Return, LockInv
  <2>3. SerialInv'
    BY <1>11 DEF ExchangeEnds, Return, LockInv, SerialInv
  <2>4. HeldInv'
    BY <1>11 DEF ExchangeEnds, Return, HeldInv, SerialInv
  <2>5. MarkInv'
    BY <1>11 DEF ExchangeEnds, Return, LockInv, SerialInv, MarkInv
  <2>6. LedgerInv'
    BY <1>11 DEF ExchangeEnds, Return, LockInv, SerialInv, LedgerInv, LedgerAgrees
  <2> QED
    BY <2>1, <2>2, <2>3, <2>4, <2>5, <2>6
<1>12. ASSUME NEW c \in Callers, ExchangeKeyError(c) PROVE IInv'
  <2>1. TypeOK'
    BY <1>12 DEF ExchangeKeyError, LockInv
  <2>2. LockInv'
    BY <1>12 DEF ExchangeKeyError, LockInv
  <2>3. SerialInv'
    BY <1>12 DEF ExchangeKeyError, LockInv, SerialInv
  <2>4. HeldInv'
    BY <1>12 DEF ExchangeKeyError, HeldInv, SerialInv
  <2>5. MarkInv'
    BY <1>12 DEF ExchangeKeyError, LockInv, SerialInv, MarkInv
  <2>6. LedgerInv'
    BY <1>12 DEF ExchangeKeyError, LockInv, SerialInv, LedgerInv, LedgerAgrees
  <2> QED
    BY <2>1, <2>2, <2>3, <2>4, <2>5, <2>6
<1>13. ASSUME NEW c \in Callers, Invalidate(c) PROVE IInv'
  <2>1. TypeOK'
    BY <1>13 DEF Invalidate, Kept, Return, LockInv, HeldInv
  <2>2. LockInv'
    BY <1>13 DEF Invalidate, Kept, Return, LockInv
  <2>3. SerialInv'
    BY <1>13 DEF Invalidate, Kept, Return, LockInv, SerialInv, HeldInv
  <2>4. HeldInv'
    BY <1>13 DEF Invalidate, Kept, Return, HeldInv, SerialInv
  <2>5. MarkInv'
    BY <1>13 DEF Invalidate, Kept, Return, LockInv, SerialInv, MarkInv
  <2>6. LedgerInv'
    BY <1>13 DEF Invalidate, Kept, Return, LockInv, SerialInv, LedgerInv, LedgerAgrees
  <2> QED
    BY <2>1, <2>2, <2>3, <2>4, <2>5, <2>6
<1>14. ASSUME NEW c \in Callers, ReadSnapshot(c) PROVE IInv'
  <2>1. TypeOK'
    BY <1>14 DEF ReadSnapshot, Return, LockInv
  <2>2. LockInv'
    BY <1>14 DEF ReadSnapshot, Return, LockInv
  <2>3. SerialInv'
    BY <1>14 DEF ReadSnapshot, Return, LockInv, SerialInv
  <2>4. HeldInv'
    BY <1>14 DEF ReadSnapshot, Return, HeldInv, SerialInv
  <2>5. MarkInv'
    BY <1>14 DEF ReadSnapshot, Return, LockInv, SerialInv, MarkInv
  <2>6. LedgerInv'
    BY <1>14 DEF ReadSnapshot, Return, LockInv, SerialInv, LedgerInv, LedgerAgrees
  <2> QED
    BY <2>1, <2>2, <2>3, <2>4, <2>5, <2>6
<1>15. CASE Tick
  BY <1>15 DEF Tick, LockInv, SerialInv, HeldInv, MarkInv, LedgerInv, LedgerAgrees
<1>16. CASE UNCHANGED vars
  BY <1>16 DEF vars, LockInv, SerialInv, HeldInv, MarkInv, LedgerInv, LedgerAgrees
<1> QED
  BY <1>1, <1>2, <1>3, <1>4, <1>5, <1>6, <1>7, <1>8, <1>9,
     <1>10, <1>11, <1>12, <1>13, <1>14, <1>15, <1>16 DEF Next, Step

LEMMA Invariance == Spec => []IInv
<1> QED
  BY InitIInv, StepIInv, PTL DEF Spec

-----------------------------------------------------------------------------

(* Type correctness of sessionFor and its callers (client.go:88-204).       *)
THEOREM TypeCorrect == Spec => []TypeOK
<1>1. IInv => TypeOK
  BY DEF IInv
<1> QED
  BY <1>1, Invariance, PTL

(* client.go:148: verifications never overlap, and none runs while a usable *)
(* session is cached.                                                       *)
THEOREM Exclusion == Spec => []OneVerification
<1>1. IInv => OneVerification
  BY DEF IInv, LockInv, OneVerification
<1> QED
  BY <1>1, Invariance, PTL

(* root client.go:407: what Verify returns was attested after the call.     *)
THEOREM Freshness == Spec => []VerifyIsFresh
<1>1. IInv => VerifyIsFresh
  BY DEF IInv, HeldInv, MarkInv, LedgerInv, VerifyIsFresh, Exists
<1> QED
  BY <1>1, Invariance, PTL

(* client.go:151, 160: a prompt's session was unexpired when handed out and *)
(* its evidence was checked less than MaxAge + MaxSkew before.              *)
THEOREM Staleness == Spec => []BoundedStaleness
<1>1. IInv => BoundedStaleness
  <2> SUFFICES ASSUME IInv, NEW c \in Callers, pc[c] \in {"exchange", "invalidate"}
               PROVE /\ held[c] # NoSession
                     /\ gotAt[c] < held[c].expiresAt
                     /\ gotAt[c] - held[c].checkedAt < MaxAge + MaxSkew
    BY DEF BoundedStaleness
  <2>1. held[c] # NoSession /\ gotAt[c] < held[c].expiresAt
    BY DEF IInv, HeldInv, Exists
  <2>2. held[c].expiresAt <= held[c].checkedAt + MaxAge + MaxSkew
    BY <2>1 DEF IInv, SerialInv, Older, Exists
  <2>3. held[c] \in Sessions /\ gotAt[c] \in Nat
    BY <2>1 DEF IInv, TypeOK
  <2> QED
    BY <2>1, <2>2, <2>3, AgeAssumption DEF Sessions
<1> QED
  BY <1>1, Invariance, PTL

(* While a prompt can be encrypted to the cached session, the ledger's      *)
(* newest record is that session's verification.                            *)
THEOREM LedgerAgreement == Spec => []LedgerAgrees
<1>1. IInv => LedgerAgrees
  BY DEF IInv, LedgerInv
<1> QED
  BY <1>1, Invariance, PTL

(* client.go:139, 198: a session whose key the Gateway refused is never     *)
(* cached again.                                                            *)
THEOREM RefusedStaysGone == Spec => []RefusedIsGone
<1>1. IInv => RefusedIsGone
  BY DEF IInv, SerialInv, RefusedIsGone, Exists
<1> QED
  BY <1>1, Invariance, PTL

(* client.go:198-204: a late key error on an old session does not discard   *)
(* the session verified since.                                              *)
THEOREM NewerSurvives == Spec => NewerSessionSurvives
<1> DEFINE Dropped == session # NoSession /\ session' # session
           Allowed == \/ session' # NoSession /\ session'.begun > session.begun
                      \/ session.begun \in refused'
                      \/ \E c \in Callers : pc[c] = "discard" /\ pc'[c] = "lock"
<1>1. ASSUME IInv, Next, Dropped PROVE Allowed
  <2>1. CASE Tick
    BY <1>1, <2>1 DEF Tick
  <2>2. ASSUME NEW c \in Callers, Discard(c) PROVE Allowed
    BY <1>1, <2>2 DEF Discard, Goto, IInv, TypeOK
  <2>3. ASSUME NEW c \in Callers, Admit(c) PROVE Allowed
    <3>1. evidence # NoSession /\ evidence.begun = verifications /\ mutex # NoCaller
      BY <1>1, <2>3, CallersAssumption DEF Admit, Unlock, IInv, LockInv, Exists
    <3>2. session.begun < verifications
      BY <1>1, <3>1 DEF IInv, SerialInv, Older, Exists
    <3> QED
      BY <2>3, <3>1, <3>2 DEF Admit, Unlock
  <2>4. ASSUME NEW c \in Callers, Invalidate(c) PROVE Allowed
    BY <1>1, <2>4 DEF Invalidate, Kept
  <2> QED
    BY <1>1, <2>1, <2>2, <2>3, <2>4
       DEF Next, Step, WarmUp, Do, Verify, Call, UseCached, BeginVerify, StartVerification, Attest, Document, VerifyFails,
           Reject, Refused, Unlock, ExchangeEnds, ExchangeKeyError, ReadSnapshot
<1>2. IInv /\ [Next]_vars => [Dropped => Allowed]_vars
  BY <1>1 DEF vars
<1> QED
  BY <1>2, Invariance, PTL DEF Spec, NewerSessionSurvives

-----------------------------------------------------------------------------
(***************************************************************************)
(* Nexus.  Neither of its two properties is inductive.  NexusInv adds what *)
(* has to be known of a session long before a prompt is encrypted to it:   *)
(* which build it was accepted from (BuildInv, VouchedInv), that its       *)
(* evidence was checked no later than that build was dropped, and, for a   *)
(* Verify call that is under way, that every verification begun since the  *)
(* call accepted something that was pinned since the call (PinnedInv), and *)
(* that a record this process made names a build it accepted (RecordInv).  *)
(***************************************************************************)

(* The calls that may still start a verification fit under the bound. *)
RoomInv ==
    /\ IsFiniteSet(Pending)
    /\ verifications + Cardinality(Pending) <= MaxVerifications

(* The build s was accepted from was signed, and if it is not pinned now it *)
(* was dropped after the evidence had been checked.                         *)
Vouched(s) ==
    /\ s.begun \in 1..MaxVerifications
    /\ s.checkedAt <= now
    /\ build[s.begun] \in Signed
    /\ build[s.begun] \in policy \/ s.checkedAt <= droppedAt[build[s.begun]]

VouchedInv ==
    /\ Exists(session) => Vouched(session)
    /\ \A c \in Callers : Exists(held[c]) => Vouched(held[c])
    /\ \A c \in Callers : pc[c] = "admit" => Vouched(evidence)

RecordInv == ledger.current > 0 =>
    ledger.current \in 1..MaxVerifications /\ build[ledger.current] \in Signed

BuildInv == \A n \in 1..MaxVerifications : n > verifications => build[n] = 0

PinnedInv == \A c \in Callers :
    /\ op[c] = "verify" =>
          /\ policy \subseteq pinnedSince[c]
          /\ \A n \in 1..MaxVerifications :
                n > mark[c] => build[n] \in {0} \cup pinnedSince[c]
    /\ pc[c] = "snapshot" => op[c] = "verify"

NexusInv ==
    /\ IInv /\ NexusTypeOK
    /\ policy \subseteq Signed /\ now <= ClockBound
    /\ RoomInv /\ BuildInv /\ VouchedInv /\ PinnedInv /\ RecordInv

-----------------------------------------------------------------------------
(* What a step of the composition is to each of its two parts. *)

(* New and the callers of client.go take steps of Session, or none. *)
LEMMA SessionSteps == NexusNext => [Next]_vars
BY DEF NexusNext, Load, Replaced, Elapsed, Attested, Served, Next, Step

(* The verifier's policy takes steps of PinnedPolicy, or none. *)
LEMMA PolicySteps == NexusNext => [Trust!Next]_(Trust!vars)
BY DEF NexusNext, Load, Replaced, Elapsed, Attested, Served, Trust!Next, Trust!vars, trustVars

(* What a caller's step that is not an acceptance does to sessions: it      *)
(* moves them, drops them, or begins a verification.                        *)
LEMMA Moves ==
    ASSUME IInv, NEW c \in Callers, Step(c), ~(pc[c] = "verify" /\ pc'[c] = "admit")
    PROVE  /\ now' = now
           /\ verifications' \in {verifications, verifications + 1}
           /\ Exists(session') =>
                 \/ session' = session
                 \/ pc[c] = "admit" /\ session' = evidence
           /\ \A d \in Callers : Exists(held'[d]) =>
                 \/ held'[d] \in {held[d], session}
                 \/ pc[c] = "admit" /\ held'[d] = evidence
           /\ \A d \in Callers : pc'[d] = "admit" => pc[d] = "admit" /\ evidence' = evidence
           /\ \/ ledger'.current \in {ledger.current, 0}
              \/ pc[c] = "admit" /\ ledger'.current = evidence.begun
           /\ \A d \in Callers : op'[d] = "verify" =>
                 \/ op[d] = "verify" /\ mark'[d] = mark[d]
                 \/ mark'[d] = verifications
           /\ \A d \in Callers : pc'[d] = "snapshot" =>
                 \/ op'[d] = "verify"
                 \/ pc[d] = "snapshot" /\ op'[d] = op[d]
<1> USE CallersAssumption DEF IInv, TypeOK, Ops, PCs, LockInv, Exists, Goto, callVars, grantVars
<1>1. CASE WarmUp(c) \/ Do(c) \/ Verify(c)
  BY <1>1 DEF WarmUp, Do, Verify, Call
<1>2. CASE Discard(c)
  BY <1>2 DEF Discard
<1>3. CASE UseCached(c)
  BY <1>3 DEF UseCached, Cached, Grant, Return
<1>4. CASE BeginVerify(c)
  BY <1>4 DEF BeginVerify, StartVerification
<1>5. CASE Attest(c)
  BY <1>5 DEF Attest
<1>6. CASE VerifyFails(c) \/ Reject(c)
  BY <1>6 DEF VerifyFails, Reject, Refused, Unlock, Return
<1>7. CASE Admit(c)
  BY <1>7 DEF Admit, Unlock, Grant, Return
<1>8. CASE ExchangeEnds(c) \/ ExchangeKeyError(c) \/ ReadSnapshot(c)
  BY <1>8 DEF ExchangeEnds, ExchangeKeyError, ReadSnapshot, Return
<1>9. CASE Invalidate(c)
  BY <1>9 DEF Invalidate, Kept, Return
<1> HIDE DEF IInv, Exists
<1> QED
  BY <1>1, <1>2, <1>3, <1>4, <1>5, <1>6, <1>7, <1>8, <1>9 DEF Step

(* The ledger entry, the policy and the evidence of an accepted document. *)
LEMMA Accepts ==
    ASSUME IInv, NEW c \in Callers, Attested(c)
    PROVE  /\ UNCHANGED <<now, mutex, session, verifications, ledger, held, op, mark, policy>>
           /\ mutex = c /\ verifications > 0
           /\ evidence'.begun = verifications /\ evidence'.checkedAt = now
           /\ accepted' \in policy
           /\ \A d \in Callers : pc'[d] = IF d = c THEN "admit" ELSE pc[d]
BY CallersAssumption
   DEF IInv, TypeOK, PCs, LockInv, Attested, Attest, Document, Goto, callVars, grantVars, Trust!Accept

-----------------------------------------------------------------------------
(* The conjuncts of NexusInv. *)

(* Which calls may still start a verification, after a caller's step.       *)
LEMMA PendingMoves ==
    ASSUME IInv, NEW c \in Callers, Step(c)
    PROVE  \/ Room /\ c \notin Pending /\ Pending' = Pending \cup {c} /\ verifications' = verifications
           \/ Pending' = Pending /\ verifications' = verifications
           \/ /\ c \in Pending /\ Pending' = Pending \ {c}
              /\ verifications' \in {verifications, verifications + 1}
<1> USE DEF IInv, TypeOK, PCs, Pending, Goto, callVars, grantVars
<1>1. CASE WarmUp(c) \/ Do(c) \/ Verify(c)
  BY <1>1 DEF WarmUp, Do, Verify, Call
<1>2. CASE Discard(c)
  BY <1>2 DEF Discard
<1>3. CASE UseCached(c)
  BY <1>3 DEF UseCached, Grant, Return
<1>4. CASE BeginVerify(c)
  BY <1>4 DEF BeginVerify, StartVerification
<1>5. CASE Attest(c)
  BY <1>5 DEF Attest
<1>6. CASE VerifyFails(c) \/ Reject(c)
  BY <1>6 DEF VerifyFails, Reject, Refused, Return
<1>7. CASE Admit(c)
  BY <1>7 DEF Admit, Grant, Return
<1>8. CASE ExchangeEnds(c) \/ ExchangeKeyError(c) \/ ReadSnapshot(c) \/ Invalidate(c)
  BY <1>8 DEF ExchangeEnds, ExchangeKeyError, ReadSnapshot, Invalidate, Return
<1> HIDE DEF IInv, Pending
<1> QED
  BY <1>1, <1>2, <1>3, <1>4, <1>5, <1>6, <1>7, <1>8 DEF Step

(* Every verification that is begun has a serial number within the bound.   *)
LEMMA StepRoom == IInv /\ RoomInv /\ [Next]_vars => RoomInv'
<1> SUFFICES ASSUME IInv, RoomInv, [Next]_vars PROVE RoomInv'
  OBVIOUS
<1>1. Cardinality(Pending) \in Nat /\ verifications \in Nat
  BY FS_CardinalityType DEF RoomInv, IInv, TypeOK
<1>2. CASE Pending' = Pending /\ verifications' = verifications
  BY <1>2 DEF RoomInv
<1>3. ASSUME NEW c \in Callers, Step(c) PROVE RoomInv'
  <2>1. CASE Room /\ c \notin Pending /\ Pending' = Pending \cup {c} /\ verifications' = verifications
    <3>1. /\ IsFiniteSet(Pending \cup {c})
          /\ Cardinality(Pending \cup {c}) = Cardinality(Pending) + 1
      BY <2>1, FS_AddElement DEF RoomInv
    <3> QED
      BY <2>1, <3>1, <1>1, BoundAssumption DEF RoomInv, Room
  <2>2. CASE /\ c \in Pending /\ Pending' = Pending \ {c}
             /\ verifications' \in {verifications, verifications + 1}
    <3>1. /\ IsFiniteSet(Pending \ {c})
          /\ Cardinality(Pending \ {c}) = Cardinality(Pending) - 1
      BY <2>2, FS_RemoveElement DEF RoomInv
    <3> QED
      BY <2>2, <3>1, <1>1, BoundAssumption DEF RoomInv
  <2> QED
    BY <1>2, <1>3, <2>1, <2>2, PendingMoves
<1>4. CASE Tick \/ UNCHANGED vars
  BY <1>2, <1>4 DEF Tick, vars, Pending
<1> QED
  BY <1>3, <1>4 DEF Next

(* Replacing the policy takes nothing away from a session: the releases it  *)
(* drops are dropped now, when the evidence has long been checked.          *)
LEMMA VouchedStays ==
    ASSUME NexusInv, NEW s, s \in Sessions, Vouched(s), Observe,
           now' \in Nat, now <= now', build'[s.begun] = build[s.begun]
    PROVE  Vouched(s)'
<1> DEFINE b == build[s.begun]
<1>1. b \in Signed /\ b \in Releases
  BY BuildsAssumption DEF Vouched
<1>2. now \in Nat /\ s.checkedAt \in Nat
  BY DEF NexusInv, IInv, TypeOK, Sessions
<1>3. droppedAt'[b] = IF b \in policy /\ b \notin policy' THEN now ELSE droppedAt[b]
  BY <1>1 DEF Observe
<1>4. b \in policy' \/ s.checkedAt <= droppedAt'[b]
  BY <1>2, <1>3 DEF Vouched
<1> QED
  BY <1>1, <1>2, <1>4 DEF Vouched

(* Nothing is cached, held or pinned before New has loaded a policy. *)
LEMMA InitNexus == NexusInit => NexusInv
<1> SUFFICES ASSUME NexusInit PROVE NexusInv
  OBVIOUS
<1>1. IInv
  BY InitIInv DEF NexusInit
<1>2. NexusTypeOK /\ policy \subseteq Signed /\ now <= ClockBound
  <2>1. TypeOK /\ policy = {} /\ running \in BOOLEAN /\ accepted = 0 /\ now = 0
    BY <1>1 DEF NexusInit, Init, Trust!Init, Trust!None, IInv
  <2>2. droppedAt \in [Releases -> 0..ClockBound]
    BY BoundAssumption DEF NexusInit
  <2>3. build \in [1..MaxVerifications -> Releases \cup {0}]
    BY DEF NexusInit
  <2>4. pinnedSince \in [Callers -> SUBSET Releases]
    BY DEF NexusInit
  <2> QED
    BY <2>1, <2>2, <2>3, <2>4, BoundAssumption DEF NexusTypeOK
<1>3. RoomInv
  <2>1. Pending = {}
    BY DEF NexusInit, Init, Pending
  <2> QED
    BY <2>1, FS_EmptySet, BoundAssumption DEF NexusInit, Init, RoomInv
<1>4. BuildInv /\ VouchedInv /\ PinnedInv /\ RecordInv
  BY DEF NexusInit, Init, BuildInv, VouchedInv, PinnedInv, RecordInv, Exists
<1> QED
  BY <1>1, <1>2, <1>3, <1>4 DEF NexusInv

LEMMA StepNexus == NexusInv /\ [NexusNext]_<<vars, trustVars, traceVars>> => NexusInv'
<1> SUFFICES ASSUME NexusInv, [NexusNext]_<<vars, trustVars, traceVars>> PROVE NexusInv'
  OBVIOUS
<1> USE DEF NexusInv
<1>1. CASE UNCHANGED <<vars, trustVars, traceVars>>
  BY <1>1 DEF vars, trustVars, traceVars, IInv, NexusTypeOK, TypeOK, LockInv, SerialInv, HeldInv,
              MarkInv, LedgerInv, LedgerAgrees, Cached, Unexpired, Older, RoomInv, Pending, Room,
              BuildInv, VouchedInv, Vouched, PinnedInv, RecordInv
<1> SUFFICES ASSUME NexusNext PROVE NexusInv'
  BY <1>1
<1>2. IInv' /\ RoomInv'
  BY SessionSteps, StepIInv, StepRoom
<1>3. Observe
  BY DEF NexusNext, Load, Replaced, Elapsed, Attested, Served
<1>4. policy' \subseteq Signed /\ now' \in Nat /\ now <= now' /\ now' <= ClockBound
  <2>1. now \in Nat
    BY DEF IInv, TypeOK
  <2>2. CASE Load \/ Replaced
    BY <2>1, <2>2 DEF Load, Replaced, Trust!Start, Trust!Replace, Trust!Pinnable, vars
  <2>3. CASE Elapsed
    BY <2>1, <2>3, BoundAssumption DEF Elapsed, Tick, trustVars
  <2>4. ASSUME NEW c \in Callers, Attested(c) PROVE now' = now /\ policy' = policy
    BY <2>4, Accepts
  <2>5. ASSUME NEW c \in Callers, Served(c) PROVE now' = now /\ policy' = policy
    BY <2>5, Moves DEF Served, trustVars
  <2> QED
    BY <2>1, <2>2, <2>3, <2>4, <2>5 DEF NexusNext
<1>5. NexusTypeOK'
  <2>1. TypeOK' /\ running' \in BOOLEAN /\ accepted' \in Releases \cup {0}
    BY <1>2, BuildsAssumption, PolicySteps
       DEF IInv, NexusTypeOK, Trust!Next, Trust!Start, Trust!Replace, Trust!Accept, Trust!Stop,
           Trust!None, Trust!vars
  <2>2. build' \in [1..MaxVerifications -> Releases \cup {0}]
    BY <2>1 DEF NexusNext, Load, Replaced, Elapsed, Attested, Served, NexusTypeOK
  <2>3. droppedAt' \in [Releases -> 0..ClockBound]
    <3>1. now \in 0..ClockBound
      BY BoundAssumption DEF IInv, TypeOK
    <3> QED
      BY <3>1, <1>3 DEF Observe, NexusTypeOK
  <2>4. pinnedSince' \in [Callers -> SUBSET Releases]
    BY <1>3, <1>4, BuildsAssumption DEF Observe, NexusTypeOK
  <2> QED
    BY <1>4, <2>1, <2>2, <2>3, <2>4, BuildsAssumption DEF NexusTypeOK
<1>6. BuildInv'
  <2>1. ASSUME NEW c \in Callers, Served(c) PROVE BuildInv'
    BY <2>1, Moves DEF Served, BuildInv, IInv, TypeOK
  <2>2. ASSUME NEW c \in Callers, Attested(c) PROVE BuildInv'
    BY <2>2, Accepts DEF Attested, BuildInv, IInv, TypeOK, NexusTypeOK
  <2>3. CASE Load \/ Replaced \/ Elapsed
    BY <2>3 DEF Load, Replaced, Elapsed, Tick, vars, BuildInv
  <2> QED
    BY <2>1, <2>2, <2>3 DEF NexusNext
<1>7. VouchedInv'
  <2> DEFINE Safe(s) == s \in Sessions /\ Vouched(s) /\ build'[s.begun] = build[s.begun]
  <2>1. ASSUME NEW s, Safe(s) PROVE Vouched(s)'
    BY <2>1, <1>3, <1>4, VouchedStays
  <2>2. /\ Exists(session) => session \in Sessions /\ Vouched(session)
        /\ \A c \in Callers : Exists(held[c]) => held[c] \in Sessions /\ Vouched(held[c])
        /\ \A c \in Callers : pc[c] = "admit" => evidence \in Sessions /\ Vouched(evidence)
    BY DEF VouchedInv, IInv, TypeOK, LockInv, Exists
  <2> HIDE DEF NexusInv
  <2>3. CASE Load \/ Replaced \/ Elapsed
    <3>1. UNCHANGED <<session, held, pc, evidence, build>>
      BY <2>3 DEF Load, Replaced, Elapsed, Tick, vars, grantVars
    <3> QED
      BY <3>1, <2>1, <2>2 DEF VouchedInv, Exists
  <2>4. ASSUME NEW c \in Callers, Served(c) PROVE VouchedInv'
    <3>1. IInv /\ Step(c) /\ ~(pc[c] = "verify" /\ pc'[c] = "admit") /\ build' = build
      BY <2>4 DEF Served, NexusInv
    <3>2. Exists(session)' => Vouched(session)'
      BY <3>1, <2>1, <2>2, Moves DEF Exists, Vouched
    <3>3. ASSUME NEW d \in Callers, Exists(held[d])' PROVE Vouched(held[d])'
      BY <3>1, <3>3, <2>1, <2>2, Moves DEF Exists, Vouched
    <3>4. ASSUME NEW d \in Callers, pc'[d] = "admit" PROVE Vouched(evidence)'
      BY <3>1, <3>4, <2>1, <2>2, Moves DEF Exists, Vouched
    <3> QED
      BY <3>2, <3>3, <3>4 DEF VouchedInv
  <2>5. ASSUME NEW c \in Callers, Attested(c) PROVE VouchedInv'
    <3>1. /\ UNCHANGED <<now, session, held>> /\ mutex = c
          /\ verifications \in 1..MaxVerifications
          /\ evidence'.begun = verifications /\ evidence'.checkedAt = now
          /\ accepted' \in policy /\ policy' = policy
      <4>1. verifications <= MaxVerifications
        BY FS_CardinalityType, BoundAssumption DEF NexusInv, RoomInv, IInv, TypeOK
      <4> QED
        BY <4>1, <2>5, Accepts DEF NexusInv, IInv, TypeOK
    <3>2. /\ \A d \in Callers : pc'[d] = "admit" => d = c
          /\ \A n \in 1..MaxVerifications :
                build'[n] = IF n = verifications THEN accepted' ELSE build[n]
      BY <2>5, <3>1, Accepts, CallersAssumption DEF Attested, NexusInv, IInv, LockInv, NexusTypeOK
    <3>3. /\ Exists(session) => session.begun < verifications
          /\ \A d \in Callers : Exists(held[d]) => held[d].begun < verifications
      BY <3>1, CallersAssumption DEF NexusInv, IInv, SerialInv, Older
    <3>4. Exists(session)' => Vouched(session)'
      BY <3>1, <3>2, <3>3, <2>1, <2>2 DEF Exists, Vouched, Sessions
    <3>5. ASSUME NEW d \in Callers, Exists(held[d])' PROVE Vouched(held[d])'
      BY <3>1, <3>2, <3>3, <3>5, <2>1, <2>2 DEF Exists, Vouched, Sessions
    <3>6. Vouched(evidence)'
      BY <3>1, <3>2 DEF Vouched, NexusInv, IInv, TypeOK
    <3> QED
      BY <3>4, <3>5, <3>6 DEF VouchedInv
  <2> QED
    BY <2>3, <2>4, <2>5 DEF NexusNext
<1>8. PinnedInv'
  <2>1. /\ \A c \in Callers : op'[c] = "verify" => pinnedSince'[c] = pinnedSince[c] \cup policy'
        /\ policy \subseteq Releases
    BY <1>3 DEF Observe, NexusTypeOK
  <2>2. CASE Load \/ Replaced \/ Elapsed
    BY <2>1, <2>2 DEF Load, Replaced, Elapsed, Tick, vars, callVars, PinnedInv
  <2>3. ASSUME NEW c \in Callers, Served(c) PROVE PinnedInv'
    <3>1. Step(c) /\ ~(pc[c] = "verify" /\ pc'[c] = "admit") /\ UNCHANGED <<build, policy>>
      BY <2>3 DEF Served, trustVars
    <3>2. ASSUME NEW d \in Callers, op'[d] = "verify", NEW n \in 1..MaxVerifications, n > mark'[d]
          PROVE  build'[n] \in {0} \cup pinnedSince'[d]
      <4>1. CASE op[d] = "verify" /\ mark'[d] = mark[d]
        BY <4>1, <3>1, <3>2, <2>1 DEF PinnedInv
      <4>2. CASE mark'[d] = verifications
        BY <4>2, <3>1, <3>2 DEF BuildInv
      <4> QED
        BY <4>1, <4>2, <3>1, <3>2, Moves
    <3>3. ASSUME NEW d \in Callers, pc'[d] = "snapshot" PROVE op'[d] = "verify"
      BY <3>1, <3>3, Moves DEF PinnedInv
    <3> QED
      BY <3>2, <3>3, <2>1 DEF PinnedInv
  <2>4. ASSUME NEW c \in Callers, Attested(c) PROVE PinnedInv'
    <3>1. /\ UNCHANGED <<op, mark, policy>> /\ accepted' \in policy
          /\ \A d \in Callers : pc'[d] = "snapshot" => pc[d] = "snapshot"
          /\ \A n \in 1..MaxVerifications : build'[n] \in {build[n], accepted'}
      BY <2>4, Accepts DEF Attested, NexusTypeOK
    <3> QED
      BY <3>1, <2>1 DEF PinnedInv
  <2> QED
    BY <2>2, <2>3, <2>4 DEF NexusNext
<1>9. RecordInv'
  <2>1. CASE Load \/ Replaced \/ Elapsed
    BY <2>1 DEF Load, Replaced, Elapsed, Tick, vars, RecordInv
  <2>2. ASSUME NEW c \in Callers, Served(c) PROVE RecordInv'
    <3>1. Step(c) /\ ~(pc[c] = "verify" /\ pc'[c] = "admit") /\ UNCHANGED build
      BY <2>2 DEF Served
    <3>2. CASE ledger'.current \in {ledger.current, 0}
      BY <3>1, <3>2 DEF RecordInv
    <3>3. CASE pc[c] = "admit" /\ ledger'.current = evidence.begun
      <4>1. evidence.begun \in 1..MaxVerifications /\ build[evidence.begun] \in Signed
        BY <3>3 DEF VouchedInv, Vouched
      <4> QED
        BY <3>1, <3>3, <4>1 DEF RecordInv
    <3> QED
      BY <3>1, <3>2, <3>3, Moves
  <2>3. ASSUME NEW c \in Callers, Attested(c) PROVE RecordInv'
    <3>1. /\ UNCHANGED ledger /\ accepted' \in policy
          /\ \A n \in 1..MaxVerifications : build'[n] \in {build[n], accepted'}
      BY <2>3, Accepts DEF Attested, NexusTypeOK
    <3> QED
      BY <3>1 DEF RecordInv
  <2> QED
    BY <2>1, <2>2, <2>3 DEF NexusNext
<1> QED
  BY <1>2, <1>4, <1>5, <1>6, <1>7, <1>8, <1>9

LEMMA NexusInvariance == NexusSpec => []NexusInv
BY InitNexus, StepNexus, PTL DEF NexusSpec

-----------------------------------------------------------------------------

(* Type correctness of the client and the policy it verifies against.       *)
THEOREM NexusTypes == NexusSpec => []NexusTypeOK
<1>1. NexusInv => NexusTypeOK
  BY DEF NexusInv
<1> QED
  BY <1>1, NexusInvariance, PTL

(* verifier.go:360-376: a prompt encrypted to a build that is pinned no     *)
(* more was given its session less than MaxAge + MaxSkew after the drop.    *)
THEOREM TrustOutlives == NexusSpec => []TrustOutlivesBriefly
<1>1. NexusInv => TrustOutlivesBriefly
  <2> SUFFICES ASSUME NexusInv, NEW c \in Callers, pc[c] \in {"exchange", "invalidate"},
                      NEW b, b = build[held[c].begun]
               PROVE  /\ b \in Signed
                      /\ b \notin policy => gotAt[c] - droppedAt[b] < MaxAge + MaxSkew
    BY DEF TrustOutlivesBriefly
  <2>1. Exists(held[c]) /\ gotAt[c] < held[c].expiresAt
    BY DEF NexusInv, IInv, HeldInv
  <2>2. held[c].expiresAt <= held[c].checkedAt + MaxAge + MaxSkew
    BY <2>1 DEF NexusInv, IInv, SerialInv, Older
  <2>3. b \in Signed /\ (b \in policy \/ held[c].checkedAt <= droppedAt[b])
    BY <2>1 DEF NexusInv, VouchedInv, Vouched
  <2>4. /\ held[c].checkedAt \in Nat /\ held[c].expiresAt \in Int /\ gotAt[c] \in Nat
        /\ droppedAt[b] \in Nat
    BY <2>1, <2>3, BuildsAssumption, BoundAssumption
       DEF NexusInv, IInv, TypeOK, NexusTypeOK, Exists, Sessions
  <2> QED
    BY <2>1, <2>2, <2>3, <2>4, AgeAssumption
<1> QED
  BY <1>1, NexusInvariance, PTL

(* root client.go:404-424: the build behind the record Verify answers with, *)
(* its own or one another caller made since, was pinned at some moment of   *)
(* the call.                                                                *)
THEOREM VerifyFollows == NexusSpec => []VerifyFollowsPolicy
<1>1. NexusInv => VerifyFollowsPolicy
  <2> SUFFICES ASSUME NexusInv, NEW c \in Callers, pc[c] = "snapshot", ledger.status = "verified"
               PROVE  build[ledger.current] \in pinnedSince[c]
    BY DEF VerifyFollowsPolicy
  <2>1. Exists(held[c]) /\ held[c].begun > mark[c] /\ op[c] = "verify"
    BY DEF NexusInv, IInv, HeldInv, MarkInv, PinnedInv
  <2>2. ledger.current >= held[c].begun
    BY <2>1 DEF NexusInv, IInv, LedgerInv
  <2>3. ledger.current > mark[c] /\ ledger.current > 0
    BY <2>1, <2>2 DEF NexusInv, IInv, TypeOK, Exists, Sessions, Ledgers
  <2>4. /\ ledger.current \in 1..MaxVerifications /\ build[ledger.current] \in Signed
        /\ build[ledger.current] # 0
    BY <2>3, BuildsAssumption DEF NexusInv, RecordInv
  <2> QED
    BY <2>1, <2>3, <2>4 DEF NexusInv, PinnedInv
<1> QED
  BY <1>1, NexusInvariance, PTL

(* Putting the parts together takes nothing away from either: everything    *)
(* proved of Session and everything PinnedPolicy promises holds of the      *)
(* client of client.go:128-235.                                             *)
THEOREM Composition == NexusSpec => Spec /\ Trust!Spec
<1>1. NexusInit => Init /\ Trust!Init
  BY DEF NexusInit
<1>2. [NexusNext]_<<vars, trustVars, traceVars>> => [Next]_vars
  BY SessionSteps
<1>3. [NexusNext]_<<vars, trustVars, traceVars>> => [Trust!Next]_(Trust!vars)
  BY PolicySteps DEF Trust!vars, trustVars
<1> QED
  BY <1>1, <1>2, <1>3, PTL DEF NexusSpec, Spec, Trust!Spec

=============================================================================
