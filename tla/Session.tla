------------------------------ MODULE Session ------------------------------
(***************************************************************************)
(* The verified session of internal/confidential/client.go and the SDK     *)
(* calls that use it.  A Client caches one session derived from attestation*)
(* evidence.  sessionFor hands out the cached session while it is valid    *)
(* and otherwise runs a whole verification, network exchange included,     *)
(* under the client's mutex.  Callers are goroutines: New's WarmUp, any    *)
(* number of Do calls (prompts) and Verify calls, in any interleaving.     *)
(*                                                                         *)
(* A session is a pointer in the code; here it is told apart by `begun`,   *)
(* the serial number of the verification that made it.  The network and    *)
(* the Gateway are the choices of Attest, VerifyFails and Exchange*.       *)
(***************************************************************************)
EXTENDS Integers, FiniteSets

CONSTANTS
    Callers,            \* goroutines that call the SDK
    NoCaller, NoSession, \* nil mutex owner and nil *verifiedSession
    MaxAge,             \* maximumDocumentAge, in clock ticks
    MaxSkew,            \* maximumClockSkew, in clock ticks
    ClockBound,         \* bound: the last clock reading
    MaxVerifications    \* bound: verifications a behaviour may start

ASSUME CallersAssumption == NoCaller \notin Callers
ASSUME AgeAssumption == MaxAge \in Nat \ {0} /\ MaxSkew \in Nat
ASSUME BoundAssumption == ClockBound \in Nat /\ MaxVerifications \in Nat

Sessions == [begun : Nat \ {0}, checkedAt : Nat, expiresAt : Int]

ASSUME SessionAssumption == NoSession \notin Sessions

VARIABLES
    now,            \* the wall clock
    mutex,          \* who holds Client.mu, or NoCaller
    session,        \* Client.session
    evidence,       \* what the lock holder's Verify returned
    verifications,  \* serial of the last verification started
    ledger,         \* status and current record, as Ledger.Snapshot gives them
    phase,          \* how far New has come
    pc,             \* where each caller is
    op,             \* the call each caller is making
    held,           \* the session each caller took out of sessionFor
    gotAt,          \* history: clock reading at which `held` was checked
    mark,           \* history: `verifications` when the call began
    refused         \* history: sessions an Invalidate has dealt with

vars == <<now, mutex, session, evidence, verifications, ledger, phase,
          pc, op, held, gotAt, mark, refused>>
callVars == <<op, mark>>
grantVars == <<held, gotAt>>

Ops == {"warmup", "do", "verify"}
PCs == {"idle", "discard", "lock", "verify", "admit", "exchange",
        "invalidate", "snapshot"}
Ledgers == [status : {"starting", "verified", "rejected"}, current : Nat]

TypeOK ==
    /\ now \in Nat
    /\ mutex \in Callers \cup {NoCaller}
    /\ session \in Sessions \cup {NoSession}
    /\ evidence \in Sessions \cup {NoSession}
    /\ verifications \in Nat
    /\ ledger \in Ledgers
    /\ phase \in {"new", "starting", "open", "failed"}
    /\ pc \in [Callers -> PCs]
    /\ op \in [Callers -> Ops]
    /\ held \in [Callers -> Sessions \cup {NoSession}]
    /\ gotAt \in [Callers -> Nat]
    /\ mark \in [Callers -> Nat]
    /\ refused \subseteq Nat

(***************************************************************************)
(* The ledger New opens may come from a state file, so its newest record   *)
(* can be a verification or a rejection of an earlier process (serial 0).  *)
(***************************************************************************)
Init ==
    /\ now = 0
    /\ mutex = NoCaller
    /\ session = NoSession
    /\ evidence = NoSession
    /\ verifications = 0
    /\ ledger \in [status : {"starting", "verified", "rejected"}, current : {0}]
    /\ phase = "new"
    /\ pc = [c \in Callers |-> "idle"]
    /\ op = [c \in Callers |-> "warmup"]
    /\ held = [c \in Callers |-> NoSession]
    /\ gotAt = [c \in Callers |-> 0]
    /\ mark = [c \in Callers |-> 0]
    /\ refused = {}

Goto(c, label) == pc' = [pc EXCEPT ![c] = label]

(* The call is over and its locals are gone. *)
Return(c) ==
    /\ Goto(c, "idle")
    /\ op' = [op EXCEPT ![c] = "warmup"]
    /\ mark' = [mark EXCEPT ![c] = 0]
    /\ held' = [held EXCEPT ![c] = NoSession]
    /\ gotAt' = [gotAt EXCEPT ![c] = 0]

(* Mutant: a session may still be used in the instant it expires. *)
UnexpiredInclusive(s) == now <= s.expiresAt

(* c.session != nil && c.now().Before(c.session.expiresAt) *)
Unexpired(s) == now < s.expiresAt
Cached == session # NoSession /\ Unexpired(session)

(* Calls not yet past the point where they may start a verification. *)
Pending == {c \in Callers : pc[c] \in {"discard", "lock"}}
Room == verifications + Cardinality(Pending) < MaxVerifications

-----------------------------------------------------------------------------
(* The calls of the SDK. *)

Call(c, name, label) ==
    /\ pc[c] = "idle"
    /\ Room
    /\ op' = [op EXCEPT ![c] = name]
    /\ mark' = [mark EXCEPT ![c] = verifications]
    /\ Goto(c, label)
    /\ UNCHANGED <<now, mutex, session, evidence, verifications, ledger, grantVars, refused>>

(* New: no other call exists until it has returned. *)
WarmUp(c) ==
    /\ phase = "new"
    /\ phase' = "starting"
    /\ Call(c, "warmup", "lock")

Do(c) == phase = "open" /\ Call(c, "do", "lock") /\ UNCHANGED phase

Verify(c) == phase = "open" /\ Call(c, "verify", "discard") /\ UNCHANGED phase

(* Mutant: Reverify clears the session without taking the lock. *)
DiscardUnlocked(c) ==
    /\ pc[c] = "discard"
    /\ session' = NoSession
    /\ Goto(c, "lock")
    /\ UNCHANGED <<now, mutex, evidence, verifications, ledger, phase, callVars, grantVars, refused>>

(* Reverify's first critical section: lock, session = nil, unlock. *)
Discard(c) ==
    /\ pc[c] = "discard"
    /\ mutex = NoCaller
    /\ session' = NoSession
    /\ Goto(c, "lock")
    /\ UNCHANGED <<now, mutex, evidence, verifications, ledger, phase, callVars, grantVars, refused>>

-----------------------------------------------------------------------------
(* sessionFor. *)

(* sessionFor returns s: WarmUp, and New with it, is over; Do goes on to    *)
(* the wire; Verify goes on to read the ledger's snapshot.                  *)
Grant(c, s) ==
    \/ /\ op[c] = "warmup"
       /\ phase' = "open"
       /\ Return(c)
    \/ /\ op[c] # "warmup"
       /\ held' = [held EXCEPT ![c] = s]
       /\ gotAt' = [gotAt EXCEPT ![c] = now]
       /\ Goto(c, IF op[c] = "do" THEN "exchange" ELSE "snapshot")
       /\ UNCHANGED <<phase, callVars>>

UseCached(c) ==
    /\ pc[c] = "lock"
    /\ mutex = NoCaller
    /\ Cached
    /\ Grant(c, session)
    /\ UNCHANGED <<now, mutex, session, evidence, verifications, ledger, refused>>

StartVerification(c) ==
    /\ mutex' = c
    /\ verifications' = verifications + 1
    /\ Goto(c, "verify")
    /\ UNCHANGED <<now, session, evidence, ledger, phase, callVars, grantVars, refused>>

(* Mutants: the lock is not awaited; the cache is not looked at again after *)
(* the lock has been awaited.                                               *)
BeginVerifyUnlocked(c) == pc[c] = "lock" /\ ~Cached /\ StartVerification(c)
BeginVerifyUnchecked(c) == pc[c] = "lock" /\ mutex = NoCaller /\ StartVerification(c)

BeginVerify(c) ==
    /\ pc[c] = "lock"
    /\ mutex = NoCaller
    /\ ~Cached
    /\ StartVerification(c)

(* Mutant: the Gateway's answer is one it gave when the call was made. *)
DocumentReplayed(c, attestedAt) ==
    [begun |-> mark[c], checkedAt |-> now, expiresAt |-> attestedAt + MaxAge]

Document(c, attestedAt) ==
    [begun |-> verifications, checkedAt |-> now, expiresAt |-> attestedAt + MaxAge]

(* The verifier accepted a document whose timestamp lies between            *)
(* now - MaxAge and now + MaxSkew, both included.                           *)
Attest(c) ==
    /\ pc[c] = "verify"
    /\ \E attestedAt \in (now - MaxAge)..(now + MaxSkew) :
          evidence' = Document(c, attestedAt)
    /\ Goto(c, "admit")
    /\ UNCHANGED <<now, mutex, session, verifications, ledger, phase, callVars, grantVars, refused>>

(* Mutant: the deferred unlock is forgotten. *)
UnlockForgotten == UNCHANGED mutex

Unlock == mutex' = NoCaller

(* RecordRejected, and sessionFor returns an error: the mutex is released   *)
(* and Client.session keeps what it had, which is nil or expired.           *)
Refused(c) ==
    /\ ledger' = [status |-> "rejected", current |-> 0]
    /\ Unlock
    /\ evidence' = NoSession
    /\ phase' = IF op[c] = "warmup" THEN "failed" ELSE phase
    /\ Return(c)
    /\ UNCHANGED <<now, session, verifications, refused>>

(* Verify returned an error: refused evidence, no answer, a cancelled or    *)
(* expired context.                                                         *)
VerifyFails(c) == pc[c] = "verify" /\ Refused(c)

(* Evidence without remaining validity or, whatever the clock says, a key   *)
(* that no identity or transport can be made from.                          *)
Reject(c) == pc[c] = "admit" /\ Refused(c)

(* RecordVerified, and the session is cached and returned. *)
Admit(c) ==
    /\ pc[c] = "admit"
    /\ Unexpired(evidence)
    /\ ledger' = [status |-> "verified", current |-> evidence.begun]
    /\ session' = evidence
    /\ Unlock
    /\ evidence' = NoSession
    /\ Grant(c, evidence)
    /\ UNCHANGED <<now, verifications, refused>>

-----------------------------------------------------------------------------
(* What the callers do with the session they hold. *)

(* The exchange ends with a response, or with an error that is not about    *)
(* the key: the session stays cached.                                       *)
ExchangeEnds(c) ==
    /\ pc[c] = "exchange"
    /\ Return(c)
    /\ UNCHANGED <<now, mutex, session, evidence, verifications, ledger, phase, refused>>

(* identity.IsKeyConfigError: the Gateway no longer has the session's key. *)
ExchangeKeyError(c) ==
    /\ pc[c] = "exchange"
    /\ Goto(c, "invalidate")
    /\ UNCHANGED <<now, mutex, session, evidence, verifications, ledger, phase, callVars, grantVars, refused>>

(* Mutants: invalidate drops whatever is cached; it drops nothing.         *)
KeptNothing(c) == NoSession
KeptAnyway(c) == session

(* What invalidate leaves cached. *)
Kept(c) == IF session = held[c] THEN NoSession ELSE session

Invalidate(c) ==
    /\ pc[c] = "invalidate"
    /\ mutex = NoCaller
    /\ session' = Kept(c)
    /\ refused' = refused \cup {held[c].begun}
    /\ Return(c)
    /\ UNCHANGED <<now, mutex, evidence, verifications, ledger, phase>>

(* Client.Verify after Reverify: it returns Snapshot().Current, or an error *)
(* when the newest record is no longer a verified one.                      *)
ReadSnapshot(c) ==
    /\ pc[c] = "snapshot"
    /\ Return(c)
    /\ UNCHANGED <<now, mutex, session, evidence, verifications, ledger, phase, refused>>

Tick ==
    /\ now < ClockBound
    /\ now' = now + 1
    /\ UNCHANGED <<mutex, session, evidence, verifications, ledger, phase, pc, callVars, grantVars, refused>>

Step(c) ==
    \/ WarmUp(c) \/ Do(c) \/ Verify(c) \/ Discard(c)
    \/ UseCached(c) \/ BeginVerify(c) \/ Attest(c) \/ VerifyFails(c) \/ Reject(c) \/ Admit(c)
    \/ ExchangeEnds(c) \/ ExchangeKeyError(c) \/ Invalidate(c) \/ ReadSnapshot(c)

Next == Tick \/ \E c \in Callers : Step(c)

Spec == Init /\ [][Next]_vars

(***************************************************************************)
(* Fairness.  A waiter on a sync.Mutex is handed the lock after at most a  *)
(* millisecond of losing races (starvation mode), so the steps that take   *)
(* it are strongly fair for each caller.  A verification answers: every    *)
(* request goes through a client with a timeout.  Nothing is assumed of    *)
(* the exchange, which has no timeout, nor that anyone calls at all.       *)
(***************************************************************************)
Acquire(c) == Discard(c) \/ UseCached(c) \/ BeginVerify(c) \/ Invalidate(c)
Proceed(c) == Attest(c) \/ VerifyFails(c) \/ Reject(c) \/ Admit(c) \/ ReadSnapshot(c)

Fairness == \A c \in Callers : SF_vars(Acquire(c)) /\ WF_vars(Proceed(c))

FairSpec == Spec /\ Fairness

-----------------------------------------------------------------------------
(* Properties. *)

(* sync.Mutex at client.go:148: exactly the caller that is inside a         *)
(* verification owns the lock, so no two verifications ever overlap, and    *)
(* while one runs there is no usable cached session behind it.              *)
OneVerification ==
    /\ \A c \in Callers : pc[c] \in {"verify", "admit"} <=> mutex = c
    /\ mutex # NoCaller => ~Cached

(* Verify (root client.go:407): what it got from sessionFor, and what it    *)
(* will show from the ledger if that still says verified, comes from a      *)
(* verification begun after the call, though other callers may have been    *)
(* inside one when it was made and other verifications may have ended since.*)
VerifyIsFresh == \A c \in Callers :
    pc[c] = "snapshot" =>
        /\ held[c] # NoSession /\ held[c].begun > mark[c]
        /\ ledger.status = "verified" => ledger.current >= held[c].begun

(* The session behind a prompt was unexpired when it was handed out, so at  *)
(* most MaxAge + MaxSkew had passed since the verifier checked its evidence,*)
(* whichever caller paid for the verification (client.go:151, 160).         *)
BoundedStaleness == \A c \in Callers :
    pc[c] \in {"exchange", "invalidate"} =>
        /\ held[c] # NoSession
        /\ gotAt[c] < held[c].expiresAt
        /\ gotAt[c] - held[c].checkedAt < MaxAge + MaxSkew

(* While a prompt can be encrypted to the cached session, the status shown  *)
(* to the user is "verified" and names the same verification: a failure     *)
(* recorded by one caller never coexists with a session another may use.    *)
LedgerAgrees ==
    Cached => ledger.status = "verified" /\ ledger.current = session.begun

(* Once invalidate has run for a session whose key the Gateway refused, no  *)
(* later call is given that session again (client.go:139, 198).             *)
RefusedIsGone == session # NoSession => session.begun \notin refused

(* invalidate compares pointers: a late key error on an old session never   *)
(* throws away a session verified since; a cached session only disappears   *)
(* when Reverify drops it, a newer one replaces it, or its own key failed.  *)
NewerSessionSurvives ==
    [][session # NoSession /\ session' # session =>
          \/ session' # NoSession /\ session'.begun > session.begun
          \/ session.begun \in refused'
          \/ \E c \in Callers : pc[c] = "discard" /\ pc'[c] = "lock"]_vars

(* No call hangs on the mutex or in a verification: every caller gets a     *)
(* session, an error, or its snapshot, whatever the exchanges of others do. *)
EveryCallAnswered == \A c \in Callers :
    pc[c] \notin {"idle", "exchange"} ~> pc[c] \in {"idle", "exchange"}

=============================================================================
