# A TLA+ model of the Dappnode Nexus SDK

The SDK is a local client that attests a confidential Gateway and only then
encrypts prompts to it. This directory models the parts of it in which order,
failure, time or concurrency matter, checks them with TLC on small instances,
and proves with TLAPS, for every value of the constants, every safety property
the passing runs check and both refinements. Liveness is checked by TLC only.

`PROJECT.json` lists the components, runs, mutants, theorems and hazards and
says which source lines each definition stands for. To repeat a check, run TLC
on the module and `.cfg` of a run, or `tlapm` on a `*Proofs` module.

## 1. Inventory

| component | source | state | operations | what makes it correct |
|---|---|---|---|---|
| confidential session | `internal/confidential/client.go` | `mu`, `session` | `WarmUp`, `Do`, `Reverify`, `sessionFor`, `invalidate` | one verification at a time; `Verify` is fresh; a session is handed out only while its evidence is fresh; a session whose key was refused is not handed out again; a late error spares newer sessions |
| verification ledger | `internal/ledger/ledger.go` | status, two capped histories, four totals | `RecordVerified`, `RecordRejected`, `RecordRequest`, `Snapshot`, `Document` | totals account for histories; identifiers listed are distinct |
| ledger state file | `internal/ledger/store.go` | `dirty`, the file | `Open`, `Flush` | nothing is lost to a race or a failed write; restarts continue; with one flusher at a time the file never goes back |
| release source and cache | `internal/release/source.go`, `cache.go` | cache file | `Policy`, `fetch`, `cached`, `Load`, `Store` | a policy pins only signed releases, however it came about |
| signature and manifest checks | `internal/release/verify.go`, `manifest.go` | none | `Verify`, `Policy` | only production releases signed by the release workflow pass |
| attestation verifier | `internal/attestation/*.go` | the policy in force | `Verify`, `SetPolicy` | evidence is accepted only from a pinned build |
| policy refresh | `policy_refresh.go`, `client.go:284-325` | rate limit, ticker | first-contact refresh, ticker | a deploy is recognised; one failure is not final |
| SDK client | `client.go` | the components, `stopRefresh`, `refreshDone` | `New`, `Verify`, `Verification`, `Evidence`, `Flush`, `Close` | `New` serves only after a verification; trust in a dropped release ends; nothing refreshes after `Close` |
| in-process transport | `client.go:529-649` | response writer, pipe | `RoundTrip`, `Write`, `finish` | one answer; an aborted stream never looks complete; the handler of a cancelled request ends |
| chat completion handler | `internal/proxy/handler.go` | tracker, request record | `ServeHTTP`, `forwardNormal`, `forwardEventStream` | a request is recorded once, with its real outcome; a cut is visible |
| EHBP frame guard | `internal/confidential/frame_guard.go` | partial frame, pending error, bytes still allowed | `RoundTrip`, two `Read`s | bytes unchanged; no bad frame; truncation is an error; no frame or report is refused that is within its limit |
| EHBP library, Nitro verifier | dependencies | | | seen through their outcomes |
| verification endpoints and page, model catalog, JSON helpers | `internal/proxy/verification.go`, `verification.go`, `internal/catalog`, `internal/jsonutil` | none | | not modelled |
| `nexus-proxy` | `cmd/nexus-proxy/main.go` | server, flush ticker, exit code | `run` | a clean exit has saved what was recorded; a process told to stop does |

**How they interact.** `Client.mu` of the session is held across a whole
verification: the verifier's network exchange and a refresh it may trigger. The
verification reads the policy in force, which the ticker and the triggered
refresh replace at any time under a lock of its own. Every verification ends
in a ledger record made under that lock, every prompt in one made by the
handler's deferred function. `Verify` reads the ledger after its verification,
outside the lock. Flushing goes on in goroutines of its own. Responses pass the
frame guard, the EHBP library, the handler and, for embedded use, the
in-process transport.

**What is hard.** Callers queueing on a lock that ignores contexts; errors that
arrive for a session which was replaced meanwhile; evidence that ages between
its check and its use; two refreshes that finish in the other order; policies
from partial downloads, or from a file; records made while a flush is under
way; process deaths around a rename; streams cut at any byte and split in any
way; a client that leaves during a write; two goroutines that finish one
response; a shutdown that meets requests, a flush and a refresh in progress. `PROJECT.json` lists these at the lines where they bite.

## 2. Modules

### Session

One caller is a goroutine inside `New`, `Do` or `Verify`. `pc[c]` is its place:
`discard` (Reverify's first critical section), `lock` (waiting for `mu` in
`sessionFor`), `verify` and `admit` (holding it: before and after the verifier
answered), `exchange` (the session is in use, no lock held), `invalidate`, and
`snapshot` (`Verify` before it reads the ledger). A session is a pointer in the
code and a record told apart by the serial number of its verification here.
`ledger` is status and current record of `Ledger.Snapshot`; the ledger in full
is a module of its own. `Attest` chooses the document's timestamp anywhere in
the window the verifier accepts, so `Reject` is reachable by expiry alone;
it may also happen for a key no transport can be made from.
`mark`, `gotAt` and `refused` are history variables. `gotAt` is the moment of
the hand-out: what the properties bound is the age of evidence then. The code
sets no bound on how much later the prompt is encrypted, and none is claimed.

### TrustPolicy

A release is a number that stands for a build; `Signed` holds those that
`Verify` accepts. Three processes may be inside `Source.Policy` at once:
`New`, the ticker, and the one verification that `Client.mu` admits.
`fetch` is a choice of which downloads succeed, `Store` may fail silently,
`LoadCache` verifies again. `Apply` is `release.Policy` with `SetPolicy` (or
`NewVerifier`). A verification attests, and on an unpinned release triggers a
refresh and attests again. The world publishes releases in order, deploys any
build at all, puts any content of `Damages` into the cache file (nothing, an
earlier file, releases nobody signed, alone or among signed ones) and ends the
process, after which another may start from the file. These are external: no
code of the repository is behind them.
The `Revision` constant lets two builds claim one source revision.

### PinnedPolicy

The abstract specification of TrustPolicy: there is always one policy, it pins
what was signed, it is replaced as a whole, evidence is accepted against the one
in force. `TrustPolicy!ImplementsPinnedPolicy` is the refinement; the mapping is
by name (`policy`, `running`, `accepted`), everything else of TrustPolicy is
hidden, and its steps map to one of the four actions or to none. It is proved
(`TrustPolicyProofs!PinsPolicies`).

### Nexus, MCNexus

The composition of Session with the policy. `Nexus` extends Session with the
variables of PinnedPolicy: `Attest` happens together with `Trust!Accept`,
because `validate` reads the policy once, after the Gateway has answered, and
`Replaced` (`SetPolicy`) at any other moment at which the ticker or a
verification can run it. By the refinement above, whatever holds of this
composition holds with the downloads, caches and retries of TrustPolicy in the
place of PinnedPolicy. `NexusProofs!Composition` proves that the composition is
a behaviour of both of its parts. `Verify` throws away the session its
verification made and answers with the newest record of the ledger, so
`VerifyFollowsPolicy` is about the build behind that record. `build`, `droppedAt` and `pinnedSince` are histories.
`MCNexus` gives `Revision` its values and the symmetry of the callers.

### Ledger

`Record*` are single steps, as `Ledger.mu` makes them. `Flush` is four: claim
the flag, copy, write a temporary file, rename; none of them holds a lock while
another runs, so records and other flushers come between. `Crash` is the death
of the process at any point and the next `Open`. Caps and the 16 bit identifier
space are constants. A record's `document` is the serial number of the
verification whose signed document it retains; `Document` looks one up the way
`Evidence` does, by the identifier, which is the key's. Its `manifest` tells
apart JSON in the form `json.Marshal` writes and any other; `Encoded` is what
writing a state file makes of the second, and all it makes of a record.

### DurableHistory

The abstract specification of Ledger: a history grows, a save that ends well has
what was recorded before it began, a death takes the history back to the file.
`Ledger!ImplementsHistory` is the refinement: `recorded` and `saved` are the
numbers of records counted by memory and by file, a flusher is `pending` from
its claim to its rename and `done` after it. The refinement holds with one flusher, and is
proved for one (`LedgerProofs!KeepsHistory`).

### ClientClose

`Close` in its three unlocked accesses to `stopRefresh` and the refresh
goroutine it stops, for any set of goroutines that call it.

### Lifecycle

One `nexus-proxy` process, over the full Ledger (its flushers are `run`, as
`Main`, and the flush ticker) and ClientClose. `stage` is where `run` is: `New`,
before `Listen`, serving, in the flush of the signal, in `Shutdown`, in the
deferred `Close`, gone. A step of a handler, of a flusher or of the refresh
goroutine is the step of its own module under the process's conditions. The
`connected` says that connections may be open, on which requests come until
`Shutdown` has found them idle: also while it waits, and after it gave up. The
select statements may take a tick that is due although they have been told to
stop, as Go's may. `excuses` is a history of what may cost a clean exit records:
a failed last write, or a ticker flush that overlapped the shutdown. A process
without a state file has nothing to save and is left out.

### Handler

A response, JSON or event stream, is forwarded to the local client. A byte is
one of five classes, the ones `sseDoneTracker` can tell apart; the two halves
of `data: [DONE]` are one class each, so that the terminator can be split
between reads. The run leaves out the fifth, any other byte, because a
misplaced half of the terminator stands for it. `TrackerIsExact` compares the incremental tracker with a
definition over the whole stream (`Terminated`). `End` is the return or panic
together with the deferred function; a request that is refused before it is sent
(`NotSent`) has no record.

### FrameGuard

Every loop turn of `frameGuardReader.Read` is a step; the source may answer
with any part of what is asked, with an error or without, and may break
anywhere. A length has `PrefixLen` digits of base `Base`.

### ResponseGuard

`guardingTransport` around it: the nonce header decides whether the body is
framed, status and media type whether it is bounded. A `Read` of the library
becomes one of the bound, which asks the frame guard or the source for no more
than remains, and at the limit for one byte more, the probe.

### InProcess

The handler's goroutine, `RoundTrip`'s select, and the caller with its context
and the body it may read or close. Bytes are counted. A handler that returned
and one that panicked are told apart, for `CleanEndIsComplete`.

### MCTrustPolicy

Gives `Revision` and `Damages` their values, which a `.cfg` cannot write.

## 3. Runs

| run | module, cfg | shows |
|---|---|---|
| `session` | Session, MCSession | two callers: `Verify` is fresh, hand-out is bounded in time, refused sessions stay gone, newer sessions survive, every call is answered |
| `nexus` | MCNexus, MCNexus | a session is handed out for less than a document's validity after its release was dropped; the record `Verify` answers with, whosever it is, follows a policy in force during the call |
| `ledger` | Ledger, MCLedger | history, totals, retained evidence and file agree through evictions, failed flushes and two deaths; the ledger implements DurableHistory |
| `trust` | MCTrustPolicy, MCTrustPolicy | every policy is valid and signed; the parts together implement PinnedPolicy |
| `trust_live` | MCTrustPolicy, MCTrustLive | a Gateway that stays on a current release is recognised again and again |
| `lifecycle` | Lifecycle, MCLifecycle | exit code 0 means every request ended and, with the two stated excuses, everything is saved; the file goes back only if a flush of the ticker overlapped the shutdown; no refresh after `Close`; a process told to stop ends |
| `handler` | Handler, MCHandler | the tracker is exact; a stream is recorded once, however it ends, and as encrypted exactly when it was delivered with its terminator; a cut is an abort |
| `response_guard` | ResponseGuard, MCResponseGuard | bytes unchanged, no bad frame, no silent truncation, no undeserved refusal |
| `in_process` | InProcess, MCInProcess | one answer, no false end, the handler of a cancelled request ends |
| `ledger_two` | Ledger, MCLedgerTwo | violation, see 5 |
| `network_lost` | MCTrustPolicy, MCNetworkLost | violation, see 5 |
| `close_twice` | ClientClose, MCCloseTwice | violation, see 5 |

**Bounds.** Each bound is a constant of its module, with a comment. The
theorems of section 4 hold whatever their values are.

* Session: two callers, because its hazards are pairs: one waits, discards or
  fails while the other verifies. Three verifications are one before, one
  during and one after the interesting event. `MaxAge = 2`, `MaxSkew = 1`,
  clock up to 3: a document may be fresh, on either limit, and expired.
* Ledger: caps 2 and 1 with four records reach eviction of both histories;
  `IdSpace = 2` makes identifiers wrap at the smallest value the assumption
  allows (the code has 64 records and 2^16 identifiers). Two deaths let a file
  written after a restart be loaded again. There is one flusher; what two can do
  is the question of `ledger_two` and `lifecycle`.
* TrustPolicy: four builds and two per policy, so that listings overflow and
  caches hold what policies do not; one build shares a revision with a signed
  one of its own, another claims a signed one's without being signed. The
  liveness run has two builds and one per policy: enough for a deploy ahead of
  the policy. The damaged files of the safety run (`SomeCaches`) are none, one of
  an older release, one of an unsigned build, and one of that build beside a
  signed one; the liveness run has every content. In `network_lost` nobody
  damages the file (`NoDamage`).
* Nexus: as in Session, with `MaxAge = 1` and the clock up to 2, where a session
  can be as old as it may get when its release was dropped at the start. Two of
  three builds are signed; policies of one and of two builds.
* Lifecycle: two records, so that one is made after the flush of the signal has
  claimed the first; one request at a time; one kill or exit followed by another
  process. With three records, or two requests, more of the same happens.
* Handler: lines of at most three bytes around a terminator of two, in streams
  of eight: a terminator with a space on either side, after a line too long,
  split between reads, without newline, and followed by more.
* ResponseGuard: base 2, two digits, frames of at most 2: lengths 0 to 3 are
  zero, good and oversized; seven bytes hold two whole frames and more; reads of
  up to 3 end within a prefix or a body; a limit of 3 is the end of a frame of
  one byte and lies inside a frame of two.
* InProcess: three bytes, two per write: a write partly read, and one after it.

**Deadlock** is checked in the runs of Ledger and TrustPolicy; those among them
that expect a violation stop at it. The others have an end: a finished request or response, or, in
Session, a clock and a number of verifications used up.

**Fairness.** Session: taking `mu` is strongly fair for each caller, because a
`sync.Mutex` turns to handing over in order once a waiter has lost races for a
millisecond; what holds the lock goes on, because every request of a verification
runs through a client with a timeout (`client.go:153`, `:215`, `:414`). Nothing
is assumed of an exchange, which has none. Ledger: the ticker of `nexus-proxy`
calls `Flush` for ever (`main.go:121-141`) and a write or rename that is tried
again and again works at last. TrustPolicy: the ticker fires, its requests have
timeouts, and the network is not out for ever; `DeployRecognised` rests on the
ticker alone, which is what `client.go:284-292` calls the backstop, and assumes
nothing of triggered refreshes. Lifecycle: once `run` is
leaving it goes on, file operations end and `Shutdown` has its ten seconds; a
refresh ends because its requests have timeouts; the goroutine's `select`, which
sees the cancellation whenever it comes round, takes it at last; nothing is
assumed of requests, of the ticker or of the disk's success. InProcess: `RoundTrip` goes on; the handler
does what needs only the pipe, and anything once its context has ended; the
caller reads the body or closes it, as users of `http.Client` must.

## 4. Proofs

No module uses a RECURSIVE operator. The loops over bytes in Handler and
FrameGuard are recursive functions.

**Session** (`NexusProofs`, first half). For any set of callers, any age and
skew, and any bounds: type correctness, `OneVerification` (theorem `Exclusion`,
not repeated by a run), `VerifyIsFresh`, `BoundedStaleness`, `LedgerAgrees`,
`RefusedIsGone` and the action property `NewerSessionSurvives`. None of the
invariants is inductive by itself. `IInv` adds how serial numbers order what
exists:

* `LockInv`: the lock's owner is the caller inside a verification, and the
  evidence it holds is that verification's;
* `SerialInv`: every session is from a verification that is over, one serial
  is one session, and the refused ones are none of the cached. Without it a
  refused serial could be given to a new session, and the pointer comparison of
  `invalidate` would mean nothing;
* `HeldInv`: what a caller holds was unexpired when it got it;
* `MarkInv`: a `Verify` past its discard finds only sessions, and only a
  verification under way, that began after its call. This is the heart of
  freshness: a verification of another caller in progress at the time of the
  call still holds the lock that the discard needs;
* `LedgerInv`: the newest record is at least as new as every session in use.

**Nexus** (`NexusProofs`, second half). For any callers, releases and policies:
`NexusTypeOK`, `TrustOutlivesBriefly`, `VerifyFollowsPolicy`, and `Composition`:
a behaviour of the whole is one of Session and one of PinnedPolicy. `NexusInv`
is `IInv` and what has to be known of a session long before a prompt is
encrypted to it. `VouchedInv`: whatever is cached, held or about to be cached
came from a signed build, and if that build is not pinned now, its evidence was
checked no later than the drop; with `HeldInv` this bounds how long trust
outlives its release. `PinnedInv`: every verification begun since a `Verify`
call accepted what was pinned since the call; with `MarkInv` this is
`VerifyFollowsPolicy`. `BuildInv` and `RoomInv` keep the history of builds in
step with the serial numbers. The record `Verify` answers with is covered, whosever it is,
because the newest record is at least as new as the session held (`LedgerInv`)
and names a verification that accepted a build (`RecordInv`).

**TrustPolicy** (`TrustPolicyProofs`). For any releases, signatures and
revisions: type correctness, `PolicyIsTrusted`, `OnlySignedAccepted`, and the
refinement `ImplementsPinnedPolicy` (`PinsPolicies`). `SignedInv` says that what
a refresh has so far is signed whichever way it came, downloaded or loaded: the
cache itself is constrained by nothing. In the refinement `Apply` is the load or
the replacement, an attestation that succeeds the acceptance, the restart the
restart, and every other step a stutter. `SignedInv` is needed because
PinnedPolicy replaces a policy only by signed releases, and `ServingInv` because
it does so only while a client serves: no refresh outlives a restart.

**Ledger** (`LedgerProofs`). Type correctness, `Accounted`,
`RejectedIdsDistinct` and `ListedIsExportable` for any caps, identifier space
and number of flushers; `FlushedIsOnDisk`, `DiskNeverGoesBack` and the
refinement `ImplementsHistory` (`KeepsHistory`) where at most one goroutine
flushes (`OneFlusher`; section 5 shows why it is needed). `HistoryInv` demands
the same of every copy of the history: memory, a flush under way, the file. The last two are also
encoded already, so that nothing changes when they are written again
(`Settled`, `EncodedKeeps`). Its part `Numbered` is why identifiers do not collide: the listed records can be
numbered by the total of rejections at the time of each, the numbers of two
listed rejections differ by less than the length of the list, and so have
different remainders. `SavedInv` puts what a flusher copied between the file and
the ledger. Two lemmas say what `appendCapped` and `Newest` return.
`Exportable` keeps the documents of the list in the order of their
verifications, which is why `Document`, the newest of a key, is never older than
the record it is asked for.

**ClientClose and Lifecycle** (`LifecycleProofs`). For any set of closers, a
`Close` that has come to its flush finds the refresh goroutine gone
(`ClosedMeansStopped`): the field is only nil when there was no goroutine or it
has ended (`NilMeansStopped`). A `Close` that
calls nil does so because another `Close`, which saw the same field, has waited
for the goroutine and cleared it in between (`ClosePanicsAfterAnother`). For the
process, `LifecycleTypeOK`, `CleanExitIsSaved`,
`FileGoesBackOnlyByOverlap`, `ClosedMeansStopped` and `CloseIsSafe`: `run` is the only closer that ever
starts. `ProxyKeepsLedger` proves that every process, with its exits, kills and
restarts, is a behaviour of Ledger. `CleanExitIsSaved` speaks of the last state
of a process only; `ProcessInv` says how it comes about. `OrderInv`: `run`
flushes on its way out only, the ticker not yet before `run` serves, and no
request is under way and no connection open once `Shutdown` has succeeded. `FlushInv`: while no flush of the ticker overlaps the shutdown, a
ledger that is not dirty is in the file or in the copy of the one flusher at
work (`OnItsWay`). That an overlap is an excuse is exactly what keeps the two
flushers apart. `GrowthInv`: until they overlap, a copy on its way to the file
is no older than the file (`FileGrows`). For two flushers that no process keeps
apart, which the Ledger alone allows, this is false.

**Handler** (`HandlerProofs`). For any line limit and any streams, reads and
cuts: type correctness, `TrackerIsExact`, `RecordIsTrue` and
`CutIsVisible`. The tracker forgets every line it has seen; `Tracks` says what
it still knows: whether a line that has ended is the terminator, and the line
since the last newline, unless that is too long already. `TrackByte` proves that
one byte keeps this, `TrackWrite` that a read does, by induction over its bytes,
and `TrackEnd` that the verdict at the end of the stream is about the last line
as well. `PipeInv` relates what was received, delivered and recorded.

**FrameGuard and ResponseGuard** (`ResponseGuardProofs`). For any encoding of
lengths, limits on frames and reports, and reads of any size: type correctness,
`Unchanged`, `OnlyGoodFrames`, `CleanEndIsComplete` and `ErrorsAreDeserved`. What
a prefix says (`Length`) is never expanded. The frame guard sees only the frame
it is in, the properties speak of where frames start in everything given. The
link is `FramedInv`: there is a position of the wire at which a frame starts,
every frame in front of it is good (`WholeFrames`), and the reader is that many
bytes into that frame. `Reached` is shown to say what one turn of its loop says
(`ReachedTurns`), by `Recursion`, and not to depend on bytes that come later
(`ReachedGrows`). `RoomInv` keeps the bound's count and what was given together.

**InProcess** (`InProcessProofs`). For any sizes of writes: type correctness,
`OneAnswer` and the action property `CleanEndIsComplete`. The response writer is
concluded once (`WriterInv`), no written byte is missing from the pipe while it
is open or after a clean end (`PipeInv`), and only the reader of a response
takes bytes (`AnswerInv`).

**NaturalRecursion.** The library's induction theorems take a predicate as
parameter, which the provers cannot instantiate. `Induction` states the
principle for a set of numbers and `Recursion` that a function given turn by
turn exists for every number of turns. Both follow from the well-foundedness of
the naturals and serve the proofs about Handler, the guards and Ledger.

**Assumptions.** The proofs rest on the named assumptions of the modules:
`CallersAssumption`, `AgeAssumption`, `BoundAssumption` (of Session and of
InProcess), `SessionAssumption`, `ReleasesAssumption`, `CountAssumption`,
`RevisionAssumption`, `DamageAssumption`, `BuildsAssumption`, `BuildRevisionAssumption`,
`CapAssumption`, `IdAssumption`, `ProcessAssumption`, `InflightAssumption`,
`LineAssumption`, `PrefixAssumption`, `FrameAssumption`, `ReadAssumption`,
`ProblemAssumption`. They give constants their types and exclude meaningless
values; `IdAssumption` holds of the code with 65536 identifiers for 64 records,
`LineAssumption` of its limit of 2^20 bytes, and `ProcessAssumption` says that
`run` and the ticker are the two goroutines that flush. `OneFlusher` is a hypothesis of three theorems, stated
with them.

**Only model-checked.** The liveness properties `EveryCallAnswered`,
`EverythingReachesDisk`, `DeployRecognised`, `ComesToAnEnd`,
`RoundTripAnswers` and `CancelledHandlerEnds`: the prover has no rules for
fairness and ENABLED. What `Length` computes from the digits of a prefix is left
to the runs.

## 5. Where code and text disagree

| run | text | code |
|---|---|---|
| `ledger_two` | `client.go:103-104`: "Call Close or Flush to write pending changes" | `Flush` returns nil at once when another `Flush` has claimed the dirty flag and not yet written (`store.go:119`); `nexus-proxy` does not wait for its flush ticker before its last `Flush` |
| `network_lost` | `client.go:291-293`: "losing the network narrows nothing and widens nothing" | a refresh that cannot fetch takes the cache file (`source.go:138`), which differs from the policy in force when storing that policy failed silently (`source.go:184`) |
| `close_twice` | `client.go:117`: "It is safe for concurrent use" | `Close` reads `stopRefresh` twice and clears it without a lock (`client.go:466-469`): the second of two closers can call nil |

`lifecycle` shows what the first of these costs `nexus-proxy`: `run` closes
`stopFlushing` and does not wait for the goroutine, so a flush the ticker has
claimed but not written can be cut off by a clean exit, or can rename an older
copy over the newer file. `CleanExitIsSaved` and `FileGoesBackOnlyByOverlap`
show that nothing else does, failed writes apart.

Three more places where the text reads as if more held are seen in the model,
without a run of their own:

* `client.go:436-437`: "Evidence returns the signed attestation document and
  manifest for a verification record", and `verification.go:70-71` has it
  re-check one verification. Records are identified by the fingerprint of the attested key and
  `Document` takes the newest with that identifier (`ledger.go:216`): of two
  verifications of one key the older record's evidence is the newer's.
  `ListedIsExportable` says what does hold.
* `json.Marshal` compacts a retained manifest and escapes some characters
  (`store.go:126`): one that was not sent in that form comes back from the state
  file (`Encoded`) as other bytes than those its document has the digest of.
* With two flushers the one that copied first may rename last (`store.go:187`),
  and records the file already had are gone from it until something new is
  recorded and flushed, or for good when the process ends first.

## 6. Not modelled

Cryptography, certificates and Sigstore (their verdicts are choices or
constants), sizes of documents and of the state file, encodings (but the one of the manifest in that
file), HTTP headers, the local page, the catalog, flags and configuration. An application that copies
a `Client`, or calls its methods on nil, is left out. Readers of a guarded
response stop at its first error. In Session a verification that fails because
its caller gave up is one of `VerifyFails`. A rejection recorded by a `New` that
fails is lost with its ledger (`client.go:216`, `Lifecycle!NewFails`); no text
promises otherwise and no property is about it.

## 7. Plan

Done: Session, Ledger, TrustPolicy, InProcess, Handler, ResponseGuard,
ClientClose; the abstract specifications DurableHistory and PinnedPolicy; the
compositions Nexus and Lifecycle; for each of them every safety property and
refinement is proved.

Worth modelling still: a state file that is too large or does not decode, with
which a process starts as if it had none; the verification page's reads.
