------------------------------- MODULE Ledger -------------------------------
(***************************************************************************)
(* The verification ledger of internal/ledger: a capped history of         *)
(* attestations and requests with running totals, kept in memory and       *)
(* written behind the request path to a state file (ledger.go, store.go).  *)
(*                                                                         *)
(* Recording is one critical section of Ledger.mu.  Flush is four steps,   *)
(* with no lock held across them: claim the dirty flag, copy the ledger,   *)
(* write a temporary file, rename it over the state file.  The process may *)
(* die at any point and start again from the file.                         *)
(***************************************************************************)
EXTENDS Integers, Sequences, FiniteSets

CONSTANTS
    Keys,           \* fingerprints of attested keys
    Flushers,       \* goroutines inside Flush or Close
    AttCap, ReqCap, \* maxAttestations, maxRequests
    IdSpace,        \* rejected identifiers carry rejectedTotal modulo this (2^16)
    MaxRecords,     \* bound: records a history may count
    MaxCrashes      \* bound: process deaths

ASSUME CapAssumption == AttCap \in Nat \ {0} /\ ReqCap \in Nat \ {0}
ASSUME IdAssumption == IdSpace \in Nat /\ IdSpace >= AttCap

VARIABLES
    mem,        \* the Ledger
    dirty,      \* store.dirty
    disk,       \* what the state file holds
    pc,         \* where each flusher is
    data,       \* the state each flusher copied
    owed,       \* history: the ledger when each flusher's call began
    crashes

vars == <<mem, dirty, disk, pc, data, owed, crashes>>
flushVars == <<pc, data, owed>>

(* A record of an attestation: its identifier, which is the fingerprint of   *)
(* the attested key or the number of the rejection, the verification whose   *)
(* signed document it retains, 0 for none, and the manifest of that document.*)
(* A manifest is what the Gateway sent: JSON as json.Marshal would write it  *)
(* ("compact"), or with spaces or characters it would not leave ("loose").   *)
(* An "altered" one is no longer what was sent, nor what the document signs. *)
Sent == {"compact", "loose"}
Manifests == Sent \cup {"altered", "none"}

Verified(k, n, m) == [outcome |-> "verified", id |-> k, document |-> n, manifest |-> m]

(* Mutant: identifiers that do not wrap. *)
RejectedUnbounded(n) == [outcome |-> "rejected", id |-> n, document |-> 0, manifest |-> "none"]

Rejected(n) == [outcome |-> "rejected", id |-> n % IdSpace, document |-> 0, manifest |-> "none"]

Attestations ==
    [outcome : {"verified"}, id : Keys, document : Nat, manifest : Manifests]
        \cup [outcome : {"rejected"}, id : 0..(IdSpace - 1), document : Nat, manifest : Manifests]
Requests == {"encrypted", "failed"}

States == [attestations : Seq(Attestations), requests : Seq(Requests),
           verified : Nat, rejected : Nat, encrypted : Nat, failed : Nat]

Empty == [attestations |-> <<>>, requests |-> <<>>,
          verified |-> 0, rejected |-> 0, encrypted |-> 0, failed |-> 0]

PCs == {"idle", "claimed", "write", "rename", "saved"}

TypeOK ==
    /\ mem \in States /\ disk \in States
    /\ dirty \in BOOLEAN
    /\ pc \in [Flushers -> PCs]
    /\ data \in [Flushers -> States]
    /\ owed \in [Flushers -> States]
    /\ crashes \in Nat

(* A process with no state file yet; files left by earlier processes come   *)
(* about through Crash.                                                     *)
Init ==
    /\ mem = Empty /\ disk = Empty
    /\ dirty = FALSE
    /\ pc = [f \in Flushers |-> "idle"]
    /\ data = [f \in Flushers |-> Empty]
    /\ owed = [f \in Flushers |-> Empty]
    /\ crashes = 0

Smaller(a, b) == IF a <= b THEN a ELSE b

(* Mutant: the cap is noticed one record late. *)
appendCappedLate(items, item, limit) ==
    IF Len(items) <= limit THEN Append(items, item) ELSE Append(Tail(items), item)

appendCapped(items, item, limit) ==
    IF Len(items) < limit THEN Append(items, item) ELSE Append(Tail(items), item)

(* Appending every item of a file with appendCapped keeps the newest. *)
Newest(items, limit) == SubSeq(items, Len(items) - Smaller(Len(items), limit) + 1, Len(items))

-----------------------------------------------------------------------------
(* Recording: the total, the history and the dirty flag, in one step. *)

Count(state) == state.verified + state.rejected + state.encrypted + state.failed

Record(state) ==
    /\ Count(mem) < MaxRecords
    /\ mem' = state
    /\ dirty' = TRUE
    /\ UNCHANGED <<disk, flushVars, crashes>>

RecordVerified(k) == \E m \in Sent :
    Record([mem EXCEPT !.verified = @ + 1,
                       !.attestations = appendCapped(@, Verified(k, mem.verified + 1, m), AttCap)])

RecordRejected ==
    Record([mem EXCEPT !.rejected = @ + 1,
                       !.attestations = appendCapped(@, Rejected(mem.rejected + 1), AttCap)])

RecordRequest(outcome) ==
    Record([mem EXCEPT !.encrypted = IF outcome = "encrypted" THEN @ + 1 ELSE @,
                       !.failed = IF outcome = "encrypted" THEN @ ELSE @ + 1,
                       !.requests = appendCapped(@, outcome, ReqCap)])

(* Document: the newest record with that identifier that retains one.       *)
Retaining(id) == {i \in DOMAIN mem.attestations :
    mem.attestations[i].id = id /\ mem.attestations[i].document # 0}

Document(id) ==
    IF Retaining(id) = {} THEN 0
    ELSE mem.attestations[CHOOSE i \in Retaining(id) : \A j \in Retaining(id) : j <= i].document

-----------------------------------------------------------------------------
(* Flush. *)

Goto(f, label) == pc' = [pc EXCEPT ![f] = label]

(* Nothing changed since the last claim: Flush returns nil at once. *)
FlushClean(f) ==
    /\ pc[f] = "idle" /\ ~dirty
    /\ owed' = [owed EXCEPT ![f] = mem]
    /\ Goto(f, "saved")
    /\ UNCHANGED <<mem, dirty, disk, data, crashes>>

FlushClaim(f) ==
    /\ pc[f] = "idle" /\ dirty
    /\ dirty' = FALSE
    /\ owed' = [owed EXCEPT ![f] = mem]
    /\ Goto(f, "claimed")
    /\ UNCHANGED <<mem, disk, data, crashes>>

(* Mutant: what Attestation keeps unexported is not written. *)
persistedWithoutEvidence(record) == [record EXCEPT !.document = 0]

(* json.Marshal compacts and escapes a RawMessage; the document is bytes.   *)
persistedAttestation(record) ==
    [record EXCEPT !.manifest = IF @ = "loose" THEN "altered" ELSE @]

Encoded(state) ==
    [state EXCEPT !.attestations = [i \in DOMAIN @ |-> persistedAttestation(@[i])]]

snapshotForDisk(f) ==
    /\ pc[f] = "claimed"
    /\ data' = [data EXCEPT ![f] = Encoded(mem)]
    /\ Goto(f, "write")
    /\ UNCHANGED <<mem, dirty, disk, owed, crashes>>

(* The temporary file is complete and synced; path still has the old one. *)
WriteTemporary(f) ==
    /\ pc[f] = "write"
    /\ Goto(f, "rename")
    /\ UNCHANGED <<mem, dirty, disk, data, owed, crashes>>

(* Mutant: the dirty flag is cleared when the file is in place. *)
RenameClears(f) ==
    /\ pc[f] = "rename"
    /\ disk' = data[f]
    /\ data' = [data EXCEPT ![f] = Empty]
    /\ dirty' = FALSE
    /\ Goto(f, "saved")
    /\ UNCHANGED <<mem, owed, crashes>>

Rename(f) ==
    /\ pc[f] = "rename"
    /\ disk' = data[f]
    /\ data' = [data EXCEPT ![f] = Empty]
    /\ Goto(f, "saved")
    /\ UNCHANGED <<mem, dirty, owed, crashes>>

(* Mutant: a failed write does not make the ledger dirty again. *)
FlushFailsClean(f) ==
    /\ pc[f] \in {"write", "rename"}
    /\ data' = [data EXCEPT ![f] = Empty]
    /\ owed' = [owed EXCEPT ![f] = Empty]
    /\ Goto(f, "idle")
    /\ UNCHANGED <<mem, dirty, disk, crashes>>

(* Any step of writeFileAtomic fails: the change is pending again, the      *)
(* temporary file is removed and Flush returns the error.                   *)
FlushFails(f) ==
    /\ pc[f] \in {"write", "rename"}
    /\ dirty' = TRUE
    /\ data' = [data EXCEPT ![f] = Empty]
    /\ owed' = [owed EXCEPT ![f] = Empty]
    /\ Goto(f, "idle")
    /\ UNCHANGED <<mem, disk, crashes>>

(* Flush has returned nil and its caller goes on. *)
FlushReturns(f) ==
    /\ pc[f] = "saved"
    /\ owed' = [owed EXCEPT ![f] = Empty]
    /\ Goto(f, "idle")
    /\ UNCHANGED <<mem, dirty, disk, data, crashes>>

-----------------------------------------------------------------------------

(* Mutant: the totals start again from zero. *)
LoadedHistoryOnly(file) ==
    [Empty EXCEPT !.attestations = Newest(file.attestations, AttCap),
                  !.requests = Newest(file.requests, ReqCap)]

(* loadFrom, with the caps applied again. *)
Loaded(file) ==
    [file EXCEPT !.attestations = Newest(@, AttCap), !.requests = Newest(@, ReqCap)]

(* The process dies, with or without a temporary file behind, and another   *)
(* Opens the same path.                                                     *)
Crash ==
    /\ crashes < MaxCrashes
    /\ crashes' = crashes + 1
    /\ mem' = Loaded(disk)
    /\ dirty' = FALSE
    /\ pc' = [f \in Flushers |-> "idle"]
    /\ data' = [f \in Flushers |-> Empty]
    /\ owed' = [f \in Flushers |-> Empty]
    /\ UNCHANGED disk

Flush(f) ==
    \/ FlushClean(f) \/ FlushClaim(f) \/ snapshotForDisk(f) \/ WriteTemporary(f)
    \/ Rename(f) \/ FlushFails(f) \/ FlushReturns(f)

Next ==
    \/ \E k \in Keys : RecordVerified(k)
    \/ RecordRejected
    \/ \E outcome \in Requests : RecordRequest(outcome)
    \/ \E f \in Flushers : Flush(f)
    \/ Crash

Spec == Init /\ [][Next]_vars

(***************************************************************************)
(* Fairness.  nexus-proxy's ticker calls Flush for ever and every step of  *)
(* a Flush ends.  A write and a rename tried again and again succeed.       *)
(***************************************************************************)
Fairness == \A f \in Flushers :
    /\ WF_vars(Flush(f))
    /\ SF_vars(WriteTemporary(f))
    /\ SF_vars(Rename(f))

FairSpec == Spec /\ Fairness

-----------------------------------------------------------------------------
(* Properties. *)

Consistent(state) ==
    /\ Len(state.attestations) = Smaller(state.verified + state.rejected, AttCap)
    /\ Len(state.requests) = Smaller(state.encrypted + state.failed, ReqCap)

(* ledger.go:127, 140, 157 and store.go:75-160: the totals the user is      *)
(* shown account for the history beside them, in memory, in the copy being  *)
(* written and in the file, through evictions, torn flushes and restarts.   *)
Accounted ==
    /\ Consistent(mem) /\ Consistent(disk)
    /\ \A f \in Flushers : Consistent(data[f])

(* ledger.go:142: rejected records get their identifier from a 16 bit       *)
(* counter that restarts continue; while both records are listed no two     *)
(* share one, although the counter wraps.                                   *)
RejectedIdsDistinct ==
    \A i, j \in DOMAIN mem.attestations :
        /\ mem.attestations[i].outcome = "rejected"
        /\ mem.attestations[j].outcome = "rejected"
        /\ mem.attestations[i].id = mem.attestations[j].id
        => i = j

(* store.go:20-23, ledger.go:212-222: every verification listed can still be *)
(* exported as signed evidence, also when it was made by a process before   *)
(* the last restart.  Records of one key share their identifier: what       *)
(* Document returns for an older one is of a later verification of the same *)
(* key, never of an earlier one, whatever has been evicted in between.      *)
ListedIsExportable ==
    \A i \in DOMAIN mem.attestations :
        LET record == mem.attestations[i]
        IN  record.outcome = "verified" =>
                record.document # 0 /\ Document(record.id) >= record.document

NotBefore(a, b) ==
    /\ a.verified >= b.verified /\ a.rejected >= b.rejected
    /\ a.encrypted >= b.encrypted /\ a.failed >= b.failed

(* client.go:104, "Call Close or Flush to write pending changes": when      *)
(* Flush returns nil, the file has everything recorded before the call.     *)
FlushedIsOnDisk == \A f \in Flushers : pc[f] = "saved" => NotBefore(disk, owed[f])

(* ledger.go:174, "Persistent reports whether history survives a restart":  *)
(* no flush replaces the file by an older history.  With one flusher that is*)
(* so; with two, an older copy may be renamed over a newer file.            *)
DiskNeverGoesBack == [][NotBefore(disk', disk)]_disk

(* With one flusher the ledger keeps the promise of DurableHistory, whose    *)
(* history is the records counted by the totals.                            *)
CallOf(f) == [state |-> CASE pc[f] = "idle" -> "idle" [] pc[f] = "saved" -> "done"
                          [] OTHER -> "pending",
              at |-> Count(owed[f])]
History == INSTANCE DurableHistory WITH
    Savers <- Flushers,
    recorded <- Count(mem),
    saved <- Count(disk),
    call <- [f \in Flushers |-> CallOf(f)]
ImplementsHistory == History!Spec

(* Records are not lost to a race with a flush or to a failed write: once   *)
(* recording pauses, the file comes to hold the ledger (main.go:125-141).   *)
EverythingReachesDisk == <>[](disk = Encoded(mem))

=============================================================================
