---------------------------- MODULE LedgerProofs ----------------------------
(***************************************************************************)
(* Proofs about Ledger for any keys, caps and identifier space, and any    *)
(* number of records and deaths.                                           *)
(***************************************************************************)
EXTENDS Ledger, NaturalRecursion, SequenceTheorems, TLAPS

-----------------------------------------------------------------------------
(* What the two operations on capped histories return (ledger.go:234,      *)
(* store.go:91).                                                            *)

LEMMA AppendCapped ==
    ASSUME NEW S, NEW items \in Seq(S), NEW item \in S, NEW limit \in Nat \ {0},
           Len(items) <= limit, NEW new, new = appendCapped(items, item, limit)
    PROVE  /\ new \in Seq(S)
           /\ Len(new) = Smaller(Len(items) + 1, limit)
           /\ new[Len(new)] = item
           /\ \A i \in 1..(Len(new) - 1) : new[i] = items[i + (Len(items) + 1 - Len(new))]
<1>1. CASE Len(items) < limit
  BY <1>1 DEF appendCapped, Smaller
<1>2. CASE Len(items) = limit
  <2>1. items # <<>> /\ Tail(items) \in Seq(S) /\ Len(Tail(items)) = Len(items) - 1
    BY <1>2
  <2>2. new = Append(Tail(items), item)
    BY <1>2 DEF appendCapped
  <2>3. /\ new \in Seq(S) /\ Len(new) = Len(items) /\ new[Len(new)] = item
        /\ \A i \in 1..(Len(new) - 1) : new[i] = Tail(items)[i]
    BY <2>1, <2>2
  <2>4. \A i \in 1..(Len(items) - 1) : Tail(items)[i] = items[i + 1]
    BY <2>1
  <2> QED
    BY <1>2, <2>3, <2>4 DEF Smaller
<1> QED
  BY <1>1, <1>2

LEMMA NewestKeeps ==
    ASSUME NEW S, NEW items \in Seq(S), NEW limit \in Nat
    PROVE  /\ Newest(items, limit) \in Seq(S)
           /\ Len(Newest(items, limit)) = Smaller(Len(items), limit)
           /\ \A i \in 1..Len(Newest(items, limit)) :
                 Newest(items, limit)[i] = items[Len(items) - Smaller(Len(items), limit) + i]
<1>1. Len(items) \in Nat
  OBVIOUS
<1>2. PICK kept \in 0..Len(items) : kept = Smaller(Len(items), limit)
  BY <1>1 DEF Smaller
<1>3. Newest(items, limit) = SubSeq(items, Len(items) - kept + 1, Len(items))
  BY <1>2 DEF Newest
<1>4. /\ Len(items) - kept + 1 \in Int
      /\ \A i \in (Len(items) - kept + 1)..Len(items) : items[i] \in S
  BY <1>1, <1>2
<1>5. /\ Newest(items, limit) \in Seq(S)
      /\ Len(Newest(items, limit)) = IF Len(items) - kept + 1 <= Len(items) THEN kept ELSE 0
      /\ \A i \in 1..kept : Newest(items, limit)[i] = items[Len(items) - kept + i]
  BY <1>1, <1>2, <1>3, <1>4, SubSeqProperties
<1> QED
  BY <1>1, <1>2, <1>5

-----------------------------------------------------------------------------
(***************************************************************************)
(* What is true of every copy of the history: in memory, in a flush, in    *)
(* the file.                                                               *)
(***************************************************************************)

(* Verifications are listed in their order, with the documents they retain. *)
Exportable(state) ==
    LET records == state.attestations
    IN  \A i \in DOMAIN records :
          /\ records[i].outcome = "verified" => records[i].document # 0
          /\ records[i].document <= state.verified
          /\ records[i].document # 0 =>
                \A j \in 1..(i - 1) : records[j].document <= records[i].document

(* Records can be numbered by the total of rejections at the time of each;  *)
(* no more rejections follow a record than there are records after it.      *)
Numbered(state) ==
    LET records == state.attestations
    IN  \E number \in [1..Len(records) -> Int] :
          /\ \A i \in 1..Len(records) :
                number[i] <= state.rejected /\ state.rejected - number[i] <= Len(records) - i
          /\ \A j \in 1..Len(records) : records[j].outcome = "rejected" =>
                /\ number[j] \in Nat /\ records[j].id = number[j] % IdSpace
                /\ \A i \in 1..(j - 1) : number[i] < number[j]

Good(state) == Consistent(state) /\ Exportable(state) /\ Numbered(state)

(* What has been encoded once is not changed by being encoded again. *)
Settled(state) == Good(state) /\ Encoded(state) = state

HistoryInv == Good(mem) /\ Settled(disk) /\ \A f \in Flushers : Settled(data[f])

LEMMA EmptyGood == Empty \in States /\ Settled(Empty)
<1> USE CapAssumption DEF Empty, States
<1>1. Empty \in States
  OBVIOUS
<1>2. Consistent(Empty)
  BY DEF Consistent, Smaller
<1>3. Exportable(Empty)
  BY DEF Exportable
<1>4. Numbered(Empty)
  <2> DEFINE records == Empty.attestations
             number == [i \in 1..Len(records) |-> 0]
  <2>1. 1..Len(records) = {}
    OBVIOUS
  <2>2. number \in [1..Len(records) -> Int]
    OBVIOUS
  <2> HIDE DEF number, records
  <2>3. \E n \in [1..Len(records) -> Int] : \A i \in 1..Len(records) : FALSE
    BY <2>1, <2>2
  <2> HIDE DEF Empty
  <2> QED
    BY <2>1, <2>3 DEF Numbered, records
<1>5. Encoded(Empty) = Empty
  <2>1. [i \in DOMAIN Empty.attestations |-> persistedAttestation(Empty.attestations[i])] = <<>>
    OBVIOUS
  <2> QED
    BY <2>1 DEF Encoded
<1> QED
  BY <1>1, <1>2, <1>3, <1>4, <1>5 DEF Good, Settled

LEMMA Capped ==
    ASSUME NEW state \in States, Good(state)
    PROVE  Len(state.attestations) <= AttCap /\ Len(state.requests) <= ReqCap
BY CapAssumption DEF States, Good, Consistent, Smaller

LEMMA AddAttestation ==
    ASSUME NEW state \in States, NEW new \in States, NEW record \in Attestations, Good(state),
           new.attestations = appendCapped(state.attestations, record, AttCap),
           new.requests = state.requests,
           new.encrypted = state.encrypted, new.failed = state.failed,
           \/ /\ record.outcome = "verified" /\ record.document = state.verified + 1
              /\ new.verified = state.verified + 1 /\ new.rejected = state.rejected
           \/ /\ record.outcome = "rejected" /\ record.id = (state.rejected + 1) % IdSpace
              /\ record.document = 0
              /\ new.verified = state.verified /\ new.rejected = state.rejected + 1
    PROVE  Good(new)
<1> DEFINE items == state.attestations
           records == new.attestations
           gone == Len(items) + 1 - Len(records)
<1>1. /\ items \in Seq(Attestations) /\ Len(items) \in Nat /\ Len(items) <= AttCap
      /\ state.verified \in Nat /\ state.rejected \in Nat
      /\ Len(items) = Smaller(state.verified + state.rejected, AttCap)
  BY CapAssumption DEF States, Good, Consistent, Smaller
<1>a. records = appendCapped(items, record, AttCap)
  OBVIOUS
<1> HIDE DEF items, records
<1>2. /\ records \in Seq(Attestations)
      /\ Len(records) = Smaller(Len(items) + 1, AttCap)
      /\ records[Len(records)] = record
      /\ \A i \in 1..(Len(records) - 1) : records[i] = items[i + gone]
  <2>1. AttCap \in Nat \ {0} /\ items \in Seq(Attestations) /\ Len(items) <= AttCap
    BY <1>1, CapAssumption
  <2> QED
    BY <1>a, <2>1, AppendCapped
<1>3. /\ Len(records) \in Nat \ {0} /\ gone \in {0, 1}
      /\ Len(items) + 1 - gone = Len(records)
  BY <1>1, <1>2, CapAssumption DEF Smaller
<1> HIDE DEF gone
<1>4. \A i \in 1..(Len(records) - 1) : i + gone \in 1..Len(items)
  BY <1>1, <1>3
<1>5. Consistent(new)
  <2>1. Len(records) = Smaller(new.verified + new.rejected, AttCap)
    BY <1>1, <1>2, CapAssumption DEF Smaller
  <2>2. Len(new.requests) = Smaller(new.encrypted + new.failed, ReqCap)
    BY DEF Good, Consistent
  <2> QED
    BY <2>1, <2>2 DEF Consistent, records
<1>6. Exportable(new)
  <2>1. /\ new.verified \in Nat /\ state.verified <= new.verified
        /\ record.document \in Nat /\ record.document <= new.verified
        /\ record.document # 0 => state.verified <= record.document
        /\ record.outcome = "verified" => record.document # 0
    BY <1>1
  <2>2. ASSUME NEW i \in 1..(Len(records) - 1)
        PROVE  /\ records[i].document \in Nat /\ records[i].document <= state.verified
               /\ records[i].outcome = "verified" => records[i].document # 0
               /\ records[i].document # 0 =>
                     \A j \in 1..(i - 1) : records[j].document <= records[i].document
    <3>1. PICK k \in 1..Len(items) : k = i + gone /\ records[i] = items[k]
      BY <1>2, <1>4
    <3>2. /\ items[k].document <= state.verified
          /\ items[k].outcome = "verified" => items[k].document # 0
          /\ items[k].document # 0 => \A j \in 1..(k - 1) : items[j].document <= items[k].document
      BY <1>1 DEF Good, Exportable, items
    <3>3. items[k].document \in Nat
      BY <1>1 DEF Attestations
    <3>4. ASSUME NEW j \in 1..(i - 1)
          PROVE  j + gone \in 1..(k - 1) /\ records[j] = items[j + gone]
      BY <1>2, <1>3, <3>1
    <3> QED
      BY <3>1, <3>2, <3>3, <3>4
  <2>3. ASSUME NEW i \in 1..Len(records)
        PROVE  /\ records[i].outcome = "verified" => records[i].document # 0
               /\ records[i].document <= new.verified
               /\ records[i].document # 0 =>
                     \A j \in 1..(i - 1) : records[j].document <= records[i].document
    <3>1. CASE i = Len(records)
      <4>1. \A j \in 1..(i - 1) : records[j].document \in Nat /\ records[j].document <= state.verified
        BY <2>2, <3>1
      <4>2. state.verified \in Nat
        BY <1>1
      <4> QED
        BY <1>2, <2>1, <3>1, <4>1, <4>2
    <3>2. CASE i \in 1..(Len(records) - 1)
      <4>1. state.verified \in Nat
        BY <1>1
      <4> QED
        BY <2>1, <2>2, <3>2, <4>1
    <3> QED
      BY <1>3, <3>1, <3>2
  <2> QED
    BY <1>2, <2>3 DEF Exportable, records
<1>7. Numbered(new)
  <2>1. PICK number \in [1..Len(items) -> Int] :
          /\ \A i \in 1..Len(items) :
                number[i] <= state.rejected /\ state.rejected - number[i] <= Len(items) - i
          /\ \A j \in 1..Len(items) : items[j].outcome = "rejected" =>
                /\ number[j] \in Nat /\ items[j].id = number[j] % IdSpace
                /\ \A i \in 1..(j - 1) : number[i] < number[j]
    BY DEF Good, Numbered, items
  <2> DEFINE next == [i \in 1..Len(records) |->
                        IF i = Len(records) THEN new.rejected ELSE number[i + gone]]
  <2>2. new.rejected \in Nat /\ new.rejected \in state.rejected..(state.rejected + 1)
    BY <1>1
  <2>3. next \in [1..Len(records) -> Int]
    BY <1>3, <1>4, <2>1, <2>2
  <2>4. \A i \in 1..(Len(records) - 1) :
          /\ next[i] = number[i + gone] /\ records[i] = items[i + gone]
          /\ i + gone \in 1..Len(items)
    BY <1>2, <1>4
  <2>5. next[Len(records)] = new.rejected
    BY <1>3
  <2> HIDE DEF next
  <2>6. ASSUME NEW i \in 1..Len(records)
        PROVE  next[i] <= new.rejected /\ new.rejected - next[i] <= Len(records) - i
    <3>1. CASE i = Len(records)
      BY <1>3, <2>2, <2>5, <3>1
    <3>2. CASE i \in 1..(Len(records) - 1)
      <4>1. PICK k \in 1..Len(items) : k = i + gone /\ next[i] = number[k]
        BY <2>4, <3>2
      <4>2. number[k] \in Int /\ number[k] <= state.rejected /\ state.rejected - number[k] <= Len(items) - k
        BY <2>1
      <4>3. new.rejected - state.rejected <= 1 /\ state.rejected <= new.rejected
        BY <1>1
      <4>4. Len(items) - k = Len(records) - i - 1
        BY <1>1, <1>3, <4>1
      <4>5. /\ state.rejected \in Int /\ new.rejected \in Int /\ k \in Int /\ i \in Int
            /\ Len(items) \in Int /\ Len(records) \in Int
        BY <1>1, <1>3, <2>2
      <4>6. next[i] = number[k]
        BY <4>1
      <4> QED
        BY <4>2, <4>3, <4>4, <4>5, <4>6
    <3> QED
      BY <1>3, <3>1, <3>2
  <2>7. ASSUME NEW j \in 1..Len(records), records[j].outcome = "rejected"
        PROVE  /\ next[j] \in Nat /\ records[j].id = next[j] % IdSpace
               /\ \A i \in 1..(j - 1) : next[i] < next[j]
    <3>1. CASE j = Len(records)
      <4>1. new.rejected = state.rejected + 1 /\ record.id = new.rejected % IdSpace
        BY <1>2, <2>7, <3>1
      <4>2. ASSUME NEW i \in 1..(j - 1) PROVE next[i] < new.rejected
        <5>1. number[i + gone] <= state.rejected /\ number[i + gone] \in Int
          BY <1>1, <2>1, <2>4, <3>1
        <5> QED
          BY <1>1, <2>4, <3>1, <4>1, <5>1
      <4> QED
        BY <1>2, <1>3, <2>2, <2>5, <3>1, <4>1, <4>2
    <3>2. CASE j \in 1..(Len(records) - 1)
      <4>1. /\ number[j + gone] \in Nat /\ items[j + gone].id = number[j + gone] % IdSpace
            /\ \A i \in 1..(j + gone - 1) : number[i] < number[j + gone]
        <5>1. PICK k \in 1..Len(items) : k = j + gone
          BY <2>4, <3>2
        <5>2. items[k].outcome = "rejected"
          BY <2>4, <2>7, <3>2, <5>1
        <5>3. /\ number[k] \in Nat /\ items[k].id = number[k] % IdSpace
              /\ \A i \in 1..(k - 1) : number[i] < number[k]
          BY <2>1, <5>2
        <5> QED
          BY <1>3, <5>1, <5>3
      <4>2. ASSUME NEW i \in 1..(j - 1)
            PROVE  i \in 1..(Len(records) - 1) /\ i + gone \in 1..(j + gone - 1)
        BY <1>3, <3>2
      <4> QED
        BY <2>4, <3>2, <4>1, <4>2
    <3> QED
      BY <1>3, <3>1, <3>2
  <2> QED
    BY <2>3, <2>6, <2>7 DEF Numbered, records
<1> QED
  BY <1>5, <1>6, <1>7 DEF Good

LEMMA AddRequest ==
    ASSUME NEW state \in States, NEW new \in States, NEW outcome \in Requests, Good(state),
           new.requests = appendCapped(state.requests, outcome, ReqCap),
           new.attestations = state.attestations,
           new.verified = state.verified, new.rejected = state.rejected,
           new.encrypted + new.failed = state.encrypted + state.failed + 1
    PROVE  Good(new)
<1>1. /\ state.requests \in Seq(Requests) /\ Len(state.requests) \in Nat
      /\ state.encrypted \in Nat /\ state.failed \in Nat
      /\ Len(state.requests) = Smaller(state.encrypted + state.failed, ReqCap)
  BY DEF States, Good, Consistent
<1>2. Len(state.requests) <= ReqCap
  BY <1>1, CapAssumption DEF Smaller
<1>3. Len(new.requests) = Smaller(Len(state.requests) + 1, ReqCap)
  BY <1>1, <1>2, AppendCapped, CapAssumption
<1>4. Len(new.requests) = Smaller(new.encrypted + new.failed, ReqCap)
  BY <1>1, <1>3, CapAssumption DEF Smaller
<1> QED
  BY <1>4 DEF Good, Consistent, Exportable, Numbered

(* Reading a file back changes nothing about a good history. *)
LEMMA LoadedGood ==
    ASSUME NEW file \in States, Good(file)
    PROVE  Loaded(file) \in States /\ Good(Loaded(file))
<1> DEFINE new == Loaded(file)
<1>1. /\ file.attestations \in Seq(Attestations) /\ file.requests \in Seq(Requests)
      /\ Len(file.attestations) \in Nat /\ Len(file.requests) \in Nat
      /\ Len(file.attestations) <= AttCap /\ Len(file.requests) <= ReqCap
  BY CapAssumption DEF States, Good, Consistent, Smaller
<1>2. Newest(file.attestations, AttCap) = file.attestations
  <2>1. Smaller(Len(file.attestations), AttCap) = Len(file.attestations)
    BY <1>1 DEF Smaller
  <2>2. Len(Newest(file.attestations, AttCap)) = Len(file.attestations)
    BY <1>1, <2>1, NewestKeeps, CapAssumption
  <2>3. \A i \in 1..Len(file.attestations) :
          Newest(file.attestations, AttCap)[i] = file.attestations[i]
    BY <1>1, <2>1, <2>2, NewestKeeps, CapAssumption
  <2>4. Newest(file.attestations, AttCap) \in Seq(Attestations)
    BY <1>1, NewestKeeps, CapAssumption
  <2> QED
    BY <1>1, <2>2, <2>3, <2>4, SeqEqual
<1>3. Newest(file.requests, ReqCap) = file.requests
  <2>1. Smaller(Len(file.requests), ReqCap) = Len(file.requests)
    BY <1>1 DEF Smaller
  <2>2. Len(Newest(file.requests, ReqCap)) = Len(file.requests)
    BY <1>1, <2>1, NewestKeeps, CapAssumption
  <2>3. \A i \in 1..Len(file.requests) :
          Newest(file.requests, ReqCap)[i] = file.requests[i]
    BY <1>1, <2>1, <2>2, NewestKeeps, CapAssumption
  <2>4. Newest(file.requests, ReqCap) \in Seq(Requests)
    BY <1>1, NewestKeeps, CapAssumption
  <2> QED
    BY <1>1, <2>2, <2>3, <2>4, SeqEqual
<1>4. new = file
  BY <1>2, <1>3 DEF Loaded, States
<1> QED
  BY <1>4

(* json.Marshal writes every record with its evidence, whatever it does to  *)
(* the manifest, and does nothing more to what it has written once.         *)
LEMMA EncodedKeeps ==
    ASSUME NEW state \in States, Good(state)
    PROVE  /\ Encoded(state) \in States /\ Settled(Encoded(state))
           /\ Encoded(state).verified = state.verified /\ Encoded(state).rejected = state.rejected
           /\ Encoded(state).encrypted = state.encrypted /\ Encoded(state).failed = state.failed
<1> DEFINE records == state.attestations
           written == [i \in DOMAIN records |-> persistedAttestation(records[i])]
           new == Encoded(state)
<1>1. records \in Seq(Attestations) /\ Len(records) \in Nat
  BY DEF States
<1>2. \A r \in Attestations :
         /\ persistedAttestation(r) \in Attestations
         /\ persistedAttestation(r).outcome = r.outcome /\ persistedAttestation(r).id = r.id
         /\ persistedAttestation(r).document = r.document
         /\ persistedAttestation(persistedAttestation(r)) = persistedAttestation(r)
  BY DEF persistedAttestation, Attestations, Manifests, Sent
<1>3. /\ written \in Seq(Attestations) /\ Len(written) = Len(records)
      /\ DOMAIN written = 1..Len(records) /\ DOMAIN records = 1..Len(records)
      /\ \A i \in 1..Len(records) :
            /\ written[i] = persistedAttestation(records[i]) /\ records[i] \in Attestations
            /\ written[i].outcome = records[i].outcome /\ written[i].id = records[i].id
            /\ written[i].document = records[i].document
  BY <1>1, <1>2
<1>4. new = [state EXCEPT !.attestations = written]
  BY DEF Encoded
<1> HIDE DEF written, new
<1>5. /\ new \in States /\ new.attestations = written /\ new.requests = state.requests
      /\ new.verified = state.verified /\ new.rejected = state.rejected
      /\ new.encrypted = state.encrypted /\ new.failed = state.failed
  BY <1>3, <1>4 DEF States
<1>6. Consistent(new)
  BY <1>3, <1>5 DEF Good, Consistent
<1>7. Exportable(new)
  BY <1>3, <1>5 DEF Good, Exportable
<1>8. Numbered(new)
  BY <1>3, <1>5 DEF Good, Numbered
<1>9. Encoded(new) = new
  <2>1. [i \in DOMAIN written |-> persistedAttestation(written[i])] = written
    <3>1. \A i \in 1..Len(records) : persistedAttestation(written[i]) = written[i]
      BY <1>2, <1>3
    <3>2. written = [i \in DOMAIN written |-> written[i]]
      BY <1>3
    <3> QED
      BY <1>3, <3>1, <3>2
  <2>2. Encoded(new) = [new EXCEPT !.attestations = written]
    BY <1>5, <2>1 DEF Encoded
  <2> QED
    BY <1>5, <2>2 DEF States
<1> QED
  BY <1>5, <1>6, <1>7, <1>8, <1>9 DEF Good, Settled, new

-----------------------------------------------------------------------------
IInv == TypeOK /\ HistoryInv

LEMMA InitIInv == Init => IInv
<1> SUFFICES ASSUME Init PROVE IInv
  OBVIOUS
<1>1. TypeOK
  BY EmptyGood DEF Init, TypeOK, PCs
<1>2. HistoryInv
  BY EmptyGood DEF Init, HistoryInv, Settled
<1> QED
  BY <1>1, <1>2 DEF IInv

LEMMA StepIInv == IInv /\ [Next]_vars => IInv'
<1> SUFFICES ASSUME IInv, [Next]_vars PROVE IInv'
  OBVIOUS
<1> USE DEF IInv, TypeOK, HistoryInv, PCs, Goto, flushVars
<1>1. ASSUME NEW k \in Keys, NEW m \in Sent,
             Record([mem EXCEPT !.verified = @ + 1,
                       !.attestations = appendCapped(@, Verified(k, mem.verified + 1, m), AttCap)])
      PROVE  IInv'
  <2>1. /\ Verified(k, mem.verified + 1, m) \in Attestations
        /\ Verified(k, mem.verified + 1, m).outcome = "verified"
        /\ Verified(k, mem.verified + 1, m).document = mem.verified + 1
    BY DEF Verified, Attestations, Manifests, States
  <2>2. appendCapped(mem.attestations, Verified(k, mem.verified + 1, m), AttCap) \in Seq(Attestations)
    <3>1. mem.attestations \in Seq(Attestations)
      BY DEF States
    <3> QED
      BY <2>1, <3>1, Capped, AppendCapped, CapAssumption
  <2>3. /\ mem' \in States
        /\ mem'.attestations = appendCapped(mem.attestations, Verified(k, mem.verified + 1, m), AttCap)
        /\ mem'.verified = mem.verified + 1 /\ mem'.rejected = mem.rejected
        /\ mem'.requests = mem.requests /\ mem'.encrypted = mem.encrypted /\ mem'.failed = mem.failed
    <3>1. PICK items \in Seq(Attestations) : items = appendCapped(mem.attestations, Verified(k, mem.verified + 1, m), AttCap)
      BY <2>2
    <3>2. PICK verified \in Nat : verified = mem.verified + 1
      BY DEF States
    <3>3. mem' = [mem EXCEPT !.verified = verified, !.attestations = items]
      BY <1>1, <3>1, <3>2 DEF Record
    <3>4. mem \in States
      OBVIOUS
    <3> HIDE DEF IInv, TypeOK, HistoryInv
    <3>5. /\ mem' \in States
          /\ mem'.attestations = items /\ mem'.verified = verified
          /\ mem'.rejected = mem.rejected /\ mem'.requests = mem.requests
          /\ mem'.encrypted = mem.encrypted /\ mem'.failed = mem.failed
      BY <3>3, <3>4 DEF States
    <3> QED
      BY <3>1, <3>2, <3>5
  <2>4. Good(mem')
    BY <2>1, <2>3, AddAttestation
  <2> QED
    BY <1>1, <2>3, <2>4 DEF Record
<1>2. CASE RecordRejected
  <2>1. /\ Rejected(mem.rejected + 1) \in Attestations
        /\ Rejected(mem.rejected + 1).outcome = "rejected"
        /\ Rejected(mem.rejected + 1).id = (mem.rejected + 1) % IdSpace
        /\ Rejected(mem.rejected + 1).document = 0
    BY IdAssumption, CapAssumption DEF Rejected, Attestations, Manifests, States
  <2>2. appendCapped(mem.attestations, Rejected(mem.rejected + 1), AttCap) \in Seq(Attestations)
    <3>1. mem.attestations \in Seq(Attestations)
      BY DEF States
    <3> QED
      BY <2>1, <3>1, Capped, AppendCapped, CapAssumption
  <2>3. /\ mem' \in States
        /\ mem'.attestations = appendCapped(mem.attestations, Rejected(mem.rejected + 1), AttCap)
        /\ mem'.verified = mem.verified /\ mem'.rejected = mem.rejected + 1
        /\ mem'.requests = mem.requests /\ mem'.encrypted = mem.encrypted /\ mem'.failed = mem.failed
    <3>1. PICK items \in Seq(Attestations) : items = appendCapped(mem.attestations, Rejected(mem.rejected + 1), AttCap)
      BY <2>2
    <3>2. PICK rejected \in Nat : rejected = mem.rejected + 1
      BY DEF States
    <3>3. mem' = [mem EXCEPT !.rejected = rejected, !.attestations = items]
      BY <1>2, <3>1, <3>2 DEF RecordRejected, Record
    <3>4. mem \in States
      OBVIOUS
    <3> HIDE DEF IInv, TypeOK, HistoryInv
    <3>5. /\ mem' \in States
          /\ mem'.attestations = items /\ mem'.rejected = rejected
          /\ mem'.verified = mem.verified /\ mem'.requests = mem.requests
          /\ mem'.encrypted = mem.encrypted /\ mem'.failed = mem.failed
      BY <3>3, <3>4 DEF States
    <3> QED
      BY <3>1, <3>2, <3>5
  <2>4. Good(mem')
    BY <2>1, <2>3, AddAttestation
  <2> QED
    BY <1>2, <2>3, <2>4 DEF RecordRejected, Record
<1>3. ASSUME NEW outcome \in Requests, RecordRequest(outcome) PROVE IInv'
  <2>1. mem.encrypted \in Nat /\ mem.failed \in Nat
    BY DEF States
  <2>2. appendCapped(mem.requests, outcome, ReqCap) \in Seq(Requests)
    <3>1. mem.requests \in Seq(Requests)
      BY DEF States
    <3> QED
      BY <2>1, <3>1, Capped, AppendCapped, CapAssumption
  <2>3. /\ mem' \in States
        /\ mem'.requests = appendCapped(mem.requests, outcome, ReqCap)
        /\ mem'.encrypted + mem'.failed = mem.encrypted + mem.failed + 1
        /\ mem'.attestations = mem.attestations /\ mem'.verified = mem.verified /\ mem'.rejected = mem.rejected
    <3>1. PICK items \in Seq(Requests) : items = appendCapped(mem.requests, outcome, ReqCap)
      BY <2>2
    <3>2. PICK encrypted \in Nat, failed \in Nat :
            /\ encrypted = IF outcome = "encrypted" THEN mem.encrypted + 1 ELSE mem.encrypted
            /\ failed = IF outcome = "encrypted" THEN mem.failed ELSE mem.failed + 1
      BY <2>1
    <3>3. mem' = [mem EXCEPT !.encrypted = encrypted, !.failed = failed, !.requests = items]
      BY <1>3, <3>1, <3>2 DEF RecordRequest, Record
    <3>4. encrypted + failed = mem.encrypted + mem.failed + 1
      BY <2>1, <3>2
    <3>5. mem \in States
      OBVIOUS
    <3> HIDE DEF IInv, TypeOK, HistoryInv
    <3>6. /\ mem' \in States
          /\ mem'.requests = items /\ mem'.encrypted = encrypted /\ mem'.failed = failed
          /\ mem'.attestations = mem.attestations
          /\ mem'.verified = mem.verified /\ mem'.rejected = mem.rejected
      BY <3>3, <3>5 DEF States
    <3> QED
      BY <3>1, <3>4, <3>6
  <2>4. Good(mem')
    BY <2>1, <2>3, AddRequest
  <2> QED
    BY <1>3, <2>3, <2>4 DEF RecordRequest, Record
<1>4. ASSUME NEW f \in Flushers, Flush(f) PROVE IInv'
  <2>1. CASE FlushClean(f)
    BY <2>1 DEF FlushClean
  <2>2. CASE FlushClaim(f)
    BY <2>2 DEF FlushClaim
  <2>3. CASE snapshotForDisk(f)
    <3>1. Encoded(mem) \in States /\ Settled(Encoded(mem))
      BY EncodedKeeps
    <3> QED
      BY <2>3, <3>1 DEF snapshotForDisk
  <2>4. CASE WriteTemporary(f)
    BY <2>4 DEF WriteTemporary
  <2>5. CASE Rename(f)
    BY <2>5, EmptyGood DEF Rename
  <2>6. CASE FlushFails(f)
    BY <2>6, EmptyGood DEF FlushFails
  <2>7. CASE FlushReturns(f)
    BY <2>7, EmptyGood DEF FlushReturns
  <2> QED
    BY <1>4, <2>1, <2>2, <2>3, <2>4, <2>5, <2>6, <2>7 DEF Flush
<1>5. CASE Crash
  <2>1. mem' \in States /\ Good(mem')
    BY <1>5, LoadedGood DEF Crash, Settled
  <2>2. /\ TypeOK'
        /\ \A f \in Flushers : data'[f] = Empty
    <3>1. Empty \in States
      BY EmptyGood
    <3>2. /\ pc' \in [Flushers -> PCs] /\ data' \in [Flushers -> States]
          /\ owed' \in [Flushers -> States]
      BY <1>5, <3>1 DEF Crash
    <3>3. \A f \in Flushers : data'[f] = Empty
      BY <1>5 DEF Crash
    <3>4. crashes' \in Nat
      BY <1>5 DEF Crash
    <3>5. disk' \in States /\ dirty' \in BOOLEAN
      BY <1>5 DEF Crash
    <3> QED
      BY <2>1, <3>2, <3>3, <3>4, <3>5
  <2> QED
    BY <1>5, <2>1, <2>2, EmptyGood DEF Crash
<1>6. CASE UNCHANGED vars
  BY <1>6 DEF vars
<1> QED
  BY <1>1, <1>2, <1>3, <1>4, <1>5, <1>6 DEF Next, RecordVerified

LEMMA SpecIInv == Spec => []IInv
BY InitIInv, StepIInv, PTL DEF Spec

-----------------------------------------------------------------------------
(* Numbers less than n apart have different remainders.                     *)
LEMMA RemaindersDiffer ==
    ASSUME NEW n \in Nat \ {0}, NEW a \in Nat, NEW b \in Nat, a < b, b - a < n
    PROVE  a % n # b % n
<1> SUFFICES ASSUME a % n = b % n PROVE FALSE
  OBVIOUS
<1>1. PICK p \in Int : a = n * p + (a % n)
  <2>1. a \div n \in Int
    OBVIOUS
  <2>2. a = n * (a \div n) + (a % n)
    OBVIOUS
  <2> QED
    BY <2>1, <2>2
<1>2. PICK q \in Int : b = n * q + (b % n)
  <2>1. b \div n \in Int
    OBVIOUS
  <2>2. b = n * (b \div n) + (b % n)
    OBVIOUS
  <2> QED
    BY <2>1, <2>2
<1>3. a % n \in Nat /\ b % n \in Nat
  OBVIOUS
<1>4. b - a = n * q - n * p
  BY <1>1, <1>2, <1>3
<1>5. n * q - n * p = n * (q - p)
  OBVIOUS
<1>6. CASE q <= p
  <2>1. n * q <= n * p
    BY <1>6
  <2> QED
    BY <1>4, <2>1
<1>7. CASE q >= p + 1
  <2>1. n * q >= n * (p + 1)
    BY <1>7
  <2>2. n * (p + 1) = n * p + n
    OBVIOUS
  <2> QED
    BY <1>4, <2>1, <2>2
<1> QED
  BY <1>6, <1>7

LEMMA NumberedIsDistinct == IInv => RejectedIdsDistinct
<1> SUFFICES ASSUME IInv PROVE RejectedIdsDistinct
  OBVIOUS
<1> DEFINE records == mem.attestations
<1>1. ASSUME NEW i \in DOMAIN records, NEW j \in DOMAIN records, i < j,
             records[i].outcome = "rejected", records[j].outcome = "rejected"
      PROVE  records[i].id # records[j].id
  <2>1. /\ records \in Seq(Attestations) /\ Len(records) \in Nat
        /\ mem.rejected \in Nat /\ Len(records) <= AttCap
        /\ i \in 1..Len(records) /\ j \in 1..Len(records)
    BY Capped DEF IInv, TypeOK, HistoryInv, States
  <2>2. PICK number \in [1..Len(records) -> Int] :
          /\ \A m \in 1..Len(records) :
                number[m] <= mem.rejected /\ mem.rejected - number[m] <= Len(records) - m
          /\ \A m \in 1..Len(records) : records[m].outcome = "rejected" =>
                /\ number[m] \in Nat /\ records[m].id = number[m] % IdSpace
                /\ \A l \in 1..(m - 1) : number[l] < number[m]
    BY DEF IInv, HistoryInv, Good, Numbered
  <2> HIDE DEF records
  <2>3. /\ number[i] \in Nat /\ number[j] \in Nat
        /\ records[i].id = number[i] % IdSpace /\ records[j].id = number[j] % IdSpace
    BY <1>1, <2>1, <2>2
  <2>4. number[i] < number[j]
    <3>1. i \in 1..(j - 1)
      BY <1>1, <2>1
    <3> QED
      BY <1>1, <2>1, <2>2, <3>1
  <2>5. number[j] - number[i] < IdSpace
    <3>1. number[j] <= mem.rejected /\ mem.rejected - number[i] <= Len(records) - i
      BY <2>1, <2>2
    <3> QED
      BY <2>1, <2>3, <3>1, IdAssumption, CapAssumption
  <2>6. number[i] % IdSpace # number[j] % IdSpace
    BY <2>3, <2>4, <2>5, RemaindersDiffer, IdAssumption, CapAssumption
  <2> QED
    BY <2>3, <2>6
<1>2. records \in Seq(Attestations)
  BY DEF IInv, TypeOK, States
<1>3. \A i, j \in DOMAIN records : i # j => i < j \/ j < i
  BY <1>2
<1> QED
  BY <1>1, <1>3 DEF RejectedIdsDistinct

-----------------------------------------------------------------------------
LEMMA Largest ==
    ASSUME NEW n \in Nat, NEW S, S \subseteq 1..n, S # {}
    PROVE  \E m \in S : \A j \in S : j <= m
<1> DEFINE Bounded == {k \in Nat : \A T \in SUBSET (1..k) :
                                    T # {} => \E m \in T : \A j \in T : j <= m}
<1>1. 0 \in Bounded
  <2>1. SUBSET (1..0) = {{}}
    OBVIOUS
  <2>2. \A T \in {{}} : T # {} => \E m \in T : \A j \in T : j <= m
    OBVIOUS
  <2> QED
    BY <2>1, <2>2
<1>2. ASSUME NEW k \in Nat, k \in Bounded PROVE k + 1 \in Bounded
  <2> SUFFICES ASSUME NEW T \in SUBSET (1..(k + 1)), T # {}
               PROVE  \E m \in T : \A j \in T : j <= m
    OBVIOUS
  <2>1. CASE k + 1 \in T
    BY <2>1
  <2>2. CASE k + 1 \notin T
    <3>1. T \in SUBSET (1..k)
      BY <2>2
    <3> QED
      BY <1>2, <3>1
  <2> QED
    BY <2>1, <2>2
<1> HIDE DEF Bounded
<1>3. n \in Bounded
  BY <1>1, <1>2, Induction
<1> QED
  BY <1>3 DEF Bounded

LEMMA OrderedIsExportable == IInv => ListedIsExportable
<1> SUFFICES ASSUME IInv PROVE ListedIsExportable
  OBVIOUS
<1> DEFINE records == mem.attestations
<1> SUFFICES ASSUME NEW i \in DOMAIN records, records[i].outcome = "verified"
             PROVE  records[i].document # 0 /\ Document(records[i].id) >= records[i].document
  BY DEF ListedIsExportable
<1>1. records \in Seq(Attestations) /\ Len(records) \in Nat /\ DOMAIN records = 1..Len(records)
  BY DEF IInv, TypeOK, States
<1>2. \A k \in DOMAIN records :
        /\ records[k].outcome = "verified" => records[k].document # 0
        /\ records[k].document # 0 => \A j \in 1..(k - 1) : records[j].document <= records[k].document
  BY DEF IInv, HistoryInv, Good, Exportable
<1>3. \A k \in DOMAIN records : records[k].document \in Nat
  BY <1>1 DEF Attestations
<1> DEFINE same == Retaining(records[i].id)
<1>4. i \in same /\ same \subseteq 1..Len(records)
  BY <1>1, <1>2 DEF Retaining
<1>5. \A k \in same : records[k].document # 0
  BY DEF Retaining
<1> HIDE DEF same
<1>6. PICK m \in same : m = CHOOSE k \in same : \A j \in same : j <= k
  BY <1>1, <1>4, Largest
<1>7. \A j \in same : j <= m
  BY <1>1, <1>4, <1>6, Largest
<1>8. Document(records[i].id) = records[m].document
  BY <1>4, <1>6 DEF Document, same
<1>9. i \in DOMAIN records /\ m \in DOMAIN records /\ records[m].document # 0
  BY <1>1, <1>4, <1>5, <1>6
<1>10. i = m \/ i \in 1..(m - 1)
  BY <1>1, <1>4, <1>7, <1>9
<1>11. records[i].document <= records[m].document
  BY <1>2, <1>3, <1>9, <1>10
<1>12. records[i].document # 0
  BY <1>2
<1> QED
  BY <1>3, <1>8, <1>9, <1>11, <1>12

-----------------------------------------------------------------------------
(* ledger.go, store.go: every variable keeps its type.                      *)
THEOREM TypeCorrect == Spec => []TypeOK
<1>1. IInv => TypeOK
  BY DEF IInv
<1> QED
  BY <1>1, SpecIInv, PTL

(* Totals account for the history beside them, in memory, in the copy being *)
(* flushed and in the file, through evictions, failed flushes and restarts. *)
THEOREM TotalsAccount == Spec => []Accounted
<1>1. IInv => Accounted
  BY DEF IInv, HistoryInv, Settled, Good, Accounted
<1> QED
  BY <1>1, SpecIInv, PTL

(* No two rejected records of the list share an identifier, for any size of *)
(* the identifier space that is not smaller than the list (ledger.go:142).  *)
THEOREM IdsDistinct == Spec => []RejectedIdsDistinct
BY NumberedIsDistinct, SpecIInv, PTL

(* A verification that is listed can be exported, also after restarts, and  *)
(* never with the evidence of an earlier one (ledger.go:212-222).           *)
THEOREM Listed == Spec => []ListedIsExportable
BY OrderedIsExportable, SpecIInv, PTL

-----------------------------------------------------------------------------
(***************************************************************************)
(* With one goroutine that flushes, what it copied lies between the file   *)
(* and the ledger, and a clean ledger is on disk or on its way there.      *)
(***************************************************************************)
OneFlusher == \A f, g \in Flushers : f = g

SavedInv ==
    /\ NotBefore(mem, disk)
    /\ \A f \in Flushers :
          /\ pc[f] = "claimed" => NotBefore(mem, owed[f])
          /\ pc[f] \in {"write", "rename"} =>
                /\ NotBefore(mem, data[f]) /\ NotBefore(data[f], disk)
                /\ NotBefore(data[f], owed[f])
                /\ ~dirty => NotBefore(data[f], mem)
          /\ pc[f] = "saved" => NotBefore(disk, owed[f])
          /\ pc[f] \in {"idle", "saved"} /\ ~dirty => NotBefore(disk, mem)

LEMMA NotBeforeOrders ==
    /\ \A s \in States : NotBefore(s, s)
    /\ \A r, s, t \in States : NotBefore(r, s) /\ NotBefore(s, t) => NotBefore(r, t)
<1>1. \A s \in States : /\ s.verified \in Int /\ s.rejected \in Int
                        /\ s.encrypted \in Int /\ s.failed \in Int
  BY DEF States
<1>2. ASSUME NEW s \in States PROVE NotBefore(s, s)
  BY <1>1 DEF NotBefore
<1>3. ASSUME NEW r \in States, NEW s \in States, NEW t \in States,
             NotBefore(r, s), NotBefore(s, t)
      PROVE  NotBefore(r, t)
  BY <1>1, <1>3 DEF NotBefore
<1> QED
  BY <1>2, <1>3

(* What is read back counts what the file counted. *)
LEMMA LoadedCounts ==
    ASSUME NEW file \in States
    PROVE  NotBefore(Loaded(file), file) /\ NotBefore(file, Loaded(file))
BY DEF NotBefore, Loaded, States

(* What is written counts what the ledger counts. *)
LEMMA EncodedCounts ==
    ASSUME NEW state \in States, Good(state)
    PROVE  /\ Encoded(state) \in States
           /\ NotBefore(state, Encoded(state)) /\ NotBefore(Encoded(state), state)
<1>1. state.verified \in Nat /\ state.rejected \in Nat /\ state.encrypted \in Nat /\ state.failed \in Nat
  BY DEF States
<1> QED
  BY <1>1, EncodedKeeps DEF NotBefore

(* A record only adds to what is counted. *)
LEMMA RecordGrows ==
    ASSUME mem \in States,
           \/ \E k \in Keys : RecordVerified(k)
           \/ RecordRejected
           \/ \E outcome \in Requests : RecordRequest(outcome)
    PROVE  /\ NotBefore(mem', mem)
           /\ Count(mem') = Count(mem) + 1
           /\ dirty' = TRUE
           /\ UNCHANGED <<disk, pc, data, owed>>
<1>1. /\ mem.verified \in Nat /\ mem.rejected \in Nat
      /\ mem.encrypted \in Nat /\ mem.failed \in Nat
  BY DEF States
<1>2. CASE \E k \in Keys : RecordVerified(k)
  <2>1. PICK k \in Keys, m \in Sent :
          Record([mem EXCEPT !.verified = @ + 1,
                    !.attestations = appendCapped(@, Verified(k, mem.verified + 1, m), AttCap)])
    BY <1>2 DEF RecordVerified
  <2>2. /\ mem' = [mem EXCEPT !.verified = @ + 1,
                             !.attestations = appendCapped(@, Verified(k, mem.verified + 1, m), AttCap)]
        /\ dirty' = TRUE /\ UNCHANGED <<disk, pc, data, owed>>
    BY <2>1 DEF Record, flushVars
  <2>3. /\ mem'.verified = mem.verified + 1 /\ mem'.rejected = mem.rejected
        /\ mem'.encrypted = mem.encrypted /\ mem'.failed = mem.failed
    BY <2>2 DEF States
  <2> QED
    BY <1>1, <2>2, <2>3 DEF NotBefore, Count
<1>3. CASE RecordRejected
  <2>1. RecordRejected
    BY <1>3
  <2>2. /\ mem' = [mem EXCEPT !.rejected = @ + 1,
                             !.attestations = appendCapped(@, Rejected(mem.rejected + 1), AttCap)]
        /\ dirty' = TRUE /\ UNCHANGED <<disk, pc, data, owed>>
    BY <2>1 DEF RecordRejected, Record, flushVars
  <2>3. /\ mem'.rejected = mem.rejected + 1 /\ mem'.verified = mem.verified
        /\ mem'.encrypted = mem.encrypted /\ mem'.failed = mem.failed
    BY <2>2 DEF States
  <2> QED
    BY <1>1, <2>2, <2>3 DEF NotBefore, Count
<1>4. CASE \E outcome \in Requests : RecordRequest(outcome)
  <2>1. PICK outcome \in Requests : RecordRequest(outcome)
    BY <1>4
  <2>2. /\ mem' = [mem EXCEPT !.encrypted = IF outcome = "encrypted" THEN @ + 1 ELSE @,
                             !.failed = IF outcome = "encrypted" THEN @ ELSE @ + 1,
                             !.requests = appendCapped(@, outcome, ReqCap)]
        /\ dirty' = TRUE /\ UNCHANGED <<disk, pc, data, owed>>
    BY <2>1 DEF RecordRequest, Record, flushVars
  <2>3. /\ mem'.encrypted = IF outcome = "encrypted" THEN mem.encrypted + 1 ELSE mem.encrypted
        /\ mem'.failed = IF outcome = "encrypted" THEN mem.failed ELSE mem.failed + 1
        /\ mem'.verified = mem.verified /\ mem'.rejected = mem.rejected
    BY <2>2 DEF States
  <2> QED
    BY <1>1, <2>2, <2>3 DEF NotBefore, Count
<1> QED
  BY <1>2, <1>3, <1>4

LEMMA StepSaved ==
    ASSUME OneFlusher, IInv, IInv', SavedInv, [Next]_vars
    PROVE  SavedInv' /\ NotBefore(disk', disk)
<1> USE NotBeforeOrders DEF SavedInv, PCs, Goto
<1>0. TypeOK /\ TypeOK'
  BY DEF IInv
<1>1. CASE \/ \E k \in Keys : RecordVerified(k)
           \/ RecordRejected
           \/ \E outcome \in Requests : RecordRequest(outcome)
  <2>1. /\ NotBefore(mem', mem) /\ dirty' = TRUE
        /\ UNCHANGED <<disk, pc, data, owed>>
    BY <1>0, <1>1, RecordGrows DEF TypeOK
  <2> QED
    BY <1>0, <2>1 DEF TypeOK
<1>2. ASSUME NEW f \in Flushers, Flush(f) PROVE SavedInv' /\ NotBefore(disk', disk)
  <2> SUFFICES ASSUME Flushers = {f} PROVE SavedInv' /\ NotBefore(disk', disk)
    BY DEF OneFlusher
  <2>1. CASE FlushClean(f)
    BY <1>0, <2>1 DEF FlushClean, TypeOK
  <2>2. CASE FlushClaim(f)
    BY <1>0, <2>2 DEF FlushClaim, TypeOK
  <2>3. CASE snapshotForDisk(f)
    <3>1. Encoded(mem) \in States /\ NotBefore(mem, Encoded(mem)) /\ NotBefore(Encoded(mem), mem)
      BY <1>0, EncodedCounts DEF IInv, HistoryInv, TypeOK
    <3> QED
      BY <1>0, <2>3, <3>1 DEF snapshotForDisk, TypeOK
  <2>4. CASE WriteTemporary(f)
    BY <1>0, <2>4 DEF WriteTemporary, TypeOK
  <2>5. CASE Rename(f)
    BY <1>0, <2>5 DEF Rename, TypeOK
  <2>6. CASE FlushFails(f)
    BY <1>0, <2>6 DEF FlushFails, TypeOK
  <2>7. CASE FlushReturns(f)
    BY <1>0, <2>7 DEF FlushReturns, TypeOK
  <2> QED
    BY <1>2, <2>1, <2>2, <2>3, <2>4, <2>5, <2>6, <2>7 DEF Flush
<1>3. CASE Crash
  <2>1. NotBefore(mem', disk') /\ NotBefore(disk', mem')
    BY <1>0, <1>3, LoadedCounts DEF Crash, TypeOK
  <2> QED
    BY <1>0, <1>3, <2>1 DEF Crash, TypeOK
<1>4. CASE UNCHANGED vars
  BY <1>0, <1>4 DEF vars, TypeOK
<1> QED
  BY <1>1, <1>2, <1>3, <1>4 DEF Next

LEMMA InitSaved == Init => SavedInv
<1> SUFFICES ASSUME Init PROVE SavedInv
  OBVIOUS
<1>1. NotBefore(Empty, Empty)
  BY EmptyGood, NotBeforeOrders
<1> QED
  BY <1>1 DEF Init, SavedInv

LEMMA SpecSaved == ASSUME OneFlusher PROVE Spec => []SavedInv
<1>1. IInv /\ IInv' /\ SavedInv /\ [Next]_vars => SavedInv'
  BY StepSaved
<1> QED
  BY <1>1, InitSaved, SpecIInv, PTL DEF Spec

(* store.go:111-136: where one goroutine flushes, a Flush that returned nil *)
(* has written every record made before it was called.                      *)
THEOREM FlushedIsSaved == ASSUME OneFlusher PROVE Spec => []FlushedIsOnDisk
<1>1. SavedInv => FlushedIsOnDisk
  BY DEF SavedInv, FlushedIsOnDisk
<1> QED
  BY <1>1, SpecSaved, PTL

(* ... and no flush, failed flush or death takes the file back.             *)
THEOREM DiskGrows == ASSUME OneFlusher PROVE Spec => DiskNeverGoesBack
<1>1. IInv /\ IInv' /\ SavedInv /\ [Next]_vars => [NotBefore(disk', disk)]_disk
  BY StepSaved
<1> QED
  BY <1>1, SpecIInv, SpecSaved, PTL DEF Spec, DiskNeverGoesBack

-----------------------------------------------------------------------------
(***************************************************************************)
(* The refinement.  DurableHistory only counts: what SavedInv orders by    *)
(* the four totals is ordered by their sum.                                *)
(***************************************************************************)
LEMMA CountOrders ==
    /\ \A s \in States : Count(s) \in Nat
    /\ \A r, s \in States : NotBefore(r, s) => Count(r) >= Count(s)
    /\ Count(Empty) = 0
    /\ \A file \in States : Count(Loaded(file)) = Count(file)
<1>1. \A s \in States : /\ s.verified \in Nat /\ s.rejected \in Nat
                        /\ s.encrypted \in Nat /\ s.failed \in Nat
  BY DEF States
<1>2. ASSUME NEW r \in States, NEW s \in States, NotBefore(r, s)
      PROVE  Count(r) >= Count(s)
  BY <1>1, <1>2 DEF Count, NotBefore
<1>3. Count(Empty) = 0
  BY DEF Count, Empty
<1>4. ASSUME NEW file \in States PROVE Count(Loaded(file)) = Count(file)
  BY DEF Count, Loaded, States
<1> QED
  BY <1>1, <1>2, <1>3, <1>4 DEF Count

(* The calls DurableHistory sees. *)
Calls == [f \in Flushers |-> CallOf(f)]

LEMMA InitHistory == Init => History!Init
<1> SUFFICES ASSUME Init PROVE History!Init
  OBVIOUS
<1>1. Count(mem) = 0 /\ Count(disk) = 0
  BY CountOrders DEF Init
<1>2. \A f \in Flushers : CallOf(f) = [state |-> "idle", at |-> 0]
  BY CountOrders DEF Init, CallOf
<1> QED
  BY <1>1, <1>2 DEF History!Init, History!Idle

(* Every step of the ledger is a step of the history, or none: copying and  *)
(* writing the temporary file are invisible, the rename is the save.        *)
LEMMA StepHistory ==
    ASSUME OneFlusher, IInv, IInv', SavedInv, [Next]_vars
    PROVE  [History!Next]_(History!vars)
<1>0. /\ mem \in States /\ disk \in States /\ data \in [Flushers -> States]
      /\ owed \in [Flushers -> States] /\ pc \in [Flushers -> PCs]
      /\ mem' \in States /\ disk' \in States
  BY DEF IInv, TypeOK
<1>1. CASE \/ \E k \in Keys : RecordVerified(k)
           \/ RecordRejected
           \/ \E outcome \in Requests : RecordRequest(outcome)
  <2>1. Count(mem') = Count(mem) + 1 /\ UNCHANGED <<disk, pc, data, owed>>
    BY <1>0, <1>1, RecordGrows
  <2>2. Count(disk)' = Count(disk) /\ Calls' = Calls
    BY <2>1 DEF Calls, CallOf
  <2> QED
    BY <2>1, <2>2 DEF Calls, History!Next, History!Record
<1>2. ASSUME NEW f \in Flushers, Flush(f) PROVE [History!Next]_(History!vars)
  <2>0. Flushers = {f}
    BY DEF OneFlusher
  <2>1. CASE FlushClean(f)
    <3>1. Count(disk) = Count(mem)
      <4>1. NotBefore(disk, mem) /\ NotBefore(mem, disk)
        BY <2>1 DEF FlushClean, SavedInv
      <4> QED
        BY <1>0, <4>1, CountOrders
    <3>2. Calls' = [Calls EXCEPT ![f] = [state |-> "done", at |-> Count(mem)]]
      BY <1>0, <2>0, <2>1 DEF FlushClean, Goto, Calls, CallOf
    <3>3. Calls[f].state = "idle"
      BY <2>1 DEF FlushClean, Calls, CallOf
    <3> QED
      BY <2>1, <3>1, <3>2, <3>3
         DEF FlushClean, Calls, History!Next, History!NothingToSave, History!Becomes
  <2>2. CASE FlushClaim(f)
    <3>1. Calls' = [Calls EXCEPT ![f] = [state |-> "pending", at |-> Count(mem)]]
      BY <1>0, <2>0, <2>2 DEF FlushClaim, Goto, Calls, CallOf
    <3>2. Calls[f].state = "idle"
      BY <2>2 DEF FlushClaim, Calls, CallOf
    <3> QED
      BY <2>2, <3>1, <3>2 DEF FlushClaim, Calls, History!Next, History!Begin, History!Becomes
  <2>3. CASE snapshotForDisk(f) \/ WriteTemporary(f)
    <3>1. Calls' = Calls
      BY <1>0, <2>0, <2>3 DEF snapshotForDisk, WriteTemporary, Goto, Calls, CallOf
    <3> QED
      BY <2>3, <3>1 DEF snapshotForDisk, WriteTemporary, Calls, History!vars
  <2>4. CASE Rename(f)
    <3>1. pc[f] = "rename" /\ disk' = data[f]
      BY <2>4 DEF Rename
    <3>2. /\ NotBefore(mem, data[f]) /\ NotBefore(data[f], disk)
          /\ NotBefore(data[f], owed[f])
      BY <3>1 DEF SavedInv
    <3>3. /\ Count(disk') \in Count(owed[f])..Count(mem)
          /\ Count(disk') >= Count(disk)
      BY <1>0, <3>1, <3>2, CountOrders
    <3>4. Calls' = [Calls EXCEPT ![f] = [state |-> "done", at |-> Count(owed[f])]]
      BY <1>0, <2>0, <2>4 DEF Rename, Goto, Calls, CallOf
    <3>5. Calls[f] = [state |-> "pending", at |-> Count(owed[f])]
      BY <3>1 DEF Calls, CallOf
    <3>6. mem' = mem
      BY <2>4 DEF Rename
    <3>7. Calls[f].state = "pending" /\ Calls[f].at = Count(owed[f])
      BY <3>5
    <3>8. Calls' = [Calls EXCEPT ![f] = [state |-> "done", at |-> Calls[f].at]]
      BY <3>4, <3>7
    <3>9. History!Becomes(f, "done", Calls[f].at)
      BY <3>8 DEF Calls, History!Becomes
    <3>10. History!Save(f)
      BY <3>3, <3>6, <3>7, <3>9 DEF Calls, History!Save
    <3> QED
      BY <3>10 DEF History!Next
  <2>5. CASE FlushFails(f) \/ FlushReturns(f)
    <3>1. Calls' = [Calls EXCEPT ![f] = [state |-> "idle", at |-> 0]]
      BY <1>0, <2>0, <2>5, CountOrders DEF FlushFails, FlushReturns, Goto, Calls, CallOf
    <3>2. Calls[f].state # "idle"
      BY <2>5 DEF FlushFails, FlushReturns, Calls, CallOf
    <3>3. UNCHANGED <<mem, disk>>
      BY <2>5 DEF FlushFails, FlushReturns
    <3> QED
      BY <3>1, <3>2, <3>3 DEF Calls, History!Next, History!Return, History!Idle
  <2> QED
    BY <1>2, <2>1, <2>2, <2>3, <2>4, <2>5 DEF Flush
<1>3. CASE Crash
  <2>1. Count(mem') = Count(disk) /\ disk' = disk
    BY <1>0, <1>3, CountOrders DEF Crash
  <2>2. Calls' = [f \in Flushers |-> [state |-> "idle", at |-> 0]]
    BY <1>3, CountOrders DEF Crash, Calls, CallOf
  <2> QED
    BY <2>1, <2>2 DEF Calls, History!Next, History!Crash, History!Idle
<1>4. CASE UNCHANGED vars
  <2>1. Calls' = Calls /\ UNCHANGED <<mem, disk>>
    BY <1>4 DEF vars, Calls, CallOf
  <2> QED
    BY <2>1 DEF Calls, History!vars
<1> QED
  BY <1>1, <1>2, <1>3, <1>4 DEF Next

(* With one flusher the ledger is a DurableHistory: whatever is flushed,    *)
(* fails to be, or dies, its users see records that are only ever added, a  *)
(* save that means what it says, and a restart from the last save           *)
(* (store.go:110-161, client.go:102-104).                                   *)
THEOREM KeepsHistory == ASSUME OneFlusher PROVE Spec => ImplementsHistory
<1>1. IInv /\ IInv' /\ SavedInv /\ [Next]_vars => [History!Next]_(History!vars)
  BY StepHistory
<1> QED
  BY <1>1, InitHistory, SpecIInv, SpecSaved, PTL DEF Spec, ImplementsHistory, History!Spec

=============================================================================
