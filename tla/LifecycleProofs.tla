-------------------------- MODULE LifecycleProofs --------------------------
(***************************************************************************)
(* Proofs about Close and the refresh goroutine, for any set of closers,   *)
(* and about a nexus-proxy process that uses them together with the ledger,*)
(* for any keys, caps and numbers of requests, records and restarts.       *)
(***************************************************************************)
EXTENDS Lifecycle, LedgerProofs

-----------------------------------------------------------------------------
(* Close by itself (ClientClose). *)

(* The field is only nil when there is no goroutine to stop, or no longer. *)
NilMeansStopped == ~stopRefresh => refresh \in {"none", "done"}

CloseInv == CloseTypeOK /\ NilMeansStopped /\ ClosedMeansStopped

(* The goroutine leaves its loop for good, so what Close waited for stays   *)
(* true whichever closers and ticks come later (client.go:307-310, 466-469).*)
THEOREM CloseInvariant == CloseSpec => []CloseInv
<1>1. CloseInit => CloseInv
  BY DEF CloseInit, CloseInv, CloseTypeOK, NilMeansStopped, ClosedMeansStopped
<1>2. CloseInv /\ [CloseNext]_closeVars => CloseInv'
  <2> SUFFICES ASSUME CloseInv, [CloseNext]_closeVars
               PROVE  CloseInv'
    OBVIOUS
  <2> USE DEF CloseInv, CloseTypeOK, NilMeansStopped, ClosedMeansStopped
  <2>1. CASE RefreshStep
    BY <2>1 DEF RefreshStep, RefreshTick, RefreshEnds, RefreshStops
  <2>2. ASSUME NEW k \in Closers, CloseCheck(k)
        PROVE  CloseInv'
    BY <2>2 DEF CloseCheck, CloseGoto
  <2>3. ASSUME NEW k \in Closers, CloseCancel(k)
        PROVE  CloseInv'
    BY <2>3 DEF CloseCancel, CloseGoto, Cancel
  <2>4. ASSUME NEW k \in Closers, CloseClear(k)
        PROVE  CloseInv'
    BY <2>4 DEF CloseClear, CloseGoto, Stopped
  <2>5. ASSUME NEW k \in Closers, CloseReturns(k)
        PROVE  CloseInv'
    BY <2>5 DEF CloseReturns, CloseGoto
  <2>6. CASE UNCHANGED closeVars
    BY <2>6 DEF closeVars
  <2> QED
    BY <2>1, <2>2, <2>3, <2>4, <2>5, <2>6 DEF CloseNext, StopStep
<1> QED
  BY <1>1, <1>2, PTL DEF CloseSpec

(* No policy is set by the refresh goroutine after a Close has stopped it,  *)
(* however many goroutines call Close (client.go:462).                      *)
THEOREM CloseStopsRefresh == CloseSpec => []ClosedMeansStopped
<1>1. CloseInv => ClosedMeansStopped
  BY DEF CloseInv
<1> QED
  BY <1>1, CloseInvariant, PTL

(* Another Close has run to its Flush. *)
StoppedBy(j) == closing[j] \in {"flush", "closed"}

PanicNeedsAnother ==
    \A k \in Closers : closing[k] = "panic" => \E j \in Closers \ {k} : StoppedBy(j)

(* A closer that would find the field nil now is already in that position.  *)
PanicInv ==
    /\ CloseTypeOK
    /\ \A k \in Closers : closing[k] = "panic" \/ (closing[k] = "cancel" /\ ~stopRefresh) =>
          \E j \in Closers \ {k} : StoppedBy(j)

(* client.go:117, 466-469: a Close calls the nil function only if another   *)
(* one, which saw the same field, has waited for the goroutine and cleared  *)
(* it in between; neither the refresh nor a client that never had one is a  *)
(* reason.                                                                  *)
THEOREM ClosePanicsAfterAnother == CloseSpec => []PanicNeedsAnother
<1>1. CloseInit => PanicInv
  BY DEF CloseInit, PanicInv, CloseTypeOK
<1>2. PanicInv /\ [CloseNext]_closeVars => PanicInv'
  <2> SUFFICES ASSUME PanicInv, [CloseNext]_closeVars
               PROVE  PanicInv'
    OBVIOUS
  <2> USE DEF PanicInv, CloseTypeOK, StoppedBy
  <2>1. CASE RefreshStep
    BY <2>1 DEF RefreshStep, RefreshTick, RefreshEnds, RefreshStops
  <2>2. ASSUME NEW k \in Closers, CloseCheck(k)
        PROVE  PanicInv'
    BY <2>2 DEF CloseCheck, CloseGoto
  <2>3. ASSUME NEW k \in Closers, CloseCancel(k)
        PROVE  PanicInv'
    BY <2>3 DEF CloseCancel, CloseGoto, Cancel
  <2>4. ASSUME NEW k \in Closers, CloseClear(k)
        PROVE  PanicInv'
    BY <2>4 DEF CloseClear, CloseGoto, Stopped
  <2>5. ASSUME NEW k \in Closers, CloseReturns(k)
        PROVE  PanicInv'
    BY <2>5 DEF CloseReturns, CloseGoto
  <2>6. CASE UNCHANGED closeVars
    BY <2>6 DEF closeVars
  <2> QED
    BY <2>1, <2>2, <2>3, <2>4, <2>5, <2>6 DEF CloseNext, StopStep
<1>3. PanicInv => PanicNeedsAnother
  BY DEF PanicInv, PanicNeedsAnother
<1> QED
  BY <1>1, <1>2, <1>3, PTL DEF CloseSpec

-----------------------------------------------------------------------------
(***************************************************************************)
(* The process.  CleanExitIsSaved speaks of the last state of a process    *)
(* only.  What it rests on are the turns the two flushers take: run flushes*)
(* on its way out only (OrderInv), and unless a flush of the ticker is     *)
(* still under way then, at most one flusher is at work at any time.       *)
(* Then a ledger that is not dirty is on disk or on its way (FlushInv), and*)
(* what is on its way is no older than the file (GrowthInv).               *)
(***************************************************************************)
OrderInv ==
    /\ Alive /\ ~FlushDue => pc[Main] = "idle"
    /\ stage \in {"new", "listen"} => ticker = "none" /\ pc[Ticker] = "idle"
    /\ stage \in Leaving /\ "overlap" \notin excuses => pc[Ticker] = "idle"
    /\ stage \in {"close", "exited"} /\ code = 0 => inflight = 0 /\ ~connected

OnItsWay ==
    /\ (\A f \in Flushers : pc[f] \in {"idle", "saved"}) => disk = Encoded(mem)
    /\ \A f \in Flushers : pc[f] \in {"write", "rename"} => data[f] = Encoded(mem)

FlushInv == code = 0 /\ "overlap" \notin excuses =>
    /\ ~dirty => OnItsWay
    /\ stage = "close" /\ pc[Main] # "idle" => ~dirty
    /\ stage = "exited" /\ excuses = {} => disk = Encoded(mem)

(* A copy on its way is no older than the file, for no other is on its way. *)
Writing(f) == pc[f] \in {"write", "rename"}

GrowthInv ==
    /\ NotBefore(mem, disk)
    /\ \A f \in Flushers : Writing(f) => NotBefore(mem, data[f])
    /\ Alive /\ "overlap" \notin excuses =>
          \A f \in Flushers : Writing(f) => NotBefore(data[f], disk)

(* run is the only closer, and closes last. *)
ClosingInv ==
    /\ CloseTypeOK /\ NilMeansStopped /\ ClosedMeansStopped
    /\ \A k \in Closers : k # Main \/ stage \notin {"close", "exited"} => closing[k] = "idle"
    /\ \A k \in Closers : closing[k] = "cancel" => stopRefresh
    /\ CloseIsSafe

ProcessInv == IInv /\ LifecycleTypeOK /\ ClosingInv /\ OrderInv /\ FlushInv /\ GrowthInv

-----------------------------------------------------------------------------
(* Whatever the process does, to its ledger it is steps of Ledger, or none. *)
LEMMA LedgerSteps == LifecycleNext => [Next]_vars
BY ProcessAssumption
   DEF LifecycleNext, NewSucceeds, NewFails, ListenFails, Serve, Accept, HandlerVerifies, HandlerEnds,
       ServerFails, TickerFlushes, TickerStops, Refreshes, Signal, MainFlushes, MainFlushed, ShutdownEnds,
       ShutdownTimesOut, Closes, Killed, Restart, FlushStarts, FlushGoesOn, FlushEnds, Flush, Next

(* A handler's record. *)
Recording ==
    \/ RecordRejected
    \/ \E k \in Keys : RecordVerified(k)
    \/ \E outcome \in Requests : RecordRequest(outcome)

LEMMA RecordingIsPending == Recording => dirty' = TRUE /\ UNCHANGED <<disk, pc, data>>
BY DEF Recording, RecordRejected, RecordVerified, RecordRequest, Record, flushVars

(* What Flush does, step by step, to what the proofs below look at. *)
LEMMA FlushMoves ==
    ASSUME IInv, NEW f \in Flushers, Flush(f)
    PROVE  /\ mem' = mem
           /\ \A g \in Flushers \ {f} : pc'[g] = pc[g] /\ data'[g] = data[g]
           /\ \/ /\ pc[f] = "idle" /\ ~dirty /\ ~dirty' /\ disk' = disk
                 /\ pc'[f] = "saved"
              \/ pc[f] = "idle" /\ ~dirty' /\ disk' = disk /\ pc'[f] = "claimed"
              \/ /\ pc[f] = "claimed" /\ dirty' = dirty /\ disk' = disk
                 /\ pc'[f] = "write" /\ data'[f] = Encoded(mem)
              \/ /\ pc[f] = "write" /\ dirty' = dirty /\ disk' = disk
                 /\ pc'[f] = "rename" /\ data'[f] = data[f]
              \/ pc[f] = "rename" /\ dirty' = dirty /\ disk' = data[f] /\ pc'[f] = "saved"
              \/ pc[f] \in {"write", "rename"} /\ dirty' /\ disk' = disk /\ pc'[f] = "idle"
              \/ pc[f] = "saved" /\ dirty' = dirty /\ disk' = disk /\ pc'[f] = "idle"
<1> USE DEF IInv, TypeOK, PCs, Goto
<1>1. CASE FlushClean(f) \/ FlushClaim(f)
  BY <1>1 DEF FlushClean, FlushClaim
<1>2. CASE snapshotForDisk(f)
  BY <1>2 DEF snapshotForDisk
<1>3. CASE WriteTemporary(f) \/ Rename(f)
  BY <1>3 DEF WriteTemporary, Rename
<1>4. CASE FlushFails(f) \/ FlushReturns(f)
  BY <1>4 DEF FlushFails, FlushReturns
<1> QED
  BY <1>1, <1>2, <1>3, <1>4 DEF Flush

(* What is on its way to the file stays so while nobody else flushes. *)
LEMMA AloneFlushes ==
    ASSUME IInv, NEW f \in Flushers, Flush(f), \A g \in Flushers \ {f} : pc[g] = "idle",
           ~dirty => OnItsWay, ~dirty'
    PROVE  OnItsWay'
BY FlushMoves DEF OnItsWay

(* A state file that is opened again is read back as it was written. *)
LEMMA LoadedIsWhole == ASSUME NEW file \in States, Good(file) PROVE Loaded(file) = file
<1>1. ASSUME NEW S, NEW items \in Seq(S), NEW limit \in Nat, Len(items) <= limit
      PROVE  Newest(items, limit) = items
  <2>1. Smaller(Len(items), limit) = Len(items)
    BY <1>1 DEF Smaller
  <2> QED
    BY <1>1, <2>1, NewestKeeps DEF Newest
<1>2. /\ Newest(file.attestations, AttCap) = file.attestations
      /\ Newest(file.requests, ReqCap) = file.requests
  <2>1. file.attestations \in Seq(Attestations) /\ file.requests \in Seq(Requests)
    BY DEF States
  <2> QED
    BY <1>1, <2>1, Capped, CapAssumption
<1> QED
  BY <1>2 DEF Loaded, States

-----------------------------------------------------------------------------
(* The invariant of the process, part by part. *)

LEMMA InitProcess == LifecycleInit => ProcessInv
<1> SUFFICES ASSUME LifecycleInit PROVE ProcessInv
  OBVIOUS
<1> USE DEF LifecycleInit, NoClient, NoProcess
<1>1. IInv
  BY InitIInv
<1>2. CloseTypeOK
  BY DEF CloseTypeOK
<1>3. LifecycleTypeOK
  <2>1. stage \in Stages /\ code \in 0..2 /\ ticker = "none"
    BY DEF Stages
  <2>2. inflight \in 0..MaxInflight
    BY InflightAssumption
  <2>3. stopFlushing \in BOOLEAN /\ connected \in BOOLEAN /\ excuses = {}
    OBVIOUS
  <2> QED
    BY <1>1, <1>2, <2>1, <2>2, <2>3 DEF LifecycleTypeOK, IInv
<1>4. ClosingInv
  BY <1>2 DEF ClosingInv, NilMeansStopped, ClosedMeansStopped, CloseIsSafe
<1>5. OrderInv
  BY ProcessAssumption DEF Init, OrderInv, Leaving
<1>6. FlushInv
  BY EmptyGood, ProcessAssumption DEF Init, FlushInv, OnItsWay, Settled
<1>7. GrowthInv
  BY EmptyGood, NotBeforeOrders DEF Init, GrowthInv, Writing
<1> QED
  BY <1>1, <1>3, <1>4, <1>5, <1>6, <1>7 DEF ProcessInv

LEMMA StepClosing == ProcessInv /\ LifecycleNext => ClosingInv'
<1> SUFFICES ASSUME ClosingInv, LifecycleNext PROVE ClosingInv'
  BY DEF ProcessInv
<1> USE ProcessAssumption
    DEF ClosingInv, CloseTypeOK, NilMeansStopped, ClosedMeansStopped, CloseIsSafe
<1>1. CASE NewSucceeds
  <2>1. stage = "new" /\ stage' = "listen" /\ closing' = closing /\ \A k \in Closers : closing[k] = "idle"
    BY <1>1 DEF NewSucceeds, Move, startPolicyRefresh, closeVars
  <2>2. CASE startPolicyRefresh
    BY <2>1, <2>2 DEF startPolicyRefresh
  <2>3. CASE UNCHANGED closeVars
    BY <2>1, <2>3 DEF closeVars
  <2> QED
    BY <1>1, <2>2, <2>3 DEF NewSucceeds
<1>2. CASE Refreshes
  BY <1>2 DEF Refreshes, RefreshStep, RefreshTick, RefreshEnds, RefreshStops, process
<1>3. CASE MainFlushed
  BY <1>3 DEF MainFlushed, CloseReturns, CloseGoto, closeVars, Move
<1>4. CASE Closes
  <2>1. stage = "close" /\ stage' = stage /\ Main \in Closers
    BY <1>4 DEF Closes, process
  <2>2. CASE CloseCheck(Main)
    BY <2>1, <2>2 DEF CloseCheck, CloseGoto
  <2>3. CASE CloseCancel(Main)
    BY <2>1, <2>3 DEF CloseCancel, Cancel, CloseGoto
  <2>4. CASE CloseClear(Main)
    BY <2>1, <2>4 DEF CloseClear, Stopped, CloseGoto
  <2> QED
    BY <1>4, <2>2, <2>3, <2>4 DEF Closes, StopStep
<1>5. CASE Restart
  BY <1>5 DEF Restart, Move
<1>6. ASSUME UNCHANGED closeVars, stage \in {"close", "exited"} => stage' \in {"close", "exited"}
      PROVE  ClosingInv'
  BY <1>6 DEF closeVars
<1>7. ASSUME ~(NewSucceeds \/ Refreshes \/ MainFlushed \/ Closes \/ Restart)
      PROVE  UNCHANGED closeVars /\ (stage \in {"close", "exited"} => stage' \in {"close", "exited"})
  BY <1>7 DEF LifecycleNext, NewFails, ListenFails, Serve, Accept, HandlerVerifies, HandlerEnds, ServerFails,
              TickerFlushes, TickerStops, Signal, MainFlushes, ShutdownEnds, ShutdownTimesOut, Killed,
              process, Move
<1> QED
  BY <1>1, <1>2, <1>3, <1>4, <1>5, <1>6, <1>7

LEMMA StepTypes == ProcessInv /\ LifecycleNext => LifecycleTypeOK'
<1> SUFFICES ASSUME ProcessInv, LifecycleNext PROVE LifecycleTypeOK'
  OBVIOUS
<1>1. TypeOK' /\ CloseTypeOK'
  BY LedgerSteps, StepIInv, StepClosing DEF ProcessInv, IInv, ClosingInv
<1>2. LifecycleTypeOK
  BY DEF ProcessInv
<1> USE <1>2
    DEF LifecycleTypeOK, Move, process, LifecycleNext, NewSucceeds, NewFails, ListenFails, Serve,
        Accept, HandlerVerifies, HandlerEnds, ServerFails, TickerFlushes, TickerStops, Refreshes,
        Signal, MainFlushes, MainFlushed, ShutdownEnds, ShutdownTimesOut, Closes, Killed, Restart
<1>3. stage' \in Stages
  BY DEF Stages
<1>4. ticker' \in {"none", "running", "ended"}
  OBVIOUS
<1>5. code' \in {code, 0, 1, 2}
  OBVIOUS
<1>6. \/ inflight' \in {inflight, 0}
      \/ inflight < MaxInflight /\ inflight' = inflight + 1
      \/ inflight > 0 /\ inflight' = inflight - 1
  OBVIOUS
<1>7. stopFlushing' \in BOOLEAN /\ connected' \in BOOLEAN
  OBVIOUS
<1>8. excuses' \subseteq {"overlap", "error"}
  BY DEF Observe
<1> HIDE DEF LifecycleNext
<1>9. code' \in 0..2 /\ inflight' \in 0..MaxInflight
  BY <1>5, <1>6, InflightAssumption
<1> QED
  BY <1>1, <1>3, <1>4, <1>7, <1>8, <1>9

(* The steps in which nobody flushes. *)
Elsewhere ==
    \/ NewSucceeds \/ NewFails \/ ListenFails \/ Serve \/ Accept \/ HandlerVerifies \/ HandlerEnds
    \/ ServerFails \/ TickerStops \/ Refreshes \/ Signal \/ ShutdownEnds \/ ShutdownTimesOut
    \/ Closes \/ Killed

LEMMA ElsewhereIsQuiet ==
    ASSUME Elsewhere
    PROVE  /\ UNCHANGED <<disk, pc, data>>
           /\ dirty' = TRUE \/ UNCHANGED <<mem, dirty>>
           /\ Alive
           /\ FlushDue => FlushDue' \/ stage' = "exited"
<1>1. UNCHANGED vars \/ Recording
  BY DEF Elsewhere, NewSucceeds, NewFails, ListenFails, Serve, Accept, HandlerVerifies, HandlerEnds,
         ServerFails, TickerStops, Refreshes, Signal, ShutdownEnds, ShutdownTimesOut, Closes, Killed,
         Recording
<1>2. Alive
  BY DEF Elsewhere, NewSucceeds, NewFails, ListenFails, Serve, Accept, HandlerVerifies, HandlerEnds,
         ServerFails, TickerStops, Refreshes, Signal, ShutdownEnds, ShutdownTimesOut, Closes, Killed,
         Move, Alive
<1>3. FlushDue => FlushDue' \/ stage' = "exited"
  <2>1. CASE Closes
    BY <2>1, ProcessAssumption DEF Closes, StopStep, CloseCheck, CloseCancel, CloseClear, FlushDue
  <2>2. CASE Refreshes
    BY <2>2 DEF Refreshes, RefreshStep, RefreshTick, RefreshEnds, RefreshStops, process, FlushDue
  <2>3. CASE ~Closes /\ ~Refreshes
    BY <2>3 DEF Elsewhere, NewSucceeds, NewFails, ListenFails, Serve, Accept, HandlerVerifies, HandlerEnds,
         ServerFails, TickerStops, Signal, ShutdownEnds, ShutdownTimesOut, Killed,
         Move, process, closeVars, FlushDue
  <2> QED
    BY <2>1, <2>2, <2>3
<1> QED
  BY <1>1, <1>2, <1>3, RecordingIsPending DEF vars

LEMMA StepOrder == ProcessInv /\ LifecycleNext => OrderInv'
<1> SUFFICES ASSUME ProcessInv, LifecycleNext PROVE OrderInv'
  OBVIOUS
<1>1. /\ pc \in [Flushers -> PCs] /\ Main \in Flushers /\ Ticker \in Flushers /\ Main # Ticker
      /\ OrderInv
  BY ProcessAssumption DEF ProcessInv, IInv, TypeOK
<1>2. Alive' /\ ~FlushDue' => pc'[Main] = "idle"
  <2>1. CASE Elsewhere
    BY <1>1, <2>1, ElsewhereIsQuiet DEF OrderInv, Alive
  <2>2. CASE TickerFlushes
    <3>1. Flush(Ticker) /\ Alive
      BY <2>2 DEF TickerFlushes, FlushStarts, FlushGoesOn, FlushEnds, Flush
    <3>2. FlushDue' <=> FlushDue
      BY <2>2 DEF TickerFlushes, FlushDue, process, closeVars
    <3>3. pc'[Main] = pc[Main]
      BY <1>1, <3>1, FlushMoves DEF ProcessInv
    <3> QED
      BY <1>1, <3>1, <3>2, <3>3 DEF OrderInv
  <2>3. CASE MainFlushes
    BY <2>3 DEF MainFlushes, FlushDue, process, closeVars
  <2>4. CASE MainFlushed
    BY <1>1, <2>4 DEF MainFlushed, FlushEnds, FlushReturns, FlushFails, Goto, PCs
  <2>5. CASE Restart
    BY <1>1, <2>5 DEF Restart, Crash
  <2> QED
    BY <2>1, <2>2, <2>3, <2>4, <2>5 DEF LifecycleNext, Elsewhere
<1>3. stage' \in {"new", "listen"} => ticker' = "none" /\ pc'[Ticker] = "idle"
  <2>1. CASE Restart
    BY <1>1, <2>1 DEF Restart, Crash
  <2>2. ASSUME stage' \in {"new", "listen"}, ~Restart
        PROVE  stage \in {"new", "listen"} /\ (ticker' = ticker \/ ticker = "running")
    BY <2>2 DEF LifecycleNext, NewSucceeds, NewFails, ListenFails, Serve, Accept, HandlerVerifies, HandlerEnds,
         ServerFails, TickerFlushes, TickerStops, Refreshes, Signal, MainFlushes, MainFlushed,
         ShutdownEnds, ShutdownTimesOut, Closes, Killed, Move, process
  <2>3. ASSUME stage \in {"new", "listen"} PROVE ~TickerFlushes /\ ~MainFlushes /\ ~MainFlushed
    BY <1>1, <2>3 DEF TickerFlushes, MainFlushes, MainFlushed, FlushDue, OrderInv
  <2> QED
    BY <1>1, <2>1, <2>2, <2>3, ElsewhereIsQuiet DEF OrderInv, LifecycleNext, Elsewhere
<1>4. stage' \in Leaving /\ "overlap" \notin excuses' => pc'[Ticker] = "idle"
  <2>1. CASE ListenFails
    BY <1>1, <2>1 DEF ListenFails, Move, OrderInv, vars
  <2>2. CASE NewSucceeds \/ NewFails \/ Serve \/ Killed \/ Restart
    BY <2>2 DEF NewSucceeds, NewFails, Serve, Killed, Restart, Move, Leaving
  <2>3. CASE Accept \/ TickerStops \/ Refreshes
    BY <1>1, <2>3 DEF Accept, TickerStops, Refreshes, OrderInv, process, vars
  <2>4. ASSUME ~(ListenFails \/ NewSucceeds \/ NewFails \/ Serve \/ Killed \/ Restart),
               ~(Accept \/ TickerStops \/ Refreshes)
        PROVE  stage' \in Leaving /\ pc'[Ticker] # "idle" => "overlap" \in excuses'
    BY <2>4 DEF Observe, LifecycleNext, HandlerVerifies, HandlerEnds, ServerFails, TickerFlushes, Signal,
                MainFlushes, MainFlushed, ShutdownEnds, ShutdownTimesOut, Closes
  <2> QED
    BY <2>1, <2>2, <2>3, <2>4
<1>5. stage' \in {"close", "exited"} /\ code' = 0 => inflight' = 0 /\ ~connected'
  <2>1. stage \in {"close", "exited"} /\ code = 0 => inflight = 0 /\ ~connected
    BY <1>1 DEF OrderInv
  <2>2. CASE NewSucceeds \/ Serve \/ Signal
    BY <2>2 DEF NewSucceeds, Serve, Signal, Move
  <2>3. CASE Accept
    BY <2>1, <2>3 DEF Accept
  <2>4. CASE NewFails \/ ListenFails \/ ServerFails \/ ShutdownTimesOut \/ Killed
    BY <2>4 DEF NewFails, ListenFails, ServerFails, ShutdownTimesOut, Killed
  <2>5. CASE ShutdownEnds
    BY <2>5 DEF ShutdownEnds, Drained
  <2>6. CASE HandlerVerifies \/ TickerStops \/ Refreshes \/ Closes \/ TickerFlushes \/ MainFlushes
    BY <2>1, <2>6 DEF HandlerVerifies, TickerStops, Refreshes, Closes, TickerFlushes, MainFlushes, process
  <2>7. CASE HandlerEnds
    BY <2>1, <2>7 DEF HandlerEnds
  <2>8. CASE MainFlushed
    BY <2>1, <2>8 DEF MainFlushed, Move
  <2>9. CASE Restart
    BY <2>9 DEF Restart, Move
  <2> QED
    BY <2>2, <2>3, <2>4, <2>5, <2>6, <2>7, <2>8, <2>9 DEF LifecycleNext
<1> QED
  BY <1>2, <1>3, <1>4, <1>5 DEF OrderInv

(* Nobody is left to record anything once run closes the client cleanly.    *)
LEMMA ClosedIsQuiet ==
    ASSUME ProcessInv, Elsewhere, code' = 0, stage' = "close", pc[Main] # "idle"
    PROVE  stage = "close" /\ UNCHANGED vars
<1>1. FlushDue
  BY ElsewhereIsQuiet DEF ProcessInv, OrderInv
<1>2. stage \in {"flush", "close"}
  BY <1>1 DEF FlushDue
<1>3. CASE NewSucceeds \/ ListenFails \/ Serve \/ Signal \/ ShutdownEnds
  BY <1>2, <1>3 DEF NewSucceeds, ListenFails, Serve, Signal, ShutdownEnds, Move
<1>4. CASE NewFails
  BY <1>4 DEF NewFails
<1>5. CASE ShutdownTimesOut
  BY <1>5 DEF ShutdownTimesOut
<1>6. CASE ServerFails
  BY <1>6 DEF ServerFails
<1>7. CASE Killed
  BY <1>7 DEF Killed
<1>8. CASE TickerStops \/ Refreshes \/ Closes
  BY <1>8 DEF TickerStops, Refreshes, Closes, process
<1>9. CASE Accept
  BY <1>9 DEF Accept, ProcessInv, OrderInv
<1>10. CASE HandlerVerifies \/ HandlerEnds
  <2>1. stage = "close" /\ code = 0 /\ inflight > 0
    BY <1>10 DEF HandlerVerifies, HandlerEnds, process
  <2> QED
    BY <2>1 DEF ProcessInv, OrderInv
<1> QED
  BY <1>3, <1>4, <1>5, <1>6, <1>7, <1>8, <1>9, <1>10 DEF Elsewhere

LEMMA StepFlush == ProcessInv /\ LifecycleNext => FlushInv'
<1> SUFFICES ASSUME ProcessInv, LifecycleNext, code' = 0, "overlap" \notin excuses'
             PROVE  /\ ~dirty' => OnItsWay'
                    /\ stage' = "close" /\ pc'[Main] # "idle" => ~dirty'
                    /\ stage' = "exited" /\ excuses' = {} => disk' = Encoded(mem')
  BY DEF FlushInv
<1>1. /\ pc \in [Flushers -> PCs] /\ Flushers = {Main, Ticker} /\ Main # Ticker /\ IInv
  BY ProcessAssumption DEF ProcessInv, IInv, TypeOK
<1>2. CASE Restart
  <2>1. Loaded(disk) = disk
    BY <1>1, LoadedIsWhole DEF IInv, TypeOK, HistoryInv, Settled
  <2>2. mem' = disk /\ disk' = disk /\ stage' = "new" /\ \A f \in Flushers : pc'[f] = "idle"
    BY <1>2, <2>1 DEF Restart, Crash, Move
  <2>3. Encoded(mem') = disk'
    BY <1>1, <2>2 DEF IInv, HistoryInv, Settled
  <2> QED
    BY <1>1, <2>2, <2>3 DEF OnItsWay
<1>3. ASSUME ~Restart PROVE code = 0 /\ "overlap" \notin excuses
  <2>1. code' \in {code, 1, 2}
    BY <1>3 DEF LifecycleNext, NewSucceeds, NewFails, ListenFails, Serve, Accept, HandlerVerifies,
         HandlerEnds, ServerFails, TickerFlushes, TickerStops, Refreshes, Signal, MainFlushes, MainFlushed,
         ShutdownEnds, ShutdownTimesOut, Closes, Killed, process
  <2>2. "overlap" \notin excuses
    BY <1>3 DEF LifecycleNext, NewSucceeds, NewFails, ListenFails, Serve, Accept, HandlerVerifies,
         HandlerEnds, ServerFails, TickerFlushes, TickerStops, Refreshes, Signal, MainFlushes, MainFlushed,
         ShutdownEnds, ShutdownTimesOut, Closes, Killed, Observe
  <2>3. code = 0
    BY <2>1
  <2> QED
    BY <2>2, <2>3
<1> SUFFICES ASSUME code = 0, "overlap" \notin excuses, ~Restart
             PROVE  /\ ~dirty' => OnItsWay'
                    /\ stage' = "close" /\ pc'[Main] # "idle" => ~dirty'
                    /\ stage' = "exited" /\ excuses' = {} => disk' = Encoded(mem')
  BY <1>2, <1>3
<1>4. /\ ~dirty => OnItsWay
      /\ stage = "close" /\ pc[Main] # "idle" => ~dirty
      /\ stage \in Leaving => pc[Ticker] = "idle"
      /\ Alive /\ ~FlushDue => pc[Main] = "idle"
  BY DEF ProcessInv, FlushInv, OrderInv
<1>5. CASE Elsewhere
  <2>1. ~dirty' => OnItsWay'
    BY <1>4, <1>5, ElsewhereIsQuiet DEF OnItsWay
  <2>2. stage' = "close" /\ pc'[Main] # "idle" => ~dirty'
    BY <1>4, <1>5, ElsewhereIsQuiet, ClosedIsQuiet DEF vars
  <2>3. stage' # "exited" \/ stage' = stage \/ code' \in {1, 2}
    BY <1>5 DEF Elsewhere, NewSucceeds, NewFails, ListenFails, Serve, Accept, HandlerVerifies,
         HandlerEnds, ServerFails, TickerStops, Refreshes, Signal, ShutdownEnds, ShutdownTimesOut, Closes,
         Killed, Move, process
  <2> QED
    BY <1>5, <2>1, <2>2, <2>3, ElsewhereIsQuiet DEF Alive
<1>6. CASE TickerFlushes
  <2>1. Flush(Ticker) /\ Alive /\ stage' = stage
    BY <1>6 DEF TickerFlushes, FlushStarts, FlushGoesOn, FlushEnds, Flush, process
  <2>2. stage \notin Leaving
    <3>1. pc[Ticker] = "idle" => pc'[Ticker] # "idle"
      BY <1>1, <2>1, FlushMoves
    <3>2. stage' \in Leaving => pc'[Ticker] = "idle"
      BY <1>6 DEF TickerFlushes, Observe
    <3> QED
      BY <1>4, <2>1, <3>1, <3>2
  <2>3. pc[Main] = "idle"
    BY <1>4, <2>1, <2>2 DEF Leaving, FlushDue
  <2>4. ~dirty' => OnItsWay'
    BY <1>1, <1>4, <2>1, <2>3, AloneFlushes
  <2> QED
    BY <2>1, <2>2, <2>4 DEF Alive, Leaving
<1>7. ASSUME FlushDue, Flush(Main) PROVE pc[Ticker] = "idle" /\ (~dirty' => OnItsWay')
  <2>1. pc[Ticker] = "idle"
    BY <1>4, <1>7 DEF FlushDue, Leaving
  <2> QED
    BY <1>1, <1>4, <1>7, <2>1, AloneFlushes
<1>8. CASE MainFlushes
  <2>1. FlushDue /\ Flush(Main) /\ stage' = stage
    BY <1>8 DEF MainFlushes, FlushStarts, FlushGoesOn, Flush, process
  <2>2. ~dirty' \/ (dirty' = dirty /\ pc[Main] # "idle")
    BY <1>1, <1>8
       DEF MainFlushes, FlushStarts, FlushGoesOn, FlushClean, FlushClaim, snapshotForDisk, WriteTemporary, Rename
  <2> QED
    BY <1>4, <1>7, <2>1, <2>2 DEF FlushDue
<1>9. CASE MainFlushed
  <2>1. FlushDue /\ Flush(Main) /\ (stage' = "exited" => stage = "close")
    BY <1>9 DEF MainFlushed, FlushEnds, Flush, Move
  <2>2. pc'[Main] = "idle"
    BY <1>1, <1>9 DEF MainFlushed, FlushEnds, FlushReturns, FlushFails, Goto
  <2>3. ASSUME stage' = "exited", excuses' = {} PROVE disk' = Encoded(mem')
    <3>1. pc[Main] = "saved"
      BY <1>9, <2>1, <2>3 DEF MainFlushed, Observe
    <3>2. disk = Encoded(mem)
      BY <1>1, <1>4, <1>7, <2>1, <2>3, <3>1 DEF OnItsWay
    <3> QED
      BY <1>1, <2>1, <3>1, <3>2, FlushMoves
  <2> QED
    BY <1>7, <2>1, <2>2, <2>3
<1> QED
  BY <1>5, <1>6, <1>8, <1>9 DEF LifecycleNext, Elsewhere

(* A flush takes the file forward, unless the two flushes overlapped.       *)
LEMMA StepGrowth == ProcessInv /\ LifecycleNext =>
    GrowthInv' /\ (NotBefore(disk', disk) \/ "overlap" \in excuses)
<1> SUFFICES ASSUME ProcessInv, LifecycleNext
             PROVE  GrowthInv' /\ (NotBefore(disk', disk) \/ "overlap" \in excuses)
  OBVIOUS
<1>1. /\ pc \in [Flushers -> PCs] /\ Flushers = {Main, Ticker} /\ Main # Ticker /\ IInv /\ GrowthInv
      /\ mem \in States /\ disk \in States /\ \A f \in Flushers : data[f] \in States
  BY ProcessAssumption DEF ProcessInv, IInv, TypeOK
<1>2. mem' \in States /\ disk' \in States /\ \A f \in Flushers : data'[f] \in States
  BY LedgerSteps, StepIInv DEF ProcessInv, IInv, TypeOK
<1>3. NotBefore(mem, mem) /\ NotBefore(disk, disk)
  BY <1>1, NotBeforeOrders
<1>4. CASE Elsewhere
  <2>1. UNCHANGED <<disk, pc, data>> /\ Alive /\ (Alive' /\ "overlap" \notin excuses' => "overlap" \notin excuses)
    BY <1>4, ElsewhereIsQuiet
       DEF Elsewhere, NewSucceeds, NewFails, ListenFails, Serve, Accept, HandlerVerifies, HandlerEnds,
         ServerFails, TickerStops, Refreshes, Signal, ShutdownEnds, ShutdownTimesOut, Closes, Killed, Observe
  <2>2. NotBefore(mem', mem)
    <3>1. mem' = mem \/ Recording
      BY <1>4
         DEF Elsewhere, NewSucceeds, NewFails, ListenFails, Serve, Accept, HandlerVerifies, HandlerEnds,
           ServerFails, TickerStops, Refreshes, Signal, ShutdownEnds, ShutdownTimesOut, Closes, Killed,
           Recording, vars
    <3> QED
      BY <1>1, <1>3, <3>1, RecordGrows DEF Recording
  <2>3. NotBefore(mem', disk) /\ \A f \in Flushers : Writing(f) => NotBefore(mem', data[f])
    BY <1>1, <1>2, <2>2, NotBeforeOrders DEF GrowthInv
  <2> QED
    BY <1>1, <1>3, <2>1, <2>3 DEF GrowthInv, Writing
<1>5. ASSUME NEW f \in Flushers, Flush(f), Alive, "overlap" \notin excuses' => "overlap" \notin excuses,
             "overlap" \notin excuses' => \A g \in Flushers \ {f} : pc[g] = "idle"
      PROVE  GrowthInv' /\ (NotBefore(disk', disk) \/ "overlap" \in excuses)
  <2>1. mem' = mem /\ \A g \in Flushers \ {f} : pc'[g] = pc[g] /\ data'[g] = data[g]
    BY <1>1, <1>5, FlushMoves
  <2>2. CASE pc[f] = "claimed" /\ disk' = disk /\ pc'[f] = "write" /\ data'[f] = Encoded(mem)
    <3>1. NotBefore(mem, data'[f]) /\ NotBefore(data'[f], mem)
      BY <1>1, <2>2, EncodedCounts DEF IInv, HistoryInv
    <3>2. NotBefore(data'[f], disk)
      BY <1>1, <1>2, <3>1, NotBeforeOrders DEF GrowthInv
    <3> QED
      BY <1>1, <1>3, <1>5, <2>1, <2>2, <3>1, <3>2 DEF GrowthInv, Writing
  <2>3. CASE pc[f] = "write" /\ disk' = disk /\ pc'[f] = "rename" /\ data'[f] = data[f]
    BY <1>1, <1>3, <1>5, <2>1, <2>3 DEF GrowthInv, Writing
  <2>4. CASE pc[f] = "rename" /\ disk' = data[f] /\ pc'[f] = "saved"
    <3>1. NotBefore(mem, disk') /\ (NotBefore(disk', disk) \/ "overlap" \in excuses)
      BY <1>1, <1>5, <2>4 DEF GrowthInv, Writing
    <3> QED
      BY <1>1, <1>5, <2>1, <2>4, <3>1 DEF GrowthInv, Writing
  <2>5. CASE disk' = disk /\ pc'[f] \in {"idle", "claimed", "saved"}
    BY <1>1, <1>3, <1>5, <2>1, <2>5 DEF GrowthInv, Writing
  <2> QED
    BY <1>1, <1>5, <2>2, <2>3, <2>4, <2>5, FlushMoves
<1>6. CASE TickerFlushes
  <2>1. Flush(Ticker) /\ Alive /\ stage' = stage
    BY <1>6 DEF TickerFlushes, FlushStarts, FlushGoesOn, FlushEnds, Flush, process
  <2>2. "overlap" \notin excuses' => "overlap" \notin excuses
    BY <1>6 DEF TickerFlushes, Observe
  <2>3. ASSUME "overlap" \notin excuses' PROVE pc[Main] = "idle"
    <3>1. pc[Ticker] = "idle" => pc'[Ticker] # "idle"
      BY <1>1, <2>1, FlushMoves
    <3>2. stage \notin Leaving
      BY <1>6, <2>1, <2>2, <2>3, <3>1 DEF ProcessInv, OrderInv, TickerFlushes, Observe
    <3> QED
      BY <2>1, <3>2 DEF ProcessInv, OrderInv, Leaving, FlushDue
  <2> QED
    BY <1>1, <1>5, <2>1, <2>2, <2>3
<1>7. CASE MainFlushes \/ MainFlushed
  <2>1. Flush(Main) /\ FlushDue
    BY <1>7 DEF MainFlushes, MainFlushed, FlushStarts, FlushGoesOn, FlushEnds, Flush
  <2>2. stage \in Leaving /\ Alive
    BY <2>1 DEF FlushDue, Leaving, Alive
  <2>3. "overlap" \notin excuses' => "overlap" \notin excuses
    BY <1>7 DEF MainFlushes, MainFlushed, Observe
  <2>4. "overlap" \notin excuses => pc[Ticker] = "idle"
    BY <2>2 DEF ProcessInv, OrderInv
  <2> QED
    BY <1>1, <1>5, <2>1, <2>2, <2>3, <2>4
<1>8. CASE Restart
  <2>1. disk' = disk /\ mem' = Loaded(disk) /\ \A f \in Flushers : pc'[f] = "idle"
    BY <1>8 DEF Restart, Crash
  <2>2. NotBefore(mem', disk)
    BY <1>1, <2>1, LoadedCounts
  <2> QED
    BY <1>3, <2>1, <2>2 DEF GrowthInv, Writing
<1> QED
  BY <1>4, <1>6, <1>7, <1>8 DEF LifecycleNext, Elsewhere

LEMMA ProcessInvariance == LifecycleSpec => []ProcessInv
<1>1. ProcessInv /\ LifecycleNext => ProcessInv'
  BY LedgerSteps, StepIInv, StepTypes, StepClosing, StepOrder, StepFlush, StepGrowth DEF ProcessInv
<1>2. ProcessInv /\ UNCHANGED lifecycleVars => ProcessInv'
  <2> SUFFICES ASSUME ProcessInv, UNCHANGED lifecycleVars PROVE ProcessInv'
    OBVIOUS
  <2>1. IInv'
    BY StepIInv DEF ProcessInv, lifecycleVars
  <2>2. LifecycleTypeOK' /\ ClosingInv'
    BY <2>1 DEF ProcessInv, IInv, lifecycleVars, closeVars, process, LifecycleTypeOK, ClosingInv, CloseTypeOK,
                NilMeansStopped, ClosedMeansStopped, CloseIsSafe
  <2>3. OrderInv' /\ FlushInv' /\ GrowthInv'
    BY DEF ProcessInv, lifecycleVars, vars, flushVars, closeVars, process, OrderInv, FlushInv, GrowthInv, Writing,
           OnItsWay, Alive, FlushDue
  <2> QED
    BY <2>1, <2>2, <2>3 DEF ProcessInv
<1> QED
  BY <1>1, <1>2, InitProcess, PTL DEF LifecycleSpec

-----------------------------------------------------------------------------

(* Type correctness of the process (main.go:50-185).                        *)
THEOREM LifecycleTypes == LifecycleSpec => []LifecycleTypeOK
<1>1. ProcessInv => LifecycleTypeOK
  BY DEF ProcessInv
<1> QED
  BY <1>1, ProcessInvariance, PTL

(* main.go:117-119, 160-183: a process that exits with 0 has answered every *)
(* request, and its file holds its whole ledger unless its last write failed*)
(* or a flush of the ticker was under way after the signal.                 *)
THEOREM ExitSaves == LifecycleSpec => []CleanExitIsSaved
<1>1. ProcessInv => CleanExitIsSaved
  BY DEF ProcessInv, OrderInv, FlushInv, CleanExitIsSaved
<1> QED
  BY <1>1, ProcessInvariance, PTL

(* main.go:127-160: the file of a process goes back, through kills and      *)
(* restarts, only if a flush of the ticker was under way while run was on   *)
(* its way out.                                                             *)
THEOREM FileGrows == LifecycleSpec => FileGoesBackOnlyByOverlap
<1>1. ProcessInv /\ [LifecycleNext]_lifecycleVars =>
        [NotBefore(disk', disk) \/ "overlap" \in excuses]_disk
  BY StepGrowth DEF lifecycleVars, vars
<1> QED
  BY <1>1, ProcessInvariance, PTL DEF LifecycleSpec, FileGoesBackOnlyByOverlap

(* client.go:462: in the process too, no refresh sets a policy after the    *)
(* deferred Close has come to its Flush, for every client a restart makes.  *)
THEOREM ProxyStopsRefresh == LifecycleSpec => []ClosedMeansStopped
<1>1. ProcessInv => ClosedMeansStopped
  BY DEF ProcessInv, ClosingInv
<1> QED
  BY <1>1, ProcessInvariance, PTL

(* run is the only caller of Close, so what two closers can do to each other*)
(* does not happen in nexus-proxy.                                          *)
THEOREM ProxyNeverPanics == LifecycleSpec => []CloseIsSafe
<1>1. ProcessInv => CloseIsSafe
  BY DEF ProcessInv, ClosingInv
<1> QED
  BY <1>1, ProcessInvariance, PTL

(* What is proved of the ledger for any flushers holds in the process,      *)
(* whenever it is signalled, killed or started again.                       *)
THEOREM ProxyKeepsLedger == LifecycleSpec => Spec
<1>1. LifecycleInit => Init
  BY DEF LifecycleInit
<1>2. [LifecycleNext]_lifecycleVars => [Next]_vars
  BY LedgerSteps DEF lifecycleVars
<1> QED
  BY <1>1, <1>2, PTL DEF LifecycleSpec, Spec

=============================================================================
