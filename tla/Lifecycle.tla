----------------------------- MODULE Lifecycle -----------------------------
(***************************************************************************)
(* A nexus-proxy process with a state file (cmd/nexus-proxy/main.go:50-185)*)
(* from New to exit, over the ledger it records in and flushes (Ledger) and*)
(* the client it closes (ClientClose).  run is the goroutine Main; Ticker  *)
(* flushes every five seconds; the server's handlers record what they did. *)
(* The process may be killed at any point, and started again.              *)
(***************************************************************************)
EXTENDS Ledger, ClientClose

CONSTANTS
    Main, Ticker,
    MaxInflight     \* bound: requests being served

ASSUME ProcessAssumption == Flushers = {Main, Ticker} /\ Main # Ticker /\ Main \in Closers
ASSUME InflightAssumption == MaxInflight \in Nat \ {0}

VARIABLES
    stage,      \* where run is
    code,       \* the exit code run has decided on
    ticker,     \* the flushing goroutine: not started, running, ended
    stopFlushing, \* the channel is closed
    connected,  \* there may be connections on which requests come
    inflight,   \* requests the server's handlers are busy with
    excuses     \* history: why a clean exit may have lost records

process == <<stage, code, ticker, stopFlushing, connected, inflight>>
lifecycleVars == <<vars, closeVars, process, excuses>>

Stages == {"new", "listen", "serving", "flush", "shutdown", "close", "exited"}
Leaving == {"flush", "shutdown", "close"}

LifecycleTypeOK ==
    /\ TypeOK /\ CloseTypeOK
    /\ stage \in Stages /\ code \in 0..2
    /\ ticker \in {"none", "running", "ended"}
    /\ stopFlushing \in BOOLEAN /\ connected \in BOOLEAN
    /\ inflight \in 0..MaxInflight
    /\ excuses \subseteq {"overlap", "error"}

NoProcess ==
    /\ code = 0
    /\ ticker = "none" /\ stopFlushing = FALSE
    /\ connected = FALSE /\ inflight = 0
    /\ excuses = {}

LifecycleInit == Init /\ NoClient /\ NoProcess /\ stage = "new"

(* A flush of Ticker while run is on its way out is seen by the history.    *)
Observe(failed) ==
    excuses' = excuses
        \cup (IF stage' \in Leaving /\ pc'[Ticker] # "idle" THEN {"overlap"} ELSE {})
        \cup (IF failed THEN {"error"} ELSE {})

Move(from, to) == stage = from /\ stage' = to
Alive == stage # "exited"

-----------------------------------------------------------------------------
(* run, until it serves. *)

(* New has verified the Gateway and returns a client. *)
NewSucceeds ==
    /\ Move("new", "listen")
    /\ \E k \in Keys : RecordVerified(k)
    /\ startPolicyRefresh \/ UNCHANGED closeVars
    /\ UNCHANGED <<code, ticker, stopFlushing, connected, inflight, excuses>>

(* New returns an error: with a rejection in its ledger, if it came so far. *)
NewFails ==
    /\ Move("new", "exited")
    /\ RecordRejected \/ UNCHANGED vars
    /\ code' = 1
    /\ UNCHANGED <<closeVars, ticker, stopFlushing, connected, inflight, excuses>>

ListenFails ==
    /\ Move("listen", "close")
    /\ code' = 1
    /\ UNCHANGED <<vars, closeVars, ticker, stopFlushing, connected, inflight, excuses>>

Serve ==
    /\ Move("listen", "serving")
    /\ ticker' = "running"
    /\ connected' = TRUE
    /\ UNCHANGED <<vars, closeVars, code, stopFlushing, inflight, excuses>>

-----------------------------------------------------------------------------
(* The server's goroutines. *)

(* A request comes, on a new connection or on one that was accepted before  *)
(* the listener was closed: Serve's failure and Shutdown leave those alone  *)
(* until Shutdown has found them idle.                                      *)
Accept ==
    /\ Alive /\ connected
    /\ inflight < MaxInflight
    /\ inflight' = inflight + 1
    /\ UNCHANGED <<vars, closeVars, stage, code, ticker, stopFlushing, connected, excuses>>

(* A prompt finds no valid session: its handler verifies the Gateway.      *)
HandlerVerifies ==
    /\ Alive /\ inflight > 0
    /\ RecordRejected \/ \E k \in Keys : RecordVerified(k)
    /\ UNCHANGED <<closeVars, process>>
    /\ Observe(FALSE)

(* A handler returns; a chat completion's has recorded its outcome. *)
HandlerEnds ==
    /\ Alive /\ inflight > 0
    /\ inflight' = inflight - 1
    /\ UNCHANGED vars \/ \E outcome \in Requests : RecordRequest(outcome)
    /\ UNCHANGED <<closeVars, stage, code, ticker, stopFlushing, connected>>
    /\ Observe(FALSE)

(* Serve returns an error: run leaves, or, when it is leaving already, will *)
(* find it after Shutdown.                                                  *)
ServerFails ==
    /\ code = 0 /\ code' = 1
    /\ Move("serving", "close") \/ Move("flush", "flush")
    /\ UNCHANGED <<vars, closeVars, ticker, stopFlushing, connected, inflight>>
    /\ Observe(FALSE)

-----------------------------------------------------------------------------
(* The flushing goroutine. *)

FlushStarts(f) == FlushClean(f) \/ FlushClaim(f)
FlushGoesOn(f) == snapshotForDisk(f) \/ WriteTemporary(f) \/ Rename(f)
FlushEnds(f) == FlushReturns(f) \/ FlushFails(f)

(* select may prefer a tick that is due to stopFlushing. *)
TickerFlushes ==
    /\ Alive /\ ticker = "running"
    /\ FlushStarts(Ticker) \/ FlushGoesOn(Ticker) \/ FlushEnds(Ticker)
    /\ UNCHANGED <<closeVars, process>>
    /\ Observe(FALSE)

TickerStops ==
    /\ Alive /\ ticker = "running" /\ stopFlushing
    /\ pc[Ticker] = "idle"
    /\ ticker' = "ended"
    /\ UNCHANGED <<vars, closeVars, stage, code, stopFlushing, connected, inflight, excuses>>

Refreshes ==
    /\ Alive /\ RefreshStep
    /\ UNCHANGED <<vars, process, excuses>>

-----------------------------------------------------------------------------
(* run, on its way out. *)

(* SIGINT or SIGTERM, and close(stopFlushing); a second signal is not read. *)
Signal ==
    /\ Move("serving", "flush")
    /\ stopFlushing' = TRUE
    /\ UNCHANGED <<vars, closeVars, code, ticker, connected, inflight>>
    /\ Observe(FALSE)

(* Mutant: run flushes, beside its ticker, while it serves. *)
FlushDueServing == stage \in {"serving", "flush"} \/ (stage = "close" /\ closing[Main] = "flush")

(* The Flush after the signal, and the one in Close. *)
FlushDue == stage = "flush" \/ (stage = "close" /\ closing[Main] = "flush")

MainFlushes ==
    /\ FlushDue
    /\ FlushStarts(Main) \/ FlushGoesOn(Main)
    /\ UNCHANGED <<closeVars, process>>
    /\ Observe(FALSE)

(* An error is logged, and is no reason to stay or for another exit code.   *)
MainFlushed ==
    /\ FlushDue
    /\ FlushEnds(Main)
    /\ \/ Move("flush", "shutdown") /\ UNCHANGED closeVars
       \/ Move("close", "exited") /\ CloseReturns(Main)
    /\ UNCHANGED <<code, ticker, stopFlushing, connected, inflight>>
    /\ Observe(stage = "close" /\ pc[Main] # "saved")

(* Mutant: Shutdown does not wait for the handlers. *)
DrainedAnyway == TRUE

Drained == inflight = 0

(* Shutdown has found every connection idle and closed it, and run has      *)
(* Serve's error.                                                           *)
ShutdownEnds ==
    /\ Move("shutdown", "close")
    /\ Drained
    /\ connected' = FALSE
    /\ UNCHANGED <<vars, closeVars, code, ticker, stopFlushing, inflight>>
    /\ Observe(FALSE)

(* Ten seconds have passed; connections and handlers are left behind. *)
ShutdownTimesOut ==
    /\ Move("shutdown", "close")
    /\ code' = 1
    /\ UNCHANGED <<vars, closeVars, ticker, stopFlushing, connected, inflight>>
    /\ Observe(FALSE)

(* The deferred sdk.Close, up to its Flush. *)
Closes ==
    /\ stage = "close"
    /\ StopStep(Main)
    /\ UNCHANGED <<vars, process>>
    /\ Observe(FALSE)

(* The process is killed, or the machine goes down. *)
Killed ==
    /\ Alive /\ stage' = "exited"
    /\ code' = 2
    /\ UNCHANGED <<vars, closeVars, ticker, stopFlushing, connected, inflight, excuses>>

(* Another process opens the state file. *)
Restart ==
    /\ Move("exited", "new")
    /\ Crash
    /\ stopRefresh' = FALSE /\ cancelled' = FALSE /\ refresh' = "none"
    /\ closing' = [k \in Closers |-> "idle"]
    /\ code' = 0 /\ ticker' = "none" /\ stopFlushing' = FALSE
    /\ connected' = FALSE /\ inflight' = 0
    /\ excuses' = {}

LifecycleNext ==
    \/ NewSucceeds \/ NewFails \/ ListenFails \/ Serve
    \/ Accept \/ HandlerVerifies \/ HandlerEnds \/ ServerFails
    \/ TickerFlushes \/ TickerStops \/ Refreshes
    \/ Signal \/ MainFlushes \/ MainFlushed \/ ShutdownEnds \/ ShutdownTimesOut \/ Closes
    \/ Killed \/ Restart

LifecycleSpec == LifecycleInit /\ [][LifecycleNext]_lifecycleVars

(***************************************************************************)
(* Fairness.  run goes on once it is leaving: file operations end, Shutdown*)
(* has its timeout.  A refresh ends, its requests having timeouts, and the *)
(* select that sees the cancellation again and again at last takes it.     *)
(***************************************************************************)
Leave == MainFlushes \/ MainFlushed \/ ShutdownEnds \/ ShutdownTimesOut \/ Closes

LifecycleFairSpec ==
    /\ LifecycleSpec
    /\ WF_lifecycleVars(Leave)
    /\ WF_lifecycleVars(Alive /\ RefreshEnds /\ UNCHANGED <<vars, process, excuses>>)
    /\ SF_lifecycleVars(Alive /\ RefreshStops /\ UNCHANGED <<vars, process, excuses>>)

-----------------------------------------------------------------------------
(* Properties. *)

(* main.go:117-119, 160-183: a process that exits with 0 has let every      *)
(* request end and has everything it recorded in the state file, what was   *)
(* recorded after the flush of the signal included, unless the last write   *)
(* failed or a flush of the ticker was under way after the signal: that one *)
(* is not waited for.                                                       *)
CleanExitIsSaved ==
    stage = "exited" /\ code = 0 => inflight = 0 /\ (excuses = {} => disk = Encoded(mem))

(* main.go:127-160, client.go:470: the ticker's goroutine and run both flush,*)
(* and nothing but the order of their lives keeps an older copy from being  *)
(* renamed over a newer file.  While run serves it is enough; once run is on*)
(* its way out the file goes back only if a flush of the ticker was under   *)
(* way then, and a process starts from what the last one left.              *)
FileGoesBackOnlyByOverlap == [][NotBefore(disk', disk) \/ "overlap" \in excuses]_disk

(* A process that is told to stop, or whose server failed, comes to its end,*)
(* whatever its requests, its disk and its policy refresh are doing.        *)
ComesToAnEnd == stage \in Leaving ~> stage = "exited"

=============================================================================
