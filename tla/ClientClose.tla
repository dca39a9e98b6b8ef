---------------------------- MODULE ClientClose ----------------------------
(***************************************************************************)
(* The policy refresh goroutine of an SDK client and Close (client.go:     *)
(* 291-325, 462-472).  startPolicyRefresh gives the client a cancel        *)
(* function and a channel that the goroutine closes when it returns; Close *)
(* reads both fields, without a lock, step by step.                        *)
(***************************************************************************)

CONSTANTS Closers       \* goroutines that may call Close

VARIABLES
    stopRefresh,    \* the field is not nil
    cancelled,      \* refreshContext is done
    refresh,        \* the goroutine: none, at its select, fetching, done
    closing         \* where each caller of Close is

closeVars == <<stopRefresh, cancelled, refresh, closing>>

CloseTypeOK ==
    /\ stopRefresh \in BOOLEAN /\ cancelled \in BOOLEAN
    /\ refresh \in {"none", "waiting", "fetching", "done"}
    /\ closing \in [Closers -> {"idle", "cancel", "wait", "flush", "closed", "panic"}]

NoClient ==
    /\ stopRefresh = FALSE /\ cancelled = FALSE
    /\ refresh = "none"
    /\ closing = [k \in Closers |-> "idle"]

(* The end of New, with or without TrustPolicyUpdates. *)
startPolicyRefresh ==
    /\ stopRefresh' = TRUE
    /\ refresh' = "waiting"
    /\ UNCHANGED <<cancelled, closing>>

(* select may prefer a tick that is due to a context that is done. *)
RefreshTick ==
    /\ refresh = "waiting"
    /\ refresh' = "fetching"
    /\ UNCHANGED <<stopRefresh, cancelled, closing>>

(* A policy was applied, or the error, which may be the cancellation, logged.*)
RefreshEnds ==
    /\ refresh = "fetching"
    /\ refresh' = "waiting"
    /\ UNCHANGED <<stopRefresh, cancelled, closing>>

RefreshStops ==
    /\ refresh = "waiting" /\ cancelled
    /\ refresh' = "done"
    /\ UNCHANGED <<stopRefresh, cancelled, closing>>

RefreshStep == RefreshTick \/ RefreshEnds \/ RefreshStops

-----------------------------------------------------------------------------

CloseGoto(k, label) == closing' = [closing EXCEPT ![k] = label]

CloseCheck(k) ==
    /\ closing[k] = "idle"
    /\ CloseGoto(k, IF stopRefresh THEN "cancel" ELSE "flush")
    /\ UNCHANGED <<stopRefresh, cancelled, refresh>>

(* Mutant: the wait comes without the cancellation. *)
CancelForgotten == UNCHANGED cancelled

Cancel == cancelled' = TRUE

(* The field is read again; calling it when it is nil panics. *)
CloseCancel(k) ==
    /\ closing[k] = "cancel"
    /\ \/ stopRefresh /\ Cancel /\ CloseGoto(k, "wait")
       \/ ~stopRefresh /\ CloseGoto(k, "panic") /\ UNCHANGED cancelled
    /\ UNCHANGED <<stopRefresh, refresh>>

(* Mutant: Close cancels the refresh and does not wait for it. *)
StoppedOrCancelled == cancelled

Stopped == refresh = "done"

CloseClear(k) ==
    /\ closing[k] = "wait"
    /\ Stopped
    /\ stopRefresh' = FALSE
    /\ CloseGoto(k, "flush")
    /\ UNCHANGED <<cancelled, refresh>>

StopStep(k) == CloseCheck(k) \/ CloseCancel(k) \/ CloseClear(k)

(* Close returns what its Flush, a call of the ledger's, has returned. *)
CloseReturns(k) ==
    /\ closing[k] = "flush"
    /\ CloseGoto(k, "closed")
    /\ UNCHANGED <<stopRefresh, cancelled, refresh>>

CloseInit ==
    /\ stopRefresh \in BOOLEAN /\ cancelled = FALSE
    /\ refresh = IF stopRefresh THEN "waiting" ELSE "none"
    /\ closing = [k \in Closers |-> "idle"]

(* The closers of one client; a panic ends the process. *)
CloseNext ==
    /\ \A k \in Closers : closing[k] # "panic"
    /\ RefreshStep \/ \E k \in Closers : StopStep(k) \/ CloseReturns(k)

CloseSpec == CloseInit /\ [][CloseNext]_closeVars

-----------------------------------------------------------------------------
(* Properties. *)

(* client.go:117, "It is safe for concurrent use": whatever goroutines call *)
(* Close, none of them calls the nil function another one left.             *)
CloseIsSafe == \A k \in Closers : closing[k] # "panic"

(* client.go:462, "Close stops trust policy refresh": once a Close has come *)
(* to its Flush the goroutine sets no policy any more, though a fetch may   *)
(* have been under way, and succeeded, when Close was called.               *)
ClosedMeansStopped ==
    (\E k \in Closers : closing[k] \in {"flush", "closed"}) => refresh \in {"none", "done"}

=============================================================================
