------------------------------ MODULE InProcess ------------------------------
(***************************************************************************)
(* One request through the SDK's in-process HTTP client (client.go:529-649)*)
(* handlerTransport.RoundTrip runs the handler in a goroutine of its own,  *)
(* waits for its header or for the request's context, and gives the caller *)
(* a response whose body is the reading end of an io.Pipe.                 *)
(*                                                                         *)
(* The handler writes any number of bytes, or none, and then returns,      *)
(* aborts (http.ErrAbortHandler) or panics.  A byte is only counted.       *)
(***************************************************************************)
EXTENDS Naturals

CONSTANTS
    MaxBytes,   \* bound: bytes the handler writes
    MaxWrite    \* bound: bytes of one Write

ASSUME BoundAssumption == MaxBytes \in Nat /\ MaxWrite \in Nat \ {0}

VARIABLES
    ctx,            \* the request's context
    rt,             \* where RoundTrip is
    handler,        \* where the handler's goroutine is
    status, terminalErr, \* of the response writer, which the header or finish sets
    readies,        \* how often ready was closed
    finished,       \* finishOnce has run
    writeEnd,       \* "open", or what the pipe's reader gets when it is empty
    readEnd,        \* "open" or "closed"
    wrote,          \* bytes of all Writes so far
    pending,        \* bytes of the Write in progress nobody has read
    taken, end      \* bytes the caller has read, and how its reading ended

vars == <<ctx, rt, handler, status, terminalErr, readies, finished,
          writeEnd, readEnd, wrote, pending, taken, end>>
writer == <<status, terminalErr, readies, finished, writeEnd>>
bytes == <<wrote, pending, taken, end>>

Errors == {"unexpected EOF", "panic", "cancelled"}

TypeOK ==
    /\ ctx \in {"live", "cancelled"}
    /\ rt \in {"select", "close", "response", "error"}
    /\ handler \in {"running", "writing", "failed", "returned", "aborted"}
    /\ status \in {"none", "OK"} /\ terminalErr \in {"none"} \cup Errors
    /\ readies \in {0, 1} /\ finished \in BOOLEAN
    /\ writeEnd \in {"open", "EOF"} \cup Errors /\ readEnd \in {"open", "closed"}
    /\ wrote \in 0..MaxBytes /\ taken \in 0..wrote
    /\ pending \in 0..MaxWrite
    /\ end \in {"none", "EOF", "closed"} \cup Errors

Init ==
    /\ ctx = "live" /\ rt = "select" /\ handler = "running"
    /\ status = "none" /\ terminalErr = "none" /\ readies = 0 /\ finished = FALSE
    /\ writeEnd = "open" /\ readEnd = "open"
    /\ wrote = 0 /\ pending = 0 /\ taken = 0 /\ end = "none"

-----------------------------------------------------------------------------
(* inProcessResponseWriter. *)

(* Mutants: ready is closed again; a late error replaces the answer.        *)
ReadyAgain(newStatus, err) == status' = newStatus /\ terminalErr' = err /\ readies' = readies + 1
ReadyLate(newStatus, err) ==
    IF readies = 0
    THEN status' = newStatus /\ terminalErr' = err /\ readies' = 1
    ELSE terminalErr' = err /\ UNCHANGED <<status, readies>>

(* readyOnce: the header or a terminal error, whichever comes first. *)
Ready(newStatus, err) ==
    IF readies = 0
    THEN status' = newStatus /\ terminalErr' = err /\ readies' = 1
    ELSE UNCHANGED <<status, terminalErr, readies>>

WriteHeader == Ready("OK", "none")

(* Mutant: a handler that never wrote leaves RoundTrip waiting. *)
ConcludeSilently(err) ==
    IF err = "none" THEN UNCHANGED <<status, terminalErr, readies>> ELSE Ready("none", err)

Conclude(err) == IF err = "none" THEN WriteHeader ELSE Ready("none", err)

Finish(err) ==
    IF finished
    THEN UNCHANGED writer
    ELSE /\ finished' = TRUE
         /\ Conclude(err)
         /\ writeEnd' = IF err = "none" THEN "EOF" ELSE err

PipeClosed == writeEnd # "open" \/ readEnd = "closed"

-----------------------------------------------------------------------------
(* The handler's goroutine. *)

(* Write returns when all its bytes are read or an end of the pipe closes.  *)
Write(n) ==
    /\ handler = "running"
    /\ wrote + n <= MaxBytes
    /\ WriteHeader
    /\ IF PipeClosed
       THEN handler' = "failed" /\ UNCHANGED <<wrote, pending>>
       ELSE handler' = "writing" /\ wrote' = wrote + n /\ pending' = n
    /\ UNCHANGED <<ctx, rt, finished, writeEnd, readEnd, taken, end>>

WriteReturns ==
    /\ handler = "writing" /\ pending = 0
    /\ handler' = "running"
    /\ UNCHANGED <<ctx, rt, writer, readEnd, bytes>>

WriteFails ==
    /\ handler = "writing" /\ PipeClosed
    /\ handler' = "failed" /\ pending' = 0
    /\ UNCHANGED <<ctx, rt, writer, readEnd, wrote, taken, end>>

(* WriteHeader or Flush, before any byte of the body. *)
SendHeader ==
    /\ handler = "running" /\ readies = 0
    /\ WriteHeader
    /\ UNCHANGED <<ctx, rt, handler, finished, writeEnd, readEnd, bytes>>

(* ServeHTTP returns or panics, at once when a Write has failed. *)
Ends(how, err) ==
    /\ handler \in {"running", "failed"}
    /\ handler' = how
    /\ Finish(err)
    /\ UNCHANGED <<ctx, rt, readEnd, bytes>>

Ended == handler \in {"returned", "aborted"}

(* Mutant: a recovered panic ends the response like a return. *)
RecoveredAsReturn == {"none"}

(* What the deferred function makes of http.ErrAbortHandler, or of another. *)
Recovered == {"unexpected EOF", "panic"}

HandlerReturns == Ends("returned", "none")
HandlerPanics == \E err \in Recovered : Ends("aborted", err)

-----------------------------------------------------------------------------
(* RoundTrip. *)

CloseReader == readEnd' = "closed"

(* Mutant: the pipe of a response that is not returned stays open. *)
GiveUpOpen == rt' = "error" /\ UNCHANGED readEnd

GiveUp == rt' = "error" /\ CloseReader

AnswerReady ==
    /\ rt = "select" /\ readies > 0
    /\ IF ctx = "cancelled" \/ terminalErr # "none"
       THEN GiveUp
       ELSE rt' = "response" /\ UNCHANGED readEnd
    /\ UNCHANGED <<ctx, handler, writer, bytes>>

(* select chooses either branch when both are possible. *)
AnswerCancelled ==
    /\ rt = "select" /\ ctx = "cancelled"
    /\ Finish("cancelled")
    /\ rt' = "close"
    /\ UNCHANGED <<ctx, handler, readEnd, bytes>>

CloseCancelled ==
    /\ rt = "close"
    /\ GiveUp
    /\ UNCHANGED <<ctx, handler, writer, bytes>>

-----------------------------------------------------------------------------
(* The caller of RoundTrip. *)

Cancel ==
    /\ ctx = "live" /\ ctx' = "cancelled"
    /\ UNCHANGED <<rt, handler, writer, readEnd, bytes>>

Read ==
    /\ rt = "response" /\ end = "none" /\ readEnd = "open"
    /\ \/ \E n \in 1..pending :
             /\ pending' = pending - n /\ taken' = taken + n
             /\ UNCHANGED end
       \/ /\ pending = 0 /\ writeEnd # "open"
          /\ end' = writeEnd
          /\ UNCHANGED <<pending, taken>>
    /\ UNCHANGED <<ctx, rt, handler, writer, readEnd, wrote>>

CloseBody ==
    /\ rt = "response" /\ readEnd = "open"
    /\ CloseReader
    /\ end' = IF end = "none" THEN "closed" ELSE end
    /\ UNCHANGED <<ctx, rt, handler, writer, wrote, pending, taken>>

Handler ==
    \/ \E n \in 1..MaxWrite : Write(n)
    \/ WriteReturns \/ WriteFails \/ SendHeader \/ HandlerReturns \/ HandlerPanics
RoundTrip == AnswerReady \/ AnswerCancelled \/ CloseCancelled
Caller == Cancel \/ Read \/ CloseBody

Next == Handler \/ RoundTrip \/ Caller

Spec == Init /\ [][Next]_vars

(***************************************************************************)
(* Fairness.  RoundTrip and steps of the handler that only touch the pipe  *)
(* go on.  What the handler does next may wait for the Gateway, without a  *)
(* timeout, unless the request's context ends: ServeHTTP passes it on to   *)
(* the exchange.  The caller reads the body or closes it, as it must.      *)
(***************************************************************************)
Fairness ==
    /\ WF_vars(RoundTrip)
    /\ WF_vars(WriteReturns \/ WriteFails \/ (handler = "failed" /\ (HandlerReturns \/ HandlerPanics)))
    /\ WF_vars(ctx = "cancelled" /\ Handler)
    /\ WF_vars(Read \/ CloseBody)

FairSpec == Spec /\ Fairness

-----------------------------------------------------------------------------
(* Properties. *)

(* client.go:564-593: whatever finishes first, RoundTrip's answer is one:   *)
(* a response has the status the handler gave and no terminal error, and    *)
(* after an error nobody can be given bytes of the body any more.           *)
OneAnswer ==
    /\ status # "none" => terminalErr = "none"
    /\ rt = "response" => status # "none"
    /\ rt = "error" => readEnd = "closed" /\ taken = 0

(* client.go:550-560: a body that ends with io.EOF was read to the last     *)
(* byte the handler wrote, and the handler returned.  An aborted stream     *)
(* never looks complete.                                                    *)
CleanEndIsComplete == [][
    end' = "EOF" /\ end = "none" => taken = wrote /\ handler = "returned"]_vars

(* RoundTrip returns once the context has ended or the handler has, even    *)
(* when it never wrote anything.                                            *)
RoundTripAnswers ==
    ctx = "cancelled" \/ Ended ~> rt \in {"response", "error"}

(* A handler does not outlive a cancelled request, not even one blocked in  *)
(* a Write of which nobody will read the bytes.                             *)
CancelledHandlerEnds == ctx = "cancelled" ~> Ended

=============================================================================
