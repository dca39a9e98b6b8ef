------------------------------- MODULE Handler -------------------------------
(***************************************************************************)
(* One chat completion in internal/proxy/handler.go: the exchange, the     *)
(* forwarding of its authenticated response to the local client, and the   *)
(* request record the deferred function of ServeHTTP hands to the ledger.  *)
(*                                                                         *)
(* The response arrives in reads of any size and may be cut anywhere; the  *)
(* client may leave at any moment.  A byte is one of the classes that      *)
(* sseDoneTracker tells apart: "a" and "b" are the two halves of           *)
(* data: [DONE], "s" a space, "n" a newline, "x" anything else.            *)
(***************************************************************************)
EXTENDS Integers, Sequences, SequencesExt

CONSTANTS
    Bytes,      \* the classes in use
    MaxLine,    \* maxSSELineTracking
    MaxRead,    \* bound: bytes of one read
    MaxBytes    \* bound: bytes of a stream

ASSUME LineAssumption == MaxLine \in Nat /\ MaxLine >= 2

VARIABLES
    pc,         \* where ServeHTTP is
    client,     \* whether the local client still reads
    received,   \* history: authenticated bytes read so far
    delivered,  \* bytes whose write to the client succeeded
    chunk,      \* the bytes just read
    readErr,    \* the error that came with them
    tracker,    \* sseDoneTracker
    outcome,    \* record.Outcome
    recorded    \* the outcomes RecordRequest was given

vars == <<pc, client, received, delivered, chunk, readErr, tracker, outcome, recorded>>
stream == <<received, delivered, chunk, readErr, tracker>>

Outcomes == {"encrypted", "failed"}
Trackers == [line : Seq(Bytes), tooLong : BOOLEAN, done : BOOLEAN]

TypeOK ==
    /\ pc \in {"request", "send", "normal", "read", "write", "ended", "returned", "aborted"}
    /\ client \in {"reading", "gone"}
    /\ received \in Seq(Bytes) /\ delivered \in Seq(Bytes) /\ chunk \in Seq(Bytes)
    /\ readErr \in {"none", "EOF", "cut"}
    /\ tracker \in Trackers /\ Len(tracker.line) <= MaxLine
    /\ outcome \in Outcomes /\ recorded \in Seq(Outcomes)

Init ==
    /\ pc = "request" /\ client = "reading"
    /\ received = <<>> /\ delivered = <<>> /\ chunk = <<>>
    /\ readErr = "none"
    /\ tracker = [line |-> <<>>, tooLong |-> FALSE, done |-> FALSE]
    /\ outcome = "failed" /\ recorded = <<>>

-----------------------------------------------------------------------------
(* sseDoneTracker. *)

Spaces(s) == \A i \in DOMAIN s : s[i] = "s"

(* bytes.TrimSpace(s) is data: [DONE] *)
IsDone(s) == \E i \in 0..(Len(s) - 2) :
    /\ Spaces(SubSeq(s, 1, i))
    /\ SubSeq(s, i + 1, i + 2) = <<"a", "b">>
    /\ Spaces(SubSeq(s, i + 3, Len(s)))

(* Mutant: a line that was too long makes the next one too long as well. *)
finishLineKeeping(t) ==
    [t EXCEPT !.line = <<>>, !.done = @ \/ (~t.tooLong /\ IsDone(t.line))]

finishLine(t) ==
    [line |-> <<>>, tooLong |-> FALSE,
     done |-> t.done \/ (~t.tooLong /\ IsDone(t.line))]

(* Mutant: the limit is noticed one byte late. *)
WriteByteLate(t, byte) ==
    IF byte = "n" THEN finishLine(t)
    ELSE IF t.tooLong THEN t
    ELSE IF Len(t.line) > MaxLine THEN [line |-> <<>>, tooLong |-> TRUE, done |-> t.done]
    ELSE [t EXCEPT !.line = Append(@, byte)]

WriteByte(t, byte) ==
    IF byte = "n" THEN finishLine(t)
    ELSE IF t.tooLong THEN t
    ELSE IF Len(t.line) = MaxLine THEN [line |-> <<>>, tooLong |-> TRUE, done |-> t.done]
    ELSE [t EXCEPT !.line = Append(@, byte)]

TrackerWrite(t, data) ==
    LET After[i \in 0..Len(data)] ==
            IF i = 0 THEN t ELSE WriteByte(After[i - 1], data[i])
    IN  After[Len(data)]

TrackerFinish(t) == IF t.line # <<>> \/ t.tooLong THEN finishLine(t) ELSE t

-----------------------------------------------------------------------------
(* Mutant: the request is recorded where ServeHTTP returns. *)
EndUndeferred(how, result) ==
    /\ pc' = how
    /\ outcome' = result
    /\ recorded' = IF how = "aborted" THEN recorded ELSE Append(recorded, result)

(* ServeHTTP returns, or panics with ErrAbortHandler; either way the        *)
(* deferred function records the request.                                   *)
End(how, result) ==
    /\ pc' = how
    /\ outcome' = result
    /\ recorded' = Append(recorded, result)

(* Another route, or refused before anything is sent: method, media type, a *)
(* body over 10 MiB or not one JSON object, no request identifier.  Such a  *)
(* request is not in the ledger.                                            *)
NotSent ==
    /\ pc = "request" /\ pc' = "returned"
    /\ UNCHANGED <<client, stream, outcome, recorded>>

Send ==
    /\ pc = "request" /\ pc' = "send"
    /\ UNCHANGED <<client, stream, outcome, recorded>>

(* Do failed, or the Gateway's status forbids a body: 502 to the client. *)
SendFails == pc = "send" /\ End("returned", "failed") /\ UNCHANGED <<client, stream>>

SendSucceeds ==
    /\ pc = "send"
    /\ pc' \in {"normal", "read"}
    /\ UNCHANGED <<client, stream, outcome, recorded>>

(* forwardNormal: the body was cut, too long or not one JSON object. *)
NormalFails == pc = "normal" /\ End("returned", "failed") /\ UNCHANGED <<client, stream>>

(* The outcome is decided before the response is written to the client. *)
NormalForwarded == pc = "normal" /\ End("returned", "encrypted") /\ UNCHANGED <<client, stream>>

(* forwardEventStream: one turn of the loop reads, with or without error,   *)
(* and lets the tracker see the bytes before the client does.               *)
Read ==
    /\ pc = "read"
    /\ \E data \in SeqOf(Bytes, MaxRead), err \in {"none", "EOF", "cut"} :
          /\ data # <<>> \/ err # "none"
          /\ Len(received) + Len(data) <= MaxBytes
          /\ received' = received \o data
          /\ chunk' = data
          /\ readErr' = err
          /\ tracker' = TrackerWrite(tracker, data)
          /\ pc' = IF data = <<>> THEN "ended" ELSE "write"
    /\ UNCHANGED <<client, delivered, outcome, recorded>>

(* A write to a client that has left may still seem to succeed. *)
WriteSucceeds ==
    /\ pc = "write"
    /\ delivered' = delivered \o chunk
    /\ chunk' = <<>>
    /\ pc' = IF readErr = "none" THEN "read" ELSE "ended"
    /\ UNCHANGED <<client, received, readErr, tracker, outcome, recorded>>

WriteFails ==
    /\ pc = "write" /\ client = "gone"
    /\ End("returned", outcome)
    /\ UNCHANGED <<client, stream>>

(* Mutant: a stream that ends without an error is taken for complete. *)
StreamEndsOnEOF ==
    /\ pc = "ended"
    /\ tracker' = TrackerFinish(tracker)
    /\ IF tracker'.done THEN End("returned", "encrypted")
       ELSE End(IF readErr = "EOF" THEN "returned" ELSE "aborted", outcome)
    /\ UNCHANGED <<client, received, delivered, chunk, readErr>>

(* The upstream is over; the terminator decides, not the read error. *)
StreamEnds ==
    /\ pc = "ended"
    /\ tracker' = TrackerFinish(tracker)
    /\ IF tracker'.done THEN End("returned", "encrypted") ELSE End("aborted", outcome)
    /\ UNCHANGED <<client, received, delivered, chunk, readErr>>

ClientLeaves ==
    /\ client = "reading" /\ client' = "gone"
    /\ UNCHANGED <<pc, stream, outcome, recorded>>

Next ==
    \/ NotSent \/ Send \/ SendFails \/ SendSucceeds \/ NormalFails \/ NormalForwarded
    \/ Read \/ WriteSucceeds \/ WriteFails \/ StreamEnds \/ ClientLeaves

Spec == Init /\ [][Next]_vars

-----------------------------------------------------------------------------
(* Properties. *)

(* A line of s, from i to j, has newlines or the ends of s around it.  The  *)
(* last one only counts when `whole`: s will not grow any more.             *)
Line(s, i, j, whole) ==
    /\ i = 1 \/ s[i - 1] = "n"
    /\ \A k \in i..j : s[k] # "n"
    /\ IF j = Len(s) THEN whole ELSE s[j + 1] = "n"

Terminated(s, whole) == \E i \in 1..Len(s) : \E j \in i..Len(s) :
    Line(s, i, j, whole) /\ j - i < MaxLine /\ IsDone(SubSeq(s, i, j))

Streaming == pc \in {"read", "write", "ended"}

(* handler.go:435-475: whatever the reads split the stream into, the        *)
(* tracker has seen a terminator exactly when one of the lines is one.      *)
TrackerIsExact == Streaming => (tracker.done <=> Terminated(received, FALSE))

Over == pc \in {"returned", "aborted"}

(* handler.go:190-193, 323-341: however a stream ends, by a return, a failed*)
(* write or the panic of an abort, it has been recorded once, and it counts *)
(* as encrypted exactly when it was delivered to the last byte and had its  *)
(* terminator, wherever it was cut afterwards.                              *)
RecordIsTrue ==
    Over /\ (received # <<>> \/ pc = "aborted") =>
        recorded = IF delivered = received /\ Terminated(received, TRUE)
                   THEN <<"encrypted">> ELSE <<"failed">>

(* A client that has not left never sees a clean end of a stream that lacks *)
(* its terminator: the handler aborts the connection instead.               *)
CutIsVisible ==
    pc = "returned" /\ received # <<>> /\ client = "reading" => Terminated(delivered, TRUE)

=============================================================================
