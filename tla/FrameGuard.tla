----------------------------- MODULE FrameGuard -----------------------------
(***************************************************************************)
(* frameGuardReader (internal/confidential/frame_guard.go): the reader put *)
(* under the EHBP library that lets length-prefixed frames through         *)
(* unchanged and turns zero, oversized and truncated ones into errors.     *)
(*                                                                         *)
(* Its caller asks for any number of bytes at a time, its source answers   *)
(* with any part of what is left, and the connection ends or breaks at any *)
(* byte.  A length is PrefixLen digits of base Base, where the code has 4  *)
(* bytes.  As users of io.Reader do, the caller stops at the first error.  *)
(***************************************************************************)
EXTENDS Integers, Sequences, SequencesExt

CONSTANTS
    Base, PrefixLen,  \* the encoding of a frame's length
    MaxFrame,         \* maxEncryptedResponseFrame
    MaxWire,          \* bound: bytes the Gateway sends
    MaxRead           \* bound: bytes of one Read

ASSUME PrefixAssumption == Base \in Nat \ {0} /\ PrefixLen \in Nat \ {0}
ASSUME FrameAssumption == MaxFrame \in Nat
ASSUME ReadAssumption == MaxRead \in Nat

Byte == 0..(Base - 1)

VARIABLES
    wire,           \* what the Gateway sends before the connection ends
    pos,            \* bytes taken from the source
    header, headerOffset, frameRemaining, pendingError, eof, \* the reader's fields
    want, written,  \* the Read in progress: len(destination), and bytes put in it
    pc,
    out,            \* all bytes handed to the caller
    result          \* the first error the caller got

vars == <<wire, pos, header, headerOffset, frameRemaining, pendingError, eof,
          want, written, pc, out, result>>
frame == <<header, headerOffset, frameRemaining>>

Errors == {"none", "EOF", "truncated", "zero", "oversized", "broken"}

TypeOK ==
    /\ wire \in Seq(Byte) /\ pos \in 0..Len(wire)
    /\ header \in Seq(Byte) /\ Len(header) = PrefixLen
    /\ headerOffset \in 0..PrefixLen /\ frameRemaining \in Nat
    /\ pendingError \in Errors /\ eof \in BOOLEAN
    /\ want \in 0..MaxRead /\ written \in 0..want
    /\ pc \in {"idle", "loop", "stopped"}
    /\ out \in Seq(Byte) /\ result \in Errors

ZeroHeader == [i \in 1..PrefixLen |-> 0]

Init ==
    /\ wire \in SeqOf(Byte, MaxWire) /\ pos = 0
    /\ header = ZeroHeader /\ headerOffset = 0 /\ frameRemaining = 0
    /\ pendingError = "none" /\ eof = FALSE
    /\ want = 0 /\ written = 0
    /\ pc = "idle" /\ out = <<>> /\ result = "none"

(* binary.BigEndian.Uint32 *)
Length(prefix) == FoldLeft(LAMBDA sum, digit : sum * Base + digit, 0, prefix)

-----------------------------------------------------------------------------

(* The Read in progress returns with err; so the caller stops, or goes on.  *)
Return(err) ==
    /\ result' = err
    /\ pc' = IF err = "none" THEN "idle" ELSE "stopped"
    /\ want' = 0 /\ written' = 0

(* The error is kept for the next Read when this one has bytes to return. *)
ReturnOrKeep(err, bytes) ==
    IF bytes > 0 THEN pendingError' = err /\ Return("none")
                 ELSE Return(err) /\ UNCHANGED pendingError

Call(n) ==
    /\ pc = "idle"
    /\ \/ /\ pendingError # "none"
          /\ pendingError' = "none"
          /\ Return(pendingError)
       \/ /\ pendingError = "none" /\ eof
          /\ Return("EOF")
          /\ UNCHANGED pendingError
       \/ /\ pendingError = "none" /\ ~eof
          /\ pc' = "loop" /\ want' = n /\ written' = 0
          /\ UNCHANGED <<pendingError, result>>
    /\ UNCHANGED <<wire, pos, frame, eof, out>>

Looping == pc = "loop" /\ written < want
InHeader == headerOffset < PrefixLen /\ (headerOffset > 0 \/ frameRemaining > 0)

Least(a, b) == IF a <= b THEN a ELSE b

Full ==
    /\ pc = "loop" /\ written = want
    /\ Return("none")
    /\ UNCHANGED <<wire, pos, frame, pendingError, eof, out>>

(* Mutant: every copy starts with the prefix's first byte. *)
CopyFromStart == 1

Copied == Least(want - written, PrefixLen - headerOffset)
CopyFrom == headerOffset + 1

CopyHeader ==
    /\ Looping /\ InHeader
    /\ out' = out \o SubSeq(header, CopyFrom, CopyFrom + Copied - 1)
    /\ headerOffset' = headerOffset + Copied
    /\ written' = written + Copied
    /\ UNCHANGED <<wire, pos, header, frameRemaining, pendingError, eof, want, pc, result>>

(* What the source's Read may give: fewer bytes than asked, and an error    *)
(* with the last ones or after them; io.EOF only where the wire ends.       *)
SourceRead(asked, n, err) ==
    /\ n <= asked /\ pos + n <= Len(wire)
    /\ n > 0 \/ err # "none"
    /\ err = "EOF" => pos + n = Len(wire)

(* The end of a frame makes room for the next prefix. *)
NextFrame(n) ==
    IF frameRemaining = n /\ n > 0
    THEN headerOffset' = 0 /\ header' = ZeroHeader
    ELSE UNCHANGED <<headerOffset, header>>

(* The error that goes with n more bytes of a frame. *)
BodyError(err, n) == IF err = "EOF" /\ n < frameRemaining THEN "truncated" ELSE err

ReadBody ==
    /\ Looping /\ ~InHeader /\ frameRemaining > 0
    /\ \E n \in 0..MaxRead, err \in {"none", "EOF", "broken"} :
          /\ SourceRead(Least(want - written, frameRemaining), n, err)
          /\ pos' = pos + n
          /\ out' = out \o SubSeq(wire, pos + 1, pos + n)
          /\ frameRemaining' = frameRemaining - n
          /\ IF err = "none"
             THEN /\ written' = written + n
                  /\ NextFrame(n)
                  /\ UNCHANGED <<pendingError, want, pc, result>>
             ELSE /\ ReturnOrKeep(BodyError(err, n), written + n)
                  /\ UNCHANGED <<header, headerOffset>>
    /\ UNCHANGED <<wire, eof>>

BetweenFrames == Looping /\ ~InHeader /\ frameRemaining = 0

(* Mutant: one byte too many is let through. *)
AcceptableLoose(length) == length \in 1..(MaxFrame + 1)

Acceptable(length) == length \in 1..MaxFrame

(* io.ReadFull gets a whole prefix. *)
ReadPrefix ==
    /\ BetweenFrames
    /\ pos + PrefixLen <= Len(wire)
    /\ pos' = pos + PrefixLen
    /\ header' = SubSeq(wire, pos + 1, pos + PrefixLen)
    /\ LET length == Length(header')
       IN  \/ /\ Acceptable(length)
              /\ frameRemaining' = length
              /\ headerOffset' = 0
              /\ UNCHANGED <<want, written, pc, result>>
           \/ /\ length = 0
              /\ Return("zero")
              /\ UNCHANGED <<frameRemaining, headerOffset>>
           \/ /\ length > 0 /\ ~Acceptable(length)
              /\ Return("oversized")
              /\ UNCHANGED <<frameRemaining, headerOffset>>
    /\ UNCHANGED <<wire, pendingError, eof, out>>

(* io.EOF before the first byte of a prefix is the end of the response. *)
EndOfFrames ==
    /\ BetweenFrames
    /\ pos = Len(wire)
    /\ eof' = TRUE
    /\ Return(IF written > 0 THEN "none" ELSE "EOF")
    /\ UNCHANGED <<wire, pos, frame, pendingError, out>>

(* The source ends inside a prefix, or breaks anywhere in or before one. *)
PrefixFails ==
    /\ BetweenFrames
    /\ \E n \in 0..(PrefixLen - 1) :
          /\ pos + n <= Len(wire)
          /\ pos' = pos + n
          /\ header' = [i \in 1..PrefixLen |-> IF i <= n THEN wire[pos + i] ELSE header[i]]
    /\ ReturnOrKeep("truncated", written)
    /\ UNCHANGED <<wire, headerOffset, frameRemaining, eof, out>>

Continue == Full \/ CopyHeader \/ ReadBody \/ ReadPrefix \/ EndOfFrames \/ PrefixFails

Next == (\E n \in 1..MaxRead : Call(n)) \/ Continue

Spec == Init /\ [][Next]_vars

-----------------------------------------------------------------------------
(* Where the frames of s start, from position i on, reading it the way the  *)
(* EHBP library will; a frame that is not all there ends the list.          *)
FrameAt(s, i) == Length(SubSeq(s, i + 1, i + PrefixLen))

(* Those found by looking at every position below i. *)
Reached(s) ==
    LET Found[i \in 0..Len(s)] ==
            IF i = 0 THEN {0}
            ELSE IF i - 1 \in Found[i - 1] /\ i - 1 + PrefixLen <= Len(s)
            THEN Found[i - 1] \cup {i - 1 + PrefixLen + FrameAt(s, i - 1)}
            ELSE Found[i - 1]
    IN  Found

Starts(s) == Reached(s)[Len(s)]

=============================================================================
