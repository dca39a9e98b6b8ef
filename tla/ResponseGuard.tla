--------------------------- MODULE ResponseGuard ---------------------------
(***************************************************************************)
(* guardingTransport (internal/confidential/frame_guard.go:28-76): what it *)
(* puts between the network and the EHBP library.  A response with an      *)
(* encapsulation nonce is read through frameGuardReader, a problem report  *)
(* (422, application/problem+json) through boundedReadCloser, one that is  *)
(* both through both, the bound outside.  The innermost reader is the      *)
(* source; its reads make progress, as those of net/http's bodies do.      *)
(***************************************************************************)
EXTENDS FrameGuard

CONSTANT MaxProblem     \* maxProblemResponseBody

ASSUME ProblemAssumption == MaxProblem \in Nat \ {0}

VARIABLES
    nonce,      \* the response's nonce headers: none, one that is 64
                \* lower-case hex digits, or anything else
    problem,    \* the response is a problem report
    stage,      \* of the response: not seen yet, open, in a Read, over
    remaining,  \* boundedReadCloser.remaining
    probing,    \* the Read in progress is the bound's probe for one more byte
    given,      \* the bytes the EHBP library has been given
    verdict     \* the first error it has been given

response == <<nonce, problem>>
bound == <<remaining, probing>>
outer == <<response, stage, bound, given, verdict>>

Nonces == {"absent", "canonical", "malformed"}
Verdicts == Errors \cup {"nonce", "exceeds"}

ResponseTypeOK ==
    /\ TypeOK
    /\ nonce \in Nonces /\ problem \in BOOLEAN
    /\ stage \in {"arrived", "open", "reading", "over"}
    /\ remaining \in 0..MaxProblem /\ probing \in BOOLEAN
    /\ given \in Seq(Byte) /\ verdict \in Verdicts

ResponseInit ==
    /\ Init
    /\ nonce \in Nonces /\ problem \in BOOLEAN
    /\ stage = "arrived"
    /\ remaining = MaxProblem /\ probing = FALSE
    /\ given = <<>> /\ verdict = "none"

Framed == nonce = "canonical"

(* A malformed nonce, or several, closes the body and fails the request.    *)
RoundTrip ==
    /\ stage = "arrived"
    /\ \/ /\ nonce = "malformed"
          /\ verdict' = "nonce" /\ stage' = "over"
       \/ /\ nonce # "malformed"
          /\ stage' = "open" /\ UNCHANGED verdict
    /\ UNCHANGED <<vars, response, bound, given>>

(* Read of a body that is not framed: the source's own. *)
ReadSource(n) ==
    /\ \E count \in 0..MaxRead, err \in {"none", "EOF", "broken"} :
          /\ SourceRead(n, count, err)
          /\ pos' = pos + count
          /\ out' = out \o SubSeq(wire, pos + 1, pos + count)
          /\ result' = err
          /\ pc' = IF err = "none" THEN "idle" ELSE "stopped"
    /\ UNCHANGED <<wire, frame, pendingError, eof, want, written>>

(* Mutant: what remains does not limit the Read. *)
AskedAll(n) == n

(* How much of the destination the reader below may fill. *)
Asked(n) == IF ~problem THEN n ELSE IF remaining > 0 THEN Least(n, remaining) ELSE 1

(* The EHBP library calls Read with room for n bytes. *)
Read(n) ==
    /\ stage = "open"
    /\ stage' = "reading"
    /\ probing' = (problem /\ remaining = 0)
    /\ \/ Framed /\ Call(Asked(n))
       \/ ~Framed /\ ReadSource(Asked(n))
    /\ UNCHANGED <<response, remaining, given, verdict>>

ReadOn == stage = "reading" /\ Continue /\ UNCHANGED outer

(* Mutants: the limit is an error whether or not more follows; what follows *)
(* the limit is taken for the end.                                          *)
ProbeRefuses(count) == "exceeds"
ProbeEnds(count) == "EOF"

(* The error of the probe, which read count bytes beyond the limit. *)
Probe(count) == IF count > 0 THEN "exceeds" ELSE result

(* The reader below has returned.  `checked` is left out: it only matters   *)
(* to a caller that reads on after the probe's error.                       *)
Deliver ==
    /\ stage = "reading" /\ pc # "loop"
    /\ LET count == Len(out) - Len(given)
       IN  \/ /\ probing
              /\ verdict' = Probe(count)
              /\ UNCHANGED <<remaining, given>>
           \/ /\ ~probing
              /\ verdict' = result
              /\ given' = out
              /\ remaining' = IF problem THEN remaining - count ELSE remaining
    /\ stage' = IF verdict' = "none" THEN "open" ELSE "over"
    /\ UNCHANGED <<vars, response, probing>>

ResponseNext == RoundTrip \/ (\E n \in 1..MaxRead : Read(n)) \/ ReadOn \/ Deliver

ResponseSpec == ResponseInit /\ [][ResponseNext]_<<vars, outer>>

-----------------------------------------------------------------------------
(* Properties. *)

(* frame_guard.go:86-94, 113-190: the library gets the Gateway's bytes, all *)
(* of them and in order, whatever the sizes of its reads, of the source's,  *)
(* and wherever a frame or the bound makes a reader ask for less.           *)
Unchanged == IsPrefix(given, wire)

(* No byte of a zero or oversized frame is released, its prefix included    *)
(* (frame_guard.go:176-182).                                                *)
OnlyGoodFrames == Framed =>
    \A i \in Starts(given) :
        i + PrefixLen <= Len(given) => FrameAt(given, i) \in 1..MaxFrame

(* The library only sees a clean end when it has every byte the Gateway     *)
(* sent, made of whole frames if framed: a response that was cut by the     *)
(* network, or that the bound cuts, always ends in an error.                *)
CleanEndIsComplete == verdict = "EOF" =>
    /\ given = wire
    /\ Framed => Len(given) \in Starts(given)

(* A refusal is deserved, and comes no sooner than it must: every byte in   *)
(* front of the offending frame, or up to the limit, has been released, and *)
(* a report of exactly the limit is not refused (frame_guard.go:95-104).    *)
ErrorsAreDeserved ==
    /\ verdict \in {"zero", "oversized"} =>
          \E i \in Starts(wire) :
              /\ i + PrefixLen <= Len(wire)
              /\ given = SubSeq(wire, 1, i)
              /\ FrameAt(wire, i) \notin 1..MaxFrame
              /\ verdict = "zero" <=> FrameAt(wire, i) = 0
    /\ verdict = "exceeds" =>
          problem /\ Len(given) = MaxProblem /\ Len(wire) > MaxProblem

=============================================================================
