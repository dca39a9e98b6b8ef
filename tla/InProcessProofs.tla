--------------------------- MODULE InProcessProofs ---------------------------
(***************************************************************************)
(* Proofs about InProcess for any number of bytes and any sizes of writes. *)
(***************************************************************************)
EXTENDS InProcess, TLAPS

(***************************************************************************)
(* The response writer is concluded once, with a status or with an error.  *)
(***************************************************************************)
WriterInv ==
    /\ readies = 0 <=> status = "none" /\ terminalErr = "none"
    /\ status # "none" => terminalErr = "none"
    /\ finished <=> writeEnd # "open"
    /\ writeEnd = "EOF" => handler = "returned"

(***************************************************************************)
(* No byte is lost while the pipe is open, or after a clean end.           *)
(***************************************************************************)
PipeInv ==
    /\ handler # "writing" => pending = 0
    /\ handler = "failed" => readEnd = "closed" \/ writeEnd \in Errors
    /\ taken + pending <= wrote
    /\ readEnd = "open" /\ writeEnd \in {"open", "EOF"} => wrote = taken + pending

(***************************************************************************)
(* Only the reader of a response takes bytes.                              *)
(***************************************************************************)
AnswerInv ==
    /\ rt = "response" => status # "none"
    /\ rt = "error" => readEnd = "closed"
    /\ rt # "response" => taken = 0

IInv == TypeOK /\ WriterInv /\ PipeInv /\ AnswerInv

LEMMA InitIInv == Init => IInv
<1> SUFFICES ASSUME Init PROVE IInv
  OBVIOUS
<1>1. TypeOK
  <2>1. 0 \in 0..MaxBytes /\ 0 \in 0..MaxWrite /\ 0 \in 0..0
    BY BoundAssumption
  <2> QED
    BY <2>1 DEF Init, TypeOK
<1>2. WriterInv
  BY DEF Init, WriterInv
<1>3. PipeInv
  BY DEF Init, PipeInv
<1>4. AnswerInv
  BY DEF Init, AnswerInv
<1> QED
  BY <1>1, <1>2, <1>3, <1>4 DEF IInv

(* What the first header or terminal error leaves behind (client.go:619).   *)
LEMMA ReadyConcludes ==
    ASSUME TypeOK, WriterInv, NEW s, NEW err, Ready(s, err),
           \/ s = "OK" /\ err = "none"
           \/ s = "none" /\ err \in Errors
    PROVE  /\ status' \in {"none", "OK"} /\ terminalErr' \in {"none"} \cup Errors
           /\ readies' = 1
           /\ ~(status' = "none" /\ terminalErr' = "none")
           /\ status' # "none" => terminalErr' = "none"
           /\ status # "none" => status' # "none"
BY DEF TypeOK, WriterInv, Ready, Errors

(* finish leaves a concluded writer and a closed pipe.                      *)
LEMMA FinishConcludes ==
    ASSUME TypeOK, WriterInv, NEW err \in {"none"} \cup Errors, Finish(err)
    PROVE  /\ status' \in {"none", "OK"} /\ terminalErr' \in {"none"} \cup Errors
           /\ readies' \in {0, 1} /\ (readies' = 0 <=> status' = "none" /\ terminalErr' = "none")
           /\ status' # "none" => terminalErr' = "none"
           /\ status # "none" => status' # "none"
           /\ finished' = TRUE
           /\ writeEnd' = IF finished THEN writeEnd ELSE IF err = "none" THEN "EOF" ELSE err
<1>1. CASE finished
  BY <1>1 DEF Finish, writer, TypeOK, WriterInv
<1>2. CASE ~finished
  <2>1. Conclude(err) /\ finished' = TRUE
        /\ writeEnd' = IF err = "none" THEN "EOF" ELSE err
    BY <1>2 DEF Finish
  <2>2. CASE err = "none"
    BY <1>2, <2>1, <2>2, ReadyConcludes DEF Conclude, WriteHeader
  <2>3. CASE err \in Errors
    <3>1. err # "none"
      BY <2>3 DEF Errors
    <3>2. Ready("none", err)
      BY <2>1, <3>1 DEF Conclude
    <3> QED
      BY <1>2, <2>1, <2>3, <3>1, <3>2, ReadyConcludes
  <2> QED
    BY <2>2, <2>3
<1> QED
  BY <1>1, <1>2

LEMMA StepIInv == IInv /\ [Next]_vars => IInv'
<1> SUFFICES ASSUME IInv, [Next]_vars PROVE IInv'
  OBVIOUS
<1> USE BoundAssumption DEF IInv, TypeOK, WriterInv, PipeInv, AnswerInv, PipeClosed, writer, bytes
<1>0. /\ wrote \in Nat /\ taken \in Nat /\ pending \in Nat
      /\ wrote <= MaxBytes /\ taken <= wrote /\ pending <= MaxWrite
  OBVIOUS
<1>1. ASSUME NEW n \in 1..MaxWrite, Write(n) PROVE IInv'
  <2>1. /\ status' \in {"none", "OK"} /\ terminalErr' \in {"none"} \cup Errors
        /\ readies' = 1
        /\ ~(status' = "none" /\ terminalErr' = "none")
        /\ status' # "none" => terminalErr' = "none"
        /\ status # "none" => status' # "none"
    <3>1. Ready("OK", "none")
      BY <1>1 DEF Write, WriteHeader
    <3> QED
      BY <3>1, ReadyConcludes
  <2>2. handler = "running" /\ UNCHANGED <<ctx, rt, finished, writeEnd, readEnd, taken, end>>
    BY <1>1 DEF Write
  <2>3. \/ PipeClosed /\ handler' = "failed" /\ UNCHANGED <<wrote, pending>>
        \/ ~PipeClosed /\ handler' = "writing" /\ wrote' = wrote + n /\ pending' = n
    BY <1>1 DEF Write
  <2>4. /\ wrote' \in 0..MaxBytes /\ taken' \in 0..wrote' /\ pending' \in 0..MaxWrite
        /\ taken' + pending' <= wrote'
        /\ ~PipeClosed => wrote' = taken' + pending'
    BY <1>0, <1>1, <2>2, <2>3 DEF Write
  <2>5. TypeOK'
    BY <2>1, <2>2, <2>3, <2>4
  <2>6. WriterInv'
    BY <2>1, <2>2, <2>3
  <2>7. PipeInv'
    <3>1. CASE PipeClosed
      <4>1. readEnd' = "closed" \/ writeEnd' \in Errors
        BY <2>2, <3>1
      <4> QED
        BY <2>2, <2>3, <3>1, <4>1 DEF Errors
    <3>2. CASE ~PipeClosed
      BY <2>2, <2>3, <2>4, <3>2
    <3> QED
      BY <3>1, <3>2
  <2>8. AnswerInv'
    BY <2>1, <2>2
  <2> QED
    BY <2>5, <2>6, <2>7, <2>8
<1>2. CASE WriteReturns
  BY <1>2 DEF WriteReturns
<1>3. CASE WriteFails
  <2>1. 0 \in 0..MaxWrite
    OBVIOUS
  <2>2. /\ handler = "writing" /\ PipeClosed /\ handler' = "failed" /\ pending' = 0
        /\ UNCHANGED <<ctx, rt, status, terminalErr, readies, finished, writeEnd,
                       readEnd, wrote, taken, end>>
    BY <1>3 DEF WriteFails
  <2>3. TypeOK'
    BY <2>1, <2>2
  <2>4. WriterInv' /\ AnswerInv'
    BY <2>2
  <2>5. PipeInv'
    <3>1. writeEnd # "EOF"
      BY <2>2
    <3>2. taken' + pending' <= wrote'
      BY <1>0, <2>2
    <3> QED
      BY <2>2, <3>1, <3>2
  <2> QED
    BY <2>3, <2>4, <2>5
<1>4. CASE SendHeader
  <2>1. Ready("OK", "none")
    BY <1>4 DEF SendHeader, WriteHeader
  <2> QED
    BY <1>4, <2>1, ReadyConcludes DEF SendHeader
<1>5. CASE HandlerReturns
  BY <1>5, FinishConcludes DEF HandlerReturns, Ends, Errors
<1>6. CASE HandlerPanics
  <2>1. PICK err \in Recovered : Ends("aborted", err)
    BY <1>6 DEF HandlerPanics
  <2>2. err \in Errors
    BY DEF Recovered, Errors
  <2> QED
    BY <2>1, <2>2, FinishConcludes DEF Ends, Errors
<1>7. CASE AnswerReady
  BY <1>7 DEF AnswerReady, GiveUp, CloseReader
<1>8. CASE AnswerCancelled
  BY <1>8, FinishConcludes DEF AnswerCancelled, Errors
<1>9. CASE CloseCancelled
  BY <1>9 DEF CloseCancelled, GiveUp, CloseReader
<1>10. CASE Cancel
  BY <1>10 DEF Cancel
<1>11. CASE Read
  <2>1. /\ rt = "response" /\ end = "none" /\ readEnd = "open"
        /\ UNCHANGED <<ctx, rt, handler, status, terminalErr, readies, finished,
                       writeEnd, readEnd, wrote>>
    BY <1>11 DEF Read
  <2>2. CASE \E n \in 1..pending :
               pending' = pending - n /\ taken' = taken + n /\ UNCHANGED end
    <3>1. handler = "writing" /\ writeEnd # "EOF"
      BY <1>0, <2>2
    <3>2. /\ taken' \in Nat /\ pending' \in 0..MaxWrite
          /\ taken' + pending' = taken + pending
      BY <1>0, <2>2
    <3>3. TypeOK'
      BY <1>0, <2>1, <2>2, <3>1, <3>2
    <3> QED
      BY <2>1, <3>1, <3>2, <3>3
  <2>3. CASE /\ pending = 0 /\ writeEnd # "open"
             /\ end' = writeEnd /\ UNCHANGED <<pending, taken>>
    BY <2>1, <2>3
  <2> QED
    BY <1>11, <2>2, <2>3 DEF Read
<1>12. CASE CloseBody
  BY <1>12 DEF CloseBody, CloseReader
<1>13. CASE UNCHANGED vars
  BY <1>13 DEF vars
<1> QED
  BY <1>1, <1>2, <1>3, <1>4, <1>5, <1>6, <1>7, <1>8, <1>9, <1>10, <1>11, <1>12, <1>13
     DEF Next, Handler, RoundTrip, Caller

LEMMA SpecIInv == Spec => []IInv
BY InitIInv, StepIInv, PTL DEF Spec

-----------------------------------------------------------------------------
(* client.go:529-649: every variable keeps its type.                        *)
THEOREM TypeCorrect == Spec => []TypeOK
<1>1. IInv => TypeOK
  BY DEF IInv
<1> QED
  BY <1>1, SpecIInv, PTL

(* RoundTrip gives one answer: a response with a status, or an error after  *)
(* which nobody has or gets a byte of the body.                             *)
THEOREM Answers == Spec => []OneAnswer
<1>1. IInv => OneAnswer
  BY DEF IInv, WriterInv, AnswerInv, OneAnswer
<1> QED
  BY <1>1, SpecIInv, PTL

(* A body ends with io.EOF only when the handler returned and the caller    *)
(* has every byte it wrote.                                                 *)
THEOREM NoFalseEnd == Spec => CleanEndIsComplete
<1>1. IInv /\ [Next]_vars => [end' = "EOF" /\ end = "none" => taken = wrote /\ handler = "returned"]_vars
  <2> SUFFICES ASSUME IInv, [Next]_vars, end' = "EOF", end = "none"
               PROVE  taken = wrote /\ handler = "returned"
    OBVIOUS
  <2>1. Read
    BY DEF Next, Handler, RoundTrip, Caller, vars, bytes, Write, WriteReturns, WriteFails,
       SendHeader, HandlerReturns, HandlerPanics, Ends, AnswerReady, AnswerCancelled,
       CloseCancelled, Cancel, CloseBody
  <2> QED
    BY <2>1 DEF Read, IInv, TypeOK, WriterInv, PipeInv
<1> QED
  BY <1>1, SpecIInv, PTL DEF Spec, CleanEndIsComplete

=============================================================================
