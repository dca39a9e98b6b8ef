--------------------------- MODULE HandlerProofs ---------------------------
(***************************************************************************)
(* Proofs about Handler for any classes of bytes, any line limit and any   *)
(* length of streams and reads.  The tracker works byte by byte and forgets*)
(* lines; Tracks says what it remembers of all it has seen, and the proofs *)
(* follow it through a byte, a read and a stream.                          *)
(***************************************************************************)
EXTENDS Handler, NaturalRecursion, SequenceTheorems

-----------------------------------------------------------------------------
(* Sequences that grow by one byte. *)

LEMMA SubOfAppend ==
    ASSUME NEW S, NEW s \in Seq(S), NEW e \in S, NEW i \in 1..Len(s), NEW j \in 0..Len(s)
    PROVE  SubSeq(Append(s, e), i, j) = SubSeq(s, i, j)
<1>1. /\ Append(s, e) \in Seq(S) /\ Len(Append(s, e)) = Len(s) + 1
      /\ \A k \in 1..Len(s) : Append(s, e)[k] = s[k]
  OBVIOUS
<1>2. /\ SubSeq(s, i, j) \in Seq(S)
      /\ Len(SubSeq(s, i, j)) = IF i <= j THEN j - i + 1 ELSE 0
      /\ \A k \in 1..(j - i + 1) : SubSeq(s, i, j)[k] = s[i + k - 1]
  <2>1. i \in Int /\ j \in Int /\ \A k \in i..j : s[k] \in S
    OBVIOUS
  <2> QED
    BY <2>1, SubSeqProperties
<1>3. /\ SubSeq(Append(s, e), i, j) \in Seq(S)
      /\ Len(SubSeq(Append(s, e), i, j)) = IF i <= j THEN j - i + 1 ELSE 0
      /\ \A k \in 1..(j - i + 1) : SubSeq(Append(s, e), i, j)[k] = Append(s, e)[i + k - 1]
  <2>1. i \in Int /\ j \in Int /\ \A k \in i..j : Append(s, e)[k] \in S
    BY <1>1
  <2> QED
    BY <2>1, SubSeqProperties
<1>4. \A k \in 1..(j - i + 1) : i + k - 1 \in 1..Len(s)
  OBVIOUS
<1> QED
  BY <1>1, <1>2, <1>3, <1>4, SeqEqual

LEMMA AppendToSub ==
    ASSUME NEW S, NEW s \in Seq(S), NEW e \in S, NEW p \in 0..Len(s)
    PROVE  SubSeq(Append(s, e), p + 1, Len(s) + 1) = Append(SubSeq(s, p + 1, Len(s)), e)
<1>1. /\ Append(s, e) \in Seq(S) /\ Len(Append(s, e)) = Len(s) + 1
      /\ \A k \in 1..Len(s) : Append(s, e)[k] = s[k]
      /\ Append(s, e)[Len(s) + 1] = e
      /\ \A k \in 1..(Len(s) + 1) : Append(s, e)[k] \in S
  OBVIOUS
<1> DEFINE old == SubSeq(s, p + 1, Len(s))
           new == SubSeq(Append(s, e), p + 1, Len(s) + 1)
<1>2. /\ old \in Seq(S) /\ Len(old) = Len(s) - p
      /\ \A k \in 1..(Len(s) - p) : old[k] = s[p + k]
  <2>1. p + 1 \in Int /\ Len(s) \in Int /\ \A k \in (p + 1)..Len(s) : s[k] \in S
    OBVIOUS
  <2> QED
    BY <2>1, SubSeqProperties
<1>3. /\ new \in Seq(S) /\ Len(new) = Len(s) + 1 - p
      /\ \A k \in 1..(Len(s) + 1 - p) : new[k] = Append(s, e)[p + k]
  <2>1. p + 1 \in Int /\ Len(s) + 1 \in Int /\ \A k \in (p + 1)..(Len(s) + 1) : Append(s, e)[k] \in S
    BY <1>1
  <2> QED
    BY <2>1, SubSeqProperties
<1> HIDE DEF old, new
<1>4. /\ Append(old, e) \in Seq(S) /\ Len(Append(old, e)) = Len(new)
      /\ \A k \in 1..Len(new) : Append(old, e)[k] = new[k]
  <2>1. /\ Append(old, e) \in Seq(S) /\ Len(Append(old, e)) = Len(old) + 1
        /\ \A k \in 1..Len(old) : Append(old, e)[k] = old[k]
        /\ Append(old, e)[Len(old) + 1] = e
    BY <1>2
  <2>2. ASSUME NEW k \in 1..(Len(s) - p) PROVE new[k] = old[k]
    <3>1. p + k \in 1..Len(s) /\ k \in 1..(Len(s) + 1 - p)
      OBVIOUS
    <3> QED
      BY <1>1, <1>2, <1>3, <3>1
  <2>3. new[Len(s) + 1 - p] = e
    BY <1>1, <1>3
  <2> QED
    BY <1>2, <1>3, <2>1, <2>2, <2>3
<1>5. new = Append(old, e)
  BY <1>3, <1>4, SeqEqual
<1> QED
  BY <1>5 DEF old, new

-----------------------------------------------------------------------------
(* What the tracker remembers of the bytes it has seen. *)

(* The line that is not over starts after position p. *)
LastLine(s, p) ==
    /\ p \in 0..Len(s)
    /\ p = 0 \/ s[p] = "n"
    /\ \A k \in (p + 1)..Len(s) : s[k] # "n"

(* The line is remembered whole, unless it is too long to be a terminator.  *)
Remembers(t, s, p) ==
    /\ t.tooLong <=> Len(s) - p > MaxLine
    /\ t.line = IF t.tooLong THEN <<>> ELSE SubSeq(s, p + 1, Len(s))

Tracks(t, s) ==
    /\ t \in Trackers
    /\ t.done <=> Terminated(s, FALSE)
    /\ \E p \in 0..Len(s) : LastLine(s, p) /\ Remembers(t, s, p)

LEMMA NothingIsNotDone == ~IsDone(<<>>)
BY DEF IsDone

(* A byte that ends no line changes no line that has ended. *)
LEMMA SameLines ==
    ASSUME NEW s \in Seq(Bytes), NEW b \in Bytes, b # "n"
    PROVE  Terminated(Append(s, b), FALSE) <=> Terminated(s, FALSE)
<1> DEFINE new == Append(s, b)
<1>1. /\ new \in Seq(Bytes) /\ Len(new) = Len(s) + 1 /\ Len(s) \in Nat
      /\ \A k \in 1..Len(s) : new[k] = s[k]
      /\ new[Len(s) + 1] = b
  OBVIOUS
<1> HIDE DEF new
<1>2. ASSUME NEW i \in 1..Len(s), NEW j \in i..Len(s), j < Len(s)
      PROVE  /\ Line(new, i, j, FALSE) <=> Line(s, i, j, FALSE)
             /\ SubSeq(new, i, j) = SubSeq(s, i, j)
  <2>1. SubSeq(new, i, j) = SubSeq(s, i, j)
    BY SubOfAppend DEF new
  <2>2. /\ i = 1 \/ new[i - 1] = s[i - 1]
        /\ \A k \in i..j : new[k] = s[k]
        /\ new[j + 1] = s[j + 1]
        /\ j # Len(s) /\ j # Len(new)
    BY <1>1, <1>2
  <2> QED
    BY <2>1, <2>2 DEF Line
<1>3. ASSUME NEW i \in 1..Len(s), Line(s, i, Len(s), FALSE) PROVE FALSE
  BY <1>3 DEF Line
<1>4. ASSUME NEW i \in 1..Len(new), NEW j \in i..Len(new), Line(new, i, j, FALSE)
      PROVE  i \in 1..Len(s) /\ j \in i..Len(s) /\ j < Len(s)
  BY <1>1, <1>4 DEF Line
<1>5. ASSUME Terminated(new, FALSE) PROVE Terminated(s, FALSE)
  BY <1>2, <1>4, <1>5 DEF Terminated
<1>6. ASSUME Terminated(s, FALSE) PROVE Terminated(new, FALSE)
  <2>0. PICK i \in 1..Len(s) : \E j \in i..Len(s) :
          Line(s, i, j, FALSE) /\ j - i < MaxLine /\ IsDone(SubSeq(s, i, j))
    BY <1>6 DEF Terminated
  <2>1. PICK j \in i..Len(s) :
          Line(s, i, j, FALSE) /\ j - i < MaxLine /\ IsDone(SubSeq(s, i, j))
    BY <2>0
  <2>2. j # Len(s)
    BY <1>3, <2>1
  <2>3. j < Len(s)
    BY <1>1, <2>2
  <2>4. i \in 1..Len(new) /\ j \in i..Len(new)
    BY <1>1
  <2> QED
    BY <1>2, <2>1, <2>3, <2>4 DEF Terminated
<1> QED
  BY <1>5, <1>6 DEF new

(* A newline ends the last line, as the end of the stream would.            *)
LEMMA NewlineEnds ==
    ASSUME NEW s \in Seq(Bytes), "n" \in Bytes
    PROVE  Terminated(Append(s, "n"), FALSE) <=> Terminated(s, TRUE)
<1> DEFINE new == Append(s, "n")
<1>1. /\ new \in Seq(Bytes) /\ Len(new) = Len(s) + 1 /\ Len(s) \in Nat
      /\ \A k \in 1..Len(s) : new[k] = s[k]
      /\ new[Len(s) + 1] = "n"
  OBVIOUS
<1> HIDE DEF new
<1>2. ASSUME NEW i \in 1..Len(s), NEW j \in i..Len(s)
      PROVE  /\ Line(new, i, j, FALSE) <=> Line(s, i, j, TRUE)
             /\ SubSeq(new, i, j) = SubSeq(s, i, j)
  <2>1. SubSeq(new, i, j) = SubSeq(s, i, j)
    BY SubOfAppend DEF new
  <2>2. /\ i = 1 \/ new[i - 1] = s[i - 1]
        /\ \A k \in i..j : new[k] = s[k]
        /\ new[j + 1] = IF j = Len(s) THEN "n" ELSE s[j + 1]
        /\ j # Len(new)
    BY <1>1
  <2> QED
    BY <2>1, <2>2 DEF Line
<1>3. ASSUME NEW i \in 1..Len(new), NEW j \in i..Len(new), Line(new, i, j, FALSE)
      PROVE  i \in 1..Len(s) /\ j \in i..Len(s)
  BY <1>1, <1>3 DEF Line
<1>4. \A i \in 1..Len(s) : \A j \in i..Len(s) : i \in 1..Len(new) /\ j \in i..Len(new)
  BY <1>1
<1>5. Terminated(new, FALSE) => Terminated(s, TRUE)
  BY <1>2, <1>3 DEF Terminated
<1>6. Terminated(s, TRUE) => Terminated(new, FALSE)
  BY <1>2, <1>4 DEF Terminated
<1> QED
  BY <1>5, <1>6 DEF new

(* What the end of the stream adds is the line that starts after p.         *)
LEMMA EndOfLastLine ==
    ASSUME NEW s \in Seq(Bytes), NEW p, LastLine(s, p)
    PROVE  Terminated(s, TRUE) <=>
              \/ Terminated(s, FALSE)
              \/ Len(s) - p <= MaxLine /\ IsDone(SubSeq(s, p + 1, Len(s)))
<1> DEFINE last == SubSeq(s, p + 1, Len(s))
<1>1. Len(s) \in Nat /\ p \in 0..Len(s)
  BY DEF LastLine
<1>2. ASSUME NEW i \in 1..Len(s)
      PROVE  Line(s, i, Len(s), TRUE) <=> i = p + 1
  <2>1. CASE i <= p
    <3>1. p \in i..Len(s) /\ s[p] = "n"
      BY <1>1, <2>1 DEF LastLine
    <3> QED
      BY <2>1, <3>1, <1>1 DEF Line
  <2>2. CASE i = p + 1
    BY <1>1, <2>2 DEF Line, LastLine
  <2>3. CASE i > p + 1
    <3>1. i - 1 \in (p + 1)..Len(s)
      BY <1>1, <2>3
    <3>2. s[i - 1] # "n" /\ i # 1 /\ i # p + 1
      BY <1>1, <2>3, <3>1 DEF LastLine
    <3> QED
      BY <3>2 DEF Line
  <2>4. i <= p \/ i = p + 1 \/ i > p + 1
    BY <1>1
  <2> QED
    BY <2>1, <2>2, <2>3, <2>4, Zenon
<1>3. ASSUME NEW i \in 1..Len(s), NEW j \in i..Len(s)
      PROVE  Line(s, i, j, FALSE) <=> (Line(s, i, j, TRUE) /\ j # Len(s))
  BY DEF Line
<1>4. ASSUME Terminated(s, TRUE)
      PROVE  Terminated(s, FALSE) \/ (Len(s) - p <= MaxLine /\ IsDone(last))
  <2>0. PICK i \in 1..Len(s) : \E j \in i..Len(s) :
          Line(s, i, j, TRUE) /\ j - i < MaxLine /\ IsDone(SubSeq(s, i, j))
    BY <1>4 DEF Terminated
  <2>1. PICK j \in i..Len(s) :
          Line(s, i, j, TRUE) /\ j - i < MaxLine /\ IsDone(SubSeq(s, i, j))
    BY <2>0
  <2>2. CASE j = Len(s)
    <3>1. i = p + 1
      BY <1>2, <2>1, <2>2
    <3>2. Len(s) - p <= MaxLine
      BY <1>1, <2>1, <2>2, <3>1, LineAssumption
    <3> QED
      BY <2>1, <2>2, <3>1, <3>2
  <2>3. CASE j # Len(s)
    BY <1>3, <2>1, <2>3 DEF Terminated
  <2> QED
    BY <2>2, <2>3, Zenon
<1>5. Terminated(s, FALSE) => Terminated(s, TRUE)
  BY <1>3 DEF Terminated
<1>6. ASSUME Len(s) - p <= MaxLine, IsDone(last) PROVE Terminated(s, TRUE)
  <2>1. p < Len(s)
    <3>1. ASSUME p = Len(s) PROVE FALSE
      <4>1. last = <<>>
        BY <1>1, <3>1
      <4> QED
        BY <1>6, <4>1, NothingIsNotDone
    <3> QED
      BY <1>1, <3>1
  <2>2. p + 1 \in 1..Len(s) /\ Len(s) \in (p + 1)..Len(s) /\ Len(s) - (p + 1) < MaxLine
    BY <1>1, <1>6, <2>1, LineAssumption
  <2>3. Line(s, p + 1, Len(s), TRUE)
    BY <1>2, <2>2
  <2> QED
    BY <1>6, <2>2, <2>3 DEF Terminated
<1> QED
  BY <1>4, <1>5, <1>6

LEMMA ByteType ==
    ASSUME NEW t \in Trackers, NEW b \in Bytes
    PROVE  WriteByte(t, b) \in Trackers
BY DEF WriteByte, finishLine, Trackers

(* One byte: what the tracker remembers follows what it has seen.           *)
LEMMA TrackByte ==
    ASSUME NEW t, NEW s \in Seq(Bytes), NEW b \in Bytes, Tracks(t, s)
    PROVE  Tracks(WriteByte(t, b), Append(s, b))
<1> DEFINE new == Append(s, b)
           then == WriteByte(t, b)
<1> SUFFICES Tracks(then, new)
  OBVIOUS
<1>1. /\ new \in Seq(Bytes) /\ Len(new) = Len(s) + 1 /\ Len(s) \in Nat
      /\ \A k \in 1..Len(s) : new[k] = s[k]
      /\ new[Len(s) + 1] = b
  OBVIOUS
<1>2. PICK p \in 0..Len(s) : LastLine(s, p) /\ Remembers(t, s, p)
  BY DEF Tracks
<1>3. /\ t \in Trackers
      /\ t.done <=> Terminated(s, FALSE)
  BY DEF Tracks
<1>4. then \in Trackers
  BY <1>3, ByteType
<1>5. SubSeq(s, p + 1, Len(s)) \in Seq(Bytes) /\ Len(SubSeq(s, p + 1, Len(s))) = Len(s) - p
  <2>1. p + 1 \in Int /\ Len(s) \in Int /\ \A k \in (p + 1)..Len(s) : s[k] \in Bytes
    OBVIOUS
  <2> QED
    BY <2>1, SubSeqProperties
<1>6. CASE b = "n"
  <2>1. then = finishLine(t)
    BY <1>6 DEF WriteByte
  <2>2. then.done <=> Terminated(new, FALSE)
    <3>1. Terminated(new, FALSE) <=>
             \/ Terminated(s, FALSE)
             \/ Len(s) - p <= MaxLine /\ IsDone(SubSeq(s, p + 1, Len(s)))
      BY <1>2, <1>6, NewlineEnds, EndOfLastLine
    <3>2. Len(s) - p <= MaxLine <=> ~(Len(s) - p > MaxLine)
      BY <1>1, LineAssumption
    <3>3. then.done = (t.done \/ (~t.tooLong /\ IsDone(t.line)))
      <4> DEFINE result == t.done \/ (~t.tooLong /\ IsDone(t.line))
      <4>1. then = [line |-> <<>>, tooLong |-> FALSE, done |-> result]
        BY <2>1, Zenon DEF finishLine
      <4> HIDE DEF result, then
      <4>2. then.done = result
        BY <4>1
      <4> QED
        BY <4>2 DEF result
    <3>4. (~t.tooLong /\ IsDone(t.line)) <=>
             (Len(s) - p <= MaxLine /\ IsDone(SubSeq(s, p + 1, Len(s))))
      BY <1>2, <3>2, Zenon DEF Remembers
    <3> QED
      BY <1>3, <3>1, <3>3, <3>4
  <2>3. LastLine(new, Len(s) + 1)
    BY <1>1, <1>6 DEF LastLine
  <2>4. Remembers(then, new, Len(s) + 1)
    BY <1>1, <2>1, LineAssumption DEF Remembers, finishLine
  <2>5. Len(s) + 1 \in 0..Len(new)
    BY <1>1
  <2> HIDE DEF new, then
  <2> QED
    BY <1>4, <2>2, <2>3, <2>4, <2>5, Zenon DEF Tracks
<1>7. CASE b # "n"
  <2>1. then.done <=> Terminated(new, FALSE)
    <3>1. then.done = t.done
      BY <1>3, <1>7 DEF WriteByte, Trackers
    <3> QED
      BY <1>3, <1>7, <3>1, SameLines
  <2>2. LastLine(new, p)
    BY <1>1, <1>2, <1>7 DEF LastLine
  <2>3. SubSeq(new, p + 1, Len(new)) = Append(SubSeq(s, p + 1, Len(s)), b)
    BY <1>1, AppendToSub
  <2>4. Remembers(then, new, p)
    <3>1. CASE t.tooLong
      <4>1. then = t
        BY <1>7, <3>1 DEF WriteByte
      <4> QED
        BY <1>1, <1>2, <3>1, <4>1, LineAssumption DEF Remembers
    <3>2. CASE ~t.tooLong /\ Len(t.line) = MaxLine
      <4>1. then.tooLong /\ then.line = <<>>
        BY <1>3, <1>7, <3>2 DEF WriteByte, Trackers
      <4>2. Len(new) - p > MaxLine
        BY <1>1, <1>2, <1>5, <3>2, LineAssumption DEF Remembers
      <4> QED
        BY <4>1, <4>2 DEF Remembers
    <3>3. CASE ~t.tooLong /\ Len(t.line) # MaxLine
      <4>1. ~then.tooLong /\ then.line = Append(t.line, b)
        BY <1>3, <1>7, <3>3 DEF WriteByte, Trackers
      <4>2. t.line = SubSeq(s, p + 1, Len(s)) /\ ~(Len(s) - p > MaxLine)
        BY <1>2, <3>3 DEF Remembers
      <4>3. ~(Len(new) - p > MaxLine)
        BY <1>1, <1>5, <3>3, <4>2, LineAssumption
      <4> QED
        BY <2>3, <4>1, <4>2, <4>3 DEF Remembers
    <3> QED
      BY <3>1, <3>2, <3>3
  <2>5. p \in 0..Len(new)
    BY <1>1
  <2> HIDE DEF new, then
  <2> QED
    BY <1>4, <2>1, <2>2, <2>4, <2>5, Zenon DEF Tracks
<1> QED
  BY <1>6, <1>7

(* One read: sseDoneTracker.Write loops over the bytes it is given.         *)
LEMMA TrackWrite ==
    ASSUME NEW t, NEW s \in Seq(Bytes), NEW data \in Seq(Bytes), Tracks(t, s)
    PROVE  Tracks(TrackerWrite(t, data), s \o data)
<1> DEFINE loop(f) ==
        f = [i \in 0..Len(data) |-> IF i = 0 THEN t ELSE WriteByte(f[i - 1], data[i])]
<1> DEFINE after == CHOOSE f : loop(f)
<1>1. t \in Trackers /\ Len(data) \in Nat
  BY DEF Tracks
<1>2. \E f : loop(f)
  <2> DEFINE turn == [i \in Nat \ {0} |-> [u \in Trackers |->
                         IF i \in 1..Len(data) THEN WriteByte(u, data[i]) ELSE u]]
  <2>1. ASSUME NEW u \in Trackers, NEW i \in 1..Len(data)
        PROVE  WriteByte(u, data[i]) \in Trackers
    <3>1. data[i] \in Bytes
      OBVIOUS
    <3> QED
      BY <3>1, ByteType
  <2>2. turn \in [Nat \ {0} -> [Trackers -> Trackers]]
    BY <2>1
  <2>3. ASSUME NEW i \in 1..Len(data), NEW u \in Trackers
        PROVE  turn[i][u] = WriteByte(u, data[i])
    OBVIOUS
  <2> HIDE DEF turn
  <2>4. PICK f \in [0..Len(data) -> Trackers] : Turns(f, t, turn, Len(data))
    BY <1>1, <2>2, Recursion
  <2>5. f[0] = t /\ \A i \in 1..Len(data) : f[i] = turn[i][f[i - 1]]
    BY <2>4 DEF Turns
  <2>6. ASSUME NEW i \in 0..Len(data)
        PROVE  f[i] = IF i = 0 THEN t ELSE WriteByte(f[i - 1], data[i])
    <3>1. CASE i = 0
      BY <2>5, <3>1
    <3>2. CASE i # 0
      <4>1. i \in 1..Len(data) /\ i - 1 \in 0..Len(data)
        BY <3>2
      <4> QED
        BY <2>3, <2>5, <3>2, <4>1
    <3> QED
      BY <3>1, <3>2
  <2> QED
    BY <2>6
<1>3. TrackerWrite(t, data) = after[Len(data)]
  BY DEF TrackerWrite
<1>4. loop(after)
  BY <1>2
<1> HIDE DEF after
<1>5. /\ after[0] = t
      /\ \A i \in 1..Len(data) : after[i] = WriteByte(after[i - 1], data[i])
  BY <1>1, <1>4
<1> HIDE DEF loop
<1> DEFINE Good == {n \in Nat : n <= Len(data) => Tracks(after[n], s \o SubSeq(data, 1, n))}
<1>6. 0 \in Good
  <2>1. s \o SubSeq(data, 1, 0) = s
    OBVIOUS
  <2> QED
    BY <1>5, <2>1
<1>7. ASSUME NEW n \in Nat, n \in Good PROVE n + 1 \in Good
  <2> SUFFICES ASSUME n + 1 <= Len(data)
               PROVE  Tracks(after[n + 1], s \o SubSeq(data, 1, n + 1))
    OBVIOUS
  <2>1. Tracks(after[n], s \o SubSeq(data, 1, n))
    BY <1>1, <1>7
  <2>2. n + 1 \in 1..Len(data) /\ (n + 1) - 1 = n /\ data[n + 1] \in Bytes
    BY <1>1
  <2>3. SubSeq(data, 1, n) \in Seq(Bytes)
    BY <1>1, <2>2
  <2>4. s \o SubSeq(data, 1, n + 1) = Append(s \o SubSeq(data, 1, n), data[n + 1])
    BY <1>1, <2>2, <2>3
  <2>5. after[n + 1] = WriteByte(after[n], data[n + 1])
    BY <1>5, <2>2
  <2>6. s \o SubSeq(data, 1, n) \in Seq(Bytes)
    BY <2>3
  <2> QED
    BY <2>1, <2>2, <2>4, <2>5, <2>6, TrackByte
<1> HIDE DEF Good
<1>8. Nat \subseteq Good
  BY <1>6, <1>7, Induction
<1>9. Tracks(after[Len(data)], s \o SubSeq(data, 1, Len(data)))
  BY <1>1, <1>8 DEF Good
<1>10. SubSeq(data, 1, Len(data)) = data
  OBVIOUS
<1> QED
  BY <1>3, <1>9, <1>10

(* The end: sseDoneTracker.Finish ends the last line.                       *)
LEMMA TrackEnd ==
    ASSUME NEW t, NEW s \in Seq(Bytes), Tracks(t, s)
    PROVE  /\ TrackerFinish(t) \in Trackers
           /\ TrackerFinish(t).line = <<>>
           /\ TrackerFinish(t).done <=> Terminated(s, TRUE)
<1>1. PICK p \in 0..Len(s) : LastLine(s, p) /\ Remembers(t, s, p)
  BY DEF Tracks
<1>2. /\ t \in Trackers
      /\ t.done <=> Terminated(s, FALSE)
  BY DEF Tracks
<1>3. finishLine(t) \in Trackers /\ finishLine(t).line = <<>>
  BY <1>2 DEF finishLine, Trackers
<1>4. finishLine(t).done <=> Terminated(s, TRUE)
  <2> DEFINE result == t.done \/ (~t.tooLong /\ IsDone(t.line))
  <2>1. finishLine(t) = [line |-> <<>>, tooLong |-> FALSE, done |-> result]
    BY Zenon DEF finishLine
  <2>2. Len(s) - p <= MaxLine <=> ~(Len(s) - p > MaxLine)
    BY LineAssumption
  <2>3. (~t.tooLong /\ IsDone(t.line)) <=>
           (Len(s) - p <= MaxLine /\ IsDone(SubSeq(s, p + 1, Len(s))))
    BY <1>1, <2>2, Zenon DEF Remembers
  <2>4. result <=> Terminated(s, TRUE)
    BY <1>1, <1>2, <2>3, EndOfLastLine
  <2> HIDE DEF result
  <2>5. finishLine(t).done = result
    BY <2>1
  <2> QED
    BY <2>4, <2>5, Zenon
<1>5. CASE t.line # <<>> \/ t.tooLong
  BY <1>3, <1>4, <1>5 DEF TrackerFinish
<1>6. CASE t.line = <<>> /\ ~t.tooLong
  <2>1. TrackerFinish(t) = t
    BY <1>6 DEF TrackerFinish
  <2>2. ~IsDone(SubSeq(s, p + 1, Len(s)))
    BY <1>1, <1>6, NothingIsNotDone DEF Remembers
  <2>3. Terminated(s, TRUE) <=> Terminated(s, FALSE)
    BY <1>1, <2>2, EndOfLastLine
  <2> QED
    BY <1>2, <1>6, <2>1, <2>3
<1> QED
  BY <1>5, <1>6

-----------------------------------------------------------------------------
(* The handler around the tracker. *)

Unfinished == pc \in {"request", "send", "normal", "read", "write", "ended"}

(* Nothing is recorded before the end, and up to the end the tracker has    *)
(* seen what was received.                                                  *)
OpenInv == Unfinished =>
    /\ Tracks(tracker, received)
    /\ recorded = <<>> /\ outcome = "failed"

(* What was received has been delivered, but for the chunk in hand.         *)
PipeInv ==
    /\ pc \in {"request", "send", "normal"} =>
          received = <<>> /\ delivered = <<>> /\ chunk = <<>>
    /\ pc \in {"read", "ended"} => delivered = received /\ chunk = <<>>
    /\ pc = "write" => chunk # <<>> /\ received = delivered \o chunk

HandlerInv == TypeOK /\ OpenInv /\ PipeInv /\ RecordIsTrue /\ CutIsVisible

LEMMA TrackNothing == Tracks([line |-> <<>>, tooLong |-> FALSE, done |-> FALSE], <<>>)
<1> DEFINE t == [line |-> <<>>, tooLong |-> FALSE, done |-> FALSE]
<1>1. t \in Trackers /\ t.line = <<>> /\ t.tooLong = FALSE /\ t.done = FALSE
  BY DEF Trackers
<1> HIDE DEF t
<1>2. ~Terminated(<<>>, FALSE)
  BY DEF Terminated
<1>3. LastLine(<<>>, 0)
  BY DEF LastLine
<1>4. Remembers(t, <<>>, 0)
  BY <1>1, LineAssumption DEF Remembers
<1>5. 0 \in 0..Len(<<>>)
  OBVIOUS
<1> QED
  BY <1>1, <1>2, <1>3, <1>4, <1>5 DEF Tracks, t

(* A tracked line is short enough to keep.                                  *)
LEMMA TrackedLine ==
    ASSUME NEW t, NEW s \in Seq(Bytes), Tracks(t, s)
    PROVE  t \in Trackers /\ Len(t.line) <= MaxLine
<1>1. PICK p \in 0..Len(s) : LastLine(s, p) /\ Remembers(t, s, p)
  BY DEF Tracks
<1>2. Len(SubSeq(s, p + 1, Len(s))) = Len(s) - p /\ Len(<<>>) = 0
  OBVIOUS
<1>3. CASE t.tooLong
  BY <1>1, <1>2, <1>3, LineAssumption DEF Remembers, Tracks
<1>4. CASE ~t.tooLong
  BY <1>1, <1>2, <1>4, LineAssumption DEF Remembers, Tracks
<1> QED
  BY <1>3, <1>4

LEMMA InitHandler == Init => HandlerInv
<1> SUFFICES ASSUME Init PROVE HandlerInv
  OBVIOUS
<1>1. Tracks(tracker, received)
  BY TrackNothing DEF Init
<1>2. TypeOK
  BY LineAssumption DEF Init, TypeOK, Trackers, Outcomes
<1>3. OpenInv /\ PipeInv
  BY <1>1 DEF Init, OpenInv, PipeInv
<1>4. RecordIsTrue /\ CutIsVisible
  BY DEF Init, RecordIsTrue, CutIsVisible
<1> QED
  BY <1>2, <1>3, <1>4 DEF HandlerInv

LEMMA ReadKeeps ==
    ASSUME HandlerInv, Read
    PROVE  HandlerInv'
<1>1. PICK data \in SeqOf(Bytes, MaxRead), err \in {"none", "EOF", "cut"} :
        /\ received' = received \o data
        /\ chunk' = data
        /\ readErr' = err
        /\ tracker' = TrackerWrite(tracker, data)
        /\ pc' = IF data = <<>> THEN "ended" ELSE "write"
  BY DEF Read
<1>2. /\ pc = "read"
      /\ UNCHANGED <<client, delivered, outcome, recorded>>
  BY DEF Read
<1>3. data \in Seq(Bytes)
  BY DEF SeqOf
<1>4. TypeOK /\ OpenInv /\ PipeInv
  BY DEF HandlerInv
<1>5. /\ Tracks(tracker, received) /\ delivered = received
      /\ received \in Seq(Bytes)
      /\ recorded = <<>> /\ outcome = "failed"
  BY <1>2, <1>4 DEF OpenInv, PipeInv, Unfinished, TypeOK
<1>6. Tracks(tracker', received') /\ received' \in Seq(Bytes)
  BY <1>1, <1>3, <1>5, TrackWrite
<1>7. TypeOK'
  BY <1>1, <1>2, <1>3, <1>4, <1>6, TrackedLine DEF TypeOK
<1>8. OpenInv'
  BY <1>2, <1>5, <1>6 DEF OpenInv
<1>9. PipeInv'
  <2>1. CASE data = <<>>
    BY <1>1, <1>2, <1>5, <2>1 DEF PipeInv
  <2>2. CASE data # <<>>
    BY <1>1, <1>2, <1>5, <2>2 DEF PipeInv
  <2> QED
    BY <2>1, <2>2
<1>10. RecordIsTrue' /\ CutIsVisible'
  BY <1>1, <1>2, <1>5 DEF RecordIsTrue, Over, CutIsVisible
<1> QED
  BY <1>7, <1>8, <1>9, <1>10 DEF HandlerInv

LEMMA StreamEndKeeps ==
    ASSUME HandlerInv, StreamEnds
    PROVE  HandlerInv'
<1>1. /\ pc = "ended" /\ tracker' = TrackerFinish(tracker)
      /\ pc' \in {"returned", "aborted"}
      /\ UNCHANGED <<client, received, delivered, chunk, readErr>>
      /\ \/ tracker'.done /\ outcome' = "encrypted"
         \/ ~tracker'.done /\ outcome' = outcome /\ pc' = "aborted"
      /\ recorded' = Append(recorded, outcome')
  BY DEF StreamEnds, End
<1>2. TypeOK /\ OpenInv /\ PipeInv
  BY DEF HandlerInv
<1>3. /\ Tracks(tracker, received) /\ delivered = received
      /\ received \in Seq(Bytes)
      /\ recorded = <<>> /\ outcome = "failed"
  BY <1>1, <1>2 DEF OpenInv, PipeInv, Unfinished, TypeOK
<1>4. /\ tracker' \in Trackers /\ tracker'.line = <<>>
      /\ tracker'.done <=> Terminated(received, TRUE)
  BY <1>1, <1>3, TrackEnd
<1>5. tracker'.done => Terminated(delivered', TRUE)
  BY <1>1, <1>3, <1>4
<1>6. outcome' \in Outcomes
  BY <1>1, <1>3 DEF Outcomes
<1>7. recorded' = <<outcome'>> /\ recorded' \in Seq(Outcomes)
  BY <1>1, <1>3, <1>6
<1>8. TypeOK'
  BY <1>1, <1>2, <1>4, <1>6, <1>7, LineAssumption DEF TypeOK
<1>9. OpenInv' /\ PipeInv'
  BY <1>1 DEF OpenInv, PipeInv, Unfinished
<1>10. RecordIsTrue'
  <2>1. recorded' = IF tracker'.done THEN <<"encrypted">> ELSE <<"failed">>
    BY <1>1, <1>3, <1>7
  <2>2. delivered' = received' /\ (tracker'.done <=> Terminated(received', TRUE))
    BY <1>1, <1>3, <1>4
  <2> QED
    BY <2>1, <2>2 DEF RecordIsTrue
<1>11. CutIsVisible'
  <2>1. pc' = "returned" => tracker'.done
    BY <1>1
  <2> QED
    BY <1>5, <2>1 DEF CutIsVisible
<1> QED
  BY <1>8, <1>9, <1>10, <1>11 DEF HandlerInv

LEMMA StepHandler == HandlerInv /\ [Next]_vars => HandlerInv'
<1> SUFFICES ASSUME HandlerInv, [Next]_vars PROVE HandlerInv'
  OBVIOUS
<1>1. TypeOK /\ OpenInv /\ PipeInv /\ RecordIsTrue /\ CutIsVisible
  BY DEF HandlerInv
<1>2. CASE NotSent
  <2>1. TypeOK'
    BY <1>1, <1>2 DEF NotSent, TypeOK, stream
  <2> QED
    BY <1>1, <1>2, <2>1 DEF NotSent, stream, HandlerInv, OpenInv, PipeInv, Unfinished,
                            RecordIsTrue, CutIsVisible
<1>3. CASE Send \/ SendSucceeds
  <2>1. TypeOK'
    BY <1>1, <1>3 DEF Send, SendSucceeds, TypeOK, stream
  <2>2. /\ UNCHANGED <<client, received, delivered, chunk, tracker, outcome, recorded>>
        /\ pc \in {"request", "send"} /\ pc' \in {"send", "normal", "read"}
    BY <1>3 DEF Send, SendSucceeds, stream
  <2>3. OpenInv'
    BY <1>1, <2>2 DEF OpenInv, Unfinished
  <2>4. PipeInv' /\ RecordIsTrue' /\ CutIsVisible'
    BY <1>1, <2>2 DEF PipeInv, OpenInv, Unfinished, RecordIsTrue, Over, CutIsVisible
  <2> QED
    BY <2>1, <2>3, <2>4 DEF HandlerInv
<1>4. CASE SendFails \/ NormalFails \/ NormalForwarded
  <2>1. /\ UNCHANGED <<client, received, delivered, chunk, readErr, tracker>>
        /\ pc \in {"send", "normal"} /\ pc' = "returned"
        /\ outcome' \in Outcomes /\ recorded' = Append(recorded, outcome')
    BY <1>4 DEF SendFails, NormalFails, NormalForwarded, End, stream, Outcomes
  <2>2. recorded = <<>> /\ received = <<>>
    BY <1>1, <2>1 DEF OpenInv, PipeInv, Unfinished
  <2>3. TypeOK'
    BY <1>1, <2>1, <2>2 DEF TypeOK
  <2> QED
    BY <2>1, <2>2, <2>3 DEF HandlerInv, OpenInv, PipeInv, Unfinished,
                            RecordIsTrue, CutIsVisible
<1>5. CASE Read
  BY <1>5, ReadKeeps
<1>6. CASE WriteSucceeds
  <2>1. /\ pc = "write" /\ pc' \in {"read", "ended"}
        /\ delivered' = delivered \o chunk /\ chunk' = <<>>
        /\ UNCHANGED <<client, received, readErr, tracker, outcome, recorded>>
    BY <1>6 DEF WriteSucceeds
  <2>2. TypeOK'
    BY <1>1, <2>1 DEF TypeOK
  <2>3. OpenInv'
    BY <1>1, <2>1 DEF OpenInv, Unfinished
  <2>4. PipeInv' /\ RecordIsTrue' /\ CutIsVisible'
    BY <1>1, <2>1 DEF PipeInv, OpenInv, Unfinished, RecordIsTrue, Over, CutIsVisible
  <2> QED
    BY <2>2, <2>3, <2>4 DEF HandlerInv
<1>7. CASE WriteFails
  <2>1. /\ pc = "write" /\ pc' = "returned" /\ client = "gone"
        /\ outcome' = outcome /\ recorded' = Append(recorded, outcome)
        /\ UNCHANGED <<client, received, delivered, chunk, readErr, tracker>>
    BY <1>7 DEF WriteFails, End, stream
  <2>2. recorded = <<>> /\ outcome = "failed"
    BY <1>1, <2>1 DEF OpenInv, Unfinished
  <2>3. TypeOK'
    BY <1>1, <2>1, <2>2 DEF TypeOK
  <2>4. delivered' # received'
    <3>1. delivered \in Seq(Bytes) /\ chunk \in Seq(Bytes) /\ Len(chunk) # 0
      BY <1>1, <2>1 DEF TypeOK, PipeInv
    <3>2. Len(delivered \o chunk) # Len(delivered)
      BY <3>1
    <3> QED
      BY <1>1, <2>1, <3>2 DEF PipeInv
  <2>5. recorded' = <<"failed">>
    BY <2>1, <2>2
  <2> QED
    BY <2>1, <2>3, <2>4, <2>5 DEF HandlerInv, OpenInv, PipeInv, Unfinished,
                                  RecordIsTrue, CutIsVisible
<1>8. CASE StreamEnds
  BY <1>8, StreamEndKeeps
<1>9. CASE ClientLeaves \/ UNCHANGED vars
  <2>1. /\ UNCHANGED <<pc, received, delivered, chunk, readErr, tracker, outcome, recorded>>
        /\ client' \in {client, "gone"}
    BY <1>9 DEF ClientLeaves, vars, stream
  <2>2. TypeOK'
    BY <1>1, <2>1 DEF TypeOK
  <2>3. OpenInv'
    BY <1>1, <2>1 DEF OpenInv, Unfinished
  <2>4. PipeInv'
    BY <1>1, <2>1 DEF PipeInv
  <2>5. RecordIsTrue'
    BY <1>1, <2>1 DEF RecordIsTrue, Over
  <2>6. CutIsVisible'
    BY <1>1, <2>1 DEF CutIsVisible
  <2> QED
    BY <2>2, <2>3, <2>4, <2>5, <2>6 DEF HandlerInv
<1> QED
  BY <1>2, <1>3, <1>4, <1>5, <1>6, <1>7, <1>8, <1>9 DEF Next

LEMMA HandlerInvariant == Spec => []HandlerInv
BY InitHandler, StepHandler, PTL DEF Spec

(* The variables keep their types; in particular the tracker never keeps a  *)
(* line longer than maxSSELineTracking.                                     *)
THEOREM HandlerTypes == Spec => []TypeOK
<1>1. HandlerInv => TypeOK
  BY DEF HandlerInv
<1> QED
  BY <1>1, HandlerInvariant, PTL

(* sseDoneTracker finds a terminator exactly when a line of the stream is   *)
(* one, however the reads split it and however long its lines are.          *)
THEOREM TrackerFindsTerminator == Spec => []TrackerIsExact
<1>1. HandlerInv => TrackerIsExact
  BY DEF HandlerInv, OpenInv, Unfinished, TrackerIsExact, Streaming, Tracks
<1> QED
  BY <1>1, HandlerInvariant, PTL

(* A stream is recorded once however it ends, and as encrypted if and only  *)
(* if the client was given all of it, terminator included.                  *)
THEOREM RecordsAreTrue == Spec => []RecordIsTrue
<1>1. HandlerInv => RecordIsTrue
  BY DEF HandlerInv
<1> QED
  BY <1>1, HandlerInvariant, PTL

(* ServeHTTP returns normally from a stream only when the client has its    *)
(* terminator, or has left.                                                 *)
THEOREM CutAborts == Spec => []CutIsVisible
<1>1. HandlerInv => CutIsVisible
  BY DEF HandlerInv
<1> QED
  BY <1>1, HandlerInvariant, PTL

=============================================================================
