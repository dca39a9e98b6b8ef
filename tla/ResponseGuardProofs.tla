------------------------ MODULE ResponseGuardProofs ------------------------
(***************************************************************************)
(* Proofs about ResponseGuard for any encoding of lengths, any limit on    *)
(* frames and reports, and whatever the Gateway sends in reads of any size.*)
(* What a prefix says (Length) is never expanded: the proofs hold for any  *)
(* way of writing a frame's length.                                        *)
(***************************************************************************)
EXTENDS ResponseGuard, NaturalRecursion, SequenceTheorems

-----------------------------------------------------------------------------
(* Parts of a sequence. *)

LEMMA Part ==
    ASSUME NEW S, NEW s \in Seq(S), NEW a \in 0..Len(s), NEW c \in a..Len(s)
    PROVE  /\ SubSeq(s, a + 1, c) \in Seq(S)
           /\ Len(SubSeq(s, a + 1, c)) = c - a
           /\ \A k \in 1..(c - a) : SubSeq(s, a + 1, c)[k] = s[a + k]
<1>1. a + 1 \in Int /\ c \in Int /\ \A k \in (a + 1)..c : s[k] \in S
  OBVIOUS
<1> QED
  BY <1>1, SubSeqProperties

LEMMA Glue ==
    ASSUME NEW S, NEW s \in Seq(S), NEW a \in 0..Len(s), NEW c \in a..Len(s)
    PROVE  SubSeq(s, 1, a) \o SubSeq(s, a + 1, c) = SubSeq(s, 1, c)
<1> DEFINE left == SubSeq(s, 0 + 1, a)
           right == SubSeq(s, a + 1, c)
           whole == SubSeq(s, 0 + 1, c)
<1>1. /\ left \in Seq(S) /\ Len(left) = a
      /\ \A k \in 1..a : left[k] = s[k]
  BY Part
<1>2. /\ right \in Seq(S) /\ Len(right) = c - a
      /\ \A k \in 1..(c - a) : right[k] = s[a + k]
  BY Part
<1>3. /\ whole \in Seq(S) /\ Len(whole) = c
      /\ \A k \in 1..c : whole[k] = s[k]
  BY Part
<1> HIDE DEF left, right, whole
<1>4. /\ left \o right \in Seq(S) /\ Len(left \o right) = c
      /\ \A k \in 1..c : (left \o right)[k] = IF k <= a THEN left[k] ELSE right[k - a]
  BY <1>1, <1>2
<1>5. ASSUME NEW k \in 1..c PROVE (left \o right)[k] = whole[k]
  <2>1. CASE k <= a
    BY <1>1, <1>3, <1>4, <2>1
  <2>2. CASE ~(k <= a)
    <3>1. k - a \in 1..(c - a) /\ a + (k - a) = k
      BY <2>2
    <3>2. right[k - a] = s[k]
      BY <1>2, <3>1
    <3> QED
      BY <1>3, <1>4, <2>2, <3>2
  <2> QED
    BY <2>1, <2>2
<1>6. left \o right = whole
  BY <1>3, <1>4, <1>5, SeqEqual
<1> QED
  BY <1>6 DEF left, right, whole

LEMMA PartOfPart ==
    ASSUME NEW S, NEW s \in Seq(S), NEW a \in 0..Len(s), NEW c \in a..Len(s),
           NEW i \in 0..(c - a), NEW j \in i..(c - a)
    PROVE  SubSeq(SubSeq(s, a + 1, c), i + 1, j) = SubSeq(s, a + i + 1, a + j)
<1> DEFINE part == SubSeq(s, a + 1, c)
           left == SubSeq(part, i + 1, j)
           right == SubSeq(s, (a + i) + 1, a + j)
<1>1. /\ part \in Seq(S) /\ Len(part) = c - a
      /\ \A k \in 1..(c - a) : part[k] = s[a + k]
  BY Part
<1> HIDE DEF part
<1>2. /\ left \in Seq(S) /\ Len(left) = j - i
      /\ \A k \in 1..(j - i) : left[k] = part[i + k]
  BY <1>1, Part
<1>3. /\ right \in Seq(S) /\ Len(right) = j - i
      /\ \A k \in 1..(j - i) : right[k] = s[(a + i) + k]
  <2>1. a + i \in 0..Len(s) /\ a + j \in (a + i)..Len(s) /\ (a + j) - (a + i) = j - i
    OBVIOUS
  <2> QED
    BY <2>1, Part
<1>4. ASSUME NEW k \in 1..(j - i) PROVE left[k] = right[k]
  <2>1. i + k \in 1..(c - a) /\ a + (i + k) = (a + i) + k
    OBVIOUS
  <2> QED
    BY <1>1, <1>2, <1>3, <2>1
<1> HIDE DEF left, right
<1>5. left = right
  BY <1>2, <1>3, <1>4, SeqEqual
<1> QED
  BY <1>5 DEF left, right, part

-----------------------------------------------------------------------------
(* Where frames start. *)

Turn(s, i, found) ==
    IF i - 1 \in found /\ i - 1 + PrefixLen <= Len(s)
    THEN found \cup {i - 1 + PrefixLen + FrameAt(s, i - 1)} ELSE found

(* Reached is defined by what it finds at one position after the other.     *)
LEMMA ReachedTurns ==
    ASSUME NEW s, Len(s) \in Nat
    PROVE  /\ Reached(s)[0] = {0}
           /\ \A i \in 1..Len(s) : Reached(s)[i] = Turn(s, i, Reached(s)[i - 1])
<1> DEFINE loop(f) == f = [i \in 0..Len(s) |->
        IF i = 0 THEN {0}
        ELSE IF i - 1 \in f[i - 1] /\ i - 1 + PrefixLen <= Len(s)
        THEN f[i - 1] \cup {i - 1 + PrefixLen + FrameAt(s, i - 1)}
        ELSE f[i - 1]]
<1>1. Reached(s) = CHOOSE f : loop(f)
  BY DEF Reached
<1>2. \E f : loop(f)
  <2> DEFINE All == {0} \cup {i - 1 + PrefixLen + FrameAt(s, i - 1) : i \in Nat}
             turn == [i \in Nat \ {0} |-> [found \in SUBSET All |-> Turn(s, i, found)]]
  <2>1. ASSUME NEW i \in Nat \ {0}, NEW found \in SUBSET All
        PROVE  Turn(s, i, found) \in SUBSET All
    <3>1. i - 1 + PrefixLen + FrameAt(s, i - 1) \in All
      OBVIOUS
    <3> HIDE DEF All
    <3> QED
      BY <3>1 DEF Turn
  <2>2. {0} \in SUBSET All
    OBVIOUS
  <2> HIDE DEF All
  <2>3. turn \in [Nat \ {0} -> [SUBSET All -> SUBSET All]]
    BY <2>1
  <2>4. ASSUME NEW i \in 1..Len(s), NEW found \in SUBSET All
        PROVE  turn[i][found] = Turn(s, i, found)
    OBVIOUS
  <2> HIDE DEF turn
  <2>5. PICK f \in [0..Len(s) -> SUBSET All] : Turns(f, {0}, turn, Len(s))
    BY <2>2, <2>3, Recursion
  <2>6. f[0] = {0} /\ \A i \in 1..Len(s) : f[i] = turn[i][f[i - 1]]
    BY <2>5 DEF Turns
  <2>7. ASSUME NEW i \in 0..Len(s), i # 0
        PROVE  f[i] = Turn(s, i, f[i - 1])
    <3>1. i \in 1..Len(s) /\ i - 1 \in 0..Len(s)
      BY <2>7
    <3> QED
      BY <2>4, <2>6, <3>1
  <2> QED
    BY <2>6, <2>7 DEF Turn
<1>3. loop(Reached(s))
  BY <1>1, <1>2
<1>4. 0 \in 0..Len(s) /\ \A i \in 1..Len(s) : i \in 0..Len(s) /\ i # 0
  OBVIOUS
<1> QED
  BY <1>3, <1>4 DEF Turn

(* What has been found stays found. *)
LEMMA ReachedGrows ==
    ASSUME NEW s, Len(s) \in Nat, NEW i \in 0..Len(s), NEW j \in i..Len(s)
    PROVE  Reached(s)[i] \subseteq Reached(s)[j]
<1> DEFINE Good == {n \in Nat : i + n <= Len(s) => Reached(s)[i] \subseteq Reached(s)[i + n]}
<1>1. 0 \in Good
  OBVIOUS
<1>2. ASSUME NEW n \in Nat, n \in Good PROVE n + 1 \in Good
  <2> SUFFICES ASSUME i + n + 1 <= Len(s)
               PROVE  Reached(s)[i] \subseteq Reached(s)[i + n + 1]
    OBVIOUS
  <2>1. i + n + 1 \in 1..Len(s) /\ (i + n + 1) - 1 = i + n /\ i + n <= Len(s)
    OBVIOUS
  <2>2. Reached(s)[i + n] \subseteq Reached(s)[i + n + 1]
    BY <2>1, ReachedTurns DEF Turn
  <2> QED
    BY <1>2, <2>1, <2>2
<1> HIDE DEF Good
<1>3. Nat \subseteq Good
  BY <1>1, <1>2, Induction
<1>4. j - i \in Nat /\ i + (j - i) = j /\ j <= Len(s)
  OBVIOUS
<1> QED
  BY <1>3, <1>4 DEF Good

(* A set that has the first start and, with the start of a whole prefix, the*)
(* start of the frame behind, has them all.                                 *)
LEMMA LeastStarts ==
    ASSUME NEW s, Len(s) \in Nat, NEW S, 0 \in S,
           \A j \in Nat : j \in S /\ j + PrefixLen <= Len(s) => j + PrefixLen + FrameAt(s, j) \in S
    PROVE  Starts(s) \subseteq S
<1> DEFINE Good == {n \in Nat : n <= Len(s) => Reached(s)[n] \subseteq S}
<1>1. 0 \in Good
  BY ReachedTurns
<1>2. ASSUME NEW n \in Nat, n \in Good PROVE n + 1 \in Good
  <2> SUFFICES ASSUME n + 1 <= Len(s) PROVE Reached(s)[n + 1] \subseteq S
    OBVIOUS
  <2>1. n + 1 \in 1..Len(s) /\ (n + 1) - 1 = n /\ n <= Len(s)
    OBVIOUS
  <2>2. Reached(s)[n] \subseteq S
    BY <1>2, <2>1
  <2>3. Reached(s)[n + 1] = Turn(s, n + 1, Reached(s)[n])
    BY <2>1, ReachedTurns
  <2> QED
    BY <2>1, <2>2, <2>3 DEF Turn
<1> HIDE DEF Good
<1>3. Nat \subseteq Good
  BY <1>1, <1>2, Induction
<1> QED
  BY <1>3 DEF Good, Starts

(* The first b bytes of s are whole frames within the limit: `starts` has   *)
(* where each of them starts.                                               *)
WholeFrames(s, b) ==
    /\ b \in 0..Len(s) /\ b \in Reached(s)[b]
    /\ \E starts \in SUBSET (0..b) :
          /\ 0 \in starts
          /\ \A j \in starts \ {b} :
                /\ FrameAt(s, j) \in 1..MaxFrame
                /\ j + PrefixLen + FrameAt(s, j) \in starts

LEMMA NoFrames ==
    ASSUME NEW s, Len(s) \in Nat
    PROVE  WholeFrames(s, 0)
<1>1. {0} \in SUBSET (0..0) /\ \A j \in {0} : j = 0
  OBVIOUS
<1>2. 0 \in 0..Len(s) /\ 0 \in Reached(s)[0]
  BY ReachedTurns
<1> QED
  BY <1>1, <1>2 DEF WholeFrames

(* A frame that is all there takes the whole frames as far as its end.      *)
LEMMA OneFrameMore ==
    ASSUME NEW s, Len(s) \in Nat, NEW b \in Nat, WholeFrames(s, b),
           FrameAt(s, b) \in 1..MaxFrame, b + PrefixLen + FrameAt(s, b) <= Len(s)
    PROVE  WholeFrames(s, b + PrefixLen + FrameAt(s, b))
<1> DEFINE next == b + PrefixLen + FrameAt(s, b)
<1>1. /\ PrefixLen \in Nat \ {0} /\ FrameAt(s, b) \in Nat \ {0}
      /\ next \in Nat /\ b + 1 <= next /\ next <= Len(s)
  BY PrefixAssumption, FrameAssumption
<1>2. next \in Reached(s)[next]
  <2>1. b + 1 \in 1..Len(s) /\ (b + 1) - 1 = b /\ b + PrefixLen <= Len(s)
    BY <1>1
  <2>2. b \in Reached(s)[b]
    BY DEF WholeFrames
  <2>3. next \in Reached(s)[b + 1]
    BY <2>1, <2>2, ReachedTurns DEF Turn
  <2>4. Reached(s)[b + 1] \subseteq Reached(s)[next]
    <3>1. b + 1 \in 0..Len(s) /\ next \in (b + 1)..Len(s)
      BY <1>1
    <3> QED
      BY <3>1, ReachedGrows
  <2> QED
    BY <2>3, <2>4
<1>3. PICK starts \in SUBSET (0..b) :
        /\ 0 \in starts
        /\ \A j \in starts \ {b} :
              /\ FrameAt(s, j) \in 1..MaxFrame
              /\ j + PrefixLen + FrameAt(s, j) \in starts
  BY DEF WholeFrames
<1> DEFINE longer == starts \cup {next}
<1>4. longer \in SUBSET (0..next) /\ 0 \in longer /\ next \in longer
  <2>1. 0..b \subseteq 0..next /\ next \in 0..next /\ starts \subseteq 0..b
    BY <1>1
  <2> HIDE DEF next
  <2> QED
    BY <1>3, <2>1
<1>5. ASSUME NEW j \in longer \ {next}
      PROVE  /\ FrameAt(s, j) \in 1..MaxFrame
             /\ j + PrefixLen + FrameAt(s, j) \in longer
  <2>1. j \in starts
    OBVIOUS
  <2>2. CASE j = b
    BY <2>2
  <2>3. CASE j # b
    BY <1>3, <2>1, <2>3
  <2> QED
    BY <2>2, <2>3
<1>6. next \in 0..Len(s)
  BY <1>1
<1> HIDE DEF next, longer
<1>7. WholeFrames(s, next)
  BY <1>2, <1>4, <1>5, <1>6 DEF WholeFrames
<1> QED
  BY <1>7 DEF next

(* A part of s that releases nothing of a bad frame shows no bad frame.     *)
LEMMA GoodPart ==
    ASSUME NEW s \in Seq(Byte), NEW b \in Nat, WholeFrames(s, b), NEW k \in 0..Len(s),
           k >= b + PrefixLen =>
              FrameAt(s, b) \in 1..MaxFrame /\ k <= b + PrefixLen + FrameAt(s, b)
    PROVE  \A i \in Starts(SubSeq(s, 1, k)) :
              i + PrefixLen <= k => FrameAt(SubSeq(s, 1, k), i) \in 1..MaxFrame
<1> DEFINE part == SubSeq(s, 1, k)
<1>1. part \in Seq(Byte) /\ Len(part) = k /\ k \in Nat
  BY Part
<1>2. PICK starts \in SUBSET (0..b) :
        /\ 0 \in starts
        /\ \A j \in starts \ {b} :
              /\ FrameAt(s, j) \in 1..MaxFrame
              /\ j + PrefixLen + FrameAt(s, j) \in starts
  BY DEF WholeFrames
<1>3. ASSUME NEW j \in Nat, j + PrefixLen <= k
      PROVE  FrameAt(part, j) = FrameAt(s, j)
  <2>1. /\ 0 \in 0..Len(s) /\ k \in 0..Len(s) /\ j \in 0..(k - 0)
        /\ j + PrefixLen \in j..(k - 0) /\ 0 + j + 1 = j + 1
        /\ 0 + (j + PrefixLen) = j + PrefixLen /\ 0 + 1 = 1
    BY <1>3, PrefixAssumption
  <2>2. SubSeq(SubSeq(s, 0 + 1, k), j + 1, j + PrefixLen)
          = SubSeq(s, 0 + j + 1, 0 + (j + PrefixLen))
    BY <2>1, PartOfPart
  <2> QED
    BY <2>1, <2>2 DEF FrameAt
<1> DEFINE beyond == {x \in Nat : x + PrefixLen > k}
           all == starts \cup beyond
<1> HIDE DEF part
<1>4. ASSUME NEW j \in Nat, j \in all, j + PrefixLen <= k
      PROVE  FrameAt(s, j) \in 1..MaxFrame /\ j + PrefixLen + FrameAt(s, j) \in all
  <2>1. j \in starts
    BY <1>4, PrefixAssumption
  <2>2. CASE j = b
    <3>1. FrameAt(s, b) \in 1..MaxFrame /\ k <= b + PrefixLen + FrameAt(s, b)
      BY <1>1, <1>4, <2>2, PrefixAssumption
    <3>2. b + PrefixLen + FrameAt(s, b) \in beyond
      BY <1>1, <3>1, PrefixAssumption, FrameAssumption
    <3> QED
      BY <2>2, <3>1, <3>2
  <2>3. CASE j # b
    BY <1>2, <2>1, <2>3
  <2> QED
    BY <2>2, <2>3
<1>5. Starts(part) \subseteq all
  <2>1. 0 \in all
    BY <1>2
  <2>2. \A j \in Nat : j \in all /\ j + PrefixLen <= Len(part) =>
           j + PrefixLen + FrameAt(part, j) \in all
    BY <1>1, <1>3, <1>4
  <2> HIDE DEF all
  <2> QED
    BY <1>1, <2>1, <2>2, LeastStarts
<1>6. all \subseteq Nat
  <2>1. 0..b \subseteq Nat /\ starts \subseteq 0..b
    OBVIOUS
  <2>2. starts \subseteq Nat /\ beyond \subseteq Nat
    BY <2>1
  <2> HIDE DEF beyond
  <2> QED
    BY <2>2
<1> HIDE DEF all
<1>7. \A i \in Starts(part) : i + PrefixLen <= k => FrameAt(part, i) \in 1..MaxFrame
  BY <1>3, <1>4, <1>5, <1>6
<1> QED
  BY <1>7 DEF part

-----------------------------------------------------------------------------
(* The inductive invariant. *)

(* What has been handed out is a part of what was taken from the source.    *)
OutInv ==
    /\ Len(out) <= pos /\ out = SubSeq(wire, 1, Len(out))
    /\ result = "none" <=> pc # "stopped"
    /\ pc = "loop" => Framed /\ pendingError = "none" /\ ~eof

(* Where the reader is, if the frame it is about starts after b bytes.      *)
AtPrefix(b) ==
    /\ frameRemaining = 0 /\ headerOffset = 0
    /\ pos = b /\ Len(out) = b

InPrefix(b) ==
    /\ frameRemaining \in 1..MaxFrame /\ frameRemaining = FrameAt(wire, b)
    /\ headerOffset < PrefixLen /\ header = SubSeq(wire, b + 1, b + PrefixLen)
    /\ pos = b + PrefixLen /\ Len(out) = b + headerOffset

InBody(b) ==
    /\ frameRemaining > 0 /\ headerOffset = PrefixLen
    /\ FrameAt(wire, b) \in 1..MaxFrame
    /\ pos >= b + PrefixLen /\ Len(out) = pos
    /\ pos + frameRemaining = b + PrefixLen + FrameAt(wire, b)

(* No more of the frame is out than may be. *)
GoodOut(b) == Len(out) >= b + PrefixLen =>
    FrameAt(wire, b) \in 1..MaxFrame /\ Len(out) <= b + PrefixLen + FrameAt(wire, b)

(* What the errors that stop the reader, or will, say of the frames.        *)
EndInv(b) ==
    /\ result = "EOF" \/ pendingError = "EOF" \/ eof =>
          b = Len(wire) /\ Len(out) = Len(wire)
    /\ result \in {"zero", "oversized"} =>
          /\ Len(out) = b /\ b + PrefixLen <= Len(wire)
          /\ FrameAt(wire, b) \notin 1..MaxFrame
          /\ result = "zero" <=> FrameAt(wire, b) = 0
    /\ pendingError \notin {"zero", "oversized"}

Running == pc # "stopped" /\ pendingError = "none" /\ ~eof

FramedInv == Framed => \E b \in 0..Len(wire) :
    /\ WholeFrames(wire, b) /\ GoodOut(b) /\ EndInv(b)
    /\ Running => AtPrefix(b) \/ InPrefix(b) \/ InBody(b)

UnframedInv == ~Framed =>
    /\ Len(out) = pos /\ pendingError = "none" /\ ~eof
    /\ result \in {"none", "EOF", "broken"}
    /\ result = "EOF" => pos = Len(wire)

(* What the bound and the EHBP library know of the Read in progress.        *)
GivenInv ==
    /\ Len(given) <= Len(out) /\ given = SubSeq(wire, 1, Len(given))
    /\ problem => remaining + Len(given) = MaxProblem
    /\ probing => problem /\ remaining = 0

StageInv ==
    /\ stage = "arrived" => pc = "idle" /\ out = <<>>
    /\ stage = "open" => given = out /\ pc = "idle"
    /\ stage # "over" => verdict = "none"
    /\ stage = "over" => verdict \in {"nonce", "exceeds"} \/ (given = out /\ verdict = result)
    /\ verdict = "exceeds" =>
          problem /\ Len(given) = MaxProblem /\ Len(wire) > MaxProblem

RoomInv ==
    /\ stage = "reading" /\ problem /\ ~probing => Len(out) - Len(given) <= remaining
    /\ stage = "reading" /\ problem /\ ~probing /\ pc = "loop" =>
          Len(out) = Len(given) + written /\ want <= remaining

GuardInv ==
    /\ ResponseTypeOK /\ OutInv /\ FramedInv /\ UnframedInv
    /\ GivenInv /\ StageInv /\ RoomInv

-----------------------------------------------------------------------------
(* frameGuardReader keeps its part of the invariant. *)

ReaderInv == TypeOK /\ OutInv /\ FramedInv /\ UnframedInv

(* A reader in a Read knows which frame it is in. *)
LEMMA InALoop ==
    ASSUME ReaderInv, pc = "loop"
    PROVE  /\ Framed /\ Running /\ result = "none"
           /\ \E b \in 0..Len(wire) :
                 /\ WholeFrames(wire, b) /\ GoodOut(b)
                 /\ InHeader => InPrefix(b)
                 /\ ~InHeader /\ frameRemaining > 0 => InBody(b)
                 /\ BetweenFrames => AtPrefix(b)
<1>1. Framed /\ Running /\ result = "none"
  BY DEF ReaderInv, OutInv, Running
<1>2. PICK b \in 0..Len(wire) :
        /\ WholeFrames(wire, b) /\ GoodOut(b)
        /\ AtPrefix(b) \/ InPrefix(b) \/ InBody(b)
  BY <1>1 DEF ReaderInv, FramedInv
<1>3. /\ PrefixLen \in Nat \ {0} /\ headerOffset \in 0..PrefixLen /\ frameRemaining \in Nat
  BY PrefixAssumption DEF ReaderInv, TypeOK
<1>4. CASE AtPrefix(b)
  BY <1>1, <1>2, <1>3, <1>4 DEF AtPrefix, InHeader
<1>5. CASE InPrefix(b)
  BY <1>1, <1>2, <1>3, <1>5 DEF InPrefix, InHeader, BetweenFrames
<1>6. CASE InBody(b)
  BY <1>1, <1>2, <1>3, <1>6 DEF InBody, InHeader, BetweenFrames
<1> QED
  BY <1>2, <1>4, <1>5, <1>6

(* It is enough to name the frame a framed reader is in after a step.       *)
LEMMA NowAt ==
    ASSUME UNCHANGED <<wire, nonce>>, Framed, TypeOK', OutInv',
           NEW b \in 0..Len(wire), WholeFrames(wire, b), GoodOut(b)', EndInv(b)',
           (Running => AtPrefix(b) \/ InPrefix(b) \/ InBody(b))'
    PROVE  ReaderInv'
<1>1. FramedInv'
  BY DEF FramedInv
<1>2. UnframedInv'
  BY DEF UnframedInv, Framed
<1> QED
  BY <1>1, <1>2 DEF ReaderInv

LEMMA CallKeeps ==
    ASSUME ReaderInv, Framed, UNCHANGED nonce, NEW n \in 1..MaxRead, Call(n)
    PROVE  ReaderInv'
<1>1. /\ pc = "idle"
      /\ UNCHANGED <<wire, pos, header, headerOffset, frameRemaining, eof, out>>
  BY DEF Call, frame
<1>2. TypeOK /\ OutInv
  BY DEF ReaderInv
<1>3. PICK b \in 0..Len(wire) :
        /\ WholeFrames(wire, b) /\ GoodOut(b) /\ EndInv(b)
        /\ Running => AtPrefix(b) \/ InPrefix(b) \/ InBody(b)
  BY DEF ReaderInv, FramedInv
<1>4. GoodOut(b)'
  BY <1>1, <1>3 DEF GoodOut
<1>5. CASE pendingError # "none" /\ pendingError' = "none" /\ Return(pendingError)
  <2>1. /\ result' = pendingError /\ pc' = "stopped" /\ pendingError' = "none"
        /\ want' = 0 /\ written' = 0
    BY <1>5 DEF Return
  <2>2. TypeOK'
    BY <1>1, <1>2, <2>1, ReadAssumption DEF TypeOK, Errors
  <2>3. OutInv'
    BY <1>1, <1>2, <1>5, <2>1 DEF OutInv
  <2>4. EndInv(b)'
    BY <1>1, <1>3, <2>1 DEF EndInv
  <2> QED
    BY <1>1, <1>3, <1>4, <2>1, <2>2, <2>3, <2>4, NowAt DEF Running
<1>6. CASE pendingError = "none" /\ eof /\ Return("EOF") /\ UNCHANGED pendingError
  <2>1. /\ result' = "EOF" /\ pc' = "stopped" /\ pendingError' = "none"
        /\ want' = 0 /\ written' = 0
    BY <1>6 DEF Return
  <2>2. TypeOK'
    BY <1>1, <1>2, <2>1, ReadAssumption DEF TypeOK, Errors
  <2>3. OutInv'
    BY <1>1, <1>2, <2>1 DEF OutInv
  <2>4. EndInv(b)'
    BY <1>1, <1>3, <1>6, <2>1 DEF EndInv
  <2> QED
    BY <1>1, <1>3, <1>4, <2>1, <2>2, <2>3, <2>4, NowAt DEF Running
<1>7. CASE /\ pendingError = "none" /\ ~eof
           /\ pc' = "loop" /\ want' = n /\ written' = 0
           /\ UNCHANGED <<pendingError, result>>
  <2>1. TypeOK'
    BY <1>1, <1>2, <1>7, ReadAssumption DEF TypeOK
  <2>2. OutInv'
    BY <1>1, <1>2, <1>7 DEF OutInv, Framed
  <2>3. EndInv(b)'
    BY <1>1, <1>3, <1>7 DEF EndInv
  <2>4. (AtPrefix(b) \/ InPrefix(b) \/ InBody(b))'
    BY <1>1, <1>3, <1>7 DEF Running, AtPrefix, InPrefix, InBody
  <2> QED
    BY <1>1, <1>3, <1>4, <2>1, <2>2, <2>3, <2>4, NowAt
<1> QED
  BY <1>5, <1>6, <1>7 DEF Call

LEMMA FullKeeps ==
    ASSUME ReaderInv, UNCHANGED nonce, Full
    PROVE  ReaderInv'
<1>1. /\ pc = "loop" /\ pc' = "idle" /\ result' = "none" /\ want' = 0 /\ written' = 0
      /\ UNCHANGED <<wire, pos, header, headerOffset, frameRemaining, pendingError, eof, out>>
  BY DEF Full, Return, frame
<1>2. TypeOK /\ OutInv /\ Framed /\ Running
  BY <1>1, InALoop DEF ReaderInv
<1>3. PICK b \in 0..Len(wire) :
        /\ WholeFrames(wire, b) /\ GoodOut(b) /\ EndInv(b)
        /\ AtPrefix(b) \/ InPrefix(b) \/ InBody(b)
  BY <1>2 DEF ReaderInv, FramedInv
<1>4. TypeOK' /\ OutInv'
  BY <1>1, <1>2, ReadAssumption DEF TypeOK, OutInv, Errors
<1>5. GoodOut(b)' /\ EndInv(b)'
  BY <1>1, <1>3 DEF GoodOut, EndInv
<1>6. (AtPrefix(b) \/ InPrefix(b) \/ InBody(b))'
  BY <1>1, <1>3 DEF AtPrefix, InPrefix, InBody
<1> QED
  BY <1>1, <1>2, <1>3, <1>4, <1>5, <1>6, NowAt

(* Bytes taken from the wire where the output ends continue it.             *)
LEMMA OutGrows ==
    ASSUME ReaderInv, NEW n \in Nat, Len(out) + n <= Len(wire),
           out' = out \o SubSeq(wire, Len(out) + 1, Len(out) + n), wire' = wire
    PROVE  /\ out' \in Seq(Byte) /\ Len(out') = Len(out) + n
           /\ out' = SubSeq(wire', 1, Len(out'))
<1>1. wire \in Seq(Byte) /\ out \in Seq(Byte) /\ out = SubSeq(wire, 1, Len(out))
  BY DEF ReaderInv, TypeOK, OutInv
<1>2. Len(out) \in 0..Len(wire) /\ Len(out) + n \in Len(out)..Len(wire)
  BY <1>1
<1>3. out' = SubSeq(wire, 1, Len(out) + n)
  BY <1>1, <1>2, Glue
<1>4. /\ SubSeq(wire, 0 + 1, Len(out) + n) \in Seq(Byte)
      /\ Len(SubSeq(wire, 0 + 1, Len(out) + n)) = Len(out) + n
  <2>1. 0 \in 0..Len(wire) /\ Len(out) + n \in 0..Len(wire)
    BY <1>2
  <2> QED
    BY <1>1, <2>1, Part
<1>5. out' = SubSeq(wire, 0 + 1, Len(out) + n)
  BY <1>3
<1>6. Len(out') = Len(out) + n
  BY <1>4, <1>5
<1> QED
  BY <1>3, <1>4, <1>5, <1>6

(* What a step of a Read adds to the output is within what was asked, and  *)
(* counted in `written` while the Read goes on.                             *)
Counts ==
    /\ Len(out') \in Len(out)..(Len(out) + (want - written))
    /\ pc' = "loop" => want' = want /\ Len(out') - Len(out) = written' - written

LEMMA ZeroHeaderType == ZeroHeader \in Seq(Byte) /\ Len(ZeroHeader) = PrefixLen
BY PrefixAssumption DEF ZeroHeader, Byte

(* A copy out of the header is a copy of the wire, and after the last one   *)
(* the reader is in the frame's body.                                       *)
LEMMA CopyHeaderKeeps ==
    ASSUME ReaderInv, UNCHANGED nonce, CopyHeader
    PROVE  ReaderInv' /\ Counts
<1>1. /\ pc = "loop" /\ written < want /\ InHeader
      /\ out' = out \o SubSeq(header, CopyFrom, CopyFrom + Copied - 1)
      /\ headerOffset' = headerOffset + Copied
      /\ written' = written + Copied
      /\ UNCHANGED <<wire, pos, header, frameRemaining, pendingError, eof, want, pc, result>>
  BY DEF CopyHeader, Looping
<1>2. TypeOK /\ OutInv /\ Framed /\ Running /\ result = "none"
  BY <1>1, InALoop DEF ReaderInv
<1>3. PICK b \in 0..Len(wire) : WholeFrames(wire, b) /\ InPrefix(b)
  BY <1>1, InALoop
<1>4. /\ PrefixLen \in Nat \ {0} /\ headerOffset \in 0..PrefixLen /\ headerOffset < PrefixLen
      /\ want \in 0..MaxRead /\ written \in 0..want /\ pos \in 0..Len(wire)
      /\ Len(wire) \in Nat /\ wire \in Seq(Byte)
      /\ pos = b + PrefixLen /\ Len(out) = b + headerOffset
      /\ header = SubSeq(wire, b + 1, b + PrefixLen)
  BY <1>2, <1>3, PrefixAssumption DEF TypeOK, InPrefix
<1> DEFINE n == Copied
<1>5. n \in Nat /\ n > 0 /\ headerOffset + n <= PrefixLen /\ written + n <= want
  BY <1>1, <1>4, ReadAssumption DEF Copied, Least
<1> HIDE DEF n
<1>6. out' = out \o SubSeq(wire, Len(out) + 1, Len(out) + n)
  <2>1. /\ b \in 0..Len(wire) /\ b + PrefixLen \in b..Len(wire)
        /\ headerOffset \in 0..((b + PrefixLen) - b)
        /\ headerOffset + n \in headerOffset..((b + PrefixLen) - b)
    BY <1>4, <1>5
  <2>2. SubSeq(header, headerOffset + 1, headerOffset + n)
          = SubSeq(wire, b + headerOffset + 1, b + (headerOffset + n))
    BY <1>4, <2>1, PartOfPart
  <2>3. /\ CopyFrom = headerOffset + 1 /\ CopyFrom + Copied - 1 = headerOffset + n
        /\ b + headerOffset + 1 = Len(out) + 1 /\ b + (headerOffset + n) = Len(out) + n
    BY <1>4, <1>5 DEF CopyFrom, n
  <2> QED
    BY <1>1, <2>2, <2>3
<1>7. Len(out) + n <= Len(wire)
  BY <1>4, <1>5
<1>8. /\ out' \in Seq(Byte) /\ Len(out') = Len(out) + n
      /\ out' = SubSeq(wire', 1, Len(out'))
  BY <1>1, <1>5, <1>6, <1>7, OutGrows
<1>9. headerOffset' = headerOffset + n /\ written' = written + n
  BY <1>1 DEF n
<1>10. UNCHANGED <<wire, pos, header, frameRemaining, pendingError, eof, want, pc, result>>
  BY <1>1
<1>11. /\ headerOffset' \in 0..PrefixLen /\ written' \in 0..want
       /\ Len(out') <= pos /\ Len(out') <= b + PrefixLen
  BY <1>4, <1>5, <1>8, <1>9
<1>12. TypeOK'
  BY <1>2, <1>8, <1>10, <1>11 DEF TypeOK
<1>13. OutInv'
  BY <1>2, <1>8, <1>10, <1>11 DEF OutInv, Framed
<1>14. GoodOut(b)'
  <2>1. FrameAt(wire, b) \in 1..MaxFrame
    BY <1>3 DEF InPrefix
  <2>2. Len(out') <= b + PrefixLen + FrameAt(wire, b)
    BY <1>4, <1>8, <1>11, <2>1, FrameAssumption
  <2> QED
    BY <1>10, <2>1, <2>2 DEF GoodOut
<1>15. EndInv(b)'
  BY <1>1, <1>2 DEF EndInv, Running
<1>16. InPrefix(b)' \/ InBody(b)'
  <2>1. frameRemaining \in 1..MaxFrame /\ frameRemaining = FrameAt(wire, b)
    BY <1>3 DEF InPrefix
  <2>2. CASE headerOffset + n = PrefixLen
    <3>1. headerOffset' = PrefixLen /\ Len(out') = pos
      BY <1>4, <1>5, <1>8, <1>9, <2>2
    <3>2. frameRemaining > 0 /\ pos >= b + PrefixLen
      BY <1>4, <2>1, FrameAssumption
    <3>3. InBody(b)'
      BY <1>1, <1>4, <2>1, <3>1, <3>2 DEF InBody
    <3> QED
      BY <3>3
  <2>3. CASE headerOffset + n # PrefixLen
    <3>1. headerOffset' < PrefixLen /\ Len(out') = b + headerOffset'
      BY <1>4, <1>5, <1>8, <1>9, <2>3
    <3>2. InPrefix(b)'
      BY <1>1, <1>4, <2>1, <3>1 DEF InPrefix
    <3> QED
      BY <3>2
  <2> QED
    BY <2>2, <2>3
<1>17. Counts
  BY <1>4, <1>5, <1>8, <1>9, <1>10 DEF Counts
<1> QED
  BY <1>1, <1>2, <1>3, <1>12, <1>13, <1>14, <1>15, <1>16, <1>17, NowAt

(* What the source gives continues the frame; the last byte of it ends one  *)
(* more whole frame.                                                        *)
LEMMA ReadBodyKeeps ==
    ASSUME ReaderInv, UNCHANGED nonce, ReadBody
    PROVE  ReaderInv' /\ Counts
<1>1. /\ pc = "loop" /\ written < want /\ ~InHeader /\ frameRemaining > 0
      /\ UNCHANGED <<wire, eof>>
  BY DEF ReadBody, Looping
<1>2. PICK n \in 0..MaxRead, err \in {"none", "EOF", "broken"} :
        /\ SourceRead(Least(want - written, frameRemaining), n, err)
        /\ pos' = pos + n
        /\ out' = out \o SubSeq(wire, pos + 1, pos + n)
        /\ frameRemaining' = frameRemaining - n
        /\ IF err = "none"
           THEN /\ written' = written + n
                /\ NextFrame(n)
                /\ UNCHANGED <<pendingError, want, pc, result>>
           ELSE /\ ReturnOrKeep(BodyError(err, n), written + n)
                /\ UNCHANGED <<header, headerOffset>>
  BY DEF ReadBody
<1>3. TypeOK /\ OutInv /\ Framed /\ Running /\ result = "none"
  BY <1>1, InALoop DEF ReaderInv
<1>4. PICK b \in 0..Len(wire) : WholeFrames(wire, b) /\ InBody(b)
  BY <1>1, InALoop
<1>0. FrameAt(wire, b) \in 1..MaxFrame
  BY <1>4 DEF InBody
<1> PICK next \in Nat : next = b + PrefixLen + FrameAt(wire, b)
  BY <1>0, PrefixAssumption, FrameAssumption
<1>5. /\ PrefixLen \in Nat \ {0} /\ headerOffset = PrefixLen /\ frameRemaining \in Nat \ {0}
      /\ want \in 0..MaxRead /\ written \in 0..want /\ pos \in 0..Len(wire)
      /\ Len(wire) \in Nat /\ wire \in Seq(Byte)
      /\ pos >= b + PrefixLen /\ Len(out) = pos
      /\ pos + frameRemaining = next
  BY <1>1, <1>3, <1>4, PrefixAssumption DEF TypeOK, InBody
<1>6. /\ n \in Nat /\ n <= frameRemaining /\ written + n <= want
      /\ pos + n <= Len(wire)
      /\ n > 0 \/ err # "none"
      /\ err = "EOF" => pos + n = Len(wire)
  <2>1. /\ n <= Least(want - written, frameRemaining)
        /\ pos + n <= Len(wire)
        /\ n > 0 \/ err # "none"
        /\ err = "EOF" => pos + n = Len(wire)
    BY <1>2 DEF SourceRead
  <2>2. n <= frameRemaining /\ written + n <= want
    BY <1>5, <2>1, ReadAssumption DEF Least
  <2>3. n \in Nat
    BY ReadAssumption
  <2> QED
    BY <2>1, <2>2, <2>3
<1>7. /\ out' \in Seq(Byte) /\ Len(out') = pos'
      /\ out' = SubSeq(wire', 1, Len(out'))
      /\ pos' = pos + n /\ pos' \in 0..Len(wire')
      /\ frameRemaining' = frameRemaining - n /\ frameRemaining' \in Nat
  <2>0. /\ pos' = pos + n /\ frameRemaining' = frameRemaining - n
        /\ out' = out \o SubSeq(wire, pos + 1, pos + n)
    BY <1>2
  <2>1. out' = out \o SubSeq(wire, Len(out) + 1, Len(out) + n) /\ Len(out) + n <= Len(wire)
    BY <1>5, <1>6, <2>0
  <2>2. /\ out' \in Seq(Byte) /\ Len(out') = Len(out) + n
        /\ out' = SubSeq(wire', 1, Len(out'))
    BY <1>1, <1>6, <2>1, OutGrows
  <2>3. pos' = pos + n /\ pos' \in 0..Len(wire')
    BY <1>1, <1>5, <1>6, <2>0
  <2>4. frameRemaining' = frameRemaining - n /\ frameRemaining' \in Nat
    BY <1>5, <1>6, <2>0
  <2> QED
    BY <1>5, <2>2, <2>3, <2>4
<1>8. /\ GoodOut(b)'
      /\ n = frameRemaining => GoodOut(next)' /\ WholeFrames(wire, next) /\ next \in 0..Len(wire)
  <2>1. GoodOut(b)'
    BY <1>0, <1>1, <1>5, <1>6, <1>7 DEF GoodOut
  <2>2. CASE n = frameRemaining
    <3>1. Len(out') = next /\ next <= Len(wire)
      BY <1>1, <1>5, <1>6, <1>7, <2>2
    <3>2. GoodOut(next)'
      BY <1>5, <1>7, <3>1 DEF GoodOut
    <3>3. WholeFrames(wire, next)
      BY <1>0, <1>4, <1>5, <3>1, OneFrameMore
    <3> QED
      BY <1>5, <2>1, <3>1, <3>2, <3>3
  <2> QED
    BY <2>1, <2>2
<1> SUFFICES ReaderInv'
  <2>1. Len(out') = Len(out) + n /\ Len(out') \in Len(out)..(Len(out) + (want - written))
    BY <1>5, <1>6, <1>7
  <2>2. CASE err = "none"
    <3>1. want' = want /\ written' = written + n
      BY <1>2, <2>2
    <3> QED
      BY <1>5, <1>6, <2>1, <3>1 DEF Counts
  <2>3. CASE err # "none"
    <3>1. BodyError(err, n) # "none"
      BY <2>3 DEF BodyError
    <3>2. pc' # "loop"
      BY <1>2, <2>3, <3>1 DEF ReturnOrKeep, Return
    <3> QED
      BY <2>1, <3>2 DEF Counts
  <2> QED
    BY <2>2, <2>3
<1>9. CASE err = "none"
  <2>1. /\ written' = written + n /\ NextFrame(n)
        /\ UNCHANGED <<pendingError, want, pc, result>>
    BY <1>2, <1>9
  <2>2. OutInv'
    BY <1>1, <1>3, <1>5, <1>7, <2>1 DEF OutInv, Framed
  <2>3. \A c \in {b, next} : EndInv(c)'
    BY <1>1, <1>3, <2>1 DEF EndInv, Running
  <2>4. CASE n = frameRemaining
    <3>1. headerOffset' = 0 /\ header' = ZeroHeader
      BY <1>5, <2>1, <2>4 DEF NextFrame
    <3>2. TypeOK'
      BY <1>1, <1>3, <1>5, <1>6, <1>7, <2>1, <3>1, ZeroHeaderType DEF TypeOK
    <3>3. AtPrefix(next)'
      BY <1>5, <1>7, <2>4, <3>1 DEF AtPrefix
    <3> QED
      BY <1>1, <1>3, <1>8, <2>2, <2>3, <2>4, <3>2, <3>3, NowAt
  <2>5. CASE n # frameRemaining
    <3>1. UNCHANGED <<headerOffset, header>>
      BY <2>1, <2>5 DEF NextFrame
    <3>2. TypeOK'
      BY <1>1, <1>3, <1>5, <1>6, <1>7, <2>1, <3>1 DEF TypeOK
    <3>3. InBody(b)'
      BY <1>0, <1>1, <1>5, <1>6, <1>7, <2>5, <3>1 DEF InBody
    <3> QED
      BY <1>1, <1>3, <1>4, <1>8, <2>2, <2>3, <3>2, <3>3, NowAt
  <2> QED
    BY <2>4, <2>5
<1>10. CASE err # "none"
  <2> DEFINE end == BodyError(err, n)
  <2>1. ReturnOrKeep(end, written + n) /\ UNCHANGED <<header, headerOffset>>
    BY <1>2, <1>10
  <2>2. end \in {"truncated", "EOF", "broken"} /\ (end = "EOF" => err = "EOF" /\ n = frameRemaining)
    BY <1>5, <1>6, <1>10 DEF BodyError
  <2> HIDE DEF end
  <2>3. /\ want' = 0 /\ written' = 0
        /\ \/ pendingError' = end /\ result' = "none" /\ pc' = "idle"
           \/ pendingError' = pendingError /\ result' = end /\ pc' = "stopped"
    BY <2>1, <2>2 DEF ReturnOrKeep, Return
  <2>4. TypeOK'
    BY <1>1, <1>3, <1>7, <2>1, <2>2, <2>3, ReadAssumption DEF TypeOK, Errors
  <2>5. OutInv'
    BY <1>5, <1>7, <2>2, <2>3 DEF OutInv
  <2>6. ~Running'
    BY <2>2, <2>3 DEF Running
  <2>7. CASE n = frameRemaining
    <3>1. end = "EOF" => next = Len(wire') /\ Len(out') = Len(wire')
      BY <1>1, <1>5, <1>6, <1>7, <2>2, <2>7
    <3>2. EndInv(next)'
      BY <1>1, <1>3, <2>2, <2>3, <3>1 DEF EndInv, Running
    <3> QED
      BY <1>1, <1>3, <1>8, <2>4, <2>5, <2>6, <2>7, <3>2, NowAt
  <2>8. CASE n # frameRemaining
    <3>1. EndInv(b)'
      BY <1>1, <1>3, <2>2, <2>3, <2>8 DEF EndInv, Running
    <3> QED
      BY <1>1, <1>3, <1>4, <1>8, <2>4, <2>5, <2>6, <3>1, NowAt
  <2> QED
    BY <2>7, <2>8
<1> QED
  BY <1>9, <1>10

(* A whole prefix starts a frame, or is refused with nothing of it out.     *)
LEMMA ReadPrefixKeeps ==
    ASSUME ReaderInv, UNCHANGED nonce, ReadPrefix
    PROVE  ReaderInv'
<1>1. /\ pc = "loop" /\ written < want /\ ~InHeader /\ frameRemaining = 0
      /\ pos + PrefixLen <= Len(wire) /\ pos' = pos + PrefixLen
      /\ header' = SubSeq(wire, pos + 1, pos + PrefixLen)
      /\ UNCHANGED <<wire, pendingError, eof, out>>
  BY DEF ReadPrefix, BetweenFrames, Looping
<1>2. TypeOK /\ OutInv /\ Framed /\ Running /\ result = "none"
  BY <1>1, InALoop DEF ReaderInv
<1>3. PICK b \in 0..Len(wire) : WholeFrames(wire, b) /\ AtPrefix(b)
  BY <1>1, InALoop DEF BetweenFrames, Looping
<1>4. /\ PrefixLen \in Nat \ {0} /\ Len(wire) \in Nat /\ wire \in Seq(Byte)
      /\ pos = b /\ Len(out) = b /\ headerOffset = 0
  BY <1>2, <1>3, PrefixAssumption DEF TypeOK, AtPrefix
<1>5. header' = SubSeq(wire, b + 1, b + PrefixLen) /\ Length(header') = FrameAt(wire, b)
  BY <1>1, <1>4 DEF FrameAt
<1>6. header' \in Seq(Byte) /\ Len(header') = PrefixLen
  <2>1. b + PrefixLen \in b..Len(wire) /\ (b + PrefixLen) - b = PrefixLen
    BY <1>1, <1>4
  <2> QED
    BY <1>4, <1>5, <2>1, Part
<1>7. pos' \in 0..Len(wire') /\ pos' = b + PrefixLen /\ Len(out') <= pos' /\ Len(out') = b
  BY <1>1, <1>4
<1>8. GoodOut(b)'
  BY <1>4, <1>7 DEF GoodOut
<1>9. CASE /\ FrameAt(wire, b) \in 1..MaxFrame
           /\ frameRemaining' = FrameAt(wire, b) /\ headerOffset' = 0
           /\ UNCHANGED <<want, written, pc, result>>
  <2>1. frameRemaining' \in Nat /\ headerOffset' \in 0..PrefixLen
    BY <1>4, <1>9, FrameAssumption
  <2>2. TypeOK'
    BY <1>1, <1>2, <1>6, <1>7, <1>9, <2>1 DEF TypeOK
  <2>3. OutInv'
    BY <1>1, <1>2, <1>7, <1>9 DEF OutInv, Framed
  <2>4. EndInv(b)'
    BY <1>1, <1>2, <1>9 DEF EndInv, Running
  <2>5. InPrefix(b)'
    BY <1>1, <1>4, <1>5, <1>7, <1>9 DEF InPrefix
  <2> QED
    BY <1>1, <1>2, <1>3, <1>8, <2>2, <2>3, <2>4, <2>5, NowAt
<1>10. CASE \E err \in {"zero", "oversized"} :
              /\ Return(err)
              /\ FrameAt(wire, b) \notin 1..MaxFrame
              /\ err = "zero" <=> FrameAt(wire, b) = 0
              /\ UNCHANGED <<frameRemaining, headerOffset>>
  <2>1. PICK err \in {"zero", "oversized"} :
              /\ Return(err)
              /\ FrameAt(wire, b) \notin 1..MaxFrame
              /\ err = "zero" <=> FrameAt(wire, b) = 0
              /\ UNCHANGED <<frameRemaining, headerOffset>>
    BY <1>10
  <2>2. result' = err /\ pc' = "stopped" /\ want' = 0 /\ written' = 0
    BY <2>1 DEF Return
  <2>3. TypeOK'
    BY <1>1, <1>2, <1>6, <1>7, <2>1, <2>2, ReadAssumption DEF TypeOK, Errors
  <2>4. OutInv'
    BY <1>1, <1>2, <1>7, <2>2 DEF OutInv
  <2>5. EndInv(b)'
    BY <1>1, <1>2, <1>4, <1>7, <2>1, <2>2 DEF EndInv, Running
  <2>6. ~Running'
    BY <2>2 DEF Running
  <2> QED
    BY <1>1, <1>2, <1>3, <1>8, <2>3, <2>4, <2>5, <2>6, NowAt
<1>11. \/ /\ FrameAt(wire, b) \in 1..MaxFrame
          /\ frameRemaining' = FrameAt(wire, b) /\ headerOffset' = 0
          /\ UNCHANGED <<want, written, pc, result>>
       \/ \E err \in {"zero", "oversized"} :
              /\ Return(err)
              /\ FrameAt(wire, b) \notin 1..MaxFrame
              /\ err = "zero" <=> FrameAt(wire, b) = 0
              /\ UNCHANGED <<frameRemaining, headerOffset>>
  <2> DEFINE length == Length(header')
  <2>1. \/ /\ Acceptable(length)
           /\ frameRemaining' = length
           /\ headerOffset' = 0
           /\ UNCHANGED <<want, written, pc, result>>
        \/ /\ length = 0
           /\ Return("zero")
           /\ UNCHANGED <<frameRemaining, headerOffset>>
        \/ /\ length > 0 /\ ~Acceptable(length)
           /\ Return("oversized")
           /\ UNCHANGED <<frameRemaining, headerOffset>>
    BY DEF ReadPrefix
  <2>2. length = FrameAt(wire, b)
    BY <1>5
  <2>3. 0 \notin 1..MaxFrame
    BY FrameAssumption
  <2> HIDE DEF length
  <2>4. length > 0 => length # 0
    OBVIOUS
  <2> QED
    BY <2>1, <2>2, <2>3, <2>4, Zenon DEF Acceptable
<1> QED
  BY <1>9, <1>10, <1>11

LEMMA EndOfFramesKeeps ==
    ASSUME ReaderInv, UNCHANGED nonce, EndOfFrames
    PROVE  ReaderInv'
<1>1. /\ pc = "loop" /\ BetweenFrames /\ pos = Len(wire) /\ eof' = TRUE
      /\ UNCHANGED <<wire, pos, header, headerOffset, frameRemaining, pendingError, out>>
      /\ want' = 0 /\ written' = 0
      /\ \/ result' = "none" /\ pc' = "idle"
         \/ result' = "EOF" /\ pc' = "stopped"
  BY DEF EndOfFrames, BetweenFrames, Looping, Return, frame
<1>2. TypeOK /\ OutInv /\ Framed /\ Running /\ result = "none"
  BY <1>1, InALoop DEF ReaderInv
<1>3. PICK b \in 0..Len(wire) : WholeFrames(wire, b) /\ GoodOut(b) /\ AtPrefix(b)
  BY <1>1, InALoop
<1>4. pos = b /\ Len(out) = b
  BY <1>3 DEF AtPrefix
<1>5. TypeOK'
  BY <1>1, <1>2, ReadAssumption DEF TypeOK, Errors
<1>6. OutInv'
  BY <1>1, <1>2 DEF OutInv
<1>7. GoodOut(b)' /\ EndInv(b)' /\ ~Running'
  BY <1>1, <1>2, <1>3, <1>4 DEF GoodOut, EndInv, Running
<1> QED
  BY <1>1, <1>2, <1>3, <1>5, <1>6, <1>7, NowAt

LEMMA PrefixFailsKeeps ==
    ASSUME ReaderInv, UNCHANGED nonce, PrefixFails
    PROVE  ReaderInv'
<1>1. /\ pc = "loop" /\ BetweenFrames
      /\ ReturnOrKeep("truncated", written)
      /\ UNCHANGED <<wire, headerOffset, frameRemaining, eof, out>>
  BY DEF PrefixFails, BetweenFrames, Looping
<1>2. PICK n \in 0..(PrefixLen - 1) :
          /\ pos + n <= Len(wire)
          /\ pos' = pos + n
          /\ header' = [i \in 1..PrefixLen |-> IF i <= n THEN wire[pos + i] ELSE header[i]]
  BY DEF PrefixFails
<1>3. TypeOK /\ OutInv /\ Framed /\ Running /\ result = "none"
  BY <1>1, InALoop DEF ReaderInv
<1>4. PICK b \in 0..Len(wire) : WholeFrames(wire, b) /\ GoodOut(b) /\ AtPrefix(b)
  BY <1>1, InALoop
<1>5. /\ pos = b /\ Len(out) = b /\ PrefixLen \in Nat \ {0}
      /\ wire \in Seq(Byte) /\ header \in Seq(Byte) /\ Len(header) = PrefixLen
  BY <1>3, <1>4, PrefixAssumption DEF AtPrefix, TypeOK
<1>6. pos' \in 0..Len(wire') /\ Len(out') <= pos'
  BY <1>1, <1>2, <1>5
<1>7. header' \in Seq(Byte) /\ Len(header') = PrefixLen
  <2>1. ASSUME NEW i \in 1..PrefixLen
        PROVE  (IF i <= n THEN wire[pos + i] ELSE header[i]) \in Byte
    <3>1. CASE i <= n
      <4>1. pos + i \in 1..Len(wire)
        BY <1>2, <1>5, <3>1
      <4> QED
        BY <1>5, <3>1, <4>1
    <3>2. CASE ~(i <= n)
      BY <1>5, <3>2
    <3> QED
      BY <3>1, <3>2
  <2>2. header' \in [1..PrefixLen -> Byte]
    BY <1>2, <2>1
  <2> QED
    BY <1>5, <2>2
<1>8. /\ want' = 0 /\ written' = 0
      /\ \/ pendingError' = "truncated" /\ result' = "none" /\ pc' = "idle"
         \/ pendingError' = pendingError /\ result' = "truncated" /\ pc' = "stopped"
  BY <1>1 DEF ReturnOrKeep, Return
<1>9. TypeOK'
  BY <1>1, <1>3, <1>6, <1>7, <1>8, ReadAssumption DEF TypeOK, Errors
<1>10. OutInv'
  BY <1>1, <1>3, <1>6, <1>8 DEF OutInv
<1>11. GoodOut(b)' /\ EndInv(b)' /\ ~Running'
  BY <1>1, <1>3, <1>4, <1>8 DEF GoodOut, EndInv, Running
<1> QED
  BY <1>1, <1>3, <1>4, <1>9, <1>10, <1>11, NowAt

LEMMA ContinueKeeps ==
    ASSUME ReaderInv, UNCHANGED nonce, Continue
    PROVE  ReaderInv' /\ Counts /\ wire' = wire /\ pc = "loop"
<1>1. wire' = wire /\ pc = "loop"
  BY DEF Continue, Full, CopyHeader, ReadBody, ReadPrefix, EndOfFrames, PrefixFails,
         BetweenFrames, Looping
<1>2. CASE CopyHeader \/ ReadBody
  BY <1>1, <1>2, CopyHeaderKeeps, ReadBodyKeeps
<1>3. CASE Full \/ ReadPrefix \/ EndOfFrames \/ PrefixFails
  <2>1. ReaderInv'
    BY <1>3, FullKeeps, ReadPrefixKeeps, EndOfFramesKeeps, PrefixFailsKeeps
  <2>2. out' = out /\ (pc' = "loop" => want' = want /\ written' = written)
    BY <1>3 DEF Full, ReadPrefix, EndOfFrames, PrefixFails, ReturnOrKeep, Return
  <2>3. Len(out) \in Nat /\ want \in Nat /\ written \in 0..want
    BY ReadAssumption DEF ReaderInv, TypeOK
  <2>4. Counts
    BY <2>2, <2>3 DEF Counts
  <2> QED
    BY <1>1, <2>1, <2>4
<1> QED
  BY <1>2, <1>3 DEF Continue

(* A body that is not framed is the source's own.                           *)
LEMMA ReadSourceKeeps ==
    ASSUME ReaderInv, ~Framed, UNCHANGED nonce, pc = "idle", NEW n \in Nat, ReadSource(n)
    PROVE  ReaderInv' /\ wire' = wire /\ pc' # "loop" /\ Len(out') \in Len(out)..(Len(out) + n)
<1>1. PICK count \in 0..MaxRead, err \in {"none", "EOF", "broken"} :
        /\ SourceRead(n, count, err)
        /\ pos' = pos + count
        /\ out' = out \o SubSeq(wire, pos + 1, pos + count)
        /\ result' = err
        /\ pc' = IF err = "none" THEN "idle" ELSE "stopped"
  BY DEF ReadSource
<1>2. UNCHANGED <<wire, header, headerOffset, frameRemaining, pendingError, eof, want, written>>
  BY DEF ReadSource, frame
<1>3. TypeOK /\ OutInv /\ UnframedInv
  BY DEF ReaderInv
<1>4. /\ count \in Nat /\ count <= n /\ pos + count <= Len(wire)
      /\ err = "EOF" => pos + count = Len(wire)
  BY <1>1, ReadAssumption DEF SourceRead
<1>5. Len(out) = pos /\ pendingError = "none" /\ ~eof /\ pos \in 0..Len(wire)
  BY <1>3 DEF UnframedInv, TypeOK
<1>6. /\ out' \in Seq(Byte) /\ Len(out') = Len(out) + count
      /\ out' = SubSeq(wire', 1, Len(out'))
  BY <1>1, <1>2, <1>4, <1>5, OutGrows
<1>7. pos' \in 0..Len(wire') /\ Len(out') = pos'
  BY <1>1, <1>2, <1>4, <1>5, <1>6
<1>8. TypeOK'
  BY <1>1, <1>2, <1>3, <1>6, <1>7 DEF TypeOK, Errors
<1>9. OutInv'
  <2>1. Len(out') <= pos' /\ out' = SubSeq(wire', 1, Len(out'))
    BY <1>6, <1>7
  <2>2. (result' = "none" <=> pc' # "stopped") /\ pc' # "loop"
    <3>1. result' = err /\ pc' = IF err = "none" THEN "idle" ELSE "stopped"
      BY <1>1
    <3> QED
      BY <3>1
  <2> QED
    BY <2>1, <2>2 DEF OutInv
<1>10. UnframedInv'
  BY <1>1, <1>2, <1>4, <1>5, <1>7 DEF UnframedInv
<1>11. FramedInv'
  BY DEF FramedInv, Framed
<1>12. pc' # "loop" /\ Len(out') \in Len(out)..(Len(out) + n)
  BY <1>1, <1>4, <1>5, <1>6
<1> QED
  BY <1>2, <1>8, <1>9, <1>10, <1>11, <1>12 DEF ReaderInv

-----------------------------------------------------------------------------
(* The bound around it, and the library that reads. *)

LEMMA Outside == GuardInv <=> /\ ReaderInv /\ ResponseTypeOK
                              /\ GivenInv /\ StageInv /\ RoomInv
BY DEF GuardInv, ReaderInv, ResponseTypeOK

LEMMA Together ==
    ASSUME ReaderInv', ResponseTypeOK', GivenInv', StageInv', RoomInv'
    PROVE  GuardInv'
BY DEF GuardInv, ReaderInv

LEMMA InitGuard == ResponseInit => GuardInv
<1> SUFFICES ASSUME ResponseInit PROVE GuardInv
  OBVIOUS
<1>1. /\ pos = 0 /\ header = ZeroHeader /\ headerOffset = 0 /\ frameRemaining = 0
      /\ pendingError = "none" /\ eof = FALSE /\ want = 0 /\ written = 0
      /\ pc = "idle" /\ out = <<>> /\ result = "none"
      /\ nonce \in Nonces /\ problem \in BOOLEAN
      /\ stage = "arrived" /\ remaining = MaxProblem /\ probing = FALSE
      /\ given = <<>> /\ verdict = "none"
  BY DEF ResponseInit, Init
<1>2. wire \in Seq(Byte)
  BY DEF ResponseInit, Init, SeqOf
<1>3. TypeOK
  <2>1. 0 \in 0..Len(wire) /\ 0 \in 0..PrefixLen /\ 0 \in Nat /\ 0 \in 0..MaxRead /\ 0 \in 0..0
    BY <1>2, PrefixAssumption, ReadAssumption
  <2>2. <<>> \in Seq(Byte)
    OBVIOUS
  <2> QED
    BY <1>1, <1>2, <2>1, <2>2, ZeroHeaderType DEF TypeOK, Errors
<1>4. ResponseTypeOK
  <2>1. MaxProblem \in 0..MaxProblem /\ <<>> \in Seq(Byte) /\ FALSE \in BOOLEAN
    BY ProblemAssumption
  <2>2. "none" \in Verdicts
    BY DEF Verdicts, Errors
  <2> QED
    BY <1>1, <1>3, <2>1, <2>2, Zenon DEF ResponseTypeOK
<1>5. <<>> = SubSeq(wire, 1, 0) /\ Len(<<>>) = 0
  BY <1>2
<1>6. OutInv
  BY <1>1, <1>5 DEF OutInv
<1>7. WholeFrames(wire, 0)
  BY <1>2, NoFrames
<1>8. GoodOut(0) /\ EndInv(0) /\ AtPrefix(0) /\ 0 \in 0..Len(wire)
  BY <1>1, <1>2, <1>5, PrefixAssumption DEF GoodOut, EndInv, AtPrefix
<1>9. FramedInv /\ UnframedInv
  BY <1>1, <1>5, <1>7, <1>8 DEF FramedInv, UnframedInv
<1>10. GivenInv /\ StageInv /\ RoomInv
  BY <1>1, <1>5, ProblemAssumption DEF GivenInv, StageInv, RoomInv
<1> QED
  BY <1>4, <1>6, <1>9, <1>10 DEF GuardInv

LEMMA RoundTripKeeps ==
    ASSUME GuardInv, RoundTrip
    PROVE  GuardInv'
<1>1. /\ UNCHANGED vars /\ UNCHANGED <<response, bound, given>>
      /\ stage = "arrived"
      /\ \/ nonce = "malformed" /\ verdict' = "nonce" /\ stage' = "over"
         \/ stage' = "open" /\ verdict' = verdict
  BY DEF RoundTrip
<1>2. ReaderInv /\ ResponseTypeOK /\ GivenInv /\ StageInv /\ RoomInv
  BY Outside
<1>3. ReaderInv'
  BY <1>1, <1>2 DEF ReaderInv, TypeOK, OutInv, FramedInv, UnframedInv, Running, GoodOut, EndInv,
                    AtPrefix, InPrefix, InBody, Framed, vars, response
<1>4. ResponseTypeOK'
  BY <1>1, <1>2, <1>3 DEF ReaderInv, ResponseTypeOK, Verdicts, response, bound
<1>5. GivenInv'
  BY <1>1, <1>2 DEF GivenInv, vars, response, bound
<1>6. given = <<>> /\ out = <<>> /\ pc = "idle"
  <2>1. out = <<>> /\ pc = "idle"
    BY <1>1, <1>2 DEF StageInv
  <2>2. given \in Seq(Byte) /\ Len(given) <= Len(out)
    BY <1>2 DEF ResponseTypeOK, GivenInv
  <2> QED
    BY <2>1, <2>2
<1>7. StageInv' /\ RoomInv'
  BY <1>1, <1>2, <1>6 DEF StageInv, RoomInv, vars, response, bound
<1> QED
  BY <1>3, <1>4, <1>5, <1>7, Together

(* A Read asks for no more than the bound leaves, but for the probe.        *)
LEMMA ReadKeeps ==
    ASSUME GuardInv, NEW n \in 1..MaxRead, Read(n)
    PROVE  GuardInv'
<1>1. /\ stage = "open" /\ stage' = "reading"
      /\ probing' = (problem /\ remaining = 0)
      /\ UNCHANGED <<nonce, problem, remaining, given, verdict>>
      /\ \/ Framed /\ Call(Asked(n))
         \/ ~Framed /\ ReadSource(Asked(n))
  BY DEF Read, response
<1>2. ReaderInv /\ ResponseTypeOK /\ GivenInv /\ StageInv
  BY Outside
<1>3. /\ remaining \in Nat /\ problem \in BOOLEAN
      /\ given = out /\ pc = "idle" /\ verdict = "none"
      /\ out \in Seq(Byte) /\ given \in Seq(Byte)
  BY <1>1, <1>2, ProblemAssumption DEF ResponseTypeOK, TypeOK, StageInv
<1>4. /\ Asked(n) \in 1..MaxRead
      /\ problem /\ remaining > 0 => Asked(n) <= remaining
  BY <1>3, ReadAssumption DEF Asked, Least
<1> DEFINE asked == Asked(n)
<1> HIDE DEF asked
<1>5. /\ ReaderInv' /\ wire' = wire
      /\ Len(out') \in Len(out)..(Len(out) + Asked(n))
      /\ pc' = "loop" => Len(out') = Len(out) /\ written' = 0 /\ want' = Asked(n)
  <2>1. CASE Framed /\ Call(Asked(n))
    <3>1. ReaderInv'
      BY <1>1, <1>2, <1>4, <2>1, CallKeeps
    <3>2. wire' = wire /\ out' = out
      BY <2>1 DEF Call
    <3>3. pc' = "loop" => written' = 0 /\ want' = Asked(n)
      BY <2>1 DEF Call, Return
    <3>4. Len(out) \in Len(out)..(Len(out) + Asked(n))
      BY <1>3, <1>4
    <3> QED
      BY <3>1, <3>2, <3>3, <3>4
  <2>2. CASE ~Framed /\ ReadSource(Asked(n))
    <3>1. Asked(n) \in Nat
      BY <1>4, ReadAssumption
    <3> QED
      BY <1>1, <1>2, <1>3, <2>2, <3>1, ReadSourceKeeps
  <2> QED
    BY <1>1, <2>1, <2>2
<1>6. ResponseTypeOK'
  BY <1>1, <1>2, <1>5 DEF ReaderInv, ResponseTypeOK
<1>7. GivenInv'
  <2>1. probing' => problem' /\ remaining' = 0
    BY <1>1, Zenon
  <2>2. Len(given) <= Len(out')
    <3>1. Len(out) \in Nat
      BY <1>3
    <3> QED
      BY <1>3, <1>4, <1>5, <3>1
  <2>3. given = SubSeq(wire, 1, Len(given)) /\ (problem => remaining + Len(given) = MaxProblem)
    BY <1>2 DEF GivenInv
  <2> QED
    BY <1>1, <1>5, <2>1, <2>2, <2>3 DEF GivenInv
<1>8. StageInv'
  BY <1>1, <1>3 DEF StageInv
<1>9. RoomInv'
  <2> SUFFICES ASSUME problem, ~probing'
               PROVE  /\ Len(out') - Len(given) <= remaining
                      /\ pc' = "loop" => Len(out') = Len(given) + written' /\ want' <= remaining
    BY <1>1 DEF RoomInv
  <2>0. remaining # 0
    BY <1>1, Zenon
  <2>1. remaining > 0
    BY <1>3, <2>0
  <2>2. Asked(n) <= remaining /\ Asked(n) \in Nat
    BY <1>4, <2>1, ReadAssumption
  <2> QED
    BY <1>3, <1>5, <2>2
<1> QED
  BY <1>5, <1>6, <1>7, <1>8, <1>9, Together

LEMMA ReadOnKeeps ==
    ASSUME GuardInv, ReadOn
    PROVE  GuardInv'
<1>1. /\ stage = "reading" /\ Continue
      /\ UNCHANGED <<nonce, problem, stage, remaining, probing, given, verdict>>
  BY DEF ReadOn, outer, response, bound
<1>2. ReaderInv /\ ResponseTypeOK /\ GivenInv /\ StageInv /\ RoomInv
  BY Outside
<1>3. ReaderInv' /\ Counts /\ wire' = wire /\ pc = "loop"
  BY <1>1, <1>2, ContinueKeeps
<1>4. /\ Len(out) \in Nat /\ Len(given) \in Nat /\ remaining \in Nat
      /\ want \in Nat /\ written \in 0..want
      /\ written' \in Nat /\ want' \in Nat /\ Len(out') \in Nat
  <2>1. /\ TypeOK /\ TypeOK'
        /\ given \in Seq(Byte) /\ remaining \in Nat
    BY <1>2, <1>3, ProblemAssumption DEF ReaderInv, ResponseTypeOK
  <2> QED
    BY <2>1, ReadAssumption DEF TypeOK
<1>5. ResponseTypeOK'
  BY <1>1, <1>2, <1>3 DEF ReaderInv, ResponseTypeOK
<1>6. Len(out) <= Len(out')
  BY <1>3, <1>4 DEF Counts
<1>7. GivenInv'
  BY <1>1, <1>2, <1>3, <1>4, <1>6 DEF GivenInv
<1>8. StageInv'
  BY <1>1, <1>2, <1>3 DEF StageInv
<1>9. RoomInv'
  <2> SUFFICES ASSUME problem, ~probing
               PROVE  /\ Len(out') - Len(given) <= remaining
                      /\ pc' = "loop" => Len(out') = Len(given) + written' /\ want' <= remaining
    BY <1>1 DEF RoomInv
  <2>1. Len(out) = Len(given) + written /\ want <= remaining
    BY <1>1, <1>2, <1>3 DEF RoomInv
  <2> QED
    BY <1>3, <1>4, <2>1 DEF Counts
<1> QED
  BY <1>3, <1>5, <1>7, <1>8, <1>9, Together

(* What the library is given when a Read returns. *)
LEMMA DeliverKeeps ==
    ASSUME GuardInv, Deliver
    PROVE  GuardInv'
<1> DEFINE count == Len(out) - Len(given)
<1>1. /\ stage = "reading" /\ pc # "loop"
      /\ \/ probing /\ verdict' = Probe(count) /\ UNCHANGED <<remaining, given>>
         \/ /\ ~probing /\ verdict' = result /\ given' = out
            /\ remaining' = IF problem THEN remaining - count ELSE remaining
      /\ stage' = IF verdict' = "none" THEN "open" ELSE "over"
      /\ UNCHANGED vars /\ UNCHANGED <<nonce, problem, probing>>
  BY DEF Deliver, response
<1>2. ReaderInv /\ ResponseTypeOK /\ GivenInv /\ StageInv /\ RoomInv
  BY Outside
<1>3. /\ out \in Seq(Byte) /\ given \in Seq(Byte) /\ wire \in Seq(Byte)
      /\ remaining \in 0..MaxProblem /\ problem \in BOOLEAN /\ probing \in BOOLEAN
      /\ pc \in {"idle", "loop", "stopped"} /\ result \in Errors
      /\ Len(given) <= Len(out) /\ given = SubSeq(wire, 1, Len(given))
      /\ Len(out) <= Len(wire) /\ out = SubSeq(wire, 1, Len(out))
      /\ result = "none" <=> pc # "stopped"
      /\ MaxProblem \in Nat
  BY <1>2, ProblemAssumption DEF ResponseTypeOK, TypeOK, GivenInv, ReaderInv, OutInv
<1>4. count \in Nat /\ Len(out) \in Nat /\ Len(given) \in Nat /\ Len(given) <= Len(out)
  <2>1. Len(out) \in Nat /\ Len(given) \in Nat /\ Len(given) <= Len(out)
    BY <1>3
  <2> QED
    BY <2>1
<1>5. ReaderInv'
  BY <1>1, <1>2 DEF ReaderInv, TypeOK, OutInv, FramedInv, UnframedInv, Running, GoodOut, EndInv,
                    AtPrefix, InPrefix, InBody, Framed, vars
<1>6. CASE probing
  <2>1. /\ verdict' = Probe(count) /\ UNCHANGED <<remaining, given, wire, out, pc, result, problem>>
    BY <1>1, <1>6 DEF vars
  <2>2. problem /\ remaining = 0 /\ Len(given) = MaxProblem
    BY <1>2, <1>3, <1>4, <1>6 DEF GivenInv
  <2>3. CASE count > 0
    <3>1. verdict' = "exceeds" /\ stage' = "over"
      BY <1>1, <2>1, <2>3 DEF Probe
    <3>2. Len(wire) > MaxProblem
      BY <1>3, <1>4, <2>2, <2>3
    <3>3. ResponseTypeOK'
      BY <1>1, <1>2, <1>5, <2>1, <3>1 DEF ReaderInv, ResponseTypeOK, Verdicts
    <3>4. GivenInv'
      BY <1>1, <1>2, <2>1 DEF GivenInv
    <3>5. StageInv' /\ RoomInv'
      BY <2>1, <2>2, <3>1, <3>2 DEF StageInv, RoomInv
    <3> QED
      BY <1>5, <3>3, <3>4, <3>5, Together
  <2>4. CASE ~(count > 0)
    <3>1. verdict' = result
      BY <2>1, <2>4 DEF Probe
    <3>2. given = out
      <4>1. Len(given) = Len(out)
        BY <1>4, <2>4
      <4> QED
        BY <1>3, <4>1
    <3>3. stage' \in {"open", "over"} /\ (stage' = "open" => result = "none")
          /\ (stage' # "over" => verdict' = "none")
      BY <1>1, <3>1
    <3>4. ResponseTypeOK'
      BY <1>1, <1>2, <1>3, <1>5, <2>1, <3>1, <3>3 DEF ReaderInv, ResponseTypeOK, Verdicts
    <3>5. GivenInv'
      BY <1>1, <1>2, <2>1 DEF GivenInv
    <3>6. StageInv' /\ RoomInv'
      BY <1>1, <1>3, <2>1, <3>1, <3>2, <3>3 DEF StageInv, RoomInv, Errors
    <3> QED
      BY <1>5, <3>4, <3>5, <3>6, Together
  <2> QED
    BY <2>3, <2>4
<1>7. CASE ~probing
  <2>1. /\ verdict' = result /\ given' = out
        /\ remaining' = IF problem THEN remaining - count ELSE remaining
        /\ UNCHANGED <<wire, out, pc, result, problem, probing>>
    BY <1>1, <1>7 DEF vars
  <2>2. stage' \in {"open", "over"} /\ (stage' = "open" => result = "none")
        /\ (stage' # "over" => verdict' = "none")
    BY <1>1, <2>1
  <2>3. /\ remaining' \in 0..MaxProblem
        /\ problem => remaining' + Len(given') = MaxProblem
    <3>1. CASE problem
      <4>1. count <= remaining /\ remaining + Len(given) = MaxProblem
        BY <1>1, <1>2, <1>7, <3>1 DEF RoomInv, GivenInv
      <4> QED
        BY <1>3, <1>4, <2>1, <3>1, <4>1
    <3>2. CASE ~problem
      BY <1>3, <2>1, <3>2
    <3> QED
      BY <3>1, <3>2
  <2>4. ResponseTypeOK'
    BY <1>1, <1>2, <1>3, <1>5, <2>1, <2>2, <2>3 DEF ReaderInv, ResponseTypeOK, Verdicts
  <2>5. GivenInv'
    <3>1. Len(given') <= Len(out') /\ given' = SubSeq(wire', 1, Len(given')) /\ ~probing'
      BY <1>3, <1>4, <1>7, <2>1
    <3> QED
      BY <2>1, <2>3, <3>1 DEF GivenInv
  <2>6. StageInv' /\ RoomInv'
    BY <1>1, <1>3, <2>1, <2>2 DEF StageInv, RoomInv, Errors
  <2> QED
    BY <1>5, <2>4, <2>5, <2>6, Together
<1> QED
  BY <1>3, <1>6, <1>7

LEMMA StepGuard == GuardInv /\ [ResponseNext]_<<vars, outer>> => GuardInv'
<1> SUFFICES ASSUME GuardInv, [ResponseNext]_<<vars, outer>> PROVE GuardInv'
  OBVIOUS
<1>1. CASE RoundTrip
  BY <1>1, RoundTripKeeps
<1>2. CASE \E n \in 1..MaxRead : Read(n)
  BY <1>2, ReadKeeps
<1>3. CASE ReadOn
  BY <1>3, ReadOnKeeps
<1>4. CASE Deliver
  BY <1>4, DeliverKeeps
<1>5. CASE UNCHANGED <<vars, outer>>
  <2>1. UNCHANGED vars /\ UNCHANGED outer
    BY <1>5
  <2>2. ReaderInv /\ ResponseTypeOK /\ GivenInv /\ StageInv /\ RoomInv
    BY Outside
  <2>3. ReaderInv'
    BY <2>1, <2>2 DEF ReaderInv, TypeOK, OutInv, FramedInv, UnframedInv, Running, GoodOut, EndInv,
                      AtPrefix, InPrefix, InBody, Framed, vars, outer, response
  <2>4. ResponseTypeOK'
    BY <2>1, <2>2, <2>3 DEF ReaderInv, ResponseTypeOK, outer, response, bound
  <2>5. GivenInv' /\ StageInv' /\ RoomInv'
    BY <2>1, <2>2 DEF GivenInv, StageInv, RoomInv, vars, outer, response, bound
  <2> QED
    BY <2>3, <2>4, <2>5, Together
<1> QED
  BY <1>1, <1>2, <1>3, <1>4, <1>5 DEF ResponseNext

LEMMA GuardInvariant == ResponseSpec => []GuardInv
BY InitGuard, StepGuard, PTL DEF ResponseSpec

-----------------------------------------------------------------------------
(* The theorems. *)

(* The fields of the readers keep their types: frameRemaining is never      *)
(* negative, headerOffset never passes the prefix, written never passes the *)
(* destination, remaining never falls below zero.                           *)
THEOREM GuardTypes == ResponseSpec => []ResponseTypeOK
<1>1. GuardInv => ResponseTypeOK
  BY DEF GuardInv
<1> QED
  BY <1>1, GuardInvariant, PTL

(* The EHBP library gets a part of what the Gateway sent, from its first    *)
(* byte on and with nothing left out, changed or repeated.                  *)
THEOREM GivesTheWire == ResponseSpec => []Unchanged
<1>1. GuardInv => Unchanged
  <2> SUFFICES ASSUME GuardInv PROVE Unchanged
    OBVIOUS
  <2>1. /\ given \in Seq(Byte) /\ wire \in Seq(Byte)
        /\ Len(given) <= Len(wire) /\ given = SubSeq(wire, 1, Len(given))
    <3>1. /\ given \in Seq(Byte) /\ wire \in Seq(Byte) /\ out \in Seq(Byte)
          /\ Len(given) <= Len(out) /\ Len(out) <= pos /\ pos \in 0..Len(wire)
          /\ given = SubSeq(wire, 1, Len(given))
      BY DEF GuardInv, ResponseTypeOK, TypeOK, GivenInv, OutInv
    <3> QED
      BY <3>1
  <2>2. SubSeq(given, 1, Len(given)) = given
    BY <2>1
  <2> QED
    BY <2>1, <2>2 DEF Unchanged, IsPrefix
<1> QED
  BY <1>1, GuardInvariant, PTL

(* No zero or oversized frame reaches the library, not even its prefix.     *)
THEOREM GivesGoodFrames == ResponseSpec => []OnlyGoodFrames
<1>1. GuardInv => OnlyGoodFrames
  <2> SUFFICES ASSUME GuardInv, Framed
               PROVE  \A i \in Starts(given) :
                         i + PrefixLen <= Len(given) => FrameAt(given, i) \in 1..MaxFrame
    BY DEF OnlyGoodFrames
  <2>1. /\ given \in Seq(Byte) /\ wire \in Seq(Byte) /\ out \in Seq(Byte)
        /\ Len(given) <= Len(out) /\ Len(out) <= pos /\ pos \in 0..Len(wire)
        /\ given = SubSeq(wire, 1, Len(given))
    BY DEF GuardInv, ResponseTypeOK, TypeOK, GivenInv, OutInv
  <2>2. PICK b \in 0..Len(wire) : WholeFrames(wire, b) /\ GoodOut(b)
    BY DEF GuardInv, FramedInv
  <2> DEFINE k == Len(given)
  <2>3. k \in 0..Len(wire) /\ given = SubSeq(wire, 1, k)
    BY <2>1
  <2>4. k >= b + PrefixLen =>
           FrameAt(wire, b) \in 1..MaxFrame /\ k <= b + PrefixLen + FrameAt(wire, b)
    <3> SUFFICES ASSUME k >= b + PrefixLen
                 PROVE  FrameAt(wire, b) \in 1..MaxFrame /\ k <= b + PrefixLen + FrameAt(wire, b)
      OBVIOUS
    <3>1. Len(out) >= b + PrefixLen
      BY <2>1, PrefixAssumption
    <3>2. FrameAt(wire, b) \in 1..MaxFrame /\ Len(out) <= b + PrefixLen + FrameAt(wire, b)
      BY <2>2, <3>1 DEF GoodOut
    <3> QED
      BY <2>1, <3>2, PrefixAssumption, FrameAssumption
  <2> HIDE DEF k
  <2>5. \A i \in Starts(SubSeq(wire, 1, k)) :
           i + PrefixLen <= k => FrameAt(SubSeq(wire, 1, k), i) \in 1..MaxFrame
    <3>1. b \in Nat
      OBVIOUS
    <3> QED
      BY <2>1, <2>2, <2>3, <2>4, <3>1, GoodPart
  <2> QED
    BY <2>3, <2>5 DEF k
<1> QED
  BY <1>1, GuardInvariant, PTL

(* A clean end is the end of all that was sent, at the end of a frame.      *)
THEOREM CleanEndComplete == ResponseSpec => []CleanEndIsComplete
<1>1. GuardInv => CleanEndIsComplete
  <2> SUFFICES ASSUME GuardInv, verdict = "EOF"
               PROVE  given = wire /\ (Framed => Len(given) \in Starts(given))
    BY DEF CleanEndIsComplete
  <2>1. given = out /\ result = "EOF"
    BY DEF GuardInv, StageInv
  <2>2. wire \in Seq(Byte) /\ out = SubSeq(wire, 1, Len(out))
    BY DEF GuardInv, ResponseTypeOK, TypeOK, OutInv
  <2>3. SubSeq(wire, 1, Len(wire)) = wire
    BY <2>2
  <2>4. CASE Framed
    <3>1. PICK b \in 0..Len(wire) : WholeFrames(wire, b) /\ EndInv(b)
      BY <2>4 DEF GuardInv, FramedInv
    <3>2. b = Len(wire) /\ Len(out) = Len(wire)
      BY <2>1, <3>1 DEF EndInv
    <3>3. given = wire
      BY <2>1, <2>2, <2>3, <3>2
    <3>4. Len(wire) \in Starts(wire)
      BY <3>1, <3>2 DEF WholeFrames, Starts
    <3> QED
      BY <3>3, <3>4
  <2>5. CASE ~Framed
    <3>1. Len(out) = Len(wire)
      BY <2>1, <2>5 DEF GuardInv, UnframedInv
    <3> QED
      BY <2>1, <2>2, <2>3, <2>5, <3>1
  <2> QED
    BY <2>4, <2>5
<1> QED
  BY <1>1, GuardInvariant, PTL

(* What is refused had to be, and all in front of it has been given.        *)
THEOREM RefusesOnlyTheBad == ResponseSpec => []ErrorsAreDeserved
<1>1. GuardInv => ErrorsAreDeserved
  <2> SUFFICES ASSUME GuardInv PROVE ErrorsAreDeserved
    OBVIOUS
  <2>1. verdict = "exceeds" => problem /\ Len(given) = MaxProblem /\ Len(wire) > MaxProblem
    BY DEF GuardInv, StageInv
  <2>2. ASSUME verdict \in {"zero", "oversized"}
        PROVE  \E i \in Starts(wire) :
                  /\ i + PrefixLen <= Len(wire)
                  /\ given = SubSeq(wire, 1, i)
                  /\ FrameAt(wire, i) \notin 1..MaxFrame
                  /\ verdict = "zero" <=> FrameAt(wire, i) = 0
    <3>1. given = out /\ verdict = result
      BY <2>2 DEF GuardInv, StageInv
    <3>2. Framed
      BY <2>2, <3>1 DEF GuardInv, UnframedInv
    <3>3. PICK b \in 0..Len(wire) : WholeFrames(wire, b) /\ EndInv(b)
      BY <3>2 DEF GuardInv, FramedInv
    <3>4. /\ Len(out) = b /\ b + PrefixLen <= Len(wire)
          /\ FrameAt(wire, b) \notin 1..MaxFrame
          /\ verdict = "zero" <=> FrameAt(wire, b) = 0
      BY <2>2, <3>1, <3>3 DEF EndInv
    <3>5. given = SubSeq(wire, 1, b)
      BY <3>1, <3>4 DEF GuardInv, OutInv
    <3>6. b \in Starts(wire)
      <4>1. wire \in Seq(Byte)
        BY DEF GuardInv, ResponseTypeOK, TypeOK
      <4>2. Len(wire) \in Nat /\ Len(wire) \in b..Len(wire)
        BY <4>1
      <4>3. Reached(wire)[b] \subseteq Reached(wire)[Len(wire)]
        BY <4>2, ReachedGrows
      <4> QED
        BY <3>3, <4>3 DEF WholeFrames, Starts
    <3> QED
      BY <3>4, <3>5, <3>6
  <2> QED
    BY <2>1, <2>2 DEF ErrorsAreDeserved
<1> QED
  BY <1>1, GuardInvariant, PTL

=============================================================================
