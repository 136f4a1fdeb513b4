------------------------- MODULE TcpConnection_proofs --------------------------
(***************************************************************************)
(* Theorems about the framing of the TCP transport, for every stream of    *)
(* bytes, every way to cut it and every size of buffer and frame.          *)
(***************************************************************************)
EXTENDS TcpConnection, FiniteSetTheorems, SequenceTheorems, WellFoundedInduction, TLAPS

\* A set of numbers that is not empty has a least member.
LEMMA LeastMember ==
  ASSUME NEW U, U \subseteq Nat, U # {}
  PROVE  \E x \in U : \A y \in U : x <= y
PROOF
<1>0. U \subseteq Nat /\ U # {}
  OBVIOUS
<1>1. PICK x \in U : \A y \in U : ~(<<y, x>> \in OpToRel(<, Nat))
  BY <1>0, NatLessThanWellFounded, WFMin
<1>2. \A y \in U : x <= y
  <2>1. SUFFICES ASSUME NEW y \in U, ~(x <= y) PROVE FALSE
    OBVIOUS
  <2>2. x \in Nat /\ y \in Nat
    OBVIOUS
  <2>3. y < x
    BY <2>1, <2>2
  <2>4. <<y, x>> \in OpToRel(<, Nat)
    BY <2>2, <2>3 DEF OpToRel
  <2> QED
    BY <1>1, <2>4
<1> QED
  BY <1>2

\* The buffer is the piece of the stream between pos and filled.
LEMMA AvailableIsInput ==
  ASSUME TcpTypeOK
  PROVE  /\ available \in Seq(Byte)
         /\ Len(available) = filled - pos
         /\ DOMAIN available = 1 .. filled - pos
         /\ \A i \in 1 .. filled - pos : available[i] = input[pos + i]
PROOF
<1>1. /\ input \in Seq(Byte) /\ pos \in Nat /\ filled \in Nat
      /\ pos <= filled /\ filled <= Len(input)
  BY DEF TcpTypeOK
<1>2. \A i \in pos + 1 .. filled : input[i] \in Byte
  BY <1>1
<1>3. /\ available \in Seq(Byte)
      /\ Len(available) = (IF pos + 1 <= filled THEN filled - (pos + 1) + 1 ELSE 0)
      /\ \A i \in 1 .. filled - (pos + 1) + 1 : available[i] = input[pos + 1 + i - 1]
  BY <1>1, <1>2, SubSeqProperties DEF available
<1> QED
  BY <1>1, <1>3

\* newline is the place of the first LF in it.
LEMMA NewlineIsFirst ==
  ASSUME TcpTypeOK
  PROVE  /\ newline \in 0 .. filled - pos
         /\ newline # 0 => input[pos + newline] = LF
         /\ \A i \in 1 .. filled - pos :
              (newline = 0 \/ i < newline) => input[pos + i] # LF
PROOF
<1>1. /\ DOMAIN available = 1 .. filled - pos
      /\ \A i \in 1 .. filled - pos : available[i] = input[pos + i]
      /\ filled - pos \in Nat
  BY AvailableIsInput DEF TcpTypeOK
<1> DEFINE U == {i \in DOMAIN available : available[i] = LF}
<1>2. CASE U = {}
  <2>1. newline = 0
    BY <1>2 DEF newline
  <2> QED
    BY <1>1, <1>2, <2>1
<1>3. CASE U # {}
  <2>0. U \subseteq Nat
    BY <1>1
  <2> HIDE DEF U
  <2>1. PICK x \in U : \A y \in U : x <= y
    BY <2>0, <1>3, LeastMember
  <2> USE DEF U
  <2>2. x \in DOMAIN available /\ available[x] = LF
        /\ \A j \in 1 .. x - 1 : available[j] # LF
    BY <1>1, <2>1
  <2>3. /\ newline \in DOMAIN available /\ available[newline] = LF
        /\ \A j \in 1 .. newline - 1 : available[j] # LF
    BY <2>2 DEF newline
  <2> QED
    BY <1>1, <2>3
<1> QED
  BY <1>2, <1>3

-----------------------------------------------------------------------------
\* What is stripped from a sequence is a CR at its end, and only that.
LEMMA WithoutCRStrips ==
  ASSUME NEW s \in Seq(Byte), TcpAssumption
  PROVE  /\ WithoutCR(s) \in Seq(Byte)
         /\ Len(WithoutCR(s)) <= Len(s)
         /\ WithoutCR(s) \o (IF HasCR(s) THEN <<CR>> ELSE << >>) = s
PROOF
<1>1. CASE HasCR(s)
  <2>1. s # << >> /\ s[Len(s)] = CR /\ WithoutCR(s) = SubSeq(s, 1, Len(s) - 1)
    BY <1>1 DEF HasCR, WithoutCR
  <2>2. Len(s) \in 1 .. Len(s)
    BY <2>1, EmptySeq
  <2>3. SubSeq(s, 1, Len(s)) = SubSeq(s, 1, Len(s) - 1) \o <<s[Len(s)]>>
    BY <2>2, SubSeqRecursiveSecond
  <2>4. /\ SubSeq(s, 1, Len(s) - 1) \in Seq(Byte)
        /\ Len(SubSeq(s, 1, Len(s) - 1)) <= Len(s)
    BY <2>2
  <2> QED
    BY <1>1, <2>1, <2>3, <2>4, SubSeqFull
<1>2. CASE ~HasCR(s)
  BY <1>2, ConcatEmptySeq DEF WithoutCR
<1> QED
  BY <1>1, <1>2

\* Concatenation of byte sequences is associative.
LEMMA BytesAssociate ==
  \A s, t, u \in Seq(Byte) : (s \o t) \o u = s \o (t \o u)
PROOF
<1> SUFFICES ASSUME NEW s \in Seq(Byte), NEW t \in Seq(Byte), NEW u \in Seq(Byte)
             PROVE  (s \o t) \o u = s \o (t \o u)
  OBVIOUS
<1> QED
  OBVIOUS

\* The end of a concatenation is the end of its second part.
LEMMA WithoutCROfConcat ==
  ASSUME NEW s \in Seq(Byte), NEW t \in Seq(Byte), t # << >>, TcpAssumption
  PROVE  /\ HasCR(s \o t) <=> HasCR(t)
         /\ WithoutCR(s \o t) = s \o WithoutCR(t)
PROOF
<1>1. /\ s \o t \in Seq(Byte) /\ Len(s \o t) = Len(s) + Len(t)
      /\ Len(s) \in Nat /\ Len(t) \in Nat /\ Len(t) # 0
      /\ (s \o t)[Len(s) + Len(t)] = t[Len(t)]
  <2>1. Len(s) \in Nat /\ Len(t) \in Nat /\ Len(t) # 0
    BY EmptySeq
  <2> QED
    BY <2>1, ConcatProperties
<1>2. HasCR(s \o t) <=> HasCR(t)
  BY <1>1 DEF HasCR
<1>3. CASE HasCR(t)
  <2> DEFINE u == WithoutCR(s \o t)
             v == WithoutCR(t)
             c == <<CR>>
  <2>1. u \in Seq(Byte) /\ u \o c = s \o t
    BY <1>1, <1>2, <1>3, WithoutCRStrips
  <2>2. v \in Seq(Byte) /\ v \o c = t
    BY <1>3, WithoutCRStrips
  <2>3. c \in Seq(Byte)
    BY DEF TcpAssumption
  <2> HIDE DEF u, v, c
  <2>4. (s \o v) \o c = s \o (v \o c)
    BY <2>2, <2>3, BytesAssociate, ZenonT(30)
  <2>5. u \o c = (s \o v) \o c /\ s \o v \in Seq(Byte)
    BY <2>1, <2>2, <2>4, ConcatProperties
  <2>6. u = s \o v
    BY <2>1, <2>3, <2>5, ConcatSimplifications
  <2> QED
    BY <1>2, <2>6 DEF u, v
<1>4. CASE ~HasCR(t)
  BY <1>2, <1>4 DEF WithoutCR
<1> QED
  BY <1>2, <1>3, <1>4

\* The bytes of the stream since the start of the frame, continued.
LEMMA SinceGrows ==
  ASSUME TcpTypeOK, NEW n \in pos .. Len(input)
  PROVE  /\ Since(pos) \o SubSeq(input, pos + 1, n) = Since(n)
         /\ Since(n) \in Seq(Byte) /\ SubSeq(input, pos + 1, n) \in Seq(Byte)
         /\ Len(SubSeq(input, pos + 1, n)) = n - pos
PROOF
<1>1. /\ input \in Seq(Byte) /\ Len(input) \in Nat /\ start \in Nat /\ pos \in Nat
      /\ start <= pos /\ pos <= n /\ n \in Nat /\ n <= Len(input)
  BY DEF TcpTypeOK
<1>2. Since(pos) \o SubSeq(input, pos + 1, n) = Since(n)
  BY <1>1, ConcatAdjacentSubSeq DEF Since
<1>3. /\ SubSeq(input, pos + 1, n) \in Seq(Byte)
      /\ Len(SubSeq(input, pos + 1, n)) = n - pos
  BY <1>1
<1>4. Since(n) \in Seq(Byte)
  BY <1>1 DEF Since
<1> QED
  BY <1>2, <1>3, <1>4

\* The share of the buffer that belongs to the frame ends where the LF, or the
\* buffer, does.
ShareEnd == IF newline = 0 THEN filled ELSE pos + newline - 1

LEMMA SegmentIsInput ==
  ASSUME TcpTypeOK
  PROVE  /\ ShareEnd \in pos .. filled /\ filled <= Len(input)
         /\ segment = SubSeq(input, pos + 1, ShareEnd)
         /\ \A i \in pos + 1 .. ShareEnd : input[i] # LF
PROOF
<1>1. /\ input \in Seq(Byte) /\ Len(input) \in Nat /\ pos \in Nat /\ filled \in Nat
      /\ pos <= filled /\ filled <= Len(input)
  BY DEF TcpTypeOK
<1>2. newline \in 0 .. filled - pos
  BY NewlineIsFirst
<1>3. ShareEnd \in pos .. filled
  BY <1>1, <1>2 DEF ShareEnd
<1>4. segment = SubSeq(available, 1, ShareEnd - pos)
  BY <1>1, <1>2, AvailableIsInput DEF segment, ShareEnd
<1>5. SubSeq(available, 1, ShareEnd - pos) = SubSeq(input, pos + 1, ShareEnd)
  BY <1>1, <1>3 DEF available
<1>6. \A i \in pos + 1 .. ShareEnd : input[i] # LF
  <2> SUFFICES ASSUME NEW i \in pos + 1 .. ShareEnd
               PROVE  input[i] # LF
    OBVIOUS
  <2>1. /\ i - pos \in 1 .. filled - pos /\ pos + (i - pos) = i
        /\ newline = 0 \/ i - pos < newline
    BY <1>1, <1>2, <1>3 DEF ShareEnd
  <2>2. input[pos + (i - pos)] # LF
    BY <2>1, NewlineIsFirst
  <2> QED
    BY <2>1, <2>2
<1> QED
  BY <1>1, <1>3, <1>4, <1>5, <1>6

-----------------------------------------------------------------------------
TcpInv == TcpTypeOK /\ FrameIsBounded /\ FrameLosesNothing

\* What Scan makes of the frame: all bytes since its start, less a CR at the end.
LEMMA GrownIsExact ==
  ASSUME TcpAssumption, TcpInv, pc = "read", pos < filled,
         ~(pending /\ newline = 1)
  PROVE  /\ Grown = WithoutCR(Since(ShareEnd)) /\ Grown \in Seq(Byte)
         /\ NoLF(ShareEnd)
         /\ segment = << >> => Grown = frame
         /\ newline = 0 =>
              /\ Grown \o (IF HasCR(segment) THEN <<CR>> ELSE << >>) = Since(filled)
              /\ HasCR(Grown) => HasCR(segment)
PROOF
<1>1. /\ frame \in Seq(Byte) /\ pos \in Nat /\ filled \in Nat /\ start \in Nat
      /\ start <= pos /\ TcpTypeOK
      /\ frame \o Deferred = Since(pos) /\ NoLF(pos) /\ (HasCR(frame) => pending)
  BY DEF TcpInv, TcpTypeOK, FrameLosesNothing
<1>2. /\ ShareEnd \in pos .. filled /\ filled <= Len(input)
      /\ segment = SubSeq(input, pos + 1, ShareEnd)
      /\ \A i \in pos + 1 .. ShareEnd : input[i] # LF
  BY <1>1, SegmentIsInput
<1>3. /\ Since(pos) \o segment = Since(ShareEnd) /\ segment \in Seq(Byte)
      /\ Since(ShareEnd) \in Seq(Byte) /\ Len(segment) = ShareEnd - pos
  <2>1. ShareEnd \in pos .. Len(input)
    BY <1>1, <1>2 DEF TcpTypeOK
  <2> QED
    BY <1>1, <1>2, <2>1, SinceGrows
<1>4. NoLF(ShareEnd)
  BY <1>1, <1>2 DEF NoLF
<1>5. Deferred \in Seq(Byte) /\ Since(pos) \in Seq(Byte)
  <2>1. Deferred \in Seq(Byte)
    BY DEF Deferred, TcpAssumption
  <2> QED
    BY <1>1, <2>1, ConcatProperties
<1>6. Grown = Since(pos) \o WithoutCR(segment)
  BY <1>1 DEF Grown
<1>7. CASE segment = << >>
  <2>1. newline = 1 /\ ShareEnd = pos
    <3>1. newline \in 0 .. filled - pos
      BY <1>1, NewlineIsFirst
    <3> QED
      BY <1>1, <1>3, <1>7, <3>1 DEF ShareEnd
  <2>2. ~pending /\ Deferred = << >>
    BY <2>1 DEF Deferred
  <2>3. Since(pos) = frame /\ ~HasCR(frame)
    BY <1>1, <2>2, ConcatEmptySeq
  <2>4. WithoutCR(segment) = << >>
    BY <1>7 DEF WithoutCR, HasCR
  <2>5. Grown = frame
    BY <1>1, <1>6, <2>3, <2>4, ConcatEmptySeq
  <2> QED
    BY <1>1, <1>4, <2>1, <2>3, <2>5 DEF WithoutCR
<1>8. CASE segment # << >>
  <2>1. WithoutCR(Since(ShareEnd)) = Grown /\ (HasCR(Since(ShareEnd)) <=> HasCR(segment))
    <3> DEFINE a == Since(pos)
               b == segment
    <3>1. a \in Seq(Byte) /\ b \in Seq(Byte) /\ b # << >>
      BY <1>3, <1>5, <1>8
    <3>2. a \o b = Since(ShareEnd) /\ Grown = a \o WithoutCR(b)
      BY <1>3, <1>6
    <3> HIDE DEF a, b
    <3>3. (HasCR(a \o b) <=> HasCR(b)) /\ WithoutCR(a \o b) = a \o WithoutCR(b)
      BY <3>1, WithoutCROfConcat
    <3> QED
      BY <3>2, <3>3 DEF b
  <2>2. /\ Grown \in Seq(Byte)
        /\ Grown \o (IF HasCR(segment) THEN <<CR>> ELSE << >>) = Since(ShareEnd)
    BY <1>3, <2>1, WithoutCRStrips
  <2>3. ~HasCR(segment) => ~HasCR(Grown)
    BY <2>1 DEF WithoutCR
  <2>4. newline = 0 => ShareEnd = filled
    BY DEF ShareEnd
  <2> QED
    BY <1>4, <1>8, <2>1, <2>2, <2>3, <2>4
<1> QED
  BY <1>7, <1>8

\* A verdict changes nothing but what it is about.
LEMMA GiveKeepsTcpInv ==
  ASSUME TcpInv, NEW verdict \in Verdicts, NEW text \in Seq(Byte),
         NEW consumed \in pos .. filled, Give(verdict, text, consumed)
  PROVE  TcpInv'
PROOF
<1>1. lines' \in Seq([verdict : Verdicts, text : Seq(Byte)])
  BY DEF TcpInv, TcpTypeOK, Give
<1> QED
  BY <1>1 DEF TcpInv, TcpTypeOK, FrameIsBounded, FrameLosesNothing, Give, Verdicts

LEMMA StepsKeepTcpInv ==
  ASSUME TcpAssumption, TcpInv, [TcpNext]_vars
  PROVE  TcpInv'
PROOF
<1>0. /\ pos \in Nat /\ filled \in Nat /\ pos <= filled
      /\ frame \in Seq(Byte) /\ frame \o Deferred \in Seq(Byte)
      /\ << >> \in Seq(Byte) /\ "too_large" \in Verdicts
      /\ \A f : Verdict(f) \in Verdicts
      /\ pos \in pos .. filled
      /\ lines \in Seq([verdict : Verdicts, text : Seq(Byte)]) /\ acks \in Seq(Verdicts)
  <2>1. frame \in Seq(Byte) /\ Deferred \in Seq(Byte) /\ << >> \in Seq(Byte)
    BY DEF TcpInv, TcpTypeOK, Deferred, TcpAssumption
  <2>2. frame \o Deferred \in Seq(Byte)
    BY <2>1, ConcatProperties
  <2> QED
    BY <2>1, <2>2 DEF TcpInv, TcpTypeOK, Verdict, Verdicts
<1>1. CASE Fill
  <2>1. filled' \in Nat /\ pos <= filled' /\ filled' <= Len(input)
    BY <1>0, <1>1 DEF Fill, TcpAssumption
  <2>2. UNCHANGED <<input, pos, start, frame, pending, pc, lines, acks>>
    BY <1>1 DEF Fill
  <2> QED
    BY <2>1, <2>2 DEF TcpInv, TcpTypeOK, FrameIsBounded, FrameLosesNothing, Since,
       NoLF, Deferred
<1>2. CASE ScanSplitDelimiter
  <2>1. pos + 1 \in pos .. filled /\ Give(Verdict(frame), frame, pos + 1)
    BY <1>0, <1>2 DEF ScanSplitDelimiter
  <2> QED
    BY <1>0, <2>1, GiveKeepsTcpInv
<1>3. CASE Scan
  <2>1. pc = "read" /\ pos < filled /\ ~(pending /\ newline = 1)
    BY <1>3 DEF Scan, ScanAs
  <2>2. CASE Len(Grown) > MaxFrame
    <3>1. Give("too_large", << >>, pos)
      BY <1>3, <2>2 DEF Scan, ScanAs, TooLarge
    <3> QED
      BY <1>0, <3>1, GiveKeepsTcpInv
  <2>3. CASE Len(Grown) <= MaxFrame /\ newline # 0
    <3>1. pos + newline \in pos .. filled
      BY <1>0, NewlineIsFirst DEF TcpInv
    <3>2. Give(Verdict(Grown), Grown, pos + newline)
      <4>1. ~(Len(Grown) > MaxFrame)
        <5>1. Len(Grown) \in Nat /\ MaxFrame \in Nat
          BY <2>1, GrownIsExact DEF TcpAssumption
        <5> QED
          BY <2>3, <5>1
      <4> QED
        BY <1>3, <2>3, <4>1 DEF Scan, ScanAs
    <3> QED
      <4>1. Grown \in Seq(Byte)
        BY <2>1, GrownIsExact
      <4> QED
        BY <1>0, <3>1, <3>2, <4>1, GiveKeepsTcpInv
  <2>4. CASE ~(Len(Grown) > MaxFrame) /\ newline = 0
    <3>1. /\ frame' = Grown /\ pending' = HasCR(segment) /\ pos' = filled
          /\ UNCHANGED <<input, filled, start, pc, lines, acks>>
      BY <1>3, <2>4 DEF Scan, ScanAs
    <3>2. /\ Grown \in Seq(Byte) /\ NoLF(filled)
          /\ Grown \o (IF HasCR(segment) THEN <<CR>> ELSE << >>) = Since(filled)
          /\ HasCR(Grown) => HasCR(segment)
      BY <2>1, <2>4, GrownIsExact DEF ShareEnd
    <3>3. TcpTypeOK'
      BY <1>0, <3>1, <3>2 DEF TcpInv, TcpTypeOK, HasCR
    <3>4. FrameIsBounded'
      <4>1. Len(Grown) \in Nat /\ MaxFrame \in Nat
        BY <3>2 DEF TcpAssumption
      <4> QED
        BY <2>4, <3>1, <4>1 DEF FrameIsBounded
    <3>5. FrameLosesNothing'
      BY <3>1, <3>2 DEF FrameLosesNothing, Deferred, Since, NoLF, HasCR
    <3> QED
      BY <3>3, <3>4, <3>5 DEF TcpInv
  <2> QED
    <3>1. Len(Grown) \in Nat /\ MaxFrame \in Nat
      BY <2>1, GrownIsExact DEF TcpAssumption
    <3> QED
      BY <2>2, <2>3, <2>4, <3>1
<1>4. CASE EndOfInput
  <2> DEFINE rest == frame \o Deferred
  <2>1. CASE Len(rest) > MaxFrame
    <3>1. Give("too_large", << >>, pos)
      BY <1>4, <2>1 DEF EndOfInput, TooLarge
    <3> QED
      BY <1>0, <3>1, GiveKeepsTcpInv
  <2>2. CASE ~(Len(rest) > MaxFrame) /\ rest = << >>
    BY <1>4, <2>2
       DEF EndOfInput, TcpInv, TcpTypeOK, FrameIsBounded, FrameLosesNothing
  <2>3. CASE ~(Len(rest) > MaxFrame) /\ rest # << >>
    <3>1. Give(Verdict(rest), rest, pos)
      BY <1>4, <2>3 DEF EndOfInput
    <3> QED
      BY <1>0, <3>1, GiveKeepsTcpInv
  <2> QED
    BY <2>1, <2>2, <2>3
<1>5. ASSUME NextFrame, acks' \in Seq(Verdicts)
      PROVE  TcpInv'
  <2>1. TcpTypeOK'
    <3>1. << >> \in Seq(Byte)
      OBVIOUS
    <3>2. /\ input \in Seq(Byte) /\ filled <= Len(input)
          /\ pos \in Nat /\ filled \in Nat /\ pos <= filled
          /\ lines \in Seq([verdict : Verdicts, text : Seq(Byte)])
      BY DEF TcpInv, TcpTypeOK
    <3>3. /\ input' = input /\ lines' = lines /\ filled' = filled /\ pos' = pos /\ start' = pos
          /\ frame' = << >> /\ pending' = FALSE /\ pc' = "read"
      BY <1>5 DEF NextFrame
    <3>4. pos <= pos
      BY <3>2
    <3> QED
      BY <1>5, <3>1, <3>2, <3>3, <3>4 DEF TcpTypeOK
  <2>2. FrameIsBounded'
    BY <1>5 DEF FrameIsBounded, NextFrame, TcpAssumption
  <2>3. FrameLosesNothing'
    <3>1. /\ frame' = << >> /\ pending' = FALSE /\ start' = pos /\ pos' = pos
          /\ input' = input
      BY <1>5 DEF NextFrame
    <3>2. SubSeq(input, pos + 1, pos) = << >>
      BY <1>0, SubSeqEmpty
    <3> QED
      BY <1>0, <3>1, <3>2 DEF FrameLosesNothing, Deferred, Since, NoLF, HasCR
  <2> QED
    BY <2>1, <2>2, <2>3 DEF TcpInv
<1>6. CASE SkipBlank \/ Answer
  <2>1. NextFrame
    BY <1>6 DEF SkipBlank, Answer
  <2>2. acks' \in Seq(Verdicts)
    <3>1. CASE SkipBlank
      BY <1>0, <3>1 DEF SkipBlank
    <3>2. CASE Answer
      <4>1. pc \in Verdicts /\ acks' = Append(acks, pc)
        BY <3>2 DEF Answer, Verdicts
      <4> QED
        BY <1>0, <4>1
    <3> QED
      BY <1>6, <3>1, <3>2
  <2> QED
    BY <1>5, <2>1, <2>2
<1>7. CASE Refuse \/ Fail
  <2>1. acks' \in Seq(Verdicts) /\ pc' \in {"end", "lost"}
    <3>1. CASE Refuse
      <4>1. pc \in Verdicts /\ acks' = Append(acks, pc) /\ pc' = "end"
        BY <3>1 DEF Refuse, Verdicts
      <4> QED
        BY <1>0, <4>1
    <3>2. CASE Fail
      BY <1>0, <3>2 DEF Fail
    <3> QED
      BY <1>7, <3>1, <3>2
  <2> QED
    BY <1>7, <2>1 DEF TcpInv, TcpTypeOK, FrameIsBounded, FrameLosesNothing, Refuse, Fail
<1>8. CASE UNCHANGED vars
  BY <1>8 DEF TcpInv, TcpTypeOK, FrameIsBounded, FrameLosesNothing, vars, Since,
     NoLF, Deferred
<1> QED
  BY <1>1, <1>2, <1>3, <1>4, <1>6, <1>7, <1>8 DEF TcpNext, Serve

LEMMA TcpInvHolds ==
  ASSUME TcpAssumption
  PROVE  TcpSpec => []TcpInv
PROOF
<1>1. TcpInit => TcpInv
  <2> SUFFICES ASSUME TcpInit PROVE TcpInv
    OBVIOUS
  <2>1. /\ input \in Seq(Byte) /\ filled = 0 /\ pos = 0 /\ start = 0 /\ frame = << >>
        /\ pending = FALSE /\ pc = "read" /\ lines = << >> /\ acks = << >>
    BY DEF TcpInit, TcpAssumption
  <2>2. TcpTypeOK
    <3>0. Len(input) \in Nat
      BY <2>1
    <3>1. /\ filled <= Len(input) /\ pos \in Nat /\ filled \in Nat /\ start \in Nat
          /\ start <= pos /\ pos <= filled
      BY <2>1, <3>0
    <3>2. frame \in Seq(Byte)
      BY <2>1
    <3>3. acks \in Seq(Verdicts)
      BY <2>1
    <3>4. lines \in Seq([verdict : Verdicts, text : Seq(Byte)])
      BY <2>1
    <3> QED
      BY <2>1, <3>1, <3>2, <3>3, <3>4 DEF TcpTypeOK
  <2>3. FrameIsBounded
    BY <2>1 DEF FrameIsBounded, TcpAssumption
  <2>4. FrameLosesNothing
    <3>1. SubSeq(input, 1, 0) = << >>
      BY <2>1, SubSeqEmpty
    <3> QED
      BY <2>1, <3>1 DEF FrameLosesNothing, Deferred, Since, NoLF, HasCR
  <2> QED
    BY <2>2, <2>3, <2>4 DEF TcpInv
<1>2. TcpInv /\ [TcpNext]_vars => TcpInv'
  BY StepsKeepTcpInv
<1> QED
  BY <1>1, <1>2, PTL DEF TcpSpec

\* The variables of a connection keep their types (tcp.rs:11-16, 27-28).
THEOREM TcpTypeCorrect ==
  ASSUME TcpAssumption
  PROVE  TcpSpec => []TcpTypeOK
PROOF
<1>1. TcpInv => TcpTypeOK
  BY DEF TcpInv
<1> QED
  BY <1>1, TcpInvHolds, PTL

\* No client can make the server hold more than MaxFrame bytes of a frame
\* (tcp.rs:18-19, 55, 70).
THEOREM FrameIsAlwaysBounded ==
  ASSUME TcpAssumption
  PROVE  TcpSpec => []FrameIsBounded
PROOF
<1>1. TcpInv => FrameIsBounded
  BY DEF TcpInv
<1> QED
  BY <1>1, TcpInvHolds, PTL

\* Between two buffers no byte of a frame is lost, doubled or taken from the
\* next frame, a deferred CR included (tcp.rs:47-84).
THEOREM FrameNeverLosesAByte ==
  ASSUME TcpAssumption
  PROVE  TcpSpec => []FrameLosesNothing
PROOF
<1>1. TcpInv => FrameLosesNothing
  BY DEF TcpInv
<1> QED
  BY <1>1, TcpInvHolds, PTL

-----------------------------------------------------------------------------
\* What a step that gives a frame appends to the history.
LEMMA GiveAppends ==
  ASSUME TcpInv, NEW verdict, NEW text, NEW consumed, Give(verdict, text, consumed)
  PROVE  /\ lines'[Len(lines')] = [verdict |-> verdict, text |-> text]
         /\ pos' = consumed
PROOF
<1>1. lines \in Seq([verdict : Verdicts, text : Seq(Byte)])
  BY DEF TcpInv, TcpTypeOK
<1>2. lines' = Append(lines, [verdict |-> verdict, text |-> text]) /\ pos' = consumed
  BY DEF Give
<1> QED
  BY <1>1, <1>2

\* A CR that was put aside is stripped with the LF that follows it.
LEMMA SplitDelimiterIsExact ==
  ASSUME TcpAssumption, TcpInv, ScanSplitDelimiter
  PROVE  Exact(lines'[Len(lines')], pos')
PROOF
<1>1. /\ pc = "read" /\ pending /\ newline = 1 /\ pos < filled
      /\ Give(Verdict(frame), frame, pos + 1)
  BY DEF ScanSplitDelimiter
<1>2. /\ pos \in Nat /\ filled \in Nat /\ start \in Nat /\ start <= pos
      /\ filled <= Len(input) /\ Len(input) \in Nat /\ frame \in Seq(Byte)
  BY DEF TcpInv, TcpTypeOK
<1>3. pos + 1 \in start + 1 .. Len(input) /\ pos + 1 - 1 = pos
  BY <1>1, <1>2
<1>4. input[pos + 1] = LF
  BY <1>1, NewlineIsFirst DEF TcpInv
<1>5. frame = WithoutCR(Since(pos))
  <2>1. Since(pos) = frame \o <<CR>> /\ <<CR>> \in Seq(Byte) /\ <<CR>> # << >>
    BY <1>1 DEF TcpInv, FrameLosesNothing, Deferred, TcpAssumption
  <2>2. WithoutCR(<<CR>>) = << >>
    BY SubSeqEmpty DEF WithoutCR, HasCR
  <2>3. WithoutCR(frame \o <<CR>>) = frame \o << >>
    BY <1>2, <2>1, <2>2, WithoutCROfConcat
  <2> QED
    BY <1>2, <2>1, <2>3, ConcatEmptySeq
<1> DEFINE given == [verdict |-> Verdict(frame), text |-> frame]
           n == pos + 1
<1>6. lines'[Len(lines')] = given /\ pos' = n
  BY <1>1, GiveAppends
<1>7. /\ given.verdict = Verdict(given.text) /\ given.text = frame
      /\ Len(given.text) <= MaxFrame
  BY DEF TcpInv, FrameIsBounded
<1>8. input[n] = LF /\ n - 1 = pos /\ n \in start + 1 .. Len(input)
  <2>1. n - 1 = pos
    BY <1>2
  <2> QED
    BY <1>3, <1>4, <2>1
<1> HIDE DEF given, n
<1>9. NoLF(n - 1) /\ given.text = WithoutCR(Since(n - 1))
  BY <1>1, <1>5, <1>7, <1>8 DEF TcpInv, FrameLosesNothing
<1>10. Delimited(given, n)
  BY <1>8, <1>9 DEF Delimited
<1> QED
  BY <1>6, <1>7, <1>8, <1>10 DEF Exact

LEMMA ScanIsExact ==
  ASSUME TcpAssumption, TcpInv, Scan, lines' # lines
  PROVE  Exact(lines'[Len(lines')], pos')
PROOF
<1>1. pc = "read" /\ pos < filled /\ ~(pending /\ newline = 1)
  BY DEF Scan, ScanAs
<1>2. /\ pos \in Nat /\ filled \in Nat /\ start \in Nat /\ start <= pos
      /\ filled <= Len(input) /\ Len(input) \in Nat /\ MaxFrame \in Nat
  BY DEF TcpInv, TcpTypeOK, TcpAssumption
<1>3. /\ Grown = WithoutCR(Since(ShareEnd)) /\ NoLF(ShareEnd)
      /\ Len(Grown) \in Nat /\ (segment = << >> => Grown = frame)
  BY <1>1, GrownIsExact
<1>4. ShareEnd \in pos .. filled /\ segment = SubSeq(input, pos + 1, ShareEnd)
  BY SegmentIsInput DEF TcpInv
<1>5. CASE Len(Grown) > MaxFrame
  <2>1. Give("too_large", << >>, pos)
    BY <1>1, <1>5 DEF Scan, ScanAs, TooLarge
  <2>2. segment # << >>
    <3>1. ~(Len(frame) > MaxFrame)
      BY <1>2 DEF TcpInv, TcpTypeOK, FrameIsBounded
    <3> QED
      BY <1>3, <1>5, <3>1
  <2>3. ShareEnd # pos
    <3>1. SubSeq(input, pos + 1, pos) = << >>
      BY <1>2, SubSeqEmpty
    <3> QED
      BY <1>4, <2>2, <3>1
  <2>4. ShareEnd \in start + 1 .. Len(input)
    BY <1>2, <1>4, <2>3
  <2>5. Oversized(ShareEnd)
    BY <1>3, <1>5 DEF Oversized
  <2>6. lines'[Len(lines')] = [verdict |-> "too_large", text |-> << >>]
    BY <2>1, GiveAppends
  <2> QED
    BY <2>4, <2>5, <2>6 DEF Exact
<1>6. CASE ~(Len(Grown) > MaxFrame)
  <2>1. newline # 0 /\ Give(Verdict(Grown), Grown, pos + newline)
    BY <1>6 DEF Scan, ScanAs
  <2>2. /\ newline \in 0 .. filled - pos /\ input[pos + newline] = LF
        /\ ShareEnd = pos + newline - 1
    BY <2>1, NewlineIsFirst DEF TcpInv, ShareEnd
  <2>3. pos + newline \in start + 1 .. Len(input)
    BY <1>2, <2>1, <2>2
  <2> DEFINE given == [verdict |-> Verdict(Grown), text |-> Grown]
             n == pos + newline
  <2>4. lines'[Len(lines')] = given /\ pos' = n
    BY <2>1, GiveAppends
  <2>5. Len(Grown) <= MaxFrame
    BY <1>2, <1>3, <1>6
  <2>6. /\ given.verdict = Verdict(given.text) /\ Len(given.text) <= MaxFrame
        /\ given.text = Grown
    BY <2>5
  <2>7. input[n] = LF /\ n - 1 = ShareEnd /\ n \in start + 1 .. Len(input)
    BY <1>2, <2>2, <2>3
  <2> HIDE DEF given, n
  <2>8. NoLF(n - 1) /\ given.text = WithoutCR(Since(n - 1))
    BY <1>3, <2>6, <2>7
  <2>9. Delimited(given, n)
    BY <2>7, <2>8 DEF Delimited
  <2> QED
    BY <2>4, <2>6, <2>7, <2>9 DEF Exact
<1> QED
  BY <1>5, <1>6

LEMMA EndOfInputIsExact ==
  ASSUME TcpAssumption, TcpInv, EndOfInput, lines' # lines
  PROVE  Exact(lines'[Len(lines')], pos')
PROOF
<1> DEFINE rest == frame \o Deferred
<1>1. pc = "read" /\ pos = filled /\ filled = Len(input)
  BY DEF EndOfInput
<1>2. /\ pos \in Nat /\ start \in Nat /\ start <= pos /\ Len(input) \in Nat
      /\ MaxFrame \in Nat /\ input \in Seq(Byte)
  BY DEF TcpInv, TcpTypeOK, TcpAssumption
<1>3. rest = Since(pos) /\ NoLF(pos)
  BY <1>1 DEF TcpInv, FrameLosesNothing
<1>4. Len(Since(pos)) = pos - start
  BY <1>1, <1>2 DEF Since
<1>5. CASE Len(rest) > MaxFrame
  <2>1. Give("too_large", << >>, pos)
    BY <1>5 DEF EndOfInput, TooLarge
  <2>2. Oversized(pos)
    BY <1>1, <1>3, <1>5 DEF Oversized
  <2>3. pos \in start + 1 .. Len(input)
    BY <1>1, <1>2, <1>3, <1>4, <1>5
  <2>4. lines'[Len(lines')] = [verdict |-> "too_large", text |-> << >>]
    BY <2>1, GiveAppends
  <2> QED
    BY <2>2, <2>3, <2>4 DEF Exact
<1>6. CASE ~(Len(rest) > MaxFrame)
  <2>1. Give(Verdict(rest), rest, pos) /\ rest # << >>
    BY <1>6 DEF EndOfInput
  <2> DEFINE given == [verdict |-> Verdict(rest), text |-> rest]
  <2>2. lines'[Len(lines')] = given /\ pos' = pos
    BY <2>1, GiveAppends
  <2>3. Len(rest) <= MaxFrame
    BY <1>2, <1>3, <1>4, <1>6
  <2>4. /\ given.verdict = Verdict(given.text) /\ Len(given.text) <= MaxFrame
        /\ given.text = Since(pos) /\ given.text # << >>
    BY <1>3, <2>1, <2>3
  <2> HIDE DEF given
  <2>5. Unfinished(given)
    BY <1>1, <1>3, <2>4 DEF Unfinished
  <2> QED
    BY <1>1, <2>2, <2>4, <2>5 DEF Exact
<1> QED
  BY <1>5, <1>6

\* Wherever the stream is cut into buffers, a frame is the bytes up to the next
\* LF less a CR before it, or what the client left unterminated, and what is
\* refused is longer than MaxFrame (tcp.rs:23-91).
THEOREM EachFrameIsAlwaysExact ==
  ASSUME TcpAssumption
  PROVE  TcpSpec => EachFrameIsExact
PROOF
<1>1. TcpInv /\ [TcpNext]_vars
        => [lines' # lines => Exact(lines'[Len(lines')], pos')]_vars
  <2> SUFFICES ASSUME TcpInv, [TcpNext]_vars, lines' # lines
               PROVE  Exact(lines'[Len(lines')], pos')
    OBVIOUS
  <2>1. ScanSplitDelimiter \/ Scan \/ EndOfInput
    BY DEF TcpNext, Serve, Fill, SkipBlank, Answer, NextFrame, Refuse, Fail, vars
  <2> QED
    BY <2>1, SplitDelimiterIsExact, ScanIsExact, EndOfInputIsExact
<1> QED
  BY <1>1, TcpInvHolds, PTL DEF TcpSpec, EachFrameIsExact

-----------------------------------------------------------------------------
\* The LFs of the first n bytes are finitely many.
LEMMA LFsAreFinite ==
  ASSUME NEW n \in Nat
  PROVE  IsFiniteSet(LFs(n)) /\ Cardinality(LFs(n)) \in Nat
PROOF
<1>1. IsFiniteSet(1 .. n)
  BY FS_Interval
<1>2. LFs(n) \in SUBSET (1 .. n)
  BY DEF LFs
<1>3. IsFiniteSet(LFs(n))
  BY <1>1, <1>2, FS_Subset
<1> QED
  BY <1>3, FS_CardinalityType

\* More bytes have no fewer LFs, and no more if the further bytes have none.
LEMMA LFsGrow ==
  ASSUME NEW m \in Nat, NEW n \in Nat, m <= n
  PROVE  /\ Cardinality(LFs(m)) <= Cardinality(LFs(n))
         /\ (\A i \in m + 1 .. n : input[i] # LF) => LFs(n) = LFs(m)
         /\ m # n /\ n \in LFs(n) => Cardinality(LFs(m)) < Cardinality(LFs(n))
PROOF
<1>1. IsFiniteSet(LFs(n)) /\ Cardinality(LFs(n)) \in Nat /\ Cardinality(LFs(m)) \in Nat
  BY LFsAreFinite
<1>2. LFs(m) \in SUBSET LFs(n)
  BY DEF LFs
<1>3. Cardinality(LFs(m)) <= Cardinality(LFs(n))
  BY <1>1, <1>2, FS_Subset
<1>4. ASSUME \A i \in m + 1 .. n : input[i] # LF
      PROVE  LFs(n) = LFs(m)
  <2>1. \A i \in 1 .. n : i \in 1 .. m \/ i \in m + 1 .. n
    OBVIOUS
  <2> QED
    BY <1>4, <2>1 DEF LFs
<1>5. ASSUME m # n, n \in LFs(n)
      PROVE  Cardinality(LFs(m)) < Cardinality(LFs(n))
  <2>1. n \notin LFs(m)
    BY <1>5 DEF LFs
  <2>2. LFs(m) # LFs(n)
    BY <1>5, <2>1
  <2>3. Cardinality(LFs(n)) # Cardinality(LFs(m))
    BY <1>1, <1>2, <2>2, FS_Subset
  <2> QED
    BY <1>1, <1>3, <2>3
<1> QED
  BY <1>3, <1>4, <1>5

\* The next LF has the next number.
LEMMA NextEnd ==
  ASSUME NEW m \in Nat, NEW n \in Nat, m < n, input[n] = LF,
         \A i \in m + 1 .. n - 1 : input[i] # LF
  PROVE  /\ n \in LFs(n)
         /\ Cardinality(LFs(n)) = Cardinality(LFs(m)) + 1
PROOF
<1>1. n \in LFs(n)
  BY DEF LFs
<1>2. LFs(n) = LFs(m) \cup {n} /\ n \notin LFs(m)
  <2>1. \A i \in 1 .. n : i \in 1 .. m \/ i \in m + 1 .. n - 1 \/ i = n
    OBVIOUS
  <2>2. n \notin 1 .. m /\ \A i \in 1 .. m : i \in 1 .. n
    OBVIOUS
  <2> QED
    BY <1>1, <2>1, <2>2 DEF LFs
<1>3. IsFiniteSet(LFs(m))
  BY LFsAreFinite
<1> QED
  BY <1>1, <1>2, <1>3, FS_AddElement

\* Where a text ends is settled by its number.
LEMMA EndIs ==
  ASSUME NEW n \in 0 .. Len(input), NEW k, IsEnd(n, k), Len(input) \in Nat
  PROVE  End(k) = n
PROOF
<1>1. \A m \in 0 .. Len(input) : IsEnd(m, k) => m = n
  <2> SUFFICES ASSUME NEW m \in 0 .. Len(input), IsEnd(m, k), m # n
               PROVE  FALSE
    OBVIOUS
  <2>1. m \in Nat /\ n \in Nat
    OBVIOUS
  <2>2. Cardinality(LFs(m)) = k /\ Cardinality(LFs(n)) = k /\ k \in Nat
    BY <2>1, LFsAreFinite DEF IsEnd
  <2>3. CASE m < n
    <3>1. n \in LFs(n) /\ m <= n
      BY <2>1, <2>3 DEF IsEnd
    <3> QED
      BY <2>1, <2>2, <3>1, LFsGrow
  <2>4. CASE n < m
    <3>1. m \in LFs(m) /\ n <= m
      BY <2>1, <2>4 DEF IsEnd
    <3> QED
      BY <2>1, <2>2, <3>1, LFsGrow
  <2> QED
    BY <2>1, <2>3, <2>4
<1>2. IsEnd(End(k), k) /\ End(k) \in 0 .. Len(input)
  BY DEF End
<1> QED
  BY <1>1, <1>2

\* The text that starts where one ends: up to the next LF, or all that is left.
LEMMA NextTextIsDelimited ==
  ASSUME TcpTypeOK, NEW m \in Nat, IsEnd(start, m),
         NEW n \in start + 1 .. Len(input), input[n] = LF, NoLF(n - 1)
  PROVE  /\ IsEnd(n, m + 1)
         /\ m + 1 <= TextCount
         /\ Text(m + 1) = WithoutCR(Since(n - 1))
PROOF
<1>1. /\ start \in Nat /\ Len(input) \in Nat /\ n \in Nat /\ start < n
      /\ n <= Len(input) /\ start \in 0 .. Len(input) /\ n \in 0 .. Len(input)
  BY DEF TcpTypeOK
<1>2. IsEnd(n, m + 1)
  <2>1. Cardinality(LFs(start)) = m
    BY DEF IsEnd
  <2>2. n \in LFs(n) /\ Cardinality(LFs(n)) = Cardinality(LFs(start)) + 1
    BY <1>1, NextEnd DEF NoLF
  <2> QED
    BY <2>1, <2>2 DEF IsEnd
<1>3. m + 1 <= Ended /\ Ended \in Nat
  <2>1. Cardinality(LFs(n)) <= Cardinality(LFs(Len(input)))
    BY <1>1, LFsGrow
  <2>2. Cardinality(LFs(n)) = m + 1 /\ Ended = Cardinality(LFs(Len(input)))
    BY <1>2 DEF IsEnd, Ended
  <2>3. Ended \in Nat
    BY <1>1, LFsAreFinite DEF Ended
  <2> QED
    BY <2>1, <2>2, <2>3
<1>4. End(m) = start /\ End(m + 1) = n
  BY <1>1, <1>2, EndIs
<1>5. Text(m + 1) = WithoutCR(Since(n - 1))
  <2>1. m + 1 - 1 = m
    OBVIOUS
  <2> QED
    BY <1>3, <1>4, <2>1 DEF Text, Since
<1>6. m + 1 <= TextCount
  BY <1>3 DEF TextCount
<1> QED
  BY <1>2, <1>5, <1>6

LEMMA NextTextIsTheRest ==
  ASSUME TcpTypeOK, NEW m \in Nat, IsEnd(start, m), NoLF(Len(input))
  PROVE  /\ TextCount = (IF start = Len(input) THEN m ELSE m + 1)
         /\ Text(m + 1) = Since(Len(input))
PROOF
<1>1. /\ start \in Nat /\ Len(input) \in Nat /\ start <= Len(input)
      /\ start \in 0 .. Len(input)
  BY DEF TcpTypeOK
<1>2. Ended = m
  <2>1. LFs(Len(input)) = LFs(start)
    BY <1>1, LFsGrow DEF NoLF
  <2> QED
    BY <2>1 DEF IsEnd, Ended
<1>3. End(m) = start
  BY <1>1, EndIs
<1>4. TextCount = (IF start = Len(input) THEN m ELSE m + 1)
  BY <1>2, <1>3 DEF TextCount
<1>5. Text(m + 1) = Since(Len(input))
  <2>1. m + 1 - 1 = m /\ ~(m + 1 <= m)
    OBVIOUS
  <2>2. Text(m + 1) = SubSeq(input, End(m + 1 - 1) + 1, Len(input))
    <3>1. m + 1 \in Nat /\ Ended \in Nat
      BY <1>2
    <3>2. \A k \in Nat : ~(k <= Ended)
            => Text(k) = SubSeq(input, End(k - 1) + 1, Len(input))
      BY Zenon DEF Text
    <3> QED
      BY <1>2, <3>1, <3>2
  <2>3. End(m + 1 - 1) = start
    BY <1>3, <2>1
  <2> QED
    BY <2>2, <2>3 DEF Since
<1> QED
  BY <1>4, <1>5

\* A text is at least as long as what was there when it was refused.
LEMMA LongerSince ==
  ASSUME TcpAssumption, TcpTypeOK, NEW n \in start .. Len(input),
         NEW p \in n .. Len(input)
  PROVE  /\ Len(WithoutCR(Since(n))) <= Len(WithoutCR(Since(p)))
         /\ Len(WithoutCR(Since(n))) <= Len(Since(n))
         /\ Len(Since(n)) <= Len(Since(p))
         /\ Len(WithoutCR(Since(n))) \in Nat /\ Len(WithoutCR(Since(p))) \in Nat
         /\ Len(Since(n)) \in Nat /\ Len(Since(p)) \in Nat
PROOF
<1>1. /\ start \in Nat /\ Len(input) \in Nat /\ input \in Seq(Byte)
      /\ n \in Nat /\ p \in Nat /\ start <= n /\ n <= p /\ p <= Len(input)
  BY DEF TcpTypeOK
<1>2. /\ Since(n) \in Seq(Byte) /\ Since(p) \in Seq(Byte)
      /\ Len(Since(n)) = n - start /\ Len(Since(p)) = p - start
  BY <1>1 DEF Since
<1>3. ASSUME NEW s \in Seq(Byte)
      PROVE  /\ Len(WithoutCR(s)) \in Nat
             /\ Len(WithoutCR(s)) <= Len(s) /\ Len(s) - 1 <= Len(WithoutCR(s))
  <2>1. CASE HasCR(s)
    <3>1. s # << >> /\ WithoutCR(s) = SubSeq(s, 1, Len(s) - 1)
      BY <2>1 DEF HasCR, WithoutCR
    <3>2. Len(s) \in Nat \ {0}
      BY <3>1, EmptySeq
    <3> QED
      BY <3>1, <3>2
  <2>2. CASE ~HasCR(s)
    <3>1. WithoutCR(s) = s /\ Len(s) \in Nat
      BY <2>2 DEF WithoutCR
    <3> QED
      BY <3>1
  <2> QED
    BY <2>1, <2>2
<1>4. /\ Len(WithoutCR(Since(n))) \in Nat /\ Len(WithoutCR(Since(p))) \in Nat
      /\ Len(WithoutCR(Since(n))) <= n - start
      /\ p - start - 1 <= Len(WithoutCR(Since(p)))
  BY <1>2, <1>3
<1>5. Len(WithoutCR(Since(n))) <= Len(WithoutCR(Since(p)))
  <2>1. CASE n = p
    BY <1>4, <2>1
  <2>2. CASE n # p
    <3>1. n - start <= p - start - 1
      BY <1>1, <2>2
    <3> QED
      BY <1>1, <1>4, <3>1
  <2> QED
    BY <2>1, <2>2
<1> QED
  BY <1>1, <1>2, <1>4, <1>5

\* What is refused as too large is a text that is.
LEMMA OversizedTextIsTooLarge ==
  ASSUME TcpAssumption, TcpTypeOK, NEW m \in Nat, IsEnd(start, m),
         NEW n \in start + 1 .. Len(input), Oversized(n)
  PROVE  m + 1 <= TextCount /\ Len(Text(m + 1)) > MaxFrame
PROOF
<1>1. /\ start \in Nat /\ Len(input) \in Nat /\ MaxFrame \in Nat /\ NoLF(n)
      /\ n \in Nat /\ n \in start .. Len(input) /\ start # Len(input)
  BY DEF TcpTypeOK, TcpAssumption, Oversized
<1> DEFINE After == {p \in n .. Len(input) : p > n /\ input[p] = LF}
<1>2. CASE After = {}
  <2>1. \A p \in n + 1 .. Len(input) : input[p] # LF
    BY <1>1, <1>2
  <2>2. NoLF(Len(input))
    BY <1>1, <2>1 DEF NoLF
  <2>3. TextCount = m + 1 /\ Text(m + 1) = Since(Len(input))
    BY <1>1, <2>2, NextTextIsTheRest
  <2>4. /\ Len(WithoutCR(Since(n))) <= Len(Since(n)) /\ Len(WithoutCR(Since(n))) \in Nat
        /\ Len(Since(n)) <= Len(Since(Len(input)))
        /\ Len(Since(n)) \in Nat /\ Len(Since(Len(input))) \in Nat
    BY <1>1, LongerSince
  <2>5. Len(WithoutCR(Since(n))) > MaxFrame \/ Len(Since(n)) > MaxFrame
    BY DEF Oversized
  <2>6. Len(Since(Len(input))) > MaxFrame
    BY <1>1, <2>4, <2>5
  <2> QED
    BY <2>3, <2>6
<1>3. CASE After # {}
  <2>1. After \subseteq Nat
    BY <1>1
  <2> HIDE DEF After
  <2>2. PICK p \in After : \A q \in After : p <= q
    BY <1>3, <2>1, LeastMember
  <2> USE DEF After
  <2>3. p \in n + 1 .. Len(input) /\ input[p] = LF /\ n # Len(input)
    BY <1>1, <2>2
  <2>4. NoLF(p - 1)
    <3> SUFFICES ASSUME NEW i \in start + 1 .. p - 1, input[i] = LF
                 PROVE  FALSE
      BY DEF NoLF
    <3>1. i > n
      <4>1. i \notin start + 1 .. n
        BY <1>1 DEF NoLF
      <4> QED
        BY <1>1, <2>3, <4>1
    <3>2. i \in After
      BY <1>1, <2>3, <3>1
    <3>3. p <= i
      BY <2>2, <3>2
    <3> QED
      BY <1>1, <2>3, <3>3
  <2>5. p \in start + 1 .. Len(input) /\ p - 1 \in n .. Len(input)
    BY <1>1, <2>3
  <2>6. m + 1 <= TextCount /\ Text(m + 1) = WithoutCR(Since(p - 1))
    BY <2>3, <2>4, <2>5, NextTextIsDelimited
  <2>7. /\ Len(WithoutCR(Since(n))) <= Len(WithoutCR(Since(p - 1)))
        /\ Len(WithoutCR(Since(n))) \in Nat /\ Len(WithoutCR(Since(p - 1))) \in Nat
    BY <1>1, <2>5, LongerSince
  <2>8. Len(WithoutCR(Since(n))) > MaxFrame
    BY <2>3 DEF Oversized
  <2>9. Len(WithoutCR(Since(p - 1))) > MaxFrame
    BY <1>1, <2>7, <2>8
  <2> QED
    BY <2>6, <2>9
<1> QED
  BY <1>2, <1>3

\* What is exact since the end of one text is the frame of the next.
LEMMA NextFrameIsExact ==
  ASSUME TcpAssumption, TcpTypeOK, NEW m \in Nat, IsEnd(start, m),
         NEW given \in [verdict : Verdicts, text : Seq(Byte)], NEW consumed,
         Exact(given, consumed)
  PROVE  /\ m + 1 <= TextCount
         /\ given = Frame(Text(m + 1))
         /\ given.verdict # "too_large" =>
              /\ Len(Text(m + 1)) <= MaxFrame
              /\ \/ consumed \in 0 .. Len(input) /\ IsEnd(consumed, m + 1)
                 \/ consumed = Len(input) /\ m + 1 = TextCount
PROOF
<1>1. /\ start \in Nat /\ Len(input) \in Nat /\ MaxFrame \in Nat
      /\ given = [verdict |-> given.verdict, text |-> given.text]
      /\ Len(given.text) \in Nat
  BY DEF TcpTypeOK, TcpAssumption
<1>2. ASSUME given.verdict = Verdict(given.text), Len(given.text) <= MaxFrame,
             given.text = Text(m + 1)
      PROVE  given = Frame(Text(m + 1))
  <2>1. ~(Len(Text(m + 1)) > MaxFrame)
    BY <1>1, <1>2
  <2> QED
    BY <1>1, <1>2, <2>1 DEF Frame
<1>3. CASE /\ given.verdict = Verdict(given.text) /\ Len(given.text) <= MaxFrame
           /\ consumed \in start + 1 .. Len(input) /\ Delimited(given, consumed)
  <2>1. /\ IsEnd(consumed, m + 1) /\ m + 1 <= TextCount
        /\ Text(m + 1) = given.text
    BY <1>3, NextTextIsDelimited DEF Delimited
  <2>2. consumed \in 0 .. Len(input)
    BY <1>1, <1>3
  <2> QED
    BY <1>2, <1>3, <2>1, <2>2
<1>4. CASE /\ given.verdict = Verdict(given.text) /\ Len(given.text) <= MaxFrame
           /\ consumed = Len(input) /\ Unfinished(given)
  <2>1. NoLF(Len(input)) /\ given.text = Since(Len(input)) /\ given.text # << >>
    BY <1>4 DEF Unfinished
  <2>2. start # Len(input)
    <3>1. ASSUME start = Len(input) PROVE Since(Len(input)) = << >>
      BY <1>1, <3>1, SubSeqEmpty DEF Since, TcpTypeOK
    <3> QED
      BY <2>1, <3>1
  <2>3. TextCount = m + 1 /\ Text(m + 1) = given.text
    BY <2>1, <2>2, NextTextIsTheRest
  <2>4. m + 1 <= TextCount
    BY <2>3
  <2> QED
    BY <1>2, <1>4, <2>3, <2>4
<1>5. CASE /\ given = [verdict |-> "too_large", text |-> << >>]
           /\ \E n \in start + 1 .. Len(input) : Oversized(n)
  <2>1. m + 1 <= TextCount /\ Len(Text(m + 1)) > MaxFrame
    BY <1>5, OversizedTextIsTooLarge
  <2>2. given.verdict = "too_large"
    BY <1>5
  <2> QED
    BY <1>5, <2>1, <2>2 DEF Frame
<1> QED
  BY <1>3, <1>4, <1>5 DEF Exact

\* Where the frame being read begins, or the next one will: at the end of a text,
\* or at the end of the stream when all texts have been given.
AtEnd(n) ==
  \/ n \in 0 .. Len(input) /\ IsEnd(n, Len(lines))
  \/ n = Len(input) /\ Len(lines) = TextCount
AllFit == \A k \in DOMAIN lines : Len(Text(k)) <= MaxFrame

\* The inductive invariant behind FramesIgnoreTheCuts.
StreamInv ==
  /\ FramesIgnoreTheCuts
  /\ pc = "read" => AtEnd(start) /\ AllFit
  /\ pc \in {"line", "invalid_utf8"} => AtEnd(pos) /\ AllFit
  /\ pc \in Verdicts => lines # << >> /\ Current.verdict = pc

\* Nothing but a new frame changes what the stream means and what was given.
LEMMA StreamIsFixed ==
  ASSUME UNCHANGED <<input, lines>>
  PROVE  /\ \A n : AtEnd(n)' <=> AtEnd(n)
         /\ AllFit' <=> AllFit
         /\ GivesTheFrames' <=> GivesTheFrames
         /\ Current' = Current /\ TextCount' = TextCount
PROOF
  BY DEF AtEnd, AllFit, GivesTheFrames, Current, TextCount, Text, Ended, End, IsEnd, LFs,
     WithoutCR, HasCR, Frame, Verdict

\* The next frame is given.
LEMMA GiveKeepsStreamInv ==
  ASSUME TcpAssumption, TcpInv, TcpInv', StreamInv, pc = "read",
         NEW verdict \in Verdicts, NEW text \in Seq(Byte), NEW consumed,
         Give(verdict, text, consumed), Exact(lines'[Len(lines')], pos')
  PROVE  StreamInv'
PROOF
<1> DEFINE given == [verdict |-> verdict, text |-> text]
           m == Len(lines)
<1>1. /\ lines \in Seq([verdict : Verdicts, text : Seq(Byte)]) /\ m \in Nat
      /\ given \in [verdict : Verdicts, text : Seq(Byte)]
      /\ input' = input /\ pc' = given.verdict /\ lines' = Append(lines, given)
      /\ TcpTypeOK /\ Len(input) \in Nat /\ start \in Nat
  BY DEF TcpInv, TcpTypeOK, Give
<1>2. Exact(given, pos')
  BY GiveAppends DEF Give
<1>3. start < Len(input)
  <2>1. CASE pos' \in start + 1 .. Len(input)
    BY <1>1, <2>1
  <2>2. CASE Unfinished(given)
    <3>1. ASSUME start >= Len(input) PROVE Since(Len(input)) = << >>
      <4>1. start + 1 > Len(input) /\ input \in Seq(Byte)
        BY <1>1, <3>1 DEF TcpTypeOK
      <4> QED
        BY <1>1, <4>1, SubSeqEmpty DEF Since
    <3> QED
      BY <1>1, <2>2, <3>1 DEF Unfinished
  <2>3. CASE \E n \in start + 1 .. Len(input) : Oversized(n)
    BY <1>1, <2>3
  <2> QED
    BY <1>2, <2>1, <2>2, <2>3 DEF Exact
<1>4. IsEnd(start, m) /\ AllFit /\ GivesTheFrames
  BY <1>1, <1>3 DEF StreamInv, FramesIgnoreTheCuts, AtEnd
<1> HIDE DEF given
<1>5. /\ m + 1 <= TextCount
      /\ given = Frame(Text(m + 1))
      /\ given.verdict # "too_large" =>
           /\ Len(Text(m + 1)) <= MaxFrame
           /\ \/ pos' \in 0 .. Len(input) /\ IsEnd(pos', m + 1)
              \/ pos' = Len(input) /\ m + 1 = TextCount
  BY <1>1, <1>2, <1>4, NextFrameIsExact
<1>6. /\ Len(lines') = m + 1 /\ lines'[m + 1] = given /\ lines' # << >>
      /\ DOMAIN lines' = 1 .. m + 1 /\ DOMAIN lines = 1 .. m
      /\ \A k \in 1 .. m : lines'[k] = lines[k]
  <2> HIDE DEF m
  <2>1. m = Len(lines)
    BY DEF m
  <2>2. /\ Len(lines') = m + 1 /\ lines'[m + 1] = given
        /\ \A k \in 1 .. m : lines'[k] = lines[k]
        /\ lines' \in Seq([verdict : Verdicts, text : Seq(Byte)])
    BY <1>1, <2>1, AppendProperties
  <2>3. DOMAIN lines' = 1 .. m + 1 /\ DOMAIN lines = 1 .. m /\ lines' # << >>
    BY <1>1, <2>1, <2>2
  <2> QED
    BY <2>2, <2>3
<1>7. /\ TextCount' = TextCount /\ \A k : Text(k)' = Text(k)
      /\ \A n, k : IsEnd(n, k)' <=> IsEnd(n, k)
      /\ \A t : Frame(t)' = Frame(t)
  BY <1>1 DEF TextCount, Text, Ended, End, IsEnd, LFs, WithoutCR, HasCR, Frame, Verdict
<1>8. \A k \in 1 .. m + 1 : k \in 1 .. m \/ k = m + 1
  BY <1>1
<1>9. GivesTheFrames'
  <2>1. \A k \in 1 .. m + 1 : lines'[k] = Frame(Text(k))
    BY <1>4, <1>5, <1>6, <1>8 DEF GivesTheFrames
  <2>2. \A k \in 1 .. m : Len(Text(k)) <= MaxFrame
    BY <1>4, <1>6 DEF AllFit
  <2>3. m + 1 - 1 = m
    BY <1>1
  <2> QED
    BY <1>5, <1>6, <1>7, <2>1, <2>2, <2>3 DEF GivesTheFrames
<1>10. Current' = given
  BY <1>6 DEF Current
<1>11. given.verdict # "too_large" => AtEnd(pos)' /\ AllFit'
  <2> SUFFICES ASSUME given.verdict # "too_large"
               PROVE  AtEnd(pos)' /\ AllFit'
    OBVIOUS
  <2>1. AtEnd(pos)'
    BY <1>1, <1>5, <1>6, <1>7 DEF AtEnd
  <2>2. AllFit'
    BY <1>4, <1>5, <1>6, <1>7, <1>8 DEF AllFit
  <2> QED
    BY <2>1, <2>2
<1>12. pc' \in Verdicts /\ pc' # "end" /\ pc' # "read" /\ pc' = given.verdict
  BY <1>1 DEF Verdicts
<1> QED
  BY <1>6, <1>9, <1>10, <1>11, <1>12 DEF StreamInv, FramesIgnoreTheCuts

\* A step either gives a frame, and then it was reading one, or leaves the frames.
LEMMA GivingSteps ==
  ASSUME TcpAssumption, TcpInv, TcpNext
  PROVE  \/ /\ lines' # lines /\ pc = "read"
            /\ \E verdict \in Verdicts, text \in Seq(Byte) : \E consumed :
                 Give(verdict, text, consumed)
         \/ /\ UNCHANGED <<input, lines>>
            /\ \/ pc' = pc /\ start' = start /\ pc = "read"
               \/ EndOfInput /\ pc' = "end" /\ start' = start
               \/ SkipBlank \/ Answer \/ Refuse \/ Fail
PROOF
<1>1. /\ << >> \in Seq(Byte) /\ "too_large" \in Verdicts
      /\ \A f : Verdict(f) \in Verdicts
      /\ frame \in Seq(Byte) /\ frame \o Deferred \in Seq(Byte)
  <2>1. frame \in Seq(Byte) /\ Deferred \in Seq(Byte) /\ << >> \in Seq(Byte)
    BY DEF TcpInv, TcpTypeOK, Deferred, TcpAssumption
  <2>2. frame \o Deferred \in Seq(Byte)
    BY <2>1, ConcatProperties
  <2> QED
    BY <2>1, <2>2 DEF Verdict, Verdicts
<1>2. ASSUME pc = "read", NEW verdict \in Verdicts, NEW text \in Seq(Byte), NEW consumed,
             Give(verdict, text, consumed)
      PROVE  /\ lines' # lines /\ pc = "read"
             /\ \E v \in Verdicts, t \in Seq(Byte) : \E c : Give(v, t, c)
  <2>1. lines \in Seq([verdict : Verdicts, text : Seq(Byte)])
    BY DEF TcpInv, TcpTypeOK
  <2>2. lines' = Append(lines, [verdict |-> verdict, text |-> text])
    BY <1>2 DEF Give
  <2>3. Len(lines') = Len(lines) + 1 /\ Len(lines) \in Nat
    BY <2>1, <2>2
  <2>4. lines' # lines
    BY <2>3
  <2> QED
    BY <1>2, <2>4
<1>3. CASE Fill
  BY <1>3 DEF Fill
<1>4. CASE ScanSplitDelimiter
  BY <1>1, <1>2, <1>4 DEF ScanSplitDelimiter
<1>5. CASE Scan
  <2>1. pc = "read" /\ pos < filled /\ ~(pending /\ newline = 1)
    BY <1>5 DEF Scan, ScanAs
  <2>2. Grown \in Seq(Byte)
    BY <2>1, GrownIsExact
  <2>3. \/ Give("too_large", << >>, pos)
        \/ Give(Verdict(Grown), Grown, pos + newline)
        \/ UNCHANGED <<input, filled, start, pc, lines, acks>>
    BY <1>5 DEF Scan, ScanAs, TooLarge
  <2> QED
    BY <1>1, <1>2, <2>1, <2>2, <2>3
<1>6. CASE EndOfInput
  <2>1. pc = "read"
    BY <1>6 DEF EndOfInput
  <2>2. \/ Give("too_large", << >>, pos)
        \/ Give(Verdict(frame \o Deferred), frame \o Deferred, pos)
        \/ pc' = "end" /\ UNCHANGED <<input, filled, pos, start, frame, pending, lines, acks>>
    BY <1>6 DEF EndOfInput, TooLarge
  <2> QED
    BY <1>1, <1>2, <1>6, <2>1, <2>2
<1>7. CASE SkipBlank \/ Answer
  BY <1>7 DEF SkipBlank, Answer, NextFrame
<1>8. CASE Refuse \/ Fail
  BY <1>8 DEF Refuse, Fail
<1> QED
  BY <1>3, <1>4, <1>5, <1>6, <1>7, <1>8 DEF TcpNext, Serve

\* Nothing is left to give when the input ends in no frame.
LEMMA NothingIsLeft ==
  ASSUME TcpAssumption, TcpInv, StreamInv, EndOfInput, pc' = "end"
  PROVE  Len(lines) = TextCount
PROOF
<1>1. /\ pc = "read" /\ pos = Len(input) /\ input \in Seq(Byte)
      /\ start \in Nat /\ start <= pos /\ Len(input) \in Nat
      /\ lines \in Seq([verdict : Verdicts, text : Seq(Byte)]) /\ TcpTypeOK
  BY DEF EndOfInput, TcpInv, TcpTypeOK
<1>2. frame \o Deferred = << >>
  <2>1. ASSUME NEW v, NEW t, NEW c, Give(v, t, c), v \in Verdicts
        PROVE  FALSE
    BY <2>1 DEF Give, Verdicts
  <2>2. Verdict(frame \o Deferred) \in Verdicts /\ "too_large" \in Verdicts
    BY DEF Verdict, Verdicts
  <2> QED
    BY <2>1, <2>2 DEF EndOfInput, TooLarge
<1>3. Since(pos) = << >> /\ NoLF(Len(input))
  BY <1>1, <1>2 DEF TcpInv, FrameLosesNothing
<1>4. start = Len(input)
  <2>1. Len(Since(pos)) = pos - start
    BY <1>1 DEF Since
  <2> QED
    BY <1>1, <1>3, <2>1
<1>5. Len(lines) \in Nat
  BY <1>1
<1>6. CASE IsEnd(start, Len(lines))
  BY <1>1, <1>3, <1>4, <1>5, <1>6, NextTextIsTheRest
<1> QED
  BY <1>1, <1>6 DEF StreamInv, AtEnd

LEMMA StepsKeepStreamInv ==
  ASSUME TcpAssumption, TcpInv, TcpInv', StreamInv, [TcpNext]_vars
  PROVE  StreamInv'
PROOF
<1>1. CASE UNCHANGED vars
  <2>1. UNCHANGED <<input, lines, pc, pos, start>>
    BY <1>1 DEF vars
  <2>2. /\ \A n : AtEnd(n)' <=> AtEnd(n)
        /\ AllFit' <=> AllFit
        /\ GivesTheFrames' <=> GivesTheFrames
        /\ Current' = Current /\ TextCount' = TextCount
    BY <2>1, StreamIsFixed
  <2>3. (AtEnd(start)' <=> AtEnd(start)) /\ (AtEnd(pos)' <=> AtEnd(pos))
    BY <2>1, <2>2 DEF AtEnd, IsEnd, LFs, TextCount
  <2> QED
    BY <2>1, <2>2, <2>3 DEF StreamInv, FramesIgnoreTheCuts
<1>2. CASE TcpNext /\ lines' # lines
  <2>1. pc = "read"
    BY <1>2, GivingSteps
  <2>2. PICK verdict \in Verdicts, text \in Seq(Byte) : \E consumed : Give(verdict, text, consumed)
    BY <1>2, GivingSteps
  <2>3. ScanSplitDelimiter \/ Scan \/ EndOfInput
    BY <1>2 DEF TcpNext, Serve, Fill, SkipBlank, Answer, NextFrame, Refuse, Fail
  <2>4. Exact(lines'[Len(lines')], pos')
    BY <1>2, <2>3, SplitDelimiterIsExact, ScanIsExact, EndOfInputIsExact
  <2> QED
    BY <2>1, <2>2, <2>4, GiveKeepsStreamInv
<1>3. CASE TcpNext /\ lines' = lines
  <2>1. /\ UNCHANGED <<input, lines>>
        /\ \/ pc' = pc /\ start' = start /\ pc = "read"
           \/ EndOfInput /\ pc' = "end" /\ start' = start
           \/ SkipBlank \/ Answer \/ Refuse \/ Fail
    BY <1>3, GivingSteps
  <2>2. /\ AllFit' <=> AllFit
        /\ GivesTheFrames' <=> GivesTheFrames
        /\ Current' = Current /\ TextCount' = TextCount
    BY <2>1, StreamIsFixed
  <2>3. GivesTheFrames'
    BY <2>2 DEF StreamInv, FramesIgnoreTheCuts
  <2>4. CASE pc' = pc /\ start' = start /\ pc = "read"
    <3>1. AtEnd(start)' <=> AtEnd(start)
      BY <2>1, <2>2, <2>4 DEF AtEnd, IsEnd, LFs
    <3> QED
      BY <2>2, <2>3, <2>4, <3>1 DEF StreamInv, FramesIgnoreTheCuts, Verdicts
  <2>5. CASE EndOfInput /\ pc' = "end"
    <3>1. Len(lines) = TextCount
      BY <2>5, NothingIsLeft
    <3> QED
      BY <2>1, <2>2, <2>3, <2>5, <3>1 DEF StreamInv, FramesIgnoreTheCuts, Verdicts
  <2>6. CASE SkipBlank \/ Answer
    <3>1. pc \in {"line", "invalid_utf8"} /\ pc' = "read" /\ start' = pos
      BY <2>6 DEF SkipBlank, Answer, NextFrame
    <3>2. AtEnd(start)' <=> AtEnd(pos)
      BY <2>1, <2>2, <3>1 DEF AtEnd, IsEnd, LFs
    <3> QED
      BY <2>2, <2>3, <3>1, <3>2 DEF StreamInv, FramesIgnoreTheCuts, Verdicts
  <2>7. CASE Refuse
    <3>1. pc = "too_large" /\ pc' = "end"
      BY <2>7 DEF Refuse
    <3> QED
      BY <2>1, <2>2, <2>3, <3>1 DEF StreamInv, FramesIgnoreTheCuts, Verdicts
  <2>8. CASE Fail
    <3>1. pc' = "lost"
      BY <2>8 DEF Fail
    <3> QED
      BY <2>2, <2>3, <3>1 DEF StreamInv, FramesIgnoreTheCuts, Verdicts
  <2> QED
    BY <2>1, <2>4, <2>5, <2>6, <2>7, <2>8
<1> QED
  BY <1>1, <1>2, <1>3

LEMMA StreamInvHolds ==
  ASSUME TcpAssumption
  PROVE  TcpSpec => []StreamInv
PROOF
<1>1. TcpInit => StreamInv
  <2> SUFFICES ASSUME TcpInit PROVE StreamInv
    OBVIOUS
  <2>1. /\ input \in Seq(Byte) /\ Len(input) \in Nat
        /\ start = 0 /\ pc = "read" /\ lines = << >>
    BY DEF TcpInit, TcpAssumption
  <2>2. Len(lines) = 0 /\ DOMAIN lines = {} /\ 1 .. Len(lines) - 1 = {}
    BY <2>1
  <2>3. Ended \in Nat
    BY <2>1, LFsAreFinite DEF Ended
  <2>4. GivesTheFrames
    <3>1. Len(lines) <= TextCount
      BY <2>2, <2>3 DEF TextCount
    <3> QED
      BY <2>2, <3>1 DEF GivesTheFrames
  <2>5. AtEnd(start)
    <3>1. LFs(0) = {}
      BY DEF LFs
    <3>2. Cardinality(LFs(0)) = 0
      BY <3>1, FS_EmptySet
    <3> QED
      BY <2>1, <2>2, <3>2 DEF AtEnd, IsEnd
  <2>6. AllFit
    BY <2>2 DEF AllFit
  <2> QED
    BY <2>1, <2>4, <2>5, <2>6 DEF StreamInv, FramesIgnoreTheCuts, Verdicts
<1>2. TcpInv /\ TcpInv' /\ StreamInv /\ [TcpNext]_vars => StreamInv'
  BY StepsKeepStreamInv
<1> QED
  BY <1>1, <1>2, TcpInvHolds, PTL DEF TcpSpec

\* However the bytes are cut on their way, a connection gives the frames of its
\* stream, in their order and up to the first that is too large, and all of them
\* when it ends (tcp.rs:23-91, 116-143).
THEOREM FramesAlwaysIgnoreTheCuts ==
  ASSUME TcpAssumption
  PROVE  TcpSpec => []FramesIgnoreTheCuts
PROOF
<1>1. StreamInv => FramesIgnoreTheCuts
  BY DEF StreamInv
<1> QED
  BY <1>1, StreamInvHolds, PTL

-----------------------------------------------------------------------------
\* How many of the first frames have an answer.
LEMMA AnsweredIsFinite ==
  ASSUME NEW n \in Nat
  PROVE  /\ IsFiniteSet(Answered(n)) /\ Cardinality(Answered(n)) \in Nat
         /\ \A k \in Answered(n) : /\ k \in 1 .. n
                                   /\ Cardinality(Answered(k)) <= Cardinality(Answered(n))
                                   /\ Cardinality(Answered(k)) \in Nat \ {0}
PROOF
<1>1. \A k \in Nat : IsFiniteSet(Answered(k)) /\ Cardinality(Answered(k)) \in Nat
  <2> SUFFICES ASSUME NEW k \in Nat
               PROVE  IsFiniteSet(Answered(k)) /\ Cardinality(Answered(k)) \in Nat
    OBVIOUS
  <2>1. IsFiniteSet(1 .. k)
    BY FS_Interval
  <2>2. Answered(k) \in SUBSET (1 .. k)
    BY DEF Answered
  <2>3. IsFiniteSet(Answered(k))
    BY <2>1, <2>2, FS_Subset
  <2> QED
    BY <2>3, FS_CardinalityType
<1>2. ASSUME NEW k \in Answered(n)
      PROVE  /\ k \in 1 .. n
             /\ Cardinality(Answered(k)) <= Cardinality(Answered(n))
             /\ Cardinality(Answered(k)) \in Nat \ {0}
  <2>1. k \in 1 .. n /\ k \in Answered(k) /\ Answered(k) \in SUBSET Answered(n)
    BY DEF Answered
  <2>2. Cardinality(Answered(k)) <= Cardinality(Answered(n))
    BY <1>1, <2>1, FS_Subset
  <2>3. Cardinality(Answered(k)) # 0
    BY <1>1, <2>1, FS_EmptySet
  <2> QED
    BY <1>1, <2>1, <2>2, <2>3
<1> QED
  BY <1>1, <1>2

\* The next frame is answered unless it is blank.
LEMMA AnsweredGrows ==
  ASSUME NEW n \in Nat
  PROVE  /\ Skipped(lines[n + 1]) => Answered(n + 1) = Answered(n)
         /\ ~Skipped(lines[n + 1]) =>
              /\ Answered(n + 1) = Answered(n) \cup {n + 1}
              /\ Cardinality(Answered(n + 1)) = Cardinality(Answered(n)) + 1
PROOF
<1>1. \A j : j \in 1 .. n + 1 <=> j \in 1 .. n \/ j = n + 1
  OBVIOUS
<1>2. Skipped(lines[n + 1]) => Answered(n + 1) = Answered(n)
  BY <1>1 DEF Answered
<1>3. ~Skipped(lines[n + 1]) => Answered(n + 1) = Answered(n) \cup {n + 1}
  BY <1>1 DEF Answered
<1>4. n + 1 \notin Answered(n)
  BY DEF Answered
<1>5. IsFiniteSet(Answered(n))
  BY AnsweredIsFinite
<1> QED
  BY <1>2, <1>3, <1>4, <1>5, FS_AddElement

\* The current frame is answered.
LEMMA AckKeepsOrder ==
  ASSUME TcpInv, StreamInv, AcksFollowTheFrames, pc \in Verdicts, ~Skipped(Current),
         acks' = Append(acks, pc), UNCHANGED lines, pc' \notin Verdicts
  PROVE  AcksFollowTheFrames'
PROOF
<1>1. /\ lines \in Seq([verdict : Verdicts, text : Seq(Byte)]) /\ lines # << >>
      /\ acks \in Seq(Verdicts) /\ pc # "lost" /\ Current.verdict = pc
  BY DEF TcpInv, TcpTypeOK, StreamInv, Verdicts
<1>2. PICK n \in Nat : Len(lines) = n + 1
  <2>1. Len(lines) \in Nat /\ Len(lines) # 0
    BY <1>1, EmptySeq
  <2>2. Len(lines) - 1 \in Nat /\ Len(lines) = (Len(lines) - 1) + 1
    BY <2>1
  <2> QED
    BY <2>2
<1>3. /\ Len(lines) - Due = n /\ (Len(lines) - Due)' = n + 1
      /\ ~Skipped(lines[n + 1]) /\ lines[n + 1].verdict = pc
  BY <1>1, <1>2 DEF Due, Current
<1>4. \A k : Answered(k)' = Answered(k)
  BY DEF Answered, Skipped, Blank
<1>5. /\ Len(acks) = Cardinality(Answered(n))
      /\ \A k \in Answered(n) : acks[Cardinality(Answered(k))] = lines[k].verdict
  BY <1>1, <1>3 DEF AcksFollowTheFrames
<1>6. /\ Answered(n + 1) = Answered(n) \cup {n + 1}
      /\ Cardinality(Answered(n + 1)) = Cardinality(Answered(n)) + 1
  BY <1>3, AnsweredGrows
<1>7. /\ Len(acks') = Len(acks) + 1 /\ acks'[Len(acks) + 1] = pc
      /\ \A i \in 1 .. Len(acks) : acks'[i] = acks[i]
  BY <1>1
<1>8. Len(acks') = Cardinality(Answered(n + 1))
  BY <1>5, <1>6, <1>7
<1>9. ASSUME NEW k \in Answered(n + 1)
      PROVE  acks'[Cardinality(Answered(k))] = lines[k].verdict
  <2>1. CASE k = n + 1
    BY <1>3, <1>5, <1>6, <1>7, <2>1
  <2>2. CASE k \in Answered(n)
    <3>1. Cardinality(Answered(k)) \in 1 .. Len(acks)
      BY <1>5, <2>2, AnsweredIsFinite
    <3> QED
      BY <1>5, <1>7, <2>2, <3>1
  <2> QED
    BY <1>6, <2>1, <2>2
<1> QED
  BY <1>3, <1>4, <1>8, <1>9 DEF AcksFollowTheFrames

LEMMA StepsKeepAcks ==
  ASSUME TcpAssumption, TcpInv, StreamInv, AcksFollowTheFrames, [TcpNext]_vars
  PROVE  AcksFollowTheFrames'
PROOF
<1>0. lines \in Seq([verdict : Verdicts, text : Seq(Byte)]) /\ Len(lines) \in Nat
  BY DEF TcpInv, TcpTypeOK
<1>1. ASSUME UNCHANGED <<lines, acks>>, Due' = Due, pc # "lost"
      PROVE  AcksFollowTheFrames'
  <2>1. \A k : Answered(k)' = Answered(k)
    BY <1>1 DEF Answered, Skipped, Blank
  <2> QED
    BY <1>1, <2>1 DEF AcksFollowTheFrames
<1>2. CASE UNCHANGED vars
  <2>1. (pc = "lost") => (pc' = "lost")
    BY <1>2 DEF vars
  <2>2. UNCHANGED <<lines, acks>> /\ Due' = Due
    BY <1>2 DEF vars, Due
  <2> QED
    BY <1>1, <2>1, <2>2 DEF AcksFollowTheFrames
<1>3. CASE TcpNext /\ lines' # lines
  <2>1. pc = "read" /\ pc # "lost"
    BY <1>3, GivingSteps
  <2>2. PICK verdict \in Verdicts, text \in Seq(Byte) : \E consumed : Give(verdict, text, consumed)
    BY <1>3, GivingSteps
  <2> DEFINE given == [verdict |-> verdict, text |-> text]
  <2>3. /\ lines' = Append(lines, given) /\ acks' = acks /\ pc' \in Verdicts
    BY <2>2 DEF Give
  <2>4. Len(lines) - Due = Len(lines) /\ (Len(lines) - Due)' = Len(lines)
    <3>1. Due = 0 /\ Due' = 1 /\ Len(lines') = Len(lines) + 1
      BY <1>0, <2>1, <2>3 DEF Due, Verdicts
    <3> QED
      BY <1>0, <3>1
  <2>5. \A k \in 1 .. Len(lines) : lines'[k] = lines[k]
    BY <1>0, <2>3
  <2>6. \A k \in 0 .. Len(lines) : Answered(k)' = Answered(k)
    <3> SUFFICES ASSUME NEW k \in 0 .. Len(lines)
                 PROVE  Answered(k)' = Answered(k)
      OBVIOUS
    <3>1. \A j \in 1 .. k : lines'[j] = lines[j]
      BY <1>0, <2>5
    <3>2. \A j \in 1 .. k : Skipped(lines[j])' <=> Skipped(lines[j])
      BY <3>1 DEF Skipped, Blank
    <3> QED
      BY <3>2 DEF Answered
  <2>7. Len(lines) \in 0 .. Len(lines)
    BY <1>0
  <2>8. \A k \in Answered(Len(lines)) : k \in 0 .. Len(lines) /\ k \in 1 .. Len(lines)
    BY <1>0 DEF Answered
  <2>9. /\ Len(acks) = Cardinality(Answered(Len(lines)))
        /\ \A k \in Answered(Len(lines)) :
             acks[Cardinality(Answered(k))] = lines[k].verdict
    BY <2>1, <2>4 DEF AcksFollowTheFrames
  <2>10. PICK n \in Nat : n = Len(lines)
    BY <1>0
  <2>11. Answered(n)' = Answered(n)
    BY <2>6, <2>7, <2>10
  <2>12. /\ Len(acks') = Cardinality(Answered(n)')
         /\ \A k \in Answered(n)' :
              acks'[Cardinality(Answered(k)')] = lines'[k].verdict
    <3>1. \A k \in Answered(n) : /\ Answered(k)' = Answered(k)
                                 /\ lines'[k] = lines[k]
      BY <2>5, <2>6, <2>8, <2>10
    <3> QED
      BY <2>3, <2>9, <2>10, <2>11, <3>1
  <2> QED
    BY <2>4, <2>10, <2>12 DEF AcksFollowTheFrames
<1>4. CASE TcpNext /\ lines' = lines
  <2>1. \/ UNCHANGED acks /\ pc' = pc /\ pc = "read"
        \/ EndOfInput /\ pc' = "end"
        \/ SkipBlank \/ Answer \/ Refuse \/ Fail
    <3>1. \/ pc' = pc /\ start' = start /\ pc = "read"
          \/ EndOfInput /\ pc' = "end" /\ start' = start
          \/ SkipBlank \/ Answer \/ Refuse \/ Fail
      BY <1>4, GivingSteps
    <3>2. pc = "read" => UNCHANGED acks \/ Fail
      BY <1>4 DEF TcpNext, Serve, Fill, ScanSplitDelimiter, Scan, ScanAs, EndOfInput,
         TooLarge, Give, SkipBlank, Answer, Refuse, NextFrame
    <3> QED
      BY <3>1, <3>2
  <2>2. CASE UNCHANGED acks /\ pc' = pc /\ pc = "read"
    BY <1>1, <1>4, <2>2 DEF Due
  <2>3. CASE EndOfInput /\ pc' = "end"
    <3>1. pc = "read" /\ acks' = acks
      BY <2>3 DEF EndOfInput, TooLarge, Give
    <3> QED
      BY <1>1, <1>4, <2>3, <3>1 DEF Due, Verdicts
  <2>4. CASE SkipBlank
    <3>1. pc = "line" /\ Skipped(Current) /\ acks' = acks /\ pc' = "read"
      BY <2>4 DEF SkipBlank, NextFrame
    <3>2. lines # << >>
      BY <3>1 DEF StreamInv, Verdicts
    <3>3. PICK n \in Nat : Len(lines) = n + 1
      <4>1. Len(lines) # 0
        BY <1>0, <3>2, EmptySeq
      <4>2. Len(lines) - 1 \in Nat /\ Len(lines) = (Len(lines) - 1) + 1
        BY <1>0, <4>1
      <4> QED
        BY <4>2
    <3>4. /\ Len(lines) - Due = n /\ (Len(lines) - Due)' = n + 1
          /\ Skipped(lines[n + 1])
      BY <1>4, <3>1, <3>3 DEF Due, Current, Verdicts
    <3>5. \A k : Answered(k)' = Answered(k)
      BY <1>4 DEF Answered, Skipped, Blank
    <3>6. Answered(n + 1) = Answered(n)
      BY <3>4, AnsweredGrows
    <3> QED
      BY <1>4, <3>1, <3>4, <3>5, <3>6 DEF AcksFollowTheFrames
  <2>5. CASE Answer
    <3>1. /\ pc \in Verdicts /\ ~Skipped(Current) /\ acks' = Append(acks, pc)
          /\ pc' \notin Verdicts
      BY <2>5 DEF Answer, NextFrame, Verdicts
    <3> QED
      BY <1>4, <3>1, AckKeepsOrder
  <2>6. CASE Refuse
    <3>1. /\ pc \in Verdicts /\ acks' = Append(acks, pc) /\ pc' \notin Verdicts
          /\ pc = "too_large"
      BY <2>6 DEF Refuse, Verdicts
    <3>2. ~Skipped(Current)
      BY <3>1 DEF StreamInv, Skipped
    <3> QED
      BY <1>4, <3>1, <3>2, AckKeepsOrder
  <2>7. CASE Fail
    BY <2>7 DEF Fail, AcksFollowTheFrames
  <2> QED
    BY <2>1, <2>2, <2>3, <2>4, <2>5, <2>6, <2>7
<1> QED
  BY <1>2, <1>3, <1>4

\* On every connection each frame that is not blank gets its answer, once and in
\* its place, before the next is read (tcp.rs:116-154).
THEOREM AcksAlwaysFollowTheFrames ==
  ASSUME TcpAssumption
  PROVE  TcpSpec => []AcksFollowTheFrames
PROOF
<1>1. TcpInit => AcksFollowTheFrames
  <2> SUFFICES ASSUME TcpInit PROVE AcksFollowTheFrames
    OBVIOUS
  <2>1. lines = << >> /\ acks = << >> /\ Due = 0 /\ Len(lines) - Due = 0
    BY DEF TcpInit, Due, Verdicts
  <2>2. Answered(0) = {}
    BY DEF Answered
  <2>3. Len(acks) = 0 /\ Cardinality(Answered(0)) = 0
    BY <2>1, <2>2, FS_EmptySet
  <2> QED
    BY <2>1, <2>2, <2>3 DEF AcksFollowTheFrames
<1>2. TcpInv /\ StreamInv /\ AcksFollowTheFrames /\ [TcpNext]_vars => AcksFollowTheFrames'
  BY StepsKeepAcks
<1> QED
  BY <1>1, <1>2, TcpInvHolds, StreamInvHolds, PTL DEF TcpSpec
=============================================================================
