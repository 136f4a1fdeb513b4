---------------------------- MODULE TcpConnection ----------------------------
(***************************************************************************)
(* One connection of the raw TCP transport (src/ingest/tcp.rs): the server *)
(* side reads newline-delimited frames of at most MaxFrame bytes and       *)
(* answers them one by one.                                                *)
(*                                                                         *)
(* The client's bytes reach the BufReader in pieces cut anywhere; a read   *)
(* happens only when the buffer is used up.  read_bounded_line looks at    *)
(* the buffer up to the first LF, at its end it may have to put a CR aside *)
(* that turns out to be framing or payload with the next piece.            *)
(***************************************************************************)
EXTENDS Integers, Sequences, FiniteSets

CONSTANTS
  Byte, CR, LF,   \* bytes; CR and LF delimit frames
  BadByte,        \* a byte that no UTF-8 text has
  Streams,        \* what a client may send before it closes its side
  MaxFrame,       \* MAX_INGEST_PAYLOAD_BYTES
  BufferSize      \* the capacity of the BufReader

ASSUME TcpAssumption ==
  /\ CR \in Byte /\ LF \in Byte /\ CR # LF /\ BadByte \notin {CR, LF}
  /\ Streams \subseteq Seq(Byte)
  /\ MaxFrame \in Nat
  /\ BufferSize \in Nat \ {0}

VARIABLES
  input,    \* the client's bytes
  filled,   \* how many of them were read into the buffer
  pos,      \* how many of those were consumed
  start,    \* history: how many were consumed when the frame was begun
  frame,    \* the payload bytes of the frame so far
  pending,  \* pending_carriage_return
  pc,       \* "read", what read_bounded_line gave, "end" or "lost"
  lines,    \* history: everything read_bounded_line gave
  acks      \* the ack lines written, by what they answer

vars == <<input, filled, pos, start, frame, pending, pc, lines, acks>>

TcpInit ==
  /\ input \in Streams
  /\ filled = 0
  /\ pos = 0
  /\ start = 0
  /\ frame = << >>
  /\ pending = FALSE
  /\ pc = "read"
  /\ lines = << >>
  /\ acks = << >>

\* fill_buf on an empty buffer reads some of the bytes that have arrived.
Fill ==
  /\ pc = "read"
  /\ pos = filled
  /\ \E n \in 1 .. BufferSize : filled + n <= Len(input) /\ filled' = filled + n
  /\ UNCHANGED <<input, pos, start, frame, pending, pc, lines, acks>>

available == SubSeq(input, pos + 1, filled)

\* Where the first LF of the buffer is; 0 if it has none.
newline ==
  IF \E i \in DOMAIN available : available[i] = LF
    THEN CHOOSE i \in DOMAIN available :
           available[i] = LF /\ \A j \in 1 .. i - 1 : available[j] # LF
    ELSE 0

HasCR(s) == s # << >> /\ s[Len(s)] = CR
WithoutCR(s) == IF HasCR(s) THEN SubSeq(s, 1, Len(s) - 1) ELSE s

\* The verdict on a complete frame, and what is then done with it: the verdict is
\* kept in pc until it is answered, and the next frame begins empty.
Verdict(f) == IF \E i \in DOMAIN f : f[i] = BadByte THEN "invalid_utf8" ELSE "line"

Verdicts == {"line", "invalid_utf8", "too_large"}

Give(verdict, text, consumed) ==
  /\ pc' = verdict
  /\ lines' = Append(lines, [verdict |-> verdict, text |-> text])
  /\ pos' = consumed
  /\ UNCHANGED <<input, filled, start, frame, pending, acks>>

TooLarge == Give("too_large", << >>, pos)

\* A deferred CR and the LF that makes it framing.
ScanSplitDelimiter ==
  /\ pc = "read"
  /\ pos < filled
  /\ pending /\ newline = 1
  /\ Give(Verdict(frame), frame, pos + 1)

\* Otherwise a deferred CR is payload, and the buffer's share of the frame
\* follows: up to the LF, or all of it, a CR at its end put aside.
Deferred == IF pending THEN <<CR>> ELSE << >>
segment == SubSeq(available, 1, IF newline = 0 THEN Len(available) ELSE newline - 1)
Grown == frame \o Deferred \o WithoutCR(segment)

ScanAs(grown, refused, consumed) ==
  /\ pc = "read"
  /\ pos < filled
  /\ ~(pending /\ newline = 1)
  /\ IF refused THEN TooLarge
     ELSE IF newline = 0
       THEN /\ frame' = grown
            /\ pending' = HasCR(segment)
            /\ pos' = consumed
            /\ UNCHANGED <<input, filled, start, pc, lines, acks>>
       ELSE Give(Verdict(grown), grown, pos + newline)

\* Faulty variants: a CR put aside is forgotten; a frame is only measured when it
\* is complete; the limit itself is refused.
ScanDroppingCR ==
  LET grown == frame \o WithoutCR(segment)
  IN  ScanAs(grown, Len(grown) > MaxFrame, filled)
ScanUnbounded == ScanAs(Grown, newline # 0 /\ Len(Grown) > MaxFrame, filled)
ScanRefusingLimit == ScanAs(Grown, Len(Grown) >= MaxFrame, filled)

Scan == ScanAs(Grown, Len(Grown) > MaxFrame, filled)

\* Faulty variant: at the end only an empty frame is dealt with.
EndOfInputIfEmpty ==
  /\ pc = "read"
  /\ pos = filled /\ filled = Len(input)
  /\ frame \o Deferred = << >>
  /\ pc' = "end"
  /\ UNCHANGED <<input, filled, pos, start, frame, pending, lines, acks>>

\* The client has closed its side.  What is left is a frame without delimiter.
EndOfInput ==
  /\ pc = "read"
  /\ pos = filled /\ filled = Len(input)
  /\ LET rest == frame \o Deferred
     IN  IF Len(rest) > MaxFrame THEN TooLarge
         ELSE IF rest = << >>
           THEN /\ pc' = "end"
                /\ UNCHANGED <<input, filled, pos, start, frame, pending, lines, acks>>
           ELSE Give(Verdict(rest), rest, pos)

NextFrame ==
  /\ pc' = "read"
  /\ start' = pos
  /\ frame' = << >>
  /\ pending' = FALSE
  /\ UNCHANGED <<input, filled, pos, lines>>

\* A line of white space is skipped without an answer.  CR is the one white
\* space among the bytes of this model.
Blank(text) == \A i \in DOMAIN text : text[i] = CR
Skipped(given) == given.verdict = "line" /\ Blank(given.text)
Current == lines[Len(lines)]

SkipBlank ==
  /\ pc = "line" /\ Skipped(Current)
  /\ NextFrame
  /\ UNCHANGED acks

\* Faulty variant: a frame that is not UTF-8 is passed over in silence.
AnswerTextOnly ==
  /\ pc \in {"line", "invalid_utf8"} /\ ~Skipped(Current)
  /\ acks' = IF pc = "line" THEN Append(acks, pc) ELSE acks
  /\ NextFrame

\* Any other frame gets one ack, a line that of ingest_json.
Answer ==
  /\ pc \in {"line", "invalid_utf8"} /\ ~Skipped(Current)
  /\ acks' = Append(acks, pc)
  /\ NextFrame

\* After a frame that is too large the connection is closed.
Refuse ==
  /\ pc = "too_large"
  /\ acks' = Append(acks, pc)
  /\ pc' = "end"
  /\ UNCHANGED <<input, filled, pos, start, frame, pending, lines>>

\* A read fails, or the write of an ack.
Fail ==
  /\ \/ pc = "read" /\ pos = filled
     \/ pc \in Verdicts /\ ~Skipped(Current)
  /\ pc' = "lost"
  /\ UNCHANGED <<input, filled, pos, start, frame, pending, lines, acks>>

Serve == Fill \/ ScanSplitDelimiter \/ Scan \/ EndOfInput
           \/ SkipBlank \/ Answer \/ Refuse

TcpNext == Serve \/ Fail

\* The task of the connection runs on, provided that the client sends what it
\* has to send and reads its acks.
TcpSpec == TcpInit /\ [][TcpNext]_vars /\ WF_vars(Serve)
-----------------------------------------------------------------------------
\* The variables hold what they should (tcp.rs:11-16, 27-28).
TcpTypeOK ==
  /\ input \in Seq(Byte)
  /\ pos \in Nat /\ filled \in Nat /\ start \in Nat
  /\ start <= pos /\ pos <= filled /\ filled <= Len(input)
  /\ frame \in Seq(Byte)
  /\ pending \in BOOLEAN
  /\ pc \in {"read", "end", "lost"} \cup Verdicts
  /\ lines \in Seq([verdict : Verdicts, text : Seq(Byte)])
  /\ acks \in Seq(Verdicts)

\* The server holds at most MaxFrame bytes of a frame, however long the client
\* makes it and however it is cut (tcp.rs:18-19, 55, 70).
FrameIsBounded == Len(frame) <= MaxFrame

\* The stream from the start of the frame to its n-th byte.
Since(n) == SubSeq(input, start + 1, n)
NoLF(n) == \A i \in start + 1 .. n : input[i] # LF

\* Wherever the buffers were cut, what the server has of the frame it is reading
\* is all of it: no byte is lost, doubled or taken from the next frame, and a
\* CR is put aside only while the byte after it is unknown (tcp.rs:47-84).
FrameLosesNothing ==
  pc = "read" =>
    /\ frame \o Deferred = Since(pos)
    /\ NoLF(pos)
    /\ HasCR(frame) => pending

\* What read_bounded_line gives is the bytes up to the next LF, less a CR before
\* it, or all that is left; and it refuses only what is longer than MaxFrame
\* without its delimiter, wherever the cuts are (tcp.rs:23-91).
Delimited(given, n) ==
  /\ input[n] = LF /\ NoLF(n - 1)
  /\ given.text = WithoutCR(Since(n - 1))
Unfinished(given) ==
  NoLF(Len(input)) /\ given.text = Since(Len(input)) /\ given.text # << >>
Oversized(n) ==
  /\ NoLF(n)
  /\ \/ Len(WithoutCR(Since(n))) > MaxFrame
     \/ n = Len(input) /\ Len(Since(n)) > MaxFrame

Exact(given, consumed) ==
  \/ /\ given.verdict = Verdict(given.text)
     /\ Len(given.text) <= MaxFrame
     /\ \/ consumed \in start + 1 .. Len(input) /\ Delimited(given, consumed)
        \/ consumed = Len(input) /\ Unfinished(given)
  \/ /\ given = [verdict |-> "too_large", text |-> << >>]
     /\ \E n \in start + 1 .. Len(input) : Oversized(n)

EachFrameIsExact ==
  [][lines' # lines => Exact(lines'[Len(lines')], pos')]_vars

\* What the stream means, without buffers: the texts between the LFs, each less
\* the CR at its end, and what follows the last LF as it is.
LFs(n) == {i \in 1 .. n : input[i] = LF}
IsEnd(n, k) == n \in {0} \cup LFs(n) /\ Cardinality(LFs(n)) = k
End(k) == CHOOSE n \in 0 .. Len(input) : IsEnd(n, k)
Ended == Cardinality(LFs(Len(input)))
Text(k) ==
  IF k <= Ended THEN WithoutCR(SubSeq(input, End(k - 1) + 1, End(k) - 1))
                ELSE SubSeq(input, End(k - 1) + 1, Len(input))
TextCount == IF End(Ended) = Len(input) THEN Ended ELSE Ended + 1

Frame(text) ==
  IF Len(text) > MaxFrame THEN [verdict |-> "too_large", text |-> << >>]
                          ELSE [verdict |-> Verdict(text), text |-> text]

\* How the bytes are cut makes no difference: a connection gives the frames of
\* its stream, in their order and up to the first that is too large, all of them
\* when it ends (tcp.rs:23-91, 116-143).
GivesTheFrames ==
  /\ Len(lines) <= TextCount
  /\ \A k \in DOMAIN lines : lines[k] = Frame(Text(k))
  /\ \A k \in 1 .. Len(lines) - 1 : Len(Text(k)) <= MaxFrame
FramesIgnoreTheCuts ==
  /\ GivesTheFrames
  /\ pc = "end" =>
       \/ Len(lines) = TextCount
       \/ lines # << >> /\ Current.verdict = "too_large"

\* Every frame that is not blank is answered once, in its order, before the next
\* is read; one that is too large is answered last (tcp.rs:116-154).
Due == IF pc \in Verdicts THEN 1 ELSE 0
Answered(n) == {j \in 1 .. n : ~Skipped(lines[j])}
AcksFollowTheFrames ==
  pc # "lost" =>
    /\ Len(acks) = Cardinality(Answered(Len(lines) - Due))
    /\ \A k \in Answered(Len(lines) - Due) :
         acks[Cardinality(Answered(k))] = lines[k].verdict

\* When the client has closed its side the connection comes to its end, whatever is
\* in the frame and wherever the buffers were cut (tcp.rs:32-43, 118).
ConnectionEnds == <>(pc \in {"end", "lost"})
===============================================================================
