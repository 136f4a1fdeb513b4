----------------------------- MODULE Session_proofs -----------------------------
(***************************************************************************)
(* A client that streams events over one connection gets its answers in    *)
(* order, for any script, window and sockets: proofs about Session.        *)
(***************************************************************************)
EXTENDS Session, FiniteSetTheorems, SequenceTheorems, TLAPS

\* Once the session is over it has no answer left to write.
SessionInv ==
  /\ SessionTypeOK
  /\ AnswersFollowTheMessages
  /\ session # "open" => pending = << >>

\* A message calls for an answer exactly if the session answers it.
LEMMA AnsweredIsExpected ==
  ASSUME SessionTypeOK, NEW i \in DOMAIN script
  PROVE  Answered(script[i]) <=> Expects(script[i])
<1>1. script[i] \in TcpKinds \cup WebsocketKinds
  BY SessionAssumption DEF SessionTypeOK
<1> QED
  BY <1>1 DEF TcpKinds, WebsocketKinds, Answered, Expects

\* A message that moves from one queue to the next.
LEMMA HeadMoves ==
  ASSUME NEW S, NEW s \in Seq(S), NEW t \in Seq(S), t # << >>
  PROVE  /\ Append(s, Head(t)) \in Seq(S) /\ Tail(t) \in Seq(S)
         /\ Len(Tail(t)) = Len(t) - 1
         /\ Append(s, Head(t)) \o Tail(t) = s \o t
<1>1. Head(t) \in S /\ Tail(t) \in Seq(S) /\ Len(Tail(t)) = Len(t) - 1
  BY HeadTailProperties
<1>2. Append(s, Head(t)) \in Seq(S)
  BY <1>1
<1>3. Append(s, Head(t)) = s \o <<Head(t)>>
  BY <1>1, AppendIsConcat
<1>4. <<Head(t)>> \in Seq(S) /\ t = <<Head(t)>> \o Tail(t)
  BY <1>1
<1>5. (s \o <<Head(t)>>) \o Tail(t) = s \o (<<Head(t)>> \o Tail(t))
  BY <1>1, <1>4, ConcatAssociative
<1> QED
  BY <1>1, <1>2, <1>3, <1>4, <1>5

\* Answers that move from the session to its socket, or are lost with it.
LEMMA ThreeQueues ==
  ASSUME NEW s \in Seq(Nat), NEW t \in Seq(Nat), NEW u \in Seq(Nat)
  PROVE  /\ (s \o (t \o u)) \o << >> = (s \o t) \o u
         /\ DOMAIN s \subseteq DOMAIN ((s \o t) \o u)
         /\ \A i \in DOMAIN s : ((s \o t) \o u)[i] = s[i]
<1>1. s \o t \in Seq(Nat) /\ t \o u \in Seq(Nat)
  BY ConcatProperties
<1>2. s \o (t \o u) \in Seq(Nat)
  BY <1>1, ConcatProperties
<1>3. (s \o t) \o u = s \o (t \o u)
  BY ConcatAssociative, SMTT(30)
<1>4. (s \o (t \o u)) \o << >> = s \o (t \o u)
  BY <1>2, ConcatEmptySeq
<1>5. /\ DOMAIN s = 1 .. Len(s) /\ Len(s) \in Nat /\ Len(t \o u) \in Nat
      /\ DOMAIN (s \o (t \o u)) = 1 .. Len(s \o (t \o u))
  BY <1>1, <1>2, LenProperties
<1>6. /\ Len(s \o (t \o u)) = Len(s) + Len(t \o u)
      /\ \A i \in 1 .. Len(s) : (s \o (t \o u))[i] = s[i]
  BY <1>1, <1>5, ConcatProperties
<1> QED
  BY <1>3, <1>4, <1>5, <1>6

LEMMA AskedFinite ==
  ASSUME NEW n \in Nat
  PROVE  IsFiniteSet(Asked(n)) /\ Cardinality(Asked(n)) \in Nat
<1>1. IsFiniteSet(1 .. n)
  BY FS_Interval
<1>2. Asked(n) \in SUBSET (1 .. n)
  BY DEF Asked
<1> QED
  BY <1>1, <1>2, FS_Subset, FS_CardinalityType

LEMMA AskedGrows ==
  ASSUME NEW n \in Nat, NEW m \in Nat, n <= m
  PROVE  /\ Asked(n) \subseteq Asked(m)
         /\ Cardinality(Asked(n)) <= Cardinality(Asked(m))
<1>1. Asked(n) \in SUBSET Asked(m)
  BY DEF Asked
<1> QED
  BY <1>1, AskedFinite, FS_Subset

LEMMA AskedNext ==
  ASSUME NEW n \in Nat
  PROVE  /\ Expects(script[n + 1]) =>
              /\ n + 1 \in Asked(n + 1)
              /\ Cardinality(Asked(n + 1)) = Cardinality(Asked(n)) + 1
         /\ ~Expects(script[n + 1]) => Asked(n + 1) = Asked(n)
<1>1. n + 1 \notin Asked(n)
  BY DEF Asked
<1>2. Expects(script[n + 1]) => Asked(n + 1) = Asked(n) \cup {n + 1}
  BY DEF Asked
<1>3. ~Expects(script[n + 1]) => Asked(n + 1) = Asked(n)
  BY DEF Asked
<1> QED
  BY <1>1, <1>2, <1>3, AskedFinite, FS_AddElement

\* An ordered answer list may grow by the answer to the next message that calls
\* for one.
Ordered(s, n) ==
  \A i \in DOMAIN s : s[i] \in Asked(n) /\ Cardinality(Asked(s[i])) = i

LEMMA InitHolds == SessionInit => SessionInv
<1> SUFFICES ASSUME SessionInit PROVE SessionInv
  OBVIOUS
<1>1. SessionTypeOK
  <2>1. Len(script) \in Nat
    BY SessionAssumption DEF SessionInit
  <2> QED
    BY <2>1, SessionAssumption DEF SessionInit, SessionTypeOK
<1>2. Answers = << >>
  BY DEF SessionInit, Answers
<1>3. Asked(0) = {}
  BY DEF Asked
<1>4. Cardinality({}) = 0
  BY FS_EmptySet
<1> QED
  BY <1>1, <1>2, <1>3, <1>4, SMTT(30) DEF SessionInit, SessionInv, AnswersFollowTheMessages

LEMMA NextKeeps == SessionInv /\ [SessionNext]_vars => SessionInv'
<1> SUFFICES ASSUME SessionInv, [SessionNext]_vars PROVE SessionInv'
  OBVIOUS
<1>0. /\ SessionTypeOK /\ AnswersFollowTheMessages
      /\ session # "open" => pending = << >>
      /\ Len(script) \in Nat /\ sent \in Nat /\ taken \in Nat
      /\ DOMAIN script = 1 .. Len(script)
      /\ pending \in Seq(Nat) /\ down \in Seq(Nat) /\ heard \in Seq(Nat)
  BY SessionAssumption DEF SessionInv, SessionTypeOK
<1>seq. pending \in Seq(Nat) /\ down \in Seq(Nat) /\ heard \in Seq(Nat)
  BY <1>0
<1>1. CASE UNCHANGED vars
  <2>1. UNCHANGED <<script, window, sent, taken, pending, down, heard, session>>
    BY <1>1 DEF vars
  <2>2. SessionTypeOK'
    BY <1>0, <2>1 DEF SessionTypeOK
  <2>3. AnswersFollowTheMessages'
    <3>1. Answers' = Answers
      BY <2>1 DEF Answers
    <3>2. \A n : Asked(n)' = Asked(n)
      BY <2>1 DEF Asked, Expects
    <3> HIDE DEF Asked
    <3> QED
      BY <1>0, <2>1, <3>1, <3>2 DEF AnswersFollowTheMessages
  <2>4. (session # "open" => pending = << >>)'
    BY <1>0, <2>1
  <2> QED
    BY <2>2, <2>3, <2>4 DEF SessionInv
<1>2. CASE ClientWrites
  <2>1. UNCHANGED <<script, window, taken, pending, down, heard, session>> /\ sent' = sent + 1
        /\ sent < Len(script)
    BY <1>2 DEF ClientWrites, Writing
  <2>2. SessionTypeOK'
    BY <1>0, <2>1 DEF SessionTypeOK
  <2> QED
    BY <1>0, <2>1, <2>2, ZenonT(30) DEF SessionInv, AnswersFollowTheMessages, Answers, Asked
<1>3. CASE ClientReads
  <2>1. /\ UNCHANGED <<script, window, sent, taken, pending, session>> /\ down # << >>
        /\ heard' = Append(heard, Head(down)) /\ down' = Tail(down)
    BY <1>3 DEF ClientReads
  <2>2. SessionTypeOK'
    <3>1. heard \in Seq(1 .. taken) /\ down \in Seq(1 .. taken)
      BY <1>0 DEF SessionTypeOK
    <3>2. /\ heard' \in Seq(1 .. taken) /\ down' \in Seq(1 .. taken)
          /\ Len(down') = Len(down) - 1
      BY <2>1, <3>1, HeadMoves
    <3>3. Len(down) \in Nat /\ Len(down) <= DownCapacity
      BY <1>0 DEF SessionTypeOK
    <3>4. Len(down') <= DownCapacity
      BY <3>2, <3>3, SessionAssumption
    <3> QED
      BY <1>0, <2>1, <3>2, <3>4 DEF SessionTypeOK
  <2>3. heard' \o down' = heard \o down
    <3>1. Append(heard, Head(down)) \o Tail(down) = heard \o down
      BY <1>seq, <2>1, HeadMoves
    <3> QED
      BY <2>1, <3>1
  <2>4. Answers' = Answers
    BY <2>1, <2>3 DEF Answers
  <2> QED
    BY <1>0, <2>1, <2>2, <2>4 DEF SessionInv, AnswersFollowTheMessages, Asked
<1>4. CASE Take
  <2> DEFINE kind == script[taken + 1]
  <2>1. /\ session = "open" /\ pending = << >> /\ taken < sent /\ taken' = taken + 1
        /\ pending' = IF Answered(kind) THEN <<taken + 1>> ELSE << >>
        /\ session' = IF Final(kind) /\ ~Answered(kind) THEN "closed" ELSE "open"
        /\ UNCHANGED <<script, window, sent, down, heard>>
    BY <1>4 DEF Take, TakeAs
  <2>2. SessionTypeOK'
    <3>1. taken + 1 \in 1 .. taken + 1 /\ 1 .. taken \subseteq 1 .. taken + 1
      BY <1>0
    <3>2. \A n : <<n>> \in Seq({n}) /\ Len(<<n>>) = 1
      OBVIOUS
    <3>3. <<taken + 1>> \in Seq(1 .. taken + 1) /\ << >> \in Seq(1 .. taken + 1)
      BY <3>1, <3>2, SeqMonotonic, EmptySeq
    <3>5. pending' \in Seq(1 .. taken') /\ Len(pending') <= 1
      <4>1. pending' = <<taken + 1>> \/ pending' = << >>
        BY <2>1
      <4>2. Len(<<taken + 1>>) = 1 /\ Len(<< >>) = 0
        OBVIOUS
      <4>3. pending' \in Seq(1 .. taken + 1)
        BY <3>3, <4>1
      <4>4. Len(pending') = 1 \/ Len(pending') = 0
        BY <4>1, <4>2, Zenon
      <4>5. Len(pending') <= 1
        <5>1. 1 <= 1 /\ 0 <= 1
          OBVIOUS
        <5> QED
          BY <4>4, <5>1, Zenon
      <4> QED
        BY <2>1, <4>3, <4>5
    <3>4. down' \in Seq(1 .. taken') /\ heard' \in Seq(1 .. taken')
      BY <1>0, <2>1, <3>1, SeqMonotonic DEF SessionTypeOK
    <3> QED
      BY <1>0, <2>1, <3>5, <3>4 DEF SessionTypeOK
  <2>3. Answered(kind) <=> Expects(kind)
    BY <1>0, <2>1, AnsweredIsExpected, SMTT(30) DEF SessionTypeOK
  <2>4. Answers = heard \o down /\ Answers \in Seq(Nat)
    BY <1>0, <2>1 DEF Answers
  <2>5. Ordered(Answers, taken) /\ Len(Answers) = Cardinality(Asked(taken))
    BY <1>0, <2>1 DEF AnswersFollowTheMessages, Ordered
  <2>6. \A n : Asked(n)' = Asked(n)
    BY <2>1 DEF Asked
  <2>7. CASE Expects(kind)
    <3>1. Answers' = Append(Answers, taken + 1)
      BY <1>0, <2>1, <2>3, <2>4, <2>7 DEF Answers
    <3>2. /\ taken + 1 \in Asked(taken + 1)
          /\ Cardinality(Asked(taken + 1)) = Len(Answers) + 1
      BY <1>0, <2>5, <2>7, AskedNext
    <3>3. Asked(taken) \subseteq Asked(taken + 1)
      BY <1>0, AskedGrows
    <3>4. Ordered(Append(Answers, taken + 1), taken + 1)
      BY <2>4, <2>5, <3>2, <3>3 DEF Ordered
    <3>5. Len(Append(Answers, taken + 1)) = Len(Answers) + 1
      BY <2>4
    <3> QED
      BY <1>0, <2>1, <2>2, <2>3, <2>6, <2>7, <3>1, <3>2, <3>4, <3>5
      DEF SessionInv, AnswersFollowTheMessages, Ordered
  <2>8. CASE ~Expects(kind)
    <3>1. Answers' = Answers /\ pending' = << >>
      BY <1>0, <2>1, <2>3, <2>4, <2>8 DEF Answers
    <3>2. Asked(taken + 1) = Asked(taken)
      BY <1>0, <2>8, AskedNext
    <3> QED
      BY <2>1, <2>2, <2>5, <2>6, <3>1, <3>2
      DEF SessionInv, AnswersFollowTheMessages, Ordered
  <2> QED
    BY <2>7, <2>8
<1>5. CASE Reply
  <2>1. /\ session = "open" /\ pending # << >> /\ Len(down) < DownCapacity
        /\ down' = down \o pending /\ pending' = << >>
        /\ session' \in {"open", "closed"}
        /\ UNCHANGED <<script, window, sent, taken, heard>>
    BY <1>5 DEF Reply
  <2>2. SessionTypeOK'
    BY <1>0, <2>1, SessionAssumption DEF SessionTypeOK
  <2>3. Answers' = heard \o (down \o pending) \o << >> /\ Answers = heard \o down \o pending
    BY <2>1 DEF Answers
  <2>4. Answers' = Answers
    <3>1. (heard \o (down \o pending)) \o << >> = (heard \o down) \o pending
      BY <1>seq, ThreeQueues
    <3> QED
      BY <2>3, <3>1
  <2> QED
    BY <1>0, <2>1, <2>2, <2>4 DEF SessionInv, AnswersFollowTheMessages, Asked
<1>6. CASE Break
  <2>1. /\ session' = "lost" /\ pending' = << >> /\ down' = << >>
        /\ UNCHANGED <<script, window, sent, taken, heard>>
    BY <1>6 DEF Break
  <2>2. SessionTypeOK'
    BY <1>0, <2>1, SessionAssumption DEF SessionTypeOK
  <2>3. Answers' = heard
    <3>1. Answers' = heard \o << >> \o << >>
      BY <2>1 DEF Answers
    <3>2. heard \o << >> = heard
      BY <1>seq, ConcatEmptySeq
    <3> QED
      BY <3>1, <3>2
  <2>4. DOMAIN heard \subseteq DOMAIN Answers /\ \A i \in DOMAIN heard : Answers[i] = heard[i]
    <3>1. PICK last \in Seq(Nat) : Answers = (heard \o down) \o last
      <4>1. CASE session = "open"
        BY <1>seq, <4>1, Zenon DEF Answers
      <4>2. CASE session # "open"
        <5>1. << >> \in Seq(Nat)
          BY EmptySeq
        <5> QED
          BY <4>2, <5>1, Zenon DEF Answers
      <4> QED
        BY <4>1, <4>2
    <3> QED
      BY <1>seq, <3>1, ThreeQueues, SMTT(30)
  <2> QED
    BY <1>0, <2>1, <2>2, <2>3, <2>4 DEF SessionInv, AnswersFollowTheMessages, Asked
<1> QED
  BY <1>1, <1>2, <1>3, <1>4, <1>5, <1>6 DEF SessionNext

\* What a client that can still write has unanswered, when both sides are stuck.
LEMMA StuckIsGreedy == SessionInv => OnlyGreedyClientsGetStuck
<1> SUFFICES ASSUME SessionInv, Stuck PROVE window > DownCapacity + 1
  BY DEF OnlyGreedyClientsGetStuck
<1>1. /\ SessionTypeOK /\ session = "open" /\ pending # << >>
      /\ Len(down) >= DownCapacity /\ Unanswered < window
      /\ Len(Answers) = Cardinality(Asked(taken))
  BY DEF SessionInv, Stuck, Writing, AnswersFollowTheMessages
<1>2. /\ sent \in Nat /\ taken \in Nat /\ taken <= sent /\ window \in Nat
      /\ Len(heard) \in Nat /\ Len(down) \in Nat /\ DownCapacity \in Nat
      /\ heard \in Seq(Nat) /\ down \in Seq(Nat) /\ pending \in Seq(Nat)
  BY <1>1, SessionAssumption DEF SessionTypeOK
<1>3. Answers = heard \o down \o pending /\ Len(pending) >= 1 /\ Len(pending) \in Nat
  BY <1>1, <1>2 DEF Answers
<1>4. Len(Answers) = Len(heard) + Len(down) + Len(pending)
  BY <1>2, <1>3
<1>5. /\ Cardinality(Asked(taken)) \in Nat /\ Cardinality(Asked(sent)) \in Nat
      /\ Cardinality(Asked(taken)) <= Cardinality(Asked(sent))
  BY <1>2, AskedFinite, AskedGrows
<1>6. Unanswered = Cardinality(Asked(sent)) - Len(heard)
  BY DEF Unanswered
<1> QED
  BY <1>1, <1>2, <1>3, <1>4, <1>5, <1>6

-----------------------------------------------------------------------------
LEMMA SessionInvHolds == SessionSpec => []SessionInv
<1> QED
  BY InitHolds, NextKeeps, PTL DEF SessionSpec

\* For any script, window and sockets: the types,
THEOREM SessionTypeCorrect == SessionSpec => []SessionTypeOK
<1>1. SessionInv => SessionTypeOK
  BY DEF SessionInv
<1> QED
  BY <1>1, SessionInvHolds, PTL

\* that the n-th answer belongs to the n-th message that calls for one,
THEOREM AnswersAlwaysFollowTheMessages == SessionSpec => []AnswersFollowTheMessages
<1>1. SessionInv => AnswersFollowTheMessages
  BY DEF SessionInv
<1> QED
  BY <1>1, SessionInvHolds, PTL

\* and that only a client with too wide a window comes to wait for a session that
\* waits for it.
THEOREM OnlyGreedyClientsEverGetStuck == SessionSpec => []OnlyGreedyClientsGetStuck
<1>1. SessionInv => OnlyGreedyClientsGetStuck
  BY StuckIsGreedy
<1> QED
  BY <1>1, SessionInvHolds, PTL
=============================================================================
