------------------------------ MODULE Feed_proofs -------------------------------
(***************************************************************************)
(* What a browser is shown, for any number of browsers and events and any  *)
(* sizes of ring, socket and table: proofs about the module Feed.          *)
(***************************************************************************)
EXTENDS Feed, FiniteSetTheorems, SequenceTheorems, TLAPS

\* The log counts its entries, and no entry is published twice.
LogInv ==
  /\ log \in Seq(Entries) /\ published \in Seq(Entries)
  /\ \A n \in DOMAIN log : log[n].seq = n
  /\ \A i, j \in DOMAIN published : published[i].seq = published[j].seq => i = j

LEMMA LogInvInit == Init => LogInv
BY DEF Init, LogInv

\* What a step of the log leaves as it was.
LogGrows ==
  /\ Len(log) <= Len(log') /\ Len(published) <= Len(published')
  /\ \A n \in DOMAIN log : log'[n] = log[n]
  /\ \A n \in DOMAIN published : published'[n] = published[n]

LEMMA LogInvNext ==
  ASSUME LogInv, Next
  PROVE  LogInv' /\ LogGrows
<1> USE DEF LogInv, LogGrows
<1>1. ASSUME NEW s \in Entries, Accept(s) PROVE LogInv' /\ LogGrows
  BY <1>1 DEF Accept
<1>2. ASSUME NEW n \in Numbers, Publish(n) PROVE LogInv' /\ LogGrows
  <2>1. n \in DOMAIN log /\ log[n] \in Entries /\ log[n].seq = n
    BY <1>2 DEF Publish
  <2>2. published' = Append(published, log[n]) /\ log' = log
    BY <1>2 DEF Publish
  <2>3. \A i \in DOMAIN published : published[i].seq # n
    BY <1>2 DEF Publish
  <2> QED
    BY <2>1, <2>2, <2>3
<1> QED
  BY <1>1, <1>2 DEF Next

-----------------------------------------------------------------------------
\* The places that a browser's messages are at, as they go from queue to queue.
Increasing(s) == \A i, j \in DOMAIN s : i < j => s[i] < s[j]

LEMMA HeadMoves ==
  ASSUME NEW s \in Seq(Nat), NEW t \in Seq(Nat), t # << >>
  PROVE  /\ Head(t) \in Nat
         /\ Append(s, Head(t)) \in Seq(Nat) /\ Tail(t) \in Seq(Nat)
         /\ Len(Tail(t)) = Len(t) - 1
         /\ Append(s, Head(t)) \o Tail(t) = s \o t
<1>1. Head(t) \in Nat /\ Tail(t) \in Seq(Nat) /\ Len(Tail(t)) = Len(t) - 1
  BY HeadTailProperties
<1>2. Append(s, Head(t)) \in Seq(Nat)
  BY <1>1
<1>3. Append(s, Head(t)) = s \o <<Head(t)>>
  BY <1>1, AppendIsConcat
<1>4. <<Head(t)>> \in Seq(Nat) /\ t = <<Head(t)>> \o Tail(t)
  BY <1>1
<1>5. (s \o <<Head(t)>>) \o Tail(t) = s \o (<<Head(t)>> \o Tail(t))
  BY <1>1, <1>4, ConcatAssociative, SMTT(30)
<1> QED
  BY <1>1, <1>2, <1>3, <1>4, <1>5

\* A frame enters the pipeline behind all that is in it; what was shown is its
\* front; a frame that is sent stays in its place.
LEMMA PipelineMoves ==
  ASSUME NEW s \in Seq(Nat), NEW t \in Seq(Nat), NEW x \in Nat
  PROVE  /\ (s \o t) \o << >> = s \o t
         /\ (s \o t) \o <<x>> = Append(s \o t, x)
         /\ (s \o Append(t, x)) \o << >> = (s \o t) \o <<x>>
         /\ s \o t \in Seq(Nat) /\ Append(t, x) \in Seq(Nat)
<1>1. s \o t \in Seq(Nat) /\ <<x>> \in Seq(Nat) /\ Append(t, x) \in Seq(Nat)
  BY ConcatProperties
<1>2. (s \o t) \o <<x>> = Append(s \o t, x)
  BY <1>1, AppendIsConcat
<1>3. Append(t, x) = t \o <<x>>
  BY AppendIsConcat
<1>4. s \o (t \o <<x>>) = (s \o t) \o <<x>>
  BY <1>1, ConcatAssociative
<1>5. s \o Append(t, x) \in Seq(Nat)
  BY <1>1, ConcatProperties
<1>6. (s \o Append(t, x)) \o << >> = s \o Append(t, x)
  BY <1>5, ConcatEmptySeq
<1>7. (s \o t) \o << >> = s \o t
  BY <1>1, ConcatEmptySeq
<1> QED
  BY <1>1, <1>2, <1>3, <1>4, <1>6, <1>7

LEMMA QueuesAssociate ==
  \A s, t, u \in Seq(Nat) : (s \o t) \o u = s \o (t \o u) /\ t \o u \in Seq(Nat)
BY ConcatAssociative, ConcatProperties, SMTT(30)

LEMMA Front ==
  ASSUME NEW s \in Seq(Nat), NEW t \in Seq(Nat), Increasing(s \o t)
  PROVE  Increasing(s) /\ Places(s) \subseteq Places(s \o t)
<1>1. /\ DOMAIN s \subseteq DOMAIN (s \o t)
      /\ \A i \in DOMAIN s : (s \o t)[i] = s[i]
  OBVIOUS
<1> QED
  BY <1>1 DEF Increasing, Places

LEMMA Behind ==
  ASSUME NEW s \in Seq(Nat), NEW x \in Nat, Increasing(s), \A p \in Places(s) : p < x
  PROVE  Increasing(Append(s, x)) /\ Places(Append(s, x)) = Places(s) \cup {x}
<1>1. /\ DOMAIN Append(s, x) = DOMAIN s \cup {Len(s) + 1}
      /\ Append(s, x)[Len(s) + 1] = x
      /\ \A i \in DOMAIN s : Append(s, x)[i] = s[i] /\ i \in 1 .. Len(s)
      /\ Len(s) \in Nat
  OBVIOUS
<1> QED
  BY <1>1 DEF Increasing, Places

-----------------------------------------------------------------------------
\* The row at place i of a table: frames from the top, the latest first, and below
\* them what the page was rendered with.
RowAt(b, i) ==
  IF i <= Len(got[b]) THEN published[got[b][Len(got[b]) + 1 - i]].seq
                      ELSE opened[b].stored + 1 - (i - Len(got[b]))

\* What is so of one browser and its session: of their phases, of the order of the
\* frames, of those that are missing, and of the table.
Phase(b) ==
  /\ browser[b] \in {"away", "page"} => wire[b] = << >>
  /\ browser[b] = "away" => got[b] = << >>
  /\ browser[b] = "live" => session[b] # "none" /\ since[b] > opened[b].published
  /\ session[b] = "sending" => since[b] < next[b]

InOrder(b) ==
  /\ Increasing(Pipeline(b))
  /\ \A p \in Places(Pipeline(b)) :
       opened[b].published < p /\ (browser[b] = "live" => p < next[b])

NoneMissing(b) ==
  browser[b] = "live" => \A p \in since[b] .. Len(published) :
    p \in Places(Pipeline(b)) \/ p >= next[b] \/ p + FeedCapacity <= Len(published)

Table(b) ==
  /\ opened[b].stored <= Len(log) /\ opened[b].published <= Len(published)
  /\ \A i \in DOMAIN rows[b] :
       rows[b][i] = RowAt(b, i) /\ (i > Len(got[b]) => RowAt(b, i) >= 1)

Own(b) == Phase(b) /\ InOrder(b) /\ NoneMissing(b) /\ Table(b)

FeedInv == LogInv /\ FeedTypeOK /\ \A b \in Browsers : Own(b)

LEMMA PipelineType ==
  ASSUME FeedTypeOK, NEW b \in Browsers
  PROVE  /\ got[b] \in Seq(Nat) /\ wire[b] \in Seq(Nat) /\ Held(b) \in Seq(Nat)
         /\ got[b] \o wire[b] \in Seq(Nat) /\ Pipeline(b) \in Seq(Nat)
<1>1. got[b] \in Seq(Nat) /\ wire[b] \in Seq(Nat) /\ next[b] - 1 \in Nat
  BY DEF FeedTypeOK
<1>2. Held(b) \in Seq(Nat)
  BY <1>1 DEF Held
<1>3. got[b] \o wire[b] \in Seq(Nat)
  BY <1>1, ConcatProperties
<1>4. (got[b] \o wire[b]) \o Held(b) \in Seq(Nat)
  BY <1>2, <1>3, ConcatProperties
<1> QED
  BY <1>1, <1>2, <1>3, <1>4 DEF Pipeline

LEMMA FeedInvInit == FeedInit => FeedInv
<1> SUFFICES ASSUME FeedInit PROVE FeedInv
  OBVIOUS
<1>1. LogInv /\ log = << >> /\ published = << >>
  BY LogInvInit DEF FeedInit, Init
<1>2. FeedTypeOK
  BY <1>1, FeedAssumption DEF FeedInit, FeedTypeOK, Places
<1>3. ASSUME NEW b \in Browsers PROVE Own(b)
  <2>1. Pipeline(b) = << >> /\ Places(<< >>) = {}
    BY DEF FeedInit, Pipeline, Places
  <2> QED
    BY <1>1, <2>1 DEF FeedInit, Own, Phase, InOrder, NoneMissing, Table, Increasing
<1> QED
  BY <1>1, <1>2, <1>3 DEF FeedInv

\* A browser that a step does not touch stays as it is, whatever the log does.
Untouched(b) ==
  /\ browser'[b] = browser[b] /\ rows'[b] = rows[b] /\ session'[b] = session[b]
  /\ next'[b] = next[b] /\ wire'[b] = wire[b] /\ since'[b] = since[b]
  /\ got'[b] = got[b] /\ opened'[b] = opened[b]

LEMMA OwnStays ==
  ASSUME FeedInv, LogInv', NEW b \in Browsers, Untouched(b), LogGrows
  PROVE  Own(b)'
<1>1. /\ Pipeline(b)' = Pipeline(b)
      /\ Len(published) \in Nat /\ Len(published') \in Nat
      /\ Len(log) \in Nat /\ Len(log') \in Nat
      /\ next[b] \in Nat /\ since[b] \in Nat /\ next[b] <= Len(published) + 1
      /\ opened[b].stored \in Nat /\ opened[b].published \in Nat /\ FeedCapacity \in Nat
  BY FeedAssumption DEF Untouched, Pipeline, Held, FeedInv, LogInv, FeedTypeOK
<1>2. Len(published) <= Len(published') /\ Len(log) <= Len(log')
  BY DEF LogGrows
<1>3. \A i \in DOMAIN rows[b] : RowAt(b, i)' = RowAt(b, i)
  <2> TAKE i \in DOMAIN rows[b]
  <2>1. CASE i <= Len(got[b])
    <3>1. i \in Nat \ {0} /\ got[b] \in Seq(Nat) /\ Places(got[b]) \subseteq DOMAIN published
      BY DEF FeedInv, FeedTypeOK
    <3>2. Len(got[b]) + 1 - i \in DOMAIN got[b]
      BY <2>1, <3>1
    <3>3. got[b][Len(got[b]) + 1 - i] \in DOMAIN published
      BY <3>1, <3>2 DEF Places
    <3> QED
      BY <2>1, <3>3 DEF Untouched, LogGrows, RowAt
  <2>2. CASE ~(i <= Len(got[b]))
    BY <2>2 DEF Untouched, RowAt
  <2> QED
    BY <2>1, <2>2
<1>4. browser[b] = "live" => \A p \in since[b] .. Len(published') :
        p \in Places(Pipeline(b)) \/ p >= next[b] \/ p + FeedCapacity <= Len(published')
  BY <1>1, <1>2 DEF FeedInv, Own, Phase, InOrder, NoneMissing, Table
<1>5. Own(b)
  BY DEF FeedInv
<1> QED
  BY <1>1, <1>2, <1>3, <1>4, <1>5
  DEF Own, Phase, InOrder, NoneMissing, Table, Untouched, Increasing, Places

\* FeedTypeOK in two parts, of all browsers and of one.
Types ==
  /\ browser \in [Browsers -> {"away", "page", "live", "closing"}]
  /\ session \in [Browsers -> {"none", "select", "sending"}]
  /\ rows \in [Browsers -> Seq(Numbers)]
  /\ next \in [Browsers -> Nat] /\ since \in [Browsers -> Nat]
  /\ got \in [Browsers -> Seq(Nat)] /\ wire \in [Browsers -> Seq(Nat)]
  /\ opened \in [Browsers -> [stored : Nat, published : Nat]]

Sized(b) ==
  /\ Len(rows[b]) <= MaxRows /\ Len(wire[b]) <= WireCapacity
  /\ since[b] \in 1 .. next[b] /\ next[b] <= Len(published) + 1
  /\ Places(got[b]) \cup Places(wire[b]) \subseteq DOMAIN published

LEMMA OneBrowser ==
  ASSUME FeedInv, UNCHANGED logVars, NEW b \in Browsers, Types', Sized(b)', Own(b)',
         \A c \in Browsers \ {b} : Untouched(c)
  PROVE  FeedInv'
<1>1. LogInv' /\ LogGrows
  BY DEF FeedInv, LogInv, LogGrows, logVars
<1>2. \A c \in Browsers \ {b} : Sized(c)'
  <2> TAKE c \in Browsers \ {b}
  <2>1. Sized(c)
    BY DEF FeedInv, FeedTypeOK, Sized
  <2> QED
    BY <2>1 DEF Sized, Untouched, Places, logVars
<1>3. FeedTypeOK'
  BY <1>2 DEF FeedTypeOK, Types, Sized
<1> QED
  BY <1>1, <1>3, OwnStays DEF FeedInv

\* What the steps of browser b need to know of it.
Known(b) ==
  /\ Own(b) /\ Types /\ Sized(b)
  /\ next[b] \in Nat /\ since[b] \in Nat /\ Len(published) \in Nat /\ Len(log) \in Nat
  /\ 1 <= since[b] /\ since[b] <= next[b] /\ next[b] <= Len(published) + 1
  /\ got[b] \in Seq(Nat) /\ wire[b] \in Seq(Nat)
  /\ opened[b].stored \in Nat /\ opened[b].published \in Nat
  /\ FeedCapacity \in Nat \ {0} /\ MaxRows \in Nat /\ WireCapacity \in Nat \ {0}
  /\ oldest \in Nat /\ 1 <= oldest /\ oldest <= Len(published) + 1
  /\ DOMAIN published = 1 .. Len(published)

LEMMA KnownHolds == FeedInv => \A b \in Browsers : Known(b)
<1> SUFFICES ASSUME FeedInv, NEW b \in Browsers PROVE Known(b)
  OBVIOUS
<1>1. Own(b) /\ Types /\ Sized(b)
  BY DEF FeedInv, FeedTypeOK, Types, Sized
<1>2. /\ Len(published) \in Nat /\ Len(log) \in Nat
      /\ DOMAIN published = 1 .. Len(published)
  BY DEF FeedInv, LogInv
<1>3. oldest \in Nat /\ 1 <= oldest /\ oldest <= Len(published) + 1
  BY <1>2, FeedAssumption DEF oldest
<1> QED
  BY <1>1, <1>2, <1>3, FeedAssumption, SMTT(30) DEF Known, Types, Sized

LEMMA OpenKeeps ==
  ASSUME FeedInv, NEW b \in Browsers, Open(b)
  PROVE  FeedInv'
<1>0. Known(b)
  BY KnownHolds
<1>1. /\ browser[b] = "away" /\ browser' = [browser EXCEPT ![b] = "page"]
      /\ rows' = [rows EXCEPT ![b] = feed_table]
      /\ opened' = [opened EXCEPT ![b] = [stored |-> Len(log), published |-> Len(published)]]
      /\ UNCHANGED <<logVars, session, next, wire, since, got>>
  BY DEF Open
<1>2. shown \in Nat /\ shown <= Len(log) /\ shown <= RecentRows
  BY FeedAssumption DEF shown
<1>3. \A i \in 1 .. shown : /\ Len(log) + 1 - i \in DOMAIN log
                           /\ log[Len(log) + 1 - i] \in Entries
                           /\ feed_table[i] = Len(log) + 1 - i
                           /\ feed_table[i] \in Numbers
  <2> TAKE i \in 1 .. shown
  <2>1. log \in Seq(Entries) /\ \A n \in DOMAIN log : log[n].seq = n
    BY DEF FeedInv, LogInv
  <2>2. Len(log) + 1 - i \in DOMAIN log
    BY <1>2, <2>1
  <2>3. feed_table[i] = log[Len(log) + 1 - i].seq
    BY DEF feed_table
  <2> QED
    BY <2>1, <2>2, <2>3, FeedAssumption
<1>4. feed_table \in Seq(Numbers) /\ Len(feed_table) = shown /\ DOMAIN feed_table = 1 .. shown
  BY <1>2, <1>3 DEF feed_table
<1>5. [stored |-> Len(log), published |-> Len(published)] \in [stored : Nat, published : Nat]
  BY <1>0 DEF Known
<1>6. Types'
  BY <1>0, <1>1, <1>4, <1>5 DEF Known, Types
<1>7. /\ browser'[b] = "page" /\ rows'[b] = feed_table
      /\ opened'[b] = [stored |-> Len(log), published |-> Len(published)]
      /\ got[b] = << >> /\ wire[b] = << >>
  BY <1>0, <1>1 DEF Known, Types, Own, Phase, InOrder, NoneMissing, Table
<1>8. opened'[b].stored = Len(log) /\ opened'[b].published = Len(published)
  BY <1>7
<1>9. \A i \in DOMAIN rows'[b] : rows'[b][i] = RowAt(b, i)' /\ RowAt(b, i)' >= 1
  <2> TAKE i \in DOMAIN rows'[b]
  <2>1. i \in 1 .. shown
    BY <1>4, <1>7
  <2>2. Len(got'[b]) = 0 /\ ~(i <= 0)
    BY <1>1, <1>2, <1>7, <2>1
  <2>3. RowAt(b, i)' = Len(log) + 1 - (i - 0)
    BY <2>2, <1>8 DEF RowAt
  <2>4. rows'[b][i] = Len(log) + 1 - i
    BY <2>1, <1>3, <1>7
  <2> QED
    BY <2>1, <2>3, <2>4, <1>0, <1>2 DEF Known
<1>10. Pipeline(b)' = << >>
  BY <1>1, <1>7 DEF Pipeline
<1>11. Own(b)'
  BY <1>0, <1>1, <1>7, <1>8, <1>9, <1>10
  DEF Known, Own, Phase, InOrder, NoneMissing, Table, Increasing, Places, logVars
<1>12. Sized(b)'
  BY <1>0, <1>1, <1>2, <1>4, <1>7, FeedAssumption DEF Known, Sized, logVars, Places
<1>13. \A c \in Browsers \ {b} : Untouched(c)
  BY <1>0, <1>1 DEF Untouched, Known, Types
<1> QED
  BY <1>1, <1>6, <1>11, <1>12, <1>13, OneBrowser

LEMMA ConnectKeeps ==
  ASSUME FeedInv, NEW b \in Browsers, Connect(b)
  PROVE  FeedInv'
<1>0. Known(b)
  BY KnownHolds
<1>1. /\ browser[b] = "page" /\ browser' = [browser EXCEPT ![b] = "live"]
      /\ session' = [session EXCEPT ![b] = "select"]
      /\ next' = [next EXCEPT ![b] = Len(published) + 1]
      /\ since' = [since EXCEPT ![b] = Len(published) + 1]
      /\ UNCHANGED <<logVars, rows, wire, got, opened>>
  BY DEF Connect, SubscribeAt
<1>2. Types'
  BY <1>0, <1>1, SMTT(30) DEF Known, Types
<1>3. /\ browser'[b] = "live" /\ session'[b] = "select" /\ wire[b] = << >>
      /\ next'[b] = Len(published) + 1 /\ since'[b] = Len(published) + 1
  BY <1>0, <1>1 DEF Known, Types, Own, Phase, InOrder, NoneMissing, Table
<1>4. Pipeline(b) = got[b] /\ Pipeline(b)' = (got[b] \o << >>) \o << >>
  BY <1>1, <1>3 DEF Pipeline, Held
<1>5. Pipeline(b)' = Pipeline(b)
  <2>1. got[b] \o << >> = got[b]
    BY <1>0, ConcatEmptySeq DEF Known
  <2> QED
    BY <1>4, <2>1
<1>6. \A p \in Places(Pipeline(b)) : p < next'[b]
  BY <1>0, <1>3, <1>4 DEF Known, Sized
<1>7. \A i \in DOMAIN rows[b] : RowAt(b, i)' = RowAt(b, i)
  BY <1>1 DEF RowAt, logVars
<1>8. Own(b)'
  BY <1>0, <1>1, <1>3, <1>5, <1>6, <1>7, SMTT(30)
  DEF Known, Own, Phase, InOrder, NoneMissing, Table, Increasing, Places, logVars
<1>9. Sized(b)'
  BY <1>0, <1>1, <1>3, SMTT(30) DEF Known, Sized, logVars, Places
<1>10. \A c \in Browsers \ {b} : Untouched(c)
  BY <1>0, <1>1 DEF Untouched, Known, Types
<1> QED
  BY <1>1, <1>2, <1>8, <1>9, <1>10, OneBrowser

\* The rows stay while neither the frames shown nor the log change.
LEMMA TableStays ==
  ASSUME NEW b \in Browsers, Known(b), UNCHANGED <<logVars, rows, got, opened>>
  PROVE  Table(b)'
<1>1. \A i \in DOMAIN rows[b] : RowAt(b, i)' = RowAt(b, i)
  BY DEF RowAt, logVars
<1> QED
  BY <1>1 DEF Known, Own, Table, logVars

LEMMA ReceiveKeeps ==
  ASSUME FeedInv, NEW b \in Browsers, Receive(b)
  PROVE  FeedInv'
<1>0. Known(b) /\ Pipeline(b) \in Seq(Nat) /\ got[b] \o wire[b] \in Seq(Nat)
  BY KnownHolds, PipelineType DEF FeedInv
<1>1. /\ session[b] = "select" /\ next[b] <= Len(published)
      /\ UNCHANGED <<logVars, browser, rows, wire, since, got, opened>>
  BY DEF Receive
<1>2. Table(b)'
  BY <1>0, <1>1, TableStays
<1>3. Pipeline(b) = IF browser[b] = "live" THEN (got[b] \o wire[b]) \o << >> ELSE got[b]
  BY <1>1 DEF Pipeline, Held
<1>4. \A p \in Places(Pipeline(b)) : p \in Nat
  BY <1>0 DEF Places
<1>5. CASE next[b] < oldest
  <2>1. next' = [next EXCEPT ![b] = oldest] /\ session' = session
    BY <1>5 DEF Receive
  <2>2. Types' /\ next'[b] = oldest
    BY <1>0, <1>1, <2>1 DEF Known, Types
  <2>3. Pipeline(b)' = Pipeline(b)
    BY <1>1, <1>3, <2>1 DEF Pipeline, Held
  <2>4. Len(published) > FeedCapacity /\ oldest = Len(published) - FeedCapacity + 1
    BY <1>0, <1>5 DEF Known, oldest
  <2>5. NoneMissing(b)'
    <3>1. \A p \in since[b] .. Len(published) :
            p >= oldest \/ p + FeedCapacity <= Len(published)
      BY <1>0, <2>4 DEF Known
    <3> QED
      BY <1>1, <2>2, <2>3, <3>1 DEF NoneMissing, logVars
  <2>6. InOrder(b)'
    <3>1. \A p \in Places(Pipeline(b)) : p < next[b] => p < oldest
      BY <1>0, <1>4, <1>5 DEF Known
    <3> QED
      BY <1>0, <1>1, <2>2, <2>3, <3>1 DEF Known, Own, InOrder, Increasing, Places
  <2>7. Phase(b)'
    BY <1>0, <1>1, <2>1 DEF Known, Own, Phase
  <2>8. Sized(b)'
    <3>1. since[b] \in 1 .. oldest /\ oldest <= Len(published) + 1
      BY <1>0, <1>5 DEF Known
    <3> QED
      BY <1>0, <1>1, <2>2, <3>1 DEF Known, Sized, Places, logVars
  <2>9. \A c \in Browsers \ {b} : Untouched(c)
    BY <1>0, <1>1, <2>1 DEF Untouched, Known, Types
  <2> QED
    BY <1>1, <1>2, <2>2, <2>5, <2>6, <2>7, <2>8, <2>9, OneBrowser DEF Own
<1>6. CASE ~(next[b] < oldest)
  <2>1. /\ next' = [next EXCEPT ![b] = next[b] + 1]
        /\ session' = [session EXCEPT ![b] = "sending"]
    BY <1>6 DEF Receive
  <2>2. Types' /\ next'[b] = next[b] + 1 /\ session'[b] = "sending"
    BY <1>0, <1>1, <2>1, SMTT(30) DEF Known, Types
  <2>3. Phase(b)'
    BY <1>0, <1>1, <2>2 DEF Known, Own, Phase
  <2>4. ASSUME browser[b] = "live" PROVE InOrder(b)' /\ NoneMissing(b)'
    <3>1. next[b] \in Nat /\ next[b] + 1 - 1 = next[b]
      BY <1>0 DEF Known
    <3>2. Pipeline(b)' = (got[b] \o wire[b]) \o <<next[b]>>
      <4>1. Held(b)' = <<next[b]>>
        BY <2>2, <3>1 DEF Held
      <4> QED
        BY <1>1, <2>4, <4>1 DEF Pipeline
    <3>3. got[b] \in Seq(Nat) /\ wire[b] \in Seq(Nat)
      BY <1>0 DEF Known
    <3>4. Pipeline(b)' = Append(Pipeline(b), next[b])
      <4>1. (got[b] \o wire[b]) \o << >> = got[b] \o wire[b]
        BY <1>0, ConcatEmptySeq
      <4>2. (got[b] \o wire[b]) \o <<next[b]>> = Append(got[b] \o wire[b], next[b])
        BY <1>0, <3>1, AppendIsConcat
      <4> QED
        BY <1>3, <2>4, <3>2, <4>1, <4>2
    <3>5. \A p \in Places(Pipeline(b)) : p < next[b] /\ opened[b].published < p
      BY <1>0, <2>4 DEF Known, Own, InOrder
    <3>6. Increasing(Pipeline(b))
      BY <1>0 DEF Known, Own, InOrder
    <3>7. /\ Increasing(Append(Pipeline(b), next[b]))
          /\ Places(Append(Pipeline(b), next[b])) = Places(Pipeline(b)) \cup {next[b]}
      BY <1>0, <3>1, <3>5, <3>6, Behind
    <3>8. Increasing(Pipeline(b))' /\ Places(Pipeline(b))' = Places(Pipeline(b)) \cup {next[b]}
      BY <3>4, <3>7 DEF Increasing, Places
    <3>9. next[b] < next[b] + 1 /\ opened[b].published < next[b]
      BY <1>0, <2>4 DEF Known, Own, Phase
    <3>10. \A p \in Places(Pipeline(b))' : p < next'[b] /\ opened[b].published < p
      BY <1>4, <2>2, <3>1, <3>5, <3>8, <3>9
    <3>11. InOrder(b)'
      BY <1>1, <3>8, <3>10 DEF InOrder
    <3>12. \A p \in since[b] .. Len(published) : p >= next[b] => p = next[b] \/ p >= next[b] + 1
      BY <1>0 DEF Known
    <3>13. \A p \in since[b] .. Len(published) :
             p \in Places(Pipeline(b)) \/ p >= next[b] \/ p + FeedCapacity <= Len(published)
      BY <1>0, <2>4 DEF Known, Own, NoneMissing
    <3>14. \A p \in since[b] .. Len(published) :
             p \in Places(Pipeline(b))' \/ p >= next'[b] \/ p + FeedCapacity <= Len(published)
      BY <2>2, <3>8, <3>12, <3>13
    <3>15. NoneMissing(b)'
      BY <1>1, <3>14 DEF NoneMissing, logVars
    <3> QED
      BY <3>11, <3>15
  <2>5. ASSUME browser[b] # "live" PROVE InOrder(b)' /\ NoneMissing(b)'
    <3>1. Pipeline(b)' = Pipeline(b)
      BY <1>1, <1>3, <2>5 DEF Pipeline
    <3>2. InOrder(b)'
      BY <1>0, <1>1, <2>5, <3>1 DEF Known, Own, InOrder, Increasing, Places
    <3>3. NoneMissing(b)'
      BY <1>1, <2>5 DEF NoneMissing, logVars
    <3> QED
      BY <3>2, <3>3
  <2>6. InOrder(b)' /\ NoneMissing(b)'
    BY <2>4, <2>5
  <2>7. Sized(b)'
    <3>1. since[b] \in 1 .. next[b] + 1 /\ next[b] + 1 <= Len(published) + 1
      BY <1>0, <1>1 DEF Known
    <3> QED
      BY <1>0, <1>1, <2>2, <3>1 DEF Known, Sized, Places, logVars
  <2>8. \A c \in Browsers \ {b} : Untouched(c)
    BY <1>0, <1>1, <2>1 DEF Untouched, Known, Types
  <2> QED
    BY <1>1, <1>2, <2>2, <2>3, <2>6, <2>7, <2>8, OneBrowser DEF Own
<1> QED
  BY <1>5, <1>6

\* Nothing changes of what a pipeline holds, but where it is.
LEMMA PipelineStays ==
  ASSUME NEW b \in Browsers, Known(b), Pipeline(b)' = Pipeline(b), UNCHANGED logVars,
         browser'[b] = browser[b], next'[b] = next[b], since'[b] = since[b],
         opened'[b] = opened[b]
  PROVE  InOrder(b)' /\ NoneMissing(b)'
<1>1. InOrder(b)'
  BY DEF Known, Own, InOrder, Increasing, Places
<1>2. NoneMissing(b)'
  <2>1. \A p : p \in Places(Pipeline(b))' <=> p \in Places(Pipeline(b))
    BY DEF Places
  <2>2. NoneMissing(b) /\ published' = published
    BY DEF Known, Own, logVars
  <2> QED
    BY <2>1, <2>2 DEF NoneMissing
<1> QED
  BY <1>1, <1>2

\* What a browser was shown is the front of its pipeline.
LEMMA ShownInOrder ==
  ASSUME FeedInv, NEW b \in Browsers, Known(b)
  PROVE  Increasing(got[b]) /\ Places(got[b]) \subseteq Places(Pipeline(b))
<1>0. /\ got[b] \in Seq(Nat) /\ wire[b] \in Seq(Nat) /\ Held(b) \in Seq(Nat)
  BY PipelineType DEF FeedInv
<1>1. Increasing(Pipeline(b))
  BY DEF Known, Own, InOrder
<1>2. CASE browser[b] = "live"
  <2>1. wire[b] \o Held(b) \in Seq(Nat)
    BY <1>0, QueuesAssociate
  <2>2. (got[b] \o wire[b]) \o Held(b) = got[b] \o (wire[b] \o Held(b))
    BY <1>0, QueuesAssociate
  <2>3. Pipeline(b) = got[b] \o (wire[b] \o Held(b))
    BY <1>2, <2>2 DEF Pipeline
  <2>4. Increasing(got[b] \o (wire[b] \o Held(b)))
    BY <1>1, <2>3
  <2>5. Increasing(got[b]) /\ Places(got[b]) \subseteq Places(got[b] \o (wire[b] \o Held(b)))
    BY <1>0, <2>1, <2>4, Front
  <2> QED
    BY <2>3, <2>5
<1>3. CASE browser[b] # "live"
  BY <1>1, <1>3 DEF Pipeline
<1> QED
  BY <1>2, <1>3

\* A browser that is not live, or is no more, holds only what it was shown.
LEMMA ShownStays ==
  ASSUME FeedInv, NEW b \in Browsers, Known(b),
         browser'[b] # "live", got'[b] = got[b], opened'[b] = opened[b]
  PROVE  InOrder(b)' /\ NoneMissing(b)'
<1>3. Pipeline(b)' = got[b]
  BY DEF Pipeline
<1>4. \A p \in Places(got[b]) : opened[b].published < p
  BY ShownInOrder DEF Known, Own, InOrder
<1>5. InOrder(b)'
  BY ShownInOrder, <1>3, <1>4 DEF InOrder, Increasing, Places
<1>6. NoneMissing(b)'
  BY DEF NoneMissing
<1> QED
  BY <1>5, <1>6

LEMMA SendKeeps ==
  ASSUME FeedInv, NEW b \in Browsers, Send(b)
  PROVE  FeedInv'
<1>0. Known(b)
  BY KnownHolds
<1>1. /\ session[b] = "sending" /\ browser[b] \in {"live", "closing"}
      /\ Len(wire[b]) < WireCapacity
      /\ wire' = [wire EXCEPT ![b] = Append(wire[b], next[b] - 1)]
      /\ session' = [session EXCEPT ![b] = "select"]
      /\ UNCHANGED <<logVars, browser, rows, next, since, got, opened>>
  BY DEF Send
<1>a. since[b] < next[b]
  BY <1>0, <1>1 DEF Known, Own, Phase
<1>b. next[b] - 1 \in Nat /\ next[b] - 1 \in DOMAIN published
  BY <1>0, <1>a DEF Known
<1>2. PICK x \in Nat : x = next[b] - 1 /\ x \in DOMAIN published
  BY <1>b
<1>3. wire[b] \in Seq(Nat) /\ got[b] \in Seq(Nat)
  BY <1>0 DEF Known
<1>4. Append(wire[b], x) \in Seq(Nat) /\ Places(Append(wire[b], x)) = Places(wire[b]) \cup {x}
      /\ Len(Append(wire[b], x)) = Len(wire[b]) + 1 /\ Len(wire[b]) \in Nat
  <2>1. Append(wire[b], x) \in Seq(Nat) /\ Len(Append(wire[b], x)) = Len(wire[b]) + 1
        /\ Len(wire[b]) \in Nat
    BY <1>3
  <2>2. /\ DOMAIN Append(wire[b], x) = DOMAIN wire[b] \cup {Len(wire[b]) + 1}
        /\ Append(wire[b], x)[Len(wire[b]) + 1] = x
        /\ \A i \in DOMAIN wire[b] : Append(wire[b], x)[i] = wire[b][i]
    BY <1>3
  <2> QED
    BY <2>1, <2>2 DEF Places
<1>5. Types' /\ wire'[b] = Append(wire[b], x) /\ session'[b] = "select"
  BY <1>0, <1>1, <1>2, <1>4 DEF Known, Types
<1>6. Pipeline(b)' = Pipeline(b)
  <2>1. CASE browser[b] = "live"
    <3>1. Pipeline(b) = (got[b] \o wire[b]) \o <<x>>
      BY <1>1, <1>2, <2>1 DEF Pipeline, Held
    <3>2. Held(b)' = << >>
      BY <1>5 DEF Held
    <3>3. Pipeline(b)' = (got[b] \o Append(wire[b], x)) \o << >>
      BY <1>1, <1>5, <2>1, <3>2 DEF Pipeline
    <3>4. (got[b] \o Append(wire[b], x)) \o << >> = (got[b] \o wire[b]) \o <<x>>
      BY <1>3, PipelineMoves
    <3> QED
      BY <3>1, <3>3, <3>4
  <2>2. CASE browser[b] = "closing"
    BY <1>1, <2>2 DEF Pipeline
  <2> QED
    BY <1>1, <2>1, <2>2
<1>7. InOrder(b)' /\ NoneMissing(b)'
  BY <1>0, <1>1, <1>6, PipelineStays
<1>8. Table(b)'
  BY <1>0, <1>1, TableStays
<1>9. Phase(b)'
  BY <1>0, <1>1, <1>5 DEF Known, Own, Phase
<1>10. Sized(b)'
  <2>1. Len(wire'[b]) <= WireCapacity
    BY <1>0, <1>1, <1>4, <1>5 DEF Known
  <2>2. Places(wire[b])' \subseteq DOMAIN published
    BY <1>0, <1>2, <1>4, <1>5 DEF Known, Sized, Places
  <2> QED
    BY <1>0, <1>1, <2>1, <2>2 DEF Known, Sized, Places, logVars
<1>11. \A c \in Browsers \ {b} : Untouched(c)
  BY <1>0, <1>1 DEF Untouched, Known, Types
<1> QED
  BY <1>1, <1>5, <1>7, <1>8, <1>9, <1>10, <1>11, OneBrowser DEF Own

\* The browser loses its connection, closes it, or its session ends.
LEMMA PartingKeeps ==
  ASSUME FeedInv, NEW b \in Browsers, Lose(b) \/ Close(b) \/ EndSession(b)
  PROVE  FeedInv'
<1>0. Known(b)
  BY KnownHolds
<1>1. /\ browser'[b] \in {"away", "page", "closing"}
      /\ wire'[b] \in {wire[b], << >>}
      /\ session'[b] \in {session[b], "none"}
      /\ UNCHANGED <<logVars, rows, next, since, got, opened>>
      /\ Types' /\ \A c \in Browsers \ {b} : Untouched(c)
  <2>1. << >> \in Seq(Nat)
    BY EmptySeq
  <2>2. CASE Lose(b)
    BY <1>0, <2>1, <2>2 DEF Known, Types, Lose, Untouched
  <2>3. CASE Close(b)
    BY <1>0, <2>3 DEF Known, Types, Close, Untouched
  <2>4. CASE EndSession(b)
    BY <1>0, <2>4 DEF Known, Types, EndSession, notices, Untouched
  <2> QED
    BY <2>2, <2>3, <2>4
<1>2. InOrder(b)' /\ NoneMissing(b)'
  BY <1>0, <1>1, ShownStays
<1>3. Table(b)'
  BY <1>0, <1>1, TableStays
<1>4. browser'[b] \in {"away", "page"} => wire'[b] = << >>
  BY <1>0 DEF Known, Types, Own, Phase, Lose, Close, EndSession
<1>5. browser'[b] = "away" => got[b] = << >>
  BY <1>0 DEF Known, Types, Own, Phase, Lose, Close, EndSession
<1>6. Phase(b)'
  BY <1>0, <1>1, <1>4, <1>5 DEF Known, Own, Phase
<1>7. Sized(b)'
  <2>1. Len(wire'[b]) <= WireCapacity /\ Places(wire[b])' \subseteq DOMAIN published
    BY <1>0, <1>1, SMTT(30) DEF Known, Sized, Places
  <2> QED
    BY <1>0, <1>1, <2>1 DEF Known, Sized, Places, logVars
<1> QED
  BY <1>1, <1>2, <1>3, <1>6, <1>7, OneBrowser DEF Own

LEMMA LeaveKeeps ==
  ASSUME FeedInv, NEW b \in Browsers, Leave(b)
  PROVE  FeedInv'
<1>0. Known(b)
  BY KnownHolds
<1>1. /\ browser'[b] = "away" /\ rows'[b] = << >> /\ wire'[b] = << >> /\ got'[b] = << >>
      /\ opened'[b] = [stored |-> 0, published |-> 0]
      /\ UNCHANGED <<logVars, session, next, since>>
      /\ \A c \in Browsers \ {b} : Untouched(c)
  BY <1>0 DEF Known, Types, Leave, Untouched
<1>2. Types'
  BY <1>0, <1>1, EmptySeq DEF Known, Types, Leave
<1>3. Pipeline(b)' = << >> /\ Places(<< >>) = {}
  BY <1>1 DEF Pipeline, Places
<1>4. InOrder(b)' /\ NoneMissing(b)'
  BY <1>1, <1>3 DEF InOrder, NoneMissing, Increasing, Places
<1>5. opened'[b].stored = 0 /\ opened'[b].published = 0
  BY <1>1
<1>6. Table(b)'
  BY <1>0, <1>1, <1>5 DEF Known, Table, logVars
<1>7. Phase(b)'
  BY <1>0, <1>1 DEF Known, Own, Phase
<1>8. Sized(b)'
  BY <1>0, <1>1 DEF Known, Sized, Places, logVars
<1> QED
  BY <1>1, <1>2, <1>4, <1>6, <1>7, <1>8, OneBrowser DEF Own

\* A row is put on top, and moves down with every further one.
LEMMA RowsMove ==
  ASSUME NEW t \in Seq(Numbers), NEW n \in Numbers
  PROVE  /\ withRow(t, n) \in Seq(Numbers) /\ Len(withRow(t, n)) <= MaxRows
         /\ \A i \in DOMAIN withRow(t, n) :
              IF i = 1 THEN withRow(t, n)[i] = n
                       ELSE i - 1 \in DOMAIN t /\ withRow(t, n)[i] = t[i - 1]
<1> DEFINE all == <<n>> \o t
           k == IF Len(all) > MaxRows THEN MaxRows ELSE Len(all)
<1>1. /\ all \in Seq(Numbers) /\ Len(all) = Len(t) + 1 /\ Len(t) \in Nat
      /\ all[1] = n /\ \A i \in 2 .. Len(t) + 1 : all[i] = t[i - 1] /\ i - 1 \in DOMAIN t
  OBVIOUS
<1>2. k \in 0 .. Len(all) /\ k <= MaxRows
  BY <1>1, FeedAssumption
<1>3. withRow(t, n) = SubSeq(all, 1, k)
  BY DEF withRow
<1> HIDE DEF all, k
<1>4. /\ SubSeq(all, 1, k) \in Seq(Numbers) /\ Len(SubSeq(all, 1, k)) = k
      /\ \A i \in 1 .. k : SubSeq(all, 1, k)[i] = all[i]
      /\ DOMAIN SubSeq(all, 1, k) = 1 .. k
  BY <1>1, <1>2
<1>5. \A i \in 1 .. k : i = 1 \/ i \in 2 .. Len(t) + 1
  BY <1>1, <1>2
<1> QED
  BY <1>1, <1>2, <1>3, <1>4, <1>5

LEMMA AddRowKeeps ==
  ASSUME FeedInv, NEW b \in Browsers, addRow(b)
  PROVE  FeedInv'
<1>0. Known(b)
  BY KnownHolds
<1>1. /\ browser[b] = "live" /\ wire[b] # << >>
      /\ rows' = [rows EXCEPT ![b] = withRow(rows[b], published[Head(wire[b])].seq)]
      /\ got' = [got EXCEPT ![b] = Append(got[b], Head(wire[b]))]
      /\ wire' = [wire EXCEPT ![b] = Tail(wire[b])]
      /\ UNCHANGED <<logVars, browser, session, next, since, opened>>
  BY DEF addRow
<1>2. wire[b] \in Seq(Nat) /\ got[b] \in Seq(Nat) /\ rows[b] \in Seq(Numbers)
  BY <1>0 DEF Known, Types
<1>3. PICK p \in Nat : p = Head(wire[b])
  BY <1>1, <1>2
<1>4. /\ Append(got[b], p) \in Seq(Nat) /\ Tail(wire[b]) \in Seq(Nat)
      /\ Len(Tail(wire[b])) = Len(wire[b]) - 1
      /\ Append(got[b], p) \o Tail(wire[b]) = got[b] \o wire[b]
  <2>1. wire[b] # << >>
    BY <1>1
  <2> QED
    BY <2>1, <1>2, <1>3, HeadMoves
<1>5. p \in Places(wire[b])
  BY <1>1, <1>2, <1>3 DEF Places
<1>6. p \in DOMAIN published /\ published[p] \in Entries /\ published[p].seq \in Numbers
  BY <1>0, <1>5, FeedAssumption DEF Known, Sized, FeedInv, LogInv
<1> DEFINE n == published[p].seq
<1>7. /\ withRow(rows[b], n) \in Seq(Numbers) /\ Len(withRow(rows[b], n)) <= MaxRows
      /\ \A i \in DOMAIN withRow(rows[b], n) :
           IF i = 1 THEN withRow(rows[b], n)[i] = n
                    ELSE i - 1 \in DOMAIN rows[b] /\ withRow(rows[b], n)[i] = rows[b][i - 1]
  BY <1>2, <1>6, RowsMove
<1>8. Types' /\ rows'[b] = withRow(rows[b], n) /\ got'[b] = Append(got[b], p)
      /\ wire'[b] = Tail(wire[b])
  BY <1>0, <1>1, <1>3, <1>4, <1>7 DEF Known, Types
<1>9. Pipeline(b)' = Pipeline(b)
  <2>1. Held(b)' = Held(b)
    BY <1>1 DEF Held
  <2>2. Pipeline(b)' = (Append(got[b], p) \o Tail(wire[b])) \o Held(b)
    BY <1>1, <1>8, <2>1 DEF Pipeline
  <2> QED
    BY <1>1, <1>4, <2>2 DEF Pipeline
<1>10. InOrder(b)' /\ NoneMissing(b)'
  BY <1>0, <1>1, <1>9, PipelineStays
<1>11. Table(b)'
  <2> DEFINE m == Len(got[b])
  <2>1. /\ m \in Nat /\ Len(got'[b]) = m + 1 /\ got'[b][m + 1] = p
        /\ \A j \in 1 .. m : got'[b][j] = got[b][j]
    BY <1>2, <1>8
  <2>2. published' = published /\ log' = log /\ opened' = opened
    BY <1>1 DEF logVars
  <2> HIDE DEF m
  <2>3. \A i \in DOMAIN rows'[b] : i \in Nat /\ i >= 1
    BY <1>7, <1>8
  <2>4. RowAt(b, 1)' = n
    BY <2>1, <2>2 DEF RowAt
  <2>5. ASSUME NEW i \in DOMAIN rows'[b], i # 1
        PROVE  RowAt(b, i)' = RowAt(b, i - 1)
    <3>1. CASE i - 1 <= m
      <4>1. i <= m + 1 /\ m + 1 + 1 - i = m + 1 - (i - 1) /\ m + 1 - (i - 1) \in 1 .. m
        BY <2>1, <2>3, <2>5, <3>1
      <4>2. RowAt(b, i)' = published[got'[b][m + 1 + 1 - i]].seq
        BY <2>1, <2>2, <4>1 DEF RowAt
      <4>3. RowAt(b, i - 1) = published[got[b][m + 1 - (i - 1)]].seq
        BY <3>1 DEF RowAt, m
      <4> QED
        BY <2>1, <4>1, <4>2, <4>3
    <3>2. CASE ~(i - 1 <= m)
      <4>1. ~(i <= m + 1) /\ i - (m + 1) = i - 1 - m
        BY <2>1, <2>3, <3>2
      <4>2. RowAt(b, i)' = opened[b].stored + 1 - (i - (m + 1))
        BY <2>1, <2>2, <4>1 DEF RowAt
      <4>3. RowAt(b, i - 1) = opened[b].stored + 1 - (i - 1 - m)
        BY <3>2 DEF RowAt, m
      <4> QED
        BY <4>1, <4>2, <4>3
    <3> QED
      BY <3>1, <3>2
  <2>6. Table(b)
    BY <1>0 DEF Known, Own
  <2>7. \A i \in DOMAIN rows'[b] : rows'[b][i] = RowAt(b, i)'
    <3> TAKE i \in DOMAIN rows'[b]
    <3>1. CASE i = 1
      BY <1>7, <1>8, <2>4, <3>1
    <3>2. CASE i # 1
      <4>1. i - 1 \in DOMAIN rows[b] /\ rows'[b][i] = rows[b][i - 1]
        BY <1>7, <1>8, <3>2
      <4> QED
        BY <2>5, <2>6, <3>2, <4>1 DEF Table
    <3> QED
      BY <3>1, <3>2
  <2>8. ASSUME NEW i \in DOMAIN rows'[b], i > Len(got'[b]) PROVE RowAt(b, i)' >= 1
    <3>1. i # 1 /\ i - 1 > Len(got[b])
      BY <2>1, <2>3, <2>8 DEF m
    <3>2. i - 1 \in DOMAIN rows[b]
      BY <1>7, <1>8, <3>1
    <3> QED
      BY <2>5, <2>6, <3>1, <3>2 DEF Table
  <2> QED
    BY <2>2, <2>6, <2>7, <2>8 DEF Table
<1>12. Phase(b)'
  BY <1>0, <1>1 DEF Known, Own, Phase
<1>13. Sized(b)'
  <2>1. Places(got[b])' \subseteq Places(got[b]) \cup {p}
    <3>1. \A i \in DOMAIN Append(got[b], p) : Append(got[b], p)[i] \in Places(got[b]) \cup {p}
      BY <1>2 DEF Places
    <3> QED
      BY <1>8, <3>1 DEF Places
  <2>2. Places(wire[b])' \subseteq Places(wire[b])
    <3>1. \A i \in DOMAIN Tail(wire[b]) : i + 1 \in DOMAIN wire[b] /\ Tail(wire[b])[i] = wire[b][i + 1]
      BY <1>1, <1>2
    <3> QED
      BY <1>8, <3>1 DEF Places
  <2>3. Len(wire'[b]) <= WireCapacity
    <3>1. Len(wire[b]) \in Nat /\ Len(wire[b]) <= WireCapacity
      BY <1>0, <1>2 DEF Known, Sized
    <3> QED
      BY <1>0, <1>4, <1>8, <3>1 DEF Known
  <2> QED
    BY <1>0, <1>1, <1>6, <1>7, <1>8, <2>1, <2>2, <2>3 DEF Known, Sized, logVars
<1>14. \A c \in Browsers \ {b} : Untouched(c)
  BY <1>0, <1>1 DEF Untouched, Known, Types
<1> QED
  BY <1>1, <1>8, <1>10, <1>11, <1>12, <1>13, <1>14, OneBrowser DEF Own

LEMMA FeedInvNext == FeedInv /\ [FeedNext]_vars => FeedInv'
<1> SUFFICES ASSUME FeedInv, [FeedNext]_vars PROVE FeedInv'
  OBVIOUS
<1>1. ASSUME LogInv', LogGrows, UNCHANGED feedVars PROVE FeedInv'
  <2>1. \A b \in Browsers : Untouched(b)
    BY <1>1 DEF Untouched, feedVars
  <2>2. Len(published) \in Nat /\ Len(published') \in Nat /\ Len(published) <= Len(published')
        /\ DOMAIN published \subseteq DOMAIN published'
    BY <1>1 DEF FeedInv, LogInv, LogGrows
  <2>3. FeedTypeOK'
    BY <1>1, <2>2 DEF FeedInv, FeedTypeOK, feedVars, Places
  <2> QED
    BY <1>1, <2>1, <2>3, OwnStays DEF FeedInv
<1>2. CASE UNCHANGED vars
  <2>1. LogInv' /\ LogGrows /\ UNCHANGED feedVars
    BY <1>2 DEF vars, logVars, FeedInv, LogInv, LogGrows
  <2> QED
    BY <1>1, <2>1
<1>3. CASE Write
  BY <1>1, <1>3, LogInvNext DEF Write, FeedInv
<1> QED
  BY <1>2, <1>3, OpenKeeps, ConnectKeeps, ReceiveKeeps, SendKeeps, AddRowKeeps,
     PartingKeeps, LeaveKeeps
  DEF FeedNext

-----------------------------------------------------------------------------
LEMMA FeedInvHolds == FeedSpec => []FeedInv
<1> QED
  BY FeedInvInit, FeedInvNext, PTL DEF FeedSpec

\* For any browsers, any events, and any sizes of ring and socket: the types,
THEOREM FeedTypeCorrect == FeedSpec => []FeedTypeOK
<1>1. FeedInv => FeedTypeOK
  BY DEF FeedInv
<1> QED
  BY <1>1, FeedInvHolds, PTL

\* the order of what a browser is sent,
THEOREM FramesAlwaysComeOnceInOrder == FeedSpec => []FramesComeOnceInOrder
<1>1. FeedInv => FramesComeOnceInOrder
  BY DEF FeedInv, Own, InOrder, Increasing, FramesComeOnceInOrder
<1> QED
  BY <1>1, FeedInvHolds, PTL

\* and what it may have missed.
THEOREM OnlyLaggardsEverMiss == FeedSpec => []OnlyLaggardsMiss
<1>1. FeedInv => OnlyLaggardsMiss
  BY DEF FeedInv, Own, NoneMissing, OnlyLaggardsMiss
<1> QED
  BY <1>1, FeedInvHolds, PTL

\* The rows of a number: one of the frames and one of the rendered table at most,
\* and both only if it was published after the page was rendered.
LEMMA RowsOnce ==
  ASSUME FeedInv, NEW b \in Browsers, NEW n, NEW i \in DOMAIN rows[b], NEW j \in DOMAIN rows[b],
         rows[b][i] = n, rows[b][j] = n
  PROVE  /\ i <= Len(got[b]) /\ j <= Len(got[b]) => i = j
         /\ i > Len(got[b]) /\ j > Len(got[b]) => i = j
         /\ i <= Len(got[b]) /\ j > Len(got[b]) => n \in Racing(b)
<1>0. Known(b) /\ Increasing(got[b]) /\ Places(got[b]) \subseteq Places(Pipeline(b))
  BY KnownHolds, ShownInOrder
<1> DEFINE m == Len(got[b])
<1>1. m \in Nat /\ DOMAIN got[b] = 1 .. m /\ got[b] \in Seq(Nat)
      /\ i \in Nat /\ j \in Nat /\ 1 <= i /\ 1 <= j
  BY <1>0 DEF Known, Types
<1>2. n = RowAt(b, i) /\ n = RowAt(b, j) /\ (j > Len(got[b]) => RowAt(b, j) >= 1)
  <2>1. \A k \in DOMAIN rows[b] : rows[b][k] = RowAt(b, k)
    BY <1>0 DEF Known, Own, Table
  <2>2. \A k \in DOMAIN rows[b] : k > Len(got[b]) => RowAt(b, k) >= 1
    BY <1>0 DEF Known, Own, Table
  <2> QED
    BY <2>1, <2>2
<1>3. \A k \in DOMAIN rows[b] : k <= m => m + 1 - k \in DOMAIN got[b]
  <2>1. rows[b] \in Seq(Numbers)
    BY <1>0 DEF Known, Types
  <2>2. \A k \in DOMAIN rows[b] : k \in Nat /\ 1 <= k
    BY <2>1
  <2>3. \A k \in Nat : 1 <= k /\ k <= m => m + 1 - k \in 1 .. m
    <3> HIDE DEF m
    <3> QED
      BY <1>1
  <2> QED
    BY <1>1, <2>2, <2>3
<1>4. \A k \in DOMAIN got[b] : got[b][k] \in DOMAIN published
  BY <1>0 DEF Known, Sized, Places
<1>5. \A p, q \in DOMAIN published : published[p].seq = published[q].seq => p = q
  BY DEF FeedInv, LogInv
<1> HIDE DEF m
<1>6. ASSUME i <= m, j <= m PROVE i = j
  <2>1. /\ n = published[got[b][m + 1 - i]].seq
        /\ n = published[got[b][m + 1 - j]].seq
    BY <1>2, <1>6 DEF RowAt, m
  <2>2. got[b][m + 1 - i] = got[b][m + 1 - j]
    BY <1>3, <1>4, <1>5, <1>6, <2>1, ZenonT(30)
  <2>3. m + 1 - i = m + 1 - j
    <3> DEFINE k == m + 1 - i
               l == m + 1 - j
    <3>1. k \in DOMAIN got[b] /\ l \in DOMAIN got[b] /\ got[b][k] = got[b][l]
      BY <1>3, <1>6, <2>2
    <3> HIDE DEF k, l
    <3>2. k \in Nat /\ l \in Nat /\ got[b][k] \in Nat
      BY <1>1, <3>1
    <3>3. ~(k < l) /\ ~(l < k)
      BY <1>0, <3>1, <3>2 DEF Increasing
    <3>4. k = l
      BY <3>2, <3>3
    <3> QED
      BY <3>4 DEF k, l
  <2> QED
    BY <1>1, <2>3
<1>7. ASSUME i > m, j > m PROVE i = j
  <2>1. opened[b].stored + 1 - (i - m) = opened[b].stored + 1 - (j - m)
    BY <1>1, <1>2, <1>7 DEF RowAt, m
  <2>2. opened[b].stored \in Nat
    BY <1>0 DEF Known
  <2> QED
    BY <1>1, <2>1, <2>2
<1>8. ASSUME i <= m, j > m PROVE n \in Racing(b)
  <2> DEFINE p == got[b][m + 1 - i]
  <2>0. ~(j <= m) /\ m \in Nat
    BY <1>1, <1>8
  <2>1. n = published[p].seq /\ n = opened[b].stored + 1 - (j - m) /\ n >= 1
    <3>1. n = published[p].seq
      BY <1>2, <1>8 DEF RowAt, m
    <3>2. n = opened[b].stored + 1 - (j - m)
      BY <1>2, <2>0 DEF RowAt, m
    <3>3. n >= 1
      BY <1>2, <1>8 DEF m
    <3> QED
      BY <3>1, <3>2, <3>3
  <2>2. n \in 1 .. opened[b].stored
    <3>1. opened[b].stored \in Nat
      BY <1>0 DEF Known
    <3> DEFINE s == opened[b].stored
    <3>2. s \in Nat /\ n = s + 1 - (j - m) /\ n >= 1
      BY <2>1, <3>1
    <3> HIDE DEF s
    <3>3. n \in 1 .. s
      BY <1>1, <1>8, <3>2
    <3> QED
      BY <3>3 DEF s
  <2>3. p \in DOMAIN published /\ p \in Places(got[b])
    BY <1>3, <1>4, <1>8 DEF Places
  <2>4. opened[b].published < p
    BY <1>0, <2>3 DEF Known, Own, InOrder
  <2> HIDE DEF p
  <2>5. \A q \in 1 .. opened[b].published : q \in DOMAIN published /\ q # p
    BY <1>0, <2>3, <2>4 DEF Known, Own, Table
  <2>6. \A q \in 1 .. opened[b].published : published[q].seq # n
    BY <1>5, <2>1, <2>3, <2>5
  <2> QED
    BY <2>2, <2>6 DEF Racing
<1> QED
  BY <1>6, <1>7, <1>8 DEF m

LEMMA AtMostOne ==
  ASSUME NEW S, \A x, y \in S : x = y
  PROVE  Cardinality(S) <= 1
<1>1. CASE S = {}
  BY <1>1, FS_EmptySet
<1>2. CASE S # {}
  <2>1. PICK x \in S : S = {x}
    BY <1>2
  <2> QED
    BY <2>1, FS_Singleton
<1> QED
  BY <1>1, <1>2

LEMMA AtMostTwo ==
  ASSUME NEW S, NEW F, NEW T, S = F \cup T,
         \A x, y \in F : x = y, \A x, y \in T : x = y
  PROVE  Cardinality(S) <= 2
<1>1. CASE F = {} \/ T = {}
  <2>1. Cardinality(S) <= 1 /\ IsFiniteSet(S)
    <3>1. S = F \/ S = T
      BY <1>1
    <3>2. S = {} \/ \E x \in S : S = {x}
      BY <3>1
    <3>3. Cardinality(S) <= 1
      <4>1. \A x, y \in S : x = y
        BY <3>1
      <4> QED
        BY <4>1, AtMostOne
    <3>4. IsFiniteSet(S)
      <4>1. CASE S = {}
        BY <4>1, FS_EmptySet
      <4>2. ASSUME NEW x \in S, S = {x} PROVE IsFiniteSet(S)
        <5>1. IsFiniteSet({x})
          BY FS_Singleton
        <5> QED
          BY <4>2, <5>1
      <4> QED
        BY <3>2, <4>1, <4>2
    <3> QED
      BY <3>3, <3>4
  <2> QED
    BY <2>1, FS_CardinalityType
<1>2. CASE F # {} /\ T # {}
  <2>1. PICK x \in F, y \in T : F = {x} /\ T = {y}
    BY <1>2
  <2>2. S = {x} \cup {y}
    BY <2>1
  <2>3. IsFiniteSet({x}) /\ Cardinality({x}) = 1
    BY FS_Singleton
  <2>4. Cardinality({x} \cup {y}) = IF y \in {x} THEN 1 ELSE 1 + 1
    BY <2>3, FS_AddElement
  <2> QED
    BY <2>2, <2>4
<1> QED
  BY <1>1, <1>2

\* A table repeats an event only if it was between its two steps, stored and
\* published, when the page was rendered.
THEOREM RowsAlwaysRepeatOnlyRaces == FeedSpec => []RowsRepeatOnlyRaces
<1>1. FeedInv => RowsRepeatOnlyRaces
  <2> SUFFICES ASSUME FeedInv, NEW b \in Browsers, NEW n \in Places(rows[b])
               PROVE  Cardinality({i \in DOMAIN rows[b] : rows[b][i] = n})
                        <= IF n \in Racing(b) THEN 2 ELSE 1
    BY DEF RowsRepeatOnlyRaces
  <2> DEFINE S == {i \in DOMAIN rows[b] : rows[b][i] = n}
             F == {i \in S : i <= Len(got[b])}
             T == {i \in S : i > Len(got[b])}
  <2>1. S = F \cup T
    <3>1. \A i \in S : i \in Nat /\ Len(got[b]) \in Nat
      BY KnownHolds DEF Known, Types
    <3> QED
      BY <3>1
  <2>2. (\A i, j \in F : i = j) /\ (\A i, j \in T : i = j)
    BY RowsOnce
  <2>3. n \notin Racing(b) => \A i, j \in S : i = j
    BY <2>1, <2>2, RowsOnce
  <2> HIDE DEF S, F, T
  <2>4. Cardinality(S) <= 2
    BY <2>1, <2>2, AtMostTwo
  <2>5. n \notin Racing(b) => Cardinality(S) <= 1
    BY <2>3, AtMostOne
  <2> QED
    BY <2>4, <2>5 DEF S
<1> QED
  BY <1>1, FeedInvInit, FeedInvNext, PTL DEF FeedSpec
=============================================================================
