--------------------------------- MODULE Feed ----------------------------------
(***************************************************************************)
(* The live feed: /ws/feed on the server (src/ingest/ws.rs) and live.js in *)
(* the browsers that have a dashboard open, over the write side as the     *)
(* module EventLog promises it.                                            *)
(*                                                                         *)
(* A page shows the latest events of the store.  Its script then opens a   *)
(* socket; the session behind it subscribes to the broadcast channel and   *)
(* forwards what is published from then on, one frame at a time, skipping  *)
(* what it was too slow for.  A frame becomes a row on top of the table.   *)
(* A socket that closes is opened again later.  A browser that leaves the  *)
(* page says so with a Close, which the session reads only between sends.  *)
(***************************************************************************)
EXTENDS EventLog, FiniteSets

CONSTANTS
  Browsers,
  FeedCapacity,   \* of the broadcast channel: 256
  RecentRows,     \* rows of a fresh dashboard: 30
  MaxRows,        \* MAX_ROWS
  WireCapacity    \* bound: frames between a session and its browser

ASSUME FeedAssumption ==
  /\ FeedCapacity \in Nat \ {0} /\ WireCapacity \in Nat \ {0}
  /\ RecentRows \in Nat /\ MaxRows \in Nat /\ RecentRows <= MaxRows
  /\ \A s \in Entries : s.seq \in Numbers

VARIABLES
  browser,   \* "away", on the "page" without a socket, "live", or "closing"
  rows,      \* the numbers in its table, from the top
  session,   \* the server's side: "none", "select" or "sending"
  next,      \* the place in `published` that the session's receiver is at
  wire,      \* the places of the frames on the way
  since,     \* history: the first place the session can receive
  got,       \* history: the places of all frames since the page was opened
  opened     \* history: how much was stored and published at that time

feedVars == <<browser, rows, session, next, wire, since, got, opened>>
vars == <<logVars, feedVars>>

FeedInit ==
  /\ Init
  /\ browser = [b \in Browsers |-> "away"]
  /\ rows = [b \in Browsers |-> << >>]
  /\ session = [b \in Browsers |-> "none"]
  /\ next = [b \in Browsers |-> 1]
  /\ wire = [b \in Browsers |-> << >>]
  /\ since = [b \in Browsers |-> 1]
  /\ got = [b \in Browsers |-> << >>]
  /\ opened = [b \in Browsers |-> [stored |-> 0, published |-> 0]]

\* The page is rendered from the latest events of the store, newest on top.
shown == IF Len(log) > RecentRows THEN RecentRows ELSE Len(log)
feed_table == [i \in 1 .. shown |-> log[Len(log) + 1 - i].seq]

Open(b) ==
  /\ browser[b] = "away"
  /\ browser' = [browser EXCEPT ![b] = "page"]
  /\ rows' = [rows EXCEPT ![b] = feed_table]
  /\ opened' = [opened EXCEPT ![b] = [stored |-> Len(log), published |-> Len(published)]]
  /\ UNCHANGED <<logVars, session, next, wire, since, got>>

\* The receiver of a new session starts at the place `start`.  (An earlier session
\* of the browser that is not over yet shares nothing with this one.)
SubscribeAt(b, start) ==
  /\ browser[b] = "page" /\ session[b] = "none"
  /\ browser' = [browser EXCEPT ![b] = "live"]
  /\ session' = [session EXCEPT ![b] = "select"]
  /\ next' = [next EXCEPT ![b] = start]
  /\ since' = [since EXCEPT ![b] = start]
  /\ UNCHANGED <<logVars, rows, wire, got, opened>>

oldest == IF Len(published) > FeedCapacity THEN Len(published) - FeedCapacity + 1 ELSE 1

\* Faulty variant: a subscriber is served from the oldest message of the ring.
ConnectBackfilled(b) == SubscribeAt(b, oldest)

\* connect, feed_upgrade: the session receives what is published from now on.
Connect(b) == SubscribeAt(b, Len(published) + 1)

\* Faulty variants: a session that lags goes to the end of the ring; a session
\* that lags stays where it is.
ReceiveLatest(b) ==
  /\ session[b] = "select" /\ next[b] <= Len(published)
  /\ IF next[b] < oldest
       THEN /\ next' = [next EXCEPT ![b] = Len(published)]
            /\ UNCHANGED session
       ELSE /\ next' = [next EXCEPT ![b] = @ + 1]
            /\ session' = [session EXCEPT ![b] = "sending"]
  /\ UNCHANGED <<logVars, browser, rows, wire, since, got, opened>>
ReceiveStuck(b) ==
  /\ session[b] = "select" /\ next[b] \in oldest .. Len(published)
  /\ next' = [next EXCEPT ![b] = @ + 1]
  /\ session' = [session EXCEPT ![b] = "sending"]
  /\ UNCHANGED <<logVars, browser, rows, wire, since, got, opened>>

\* receiver.recv: Lagged moves the receiver to the oldest message there is.
Receive(b) ==
  /\ session[b] = "select" /\ next[b] <= Len(published)
  /\ IF next[b] < oldest
       THEN /\ next' = [next EXCEPT ![b] = oldest]
            /\ UNCHANGED session
       ELSE /\ next' = [next EXCEPT ![b] = @ + 1]
            /\ session' = [session EXCEPT ![b] = "sending"]
  /\ UNCHANGED <<logVars, browser, rows, wire, since, got, opened>>

\* sink.send waits until the browser has taken earlier frames.
Send(b) ==
  /\ session[b] = "sending" /\ browser[b] \in {"live", "closing"}
  /\ Len(wire[b]) < WireCapacity
  /\ wire' = [wire EXCEPT ![b] = Append(@, next[b] - 1)]
  /\ session' = [session EXCEPT ![b] = "select"]
  /\ UNCHANGED <<logVars, browser, rows, next, since, got, opened>>

\* addRow: a row on top, and rows over the limit are removed from the bottom.
withRow(table, n) ==
  LET all == <<n>> \o table
  IN  SubSeq(all, 1, IF Len(all) > MaxRows THEN MaxRows ELSE Len(all))

addRow(b) ==
  /\ browser[b] = "live" /\ wire[b] # << >>
  /\ rows' = [rows EXCEPT ![b] = withRow(@, published[Head(wire[b])].seq)]
  /\ got' = [got EXCEPT ![b] = Append(@, Head(wire[b]))]
  /\ wire' = [wire EXCEPT ![b] = Tail(@)]
  /\ UNCHANGED <<logVars, browser, session, next, since, opened>>

\* The connection breaks, and with it go the frames on the way; the page stays.
Lose(b) ==
  /\ browser[b] = "live"
  /\ browser' = [browser EXCEPT ![b] = "page"]
  /\ wire' = [wire EXCEPT ![b] = << >>]
  /\ UNCHANGED <<logVars, rows, session, next, since, got, opened>>

\* The browser sends a Close, and reads no more.
Close(b) ==
  /\ browser[b] = "live"
  /\ browser' = [browser EXCEPT ![b] = "closing"]
  /\ UNCHANGED <<logVars, rows, session, next, wire, since, got, opened>>

\* The browser is gone, with its end of the socket.
Leave(b) ==
  /\ browser[b] # "away"
  /\ browser' = [browser EXCEPT ![b] = "away"]
  /\ rows' = [rows EXCEPT ![b] = << >>]
  /\ wire' = [wire EXCEPT ![b] = << >>]
  /\ got' = [got EXCEPT ![b] = << >>]
  /\ opened' = [opened EXCEPT ![b] = [stored |-> 0, published |-> 0]]
  /\ UNCHANGED <<logVars, session, next, since>>

\* Faulty variant: the session does not listen to its browser.
noticesOnSend(b) == session[b] = "sending" /\ browser[b] \in {"away", "page"}

\* The session meets the end of its socket in select or when it sends, and a
\* Close in select only.
notices(b) ==
  \/ session[b] # "none" /\ browser[b] \in {"away", "page"}
  \/ session[b] = "select" /\ browser[b] = "closing"

EndSession(b) ==
  /\ notices(b)
  /\ session' = [session EXCEPT ![b] = "none"]
  /\ UNCHANGED <<logVars, browser, rows, next, wire, since, got, opened>>

\* Events are stored and published without regard to the subscribers.
Write == Next /\ UNCHANGED feedVars

FeedNext ==
  \/ Write
  \/ \E b \in Browsers :
       \/ Open(b) \/ Connect(b) \/ addRow(b) \/ Lose(b) \/ Close(b) \/ Leave(b)
       \/ Receive(b) \/ Send(b) \/ EndSession(b)

\* The sessions are run, and the browsers read what is sent to them.  select!
\* tries its branches in a random order: it does not always miss a Close.
FeedSpec ==
  /\ FeedInit /\ [][FeedNext]_vars
  /\ \A b \in Browsers :
       /\ WF_vars(Receive(b)) /\ WF_vars(Send(b)) /\ WF_vars(addRow(b))
       /\ SF_vars(EndSession(b))
-----------------------------------------------------------------------------
Places(s) == {s[i] : i \in DOMAIN s}

\* The variables hold what they should; a table never outgrows its limit
\* (ws.rs:65-90, live.js:74-77).
FeedTypeOK ==
  /\ browser \in [Browsers -> {"away", "page", "live", "closing"}]
  /\ session \in [Browsers -> {"none", "select", "sending"}]
  /\ rows \in [Browsers -> Seq(Numbers)]
  /\ next \in [Browsers -> Nat] /\ since \in [Browsers -> Nat]
  /\ got \in [Browsers -> Seq(Nat)] /\ wire \in [Browsers -> Seq(Nat)]
  /\ opened \in [Browsers -> [stored : Nat, published : Nat]]
  /\ \A b \in Browsers :
       /\ Len(rows[b]) <= MaxRows /\ Len(wire[b]) <= WireCapacity
       /\ since[b] \in 1 .. next[b] /\ next[b] <= Len(published) + 1
       /\ Places(got[b]) \cup Places(wire[b]) \subseteq DOMAIN published

\* What a connected browser was shown, and what is on its way.
Held(b) == IF session[b] = "sending" THEN <<next[b] - 1>> ELSE << >>
Pipeline(b) == IF browser[b] = "live" THEN got[b] \o wire[b] \o Held(b) ELSE got[b]

\* A page is sent no message twice and none after a later one, however often its
\* connection was lost in between (ws.rs:66, 70-76; live.js:86-95).
FramesComeOnceInOrder ==
  \A b \in Browsers : \A i, j \in DOMAIN Pipeline(b) :
    i < j => Pipeline(b)[i] < Pipeline(b)[j]

\* A session loses no message that is still in the ring, nor any that it had
\* taken from it: of what was published since it subscribed, only what it was
\* FeedCapacity messages late for is missing (ws.rs:77-78).
OnlyLaggardsMiss ==
  \A b \in Browsers : browser[b] = "live" =>
    \A p \in since[b] .. Len(published) :
      \/ p \in Places(Pipeline(b))
      \/ p >= next[b]
      \/ p + FeedCapacity <= Len(published)

\* A table shows an event twice only if it was stored but not yet published when
\* the page was rendered, and never three times (ui/mod.rs:198-199, ws.rs:66).
Racing(b) == {n \in 1 .. opened[b].stored :
                \A p \in 1 .. opened[b].published : published[p].seq # n}

RowsRepeatOnlyRaces ==
  \A b \in Browsers : \A n \in Places(rows[b]) :
    Cardinality({i \in DOMAIN rows[b] : rows[b][i] = n})
      <= IF n \in Racing(b) THEN 2 ELSE 1

\* While a browser stays connected its table catches up: again and again the
\* latest message is on top, whatever was skipped (ws.rs:68-81, live.js:52-78).
UpToDate(b) ==
  \/ browser[b] # "live"
  \/ since[b] > Len(published)
  \/ rows[b] # << >> /\ rows[b][1] = published[Len(published)].seq

SubscribersCatchUp == \A b \in Browsers : []<>UpToDate(b)

\* Only a browser that keeps its end of the socket open and does not read holds a
\* session whose sends do not fit: every other session whose browser is not live
\* ends, with its place in the broadcast ring (ws.rs:70-76, 82-86).
Stuck(b) ==
  session[b] = "sending" /\ browser[b] = "closing" /\ Len(wire[b]) = WireCapacity

AbandonedSessionsEnd ==
  \A b \in Browsers : browser[b] # "live" ~> session[b] = "none" \/ Stuck(b)
===============================================================================
