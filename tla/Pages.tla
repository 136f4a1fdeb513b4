-------------------------------- MODULE Pages --------------------------------
(***************************************************************************)
(* The pages that read the store twice (src/ui/mod.rs): the dashboard      *)
(* takes the agents, then the recent events; an agent's page takes the     *)
(* agent, then its events.  Each read is one critical section, and events  *)
(* are stored between the two, so a page shows two states of the store.    *)
(***************************************************************************)
EXTENDS Queries

CONSTANTS
  Browsers,        \* the requests for pages that run at the same time
  DashboardRows,   \* rows of the dashboard's feed table: 30
  TimelineEvents   \* events an agent's page is made from: 500

ASSUME PagesAssumption == DashboardRows \in Nat /\ TimelineEvents \in Nat

VARIABLES
  page,    \* which page a browser is waiting for, and how far it is
  first,   \* what the first read gave: names of cards, or the agent's header
  events,  \* what the second read gave
  readAt   \* history: the value of seq at the first read

pageVars == <<page, first, events, readAt>>
vars == <<storageVars, pageVars>>

Nothing == [name |-> None, snapshot |-> None]

PagesInit ==
  /\ Init
  /\ page = [b \in Browsers |-> "none"]
  /\ first = [b \in Browsers |-> {}]
  /\ events = [b \in Browsers |-> << >>]
  /\ readAt = [b \in Browsers |-> 0]

\* Storage::agent finds the agent in the list of all agents.
agent(name) ==
  IF \E i \in DOMAIN agents_list : agents_list[i] = name
    THEN [name |-> name, snapshot |-> agents[name].val.snapshot]
    ELSE Nothing

\* dashboard: the cards, then the rows of the feed table.
ReadCards(b) ==
  /\ page[b] = "none"
  /\ page' = [page EXCEPT ![b] = "cards"]
  /\ first' = [first EXCEPT ![b] = {agents_list[i] : i \in DOMAIN agents_list}]
  /\ readAt' = [readAt EXCEPT ![b] = seq]
  /\ UNCHANGED <<storageVars, events>>

ReadRows(b) ==
  /\ page[b] = "cards"
  /\ page' = [page EXCEPT ![b] = "dashboard"]
  /\ events' = [events EXCEPT ![b] = recent_events(DashboardRows)]
  /\ UNCHANGED <<storageVars, first, readAt>>

\* agent_page: the header or 404, then the timeline.
ReadHeader(b, name) ==
  /\ page[b] = "none"
  /\ first' = [first EXCEPT ![b] = {agent(name)}]
  /\ page' = [page EXCEPT ![b] = IF agent(name) = Nothing THEN "404" ELSE "header"]
  /\ readAt' = [readAt EXCEPT ![b] = seq]
  /\ UNCHANGED <<storageVars, events>>

Header(b) == CHOOSE h \in first[b] : TRUE

ReadTimeline(b) ==
  /\ page[b] = "header"
  /\ page' = [page EXCEPT ![b] = "agent"]
  /\ events' = [events EXCEPT ![b] = events_for(Header(b).name, TimelineEvents)]
  /\ UNCHANGED <<storageVars, first, readAt>>

\* The browser goes elsewhere.
Leave(b) ==
  /\ page[b] \in {"dashboard", "agent", "404"}
  /\ page' = [page EXCEPT ![b] = "none"]
  /\ first' = [first EXCEPT ![b] = {}]
  /\ events' = [events EXCEPT ![b] = << >>]
  /\ readAt' = [readAt EXCEPT ![b] = 0]
  /\ UNCHANGED storageVars

Store ==
  /\ \E transport \in Via, e \in Inputs, now \in Times : Ingest(transport, e, now)
  /\ UNCHANGED pageVars

PagesNext ==
  \/ Store
  \/ \E b \in Browsers :
       \/ ReadCards(b) \/ ReadRows(b)
       \/ \E name \in AgentName : ReadHeader(b, name)
       \/ ReadTimeline(b)
       \/ Leave(b)

PagesSpec == PagesInit /\ [][PagesNext]_vars
-----------------------------------------------------------------------------
\* The rows of a dashboard are consecutive events, and a row of an agent that has
\* no card is new, stored after the cards were read, unless the cards fill the
\* store: the page misses no agent it had room for (ui/mod.rs:198-199).
DashboardMissesNoOldAgent ==
  \A b \in Browsers : page[b] = "dashboard" =>
    \A i \in DOMAIN events[b] :
      LET e == events[b][i]
      IN  /\ i > 1 => e.seq = events[b][i - 1].seq + 1
          /\ e.event.agent \notin first[b] =>
               e.seq > readAt[b] \/ Cardinality(first[b]) >= cap(MaxAgents)

\* The timeline of an agent's page bears its header out.  Of the events the
\* header counts it shows as many as the ring and the page hold, and the last
\* confidence they report is the one in the snapshot the header is made from, whatever
\* was stored between the reads.  Otherwise the agent was forgotten between the reads, and the
\* timeline has no event the header knew of (ui/mod.rs:266-273).
Known(b) == {i \in DOMAIN events[b] : events[b][i].seq <= readAt[b]}
Smaller(m, n) == IF m < n THEN m ELSE n

TimelineBearsTheHeaderOut ==
  \A b \in Browsers : page[b] = "agent" =>
    LET snap == Header(b).snapshot
        list == events[b]
        rated == {i \in Known(b) : list[i].event.type = "metacognition"
                                     /\ list[i].event.confidence # None}
    IN  /\ \A i \in DOMAIN list : list[i].event.agent = Header(b).name
        /\ \/ Known(b) = {}
           \/ Len(list) >= Smaller(snap.events_ingested,
                                   Smaller(cap(EventsPerAgent), TimelineEvents))
        /\ rated # {} =>
             list[CHOOSE i \in rated : \A j \in rated : j <= i].event.confidence
               = snap.last_confidence
=============================================================================
