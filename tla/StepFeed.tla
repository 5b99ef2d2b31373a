------------------------------ MODULE StepFeed ------------------------------
(***************************************************************************)
(* The bridge's live feed.  Every engine command sends a step event to the  *)
(* ops socket; the bridge appends it to its event log, derives what else is *)
(* new in the workspace's files, and sends the batch to every connection it *)
(* has, one after the other; the pages show what they receive.              *)
(*                                                                         *)
(* The bridge is one asyncio loop.  A broadcast keeps the loop (turn) from  *)
(* the arrival of its event until a send has to wait for a connection whose *)
(* buffer is full, or until it closes a connection that is gone; then any   *)
(* other broadcast, or a new connection, may go first.                      *)
(***************************************************************************)
EXTENDS Integers, Sequences, FiniteSets, SequencesExt

CONSTANTS
    Conns,         \* the connections; each is used once
    SessionConns,  \* those to the endpoint /sessions; the others are to /ws
    Runs,          \* runs of the engine (RUN-...)
    NoRun,         \* not a run: no session is shown
    Cli,           \* any other run id: a command typed by the owner
    Durable,       \* --sessions-path: the event log is a file
    KeyOf,         \* what an alert is known by: its ts and 80 letters of its text
    FeedTail,      \* 80: how many of the last alerts a step looks at
    ReplayTail,    \* 40: how many of them a state_replay carries
    SeenMax, SeenKeep,           \* 400 and 200: how many keys are remembered
    Arrivals,      \* bound: the <<run, tier>> of the events that may arrive
    MaxEvents, MaxChanges, MaxAlerts, MaxRestarts,  \* bounds
    MaxDeaths,     \* bound: how many connections are lost
    MaxFull        \* bound: how many buffers are full at a time

ASSUME FeedAssumption ==
    /\ SessionConns \subseteq Conns
    /\ NoRun \notin Runs /\ Cli \notin Runs
    /\ Durable \in BOOLEAN
    /\ DOMAIN KeyOf = 1 .. MaxAlerts
    /\ FeedTail \in Nat /\ ReplayTail \in Nat
    /\ SeenMax \in Nat /\ SeenKeep \in 0 .. SeenMax
    /\ MaxEvents \in Nat /\ MaxChanges \in Nat /\ MaxAlerts \in Nat
    /\ MaxRestarts \in Nat /\ MaxDeaths \in Nat /\ MaxFull \in Nat
    /\ \A a \in Arrivals : a[1] \in Runs \cup {Cli}
                          /\ a[2] \in {"T0", "T1", "T6", "T9"}

VARIABLES
    log,        \* the repository: the events of opsstepevents, oldest first
    born,       \* how many events have arrived; the last one's id
    clients,    \* _clients, a set
    conn,       \* state of the socket of each connection
    full,       \* its write buffer is above the high-water mark
    feed,       \* the broadcasts under way, by the id of their event
    turn,       \* the broadcast that has the loop, or 0
    page,       \* what each page shows
    changes,    \* version of CHANGE-LOG.md and the bundles of AUDIT-LOG.md
    alerts,     \* how many open entries NOTIFICATIONS.md has
    seen,       \* _seen_notifs: the keys of the alerts already sent
    lastReplay, \* _last_partial_replay_hash: the version last sent, or -1
    restarts,
    newest,     \* history: the newest event of which a connection has a part,
                \* of its own or of the whole it was sent on connecting
    overtaken,  \* history: a connection got a part of an older event after it
    wiped       \* history: the last event whose batch reset a page's rail

vars == <<log, born, clients, conn, full, feed, turn, page, changes, alerts,
          seen, lastReplay, restarts, newest, overtaken, wiped>>
files   == <<changes, alerts>>
memory  == <<seen, lastReplay>>
history == <<newest, overtaken, wiped>>

Ids == 1 .. MaxEvents

(* What matters of a tier: T0 opens a session, T9 closes it, T4 to T9 write *)
(* and make the bridge look at the change log.                             *)
Tiers == {"T0", "T1", "T6", "T9"}
Writing == {"T6", "T9"}

Event == [id : Ids, run : Runs \cup {Cli}, tier : Tiers]

Message ==
    [type : {"session_open", "step", "session_close"}, id : Ids, run : Runs]
    \cup [type : {"notification"}, alert : 1 .. MaxAlerts]
    \cup [type : {"state_replay"}, version : 0 .. MaxChanges]
    \cup [type : {"sessions_snapshot"}, upto : 0 .. MaxEvents]

(* What is under way of a broadcast: the connection it serves (to), at its  *)
(* message number next, and those of its copy of the set it has not come to *)
(* (left); waiting: the message is written, its send has not returned.     *)
Broadcast == [batch : Seq(Message), snapshot : Message, to : Conns,
              left : SUBSET Conns, next : Nat \ {0}, waiting : BOOLEAN]

Page == [cur : Runs \cup {NoRun},           \* _currentSession
         rail : SUBSET Ids,                 \* the step events it shows
         version : 0 .. MaxChanges,         \* of the change log; 0: empty pane
         inbox : SUBSET (1 .. MaxAlerts),   \* the notifications panel
         told : SUBSET (1 .. MaxAlerts),    \* alerts it has shown since it joined
         cut : 0 .. MaxAlerts,              \* and those too old to be shown then
         upto : 0 .. MaxEvents]             \* /sessions: newest event it counts

FreshPage == [cur |-> NoRun, rail |-> {}, version |-> 0, inbox |-> {},
              told |-> {}, cut |-> 0, upto |-> 0]

BatchFor(b, c) == IF c \in SessionConns THEN <<b.snapshot>> ELSE b.batch

TypeOK ==
    /\ log \in Seq(Event) /\ Len(log) <= MaxEvents
    /\ born \in 0 .. MaxEvents
    /\ clients \subseteq Conns
    /\ conn \in [Conns -> {"new", "open", "gone"}]
    /\ full \in [Conns -> BOOLEAN]
    /\ DOMAIN feed \subseteq 1 .. born
    /\ feed \in [DOMAIN feed -> Broadcast]
    /\ \A h \in DOMAIN feed : /\ feed[h].to \notin feed[h].left
                              /\ feed[h].next <= Len(BatchFor(feed[h], feed[h].to))
    /\ turn \in {0} \cup DOMAIN feed
    /\ page \in [Conns -> Page]
    /\ changes \in 0 .. MaxChanges /\ alerts \in 0 .. MaxAlerts
    /\ seen \subseteq {KeyOf[a] : a \in 1 .. alerts} /\ lastReplay \in -1 .. changes
    /\ restarts \in 0 .. MaxRestarts
    /\ newest \in [Conns -> 0 .. born]
    /\ overtaken \in [Conns -> BOOLEAN]
    /\ wiped \in [Conns -> 0 .. born]

Init ==
    /\ log = <<>> /\ born = 0 /\ clients = {}
    /\ conn = [c \in Conns |-> "new"] /\ full = [c \in Conns |-> FALSE]
    /\ feed = <<>> /\ turn = 0
    /\ page = [c \in Conns |-> FreshPage]
    /\ changes = 0 /\ alerts = 0 /\ seen = {} /\ lastReplay = -1
    /\ restarts = 0
    /\ newest = [c \in Conns |-> 0]
    /\ overtaken = [c \in Conns |-> FALSE]
    /\ wiped = [c \in Conns |-> 0]

-----------------------------------------------------------------------------
(* WHAT THE EVENT LOG SAYS                                                 *)

(* _state_replay_payload: the run of the last T0, until its own T9.  A T0  *)
(* of another run replaces it, a T9 of another run does not end it.        *)
LiveRun(events) ==
    LET opens == {i \in DOMAIN events : events[i].tier = "T0" /\ events[i].run # Cli}
        last  == CHOOSE i \in opens : \A j \in opens : j <= i
        closed == \E j \in DOMAIN events : /\ j > last /\ events[j].tier = "T9"
                                           /\ events[j].run = events[last].run
    IN  IF opens = {} \/ closed THEN NoRun ELSE events[last].run

StepsOf(events, run) == {e.id : e \in {x \in ToSet(events) : x.run = run}}

-----------------------------------------------------------------------------
(* THE PAGE: handleEvent                                                   *)

(* parse_notifications: the last n alerts of the file.                     *)
Latest(n) == {a \in 1 .. alerts : a > alerts - n}

Older(n) == IF alerts > n THEN alerts - n ELSE 0

(* Mutant: the state_replay of a connection has no step_history.          *)
JoinedWithoutSteps(p, events) ==
    LET live == LiveRun(events) IN
    [cur |-> IF live = NoRun THEN p.cur ELSE live, rail |-> {},
     version |-> changes, inbox |-> Latest(ReplayTail), told |-> Latest(ReplayTail),
     cut |-> Older(ReplayTail), upto |-> p.upto]

(* Mutant: the state_replay of a connection has no notifications.         *)
JoinedWithoutAlerts(p, events) ==
    LET live == LiveRun(events) IN
    [cur |-> IF live = NoRun THEN p.cur ELSE live,
     rail |-> IF live = NoRun THEN {} ELSE StepsOf(events, live),
     version |-> changes, inbox |-> p.inbox, told |-> p.told,
     cut |-> Older(ReplayTail), upto |-> p.upto]

(* The state_replay sent on connecting has the whole state: the session     *)
(* and its steps if one is live, the last of the open alerts, the change    *)
(* log.  A page that reconnects keeps the session it had when none is live. *)
Joined(p, events) ==
    LET live == LiveRun(events) IN
    [cur     |-> IF live = NoRun THEN p.cur ELSE live,
     rail    |-> IF live = NoRun THEN {} ELSE StepsOf(events, live),
     version |-> IF changes = 0 THEN p.version ELSE changes,
     inbox   |-> Latest(ReplayTail),
     told    |-> Latest(ReplayTail),
     cut     |-> Older(ReplayTail),
     upto    |-> p.upto]

BelongsToCurrent(p, run) == p.cur \in {NoRun, run}

(* What a page makes of one message.  A state_replay that a step brings     *)
(* along has a change log and nothing else: with no session in it the rail *)
(* is reset, and the absent alerts are rendered as no alerts.              *)
PartialReplay(p, version) ==
    [cur |-> p.cur, rail |-> {}, inbox |-> {}, told |-> p.told, cut |-> p.cut,
     upto |-> p.upto, version |-> IF version = 0 THEN p.version ELSE version]

SessionOpen(p, run) ==
    [cur |-> run, rail |-> {}, version |-> 0,
     inbox |-> p.inbox, told |-> p.told, cut |-> p.cut, upto |-> p.upto]

Shown(p, m) ==
    CASE m.type = "session_open" -> SessionOpen(p, m.run)
      [] m.type = "step" ->
            IF BelongsToCurrent(p, m.run) THEN [p EXCEPT !.rail = @ \cup {m.id}] ELSE p
      [] m.type = "session_close" -> p
      [] m.type = "notification" ->
            [cur |-> p.cur, rail |-> p.rail, version |-> p.version, cut |-> p.cut,
             upto |-> p.upto, inbox |-> p.inbox \cup {m.alert}, told |-> p.told \cup {m.alert}]
      [] m.type = "state_replay" -> PartialReplay(p, m.version)
      [] m.type = "sessions_snapshot" -> [p EXCEPT !.upto = m.upto]

-----------------------------------------------------------------------------
(* THE BATCH OF AN EVENT                                                   *)

(* _adapt_for_main.                                                        *)
Adapted(e) ==
    LET message(type) == <<[type |-> type, id |-> e.id, run |-> e.run]>> IN
    IF e.run = Cli THEN <<>>
    ELSE (IF e.tier = "T0" THEN message("session_open") ELSE <<>>)
         \o message("step")
         \o (IF e.tier = "T9" THEN message("session_close") ELSE <<>>)

(* _derived_events_from_sources: of the last alerts those whose key is not  *)
(* remembered, the first of each key; and the change log if the tier writes *)
(* and the log is not what was sent last.  The audit tail and the bundle    *)
(* results are sent as the alerts are.                                     *)
NewAlerts ==
    {a \in Latest(FeedTail) :
        /\ KeyOf[a] \notin seen
        /\ \A b \in Latest(FeedTail) : b < a => KeyOf[b] # KeyOf[a]}

ReplayDue(e) == e.tier \in Writing /\ changes # lastReplay

(* The alerts in the order of the file.                                    *)
Orders(S) ==
    {s \in [1 .. Cardinality(S) -> S] :
        /\ \A a \in S : \E i \in DOMAIN s : s[i] = a
        /\ \A i, j \in DOMAIN s : i < j => s[i] < s[j]}

Derived(e, order) ==
    [i \in DOMAIN order |-> [type |-> "notification", alert |-> order[i]]]
    \o (IF ReplayDue(e) THEN <<[type |-> "state_replay", version |-> changes]>>
                        ELSE <<>>)

(* When the set of remembered keys is too large an arbitrary part of it    *)
(* is kept: list() of a set has no order.                                  *)
Remembered(all) ==
    IF Cardinality(all) > SeenMax
    THEN {kept \in SUBSET all : Cardinality(kept) = SeenKeep}
    ELSE {all}

-----------------------------------------------------------------------------
(* BROADCASTS                                                              *)

(* Its copy of the connections of now, without those it has nothing for.   *)
Recipients(batch) == {c \in clients : c \in SessionConns \/ batch # <<>>}

(* The broadcast is at message i for c, one of those it was to serve.      *)
Serving(b, c, i) ==
    [batch |-> b.batch, snapshot |-> b.snapshot, to |-> c, left |-> b.left \ {c},
     next |-> i, waiting |-> FALSE]

(* The broadcast of e begins, with any of the connections: a set has no     *)
(* order.                                                                  *)
Begin(e, batch) ==
    \E c \in Recipients(batch) :
        feed' = [h \in DOMAIN feed \cup {e.id} |->
                    IF h = e.id
                    THEN [batch    |-> batch,
                          snapshot |-> [type |-> "sessions_snapshot", upto |-> e.id],
                          to |-> c, left |-> Recipients(batch) \ {c},
                          next |-> 1, waiting |-> FALSE]
                    ELSE feed[h]]

(* handle_ops_ingest: the event is appended and its batch built, without a *)
(* wait in between, and the loop stays with the broadcast.                  *)
Ingest(run, tier) ==
    LET e == [id |-> born + 1, run |-> run, tier |-> tier] IN
    /\ turn = 0 /\ born < MaxEvents
    /\ born' = born + 1
    /\ log' = Append(log, e)
    /\ seen' \in Remembered(seen \cup {KeyOf[a] : a \in NewAlerts})
    /\ lastReplay' = IF ReplayDue(e) THEN changes ELSE lastReplay
    /\ \E order \in Orders(NewAlerts) :
          LET batch == Adapted(e) \o Derived(e, order) IN
          IF Recipients(batch) = {} THEN UNCHANGED <<feed, turn>>
                                    ELSE Begin(e, batch) /\ turn' = e.id
    /\ UNCHANGED <<clients, conn, full, page, files, restarts, history>>

Ended(h) == [g \in DOMAIN feed \ {h} |-> feed[g]]

(* The broadcast turns to another of its connections, or ends.             *)
ToNext(h) ==
    \/ \E c \in feed[h].left : feed' = [feed EXCEPT ![h] = Serving(@, c, 1)]
    \/ feed[h].left = {} /\ feed' = Ended(h)

(* Mutant: one message more than there are.                               *)
AdvancePast(h) ==
    LET b == feed[h] IN
    IF b.next <= Len(BatchFor(b, b.to))
    THEN /\ feed' = [feed EXCEPT ![h] = Serving(b, b.to, b.next + 1)]
         /\ turn' = h
    ELSE /\ ToNext(h)
         /\ turn' = IF b.left = {} THEN 0 ELSE h

(* The broadcast goes on: to the next message for the connection, to the   *)
(* next connection, or to its end.                                         *)
Advance(h) ==
    LET b == feed[h] IN
    IF b.next < Len(BatchFor(b, b.to))
    THEN /\ feed' = [feed EXCEPT ![h] = Serving(b, b.to, b.next + 1)]
         /\ turn' = h
    ELSE /\ ToNext(h)
         /\ turn' = IF b.left = {} THEN 0 ELSE h

MayFill(c) == Cardinality({x \in Conns : full[x]} \cup {c}) <= MaxFull

(* A send writes its message; if the buffer is or becomes full it waits,   *)
(* and the loop is free.                                                   *)
Send(h) ==
    LET b == feed[h]
        c == b.to
        m == BatchFor(b, c)[b.next]
    IN
    /\ turn = h /\ ~b.waiting /\ conn[c] = "open"
    /\ page' = [page EXCEPT ![c] = Shown(@, m)]
    /\ overtaken' = [overtaken EXCEPT ![c] = @ \/ h < newest[c]]
    /\ newest' = [newest EXCEPT ![c] = IF h > @ THEN h ELSE @]
    /\ wiped' = [wiped EXCEPT ![c] =
                    IF m.type = "state_replay" /\ h > @ THEN h ELSE @]
    /\ \/ ~full[c] /\ Advance(h) /\ UNCHANGED full
       \/ /\ MayFill(c)
          /\ full' = [full EXCEPT ![c] = TRUE]
          /\ feed' = [feed EXCEPT ![h].waiting = TRUE]
          /\ turn' = 0
    /\ UNCHANGED <<log, born, clients, conn, files, memory, restarts>>

(* The buffer has drained, and the send that waited for it returns.        *)
SendReturns(h) ==
    /\ turn = 0 /\ feed[h].waiting
    /\ conn[feed[h].to] = "open" /\ ~full[feed[h].to]
    /\ Advance(h)
    /\ UNCHANGED <<log, born, clients, conn, full, page, files, memory,
                   restarts, history>>

(* _drop_client.                                                           *)
Drop(c) == clients' = clients \ {c}

(* Mutant: a failed send ends the broadcast.                              *)
SendFailsAborts(h) ==
    /\ turn = h \/ (turn = 0 /\ feed[h].waiting)
    /\ conn[feed[h].to] = "gone"
    /\ Drop(feed[h].to)
    /\ feed' = Ended(h) /\ turn' = 0
    /\ UNCHANGED <<log, born, conn, full, page, files, memory, restarts, history>>

(* Mutant: a failed send is tried again.                                  *)
SendFailsRetries(h) ==
    /\ turn = h \/ (turn = 0 /\ feed[h].waiting)
    /\ conn[feed[h].to] = "gone"
    /\ Drop(feed[h].to)
    /\ feed' = [feed EXCEPT ![h] = Serving(@, @.to, 1)] /\ turn' = 0
    /\ UNCHANGED <<log, born, conn, full, page, files, memory, restarts, history>>

(* A send fails: the connection is dropped and the rest of its batch is    *)
(* given up; closing it leaves the loop to others.                         *)
SendFails(h) ==
    /\ turn = h \/ (turn = 0 /\ feed[h].waiting)
    /\ conn[feed[h].to] = "gone"
    /\ Drop(feed[h].to)
    /\ ToNext(h)
    /\ turn' = 0
    /\ UNCHANGED <<log, born, conn, full, page, files, memory, restarts, history>>

(* The loop comes back to a broadcast that closed a connection.            *)
GoOn(h) ==
    /\ turn = 0 /\ ~feed[h].waiting
    /\ turn' = h
    /\ UNCHANGED <<log, born, clients, conn, full, feed, page, files, memory,
                   restarts, history>>

Work(h) == Send(h) \/ SendReturns(h) \/ SendFails(h) \/ GoOn(h)

-----------------------------------------------------------------------------
(* CONNECTIONS                                                             *)

(* _ws_handler after the handshake: the connection is registered and its    *)
(* first message built, without a wait in between.  from is the connection  *)
(* the page had before, c for a new page.                                  *)
Connect(c, from) ==
    /\ turn = 0 /\ conn[c] = "new"
    /\ from = c \/ (conn[from] = "gone"
                    /\ (from \in SessionConns <=> c \in SessionConns))
    /\ conn' = [conn EXCEPT ![c] = "open"]
    /\ clients' = clients \cup {c}
    /\ page' = [x \in Conns |->
                  IF x = c
                  THEN IF c \in SessionConns
                       THEN [page[from] EXCEPT !.upto =
                               IF log = <<>> THEN 0 ELSE Last(log).id]
                       ELSE Joined(page[from], log)
                  ELSE IF x = from THEN FreshPage ELSE page[x]]
    /\ newest' = [newest EXCEPT ![c] = born]
    /\ \/ UNCHANGED full
       \/ MayFill(c) /\ full' = [full EXCEPT ![c] = TRUE]
    /\ UNCHANGED <<log, born, feed, turn, files, memory, restarts, overtaken, wiped>>

(* The page reads on.                                                      *)
Drain(c) ==
    /\ turn = 0 /\ conn[c] = "open" /\ full[c]
    /\ full' = [full EXCEPT ![c] = FALSE]
    /\ UNCHANGED <<log, born, clients, conn, feed, turn, page, files, memory,
                   restarts, history>>

(* Of what a page shows only the session outlives its connection: the       *)
(* state_replay of the next one replaces the rest.                         *)
Forgotten(p) == [FreshPage EXCEPT !.cur = p.cur]

(* The connection is lost: the page was closed, or did not answer a ping.  *)
Die(c) ==
    /\ turn = 0 /\ conn[c] = "open"
    /\ Cardinality({x \in Conns : conn[x] = "gone"}) < MaxDeaths
    /\ page' = [page EXCEPT ![c] = Forgotten(@)]
    /\ newest' = [newest EXCEPT ![c] = 0]
    /\ overtaken' = [overtaken EXCEPT ![c] = FALSE]
    /\ wiped' = [wiped EXCEPT ![c] = 0]
    /\ conn' = [conn EXCEPT ![c] = "gone"]
    /\ full' = [full EXCEPT ![c] = FALSE]
    /\ UNCHANGED <<log, born, clients, feed, turn, files, memory, restarts>>

(* The handler of the connection notices and drops it.                     *)
Reap(c) ==
    /\ turn = 0 /\ conn[c] = "gone" /\ c \in clients
    /\ Drop(c)
    /\ UNCHANGED <<log, born, conn, full, feed, turn, page, files, memory,
                   restarts, history>>

(* A session appends to the change log, or somebody to NOTIFICATIONS.md.   *)
WriteFiles ==
    /\ turn = 0
    /\ \/ changes < MaxChanges /\ changes' = changes + 1 /\ UNCHANGED alerts
       \/ alerts < MaxAlerts /\ alerts' = alerts + 1 /\ UNCHANGED changes
    /\ UNCHANGED <<log, born, clients, conn, full, feed, turn, page, memory,
                   restarts, history>>

(* The bridge stops or dies, and is started again.                         *)
Restart ==
    /\ restarts < MaxRestarts
    /\ restarts' = restarts + 1
    /\ log' = IF Durable THEN log ELSE <<>>
    /\ clients' = {} /\ feed' = <<>> /\ turn' = 0
    /\ conn' = [c \in Conns |-> IF conn[c] = "open" THEN "gone" ELSE conn[c]]
    /\ full' = [c \in Conns |-> FALSE]
    /\ seen' = {} /\ lastReplay' = -1
    /\ page' = [c \in Conns |-> Forgotten(page[c])]
    /\ newest' = [c \in Conns |-> 0]
    /\ overtaken' = [c \in Conns |-> FALSE]
    /\ wiped' = [c \in Conns |-> 0]
    /\ UNCHANGED <<born, files>>

Next ==
    \/ \E a \in Arrivals : Ingest(a[1], a[2])
    \/ \E h \in DOMAIN feed : Work(h)
    \/ \E c \in Conns : \/ \E from \in Conns : Connect(c, from)
                        \/ Drain(c) \/ Die(c) \/ Reap(c)
    \/ WriteFiles
    \/ Restart

Spec == Init /\ [][Next]_vars

(* The loop runs whatever is ready.  A page that does not read is closed    *)
(* by the keepalive of websockets (a ping unanswered for 20 s).             *)
Fairness ==
    /\ WF_vars(\E h \in DOMAIN feed : Work(h))
    /\ WF_vars(\E c \in Conns : Drain(c))

FairSpec == Spec /\ Fairness

-----------------------------------------------------------------------------
(* PROPERTIES                                                              *)

Owed(c) ==
    IF c \in clients
    THEN {h \in DOMAIN feed : c = feed[h].to \/ c \in feed[h].left} ELSE {}

(* Exactly once, for every connection by itself: a connection that stays   *)
(* is handed the batch of every event that arrives after it registered,    *)
(* whatever other connections do; _broadcast works on a copy of the set    *)
(* and goes on after a failed send, _ws_handler registers before it reads  *)
(* the log, and handle_ops_ingest appends before it broadcasts.            *)
Channel == INSTANCE StepChannel WITH
    Watchers <- SessionConns,
    published <- 1 .. born, joined <- clients, owed <- [c \in Conns |-> Owed(c)]

ChannelRefinement == Channel!ChannelSpec

(* A page has read all there is for it, in the order of the events.        *)
UpToDate(c) == c \in clients /\ conn[c] = "open" /\ Owed(c) = {} /\ ~overtaken[c]

Pages == Conns \ SessionConns

LiveRunShown(c) == LiveRun(log) # NoRun => page[c].cur = LiveRun(log)

RailOfOneRun(c) ==
    page[c].cur # NoRun =>
        \A e \in ToSet(log) : e.id \in page[c].rail => e.run = page[c].cur

(* The steps of the live session since it was opened for the last time.    *)
SinceOpen ==
    LET opened == {e.id : e \in {x \in ToSet(log) : x.tier = "T0" /\ x.run = LiveRun(log)}}
    IN  {s \in StepsOf(log, LiveRun(log)) : \A o \in opened : o <= s}

RailComplete(c) ==
    LiveRun(log) # NoRun => {s \in SinceOpen : s > wiped[c]} \subseteq page[c].rail

ReplayShown(c) ==
    \/ page[c].version \in lastReplay .. changes
    \/ /\ page[c].version = 0
       /\ \E e \in ToSet(log) : e.tier = "T0" /\ e.run # Cli /\ e.id > wiped[c]

(* A page shows the truth.  It never mixes two sessions on its rail,        *)
(* whatever order the broadcasts reach it in and however often it           *)
(* reconnects.  When it has read what was sent to it, it shows the same     *)
(* live session as a page that connects now (handleEvent and                *)
(* _state_replay_payload fold the same events); every step of that session  *)
(* after the last batch that reset it, none missed between the state_replay *)
(* of _ws_handler and the first broadcast; and the version of the change    *)
(* log that the bridge will not send again, or a newer one, unless it has   *)
(* cleared it for a session that opened since.                              *)
PageTrue ==
    \A c \in Pages :
        /\ RailOfOneRun(c)
        /\ UpToDate(c) => LiveRunShown(c) /\ RailComplete(c) /\ ReplayShown(c)

(* What the bridge remembers as sent was shown.  An alert goes out with the *)
(* next step and its key is then known: a page that was connected has been  *)
(* told an alert of that key, and one that connected later found one in its *)
(* state_replay, unless so many came after it that it was cut off there.    *)
(* /sessions shows a snapshot that counts every event.                     *)
WatchersCurrent ==
    /\ \A c \in Pages : UpToDate(c) =>
          \A k \in seen : \E a \in page[c].told \cup 1 .. page[c].cut : KeyOf[a] = k
    /\ \A c \in SessionConns : UpToDate(c) /\ log # <<>> => page[c].upto = Last(log).id

(* Every batch is delivered to every connection that stays: a page that    *)
(* does not read, or dies in the middle, does not hold the others up for   *)
(* good.                                                                   *)
BatchesArrive == \A c \in Conns : Owed(c) # {} ~> Owed(c) = {}
=============================================================================
