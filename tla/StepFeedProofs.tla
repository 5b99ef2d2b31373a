--------------------------- MODULE StepFeedProofs ---------------------------
(***************************************************************************)
(* What TLC checks of StepFeed on two connections and three events, for all *)
(* sets of connections and runs and for every bound.                       *)
(***************************************************************************)
EXTENDS StepFeed, FiniteSetTheorems, SequenceTheorems, WellFoundedInduction, TLAPS

-----------------------------------------------------------------------------
(* TYPES                                                                   *)

(* A connection that is open is registered, and whoever is registered, or   *)
(* in a broadcast's copy of the set, has been connected.                   *)
Registration ==
    /\ \A c \in clients : conn[c] # "new"
    /\ \A c \in Conns : conn[c] = "open" => c \in clients
    /\ \A h \in DOMAIN feed : /\ conn[feed[h].to] # "new"
                              /\ \A c \in feed[h].left : conn[c] # "new"

(* Whoever is still to be served has something to receive, and a snapshot   *)
(* is that of the event.                                                   *)
Batches ==
    \A h \in DOMAIN feed :
        /\ \A c \in feed[h].left : c \in SessionConns \/ feed[h].batch # <<>>
        /\ feed[h].snapshot = [type |-> "sessions_snapshot", upto |-> h]

(* The log has the last events, one for each id.                           *)
LogIds == \A i \in DOMAIN log : log[i].id = born - Len(log) + i

TypeInv == TypeOK /\ Registration /\ Batches /\ LogIds

(* The greatest of some positions.                                         *)
Below == {ss \in Nat \X Nat : ss[1] < ss[2]}

(* Going down from a number ends.                                          *)
LEMMA BelowWellFounded == IsWellFoundedOn(Below, Nat)
<1>1. OpToRel(<, Nat) = Below
  BY Zenon DEF OpToRel, Below
<1>2. QED
  BY <1>1, NatLessThanWellFounded, Zenon

(* Some positions of a sequence have a last one.                           *)
LEMMA Greatest ==
  ASSUME NEW n \in Nat, NEW S \in SUBSET (1 .. n), S # {}
  PROVE  \E i \in S : \A j \in S : j <= i
<1> DEFINE T == {n - i : i \in S}
<1>1. T \subseteq Nat /\ T # {}
  <2>1. \A i \in S : i \in Nat /\ i <= n
    OBVIOUS
  <2>2. \A i \in S : n - i \in Nat
    BY <2>1
  <2>3. QED
    BY <2>2
<1>2. PICK t \in T : \A u \in T : <<u, t>> \notin Below
  BY <1>1, BelowWellFounded, WFMin
<1>3. PICK i \in S : t = n - i
  OBVIOUS
<1>4. ASSUME NEW j \in S PROVE j <= i
  <2>1. n - j \in T /\ n - j \in Nat /\ t \in Nat /\ i \in Int /\ j \in Int
    BY <1>1
  <2>2. ~(n - j < t)
    BY <1>2, <2>1 DEF Below
  <2>3. QED
    BY <1>3, <2>1, <2>2
<1>5. QED
  BY <1>4

(* The sessions opened in a log, and what closes one.                       *)
Opens(events) == {i \in DOMAIN events : events[i].tier = "T0" /\ events[i].run # Cli}

LastOpen(events, i) == i \in Opens(events) /\ \A j \in Opens(events) : j <= i

ClosedIn(events, i) ==
    \E j \in DOMAIN events : /\ j > i /\ events[j].tier = "T9"
                             /\ events[j].run = events[i].run

(* The run that is live is the one of the last T0, if that is not closed.   *)
LEMMA LiveRunIs ==
  ASSUME NEW events \in Seq(Event)
  PROVE  /\ Opens(events) = {} => LiveRun(events) = NoRun
         /\ Opens(events) # {} => \E i \in Opens(events) : LastOpen(events, i)
         /\ \A i : LastOpen(events, i) =>
               LiveRun(events) = IF ClosedIn(events, i) THEN NoRun ELSE events[i].run
<1>1. Opens(events) = {} => LiveRun(events) = NoRun
  BY Zenon DEF LiveRun, Opens
<1>2. ASSUME Opens(events) # {} PROVE \E i \in Opens(events) : LastOpen(events, i)
  <2>1. Opens(events) \in SUBSET (1 .. Len(events)) /\ Len(events) \in Nat
    BY DEF Opens
  <2>2. QED
    BY <1>2, <2>1, Greatest DEF LastOpen
<1>3. ASSUME NEW i, LastOpen(events, i)
      PROVE  LiveRun(events) = IF ClosedIn(events, i) THEN NoRun ELSE events[i].run
  <2> DEFINE last == CHOOSE k \in Opens(events) : \A j \in Opens(events) : j <= k
  <2>1. last \in Opens(events) /\ \A j \in Opens(events) : j <= last
    BY <1>3, Zenon DEF LastOpen
  <2>2. last = i
    <3>1. last <= i /\ i <= last
      BY <1>3, <2>1 DEF LastOpen
    <3>2. last \in Nat /\ i \in Nat
      BY <1>3, <2>1 DEF LastOpen, Opens
    <3>3. QED
      BY <3>1, <3>2
  <2>3. LiveRun(events) = IF Opens(events) = {} \/ ClosedIn(events, last)
                          THEN NoRun ELSE events[last].run
    BY Zenon DEF LiveRun, Opens, ClosedIn
  <2>4. Opens(events) # {}
    BY <1>3 DEF LastOpen
  <2>5. QED
    BY <2>2, <2>3, <2>4, Zenon
<1>4. QED
  BY <1>1, <1>2, <1>3

(* It is a run of the engine, or none.                                     *)
LEMMA LiveRunTyped ==
  ASSUME NEW events \in Seq(Event)
  PROVE  LiveRun(events) \in Runs \cup {NoRun}
<1>1. CASE Opens(events) = {}
  BY <1>1, LiveRunIs
<1>2. CASE Opens(events) # {}
  <2>1. PICK i \in Opens(events) : LastOpen(events, i)
    BY <1>2, LiveRunIs
  <2>2. events[i].run \in Runs
    <3>1. events[i] \in Event /\ events[i].run # Cli
      BY DEF Opens
    <3>2. QED
      BY <3>1 DEF Event
  <2>3. QED
    BY <2>1, <2>2, LiveRunIs
<1>3. QED
  BY <1>1, <1>2

(* The steps of a run are events.                                          *)
LEMMA StepsTyped ==
  ASSUME NEW events \in Seq(Event), NEW run
  PROVE  StepsOf(events, run) \subseteq Ids
<1>1. ASSUME NEW x \in ToSet(events) PROVE x.id \in Ids
  <2>1. PICK i \in DOMAIN events : x = events[i]
    BY DEF ToSet
  <2>2. events[i] \in Event
    BY <2>1
  <2>3. QED
    BY <2>1, <2>2 DEF Event
<1>2. QED
  BY <1>1 DEF StepsOf

(* What a message says, by its type.                                       *)
LEMMA MessageFields ==
  ASSUME NEW m \in Message
  PROVE  /\ m.type \in {"session_open", "step", "session_close"} => m.run \in Runs /\ m.id \in Ids
         /\ m.type = "notification" => m.alert \in 1 .. MaxAlerts
         /\ m.type = "state_replay" => m.version \in 0 .. MaxChanges
         /\ m.type = "sessions_snapshot" => m.upto \in 0 .. MaxEvents
         /\ m.type \in {"session_open", "step", "session_close", "notification",
                        "state_replay", "sessions_snapshot"}
BY DEF Message

(* What a page is after a message.                                         *)
LEMMA ShownTyped ==
  ASSUME NEW p \in Page, NEW m \in Message
  PROVE  Shown(p, m) \in Page
<1> USE MessageFields
<1>1. CASE m.type = "session_open"
  <2>1. SessionOpen(p, m.run) \in Page
    <3>1. m.run \in Runs /\ p.inbox \in SUBSET (1 .. MaxAlerts)
          /\ p.told \in SUBSET (1 .. MaxAlerts) /\ p.upto \in 0 .. MaxEvents
          /\ p.cut \in 0 .. MaxAlerts
      BY <1>1 DEF Page
    <3>2. 0 \in 0 .. MaxChanges
      BY FeedAssumption
    <3>3. QED
      BY <3>1, <3>2 DEF SessionOpen, Page
  <2>2. QED
    BY <1>1, <2>1, Zenon DEF Shown
<1>2. CASE m.type = "step"
  BY <1>2 DEF Shown, Page
<1>3. CASE m.type = "session_close"
  BY <1>3 DEF Shown, Page
<1>4. CASE m.type = "notification"
  BY <1>4 DEF Shown, Page
<1>5. CASE m.type = "state_replay"
  BY <1>5 DEF Shown, PartialReplay, Page
<1>6. CASE m.type = "sessions_snapshot"
  BY <1>6 DEF Shown, Page
<1>7. QED
  BY <1>1, <1>2, <1>3, <1>4, <1>5, <1>6

(* What a page is once it has joined.                                      *)
LEMMA JoinedTyped ==
  ASSUME NEW p \in Page, NEW events \in Seq(Event),
         changes \in 0 .. MaxChanges, alerts \in 0 .. MaxAlerts
  PROVE  Joined(p, events) \in Page
<1>1. LiveRun(events) \in Runs \cup {NoRun} /\ StepsOf(events, LiveRun(events)) \subseteq Ids
  BY LiveRunTyped, StepsTyped
<1>2. Latest(ReplayTail) \subseteq 1 .. MaxAlerts /\ Older(ReplayTail) \in 0 .. MaxAlerts
  BY FeedAssumption DEF Latest, Older
<1>3. QED
  BY <1>1, <1>2 DEF Joined, Page

-----------------------------------------------------------------------------
(* BATCHES                                                                 *)

Note(type, e) == [type |-> type, id |-> e.id, run |-> e.run]

(* Two messages, one after the other.                                      *)
LEMMA PairIs ==
  ASSUME NEW a, NEW b
  PROVE  /\ <<a>> \o <<b>> \o <<>> = <<a, b>>
         /\ <<>> \o <<a>> \o <<b>> = <<a, b>>
<1>1. <<a>> \o <<b>> = <<a, b>>
  <2>1. <<a>> \in Seq({a, b}) /\ <<b>> \in Seq({a, b}) /\ <<a, b>> \in Seq({a, b})
    OBVIOUS
  <2>2. /\ Len(<<a>> \o <<b>>) = 2 /\ (<<a>> \o <<b>>)[1] = a /\ (<<a>> \o <<b>>)[2] = b
        /\ <<a>> \o <<b>> \in Seq({a, b})
    BY <2>1, ConcatProperties
  <2>3. \A i \in 1 .. Len(<<a>> \o <<b>>) : (<<a>> \o <<b>>)[i] = <<a, b>>[i]
    BY <2>2
  <2>4. QED
    BY <2>1, <2>2, <2>3, SeqEqual
<1>2. <<a, b>> \o <<>> = <<a, b>> /\ <<>> \o <<a>> = <<a>>
  OBVIOUS
<1>3. QED
  BY <1>1, <1>2

(* The messages of an event by itself, by its tier.                        *)
LEMMA AdaptedIs ==
  ASSUME NEW e \in Event
  PROVE  Adapted(e) = IF e.run = Cli THEN <<>>
                      ELSE IF e.tier = "T0"
                      THEN <<Note("session_open", e), Note("step", e)>>
                      ELSE IF e.tier = "T9"
                      THEN <<Note("step", e), Note("session_close", e)>>
                      ELSE <<Note("step", e)>>
<1>1. CASE e.run = Cli
  BY <1>1 DEF Adapted
<1>2. CASE e.run # Cli /\ e.tier = "T0"
  <2>1. Adapted(e) = <<Note("session_open", e)>> \o <<Note("step", e)>> \o <<>>
    BY <1>2 DEF Adapted, Note
  <2>2. QED
    BY <1>2, <2>1, PairIs
<1>3. CASE e.run # Cli /\ e.tier = "T9"
  <2>1. Adapted(e) = <<>> \o <<Note("step", e)>> \o <<Note("session_close", e)>>
    BY <1>3 DEF Adapted, Note
  <2>2. QED
    BY <1>3, <2>1, PairIs
<1>4. CASE e.run # Cli /\ e.tier # "T0" /\ e.tier # "T9"
  BY <1>4 DEF Adapted, Note
<1>5. QED
  BY <1>1, <1>2, <1>3, <1>4

(* The alerts of an event are some of the file's.                          *)
LEMMA NewTyped ==
  ASSUME alerts \in 0 .. MaxAlerts
  PROVE  NewAlerts \subseteq 1 .. alerts /\ 1 .. alerts \subseteq 1 .. MaxAlerts
BY FeedAssumption DEF NewAlerts, Latest

(* The alerts of an event are put into an order of theirs.                 *)
LEMMA OrderTyped ==
  ASSUME alerts \in 0 .. MaxAlerts, NEW order \in Orders(NewAlerts)
  PROVE  /\ order \in Seq(NewAlerts)
         /\ \A a \in NewAlerts : \E i \in DOMAIN order : order[i] = a
<1>1. alerts \in Nat /\ IsFiniteSet(1 .. alerts)
  BY FS_Interval, FeedAssumption
<1>2. Cardinality(NewAlerts) \in Nat
  BY <1>1, NewTyped, FS_Subset, FS_CardinalityType
<1>3. QED
  BY <1>2 DEF Orders

AlertsIn(order) == [i \in DOMAIN order |-> [type |-> "notification", alert |-> order[i]]]

ReplayIn(e) == IF ReplayDue(e) THEN <<[type |-> "state_replay", version |-> changes]>> ELSE <<>>

(* The parts of a batch are messages.                                      *)
LEMMA PartsTyped ==
  ASSUME alerts \in 0 .. MaxAlerts, changes \in 0 .. MaxChanges,
         NEW e \in Event, NEW order \in Orders(NewAlerts)
  PROVE  /\ Adapted(e) \in Seq(Message)
         /\ AlertsIn(order) \in Seq(Message) /\ Len(AlertsIn(order)) = Len(order)
         /\ ReplayIn(e) \in Seq(Message)
         /\ Derived(e, order) = AlertsIn(order) \o ReplayIn(e)
<1>1. Adapted(e) \in Seq(Message)
  <2>1. e.run # Cli => \A t \in {"session_open", "step", "session_close"} : Note(t, e) \in Message
    BY DEF Note, Message, Event
  <2>2. CASE e.run = Cli
    <3>1. Adapted(e) = <<>>
      BY <2>2, AdaptedIs
    <3>2. QED
      BY <3>1
  <2>3. CASE e.run # Cli
    <3>1. /\ Note("session_open", e) \in Message
          /\ Note("step", e) \in Message
          /\ Note("session_close", e) \in Message
      BY <2>1, <2>3
    <3>2. /\ <<Note("session_open", e), Note("step", e)>> \in Seq(Message)
          /\ <<Note("step", e), Note("session_close", e)>> \in Seq(Message)
          /\ <<Note("step", e)>> \in Seq(Message)
      BY <3>1
    <3>3. QED
      BY <2>3, <3>2, AdaptedIs
  <2>4. QED
    BY <2>2, <2>3
<1>2. AlertsIn(order) \in Seq(Message) /\ Len(AlertsIn(order)) = Len(order)
  <2>1. order \in Seq(NewAlerts)
    BY OrderTyped
  <2>2. DOMAIN order = 1 .. Len(order) /\ Len(order) \in Nat
    BY <2>1
  <2>3. \A i \in DOMAIN order : [type |-> "notification", alert |-> order[i]] \in Message
    <3>1. \A i \in DOMAIN order : order[i] \in 1 .. MaxAlerts
      BY <2>1, <2>2, NewTyped
    <3>2. QED
      BY <3>1 DEF Message
  <2>4. AlertsIn(order) \in [1 .. Len(order) -> Message]
    BY <2>2, <2>3 DEF AlertsIn
  <2>5. QED
    BY <2>2, <2>4
<1>3. ReplayIn(e) \in Seq(Message)
  <2>1. [type |-> "state_replay", version |-> changes] \in Message
    BY DEF Message
  <2>2. QED
    BY <2>1 DEF ReplayIn
<1>4. Derived(e, order) = AlertsIn(order) \o ReplayIn(e)
  BY Zenon DEF Derived, AlertsIn, ReplayIn
<1>5. QED
  BY <1>1, <1>2, <1>3, <1>4

(* The batch of an event is a sequence of messages.                        *)
LEMMA BatchTyped ==
  ASSUME alerts \in 0 .. MaxAlerts, changes \in 0 .. MaxChanges,
         NEW e \in Event, NEW order \in Orders(NewAlerts)
  PROVE  Adapted(e) \o Derived(e, order) \in Seq(Message)
<1>1. AlertsIn(order) \o ReplayIn(e) \in Seq(Message)
  BY PartsTyped, ConcatProperties
<1>2. QED
  BY <1>1, PartsTyped, ConcatProperties

-----------------------------------------------------------------------------
(* WHAT IS LEFT OF A BROADCAST                                             *)

Served(b) == {b.to} \cup b.left

(* Message i of a broadcast is still to be written to c.                   *)
Ahead(b, c, i) ==
    /\ i \in 1 .. Len(BatchFor(b, c))
    /\ \/ c \in b.left
       \/ c = b.to /\ (IF b.waiting THEN i > b.next ELSE i >= b.next)

InFeed(f, h, c) == h \in DOMAIN f /\ c \in Served(f[h])

AheadIn(f, h, c, i) == h \in DOMAIN f /\ Ahead(f[h], c, i)

GoodEntry(b, h) ==
    /\ b \in Broadcast
    /\ b.to \notin b.left
    /\ b.next <= Len(BatchFor(b, b.to))
    /\ \A c \in b.left : c \in SessionConns \/ b.batch # <<>>
    /\ b.snapshot = [type |-> "sessions_snapshot", upto |-> h]

GoodFeed(f, n) ==
    /\ DOMAIN f \subseteq 1 .. n
    /\ f \in [DOMAIN f -> Broadcast]
    /\ \A h \in DOMAIN f : GoodEntry(f[h], h)

(* What a step may make of the broadcasts under way.                       *)
SameMessages(f, g) ==
    \A h \in DOMAIN g : /\ h \in DOMAIN f
                        /\ g[h].batch = f[h].batch /\ g[h].snapshot = f[h].snapshot

(* What the type invariant says of the broadcasts under way.               *)
LEMMA TypeInvFeed ==
  ASSUME TypeInv
  PROVE  GoodFeed(feed, born)
BY DEF TypeInv, TypeOK, Batches, GoodFeed, GoodEntry

(* The batch for a connection is a sequence of messages.                   *)
LEMMA BatchForTyped ==
  ASSUME NEW b \in Broadcast, NEW c
  PROVE  BatchFor(b, c) \in Seq(Message) /\ Len(BatchFor(b, c)) \in Nat
<1>1. b.batch \in Seq(Message) /\ b.snapshot \in Message
  BY DEF Broadcast
<1>2. QED
  BY <1>1 DEF BatchFor

(* A broadcast that goes on with one of its connections.                   *)
LEMMA ServingGood ==
  ASSUME NEW h, NEW b, GoodEntry(b, h), NEW c \in Served(b), NEW i \in Nat \ {0},
         i <= Len(BatchFor(b, c))
  PROVE  GoodEntry(Serving(b, c, i), h)
<1>1. /\ b.batch \in Seq(Message) /\ b.snapshot \in Message /\ b.left \subseteq Conns
      /\ b.to \in Conns
  BY DEF GoodEntry, Broadcast
<1>2. c \in Conns
  BY <1>1 DEF Served
<1>3. Serving(b, c, i) \in Broadcast
  BY <1>1, <1>2 DEF Serving, Broadcast
<1>4. BatchFor(Serving(b, c, i), c) = BatchFor(b, c)
  BY DEF BatchFor, Serving
<1>5. QED
  BY <1>3, <1>4 DEF GoodEntry, Serving

(* Every connection that is left has a first message.                      *)
LEMMA FirstMessage ==
  ASSUME NEW h, NEW b, GoodEntry(b, h), NEW c \in b.left
  PROVE  1 <= Len(BatchFor(b, c))
<1>1. CASE c \in SessionConns
  BY <1>1 DEF BatchFor
<1>2. CASE c \notin SessionConns
  <2>1. b.batch \in Seq(Message) /\ b.batch # <<>>
    BY <1>2 DEF GoodEntry, Broadcast
  <2>2. QED
    BY <1>2, <2>1, EmptySeq DEF BatchFor
<1>3. QED
  BY <1>1, <1>2

(* One entry of the broadcasts is replaced.                                *)
LEMMA Replaced ==
  ASSUME NEW f, NEW n, GoodFeed(f, n), NEW h \in DOMAIN f, NEW b, GoodEntry(b, h),
         b.batch = f[h].batch, b.snapshot = f[h].snapshot
  PROVE  /\ GoodFeed([f EXCEPT ![h] = b], n)
         /\ SameMessages(f, [f EXCEPT ![h] = b])
         /\ DOMAIN [f EXCEPT ![h] = b] = DOMAIN f
         /\ [f EXCEPT ![h] = b][h] = b
         /\ \A k \in DOMAIN f : k # h => [f EXCEPT ![h] = b][k] = f[k]
<1>1. f \in [DOMAIN f -> Broadcast] /\ b \in Broadcast
  BY DEF GoodFeed, GoodEntry
<1> DEFINE g == [f EXCEPT ![h] = b]
<1>2. g \in [DOMAIN f -> Broadcast] /\ DOMAIN g = DOMAIN f
  BY <1>1
<1>3. g[h] = b /\ \A k \in DOMAIN f : k # h => g[k] = f[k]
  BY <1>1
<1>4. \A k \in DOMAIN g : GoodEntry(g[k], k)
  BY <1>2, <1>3 DEF GoodFeed
<1>5. QED
  BY <1>2, <1>3, <1>4 DEF GoodFeed, SameMessages

(* One of the broadcasts has ended.                                        *)
LEMMA EndedFeed ==
  ASSUME NEW n, GoodFeed(feed, n), NEW h \in DOMAIN feed
  PROVE  /\ GoodFeed(Ended(h), n)
         /\ SameMessages(feed, Ended(h))
         /\ DOMAIN Ended(h) = DOMAIN feed \ {h}
         /\ \A k \in DOMAIN feed : k # h => Ended(h)[k] = feed[k]
<1>1. DOMAIN Ended(h) = DOMAIN feed \ {h} /\ \A k \in DOMAIN feed : k # h => Ended(h)[k] = feed[k]
  BY DEF Ended
<1>2. Ended(h) \in [DOMAIN Ended(h) -> Broadcast]
  BY DEF Ended, GoodFeed
<1>3. QED
  BY <1>1, <1>2 DEF GoodFeed, SameMessages

(* What is ahead of a broadcast that turns to a connection it had left, and *)
(* of one that turns to the next message.                                  *)
LEMMA ServingAhead ==
  ASSUME NEW h, NEW b, GoodEntry(b, h)
  PROVE  /\ \A c \in b.left : \A x :
               /\ x \in Served(Serving(b, c, 1)) <=> x \in Served(b) /\ x # b.to
               /\ \A i : Ahead(Serving(b, c, 1), x, i) <=> Ahead(b, x, i) /\ x # b.to
         /\ \A x :
               /\ x \in Served(Serving(b, b.to, b.next + 1)) <=> x \in Served(b)
               /\ \A i : Ahead(Serving(b, b.to, b.next + 1), x, i)
                            <=> Ahead(b, x, i) /\ ~(x = b.to /\ i <= b.next)
<1>0. b.next \in Nat \ {0} /\ b.to \notin b.left /\ b.waiting \in BOOLEAN
  BY DEF GoodEntry, Broadcast
<1>1. ASSUME NEW c \in b.left, NEW x
      PROVE  /\ x \in Served(Serving(b, c, 1)) <=> x \in Served(b) /\ x # b.to
             /\ \A i : Ahead(Serving(b, c, 1), x, i) <=> Ahead(b, x, i) /\ x # b.to
  <2>1. BatchFor(Serving(b, c, 1), x) = BatchFor(b, x)
    BY DEF BatchFor, Serving
  <2>2. x \in Served(Serving(b, c, 1)) <=> x \in Served(b) /\ x # b.to
    BY <1>0, <1>1 DEF Served, Serving
  <2>3. ASSUME NEW i
        PROVE  Ahead(Serving(b, c, 1), x, i) <=> Ahead(b, x, i) /\ x # b.to
    <3>1. i \in 1 .. Len(BatchFor(b, x)) => i \in Nat /\ i >= 1
      <4>1. Len(BatchFor(b, x)) \in Nat
        BY BatchForTyped DEF GoodEntry
      <4>2. QED
        BY <4>1
    <3>2. QED
      BY <1>0, <1>1, <2>1, <3>1 DEF Ahead, Serving
  <2>4. QED
    BY <2>2, <2>3
<1>2. ASSUME NEW x
      PROVE  /\ x \in Served(Serving(b, b.to, b.next + 1)) <=> x \in Served(b)
             /\ \A i : Ahead(Serving(b, b.to, b.next + 1), x, i)
                          <=> Ahead(b, x, i) /\ ~(x = b.to /\ i <= b.next)
  <2>1. BatchFor(Serving(b, b.to, b.next + 1), x) = BatchFor(b, x)
    BY DEF BatchFor, Serving
  <2>2. x \in Served(Serving(b, b.to, b.next + 1)) <=> x \in Served(b)
    BY <1>0 DEF Served, Serving
  <2>3. ASSUME NEW i
        PROVE  Ahead(Serving(b, b.to, b.next + 1), x, i)
                  <=> Ahead(b, x, i) /\ ~(x = b.to /\ i <= b.next)
    <3>1. i \in 1 .. Len(BatchFor(b, x)) => i \in Nat /\ i >= 1
      <4>1. Len(BatchFor(b, x)) \in Nat
        BY BatchForTyped DEF GoodEntry
      <4>2. QED
        BY <4>1
    <3>2. QED
      BY <1>0, <2>1, <3>1 DEF Ahead, Serving
  <2>4. QED
    BY <2>2, <2>3
<1>3. QED
  BY <1>1, <1>2

(* Turning to another connection gives up what was left for this one, and   *)
(* nothing else.                                                           *)
LEMMA ToNextKeeps ==
  ASSUME NEW n, GoodFeed(feed, n), NEW h \in DOMAIN feed, ToNext(h)
  PROVE  /\ GoodFeed(feed', n) /\ SameMessages(feed, feed')
         /\ h \in DOMAIN feed' <=> feed[h].left # {}
         /\ \A k, c : /\ InFeed(feed', k, c)
                            <=> InFeed(feed, k, c) /\ ~(k = h /\ c = feed[h].to)
                      /\ \A i : AheadIn(feed', k, c, i)
                            <=> AheadIn(feed, k, c, i) /\ ~(k = h /\ c = feed[h].to)
<1>0. GoodEntry(feed[h], h)
  BY DEF GoodFeed
<1>1. CASE \E c \in feed[h].left : feed' = [feed EXCEPT ![h] = Serving(feed[h], c, 1)]
  <2>1. PICK c \in feed[h].left : feed' = [feed EXCEPT ![h] = Serving(feed[h], c, 1)]
    BY <1>1
  <2>2. 1 <= Len(BatchFor(feed[h], c)) /\ c \in Served(feed[h])
    BY <1>0, FirstMessage DEF Served
  <2>3. GoodEntry(Serving(feed[h], c, 1), h)
    BY <1>0, <2>2, ServingGood
  <2>4. /\ Serving(feed[h], c, 1).batch = feed[h].batch
        /\ Serving(feed[h], c, 1).snapshot = feed[h].snapshot
    BY DEF Serving
  <2>5. /\ GoodFeed(feed', n) /\ SameMessages(feed, feed') /\ DOMAIN feed' = DOMAIN feed
        /\ feed'[h] = Serving(feed[h], c, 1)
        /\ \A k \in DOMAIN feed : k # h => feed'[k] = feed[k]
    BY <2>1, <2>3, <2>4, Replaced
  <2>6. ASSUME NEW k, NEW x
        PROVE  /\ InFeed(feed', k, x)
                     <=> InFeed(feed, k, x) /\ ~(k = h /\ x = feed[h].to)
               /\ \A i : AheadIn(feed', k, x, i)
                     <=> AheadIn(feed, k, x, i) /\ ~(k = h /\ x = feed[h].to)
    <3>1. CASE k = h
      BY <1>0, <2>5, <3>1, ServingAhead DEF InFeed, AheadIn
    <3>2. CASE k # h
      BY <2>5, <3>2 DEF InFeed, AheadIn
    <3>3. QED
      BY <3>1, <3>2
  <2>7. QED
    BY <2>5, <2>6
<1>2. CASE feed[h].left = {} /\ feed' = Ended(h)
  <2>1. /\ GoodFeed(feed', n) /\ SameMessages(feed, feed')
        /\ DOMAIN feed' = DOMAIN feed \ {h}
        /\ \A k \in DOMAIN feed : k # h => feed'[k] = feed[k]
    BY <1>2, EndedFeed
  <2>2. ASSUME NEW k, NEW x
        PROVE  /\ InFeed(feed', k, x)
                     <=> InFeed(feed, k, x) /\ ~(k = h /\ x = feed[h].to)
               /\ \A i : AheadIn(feed', k, x, i)
                     <=> AheadIn(feed, k, x, i) /\ ~(k = h /\ x = feed[h].to)
    <3>1. CASE k = h
      <4>1. InFeed(feed, h, x) => x = feed[h].to
        BY <1>2 DEF InFeed, Served
      <4>2. \A i : AheadIn(feed, h, x, i) => x = feed[h].to
        BY <1>2 DEF AheadIn, Ahead
      <4>3. QED
        BY <2>1, <3>1, <4>1, <4>2 DEF InFeed, AheadIn
    <3>2. CASE k # h
      BY <2>1, <3>2 DEF InFeed, AheadIn
    <3>3. QED
      BY <3>1, <3>2
  <2>3. QED
    BY <1>2, <2>1, <2>2
<1>3. QED
  BY <1>1, <1>2 DEF ToNext

(* Going on leaves what comes after the message that was written.          *)
LEMMA AdvanceKeeps ==
  ASSUME NEW n, GoodFeed(feed, n), NEW h \in DOMAIN feed, Advance(h)
  PROVE  /\ GoodFeed(feed', n) /\ SameMessages(feed, feed')
         /\ turn' \in {0} \cup DOMAIN feed'
         /\ \A k, c : /\ InFeed(feed', k, c)
                            <=> /\ InFeed(feed, k, c)
                                /\ ~(/\ k = h /\ c = feed[h].to
                                     /\ feed[h].next = Len(BatchFor(feed[h], c)))
                      /\ \A i : AheadIn(feed', k, c, i)
                            <=> /\ AheadIn(feed, k, c, i)
                                /\ ~(k = h /\ c = feed[h].to /\ i <= feed[h].next)
<1> DEFINE b == feed[h]
<1>0. /\ GoodEntry(b, h) /\ b.next \in Nat \ {0} /\ b \in Broadcast
      /\ Len(BatchFor(b, b.to)) \in Nat /\ b.next <= Len(BatchFor(b, b.to))
  <2>1. GoodEntry(b, h) /\ b \in Broadcast
    BY DEF GoodFeed, GoodEntry
  <2>2. QED
    BY <2>1, BatchForTyped DEF GoodEntry, Broadcast
<1>1. CASE b.next < Len(BatchFor(b, b.to))
  <2>1. feed' = [feed EXCEPT ![h] = Serving(b, b.to, b.next + 1)] /\ turn' = h
    BY <1>1 DEF Advance
  <2>3. GoodEntry(Serving(b, b.to, b.next + 1), h)
    <3>1. b.next + 1 \in Nat \ {0} /\ b.next + 1 <= Len(BatchFor(b, b.to))
      BY <1>0, <1>1
    <3>2. b.to \in Served(b)
      BY DEF Served
    <3>3. QED
      BY <1>0, <3>1, <3>2, ServingGood
  <2>4. /\ Serving(b, b.to, b.next + 1).batch = b.batch
        /\ Serving(b, b.to, b.next + 1).snapshot = b.snapshot
    BY DEF Serving
  <2>5. /\ GoodFeed(feed', n) /\ SameMessages(feed, feed') /\ DOMAIN feed' = DOMAIN feed
        /\ feed'[h] = Serving(b, b.to, b.next + 1)
        /\ \A k \in DOMAIN feed : k # h => feed'[k] = feed[k]
    BY ZenonT(30), <2>1, <2>3, <2>4, Replaced
  <2>6. ASSUME NEW k, NEW x
        PROVE  /\ InFeed(feed', k, x) <=> InFeed(feed, k, x)
               /\ \A i : AheadIn(feed', k, x, i)
                     <=> AheadIn(feed, k, x, i) /\ ~(k = h /\ x = b.to /\ i <= b.next)
    <3>1. CASE k = h
      BY <1>0, <2>5, <3>1, ServingAhead DEF InFeed, AheadIn
    <3>2. CASE k # h
      BY <2>5, <3>2 DEF InFeed, AheadIn
    <3>3. QED
      BY <3>1, <3>2
  <2>7. b.next # Len(BatchFor(b, b.to))
    BY <1>0, <1>1
  <2>8. QED
    BY <2>1, <2>5, <2>6, <2>7
<1>2. CASE ~(b.next < Len(BatchFor(b, b.to)))
  <2>1. ToNext(h) /\ turn' = IF b.left = {} THEN 0 ELSE h
    BY <1>2 DEF Advance
  <2>2. b.next = Len(BatchFor(b, b.to))
    BY <1>0, <1>2
  <2>3. \A i : AheadIn(feed, h, b.to, i) => i <= b.next
    BY <1>0, <2>2 DEF AheadIn, Ahead
  <2>4. QED
    BY <2>1, <2>2, <2>3, ToNextKeeps
<1>3. QED
  BY <1>1, <1>2

(* A send that waits has written its message.                              *)
LEMMA WaitingKeeps ==
  ASSUME NEW n, GoodFeed(feed, n), NEW h \in DOMAIN feed, ~feed[h].waiting,
         feed' = [feed EXCEPT ![h].waiting = TRUE]
  PROVE  /\ GoodFeed(feed', n) /\ SameMessages(feed, feed')
         /\ \A k, c : /\ InFeed(feed', k, c) <=> InFeed(feed, k, c)
                      /\ \A i : AheadIn(feed', k, c, i)
                            <=> /\ AheadIn(feed, k, c, i)
                                /\ ~(k = h /\ c = feed[h].to /\ i <= feed[h].next)
<1> DEFINE b == feed[h]
<1>d. PICK d : d = [b EXCEPT !.waiting = TRUE]
  OBVIOUS
<1>0. GoodEntry(b, h) /\ b \in Broadcast /\ b.next \in Nat
  <2>1. GoodEntry(b, h) /\ b \in Broadcast
    BY DEF GoodFeed, GoodEntry
  <2>2. QED
    BY <2>1 DEF Broadcast
<1>1. /\ d \in Broadcast /\ d.to = b.to /\ d.left = b.left /\ d.batch = b.batch
      /\ d.snapshot = b.snapshot /\ d.next = b.next /\ d.waiting = TRUE
  BY <1>0, <1>d DEF Broadcast
<1>2. \A x : BatchFor(d, x) = BatchFor(b, x)
  BY <1>1 DEF BatchFor
<1>3. GoodEntry(d, h)
  BY <1>0, <1>1, <1>2 DEF GoodEntry
<1>4. /\ GoodFeed(feed', n) /\ SameMessages(feed, feed') /\ DOMAIN feed' = DOMAIN feed
      /\ feed'[h] = d
      /\ \A k \in DOMAIN feed : k # h => feed'[k] = feed[k]
  <2>1. feed' = [feed EXCEPT ![h] = d]
    BY <1>d
  <2>2. d.batch = feed[h].batch /\ d.snapshot = feed[h].snapshot
    BY <1>1
  <2>3. /\ GoodFeed([feed EXCEPT ![h] = d], n)
        /\ SameMessages(feed, [feed EXCEPT ![h] = d])
        /\ DOMAIN [feed EXCEPT ![h] = d] = DOMAIN feed
        /\ [feed EXCEPT ![h] = d][h] = d
        /\ \A k \in DOMAIN feed : k # h => [feed EXCEPT ![h] = d][k] = feed[k]
    BY <1>3, <2>2, Replaced
  <2>4. QED
    BY <2>1, <2>3, Zenon
<1>5. ASSUME NEW x
      PROVE  /\ x \in Served(d) <=> x \in Served(b)
             /\ \A i : Ahead(d, x, i) <=> Ahead(b, x, i) /\ ~(x = b.to /\ i <= b.next)
  <2>1. x \in Served(d) <=> x \in Served(b)
    BY <1>1 DEF Served
  <2>2. ASSUME NEW i
        PROVE  Ahead(d, x, i) <=> Ahead(b, x, i) /\ ~(x = b.to /\ i <= b.next)
    <3>1. i \in 1 .. Len(BatchFor(b, x)) => i \in Nat
      <4>1. Len(BatchFor(b, x)) \in Nat
        BY <1>0, BatchForTyped
      <4>2. QED
        BY <4>1
    <3>2. b.to \notin b.left
      BY <1>0 DEF GoodEntry
    <3>3. QED
      BY <1>0, <1>1, <1>2, <3>1, <3>2 DEF Ahead
  <2>3. QED
    BY <2>1, <2>2
<1>6. ASSUME NEW k, NEW x
      PROVE  /\ InFeed(feed', k, x) <=> InFeed(feed, k, x)
             /\ \A i : AheadIn(feed', k, x, i)
                   <=> AheadIn(feed, k, x, i) /\ ~(k = h /\ x = b.to /\ i <= b.next)
  <2>1. CASE k = h
    BY <1>4, <1>5, <2>1 DEF InFeed, AheadIn
  <2>2. CASE k # h
    BY <1>4, <2>2 DEF InFeed, AheadIn
  <2>3. QED
    BY <2>1, <2>2
<1>7. QED
  BY <1>4, <1>6

BatchOf(e, order) == Adapted(e) \o Derived(e, order)

Arrived(run, tier) == [id |-> born + 1, run |-> run, tier |-> tier]

(* The broadcast of an event is new, for the connections of now, and has    *)
(* everything ahead of it; the others go on as they were.                  *)
LEMMA BeginKeeps ==
  ASSUME GoodFeed(feed, born), born \in Nat, born < MaxEvents, clients \subseteq Conns,
         NEW e, e.id = born + 1, NEW batch \in Seq(Message), Begin(e, batch)
  PROVE  /\ GoodFeed(feed', born + 1)
         /\ DOMAIN feed' = DOMAIN feed \cup {born + 1} /\ born + 1 \notin DOMAIN feed
         /\ \A k \in DOMAIN feed : feed'[k] = feed[k]
         /\ feed'[born + 1].batch = batch
         /\ feed'[born + 1].snapshot = [type |-> "sessions_snapshot", upto |-> born + 1]
         /\ Served(feed'[born + 1]) = Recipients(batch)
         /\ feed'[born + 1].next = 1 /\ feed'[born + 1].waiting = FALSE
<1> DEFINE n == born + 1
<1>c. PICK c \in Recipients(batch) :
           feed' = [h \in DOMAIN feed \cup {e.id} |->
                      IF h = e.id
                      THEN [batch    |-> batch,
                            snapshot |-> [type |-> "sessions_snapshot", upto |-> e.id],
                            to |-> c, left |-> Recipients(batch) \ {c},
                            next |-> 1, waiting |-> FALSE]
                      ELSE feed[h]]
  BY Zenon DEF Begin
<1>1. PICK d :
           /\ d = [batch    |-> batch,
                   snapshot |-> [type |-> "sessions_snapshot", upto |-> n],
                   to |-> c, left |-> Recipients(batch) \ {c},
                   next |-> 1, waiting |-> FALSE]
           /\ feed' = [h \in DOMAIN feed \cup {n} |-> IF h = n THEN d ELSE feed[h]]
  BY <1>c
<1>2. n \notin DOMAIN feed /\ n \in Nat /\ n <= MaxEvents /\ \A k \in DOMAIN feed : k # n
  BY FeedAssumption DEF GoodFeed
<1>3. DOMAIN feed' = DOMAIN feed \cup {n} /\ feed'[n] = d
      /\ \A k \in DOMAIN feed : feed'[k] = feed[k]
  BY <1>1, <1>2
<1>4. d.to = c /\ d.left = Recipients(batch) \ {c} /\ d.batch = batch /\ d.next = 1
      /\ d.waiting = FALSE /\ d.snapshot = [type |-> "sessions_snapshot", upto |-> n]
  BY <1>1
<1>5. Served(d) = Recipients(batch)
  BY <1>1, <1>4 DEF Served
<1>6. GoodEntry(d, n)
  <2>1. [type |-> "sessions_snapshot", upto |-> n] \in Message
    BY <1>2, FeedAssumption DEF Message
  <2>2. c \in Conns /\ Recipients(batch) \ {c} \subseteq Conns
    BY <1>1 DEF Recipients
  <2>3. d \in Broadcast
    BY <1>1, <2>1, <2>2 DEF Broadcast
  <2>4. \A x \in Recipients(batch) : x \in SessionConns \/ d.batch # <<>>
    BY <1>4 DEF Recipients
  <2>5. 1 <= Len(BatchFor(d, c))
    <3>1. CASE c \in SessionConns
      BY <3>1 DEF BatchFor
    <3>2. CASE c \notin SessionConns
      <4>1. batch # <<>>
        BY <1>1, <3>2 DEF Recipients
      <4>2. QED
        BY <1>4, <3>2, <4>1, EmptySeq DEF BatchFor
    <3>3. QED
      BY <3>1, <3>2
  <2>6. QED
    BY <1>4, <2>3, <2>4, <2>5 DEF GoodEntry
<1>7. GoodFeed(feed', n)
  <2>1. DOMAIN feed' \subseteq 1 .. n
    BY <1>2, <1>3 DEF GoodFeed
  <2>2. \A k \in DOMAIN feed' : GoodEntry(feed'[k], k)
    BY <1>3, <1>6 DEF GoodFeed
  <2>3. feed' \in [DOMAIN feed' -> Broadcast]
    <3>1. \A k \in DOMAIN feed' : feed'[k] \in Broadcast
      BY <2>2 DEF GoodEntry
    <3>2. feed' = [k \in DOMAIN feed' |-> feed'[k]]
      BY <1>1, <1>3
    <3>3. QED
      BY <3>1, <3>2
  <2>4. QED
    BY <2>1, <2>2, <2>3 DEF GoodFeed
<1>8. QED
  BY <1>2, <1>3, <1>4, <1>5, <1>7

(* What an arriving event does to the broadcasts.                          *)
Started(batch) ==
    /\ GoodFeed(feed', born + 1)
    /\ turn' \in {0} \cup DOMAIN feed'
    /\ \A k \in DOMAIN feed : k \in DOMAIN feed' /\ feed'[k] = feed[k]
    /\ \A k \in DOMAIN feed' : k \in DOMAIN feed \/ k = born + 1
    /\ born + 1 \notin DOMAIN feed
    /\ \A c : InFeed(feed', born + 1, c) <=> c \in Recipients(batch)
    /\ born + 1 \in DOMAIN feed' =>
          /\ feed'[born + 1].batch = batch
          /\ feed'[born + 1].snapshot = [type |-> "sessions_snapshot", upto |-> born + 1]
    /\ \A c, i : AheadIn(feed', born + 1, c, i) <=>
          /\ c \in Recipients(batch)
          /\ i \in 1 .. (IF c \in SessionConns THEN 1 ELSE Len(batch))

(* An arriving event is one, and starts its broadcast.                     *)
LEMMA IngestStarts ==
  ASSUME TypeInv, NEW a \in Arrivals, Ingest(a[1], a[2])
  PROVE  /\ Arrived(a[1], a[2]) \in Event
         /\ log' = Append(log, Arrived(a[1], a[2]))
         /\ \E order \in Orders(NewAlerts) :
               /\ BatchOf(Arrived(a[1], a[2]), order) \in Seq(Message)
               /\ Started(BatchOf(Arrived(a[1], a[2]), order))
<1> DEFINE e == Arrived(a[1], a[2])
           n == born + 1
<1>0. /\ GoodFeed(feed, born) /\ born \in Nat /\ born < MaxEvents /\ clients \subseteq Conns
      /\ alerts \in 0 .. MaxAlerts /\ changes \in 0 .. MaxChanges
      /\ turn = 0
  <2>1. GoodFeed(feed, born)
    BY TypeInvFeed
  <2>2. turn = 0 /\ born < MaxEvents
    BY DEF Ingest
  <2>3. QED
    BY <2>1, <2>2, FeedAssumption DEF TypeInv, TypeOK
<1>1. e \in Event /\ e.id = n
  BY <1>0, FeedAssumption DEF Arrived, Event, Tiers, Ids
<1>2. log' = Append(log, e)
  BY DEF Ingest, Arrived
<1>b. PICK order \in Orders(NewAlerts) :
           IF Recipients(BatchOf(e, order)) = {} THEN UNCHANGED <<feed, turn>>
           ELSE Begin(e, BatchOf(e, order)) /\ turn' = e.id
  BY Zenon DEF Ingest, Arrived, BatchOf
<1>3. PICK batch :
           /\ batch = BatchOf(e, order)
           /\ IF Recipients(batch) = {} THEN UNCHANGED <<feed, turn>>
                                        ELSE Begin(e, batch) /\ turn' = e.id
  BY <1>b
<1>4. batch \in Seq(Message) /\ Len(batch) \in Nat
  BY <1>0, <1>1, <1>3, BatchTyped DEF BatchOf
<1>5. n \notin DOMAIN feed /\ n \in Nat
  BY <1>0 DEF GoodFeed
<1>6. CASE Recipients(batch) = {}
  <2>1. feed' = feed /\ turn' = turn
    BY <1>3, <1>6
  <2>2. GoodFeed(feed', n)
    BY <1>0, <2>1 DEF GoodFeed
  <2>3. QED
    BY <1>0, <1>1, <1>2, <1>3, <1>4, <1>5, <1>6, <2>1, <2>2 DEF Started, InFeed, AheadIn
<1>7. CASE Recipients(batch) # {}
  <2>1. Begin(e, batch) /\ turn' = n
    BY <1>1, <1>3, <1>7
  <2>2. /\ GoodFeed(feed', n)
        /\ DOMAIN feed' = DOMAIN feed \cup {n}
        /\ \A k \in DOMAIN feed : feed'[k] = feed[k]
        /\ feed'[n].batch = batch
        /\ feed'[n].snapshot = [type |-> "sessions_snapshot", upto |-> n]
        /\ Served(feed'[n]) = Recipients(batch)
        /\ feed'[n].next = 1 /\ feed'[n].waiting = FALSE
    BY <1>0, <1>1, <1>4, <2>1, BeginKeeps
  <2>3. \A c : InFeed(feed', n, c) <=> c \in Recipients(batch)
    BY <2>2 DEF InFeed
  <2>4. ASSUME NEW c, NEW i
        PROVE  AheadIn(feed', n, c, i) <=>
                  /\ c \in Recipients(batch)
                  /\ i \in 1 .. (IF c \in SessionConns THEN 1 ELSE Len(batch))
    <3>1. Len(BatchFor(feed'[n], c)) = IF c \in SessionConns THEN 1 ELSE Len(batch)
      BY <2>2 DEF BatchFor
    <3>2. Ahead(feed'[n], c, i) <=>
             /\ i \in 1 .. Len(BatchFor(feed'[n], c))
             /\ c \in Served(feed'[n])
      <4>1. i \in 1 .. Len(BatchFor(feed'[n], c)) => i >= 1
        BY <1>4, <3>1
      <4>2. QED
        BY <2>2, <4>1 DEF Ahead, Served
    <3>3. QED
      BY <2>2, <3>1, <3>2 DEF AheadIn
  <2>5. Started(batch)
    BY <1>5, <2>1, <2>2, <2>3, <2>4 DEF Started
  <2>6. QED
    BY <1>1, <1>2, <1>3, <1>4, <2>5
<1>8. QED
  BY <1>6, <1>7

-----------------------------------------------------------------------------
(* EVERY STEP KEEPS THE TYPES                                              *)

FeedParts ==
    /\ DOMAIN feed \subseteq 1 .. born
    /\ feed \in [DOMAIN feed -> Broadcast]
    /\ \A h \in DOMAIN feed : /\ feed[h].to \notin feed[h].left
                              /\ feed[h].next <= Len(BatchFor(feed[h], feed[h].to))
    /\ Batches

(* Good entries are what the invariant asks for.                           *)
LEMMA FeedBack ==
  ASSUME GoodFeed(feed', born')
  PROVE  FeedParts'
BY DEF GoodFeed, GoodEntry, FeedParts, Batches, BatchFor

(* Those served after a step are connections that were connected.          *)
LEMMA ServedKept ==
  ASSUME TypeInv,
         \A k, c : InFeed(feed', k, c) => InFeed(feed, k, c),
         \A c \in Conns : conn[c] # "new" => conn'[c] # "new"
  PROVE  \A h \in DOMAIN feed' : /\ conn'[feed'[h].to] # "new"
                                 /\ \A c \in feed'[h].left : conn'[c] # "new"
<1>1. ASSUME NEW k, NEW c, InFeed(feed, k, c) PROVE conn'[c] # "new"
  <2>1. c \in Conns /\ conn[c] # "new"
    BY <1>1 DEF InFeed, Served, TypeInv, TypeOK, Registration, Broadcast
  <2>2. QED
    BY <2>1
<1>2. QED
  BY <1>1 DEF InFeed, Served

(* A send, one that returns and one that fails keep the types.             *)
LEMMA WorkTyped ==
  ASSUME TypeInv, NEW h \in DOMAIN feed, Work(h)
  PROVE  TypeInv'
<1> DEFINE b == feed[h]
           c == feed[h].to
<1>0. /\ GoodFeed(feed, born) /\ born \in Nat /\ h \in 1 .. born
      /\ b \in Broadcast /\ c \in Conns /\ b.next \in 1 .. Len(BatchFor(b, c))
  <2>1. GoodFeed(feed, born) /\ born \in Nat /\ h \in 1 .. born /\ GoodEntry(b, h)
    <3>1. GoodFeed(feed, born)
      BY TypeInvFeed
    <3>2. born \in Nat
      BY FeedAssumption DEF TypeInv, TypeOK
    <3>3. QED
      BY <3>1, <3>2 DEF GoodFeed
  <2>2. b \in Broadcast /\ c \in Conns /\ b.next \in Nat \ {0}
    BY <2>1 DEF GoodEntry, Broadcast
  <2>3. Len(BatchFor(b, c)) \in Nat /\ b.next <= Len(BatchFor(b, c))
    BY <2>1, <2>2, BatchForTyped DEF GoodEntry
  <2>4. QED
    BY <2>1, <2>2, <2>3
<1>1. CASE Send(h)
  <2> DEFINE m == BatchFor(b, c)[b.next]
  <2>1. /\ ~b.waiting
        /\ page' = [page EXCEPT ![c] = Shown(@, m)]
        /\ overtaken' = [overtaken EXCEPT ![c] = @ \/ h < newest[c]]
        /\ newest' = [newest EXCEPT ![c] = IF h > @ THEN h ELSE @]
        /\ wiped' = [wiped EXCEPT ![c] = IF m.type = "state_replay" /\ h > @ THEN h ELSE @]
        /\ UNCHANGED <<log, born, clients, conn, files, memory, restarts>>
    BY <1>1 DEF Send
  <2>2. /\ GoodFeed(feed', born) /\ turn' \in {0} \cup DOMAIN feed'
        /\ \A k, x : InFeed(feed', k, x) => InFeed(feed, k, x)
        /\ full' \in [Conns -> BOOLEAN]
    <3>1. CASE Advance(h) /\ UNCHANGED full
      BY <1>0, <3>1, AdvanceKeeps DEF TypeInv, TypeOK
    <3>2. CASE /\ full' = [full EXCEPT ![c] = TRUE]
               /\ feed' = [feed EXCEPT ![h].waiting = TRUE]
               /\ turn' = 0
      BY <1>0, <2>1, <3>2, WaitingKeeps DEF TypeInv, TypeOK
    <3>3. QED
      BY <1>1, <3>1, <3>2 DEF Send
  <2>3. page' \in [Conns -> Page]
    <3>1. m \in Message
      BY <1>0, BatchForTyped, ElementOfSeq
    <3>2. page \in [Conns -> Page] /\ Shown(page[c], m) \in Page
      BY <1>0, <3>1, ShownTyped DEF TypeInv, TypeOK
    <3>3. QED
      BY <2>1, <3>2
  <2>4. /\ newest' \in [Conns -> 0 .. born] /\ wiped' \in [Conns -> 0 .. born]
        /\ overtaken' \in [Conns -> BOOLEAN]
    <3>1. h \in 0 .. born
      BY <1>0
    <3>2. /\ newest \in [Conns -> 0 .. born] /\ wiped \in [Conns -> 0 .. born]
          /\ overtaken \in [Conns -> BOOLEAN]
      BY DEF TypeInv, TypeOK
    <3>3. overtaken' \in [Conns -> BOOLEAN]
      <4>1. (overtaken[c] \/ h < newest[c]) \in BOOLEAN
        OBVIOUS
      <4>2. QED
        BY <2>1, <3>2, <4>1
    <3>4. QED
      BY <2>1, <3>1, <3>2, <3>3
  <2>5. FeedParts'
    BY <2>1, <2>2, FeedBack
  <2>6. Registration'
    <3>1. \A k \in DOMAIN feed' : /\ conn'[feed'[k].to] # "new"
                                  /\ \A x \in feed'[k].left : conn'[x] # "new"
      BY <2>1, <2>2, ServedKept
    <3>2. QED
      BY <2>1, <3>1 DEF TypeInv, Registration
  <2>7. QED
    BY <2>1, <2>2, <2>3, <2>4, <2>5, <2>6
       DEF TypeInv, TypeOK, FeedParts, LogIds, files, memory
<1>2. CASE SendReturns(h)
  <2>1. /\ Advance(h)
        /\ UNCHANGED <<log, born, clients, conn, full, page, files, memory, restarts, history>>
    BY <1>2 DEF SendReturns
  <2>2. /\ GoodFeed(feed', born) /\ turn' \in {0} \cup DOMAIN feed'
        /\ \A k, x : InFeed(feed', k, x) => InFeed(feed, k, x)
    BY <1>0, <2>1, AdvanceKeeps
  <2>5. FeedParts'
    BY <2>1, <2>2, FeedBack
  <2>6. Registration'
    <3>1. \A k \in DOMAIN feed' : /\ conn'[feed'[k].to] # "new"
                                  /\ \A x \in feed'[k].left : conn'[x] # "new"
      BY <2>1, <2>2, ServedKept
    <3>2. QED
      BY <2>1, <3>1 DEF TypeInv, Registration
  <2>7. QED
    BY <2>1, <2>2, <2>5, <2>6
       DEF TypeInv, TypeOK, FeedParts, LogIds, files, memory, history
<1>3. CASE SendFails(h)
  <2>1. /\ conn[c] = "gone" /\ clients' = clients \ {c} /\ ToNext(h) /\ turn' = 0
        /\ UNCHANGED <<log, born, conn, full, page, files, memory, restarts, history>>
    BY <1>3 DEF SendFails, Drop
  <2>2. /\ GoodFeed(feed', born)
        /\ \A k, x : InFeed(feed', k, x) => InFeed(feed, k, x)
    BY <1>0, <2>1, ToNextKeeps
  <2>5. FeedParts'
    BY <2>1, <2>2, FeedBack
  <2>6. Registration'
    <3>1. \A k \in DOMAIN feed' : /\ conn'[feed'[k].to] # "new"
                                  /\ \A x \in feed'[k].left : conn'[x] # "new"
      BY <2>1, <2>2, ServedKept
    <3>2. QED
      BY <2>1, <3>1 DEF TypeInv, Registration
  <2>7. QED
    BY <2>1, <2>2, <2>5, <2>6
       DEF TypeInv, TypeOK, FeedParts, LogIds, files, memory, history
<1>4. CASE GoOn(h)
  BY <1>4 DEF GoOn, TypeInv, TypeOK, Registration, Batches, LogIds, files, memory, history
<1>5. QED
  BY <1>1, <1>2, <1>3, <1>4 DEF Work

(* An event at the end of the log.                                         *)
LEMMA LogGrows ==
  ASSUME NEW events \in Seq(Event), NEW e \in Event
  PROVE  /\ Append(events, e) \in Seq(Event)
         /\ Len(Append(events, e)) = Len(events) + 1 /\ Len(events) \in Nat
         /\ DOMAIN events = 1 .. Len(events)
         /\ DOMAIN Append(events, e) = 1 .. Len(events) + 1
         /\ \A i \in DOMAIN events : Append(events, e)[i] = events[i]
         /\ Append(events, e)[Len(events) + 1] = e
OBVIOUS

(* Only so many events are in the log as have arrived.                     *)
LEMMA LogShort ==
  ASSUME TypeInv
  PROVE  Len(log) \in 0 .. born /\ born \in Nat
<1>1. log \in Seq(Event) /\ Len(log) \in Nat /\ born \in Nat
  BY FeedAssumption DEF TypeInv, TypeOK
<1>2. CASE Len(log) = 0
  BY <1>1, <1>2
<1>3. CASE Len(log) # 0
  <2>1. 1 \in DOMAIN log /\ log[1] \in Event
    BY <1>1, <1>3
  <2>2. log[1].id \in Nat /\ log[1].id >= 1 /\ log[1].id = born - Len(log) + 1
    BY <2>1, FeedAssumption DEF TypeInv, LogIds, Event, Ids
  <2>3. QED
    BY <1>1, <2>2
<1>4. QED
  BY <1>2, <1>3

(* An arriving event keeps the types.                                      *)
LEMMA IngestTyped ==
  ASSUME TypeInv, NEW a \in Arrivals, Ingest(a[1], a[2])
  PROVE  TypeInv'
<1> DEFINE e == Arrived(a[1], a[2])
<1>0. /\ born' = born + 1 /\ born \in Nat /\ born < MaxEvents
      /\ seen' \in Remembered(seen \cup {KeyOf[x] : x \in NewAlerts})
      /\ lastReplay' = IF ReplayDue([id |-> born + 1, run |-> a[1], tier |-> a[2]])
                       THEN changes ELSE lastReplay
      /\ UNCHANGED <<clients, conn, full, page, files, restarts, history>>
  <2>1. born \in Nat
    BY FeedAssumption DEF TypeInv, TypeOK
  <2>2. QED
    BY <2>1 DEF Ingest
<1>1. /\ e \in Event /\ log' = Append(log, e)
      /\ \E order \in Orders(NewAlerts) : Started(BatchOf(e, order))
  BY IngestStarts
<1>2. PICK order \in Orders(NewAlerts) : Started(BatchOf(e, order))
  BY <1>1
<1>3. FeedParts' /\ turn' \in {0} \cup DOMAIN feed'
  BY <1>0, <1>2, FeedBack DEF Started
<1>4. \A h \in DOMAIN feed' : /\ conn'[feed'[h].to] # "new"
                              /\ \A c \in feed'[h].left : conn'[c] # "new"
  <2>1. ASSUME NEW h \in DOMAIN feed', NEW c \in Served(feed'[h]) PROVE conn'[c] # "new"
    <3>1. CASE h = born + 1
      <4>1. c \in clients
        BY <1>2, <2>1, <3>1 DEF Started, InFeed, Recipients
      <4>2. QED
        BY <1>0, <4>1 DEF TypeInv, Registration
    <3>2. CASE h \in DOMAIN feed
      BY <1>0, <1>2, <2>1, <3>2 DEF Started, Served, TypeInv, Registration
    <3>3. QED
      BY <1>2, <3>1, <3>2 DEF Started
  <2>2. QED
    BY <2>1 DEF Served
<1>5. Registration'
  BY <1>0, <1>4 DEF TypeInv, Registration
<1>6. log' \in Seq(Event) /\ Len(log') <= MaxEvents /\ LogIds'
  <2>1. log \in Seq(Event)
    BY DEF TypeInv, TypeOK
  <2>2. /\ log' \in Seq(Event) /\ Len(log') = Len(log) + 1 /\ Len(log) \in Nat
        /\ DOMAIN log' = 1 .. Len(log) + 1 /\ DOMAIN log = 1 .. Len(log)
        /\ \A i \in DOMAIN log : log'[i] = log[i]
        /\ log'[Len(log) + 1] = e
    BY <1>1, <2>1, LogGrows
  <2>3. Len(log) \in 0 .. born
    BY LogShort
  <2>4. e.id = born + 1
    BY DEF Arrived
  <2>5. ASSUME NEW i \in DOMAIN log' PROVE log'[i].id = born' - Len(log') + i
    <3>1. CASE i \in DOMAIN log
      BY <1>0, <2>2, <3>1 DEF TypeInv, LogIds
    <3>2. CASE i = Len(log) + 1
      BY <1>0, <2>2, <2>4, <3>2
    <3>3. QED
      BY <2>2, <3>1, <3>2
  <2>6. QED
    BY <1>0, <2>2, <2>3, <2>5, FeedAssumption DEF LogIds
<1>7. seen' \subseteq {KeyOf[x] : x \in 1 .. alerts'}
  <2>1. seen' \subseteq seen \cup {KeyOf[x] : x \in NewAlerts}
    BY <1>0 DEF Remembered
  <2>2. alerts' = alerts /\ seen \subseteq {KeyOf[x] : x \in 1 .. alerts}
        /\ NewAlerts \subseteq 1 .. alerts
    BY <1>0, NewTyped DEF TypeInv, TypeOK, files
  <2>3. QED
    BY <2>1, <2>2
<1>8. lastReplay' \in -1 .. changes'
  BY <1>0, FeedAssumption DEF TypeInv, TypeOK, files
<1>9. born' \in 0 .. MaxEvents /\ \A x \in 0 .. born : x \in 0 .. born'
  BY <1>0, FeedAssumption
<1>10. newest' \in [Conns -> 0 .. born'] /\ wiped' \in [Conns -> 0 .. born']
  BY <1>0, <1>9 DEF TypeInv, TypeOK, history
<1>11. QED
  BY <1>0, <1>3, <1>5, <1>6, <1>7, <1>8, <1>9, <1>10
     DEF TypeInv, TypeOK, FeedParts, files, history

(* A new page, and a page that is gone, are pages.                         *)
LEMMA PagesTyped ==
  /\ FreshPage \in Page
  /\ \A p \in Page : Forgotten(p) \in Page
BY FeedAssumption DEF FreshPage, Page, Forgotten

(* A connection keeps the types.                                           *)
LEMMA ConnectTyped ==
  ASSUME TypeInv, NEW c \in Conns, NEW from \in Conns, Connect(c, from)
  PROVE  TypeInv'
<1>1. /\ conn' = [conn EXCEPT ![c] = "open"] /\ clients' = clients \cup {c}
      /\ newest' = [newest EXCEPT ![c] = born]
      /\ full' \in [Conns -> BOOLEAN]
      /\ UNCHANGED <<log, born, feed, turn, files, memory, restarts, overtaken, wiped>>
  BY DEF Connect, TypeInv, TypeOK
<1>2. page' \in [Conns -> Page]
  <2>1. page \in [Conns -> Page] /\ log \in Seq(Event) /\ born \in Nat
    BY FeedAssumption DEF TypeInv, TypeOK
  <2>2. Joined(page[from], log) \in Page
    BY <2>1, JoinedTyped DEF TypeInv, TypeOK
  <2>3. (IF log = <<>> THEN 0 ELSE Last(log).id) \in 0 .. MaxEvents
    <3>1. CASE log = <<>>
      BY <3>1, FeedAssumption
    <3>2. CASE log # <<>>
      <4>1. Len(log) \in DOMAIN log /\ log[Len(log)] \in Event
        BY <2>1, <3>2, EmptySeq
      <4>2. QED
        BY <3>2, <4>1, FeedAssumption DEF Last, Event, Ids
    <3>3. QED
      BY <3>1, <3>2
  <2>4. [page[from] EXCEPT !.upto = IF log = <<>> THEN 0 ELSE Last(log).id] \in Page
    BY <2>1, <2>3 DEF Page
  <2>5. page' = [x \in Conns |->
                  IF x = c
                  THEN IF c \in SessionConns
                       THEN [page[from] EXCEPT !.upto = IF log = <<>> THEN 0 ELSE Last(log).id]
                       ELSE Joined(page[from], log)
                  ELSE IF x = from THEN FreshPage ELSE page[x]]
    BY DEF Connect
  <2>6. QED
    BY <2>1, <2>2, <2>4, <2>5, PagesTyped
<1>3. Registration'
  BY <1>1 DEF TypeInv, TypeOK, Registration
<1>4. newest' \in [Conns -> 0 .. born']
  <2>1. born \in 0 .. born /\ newest \in [Conns -> 0 .. born]
    BY SMTT(30), FeedAssumption DEF TypeInv, TypeOK
  <2>2. QED
    BY <1>1, <2>1
<1>5. conn' \in [Conns -> {"new", "open", "gone"}] /\ clients' \subseteq Conns
  BY <1>1 DEF TypeInv, TypeOK
<1>6. QED
  BY <1>1, <1>2, <1>3, <1>4, <1>5 DEF TypeInv, TypeOK, Batches, LogIds, files, memory

(* A connection that is lost keeps the types.                              *)
LEMMA DieTyped ==
  ASSUME TypeInv, NEW c \in Conns, Die(c)
  PROVE  TypeInv'
<1>1. /\ conn' = [conn EXCEPT ![c] = "gone"] /\ full' = [full EXCEPT ![c] = FALSE]
      /\ newest' = [newest EXCEPT ![c] = 0] /\ wiped' = [wiped EXCEPT ![c] = 0]
      /\ overtaken' = [overtaken EXCEPT ![c] = FALSE]
      /\ page' = [page EXCEPT ![c] = Forgotten(@)]
      /\ UNCHANGED <<log, born, clients, feed, turn, files, memory, restarts>>
  BY DEF Die
<1>2. page' \in [Conns -> Page]
  <2>1. page \in [Conns -> Page] /\ Forgotten(page[c]) \in Page
    BY PagesTyped DEF TypeInv, TypeOK
  <2>2. QED
    BY <1>1, <2>1
<1>3. Registration'
  BY <1>1 DEF TypeInv, TypeOK, Registration
<1>4. newest' \in [Conns -> 0 .. born'] /\ wiped' \in [Conns -> 0 .. born']
  <2>1. /\ born \in 0 .. MaxEvents
        /\ newest \in [Conns -> 0 .. born] /\ wiped \in [Conns -> 0 .. born]
    BY DEF TypeInv, TypeOK
  <2>2. 0 \in 0 .. born
    BY <2>1, FeedAssumption
  <2>3. QED
    BY <1>1, <2>1, <2>2
<1>5. /\ conn' \in [Conns -> {"new", "open", "gone"}] /\ full' \in [Conns -> BOOLEAN]
      /\ overtaken' \in [Conns -> BOOLEAN]
  BY <1>1 DEF TypeInv, TypeOK
<1>6. QED
  BY <1>1, <1>2, <1>3, <1>4, <1>5 DEF TypeInv, TypeOK, Batches, LogIds, files, memory

(* A restart keeps the types.                                              *)
LEMMA RestartTyped ==
  ASSUME TypeInv, Restart
  PROVE  TypeInv'
<1>1. /\ restarts' = restarts + 1 /\ restarts < MaxRestarts
      /\ log' = (IF Durable THEN log ELSE <<>>)
      /\ clients' = {} /\ feed' = <<>> /\ turn' = 0
      /\ conn' = [c \in Conns |-> IF conn[c] = "open" THEN "gone" ELSE conn[c]]
      /\ full' = [c \in Conns |-> FALSE]
      /\ seen' = {} /\ lastReplay' = -1
      /\ page' = [c \in Conns |-> Forgotten(page[c])]
      /\ newest' = [c \in Conns |-> 0]
      /\ overtaken' = [c \in Conns |-> FALSE]
      /\ wiped' = [c \in Conns |-> 0]
      /\ UNCHANGED <<born, files>>
  BY DEF Restart
<1>2. page' \in [Conns -> Page]
  BY <1>1, PagesTyped DEF TypeInv, TypeOK
<1>3. DOMAIN feed' = {} /\ feed' \in [{} -> Broadcast]
  BY <1>1
<1>4. log' \in Seq(Event) /\ Len(log') <= MaxEvents /\ LogIds'
  <2>1. CASE Durable
    BY <1>1, <2>1 DEF TypeInv, TypeOK, LogIds
  <2>2. CASE ~Durable
    BY <1>1, <2>2, FeedAssumption DEF LogIds
  <2>3. QED
    BY <2>1, <2>2
<1>5. conn' \in [Conns -> {"new", "open", "gone"}] /\ Registration'
  <2>1. conn' \in [Conns -> {"new", "open", "gone"}] /\ \A c \in Conns : conn'[c] # "open"
    BY <1>1 DEF TypeInv, TypeOK
  <2>2. QED
    BY <1>1, <1>3, <2>1 DEF Registration
<1>6. newest' \in [Conns -> 0 .. born'] /\ wiped' \in [Conns -> 0 .. born'] /\ 0 \in 0 .. born
  <2>1. 0 \in 0 .. born
    BY FeedAssumption DEF TypeInv, TypeOK
  <2>2. QED
    BY <1>1, <2>1
<1>7. lastReplay' \in -1 .. changes' /\ restarts' \in 0 .. MaxRestarts
  BY <1>1, FeedAssumption DEF TypeInv, TypeOK, files
<1>8. Batches' /\ FeedParts'
  BY <1>3 DEF FeedParts, Batches
<1>9. QED
  BY <1>1, <1>2, <1>3, <1>4, <1>5, <1>6, <1>7, <1>8 DEF TypeInv, TypeOK, FeedParts, files

(* The types hold at first.                                                *)
LEMMA InitTyped ==
  ASSUME Init
  PROVE  TypeInv
<1>1. DOMAIN feed = {} /\ feed \in [{} -> Broadcast] /\ DOMAIN log = {} /\ log \in Seq(Event)
  BY DEF Init
<1>2. 0 \in 0 .. born /\ born \in 0 .. MaxEvents /\ Len(log) <= MaxEvents
      /\ -1 \in -1 .. changes /\ changes \in 0 .. MaxChanges /\ alerts \in 0 .. MaxAlerts
      /\ restarts \in 0 .. MaxRestarts
  BY FeedAssumption DEF Init
<1>3. Registration /\ Batches /\ LogIds
  BY <1>1 DEF Init, Registration, Batches, LogIds
<1>4. page \in [Conns -> Page]
  BY PagesTyped DEF Init
<1>5. QED
  BY <1>1, <1>2, <1>3, <1>4 DEF TypeInv, TypeOK, Init

(* The remaining steps keep the types.                                     *)
LEMMA OthersTyped ==
  ASSUME TypeInv,
         \/ \E c \in Conns : Drain(c) \/ Reap(c)
         \/ WriteFiles
         \/ UNCHANGED vars
  PROVE  TypeInv'
<1>1. ASSUME NEW c \in Conns, Drain(c) PROVE TypeInv'
  BY <1>1 DEF Drain, TypeInv, TypeOK, Registration, Batches, LogIds, files, memory, history
<1>2. ASSUME NEW c \in Conns, Reap(c) PROVE TypeInv'
  BY <1>2 DEF Reap, Drop, TypeInv, TypeOK, Registration, Batches, LogIds, files, memory, history
<1>3. ASSUME WriteFiles PROVE TypeInv'
  <2>1. UNCHANGED <<log, born, clients, conn, full, feed, turn, page, memory, restarts, history>>
    BY <1>3 DEF WriteFiles
  <2>2. /\ changes' \in 0 .. MaxChanges /\ alerts' \in 0 .. MaxAlerts
        /\ changes' >= changes /\ alerts' >= alerts
    BY SMTT(30), <1>3, FeedAssumption DEF WriteFiles, TypeInv, TypeOK
  <2>3. seen' \subseteq {KeyOf[a] : a \in 1 .. alerts'} /\ lastReplay' \in -1 .. changes'
    BY SMTT(30), <2>1, <2>2, FeedAssumption DEF TypeInv, TypeOK, memory
  <2>4. QED
    BY <2>1, <2>2, <2>3 DEF TypeInv, TypeOK, Registration, Batches, LogIds, memory, history
<1>4. ASSUME UNCHANGED vars PROVE TypeInv'
  BY <1>4 DEF vars, TypeInv, TypeOK, Registration, Batches, LogIds, files, memory, history
<1>5. QED
  BY <1>1, <1>2, <1>3, <1>4

(* Every state of the feed is well formed, with what the others need of it: *)
(* who is registered, what a broadcast has for whom, which ids are in the   *)
(* log.                                                                    *)
THEOREM TypeInvariant == Spec => []TypeInv
<1>1. Init => TypeInv
  BY InitTyped
<1>2. TypeInv /\ [Next]_vars => TypeInv'
  BY WorkTyped, IngestTyped, ConnectTyped, DieTyped, RestartTyped, OthersTyped DEF Next
<1>3. QED
  BY <1>1, <1>2, PTL DEF Spec

(* The feed keeps its types: no broadcast stands past the end of its batch  *)
(* or serves a connection twice, no key is remembered that no alert has.    *)
THEOREM TypeCorrect == Spec => []TypeOK
<1>1. TypeInv => TypeOK
  BY DEF TypeInv
<1>2. QED
  BY <1>1, TypeInvariant, PTL

-----------------------------------------------------------------------------
(* EXACTLY ONCE                                                            *)

Owing == [c \in Conns |-> Owed(c)]

(* What a connection is owed, before and after a step.                     *)
LEMMA OwedIs ==
  /\ \A c, h : h \in Owed(c) <=> c \in clients /\ InFeed(feed, h, c)
  /\ \A c, h : h \in Owed(c)' <=> c \in clients' /\ InFeed(feed', h, c)
BY DEF Owed, InFeed, Served

(* Two sets with the same members.                                         *)
LEMMA SameSet ==
  ASSUME NEW S, NEW T, \A x : x \in S <=> x \in T
  PROVE  S = T
OBVIOUS

(* The same connections are owed the same: nothing happens to the channel.  *)
LEMMA SameChannel ==
  ASSUME born' = born, clients' = clients,
         \A c, h : c \in clients => (InFeed(feed', h, c) <=> InFeed(feed, h, c))
  PROVE  UNCHANGED Channel!channelVars
<1>1. ASSUME NEW c \in Conns PROVE Owed(c)' = Owed(c)
  <2>1. \A h : h \in Owed(c)' <=> h \in Owed(c)
    BY OwedIs
  <2>2. QED
    BY <2>1
<1>2. QED
  BY <1>1 DEF Channel!channelVars

(* A broadcast that has written its last message to a connection delivers.  *)
LEMMA AdvanceDelivers ==
  ASSUME TypeInv, NEW h \in DOMAIN feed, Advance(h), conn[feed[h].to] = "open",
         born' = born, clients' = clients
  PROVE  [Channel!ChannelNext]_Channel!channelVars
<1> DEFINE c == feed[h].to
<1>1. /\ GoodFeed(feed, born) /\ c \in Conns /\ c \in clients /\ h \in Ids
  <2>1. GoodFeed(feed, born) /\ born \in Nat /\ born <= MaxEvents
    <3>1. GoodFeed(feed, born)
      BY TypeInvFeed
    <3>2. QED
      BY <3>1, FeedAssumption DEF TypeInv, TypeOK
  <2>2. c \in Conns
    BY <2>1 DEF GoodFeed, Broadcast
  <2>3. QED
    BY <2>1, <2>2, FeedAssumption DEF TypeInv, Registration, GoodFeed, Ids
<1>2. \A k, x : InFeed(feed', k, x)
                   <=> /\ InFeed(feed, k, x)
                       /\ ~(k = h /\ x = c /\ feed[h].next = Len(BatchFor(feed[h], x)))
  BY <1>1, AdvanceKeeps
<1>3. CASE feed[h].next = Len(BatchFor(feed[h], c))
  <2>1. ASSUME NEW x \in Conns PROVE Owed(x)' = IF x = c THEN Owed(x) \ {h} ELSE Owed(x)
    <3>1. \A k : k \in Owed(x)' <=> k \in (IF x = c THEN Owed(x) \ {h} ELSE Owed(x))
      BY <1>2, <1>3, OwedIs
    <3>2. QED
      BY <3>1, SameSet, Zenon
  <2>2. Owing' = [Owing EXCEPT ![c] = @ \ {h}]
    BY <1>1, <2>1 DEF Owing
  <2>3. h \in Owing[c]
    BY <1>1, OwedIs DEF Owing, InFeed, Served
  <2>4. Channel!Deliver(c, h)
    BY <2>2, <2>3 DEF Channel!Deliver, Owing
  <2>5. QED
    BY <1>1, <2>4 DEF Channel!ChannelNext
<1>4. CASE feed[h].next # Len(BatchFor(feed[h], c))
  <2>1. UNCHANGED Channel!channelVars
    BY <1>2, <1>4, SameChannel
  <2>2. QED
    BY <2>1
<1>5. QED
  BY <1>3, <1>4

(* What a broadcast's step does on the channel.                            *)
LEMMA WorkDelivers ==
  ASSUME TypeInv, NEW h \in DOMAIN feed, Work(h)
  PROVE  [Channel!ChannelNext]_Channel!channelVars
<1>0. GoodFeed(feed, born)
  BY TypeInvFeed
<1>1. CASE Send(h)
  <2>1. ~feed[h].waiting /\ conn[feed[h].to] = "open" /\ born' = born /\ clients' = clients
    BY <1>1 DEF Send
  <2>2. CASE Advance(h)
    BY <2>1, <2>2, AdvanceDelivers
  <2>3. CASE feed' = [feed EXCEPT ![h].waiting = TRUE]
    <3>1. \A k, c : InFeed(feed', k, c) <=> InFeed(feed, k, c)
      BY <1>0, <2>1, <2>3, WaitingKeeps
    <3>2. UNCHANGED Channel!channelVars
      BY <2>1, <3>1, SameChannel
    <3>3. QED
      BY <3>2
  <2>4. QED
    BY <1>1, <2>2, <2>3 DEF Send
<1>2. CASE SendReturns(h)
  <2>1. Advance(h) /\ conn[feed[h].to] = "open" /\ born' = born /\ clients' = clients
    BY <1>2 DEF SendReturns
  <2>2. QED
    BY <2>1, AdvanceDelivers
<1>3. CASE SendFails(h)
  <2> DEFINE c == feed[h].to
  <2>1. clients' = clients \ {c} /\ ToNext(h) /\ born' = born
    BY <1>3 DEF SendFails, Drop
  <2>2. \A k, x : InFeed(feed', k, x) <=> InFeed(feed, k, x) /\ ~(k = h /\ x = c)
    BY <1>0, <2>1, ToNextKeeps
  <2>3. CASE c \in clients
    <3>1. ASSUME NEW x \in Conns PROVE Owed(x)' = IF x \in {c} THEN {} ELSE Owed(x)
      <4>1. \A k : k \in Owed(x)' <=> k \in (IF x \in {c} THEN {} ELSE Owed(x))
        BY <2>1, <2>2, OwedIs
      <4>2. QED
        BY <4>1, SameSet, Zenon
    <3>2. Owing' = [x \in Conns |-> IF x \in {c} THEN {} ELSE Owing[x]]
      BY <3>1 DEF Owing
    <3>3. Channel!Part({c})
      BY <2>1, <2>3, <3>2 DEF Channel!Part, Owing
    <3>4. {c} \in SUBSET Conns
      BY <2>3 DEF TypeInv, TypeOK
    <3>5. QED
      BY <3>3, <3>4 DEF Channel!ChannelNext
  <2>4. CASE c \notin clients
    <3>1. UNCHANGED Channel!channelVars
      BY <2>1, <2>2, <2>4, SameChannel
    <3>2. QED
      BY <3>1
  <2>5. QED
    BY <2>3, <2>4
<1>4. CASE GoOn(h)
  <2>1. UNCHANGED Channel!channelVars
    BY <1>4, SameChannel DEF GoOn
  <2>2. QED
    BY <2>1
<1>5. QED
  BY <1>1, <1>2, <1>3, <1>4 DEF Work

(* An event that arrives is published to whoever is registered.            *)
LEMMA IngestPublishes ==
  ASSUME TypeInv, NEW a \in Arrivals, Ingest(a[1], a[2])
  PROVE  Channel!ChannelNext
<1> DEFINE e == Arrived(a[1], a[2])
<1>0. /\ born' = born + 1 /\ born \in Nat /\ born < MaxEvents /\ clients' = clients
      /\ clients \subseteq Conns /\ SessionConns \subseteq Conns
  <2>1. born \in Nat /\ clients \subseteq Conns
    BY FeedAssumption DEF TypeInv, TypeOK
  <2>2. QED
    BY <2>1, FeedAssumption DEF Ingest
<1>1. PICK order \in Orders(NewAlerts) : Started(BatchOf(e, order))
  BY IngestStarts
<1> DEFINE shown == BatchOf(e, order) # <<>>
           recipients == IF shown THEN clients ELSE clients \cap SessionConns
<1>2. Recipients(BatchOf(e, order)) = recipients
  BY DEF Recipients
<1>3. ASSUME NEW x \in Conns
      PROVE  Owed(x)' = IF x \in recipients THEN Owed(x) \cup {born + 1} ELSE Owed(x)
  <2>1. ASSUME NEW k
        PROVE  InFeed(feed', k, x) <=> InFeed(feed, k, x) \/ (k = born + 1 /\ x \in recipients)
    <3>1. CASE k = born + 1
      BY <1>1, <1>2, <3>1 DEF Started, InFeed
    <3>2. CASE k # born + 1
      BY <1>1, <3>2 DEF Started, InFeed
    <3>3. QED
      BY <3>1, <3>2
  <2>2. recipients \subseteq clients
    OBVIOUS
  <2>3. \A k : k \in Owed(x)' <=>
                k \in (IF x \in recipients THEN Owed(x) \cup {born + 1} ELSE Owed(x))
    BY <1>0, <2>1, <2>2, OwedIs
  <2>4. QED
    BY <2>3, SameSet, Zenon
<1>4. Owing' = [x \in Conns |-> IF x \in recipients THEN Owing[x] \cup {born + 1} ELSE Owing[x]]
  BY <1>3 DEF Owing
<1>5. /\ born + 1 \notin 1 .. born /\ (1 .. born)' = (1 .. born) \cup {born + 1}
      /\ born + 1 \in Ids /\ shown \in BOOLEAN
  BY <1>0, FeedAssumption DEF Ids
<1>6. Channel!Publish(born + 1, shown)
  BY <1>0, <1>4, <1>5 DEF Channel!Publish, Owing
<1>7. QED
  BY <1>5, <1>6 DEF Channel!ChannelNext

(* A connection joins, and is owed nothing.                                *)
LEMMA ConnectJoins ==
  ASSUME TypeInv, NEW c \in Conns, NEW from \in Conns, Connect(c, from)
  PROVE  Channel!ChannelNext
<1>1. /\ conn[c] = "new" /\ clients' = clients \cup {c} /\ born' = born /\ feed' = feed
  BY DEF Connect
<1>2. c \notin clients /\ \A h : ~InFeed(feed, h, c)
  BY <1>1 DEF TypeInv, Registration, InFeed, Served
<1>3. ASSUME NEW x \in Conns PROVE Owed(x)' = Owed(x)
  <2>1. \A k : k \in Owed(x)' <=> k \in Owed(x)
    BY <1>1, <1>2, OwedIs
  <2>2. QED
    BY <2>1, SameSet, Zenon
<1>4. Channel!Join(c)
  BY <1>1, <1>2, <1>3 DEF Channel!Join
<1>5. QED
  BY <1>4 DEF Channel!ChannelNext

(* A connection that is reaped, and all of them when the bridge restarts,   *)
(* leave.                                                                  *)
LEMMA LeavingParts ==
  ASSUME TypeInv, \/ \E c \in Conns : Reap(c)
                  \/ Restart
  PROVE  [Channel!ChannelNext]_Channel!channelVars
<1>1. ASSUME NEW c \in Conns, Reap(c)
      PROVE  Channel!ChannelNext
  <2>1. clients' = clients \ {c} /\ c \in clients /\ born' = born /\ feed' = feed
    BY <1>1 DEF Reap, Drop
  <2>2. \A x \in Conns : Owed(x)' = IF x \in {c} THEN {} ELSE Owed(x)
    BY SMTT(30), <2>1, OwedIs
  <2>3. Channel!Part({c})
    BY <2>1, <2>2 DEF Channel!Part
  <2>4. {c} \in SUBSET Conns
    OBVIOUS
  <2>5. QED
    BY <2>3, <2>4 DEF Channel!ChannelNext
<1>2. ASSUME Restart
      PROVE  [Channel!ChannelNext]_Channel!channelVars
  <2>1. clients' = {} /\ born' = born /\ clients \subseteq Conns
    BY <1>2 DEF Restart, TypeInv, TypeOK
  <2>2. \A x \in Conns : Owed(x)' = IF x \in clients THEN {} ELSE Owed(x)
    BY <2>1, OwedIs
  <2>3. CASE clients = {}
    <3>1. \A x \in Conns : Owed(x)' = Owed(x)
      BY <2>2, <2>3
    <3>2. UNCHANGED Channel!channelVars
      BY <2>1, <2>3, <3>1 DEF Channel!channelVars
    <3>3. QED
      BY <3>2
  <2>4. CASE clients # {}
    <3>1. Channel!Part(clients)
      BY <2>1, <2>2, <2>4 DEF Channel!Part
    <3>2. clients \in SUBSET Conns
      BY <2>1
    <3>3. QED
      BY <3>1, <3>2 DEF Channel!ChannelNext
  <2>5. QED
    BY <2>3, <2>4
<1>3. QED
  BY <1>1, <1>2

(* The other steps of connections and files are none of the channel's.      *)
LEMMA OthersStutter ==
  ASSUME TypeInv,
         \/ \E c \in Conns : Drain(c) \/ Die(c)
         \/ WriteFiles
         \/ UNCHANGED vars
  PROVE  UNCHANGED Channel!channelVars
<1>1. born' = born /\ clients' = clients /\ feed' = feed
  BY DEF Drain, Die, WriteFiles, vars
<1>2. QED
  BY <1>1, SameChannel

(* The feed implements the channel it promises: a connection that stays is  *)
(* handed the batch of every event that arrives after it registered once,   *)
(* whatever the others do, in whatever order they are served, and nothing   *)
(* from before; _broadcast's copy of _clients, _drop_client and the order   *)
(* of steps in _ws_handler and handle_ops_ingest.                           *)
THEOREM ChannelRefined == Spec => ChannelRefinement
<1>1. Init => Channel!ChannelInit
  <2> SUFFICES ASSUME Init PROVE Channel!ChannelInit
    OBVIOUS
  <2>1. clients = {} /\ 1 .. born = {} /\ \A c : Owed(c) = {}
    BY DEF Init, Owed
  <2>2. QED
    BY <2>1 DEF Channel!ChannelInit
<1>2. TypeInv /\ [Next]_vars => [Channel!ChannelNext]_Channel!channelVars
  BY WorkDelivers, IngestPublishes, ConnectJoins, LeavingParts, OthersStutter DEF Next
<1>3. QED
  BY <1>1, <1>2, TypeInvariant, PTL DEF Spec, ChannelRefinement, Channel!ChannelSpec

-----------------------------------------------------------------------------
(* A STEP AS ONE CONNECTION SEES IT                                        *)

(* The connection is sent a message of the broadcast h.                    *)
Sent(c, h) ==
    LET b == feed[h]
        m == BatchFor(b, c)[b.next]
    IN
    /\ h \in DOMAIN feed /\ c = b.to /\ conn[c] = "open" /\ h \in 1 .. born
    /\ m \in Message /\ b.next \in 1 .. Len(BatchFor(b, c)) /\ Len(BatchFor(b, c)) \in Nat
    /\ \A i : AheadIn(feed, h, c, i) <=> i \in b.next .. Len(BatchFor(b, c))
    /\ page'[c] = Shown(page[c], m)
    /\ overtaken'[c] = (overtaken[c] \/ h < newest[c])
    /\ newest'[c] = IF h > newest[c] THEN h ELSE newest[c]
    /\ wiped'[c] = IF m.type = "state_replay" /\ h > wiped[c] THEN h ELSE wiped[c]
    /\ SameMessages(feed, feed')
    /\ \A k, i : AheadIn(feed', k, c, i) <=>
                    AheadIn(feed, k, c, i) /\ ~(k = h /\ i <= b.next)
    /\ UNCHANGED <<log, born, clients, conn, files, memory>>

(* Nothing happens to the connection; a file may have grown.               *)
Quiet(c) ==
    /\ conn[c] = "open"
    /\ UNCHANGED <<page[c], newest[c], overtaken[c], wiped[c], log, born, memory>>
    /\ changes' >= changes /\ alerts' >= alerts
    /\ SameMessages(feed, feed')
    /\ \A k, i : AheadIn(feed', k, c, i) <=> AheadIn(feed, k, c, i)

(* A send, for the connection it serves.                                   *)
LEMMA SendSends ==
  ASSUME TypeInv, NEW h \in DOMAIN feed, Send(h)
  PROVE  Sent(feed[h].to, h)
<1> DEFINE b == feed[h]
           c == feed[h].to
           m == BatchFor(b, c)[b.next]
<1>1. /\ GoodFeed(feed, born) /\ GoodEntry(b, h) /\ b \in Broadcast /\ c \in Conns
      /\ b.next \in Nat \ {0} /\ h \in 1 .. born
  <2>1. GoodFeed(feed, born)
    BY TypeInvFeed
  <2>2. GoodEntry(b, h) /\ b \in Broadcast /\ h \in 1 .. born
    BY <2>1 DEF GoodFeed, GoodEntry
  <2>3. QED
    BY <2>1, <2>2 DEF Broadcast
<1>2. /\ BatchFor(b, c) \in Seq(Message) /\ Len(BatchFor(b, c)) \in Nat
      /\ b.next \in 1 .. Len(BatchFor(b, c)) /\ m \in Message
  <2>1. BatchFor(b, c) \in Seq(Message) /\ Len(BatchFor(b, c)) \in Nat
    BY <1>1, BatchForTyped
  <2>2. b.next \in 1 .. Len(BatchFor(b, c))
    BY <1>1, <2>1 DEF GoodEntry
  <2>3. QED
    BY <2>1, <2>2, ElementOfSeq
<1>3. /\ ~b.waiting /\ conn[c] = "open"
      /\ page' = [page EXCEPT ![c] = Shown(@, m)]
      /\ overtaken' = [overtaken EXCEPT ![c] = @ \/ h < newest[c]]
      /\ newest' = [newest EXCEPT ![c] = IF h > @ THEN h ELSE @]
      /\ wiped' = [wiped EXCEPT ![c] = IF m.type = "state_replay" /\ h > @ THEN h ELSE @]
      /\ UNCHANGED <<log, born, clients, conn, files, memory>>
  BY DEF Send
<1>4. /\ page'[c] = Shown(page[c], m)
      /\ overtaken'[c] = (overtaken[c] \/ h < newest[c])
      /\ newest'[c] = IF h > newest[c] THEN h ELSE newest[c]
      /\ wiped'[c] = IF m.type = "state_replay" /\ h > wiped[c] THEN h ELSE wiped[c]
  BY <1>1, <1>3, Zenon DEF TypeInv, TypeOK
<1>5. \A i : AheadIn(feed, h, c, i) <=> i \in b.next .. Len(BatchFor(b, c))
  BY <1>1, <1>2, <1>3 DEF AheadIn, Ahead, GoodEntry
<1>6. /\ SameMessages(feed, feed')
      /\ \A k, i : AheadIn(feed', k, c, i) <=>
                      AheadIn(feed, k, c, i) /\ ~(k = h /\ i <= b.next)
  <2>1. CASE Advance(h)
    BY <1>1, <2>1, AdvanceKeeps
  <2>2. CASE feed' = [feed EXCEPT ![h].waiting = TRUE]
    BY <1>1, <1>3, <2>2, WaitingKeeps
  <2>3. QED
    BY <2>1, <2>2 DEF Send
<1>7. QED
  BY <1>1, <1>2, <1>3, <1>4, <1>5, <1>6 DEF Sent

(* A send, for the other connections, and the other steps of a broadcast.   *)
LEMMA WorkQuiet ==
  ASSUME TypeInv, NEW h \in DOMAIN feed, Work(h),
         NEW c \in Conns, conn'[c] = "open", ~(Send(h) /\ c = feed[h].to)
  PROVE  Quiet(c)
<1>0. GoodFeed(feed, born) /\ conn'[c] = conn[c]
      /\ changes \in Int /\ alerts \in Int
  <2>1. GoodFeed(feed, born)
    BY TypeInvFeed
  <2>2. conn' = conn
    BY DEF Work, Send, SendReturns, SendFails, GoOn
  <2>3. changes \in Int /\ alerts \in Int
    BY FeedAssumption DEF TypeInv, TypeOK
  <2>4. QED
    BY <2>1, <2>2, <2>3
<1>1. CASE Send(h)
  <2>1. c # feed[h].to
    BY <1>1
  <2>2. /\ UNCHANGED <<page[c], newest[c], overtaken[c], wiped[c]>>
        /\ UNCHANGED <<log, born, files, memory>> /\ ~feed[h].waiting
    BY <1>1, <2>1 DEF Send, TypeInv, TypeOK
  <2>3. /\ SameMessages(feed, feed')
        /\ \A k, i : AheadIn(feed', k, c, i) <=> AheadIn(feed, k, c, i)
    <3>1. CASE Advance(h)
      BY <1>0, <2>1, <3>1, AdvanceKeeps
    <3>2. CASE feed' = [feed EXCEPT ![h].waiting = TRUE]
      BY <1>0, <2>1, <2>2, <3>2, WaitingKeeps
    <3>3. QED
      BY <1>1, <3>1, <3>2 DEF Send
  <2>4. QED
    BY <1>0, <2>2, <2>3 DEF Quiet, files
<1>2. CASE SendReturns(h)
  <2>1. /\ Advance(h) /\ feed[h].waiting
        /\ UNCHANGED <<log, born, page, files, memory, history>>
    BY <1>2 DEF SendReturns
  <2>2. \A k, i : AheadIn(feed, k, c, i) => ~(k = h /\ c = feed[h].to /\ i <= feed[h].next)
    <3>1. feed[h].next \in Nat /\ feed[h].to \notin feed[h].left
          /\ Len(BatchFor(feed[h], c)) \in Nat
      <4>1. feed[h] \in Broadcast /\ GoodEntry(feed[h], h)
        BY <1>0 DEF GoodFeed, GoodEntry
      <4>2. QED
        BY <4>1, BatchForTyped DEF GoodEntry, Broadcast
    <3>2. QED
      BY <2>1, <3>1 DEF AheadIn, Ahead
  <2>3. /\ SameMessages(feed, feed')
        /\ \A k, i : AheadIn(feed', k, c, i) <=> AheadIn(feed, k, c, i)
    BY <1>0, <2>1, <2>2, AdvanceKeeps
  <2>4. QED
    BY <1>0, <2>1, <2>3 DEF Quiet, files, history
<1>3. CASE SendFails(h)
  <2>1. /\ ToNext(h) /\ conn[feed[h].to] = "gone"
        /\ UNCHANGED <<log, born, page, files, memory, history>>
    BY <1>3 DEF SendFails
  <2>2. c # feed[h].to
    BY <1>0, <2>1
  <2>3. /\ SameMessages(feed, feed')
        /\ \A k, i : AheadIn(feed', k, c, i) <=> AheadIn(feed, k, c, i)
    BY <1>0, <2>1, <2>2, ToNextKeeps
  <2>4. QED
    BY <1>0, <2>1, <2>3 DEF Quiet, files, history
<1>4. CASE GoOn(h)
  BY <1>0, <1>4 DEF GoOn, Quiet, files, history, SameMessages
<1>5. QED
  BY <1>1, <1>2, <1>3, <1>4 DEF Work

(* What a step is for a connection that is open after it.                  *)
LEMMA StepFor ==
  ASSUME TypeInv, [Next]_vars, NEW c \in Conns, conn'[c] = "open"
  PROVE  \/ \E a \in Arrivals : Ingest(a[1], a[2])
         \/ \E h \in DOMAIN feed : Sent(c, h)
         \/ \E from \in Conns : Connect(c, from)
         \/ Quiet(c)
<1>0. changes \in Int /\ alerts \in Int
  BY FeedAssumption DEF TypeInv, TypeOK
<1>1. ASSUME NEW h \in DOMAIN feed, Work(h)
      PROVE  Sent(c, h) \/ Quiet(c)
  BY <1>1, SendSends, WorkQuiet
<1>2. ASSUME NEW d \in Conns, NEW from \in Conns, Connect(d, from), d # c
      PROVE  Quiet(c)
  <2>1. conn[c] = "open"
    BY <1>2 DEF Connect, TypeInv, TypeOK
  <2>2. /\ from = d \/ conn[from] = "gone"
        /\ page' = [x \in Conns |->
                     IF x = d
                     THEN IF d \in SessionConns
                          THEN [page[from] EXCEPT !.upto =
                                  IF log = <<>> THEN 0 ELSE Last(log).id]
                          ELSE Joined(page[from], log)
                     ELSE IF x = from THEN FreshPage ELSE page[x]]
        /\ newest' = [newest EXCEPT ![d] = born]
        /\ UNCHANGED <<log, born, feed, files, memory, overtaken, wiped>>
    BY <1>2 DEF Connect
  <2>3. page'[c] = page[c] /\ newest'[c] = newest[c]
    BY <1>2, <2>1, <2>2 DEF TypeInv, TypeOK
  <2>4. QED
    BY <1>0, <2>1, <2>2, <2>3 DEF Quiet, files, SameMessages
<1>3. ASSUME NEW d \in Conns, Drain(d) \/ Die(d) \/ Reap(d)
      PROVE  Quiet(c)
  <2>1. CASE Die(d)
    <3>1. d # c /\ conn[c] = "open"
      BY <2>1 DEF Die, TypeInv, TypeOK
    <3>2. /\ UNCHANGED <<page[c], newest[c], overtaken[c], wiped[c]>>
          /\ UNCHANGED <<log, born, feed, files, memory>>
      BY <2>1, <3>1, Zenon DEF Die, TypeInv, TypeOK
    <3>3. QED
      BY <1>0, <3>1, <3>2 DEF Quiet, files, SameMessages
  <2>2. CASE Drain(d) \/ Reap(d)
    BY <1>0, <2>2 DEF Drain, Reap, Quiet, files, history, SameMessages
  <2>3. QED
    BY <1>3, <2>1, <2>2
<1>4. ASSUME WriteFiles
      PROVE  Quiet(c)
  <2>1. changes' >= changes /\ alerts' >= alerts
    BY <1>0, <1>4 DEF WriteFiles
  <2>2. QED
    BY <1>4, <2>1 DEF WriteFiles, Quiet, history, SameMessages
<1>5. ~Restart
  BY DEF Restart
<1>6. ASSUME UNCHANGED vars
      PROVE  Quiet(c)
  BY <1>0, <1>6 DEF vars, Quiet, SameMessages, memory
<1>7. QED
  BY <1>1, <1>2, <1>3, <1>4, <1>5, <1>6 DEF Next

-----------------------------------------------------------------------------
(* ALERTS AND SNAPSHOTS                                                    *)

(* The parts of a batch, in their order.                                   *)
LEMMA BatchIs ==
  ASSUME alerts \in 0 .. MaxAlerts, changes \in 0 .. MaxChanges,
         NEW e \in Event, NEW order \in Orders(NewAlerts)
  PROVE  LET own == Adapted(e)
             batch == BatchOf(e, order)
         IN  /\ batch \in Seq(Message) /\ own \in Seq(Message) /\ order \in Seq(NewAlerts)
             /\ Len(own) \in Nat /\ Len(order) \in Nat
             /\ Len(batch) = Len(own) + Len(order) + (IF ReplayDue(e) THEN 1 ELSE 0)
             /\ \A j \in 1 .. Len(own) : batch[j] = own[j]
             /\ \A j \in 1 .. Len(order) :
                   batch[Len(own) + j] = [type |-> "notification", alert |-> order[j]]
             /\ ReplayDue(e) =>
                   batch[Len(own) + Len(order) + 1] =
                      [type |-> "state_replay", version |-> changes]
<1> DEFINE own == Adapted(e)
           news == AlertsIn(order)
           replay == ReplayIn(e)
           derived == Derived(e, order)
           batch == BatchOf(e, order)
<1>1. /\ own \in Seq(Message) /\ news \in Seq(Message) /\ replay \in Seq(Message)
      /\ Len(news) = Len(order) /\ derived = news \o replay /\ batch = own \o derived
      /\ order \in Seq(NewAlerts)
  BY PartsTyped, OrderTyped DEF BatchOf
<1>2. /\ derived \in Seq(Message) /\ Len(derived) = Len(news) + Len(replay)
      /\ \A i \in 1 .. Len(news) + Len(replay) :
            derived[i] = IF i <= Len(news) THEN news[i] ELSE replay[i - Len(news)]
  BY <1>1, ConcatProperties
<1>3. /\ batch \in Seq(Message) /\ Len(batch) = Len(own) + Len(derived)
      /\ \A i \in 1 .. Len(own) + Len(derived) :
            batch[i] = IF i <= Len(own) THEN own[i] ELSE derived[i - Len(own)]
  BY <1>1, <1>2, ConcatProperties
<1>4. /\ Len(own) \in Nat /\ Len(order) \in Nat /\ Len(replay) \in Nat /\ DOMAIN order = 1 .. Len(order)
      /\ Len(replay) = IF ReplayDue(e) THEN 1 ELSE 0
  BY <1>1 DEF ReplayIn
<1>5. Len(batch) = Len(own) + Len(order) + (IF ReplayDue(e) THEN 1 ELSE 0)
  <2>1. /\ Len(batch) = Len(own) + Len(derived) /\ Len(derived) = Len(news) + Len(replay)
        /\ Len(news) = Len(order) /\ Len(own) \in Nat /\ Len(order) \in Nat
        /\ Len(replay) = IF ReplayDue(e) THEN 1 ELSE 0
    BY <1>1, <1>2, <1>3, <1>4
  <2> HIDE DEF own, news, replay, derived, batch
  <2>2. QED
    BY <2>1
<1>6. ASSUME NEW j \in 1 .. Len(own) PROVE batch[j] = own[j]
  <2>1. j \in 1 .. Len(own) + Len(derived) /\ j <= Len(own)
    BY <1>1, <1>2, <1>4
  <2>2. QED
    BY <1>3, <2>1
<1>7. ASSUME NEW j \in 1 .. Len(order)
      PROVE  batch[Len(own) + j] = [type |-> "notification", alert |-> order[j]]
  <2>1. /\ Len(own) + j \in 1 .. Len(own) + Len(derived) /\ ~(Len(own) + j <= Len(own))
        /\ Len(own) + j - Len(own) = j
        /\ j \in 1 .. Len(news) + Len(replay) /\ j <= Len(news)
    BY <1>1, <1>2, <1>4
  <2>2. batch[Len(own) + j] = derived[j]
    BY <1>3, <2>1
  <2>3. derived[j] = news[j]
    BY <1>2, <2>1
  <2>4. news[j] = [type |-> "notification", alert |-> order[j]]
    BY <1>4 DEF AlertsIn
  <2>5. QED
    BY <2>2, <2>3, <2>4
<1>8. ASSUME ReplayDue(e)
      PROVE  batch[Len(own) + Len(order) + 1] = [type |-> "state_replay", version |-> changes]
  <2> DEFINE j == Len(order) + 1
  <2>1. /\ Len(own) + j \in 1 .. Len(own) + Len(derived) /\ ~(Len(own) + j <= Len(own))
        /\ Len(own) + j - Len(own) = j
        /\ j \in 1 .. Len(news) + Len(replay) /\ ~(j <= Len(news)) /\ j - Len(news) = 1
        /\ Len(own) + Len(order) + 1 = Len(own) + j
    BY <1>1, <1>2, <1>4, <1>8
  <2>2. batch[Len(own) + j] = derived[j]
    BY <1>3, <2>1
  <2>3. derived[j] = replay[1]
    BY <1>2, <2>1
  <2>4. replay[1] = [type |-> "state_replay", version |-> changes]
    BY <1>8 DEF ReplayIn
  <2>5. QED
    BY <2>1, <2>2, <2>3, <2>4
<1>9. QED
  BY <1>1, <1>3, <1>4, <1>5, <1>6, <1>7, <1>8

(* Alert a is among the messages still to be written to c.                  *)
NoteAhead(f, c, a) ==
    \E h \in DOMAIN f : \E i \in DOMAIN f[h].batch :
        /\ AheadIn(f, h, c, i)
        /\ f[h].batch[i].type = "notification" /\ f[h].batch[i].alert = a

(* Alert a was told to c, or will be, or was too old when c joined.        *)
Reaches(p, f, c, a) ==
    a \in p[c].told \/ a \in 1 .. p[c].cut \/ NoteAhead(f, c, a)

(* Of what the bridge remembers as sent a page has one alert, or will.      *)
ToldInv ==
    \A c \in Pages : conn[c] = "open" =>
        \A k \in seen : \E a : KeyOf[a] = k /\ Reaches(page, feed, c, a)

(* The snapshot of the last event is still to come, or is what is shown.    *)
SnapInv ==
    \A c \in SessionConns : conn[c] = "open" /\ log # <<>> /\ ~overtaken[c] =>
        AheadIn(feed, born, c, 1) \/ (newest[c] = born /\ page[c].upto = born)

(* The messages for a page are those of the batch.                         *)
LEMMA PageBatch ==
  ASSUME TypeInv, NEW c \in Pages, NEW h \in DOMAIN feed
  PROVE  /\ BatchFor(feed[h], c) = feed[h].batch /\ feed[h].batch \in Seq(Message)
         /\ DOMAIN feed[h].batch = 1 .. Len(feed[h].batch)
<1>1. feed[h].batch \in Seq(Message)
  BY DEF TypeInv, TypeOK, Broadcast
<1>2. QED
  BY <1>1 DEF BatchFor, Pages

(* What a message does to the alerts a page was told of.                   *)
LEMMA ShownTold ==
  ASSUME NEW p \in Page, NEW m \in Message
  PROVE  /\ p.told \subseteq Shown(p, m).told /\ Shown(p, m).cut = p.cut
         /\ m.type = "notification" => m.alert \in Shown(p, m).told
<1>1. CASE m.type = "session_open"
  BY <1>1 DEF Shown, SessionOpen, Page
<1>2. CASE m.type = "step"
  BY <1>2 DEF Shown, Page
<1>3. CASE m.type = "session_close"
  BY <1>3 DEF Shown, Page
<1>4. CASE m.type = "notification"
  BY <1>4 DEF Shown, Page
<1>5. CASE m.type = "state_replay"
  BY <1>5 DEF Shown, PartialReplay, Page
<1>6. CASE m.type = "sessions_snapshot"
  BY <1>6 DEF Shown, Page
<1>7. QED
  BY <1>1, <1>2, <1>3, <1>4, <1>5, <1>6, MessageFields

(* Every new alert is in the batch.                                        *)
LEMMA IngestTells ==
  ASSUME TypeInv, NEW a \in Arrivals, Ingest(a[1], a[2]),
         NEW c \in Pages, conn[c] = "open", NEW x \in NewAlerts
  PROVE  NoteAhead(feed', c, x)
<1> DEFINE e == Arrived(a[1], a[2])
           n == born + 1
<1>1. e \in Event /\ alerts \in 0 .. MaxAlerts /\ changes \in 0 .. MaxChanges /\ c \in clients
  BY IngestStarts DEF TypeInv, TypeOK, Registration, Pages
<1>2. PICK order \in Orders(NewAlerts) : Started(BatchOf(e, order))
  BY IngestStarts
<1>b. PICK batch : batch = BatchOf(e, order)
  OBVIOUS
<1>o. PICK own : own = Adapted(e)
  OBVIOUS
<1>3. /\ batch \in Seq(Message) /\ Len(own) \in Nat /\ Len(order) \in Nat
      /\ Len(batch) = Len(own) + Len(order) + (IF ReplayDue(e) THEN 1 ELSE 0)
      /\ \A j \in 1 .. Len(order) :
            batch[Len(own) + j] = [type |-> "notification", alert |-> order[j]]
  BY <1>1, <1>b, <1>o, BatchIs
<1>4. PICK j \in DOMAIN order : order[j] = x
  BY <1>1, OrderTyped
<1>5. j \in 1 .. Len(order)
  BY <1>1, OrderTyped
<1> DEFINE i == Len(own) + j
<1>6. i \in 1 .. Len(batch) /\ i \in DOMAIN batch
  BY <1>3, <1>5
<1>7. c \in Recipients(batch) /\ c \notin SessionConns
  <2>1. batch # <<>>
    BY <1>3, <1>6
  <2>2. QED
    BY <1>1, <2>1 DEF Recipients, Pages
<1>8. AheadIn(feed', n, c, i) /\ n \in DOMAIN feed' /\ feed'[n].batch = batch
  BY <1>2, <1>b, <1>6, <1>7 DEF Started, AheadIn
<1>9. batch[i].type = "notification" /\ batch[i].alert = x
  <2>1. batch[Len(own) + j] = [type |-> "notification", alert |-> order[j]]
    BY <1>3, <1>5
  <2>2. QED
    BY <1>4, <2>1
<1>10. QED
  BY <1>6, <1>8, <1>9 DEF NoteAhead

(* What reaches c does so after every step that it survives.               *)
LEMMA ReachesStays ==
  ASSUME TypeInv, NEW c \in Pages, conn[c] = "open", NEW a, Reaches(page, feed, c, a),
         \/ Quiet(c)
         \/ \E h \in DOMAIN feed : Sent(c, h)
  PROVE  Reaches(page', feed', c, a)
<1>0. c \in Conns /\ page[c] \in Page
  BY DEF Pages, TypeInv, TypeOK
<1>1. ASSUME NEW h \in DOMAIN feed, Sent(c, h)
      PROVE  Reaches(page', feed', c, a)
  <2> DEFINE m == BatchFor(feed[h], c)[feed[h].next]
  <2>1. m \in Message /\ page'[c] = Shown(page[c], m)
    BY <1>1 DEF Sent
  <2>2. CASE a \in page[c].told \/ a \in 1 .. page[c].cut
    BY <1>0, <2>1, <2>2, ShownTold DEF Reaches
  <2>3. CASE NoteAhead(feed, c, a)
    <3>p. PICK k \in DOMAIN feed : \E i \in DOMAIN feed[k].batch :
             /\ AheadIn(feed, k, c, i)
             /\ feed[k].batch[i].type = "notification" /\ feed[k].batch[i].alert = a
      BY <2>3 DEF NoteAhead
    <3>1. PICK i \in DOMAIN feed[k].batch :
             /\ AheadIn(feed, k, c, i)
             /\ feed[k].batch[i].type = "notification" /\ feed[k].batch[i].alert = a
      BY <3>p
    <3>2. CASE k = h /\ i = feed[h].next
      <4>1. m.type = "notification" /\ m.alert = a
        BY <3>1, <3>2, PageBatch
      <4>2. QED
        BY <1>0, <2>1, <4>1, ShownTold DEF Reaches
    <3>3. CASE ~(k = h /\ i = feed[h].next)
      <4>1. ~(k = h /\ i <= feed[h].next)
        BY <1>1, <3>1, <3>3 DEF Sent
      <4>2. AheadIn(feed', k, c, i) /\ SameMessages(feed, feed')
        BY <1>1, <3>1, <4>1 DEF Sent
      <4>3. k \in DOMAIN feed' /\ feed'[k].batch = feed[k].batch
        BY <4>2 DEF AheadIn, SameMessages
      <4>4. QED
        BY <3>1, <4>2, <4>3 DEF NoteAhead, Reaches
    <3>4. QED
      BY <3>2, <3>3
  <2>4. QED
    BY <2>2, <2>3 DEF Reaches
<1>2. ASSUME Quiet(c)
      PROVE  Reaches(page', feed', c, a)
  <2>1. /\ page'[c] = page[c] /\ SameMessages(feed, feed')
        /\ \A k, i : AheadIn(feed', k, c, i) <=> AheadIn(feed, k, c, i)
    BY <1>2 DEF Quiet
  <2>2. CASE NoteAhead(feed, c, a)
    <3>p. PICK k \in DOMAIN feed : \E i \in DOMAIN feed[k].batch :
             /\ AheadIn(feed, k, c, i)
             /\ feed[k].batch[i].type = "notification" /\ feed[k].batch[i].alert = a
      BY <2>2 DEF NoteAhead
    <3>1. PICK i \in DOMAIN feed[k].batch :
             /\ AheadIn(feed, k, c, i)
             /\ feed[k].batch[i].type = "notification" /\ feed[k].batch[i].alert = a
      BY <3>p
    <3>2. AheadIn(feed', k, c, i) /\ k \in DOMAIN feed' /\ feed'[k].batch = feed[k].batch
      BY <2>1, <3>1 DEF AheadIn, SameMessages
    <3>3. QED
      BY <3>1, <3>2 DEF NoteAhead, Reaches
  <2>3. QED
    BY <2>1, <2>2 DEF Reaches
<1>3. QED
  BY <1>1, <1>2

(* A page that joins is shown every alert there is, but for the older ones. *)
LEMMA JoinReaches ==
  ASSUME TypeInv, NEW c \in Pages, NEW from \in Conns, Connect(c, from), NEW k \in seen
  PROVE  \E a : KeyOf[a] = k /\ Reaches(page', feed', c, a)
<1>1. c \in Conns /\ c \notin SessionConns /\ alerts \in Nat
  BY FeedAssumption DEF Pages, TypeInv, TypeOK
<1>2. page'[c] = Joined(page[from], log)
  BY <1>1 DEF Connect
<1>3. PICK a \in 1 .. alerts : KeyOf[a] = k
  BY DEF TypeInv, TypeOK
<1>4. a \in Latest(ReplayTail) \/ a \in 1 .. Older(ReplayTail)
  BY <1>1, FeedAssumption DEF Latest, Older
<1>5. page'[c].told = Latest(ReplayTail) /\ page'[c].cut = Older(ReplayTail)
  BY <1>2 DEF Joined
<1>6. QED
  BY <1>3, <1>4, <1>5 DEF Reaches

(* What is remembered when an event arrives was remembered before, or is in *)
(* its batch.                                                              *)
LEMMA IngestReaches ==
  ASSUME TypeInv, ToldInv, NEW r \in Arrivals, Ingest(r[1], r[2]),
         NEW c \in Pages, conn[c] = "open", NEW k \in seen'
  PROVE  \E a : KeyOf[a] = k /\ Reaches(page', feed', c, a)
<1>1. page' = page /\ seen' \in Remembered(seen \cup {KeyOf[a] : a \in NewAlerts})
  BY DEF Ingest
<1>2. k \in seen \/ \E a \in NewAlerts : KeyOf[a] = k
  BY <1>1 DEF Remembered
<1>3. CASE k \in seen
  <2>1. PICK a : KeyOf[a] = k /\ Reaches(page, feed, c, a)
    BY <1>3 DEF ToldInv
  <2>2. \A h \in DOMAIN feed : h \in DOMAIN feed' /\ feed'[h] = feed[h]
    BY IngestStarts DEF Started
  <2>3. NoteAhead(feed, c, a) => NoteAhead(feed', c, a)
    BY <2>2 DEF NoteAhead, AheadIn
  <2>4. QED
    BY <1>1, <2>1, <2>3 DEF Reaches
<1>4. CASE \E a \in NewAlerts : KeyOf[a] = k
  BY <1>4, IngestTells DEF Reaches
<1>5. QED
  BY <1>2, <1>3, <1>4

(* What is remembered reaches every open page after the step.              *)
LEMMA ToldStep ==
  ASSUME TypeInv, TypeInv', [Next]_vars, ToldInv
  PROVE  ToldInv'
<1> SUFFICES ASSUME NEW c \in Pages, conn'[c] = "open", NEW k \in seen'
             PROVE  \E a : KeyOf[a] = k /\ Reaches(page', feed', c, a)
  BY Zenon DEF ToldInv
<1>0. c \in Conns
  BY DEF Pages
<1>1. ASSUME NEW r \in Arrivals, Ingest(r[1], r[2])
      PROVE  \E a : KeyOf[a] = k /\ Reaches(page', feed', c, a)
  <2>1. conn[c] = "open"
    BY <1>1 DEF Ingest
  <2>2. QED
    BY <1>1, <2>1, IngestReaches
<1>2. ASSUME Quiet(c) \/ \E h \in DOMAIN feed : Sent(c, h)
      PROVE  \E a : KeyOf[a] = k /\ Reaches(page', feed', c, a)
  <2>1. conn[c] = "open" /\ seen' = seen
    BY <1>2 DEF Quiet, Sent, memory
  <2>2. PICK a : KeyOf[a] = k /\ Reaches(page, feed, c, a)
    BY <2>1 DEF ToldInv
  <2>3. QED
    BY <1>2, <2>1, <2>2, ReachesStays
<1>3. ASSUME NEW from \in Conns, Connect(c, from)
      PROVE  \E a : KeyOf[a] = k /\ Reaches(page', feed', c, a)
  <2>1. seen' = seen
    BY <1>3 DEF Connect, memory
  <2>2. QED
    BY <1>3, <2>1, JoinReaches
<1>4. QED
  BY <1>0, <1>1, <1>2, <1>3, StepFor

(* The last event in the log is the last that arrived.                     *)
LEMMA LastIsBorn ==
  ASSUME TypeInv, log # <<>>
  PROVE  Last(log).id = born
<1>1. log \in Seq(Event) /\ Len(log) \in DOMAIN log /\ Len(log) \in Nat /\ born \in Nat
  BY EmptySeq, FeedAssumption DEF TypeInv, TypeOK
<1>2. QED
  BY <1>1 DEF TypeInv, LogIds, Last

(* A session page is sent one message of a broadcast: its snapshot.        *)
LEMMA SentSnapshot ==
  ASSUME TypeInv, NEW c \in SessionConns, NEW h \in DOMAIN feed, Sent(c, h)
  PROVE  /\ page'[c].upto = h
         /\ \A k : AheadIn(feed', k, c, 1) <=> AheadIn(feed, k, c, 1) /\ k # h
<1> DEFINE m == BatchFor(feed[h], c)[feed[h].next]
<1>1. BatchFor(feed[h], c) = <<feed[h].snapshot>>
  BY DEF BatchFor
<1>2. feed[h].next = 1
  BY <1>1 DEF Sent
<1>3. m = [type |-> "sessions_snapshot", upto |-> h]
  BY <1>1, <1>2 DEF TypeInv, Batches
<1>4. page[c] \in Page /\ page'[c] = Shown(page[c], m)
  BY FeedAssumption DEF TypeInv, TypeOK, Sent
<1>5. page'[c].upto = h
  BY <1>3, <1>4 DEF Shown, Page
<1>6. \A k : AheadIn(feed', k, c, 1) <=> AheadIn(feed, k, c, 1) /\ k # h
  BY <1>2 DEF Sent
<1>7. QED
  BY <1>5, <1>6

(* A session page keeps up with the last event, or has it still to come.    *)
LEMMA SnapStep ==
  ASSUME TypeInv, TypeInv', [Next]_vars, SnapInv
  PROVE  SnapInv'
<1> SUFFICES ASSUME NEW c \in SessionConns, conn'[c] = "open", log' # <<>>, ~overtaken'[c]
             PROVE  \/ AheadIn(feed', born', c, 1)
                    \/ newest'[c] = born' /\ page'[c].upto = born'
  BY Zenon DEF SnapInv
<1>0. c \in Conns /\ born \in Nat /\ newest[c] \in 0 .. born /\ overtaken[c] \in BOOLEAN
  BY FeedAssumption DEF TypeInv, TypeOK
<1>1. ASSUME NEW a \in Arrivals, Ingest(a[1], a[2])
      PROVE  AheadIn(feed', born', c, 1)
  <2>1. born' = born + 1 /\ conn' = conn
    BY <1>1 DEF Ingest
  <2>2. c \in clients
    BY <1>0, <2>1 DEF TypeInv, Registration
  <2>3. PICK order \in Orders(NewAlerts) : Started(BatchOf(Arrived(a[1], a[2]), order))
    BY <1>1, IngestStarts
  <2>4. c \in Recipients(BatchOf(Arrived(a[1], a[2]), order))
    BY <2>2 DEF Recipients
  <2>5. QED
    BY <2>1, <2>3, <2>4 DEF Started
<1>2. ASSUME NEW h \in DOMAIN feed, Sent(c, h)
      PROVE  \/ AheadIn(feed', born', c, 1)
             \/ newest'[c] = born' /\ page'[c].upto = born'
  <2>1. /\ conn[c] = "open" /\ log' = log /\ born' = born /\ h \in 1 .. born
        /\ overtaken'[c] = (overtaken[c] \/ h < newest[c])
        /\ newest'[c] = IF h > newest[c] THEN h ELSE newest[c]
    BY <1>2 DEF Sent
  <2>2. CASE h = born
    BY <1>0, <1>2, <2>1, <2>2, SentSnapshot
  <2>3. CASE h # born
    <3>0. ~(overtaken[c] \/ h < newest[c])
      BY <2>1, Zenon
    <3>1. ~overtaken[c] /\ newest[c] # born
      BY <1>0, <2>1, <2>3, <3>0
    <3>2. AheadIn(feed, born, c, 1)
      BY <2>1, <3>1 DEF SnapInv
    <3>3. QED
      BY <1>2, <2>1, <2>3, <3>2, SentSnapshot
  <2>4. QED
    BY <2>2, <2>3
<1>3. ASSUME NEW from \in Conns, Connect(c, from)
      PROVE  newest'[c] = born' /\ page'[c].upto = born'
  <2>1. /\ page'[c] = [page[from] EXCEPT !.upto = IF log = <<>> THEN 0 ELSE Last(log).id]
        /\ newest' = [newest EXCEPT ![c] = born] /\ born' = born /\ log' = log
    BY <1>0, <1>3 DEF Connect
  <2>2. Last(log).id = born
    BY <2>1, LastIsBorn
  <2>3. page[from] \in Page /\ newest \in [Conns -> 0 .. born]
    BY DEF TypeInv, TypeOK
  <2>4. QED
    BY <1>0, <2>1, <2>2, <2>3 DEF Page
<1>4. ASSUME Quiet(c)
      PROVE  \/ AheadIn(feed', born', c, 1)
             \/ newest'[c] = born' /\ page'[c].upto = born'
  <2>1. /\ conn[c] = "open" /\ page'[c] = page[c] /\ newest'[c] = newest[c]
        /\ overtaken'[c] = overtaken[c] /\ log' = log /\ born' = born
        /\ \A k, i : AheadIn(feed', k, c, i) <=> AheadIn(feed, k, c, i)
    BY <1>4 DEF Quiet
  <2>2. QED
    BY <2>1 DEF SnapInv
<1>5. QED
  BY <1>0, <1>1, <1>2, <1>3, <1>4, StepFor

(* Whoever is owed nothing has nothing ahead.                              *)
LEMMA NothingAhead ==
  ASSUME NEW c \in clients, Owed(c) = {}
  PROVE  \A h, i : ~AheadIn(feed, h, c, i)
BY DEF Owed, AheadIn, Ahead

(* For every key the bridge remembers as sent, a page that has read all was *)
(* told an alert of that key, unless one was among those too old to be in   *)
(* its state_replay; and the sessions page counts every event: whatever the *)
(* tails and the keys are, whatever is forgotten (_seen_notifs) and whenever *)
(* the page connected.                                                     *)
THEOREM RememberedWasShown == Spec => []WatchersCurrent
<1>1. Init => ToldInv /\ SnapInv
  BY FeedAssumption DEF Init, ToldInv, SnapInv, Pages
<1>2. TypeInv /\ TypeInv' /\ [Next]_vars /\ ToldInv /\ SnapInv => ToldInv' /\ SnapInv'
  BY ToldStep, SnapStep
<1>3. TypeInv /\ ToldInv /\ SnapInv => WatchersCurrent
  <2> SUFFICES ASSUME TypeInv, ToldInv, SnapInv PROVE WatchersCurrent
    OBVIOUS
  <2>1. ASSUME NEW c \in Pages, UpToDate(c), NEW k \in seen
        PROVE  \E a \in page[c].told \cup 1 .. page[c].cut : KeyOf[a] = k
    <3>1. \A h, i : ~AheadIn(feed, h, c, i)
      BY <2>1, NothingAhead DEF UpToDate
    <3>2. PICK a : KeyOf[a] = k /\ Reaches(page, feed, c, a)
      BY <2>1 DEF ToldInv, UpToDate
    <3>3. QED
      BY <3>1, <3>2 DEF Reaches, NoteAhead
  <2>2. ASSUME NEW c \in SessionConns, UpToDate(c), log # <<>>
        PROVE  page[c].upto = Last(log).id
    <3>1. \A h, i : ~AheadIn(feed, h, c, i)
      BY <2>2, NothingAhead DEF UpToDate
    <3>2. QED
      BY <2>2, <3>1, LastIsBorn DEF SnapInv, UpToDate
  <2>3. QED
    BY <2>1, <2>2 DEF WatchersCurrent
<1>4. QED
  BY <1>1, <1>2, <1>3, TypeInvariant, PTL DEF Spec

-----------------------------------------------------------------------------
(* WHAT THE PAGES SHOW                                                     *)

(* Where the step of an event is in its batch.                             *)
StepPos(e) == IF e.tier = "T0" THEN 2 ELSE 1

(* Where the event h is in the log.                                        *)
Idx(h) == h - (born - Len(log))

(* The batch b is that of the event e: its own messages first, with the     *)
(* session it opens before its step, and a change log, if any, at the end.  *)
OfEvent(b, e) ==
    /\ \A i \in DOMAIN b :
        /\ b[i].type \in {"session_open", "step", "session_close"} =>
              b[i].id = e.id /\ b[i].run = e.run /\ e.run # Cli
        /\ b[i].type = "session_open" => i = 1 /\ e.tier = "T0"
        /\ b[i].type = "step" => i = StepPos(e)
        /\ b[i].type = "state_replay" => i = Len(b)
    /\ e.run # Cli => /\ StepPos(e) \in DOMAIN b /\ b[StepPos(e)].type = "step"
                      /\ e.tier = "T0" => b[1].type = "session_open"

(* A broadcast under way is of an event in the log.                        *)
BatchInv ==
    \A h \in DOMAIN feed : Idx(h) \in DOMAIN log /\ OfEvent(feed[h].batch, log[Idx(h)])

(* What a page has on its rail is in the log, and of its session if it has  *)
(* one; the rail and the change log of a page without a connection are     *)
(* empty.                                                                  *)
RailInv ==
    \A c \in Pages :
        /\ \A s \in page[c].rail :
              /\ Idx(s) \in DOMAIN log
              /\ page[c].cur # NoRun => log[Idx(s)].run = page[c].cur
        /\ conn[c] # "open" => page[c].rail = {} /\ page[c].version = 0

(* A page has had all there was for it up to the newest event it knows of.  *)
Orderly(f, newer, over, c) ==
    /\ ~over[c]
    /\ \A h \in DOMAIN f : \A i \in DOMAIN f[h].batch : AheadIn(f, h, c, i) => h >= newer[c]

(* Of the events after the newest one that it has a part of, a page has all *)
(* still to come.                                                          *)
ComingInv ==
    \A c \in Pages : conn[c] = "open" =>
        /\ \A i \in DOMAIN log : log[i].run # Cli /\ log[i].id > newest[c] =>
              AheadIn(feed, log[i].id, c, 1)
        /\ \A h \in DOMAIN feed : AheadIn(feed, h, c, 1) => newest[c] # h
        /\ wiped[c] <= newest[c]

(* A page that has had the T0 of the live session shows that session.       *)
SessionInv ==
    \A c \in Pages : conn[c] = "open" /\ Orderly(feed, newest, overtaken, c) =>
        \A o \in DOMAIN log :
            LastOpen(log, o) /\ ~ClosedIn(log, o) /\ log[o].id <= newest[c] =>
                page[c].cur = log[o].run

(* Its steps since are on the rail, were wiped, or are still to come.       *)
StepsInv ==
    \A c \in Pages : conn[c] = "open" /\ Orderly(feed, newest, overtaken, c) =>
        \A o \in DOMAIN log : LastOpen(log, o) /\ ~ClosedIn(log, o) =>
            \A j \in DOMAIN log :
                j >= o /\ log[j].run = log[o].run /\ log[j].id > wiped[c] =>
                    \/ log[j].id \in page[c].rail
                    \/ AheadIn(feed, log[j].id, c, StepPos(log[j]))

HasReplay(b) == \E i \in DOMAIN b : b[i].type = "state_replay"

(* No page has a change log that is not written yet.                       *)
VersionInv ==
    /\ \A c \in Pages : page[c].version <= changes
    /\ \A h \in DOMAIN feed : \A i \in DOMAIN feed[h].batch :
          feed[h].batch[i].type = "state_replay" => feed[h].batch[i].version <= changes

(* The page has the change log last sent, or cleared it for a session.      *)
ReplayOK(c) ==
    \/ page[c].version >= lastReplay
    \/ /\ page[c].version = 0
       /\ \E i \in DOMAIN log : log[i].tier = "T0" /\ log[i].run # Cli /\ log[i].id > wiped[c]

(* The change log was sent last with the event g.                          *)
SentLast(g) ==
    /\ \A h \in DOMAIN feed : \A i \in DOMAIN feed[h].batch :
          feed[h].batch[i].type = "state_replay" =>
              h <= g /\ (h = g => feed[h].batch[i].version = lastReplay)
    /\ \A c \in Pages : conn[c] = "open" =>
          /\ g > newest[c] => AheadIn(feed, g, c, 1) /\ HasReplay(feed[g].batch)
          /\ Orderly(feed, newest, overtaken, c) /\ g <= newest[c] =>
                \/ ReplayOK(c)
                \/ /\ g \in DOMAIN feed /\ HasReplay(feed[g].batch)
                   /\ AheadIn(feed, g, c, Len(feed[g].batch))

ReplayInv == \E g \in 0 .. born : SentLast(g)

ShowInv == /\ BatchInv /\ RailInv /\ ComingInv /\ SessionInv /\ StepsInv
           /\ VersionInv /\ ReplayInv

(* What a step makes of the batches under way.                             *)
LEMMA FeedStep ==
  ASSUME TypeInv, [Next]_vars
  PROVE  \/ \E a \in Arrivals : Ingest(a[1], a[2])
         \/ /\ SameMessages(feed, feed')
            /\ UNCHANGED <<log, born, lastReplay>> /\ changes' >= changes
         \/ Restart
<1>0. changes \in Int /\ GoodFeed(feed, born)
  <2>1. GoodFeed(feed, born)
    BY TypeInvFeed
  <2>2. QED
    BY <2>1, FeedAssumption DEF TypeInv, TypeOK
<1>1. ASSUME NEW h \in DOMAIN feed, Work(h)
      PROVE  /\ SameMessages(feed, feed')
             /\ UNCHANGED <<log, born, lastReplay>> /\ changes' >= changes
  <2>1. UNCHANGED <<log, born, lastReplay, changes>>
    BY <1>1 DEF Work, Send, SendReturns, SendFails, GoOn, files, memory
  <2>2. SameMessages(feed, feed')
    <3>1. CASE Advance(h)
      BY <1>0, <3>1, AdvanceKeeps
    <3>2. CASE ToNext(h)
      BY <1>0, <3>2, ToNextKeeps
    <3>3. CASE ~feed[h].waiting /\ feed' = [feed EXCEPT ![h].waiting = TRUE]
      BY <1>0, <3>3, WaitingKeeps
    <3>4. CASE feed' = feed
      BY <3>4 DEF SameMessages
    <3>5. QED
      BY <1>1, <3>1, <3>2, <3>3, <3>4 DEF Work, Send, SendReturns, SendFails, GoOn
  <2>3. QED
    BY <1>0, <2>1, <2>2
<1>2. ASSUME NEW c \in Conns,
             \/ \E from \in Conns : Connect(c, from)
             \/ Drain(c) \/ Die(c) \/ Reap(c)
      PROVE  /\ SameMessages(feed, feed')
             /\ UNCHANGED <<log, born, lastReplay>> /\ changes' >= changes
  BY <1>0, <1>2 DEF Connect, Drain, Die, Reap, files, memory, SameMessages
<1>3. ASSUME WriteFiles
      PROVE  /\ SameMessages(feed, feed')
             /\ UNCHANGED <<log, born, lastReplay>> /\ changes' >= changes
  BY <1>0, <1>3 DEF WriteFiles, memory, SameMessages
<1>4. ASSUME UNCHANGED vars
      PROVE  /\ SameMessages(feed, feed')
             /\ UNCHANGED <<log, born, lastReplay>> /\ changes' >= changes
  BY <1>0, <1>4 DEF vars, SameMessages
<1>5. QED
  BY <1>1, <1>2, <1>3, <1>4 DEF Next

(* A page without a connection after a step has forgotten what it showed.   *)
LEMMA StepClosed ==
  ASSUME TypeInv, [Next]_vars, NEW c \in Conns, conn'[c] # "open"
  PROVE  \/ page'[c] = FreshPage
         \/ page'[c] = Forgotten(page[c])
         \/ page'[c] = page[c] /\ conn[c] # "open"
<1>1. ASSUME NEW a \in Arrivals, Ingest(a[1], a[2]) PROVE page'[c] = page[c] /\ conn[c] # "open"
  BY <1>1 DEF Ingest
<1>2. ASSUME NEW h \in DOMAIN feed, Work(h) PROVE page'[c] = page[c] /\ conn[c] # "open"
  <2>1. conn' = conn
    BY <1>2 DEF Work, Send, SendReturns, SendFails, GoOn
  <2>2. CASE Send(h)
    <3>1. feed[h].to # c
      BY <2>1, <2>2 DEF Send
    <3>2. page' = [page EXCEPT ![feed[h].to] =
                     Shown(@, BatchFor(feed[h], feed[h].to)[feed[h].next])]
      BY <2>2 DEF Send
    <3>3. QED
      BY <2>1, <3>1, <3>2 DEF TypeInv, TypeOK
  <2>3. CASE SendReturns(h) \/ SendFails(h) \/ GoOn(h)
    BY <2>1, <2>3 DEF SendReturns, SendFails, GoOn
  <2>4. QED
    BY <1>2, <2>2, <2>3 DEF Work
<1>3. ASSUME NEW d \in Conns, NEW from \in Conns, Connect(d, from)
      PROVE  page'[c] = FreshPage \/ (page'[c] = page[c] /\ conn[c] # "open")
  <2>1. conn' = [conn EXCEPT ![d] = "open"] /\ conn \in [Conns -> {"new", "open", "gone"}]
    BY <1>3 DEF Connect, TypeInv, TypeOK
  <2>2. d # c /\ conn[c] # "open"
    BY <2>1
  <2>3. page'[c] = IF c = from THEN FreshPage ELSE page[c]
    BY <1>3, <2>2 DEF Connect
  <2>4. QED
    BY <2>2, <2>3
<1>4. ASSUME NEW d \in Conns, Die(d)
      PROVE  page'[c] = Forgotten(page[c]) \/ (page'[c] = page[c] /\ conn[c] # "open")
  <2>1. /\ conn' = [conn EXCEPT ![d] = "gone"] /\ conn \in [Conns -> {"new", "open", "gone"}]
        /\ page' = [page EXCEPT ![d] = Forgotten(page[d])] /\ page \in [Conns -> Page]
    BY <1>4 DEF Die, TypeInv, TypeOK
  <2>2. CASE c = d
    BY <2>1, <2>2
  <2>3. CASE c # d
    <3>1. page'[c] = page[c] /\ conn'[c] = conn[c]
      BY <2>1, <2>3, Zenon
    <3>2. QED
      BY <3>1
  <2>4. QED
    BY <2>2, <2>3
<1>5. ASSUME NEW d \in Conns, Drain(d) \/ Reap(d)
      PROVE  page'[c] = page[c] /\ conn[c] # "open"
  BY <1>5 DEF Drain, Reap
<1>6. ASSUME WriteFiles PROVE page'[c] = page[c] /\ conn[c] # "open"
  BY <1>6 DEF WriteFiles
<1>7. ASSUME Restart PROVE page'[c] = Forgotten(page[c])
  BY <1>7 DEF Restart
<1>8. ASSUME UNCHANGED vars PROVE page'[c] = page[c] /\ conn[c] # "open"
  BY <1>8 DEF vars
<1>9. QED
  BY <1>1, <1>2, <1>3, <1>4, <1>5, <1>6, <1>7, <1>8 DEF Next

(* The batch of an event is its.                                           *)
LEMMA BatchOfEvent ==
  ASSUME alerts \in 0 .. MaxAlerts, changes \in 0 .. MaxChanges,
         NEW e \in Event, NEW order \in Orders(NewAlerts)
  PROVE  /\ OfEvent(BatchOf(e, order), e)
         /\ \A i \in DOMAIN BatchOf(e, order) :
               BatchOf(e, order)[i].type = "state_replay" =>
                  ReplayDue(e) /\ BatchOf(e, order)[i].version = changes
         /\ ReplayDue(e) => HasReplay(BatchOf(e, order))
<1>o. PICK own : own = Adapted(e)
  OBVIOUS
<1>b. PICK batch : batch = BatchOf(e, order)
  OBVIOUS
<1>1. /\ batch \in Seq(Message) /\ own \in Seq(Message)
      /\ Len(own) \in Nat /\ Len(order) \in Nat
      /\ Len(batch) = Len(own) + Len(order) + (IF ReplayDue(e) THEN 1 ELSE 0)
      /\ \A j \in 1 .. Len(own) : batch[j] = own[j]
      /\ \A j \in 1 .. Len(order) :
            batch[Len(own) + j] = [type |-> "notification", alert |-> order[j]]
      /\ ReplayDue(e) =>
            batch[Len(own) + Len(order) + 1] = [type |-> "state_replay", version |-> changes]
  BY <1>o, <1>b, BatchIs
<1>2. DOMAIN batch = 1 .. Len(batch)
  BY <1>1
<1>3. /\ \A j \in 1 .. Len(own) :
            /\ own[j].type \in {"session_open", "step", "session_close"}
            /\ own[j].id = e.id /\ own[j].run = e.run /\ e.run # Cli
            /\ own[j].type = "session_open" => j = 1 /\ e.tier = "T0"
            /\ own[j].type = "step" => j = StepPos(e)
      /\ e.run # Cli => /\ StepPos(e) \in 1 .. Len(own) /\ own[StepPos(e)].type = "step"
                        /\ e.tier = "T0" => own[1].type = "session_open"
  <2>1. CASE e.run = Cli
    <3>1. own = <<>>
      BY <1>o, <2>1, AdaptedIs
    <3>2. QED
      BY <2>1, <3>1
  <2>2. CASE e.run # Cli /\ e.tier = "T0"
    <3>1. own = <<Note("session_open", e), Note("step", e)>>
      BY <1>o, <2>2, AdaptedIs
    <3>2. Len(own) = 2 /\ own[1] = Note("session_open", e) /\ own[2] = Note("step", e)
      BY <3>1
    <3>3. QED
      BY <2>2, <3>2 DEF Note, StepPos
  <2>3. CASE e.run # Cli /\ e.tier = "T9"
    <3>1. own = <<Note("step", e), Note("session_close", e)>>
      BY <1>o, <2>3, AdaptedIs
    <3>2. Len(own) = 2 /\ own[1] = Note("step", e) /\ own[2] = Note("session_close", e)
      BY <3>1
    <3>3. QED
      BY <2>3, <3>2 DEF Note, StepPos
  <2>4. CASE e.run # Cli /\ e.tier # "T0" /\ e.tier # "T9"
    <3>1. own = <<Note("step", e)>>
      BY <1>o, <2>4, AdaptedIs
    <3>2. Len(own) = 1 /\ own[1] = Note("step", e)
      BY <3>1
    <3>3. QED
      BY <2>4, <3>2 DEF Note, StepPos
  <2>5. QED
    BY <2>1, <2>2, <2>3, <2>4
<1>4. ASSUME NEW i \in DOMAIN batch
      PROVE  /\ batch[i].type \in {"session_open", "step", "session_close"} =>
                   batch[i].id = e.id /\ batch[i].run = e.run /\ e.run # Cli
             /\ batch[i].type = "session_open" => i = 1 /\ e.tier = "T0"
             /\ batch[i].type = "step" => i = StepPos(e)
             /\ batch[i].type = "state_replay" =>
                   i = Len(batch) /\ ReplayDue(e) /\ batch[i].version = changes
  <2>1. CASE i <= Len(own)
    <3>1. i \in 1 .. Len(own) /\ batch[i] = own[i]
      BY <1>1, <1>2, <2>1
    <3>2. own[i].type # "state_replay"
      BY <1>3, <3>1
    <3>3. QED
      BY <1>3, <3>1, <3>2
  <2>2. CASE Len(own) < i /\ i <= Len(own) + Len(order)
    <3>1. i - Len(own) \in 1 .. Len(order) /\ Len(own) + (i - Len(own)) = i
      BY <1>1, <1>2, <2>2
    <3>2. batch[i].type = "notification"
      <4>1. batch[Len(own) + (i - Len(own))] =
               [type |-> "notification", alert |-> order[i - Len(own)]]
        BY <1>1, <3>1
      <4>2. QED
        BY <3>1, <4>1
    <3>3. QED
      BY <3>2
  <2>3. CASE i > Len(own) + Len(order)
    <3>1. i = Len(own) + Len(order) + 1 /\ i = Len(batch) /\ ReplayDue(e)
      BY <1>1, <1>2, <2>3
    <3>2. batch[i] = [type |-> "state_replay", version |-> changes]
      BY <1>1, <3>1
    <3>3. QED
      BY <3>1, <3>2
  <2>4. QED
    BY <1>1, <1>2, <2>1, <2>2, <2>3
<1>5. e.run # Cli => /\ StepPos(e) \in DOMAIN batch /\ batch[StepPos(e)].type = "step"
                     /\ e.tier = "T0" => batch[1].type = "session_open"
  <2>1. Len(own) >= 1 => 1 \in 1 .. Len(own)
    BY <1>1
  <2>2. ASSUME e.run # Cli
        PROVE  /\ StepPos(e) \in 1 .. Len(own) /\ batch[StepPos(e)] = own[StepPos(e)]
               /\ batch[1] = own[1]
    BY <1>1, <1>3, <2>1, <2>2
  <2>3. QED
    BY <1>1, <1>2, <1>3, <2>2
<1>6. ReplayDue(e) => HasReplay(batch)
  <2>1. ASSUME ReplayDue(e) PROVE HasReplay(batch)
    <3>1. Len(own) + Len(order) + 1 \in DOMAIN batch
      BY <1>1, <1>2, <2>1
    <3>2. batch[Len(own) + Len(order) + 1].type = "state_replay"
      BY <1>1, <2>1
    <3>3. QED
      BY <3>1, <3>2 DEF HasReplay
  <2>2. QED
    BY <2>1
<1>7. QED
  BY <1>b, <1>4, <1>5, <1>6 DEF OfEvent

(* What a message does to the session, the rail and the change log.         *)
LEMMA ShownIs ==
  ASSUME NEW p \in Page, NEW m \in Message
  PROVE  /\ m.type = "session_open" =>
               /\ Shown(p, m).cur = m.run /\ Shown(p, m).rail = {}
               /\ Shown(p, m).version = 0
         /\ m.type = "step" =>
               /\ Shown(p, m).cur = p.cur /\ Shown(p, m).version = p.version
               /\ Shown(p, m).rail = IF p.cur \in {NoRun, m.run}
                                     THEN p.rail \cup {m.id} ELSE p.rail
         /\ m.type = "state_replay" =>
               /\ Shown(p, m).cur = p.cur /\ Shown(p, m).rail = {}
               /\ Shown(p, m).version = IF m.version = 0 THEN p.version ELSE m.version
         /\ m.type \notin {"session_open", "step", "state_replay"} =>
               /\ Shown(p, m).cur = p.cur /\ Shown(p, m).rail = p.rail
               /\ Shown(p, m).version = p.version
<1>1. CASE m.type = "session_open"
  BY <1>1 DEF Shown, SessionOpen
<1>2. CASE m.type = "step"
  BY <1>2 DEF Shown, BelongsToCurrent, Page
<1>3. CASE m.type = "session_close"
  BY <1>3 DEF Shown
<1>4. CASE m.type = "notification"
  BY <1>4 DEF Shown
<1>5. CASE m.type = "state_replay"
  BY <1>5 DEF Shown, PartialReplay
<1>6. CASE m.type = "sessions_snapshot"
  BY <1>6 DEF Shown, Page
<1>7. QED
  BY <1>1, <1>2, <1>3, <1>4, <1>5, <1>6, MessageFields

(* What a page is sent, and of which event it is.                          *)
LEMMA SentMessage ==
  ASSUME TypeInv, BatchInv, NEW c \in Pages, NEW h \in DOMAIN feed, Sent(c, h)
  PROVE  LET b == feed[h]
             m == b.batch[b.next]
             e == log[Idx(h)]
         IN  /\ conn[c] = "open" /\ page[c] \in Page /\ m \in Message
             /\ page'[c] = Shown(page[c], m)
             /\ Idx(h) \in DOMAIN log /\ e \in Event /\ e.id = h /\ h \in 1 .. born
             /\ b.next \in DOMAIN b.batch
             /\ \A i : AheadIn(feed, h, c, i) <=> i \in b.next .. Len(b.batch)
             /\ m.type = "session_open" =>
                   b.next = 1 /\ e.tier = "T0" /\ m.run = e.run /\ e.run # Cli
             /\ m.type = "step" =>
                   b.next = StepPos(e) /\ m.id = h /\ m.run = e.run /\ e.run # Cli
             /\ m.type = "state_replay" => b.next = Len(b.batch)
             /\ wiped'[c] = IF m.type = "state_replay" /\ h > wiped[c] THEN h ELSE wiped[c]
<1> DEFINE b == feed[h]
           m == b.batch[b.next]
           e == log[Idx(h)]
<1>1. BatchFor(b, c) = b.batch /\ DOMAIN b.batch = 1 .. Len(b.batch)
  BY PageBatch
<1>2. /\ conn[c] = "open" /\ h \in 1 .. born /\ m \in Message /\ b.next \in DOMAIN b.batch
      /\ page'[c] = Shown(page[c], m)
      /\ \A i : AheadIn(feed, h, c, i) <=> i \in b.next .. Len(b.batch)
      /\ wiped'[c] = IF m.type = "state_replay" /\ h > wiped[c] THEN h ELSE wiped[c]
  BY <1>1 DEF Sent
<1>3. page[c] \in Page /\ log \in Seq(Event)
  BY DEF TypeInv, TypeOK, Pages
<1>4. Idx(h) \in DOMAIN log /\ OfEvent(b.batch, e)
  BY DEF BatchInv
<1>5. e \in Event /\ e.id = h
  <2>1. e \in Event
    BY <1>3, <1>4
  <2>2. e.id = born - Len(log) + Idx(h) /\ Len(log) \in 0 .. born /\ born \in Nat
    BY <1>4, LogShort DEF TypeInv, LogIds
  <2>3. QED
    BY <1>2, <2>1, <2>2 DEF Idx
<1>6. /\ m.type = "session_open" =>
            b.next = 1 /\ e.tier = "T0" /\ m.run = e.run /\ e.run # Cli
      /\ m.type = "step" =>
            b.next = StepPos(e) /\ m.id = h /\ m.run = e.run /\ e.run # Cli
      /\ m.type = "state_replay" => b.next = Len(b.batch)
  BY <1>2, <1>4, <1>5 DEF OfEvent
<1>7. QED
  BY <1>2, <1>3, <1>4, <1>5, <1>6

(* The log after an event has arrived.                                     *)
LEMMA IngestLog ==
  ASSUME TypeInv, NEW a \in Arrivals, Ingest(a[1], a[2])
  PROVE  /\ Arrived(a[1], a[2]) \in Event /\ Arrived(a[1], a[2]).id = born + 1
         /\ born' = born + 1 /\ born \in Nat /\ log \in Seq(Event) /\ Len(log) \in 0 .. born
         /\ log' \in Seq(Event) /\ Len(log') = Len(log) + 1
         /\ DOMAIN log = 1 .. Len(log) /\ DOMAIN log' = 1 .. Len(log) + 1
         /\ \A i \in DOMAIN log : log'[i] = log[i]
         /\ log'[Len(log) + 1] = Arrived(a[1], a[2])
         /\ \A h : Idx(h)' = Idx(h)
         /\ \A h : h = born + 1 => Idx(h)' = Len(log) + 1
         /\ UNCHANGED <<conn, page, newest, overtaken, wiped, changes>>
<1>1. /\ Arrived(a[1], a[2]) \in Event /\ log' = Append(log, Arrived(a[1], a[2]))
      /\ log \in Seq(Event) /\ Arrived(a[1], a[2]).id = born + 1
  BY IngestStarts DEF TypeInv, TypeOK, Arrived
<1>2. /\ log' \in Seq(Event) /\ Len(log') = Len(log) + 1
      /\ DOMAIN log = 1 .. Len(log) /\ DOMAIN log' = 1 .. Len(log) + 1
      /\ \A i \in DOMAIN log : log'[i] = log[i]
      /\ log'[Len(log) + 1] = Arrived(a[1], a[2])
  BY <1>1, LogGrows
<1>3. born' = born + 1 /\ UNCHANGED <<conn, page, newest, overtaken, wiped, changes>>
  BY DEF Ingest, files, history
<1>4. Len(log) \in 0 .. born /\ born \in Nat
  BY LogShort
<1>5. /\ \A h : Idx(h)' = Idx(h)
      /\ \A h : h = born + 1 => Idx(h)' = Len(log) + 1
  <2>1. PICK n : n = born - Len(log)
    OBVIOUS
  <2>2. born' - Len(log') = n /\ born + 1 - n = Len(log) + 1
    BY <1>2, <1>3, <1>4, <2>1
  <2>3. \A h : Idx(h)' = h - n /\ Idx(h) = h - n
    BY <2>1, <2>2, Zenon DEF Idx
  <2>4. ASSUME NEW h PROVE Idx(h)' = Idx(h)
    BY <2>3, Zenon
  <2>5. ASSUME NEW h, h = born + 1 PROVE Idx(h)' = Len(log) + 1
    <3>1. Idx(h)' = h - n
      BY <2>3, Zenon
    <3>2. h - n = Len(log) + 1
      BY <1>4, <2>1, <2>5
    <3>3. QED
      BY <3>1, <3>2, Zenon
  <2>6. QED
    BY <2>4, <2>5, Zenon
<1>6. QED
  BY <1>1, <1>2, <1>3, <1>4, <1>5

(* A broadcast that begins is of the event that is put at the end of the    *)
(* log; the others keep their place.                                       *)
LEMMA BatchStep ==
  ASSUME TypeInv, [Next]_vars, BatchInv
  PROVE  BatchInv'
<1>1. ASSUME NEW a \in Arrivals, Ingest(a[1], a[2]) PROVE BatchInv'
  <2> DEFINE e == Arrived(a[1], a[2])
  <2>1. PICK order \in Orders(NewAlerts) : Started(BatchOf(e, order))
    BY <1>1, IngestStarts
  <2>2. alerts \in 0 .. MaxAlerts /\ changes \in 0 .. MaxChanges /\ e \in Event
    BY <1>1, IngestLog DEF TypeInv, TypeOK
  <2>3. OfEvent(BatchOf(e, order), e)
    BY <2>2, BatchOfEvent
  <2> HIDE DEF e
  <2>4. /\ \A i \in DOMAIN log : i \in DOMAIN log' /\ log'[i] = log[i]
        /\ Len(log) + 1 \in DOMAIN log' /\ log'[Len(log) + 1] = e
        /\ \A h : Idx(h)' = Idx(h)
        /\ \A h : h = born + 1 => Idx(h)' = Len(log) + 1
    BY <1>1, IngestLog DEF e
  <2>5. ASSUME NEW h \in DOMAIN feed'
        PROVE  Idx(h)' \in DOMAIN log' /\ OfEvent(feed'[h].batch, log'[Idx(h)'])
    <3>1. CASE h \in DOMAIN feed
      <4>1. feed'[h] = feed[h]
        BY <2>1, <3>1 DEF Started
      <4>2. Idx(h) \in DOMAIN log /\ OfEvent(feed[h].batch, log[Idx(h)])
        BY <3>1 DEF BatchInv
      <4>3. QED
        BY <2>4, <4>1, <4>2
    <3>2. CASE h = born + 1
      <4>1. feed'[h].batch = BatchOf(e, order)
        BY <2>1, <2>5, <3>2 DEF Started
      <4>2. QED
        BY <2>3, <2>4, <3>2, <4>1
    <3>3. QED
      BY <2>1, <2>5, <3>1, <3>2 DEF Started
  <2>6. QED
    BY <2>5, Zenon DEF BatchInv
<1>2. ASSUME SameMessages(feed, feed'), UNCHANGED <<log, born>> PROVE BatchInv'
  BY <1>2 DEF BatchInv, SameMessages, Idx
<1>3. ASSUME Restart PROVE BatchInv'
  BY <1>3 DEF Restart, BatchInv
<1>4. QED
  BY <1>1, <1>2, <1>3, FeedStep

(* The place of an event in the log, from its id.                          *)
LEMMA IdxOf ==
  ASSUME TypeInv, NEW i \in DOMAIN log
  PROVE  /\ i \in Nat /\ i \in 1 .. Len(log) /\ log[i] \in Event
         /\ log[i].id \in 1 .. born /\ log[i].id = born - Len(log) + i
         /\ Idx(log[i].id) = i
<1>1. log \in Seq(Event) /\ born \in Nat /\ Len(log) \in 0 .. born
  BY LogShort DEF TypeInv, TypeOK
<1>2. i \in 1 .. Len(log) /\ log[i] \in Event /\ log[i].id = born - Len(log) + i
  BY <1>1 DEF TypeInv, LogIds
<1>3. i \in Nat /\ log[i].id \in 1 .. born
  BY <1>1, <1>2
<1>4. Idx(log[i].id) = i
  BY <1>1, <1>2 DEF Idx
<1>5. QED
  BY <1>2, <1>3, <1>4

(* The steps of a run in the log.                                          *)
LEMMA StepsAre ==
  ASSUME log \in Seq(Event), NEW run, NEW s
  PROVE  s \in StepsOf(log, run) <=> \E i \in DOMAIN log : s = log[i].id /\ log[i].run = run
BY DEF StepsOf, ToSet

(* What a page that has just connected shows.                              *)
LEMMA ConnectShows ==
  ASSUME TypeInv, NEW c \in Pages, NEW from \in Conns, Connect(c, from)
  PROVE  LET live == LiveRun(log) IN
         /\ conn[c] = "new" /\ conn[from] # "open" /\ log \in Seq(Event)
         /\ page'[c].cur = IF live = NoRun THEN page[from].cur ELSE live
         /\ page'[c].rail = IF live = NoRun THEN {} ELSE StepsOf(log, live)
         /\ page'[c].version = IF changes = 0 THEN page[from].version ELSE changes
         /\ newest'[c] = born /\ overtaken'[c] = overtaken[c] /\ wiped'[c] = wiped[c]
         /\ UNCHANGED <<log, born, feed, changes, lastReplay>>
         /\ \A h, i : ~AheadIn(feed, h, c, i)
<1>1. /\ conn[c] = "new" /\ conn[from] # "open" /\ log \in Seq(Event)
      /\ UNCHANGED <<log, born, feed, changes, lastReplay, overtaken, wiped>>
  BY DEF Connect, files, memory, TypeInv, TypeOK
<1>2. page'[c] = Joined(page[from], log)
  BY DEF Connect, Pages
<1>3. newest'[c] = born
  BY DEF Connect, Pages, TypeInv, TypeOK
<1>4. \A h, i : ~AheadIn(feed, h, c, i)
  BY <1>1 DEF TypeInv, Registration, AheadIn, Ahead
<1>5. QED
  BY <1>1, <1>2, <1>3, <1>4 DEF Joined

(* What a page without a connection shows.                                 *)
LEMMA ClosedShows ==
  ASSUME TypeInv, [Next]_vars, RailInv, NEW c \in Pages, conn'[c] # "open"
  PROVE  page'[c].rail = {} /\ page'[c].version = 0
<1>1. CASE page'[c] = FreshPage
  BY <1>1 DEF FreshPage
<1>2. CASE page'[c] = Forgotten(page[c])
  BY <1>2 DEF Forgotten, FreshPage
<1>3. CASE page'[c] = page[c] /\ conn[c] # "open"
  BY <1>3 DEF RailInv
<1>4. QED
  BY <1>1, <1>2, <1>3, StepClosed DEF Pages

(* No step puts another session on a rail.                                 *)
LEMMA RailStep ==
  ASSUME TypeInv, [Next]_vars, BatchInv, RailInv
  PROVE  RailInv'
<1> SUFFICES ASSUME NEW c \in Pages, conn'[c] = "open", NEW s \in page'[c].rail
             PROVE  /\ Idx(s)' \in DOMAIN log'
                    /\ page'[c].cur # NoRun => log'[Idx(s)'].run = page'[c].cur
  <2>1. ASSUME NEW c \in Pages, conn'[c] # "open"
        PROVE  page'[c].rail = {} /\ page'[c].version = 0
    BY <2>1, ClosedShows
  <2>2. QED
    BY <2>1, Zenon DEF RailInv
<1>0. c \in Conns /\ log \in Seq(Event) /\ page[c] \in Page
  BY DEF Pages, TypeInv, TypeOK
<1>1. ASSUME s \in page[c].rail
      PROVE  /\ Idx(s) \in DOMAIN log
             /\ page[c].cur # NoRun => log[Idx(s)].run = page[c].cur
  BY <1>1 DEF RailInv
<1>2. ASSUME NEW a \in Arrivals, Ingest(a[1], a[2])
      PROVE  /\ Idx(s)' \in DOMAIN log'
             /\ page'[c].cur # NoRun => log'[Idx(s)'].run = page'[c].cur
  <2>1. /\ page' = page /\ Idx(s)' = Idx(s)
        /\ \A i \in DOMAIN log : i \in DOMAIN log' /\ log'[i] = log[i]
    BY <1>2, IngestLog
  <2>2. QED
    BY <1>1, <2>1
<1>3. ASSUME NEW h \in DOMAIN feed, Sent(c, h)
      PROVE  /\ Idx(s)' \in DOMAIN log'
             /\ page'[c].cur # NoRun => log'[Idx(s)'].run = page'[c].cur
  <2>m. PICK m : m = feed[h].batch[feed[h].next]
    OBVIOUS
  <2>1. /\ m \in Message /\ page'[c] = Shown(page[c], m)
        /\ Idx(h) \in DOMAIN log
        /\ m.type = "step" => m.id = h /\ m.run = log[Idx(h)].run
    BY <1>3, <2>m, SentMessage
  <2>2. log' = log /\ Idx(s)' = Idx(s)
    BY <1>3 DEF Sent, Idx
  <2>3. CASE m.type = "session_open" \/ m.type = "state_replay"
    <3>1. page'[c].rail = {}
      BY <1>0, <2>1, <2>3, ShownIs
    <3>2. QED
      BY <3>1
  <2>4. CASE m.type = "step"
    <3>1. /\ page'[c].cur = page[c].cur
          /\ page'[c].rail = IF page[c].cur \in {NoRun, m.run}
                             THEN page[c].rail \cup {m.id} ELSE page[c].rail
      <4>1. /\ Shown(page[c], m).cur = page[c].cur
            /\ Shown(page[c], m).rail = IF page[c].cur \in {NoRun, m.run}
                                        THEN page[c].rail \cup {m.id} ELSE page[c].rail
        BY <1>0, <2>1, <2>4, ShownIs
      <4>2. QED
        BY <2>1, <4>1
    <3>2. CASE s \in page[c].rail
      BY <1>1, <2>2, <3>1, <3>2
    <3>3. CASE s \notin page[c].rail
      <4>1. s = h /\ page[c].cur \in {NoRun, m.run}
        BY <2>1, <2>4, <3>1, <3>3
      <4>2. QED
        BY <2>1, <2>2, <2>4, <3>1, <4>1
    <3>4. QED
      BY <3>2, <3>3
  <2>5. CASE m.type \notin {"session_open", "step", "state_replay"}
    <3>1. page'[c].cur = page[c].cur /\ page'[c].rail = page[c].rail
      BY ZenonT(30), <1>0, <2>1, <2>5, ShownIs
    <3>2. QED
      BY <1>1, <2>2, <3>1
  <2>6. QED
    BY <2>3, <2>4, <2>5
<1>4. ASSUME NEW from \in Conns, Connect(c, from)
      PROVE  /\ Idx(s)' \in DOMAIN log'
             /\ page'[c].cur # NoRun => log'[Idx(s)'].run = page'[c].cur
  <2>1. /\ LiveRun(log) # NoRun /\ page'[c].cur = LiveRun(log)
        /\ s \in StepsOf(log, LiveRun(log)) /\ log' = log /\ born' = born
    BY <1>4, ConnectShows
  <2>2. PICK i \in DOMAIN log : s = log[i].id /\ log[i].run = LiveRun(log)
    BY <1>0, <2>1, StepsAre
  <2>3. Idx(s) = i /\ Idx(s)' = Idx(s)
    BY <2>1, <2>2, IdxOf DEF Idx
  <2>4. QED
    BY <2>1, <2>2, <2>3
<1>5. ASSUME Quiet(c)
      PROVE  /\ Idx(s)' \in DOMAIN log'
             /\ page'[c].cur # NoRun => log'[Idx(s)'].run = page'[c].cur
  <2>1. page'[c] = page[c] /\ log' = log /\ Idx(s)' = Idx(s)
    BY <1>5 DEF Quiet, Idx
  <2>2. QED
    BY <1>1, <2>1
<1>6. QED
  BY <1>0, <1>2, <1>3, <1>4, <1>5, StepFor

(* No step shows a change log that is not written.                         *)
LEMMA VersionStep ==
  ASSUME TypeInv, TypeInv', [Next]_vars, BatchInv, RailInv, VersionInv
  PROVE  VersionInv'
<1>0. changes \in Nat /\ changes' \in Nat
  BY FeedAssumption DEF TypeInv, TypeOK
<1>1. changes' >= changes
  <2>1. ASSUME NEW a \in Arrivals, Ingest(a[1], a[2]) PROVE changes' >= changes
    BY <1>0, <2>1 DEF Ingest, files
  <2>2. ASSUME Restart PROVE changes' >= changes
    BY <1>0, <2>2 DEF Restart, files
  <2>3. QED
    BY <2>1, <2>2, FeedStep
<1>2. ASSUME NEW c \in Pages PROVE page'[c].version <= changes'
  <2>0. c \in Conns /\ page[c] \in Page /\ page[c].version \in Nat /\ page[c].version <= changes
    <3>1. c \in Conns /\ page[c] \in Page
      BY DEF Pages, TypeInv, TypeOK
    <3>2. QED
      BY <3>1, FeedAssumption DEF Page, VersionInv
  <2>1. CASE conn'[c] # "open"
    BY <1>0, <2>1, ClosedShows
  <2>2. ASSUME NEW a \in Arrivals, Ingest(a[1], a[2]) PROVE page'[c].version <= changes'
    BY <1>0, <1>1, <2>0, <2>2 DEF Ingest
  <2>3. ASSUME NEW h \in DOMAIN feed, Sent(c, h) PROVE page'[c].version <= changes'
    <3>m. PICK m : m = feed[h].batch[feed[h].next]
      OBVIOUS
    <3>1. /\ m \in Message /\ page'[c] = Shown(page[c], m)
          /\ feed[h].next \in DOMAIN feed[h].batch
      BY <2>3, <3>m, SentMessage
    <3>2. m.type = "state_replay" => m.version <= changes /\ m.version \in Nat
      BY <3>m, <3>1, MessageFields, FeedAssumption DEF VersionInv
    <3>3. \/ page'[c].version = 0
          \/ page'[c].version = page[c].version
          \/ m.type = "state_replay" /\ page'[c].version = m.version
      <4>1. m.type = "session_open" => Shown(page[c], m).version = 0
        BY <2>0, <3>1, ShownIs
      <4>2. m.type = "state_replay" =>
               Shown(page[c], m).version = IF m.version = 0 THEN page[c].version ELSE m.version
        BY <2>0, <3>1, ShownIs
      <4>3. m.type \notin {"session_open", "state_replay"} =>
               Shown(page[c], m).version = page[c].version
        BY <2>0, <3>1, ShownIs
      <4>4. QED
        BY <3>1, <4>1, <4>2, <4>3
    <3>4. QED
      BY <1>0, <1>1, <2>0, <3>2, <3>3
  <2>4. ASSUME NEW from \in Conns, Connect(c, from) PROVE page'[c].version <= changes'
    <3>1. /\ page'[c].version = (IF changes = 0 THEN page[from].version ELSE changes)
          /\ conn[from] # "open" /\ changes' = changes
      BY <2>4, ConnectShows
    <3>2. from \in Pages
      BY <2>4 DEF Connect, Pages
    <3>3. page[from].version = 0
      BY <3>1, <3>2 DEF RailInv
    <3>4. QED
      BY <1>0, <3>1, <3>3
  <2>5. ASSUME Quiet(c) PROVE page'[c].version <= changes'
    BY <1>0, <1>1, <2>0, <2>5 DEF Quiet
  <2>6. QED
    BY <2>0, <2>1, <2>2, <2>3, <2>4, <2>5, StepFor
<1>3. ASSUME NEW h \in DOMAIN feed', NEW i \in DOMAIN feed'[h].batch,
             feed'[h].batch[i].type = "state_replay"
      PROVE  feed'[h].batch[i].version <= changes'
  <2>1. ASSUME h \in DOMAIN feed, feed'[h].batch = feed[h].batch
        PROVE  feed'[h].batch[i].version <= changes'
    <3>1. feed[h].batch[i] \in Message
      <4>1. feed[h] \in Broadcast
        BY <2>1 DEF TypeInv, TypeOK
      <4>2. feed[h].batch \in Seq(Message)
        BY <4>1 DEF Broadcast
      <4>3. QED
        BY <1>3, <2>1, <4>2
    <3>2. feed[h].batch[i].version \in Nat /\ feed[h].batch[i].version <= changes
      BY <1>3, <2>1, <3>1, MessageFields, FeedAssumption DEF VersionInv
    <3>3. QED
      BY <1>0, <1>1, <2>1, <3>2
  <2>2. ASSUME NEW a \in Arrivals, Ingest(a[1], a[2])
        PROVE  feed'[h].batch[i].version <= changes'
    <3> DEFINE e == Arrived(a[1], a[2])
    <3>1. PICK order \in Orders(NewAlerts) : Started(BatchOf(e, order))
      BY <2>2, IngestStarts
    <3>2. alerts \in 0 .. MaxAlerts /\ changes \in 0 .. MaxChanges /\ e \in Event
      BY <2>2, IngestLog DEF TypeInv, TypeOK
    <3>3. CASE h \in DOMAIN feed
      BY <2>1, <3>1, <3>3 DEF Started
    <3>4. CASE h = born + 1
      <4>1. feed'[h].batch = BatchOf(e, order)
        BY <1>3, <3>1, <3>4 DEF Started
      <4>2. feed'[h].batch[i].version = changes
        BY <1>3, <3>2, <4>1, BatchOfEvent
      <4>3. QED
        BY <1>0, <1>1, <4>2
    <3>5. QED
      BY <1>3, <3>1, <3>3, <3>4 DEF Started
  <2>3. ASSUME SameMessages(feed, feed') PROVE feed'[h].batch[i].version <= changes'
    BY <1>3, <2>1, <2>3 DEF SameMessages
  <2>4. ~Restart
    BY <1>3 DEF Restart
  <2>5. QED
    BY <2>2, <2>3, <2>4, FeedStep
<1>4. QED
  BY <1>2, <1>3, Zenon DEF VersionInv

(* What comes after a message that is ahead is ahead too.                  *)
LEMMA AheadUp ==
  ASSUME NEW f, NEW h, NEW c, NEW i, AheadIn(f, h, c, i), f[h] \in Broadcast,
         NEW k \in 1 .. Len(BatchFor(f[h], c)), i <= k
  PROVE  AheadIn(f, h, c, k)
<1>1. Len(BatchFor(f[h], c)) \in Nat
  BY BatchForTyped
<1>2. f[h].next \in Nat /\ i \in Nat /\ k \in Nat
  BY <1>1 DEF AheadIn, Ahead, Broadcast
<1>3. QED
  BY <1>2 DEF AheadIn, Ahead

(* What arrives of an event of a run is ahead of every page.               *)
LEMMA IngestComes ==
  ASSUME TypeInv, NEW a \in Arrivals, Ingest(a[1], a[2]), NEW c \in Pages, conn[c] = "open"
  PROVE  \E batch :
            /\ born + 1 \notin DOMAIN feed
            /\ \A h \in DOMAIN feed : h \in DOMAIN feed' /\ feed'[h] = feed[h]
            /\ \A h \in DOMAIN feed' : h \in DOMAIN feed \/ h = born + 1
            /\ OfEvent(batch, Arrived(a[1], a[2]))
            /\ \A i : i \in DOMAIN batch => AheadIn(feed', born + 1, c, i)
            /\ batch # <<>> => born + 1 \in DOMAIN feed'
            /\ born + 1 \in DOMAIN feed' => feed'[born + 1].batch = batch
            /\ \A i \in DOMAIN batch :
                  batch[i].type = "state_replay" =>
                     ReplayDue(Arrived(a[1], a[2])) /\ batch[i].version = changes
            /\ ReplayDue(Arrived(a[1], a[2])) => HasReplay(batch) /\ 1 \in DOMAIN batch
<1> DEFINE e == Arrived(a[1], a[2])
<1>1. PICK order \in Orders(NewAlerts) : Started(BatchOf(e, order)) /\ BatchOf(e, order) \in Seq(Message)
  BY IngestStarts
<1>2. PICK batch : batch = BatchOf(e, order)
  OBVIOUS
<1>3. alerts \in 0 .. MaxAlerts /\ changes \in 0 .. MaxChanges /\ e \in Event
  BY IngestLog DEF TypeInv, TypeOK
<1>4. /\ OfEvent(batch, e)
      /\ \A i \in DOMAIN batch :
            batch[i].type = "state_replay" => ReplayDue(e) /\ batch[i].version = changes
      /\ ReplayDue(e) => HasReplay(batch)
  BY <1>2, <1>3, BatchOfEvent
<1>5. batch \in Seq(Message) /\ DOMAIN batch = 1 .. Len(batch) /\ Len(batch) \in Nat
  BY <1>1, <1>2
<1>6. Started(batch)
  BY <1>1, <1>2
<1>7. c \in clients /\ c \notin SessionConns
  BY DEF Pages, TypeInv, Registration
<1>8. ASSUME NEW i \in DOMAIN batch PROVE AheadIn(feed', born + 1, c, i)
  <2>1. batch # <<>>
    BY <1>5, <1>8
  <2>2. c \in Recipients(batch)
    BY <1>7, <2>1 DEF Recipients
  <2>3. QED
    BY <1>5, <1>6, <1>7, <1>8, <2>2 DEF Started
<1>9. HasReplay(batch) => 1 \in DOMAIN batch
  BY <1>5 DEF HasReplay
<1>10. batch # <<>> => born + 1 \in DOMAIN feed'
  <2>1. batch # <<>> => 1 \in DOMAIN batch
    BY <1>5, EmptySeq
  <2>2. QED
    BY <1>8, <2>1 DEF AheadIn
<1>11. QED
  BY <1>4, <1>6, <1>8, <1>9, <1>10 DEF Started

(* No step takes from a page what is still to come of the newer events.     *)
LEMMA ComingStep ==
  ASSUME TypeInv, TypeInv', [Next]_vars, BatchInv, ComingInv
  PROVE  ComingInv'
<1> SUFFICES ASSUME NEW c \in Pages, conn'[c] = "open"
             PROVE  /\ \A i \in DOMAIN log' : log'[i].run # Cli /\ log'[i].id > newest'[c] =>
                          AheadIn(feed', log'[i].id, c, 1)
                    /\ \A h \in DOMAIN feed' : AheadIn(feed', h, c, 1) => newest'[c] # h
                    /\ wiped'[c] <= newest'[c]
  BY Zenon DEF ComingInv
<1>0. /\ c \in Conns /\ born \in Nat /\ newest[c] \in 0 .. born /\ wiped[c] \in 0 .. born
      /\ \A h \in DOMAIN feed : h \in 1 .. born
  BY FeedAssumption DEF Pages, TypeInv, TypeOK
<1>c. conn[c] = "open" =>
        /\ \A i \in DOMAIN log : log[i].run # Cli /\ log[i].id > newest[c] =>
              AheadIn(feed, log[i].id, c, 1)
        /\ \A h \in DOMAIN feed : AheadIn(feed, h, c, 1) => newest[c] # h
        /\ wiped[c] <= newest[c]
  BY DEF ComingInv
<1>1. ASSUME NEW a \in Arrivals, Ingest(a[1], a[2])
      PROVE  /\ \A i \in DOMAIN log' : log'[i].run # Cli /\ log'[i].id > newest'[c] =>
                   AheadIn(feed', log'[i].id, c, 1)
             /\ \A h \in DOMAIN feed' : AheadIn(feed', h, c, 1) => newest'[c] # h
             /\ wiped'[c] <= newest'[c]
  <2>e. PICK e : e = Arrived(a[1], a[2])
    OBVIOUS
  <2>1. /\ conn[c] = "open" /\ UNCHANGED <<newest, wiped>>
        /\ e \in Event /\ e.id = born + 1
        /\ DOMAIN log = 1 .. Len(log) /\ DOMAIN log' = 1 .. Len(log) + 1 /\ Len(log) \in Nat
        /\ \A i \in DOMAIN log : log'[i] = log[i]
        /\ log'[Len(log) + 1] = e
    BY <1>1, <2>e, IngestLog
  <2>2. PICK batch :
            /\ \A h \in DOMAIN feed : h \in DOMAIN feed' /\ feed'[h] = feed[h]
            /\ \A h \in DOMAIN feed' : h \in DOMAIN feed \/ h = born + 1
            /\ OfEvent(batch, e)
            /\ \A i : i \in DOMAIN batch => AheadIn(feed', born + 1, c, i)
            /\ born + 1 \in DOMAIN feed' => feed'[born + 1].batch = batch
            /\ batch # <<>> => born + 1 \in DOMAIN feed'
    BY <1>1, <2>1, <2>e, IngestComes
  <2>3. ASSUME NEW i \in DOMAIN log', log'[i].run # Cli, log'[i].id > newest'[c]
        PROVE  AheadIn(feed', log'[i].id, c, 1)
    <3>1. CASE i \in DOMAIN log
      <4>1. AheadIn(feed, log[i].id, c, 1)
        BY <1>c, <2>1, <2>3, <3>1
      <4>2. QED
        BY <2>1, <2>2, <3>1, <4>1 DEF AheadIn
    <3>2. CASE i = Len(log) + 1
      <4>1. StepPos(e) \in DOMAIN batch /\ log'[i].id = born + 1
        BY <2>1, <2>2, <2>3, <3>2 DEF OfEvent
      <4>2. feed'[born + 1].batch = batch /\ feed'[born + 1].batch \in Seq(Message)
        <5>1. born + 1 \in DOMAIN feed'
          BY <2>2, <4>1 DEF AheadIn
        <5>2. feed'[born + 1] \in Broadcast
          BY <5>1 DEF TypeInv, TypeOK
        <5>3. QED
          BY <2>2, <5>1, <5>2 DEF Broadcast
      <4>3. 1 \in DOMAIN batch
        BY <4>1, <4>2
      <4>4. QED
        BY <2>2, <4>1, <4>3
    <3>3. QED
      BY <2>1, <2>3, <3>1, <3>2
  <2>4. ASSUME NEW h \in DOMAIN feed', AheadIn(feed', h, c, 1) PROVE newest'[c] # h
    <3>1. CASE h = born + 1
      BY <1>0, <2>1, <3>1
    <3>2. CASE h \in DOMAIN feed
      BY <1>c, <2>1, <2>2, <2>4, <3>2 DEF AheadIn
    <3>3. QED
      BY <2>2, <2>4, <3>1, <3>2
  <2>5. QED
    BY <1>c, <2>1, <2>3, <2>4
<1>2. ASSUME NEW h \in DOMAIN feed, Sent(c, h)
      PROVE  /\ \A i \in DOMAIN log' : log'[i].run # Cli /\ log'[i].id > newest'[c] =>
                   AheadIn(feed', log'[i].id, c, 1)
             /\ \A k \in DOMAIN feed' : AheadIn(feed', k, c, 1) => newest'[c] # k
             /\ wiped'[c] <= newest'[c]
  <2>1. /\ conn[c] = "open" /\ log' = log
        /\ newest'[c] = (IF h > newest[c] THEN h ELSE newest[c])
        /\ wiped'[c] \in {h, wiped[c]}
        /\ feed[h].next >= 1 /\ h \in 1 .. born
        /\ \A k, i : AheadIn(feed', k, c, i) <=>
                        AheadIn(feed, k, c, i) /\ ~(k = h /\ i <= feed[h].next)
    BY <1>2 DEF Sent
  <2>2. ASSUME NEW i \in DOMAIN log, log[i].run # Cli, log[i].id > newest'[c]
        PROVE  AheadIn(feed', log[i].id, c, 1)
    <3>1. log[i].id \in 1 .. born
      BY IdxOf
    <3>2. log[i].id > newest[c] /\ log[i].id # h
      BY <1>0, <2>1, <2>2, <3>1
    <3>3. AheadIn(feed, log[i].id, c, 1)
      BY <1>c, <2>1, <2>2, <3>2
    <3>4. QED
      BY <2>1, <3>2, <3>3
  <2>3. ASSUME NEW k \in DOMAIN feed', AheadIn(feed', k, c, 1) PROVE newest'[c] # k
    <3>1. AheadIn(feed, k, c, 1) /\ k # h
      BY <2>1, <2>3
    <3>2. newest[c] # k
      BY <1>c, <2>1, <3>1 DEF AheadIn
    <3>3. QED
      BY <2>1, <3>1, <3>2
  <2>4. wiped'[c] <= newest'[c]
    BY <1>0, <1>c, <2>1
  <2>5. QED
    BY <2>1, <2>2, <2>3, <2>4
<1>3. ASSUME NEW from \in Conns, Connect(c, from)
      PROVE  /\ \A i \in DOMAIN log' : log'[i].run # Cli /\ log'[i].id > newest'[c] =>
                   AheadIn(feed', log'[i].id, c, 1)
             /\ \A h \in DOMAIN feed' : AheadIn(feed', h, c, 1) => newest'[c] # h
             /\ wiped'[c] <= newest'[c]
  <2>1. /\ log' = log /\ feed' = feed /\ newest'[c] = born /\ wiped'[c] = wiped[c]
        /\ \A h, i : ~AheadIn(feed, h, c, i)
    BY <1>3, ConnectShows
  <2>2. \A i \in DOMAIN log : ~(log[i].id > born)
    BY <1>0, IdxOf
  <2>3. QED
    BY <1>0, <2>1, <2>2
<1>4. ASSUME Quiet(c)
      PROVE  /\ \A i \in DOMAIN log' : log'[i].run # Cli /\ log'[i].id > newest'[c] =>
                   AheadIn(feed', log'[i].id, c, 1)
             /\ \A h \in DOMAIN feed' : AheadIn(feed', h, c, 1) => newest'[c] # h
             /\ wiped'[c] <= newest'[c]
  <2>1. /\ conn[c] = "open" /\ log' = log /\ newest'[c] = newest[c] /\ wiped'[c] = wiped[c]
        /\ \A k, i : AheadIn(feed', k, c, i) <=> AheadIn(feed, k, c, i)
    BY <1>4 DEF Quiet
  <2>2. QED
    BY <1>c, <2>1 DEF AheadIn
<1>5. QED
  BY <1>0, <1>1, <1>2, <1>3, <1>4, StepFor

(* A page that is in order after a step was in order before it; what it was *)
(* sent is of the newest event it knows.                                   *)
LEMMA OrderlyBefore ==
  ASSUME TypeInv, NEW c \in Pages, Orderly(feed', newest', overtaken', c)
  PROVE  /\ \A a \in Arrivals : Ingest(a[1], a[2]) => Orderly(feed, newest, overtaken, c)
         /\ \A h \in DOMAIN feed : Sent(c, h) =>
               /\ Orderly(feed, newest, overtaken, c)
               /\ newest'[c] = h /\ newest[c] <= h
               /\ \A k, i : AheadIn(feed', k, c, i) => k >= h
         /\ Quiet(c) => Orderly(feed, newest, overtaken, c)
<1>0. /\ c \in Conns /\ born \in Nat /\ newest[c] \in 0 .. born /\ overtaken[c] \in BOOLEAN
      /\ \A h \in DOMAIN feed : h \in 1 .. born
  BY FeedAssumption DEF Pages, TypeInv, TypeOK
<1>b. ASSUME NEW k, NEW i, AheadIn(feed, k, c, i)
      PROVE  k \in DOMAIN feed /\ i \in DOMAIN feed[k].batch
  BY <1>b, PageBatch DEF AheadIn, Ahead
<1>o. /\ ~overtaken'[c]
      /\ \A k \in DOMAIN feed' : \A i \in DOMAIN feed'[k].batch :
            AheadIn(feed', k, c, i) => k >= newest'[c]
  BY Zenon DEF Orderly
<1>1. ASSUME NEW a \in Arrivals, Ingest(a[1], a[2]) PROVE Orderly(feed, newest, overtaken, c)
  <2>1. /\ newest' = newest /\ overtaken' = overtaken
        /\ \A h \in DOMAIN feed : h \in DOMAIN feed' /\ feed'[h] = feed[h]
    BY <1>1, IngestLog, IngestStarts DEF Started
  <2>2. QED
    BY <1>o, <2>1 DEF Orderly, AheadIn
<1>2. ASSUME NEW h \in DOMAIN feed, Sent(c, h)
      PROVE  /\ Orderly(feed, newest, overtaken, c)
             /\ newest'[c] = h /\ newest[c] <= h
             /\ \A k, i : AheadIn(feed', k, c, i) => k >= h
  <2>1. /\ overtaken'[c] = (overtaken[c] \/ h < newest[c])
        /\ newest'[c] = IF h > newest[c] THEN h ELSE newest[c]
        /\ SameMessages(feed, feed')
        /\ \A k, i : AheadIn(feed', k, c, i) <=>
                        AheadIn(feed, k, c, i) /\ ~(k = h /\ i <= feed[h].next)
    BY <1>2 DEF Sent
  <2>2. ~(overtaken[c] \/ h < newest[c])
    BY <1>o, <2>1, Zenon
  <2>3. ~overtaken[c] /\ newest[c] <= h /\ newest'[c] = h
    BY <1>0, <2>1, <2>2
  <2>4. ASSUME NEW k, NEW i, AheadIn(feed', k, c, i) PROVE k >= h
    <3>1. k \in DOMAIN feed' /\ k \in DOMAIN feed /\ feed'[k].batch = feed[k].batch
      BY <2>1, <2>4 DEF AheadIn, SameMessages
    <3>2. i \in DOMAIN feed[k].batch
      BY <1>b, <2>1, <2>4
    <3>3. QED
      BY <1>o, <2>3, <2>4, <3>1, <3>2
  <2>5. ASSUME NEW k \in DOMAIN feed, NEW i \in DOMAIN feed[k].batch, AheadIn(feed, k, c, i)
        PROVE  k >= newest[c]
    <3>1. CASE k = h
      BY <1>0, <2>3, <3>1
    <3>2. CASE k # h
      <4>1. k >= h
        BY <2>1, <2>4, <2>5, <3>2
      <4>2. QED
        BY <1>0, <2>3, <4>1
    <3>3. QED
      BY <3>1, <3>2
  <2>6. QED
    BY <2>3, <2>4, <2>5, Zenon DEF Orderly
<1>3. ASSUME Quiet(c) PROVE Orderly(feed, newest, overtaken, c)
  <2>1. /\ overtaken'[c] = overtaken[c] /\ newest'[c] = newest[c]
        /\ SameMessages(feed, feed')
        /\ \A k, i : AheadIn(feed', k, c, i) <=> AheadIn(feed, k, c, i)
    BY <1>3 DEF Quiet
  <2>2. ASSUME NEW k \in DOMAIN feed, NEW i \in DOMAIN feed[k].batch, AheadIn(feed, k, c, i)
        PROVE  k >= newest[c]
    <3>1. k \in DOMAIN feed' /\ feed'[k].batch = feed[k].batch
      BY <2>1, <2>2 DEF AheadIn, SameMessages
    <3>2. QED
      BY <1>o, <2>1, <2>2, <3>1
  <2>3. QED
    BY <1>o, <2>1, <2>2, Zenon DEF Orderly
<1>4. QED
  BY <1>1, <1>2, <1>3

(* Ids are in the order of the log.                                        *)
LEMMA IdOrder ==
  ASSUME TypeInv, NEW i \in DOMAIN log, NEW j \in DOMAIN log
  PROVE  /\ i <= j <=> log[i].id <= log[j].id
         /\ i = j <=> log[i].id = log[j].id
<1>1. /\ i \in Nat /\ j \in Nat /\ born \in Nat /\ Len(log) \in Nat
      /\ log[i].id = born - Len(log) + i /\ log[j].id = born - Len(log) + j
  BY IdxOf, LogShort
<1>2. QED
  BY <1>1

(* The session that is live after an event was live before it, or has been  *)
(* opened by it.                                                           *)
LEMMA LiveGrows ==
  ASSUME TypeInv, NEW a \in Arrivals, Ingest(a[1], a[2]),
         NEW o \in DOMAIN log', LastOpen(log', o), ~ClosedIn(log', o)
  PROVE  \/ o = Len(log) + 1
         \/ /\ o \in DOMAIN log /\ log'[o] = log[o]
            /\ LastOpen(log, o) /\ ~ClosedIn(log, o)
<1>1. /\ DOMAIN log = 1 .. Len(log) /\ DOMAIN log' = 1 .. Len(log) + 1 /\ Len(log) \in Nat
      /\ \A i \in DOMAIN log : log'[i] = log[i]
  BY IngestLog
<1>2. ASSUME o \in DOMAIN log
      PROVE  LastOpen(log, o) /\ ~ClosedIn(log, o)
  <2>1. \A i \in DOMAIN log : i \in Opens(log) <=> i \in Opens(log')
    BY <1>1 DEF Opens
  <2>2. LastOpen(log, o)
    BY <1>2, <2>1 DEF LastOpen, Opens
  <2>3. ~ClosedIn(log, o)
    BY <1>1, <1>2 DEF ClosedIn
  <2>4. QED
    BY <2>2, <2>3
<1>3. QED
  BY <1>1, <1>2

(* The first of the messages for a page of an event in the log.            *)
LEMMA FirstAhead ==
  ASSUME TypeInv, BatchInv, NEW c \in Pages, NEW i \in DOMAIN log, log[i].run # Cli,
         AheadIn(feed, log[i].id, c, 1)
  PROVE  /\ log[i].id \in DOMAIN feed /\ 1 \in DOMAIN feed[log[i].id].batch
         /\ StepPos(log[i]) \in DOMAIN feed[log[i].id].batch
         /\ AheadIn(feed, log[i].id, c, StepPos(log[i]))
<1>1. PICK h : h = log[i].id
  OBVIOUS
<1>2. /\ h \in DOMAIN feed /\ Idx(h) = i /\ feed[h] \in Broadcast
      /\ BatchFor(feed[h], c) = feed[h].batch
      /\ DOMAIN feed[h].batch = 1 .. Len(feed[h].batch)
  <2>1. h \in DOMAIN feed
    BY <1>1 DEF AheadIn
  <2>2. QED
    BY <1>1, <2>1, IdxOf, PageBatch DEF TypeInv, TypeOK
<1>3. StepPos(log[i]) \in DOMAIN feed[h].batch
  BY <1>2 DEF BatchInv, OfEvent
<1>4. 1 \in DOMAIN feed[h].batch
  BY <1>1, <1>2 DEF AheadIn, Ahead
<1>5. AheadIn(feed, h, c, StepPos(log[i]))
  <2>1. StepPos(log[i]) \in 1 .. Len(BatchFor(feed[h], c)) /\ 1 <= StepPos(log[i])
    BY <1>2, <1>3 DEF StepPos
  <2>2. QED
    BY <1>1, <1>2, <2>1, AheadUp
<1>6. QED
  BY <1>1, <1>2, <1>3, <1>4, <1>5

(* A page that is in order keeps up with the live session.                 *)
LEMMA SessionStep ==
  ASSUME TypeInv, TypeInv', [Next]_vars, BatchInv, ComingInv, SessionInv
  PROVE  SessionInv'
<1> SUFFICES ASSUME NEW c \in Pages, conn'[c] = "open",
                    Orderly(feed', newest', overtaken', c),
                    NEW o \in DOMAIN log', LastOpen(log', o), ~ClosedIn(log', o),
                    log'[o].id <= newest'[c]
             PROVE  page'[c].cur = log'[o].run
  BY Zenon DEF SessionInv
<1>0. /\ c \in Conns /\ born \in Nat /\ newest[c] \in 0 .. born /\ log \in Seq(Event)
      /\ page[c] \in Page
  BY FeedAssumption DEF Pages, TypeInv, TypeOK
<1>s. conn[c] = "open" /\ Orderly(feed, newest, overtaken, c) =>
        \A i \in DOMAIN log :
            LastOpen(log, i) /\ ~ClosedIn(log, i) /\ log[i].id <= newest[c] =>
                page[c].cur = log[i].run
  BY Zenon DEF SessionInv
<1>1. ASSUME NEW a \in Arrivals, Ingest(a[1], a[2]) PROVE page'[c].cur = log'[o].run
  <2>1. /\ conn[c] = "open" /\ newest' = newest /\ page' = page
        /\ log'[Len(log) + 1] = Arrived(a[1], a[2]) /\ Arrived(a[1], a[2]).id = born + 1
    BY <1>1, IngestLog
  <2>2. Orderly(feed, newest, overtaken, c)
    BY <1>1, OrderlyBefore
  <2>3. o # Len(log) + 1
    BY <1>0, <2>1
  <2>4. o \in DOMAIN log /\ log'[o] = log[o] /\ LastOpen(log, o) /\ ~ClosedIn(log, o)
    BY <1>1, <2>3, LiveGrows
  <2>5. QED
    BY <1>s, <2>1, <2>2, <2>4
<1>2. ASSUME NEW h \in DOMAIN feed, Sent(c, h) PROVE page'[c].cur = log'[o].run
  <2>m. PICK m : m = feed[h].batch[feed[h].next]
    OBVIOUS
  <2>1. /\ Orderly(feed, newest, overtaken, c) /\ newest'[c] = h /\ newest[c] <= h
        /\ \A k, i : AheadIn(feed', k, c, i) => k >= h
    BY <1>2, OrderlyBefore
  <2>2. /\ conn[c] = "open" /\ m \in Message /\ page'[c] = Shown(page[c], m)
        /\ Idx(h) \in DOMAIN log /\ log[Idx(h)].id = h /\ h \in 1 .. born
        /\ m.type = "session_open" =>
              log[Idx(h)].tier = "T0" /\ m.run = log[Idx(h)].run /\ m.run # Cli
        /\ \A i : AheadIn(feed, h, c, i) <=> i \in feed[h].next .. Len(feed[h].batch)
    BY <1>2, <2>m, SentMessage
  <2>3. /\ log' = log /\ feed[h].next >= 1
        /\ \A k, i : AheadIn(feed', k, c, i) <=>
                        AheadIn(feed, k, c, i) /\ ~(k = h /\ i <= feed[h].next)
    BY <1>2 DEF Sent
  <2>4. o \in DOMAIN log /\ LastOpen(log, o) /\ ~ClosedIn(log, o) /\ log[o].id <= h
    BY <2>1, <2>3
  <2>5. log[o].tier = "T0" /\ log[o].run # Cli /\ log[o].id \in 1 .. born
    BY <2>4, IdxOf DEF LastOpen, Opens
  <2>6. CASE m.type = "session_open"
    <3>1. Idx(h) \in Opens(log)
      BY <2>2, <2>6 DEF Opens
    <3>2. Idx(h) <= o
      BY <2>4, <3>1 DEF LastOpen
    <3>3. h <= log[o].id
      BY <2>2, <2>4, <3>2, IdOrder
    <3>4. h = log[o].id
      BY <2>2, <2>4, <2>5, <3>3
    <3>5. Idx(h) = o
      BY <2>2, <2>4, <3>4, IdOrder
    <3>6. page'[c].cur = m.run
      BY <1>0, <2>2, <2>6, ShownIs
    <3>7. QED
      BY <2>2, <2>3, <2>6, <3>5, <3>6
  <2>7. CASE m.type # "session_open"
    <3>1. page'[c].cur = page[c].cur
      <4>1. Shown(page[c], m).cur = page[c].cur
        BY <1>0, <2>2, <2>7, ShownIs
      <4>2. QED
        BY <2>2, <4>1
    <3>2. CASE log[o].id <= newest[c]
      BY <1>s, <2>1, <2>2, <2>3, <2>4, <3>1, <3>2
    <3>3. CASE ~(log[o].id <= newest[c])
      <4>1. AheadIn(feed, log[o].id, c, 1)
        BY <1>0, <2>2, <2>4, <2>5, <3>3 DEF ComingInv
      <4>2. log[o].id = h
        <5>1. ASSUME log[o].id # h PROVE FALSE
          <6>1. AheadIn(feed', log[o].id, c, 1)
            BY <2>3, <4>1, <5>1
          <6>2. log[o].id >= h
            BY <2>1, <6>1
          <6>3. QED
            BY <2>2, <2>4, <2>5, <5>1, <6>2
        <5>2. QED
          BY <5>1
      <4>3. Idx(h) = o
        BY <2>2, <2>4, <4>2, IdOrder
      <4>4. feed[h].next = 1
        <5>1. 1 \in feed[h].next .. Len(feed[h].batch)
          BY <2>2, <4>1, <4>2
        <5>2. feed[h].next \in Nat
          BY DEF TypeInv, TypeOK, Broadcast
        <5>3. QED
          BY <2>3, <5>1, <5>2
      <4>5. feed[h].batch[1].type = "session_open"
        BY <2>5, <4>3 DEF BatchInv, OfEvent
      <4>6. QED
        BY <2>m, <2>7, <4>4, <4>5
    <3>4. QED
      BY <3>2, <3>3
  <2>8. QED
    BY <2>6, <2>7
<1>3. ASSUME NEW from \in Conns, Connect(c, from) PROVE page'[c].cur = log'[o].run
  <2>1. /\ log' = log
        /\ page'[c].cur = IF LiveRun(log) = NoRun THEN page[from].cur ELSE LiveRun(log)
    BY <1>3, ConnectShows
  <2>2. LiveRun(log) = log[o].run /\ log[o].run \in Runs
    <3>1. LiveRun(log) = log[o].run
      BY <1>0, <2>1, LiveRunIs
    <3>2. log[o] \in Event /\ log[o].run # Cli
      BY <1>0, <2>1 DEF LastOpen, Opens
    <3>3. QED
      BY <3>1, <3>2 DEF Event
  <2>3. QED
    BY <2>1, <2>2, FeedAssumption
<1>4. ASSUME Quiet(c) PROVE page'[c].cur = log'[o].run
  <2>1. /\ conn[c] = "open" /\ log' = log /\ newest'[c] = newest[c] /\ page'[c] = page[c]
    BY <1>4 DEF Quiet
  <2>2. Orderly(feed, newest, overtaken, c)
    BY <1>4, OrderlyBefore
  <2>3. QED
    BY <1>s, <2>1, <2>2
<1>5. QED
  BY <1>0, <1>1, <1>2, <1>3, <1>4, StepFor

(* No step loses a page a step of the live session.                        *)
LEMMA StepsStep ==
  ASSUME TypeInv, TypeInv', [Next]_vars, BatchInv, BatchInv', ComingInv', SessionInv', StepsInv
  PROVE  StepsInv'
<1> SUFFICES ASSUME NEW c \in Pages, conn'[c] = "open",
                    Orderly(feed', newest', overtaken', c),
                    NEW o \in DOMAIN log', LastOpen(log', o), ~ClosedIn(log', o),
                    NEW j \in DOMAIN log', j >= o, log'[j].run = log'[o].run,
                    log'[j].id > wiped'[c]
             PROVE  \/ log'[j].id \in page'[c].rail
                    \/ AheadIn(feed', log'[j].id, c, StepPos(log'[j]))
  BY Zenon DEF StepsInv
<1>0. /\ c \in Conns /\ born \in Nat /\ newest[c] \in 0 .. born /\ log \in Seq(Event)
      /\ page[c] \in Page /\ wiped[c] \in 0 .. born
  BY FeedAssumption DEF Pages, TypeInv, TypeOK
<1>s. conn[c] = "open" /\ Orderly(feed, newest, overtaken, c) =>
        \A i \in DOMAIN log : LastOpen(log, i) /\ ~ClosedIn(log, i) =>
            \A k \in DOMAIN log :
                k >= i /\ log[k].run = log[i].run /\ log[k].id > wiped[c] =>
                    \/ log[k].id \in page[c].rail
                    \/ AheadIn(feed, log[k].id, c, StepPos(log[k]))
  BY Zenon DEF StepsInv
<1>r. log'[j].run # Cli
  BY DEF LastOpen, Opens
<1>1. ASSUME NEW a \in Arrivals, Ingest(a[1], a[2])
      PROVE  \/ log'[j].id \in page'[c].rail
             \/ AheadIn(feed', log'[j].id, c, StepPos(log'[j]))
  <2>e. PICK e : e = Arrived(a[1], a[2])
    OBVIOUS
  <2>1. /\ conn[c] = "open" /\ UNCHANGED <<page, newest, wiped>>
        /\ DOMAIN log = 1 .. Len(log) /\ DOMAIN log' = 1 .. Len(log) + 1 /\ Len(log) \in Nat
        /\ \A i \in DOMAIN log : log'[i] = log[i]
        /\ log'[Len(log) + 1] = e /\ e.id = born + 1
    BY <1>1, <2>e, IngestLog
  <2>2. PICK batch :
            /\ \A h \in DOMAIN feed : h \in DOMAIN feed' /\ feed'[h] = feed[h]
            /\ OfEvent(batch, e)
            /\ \A i : i \in DOMAIN batch => AheadIn(feed', born + 1, c, i)
    BY <1>1, <2>1, <2>e, IngestComes
  <2>3. CASE j = Len(log) + 1
    <3>1. StepPos(e) \in DOMAIN batch
      BY <1>r, <2>1, <2>2, <2>3 DEF OfEvent
    <3>2. QED
      BY <2>1, <2>2, <2>3, <3>1
  <2>4. CASE j # Len(log) + 1
    <3>1. j \in DOMAIN log /\ o # Len(log) + 1
      BY <2>1, <2>4
    <3>2. o \in DOMAIN log /\ log'[o] = log[o] /\ LastOpen(log, o) /\ ~ClosedIn(log, o)
      BY <1>1, <3>1, LiveGrows
    <3>3. Orderly(feed, newest, overtaken, c)
      BY <1>1, OrderlyBefore
    <3>4. \/ log[j].id \in page[c].rail
          \/ AheadIn(feed, log[j].id, c, StepPos(log[j]))
      BY <1>s, <2>1, <3>1, <3>2, <3>3
    <3>5. QED
      BY <2>1, <2>2, <3>1, <3>4 DEF AheadIn
  <2>5. QED
    BY <2>3, <2>4
<1>2. ASSUME NEW h \in DOMAIN feed, Sent(c, h)
      PROVE  \/ log'[j].id \in page'[c].rail
             \/ AheadIn(feed', log'[j].id, c, StepPos(log'[j]))
  <2>m. PICK m : m = feed[h].batch[feed[h].next]
    OBVIOUS
  <2>e. PICK e : e = log[Idx(h)]
    OBVIOUS
  <2>1. /\ Orderly(feed, newest, overtaken, c) /\ newest'[c] = h /\ newest[c] <= h
    BY <1>2, OrderlyBefore
  <2>2. /\ conn[c] = "open" /\ m \in Message /\ page'[c] = Shown(page[c], m)
        /\ Idx(h) \in DOMAIN log /\ e.id = h /\ h \in 1 .. born
        /\ m.type = "session_open" => feed[h].next = 1 /\ e.tier = "T0" /\ e.run # Cli
        /\ m.type = "step" => feed[h].next = StepPos(e) /\ m.id = h /\ m.run = e.run
        /\ \A i : AheadIn(feed, h, c, i) <=> i \in feed[h].next .. Len(feed[h].batch)
        /\ wiped'[c] = IF m.type = "state_replay" /\ h > wiped[c] THEN h ELSE wiped[c]
    BY <1>2, <2>m, <2>e, SentMessage
  <2>3. /\ log' = log
        /\ \A k, i : AheadIn(feed', k, c, i) <=>
                        AheadIn(feed, k, c, i) /\ ~(k = h /\ i <= feed[h].next)
    BY <1>2 DEF Sent
  <2>n. feed[h].next \in Nat /\ Len(feed[h].batch) \in Nat
    <3>1. feed[h] \in Broadcast /\ feed[h].batch \in Seq(Message)
      BY PageBatch DEF TypeInv, TypeOK
    <3>2. QED
      BY <3>1 DEF Broadcast
  <2>4. /\ o \in DOMAIN log /\ LastOpen(log, o) /\ ~ClosedIn(log, o)
        /\ j \in DOMAIN log /\ log[j].run = log[o].run /\ log[j].id > wiped[c]
        /\ log[j].id \in 1 .. born /\ log[o].id \in 1 .. born /\ log[o].id <= log[j].id
    <3>1. o \in DOMAIN log /\ j \in DOMAIN log
      BY <2>3
    <3>2. log[j].id \in 1 .. born /\ log[o].id \in 1 .. born /\ log[o].id <= log[j].id
      BY <3>1, IdxOf, IdOrder
    <3>3. log[j].id > wiped[c]
      BY <1>0, <2>2, <2>3, <3>2
    <3>4. QED
      BY <2>3, <3>1, <3>2, <3>3
  <2>5. \/ log[j].id \in page[c].rail
        \/ AheadIn(feed, log[j].id, c, StepPos(log[j]))
    BY <1>s, <2>1, <2>2, <2>4
  <2>6. ASSUME log[j].id > h
        PROVE  AheadIn(feed', log'[j].id, c, StepPos(log'[j]))
    <3>1. AheadIn(feed', log'[j].id, c, 1)
      BY <1>r, <2>1, <2>3, <2>6, Zenon DEF ComingInv
    <3>2. QED
      <4>1. TypeInv' /\ BatchInv'
        OBVIOUS
      <4>2. AheadIn(feed, log[j].id, c, 1)
        BY <2>3, <3>1
      <4>3. AheadIn(feed, log[j].id, c, StepPos(log[j]))
        BY <1>r, <2>3, <2>4, <4>2, FirstAhead
      <4>4. log[j].id # h
        BY <2>2, <2>4, <2>6
      <4>5. QED
        BY <2>3, <4>3, <4>4
  <2>7. CASE AheadIn(feed, log[j].id, c, StepPos(log[j]))
    <3>1. CASE ~(log[j].id = h /\ StepPos(log[j]) <= feed[h].next)
      BY <2>3, <2>7, <3>1
    <3>2. CASE log[j].id = h /\ StepPos(log[j]) <= feed[h].next
      <4>1. Idx(h) = j /\ e = log[j]
        BY <2>e, <2>2, <2>4, <3>2, IdOrder
      <4>2. StepPos(e) = feed[h].next
        <5>1. StepPos(e) \in feed[h].next .. Len(feed[h].batch)
          BY <2>2, <2>7, <3>2, <4>1
        <5>2. StepPos(e) \in Nat
          BY DEF StepPos
        <5>3. QED
          BY <2>n, <3>2, <4>1, <5>1, <5>2
      <4>3. m.type = "step"
        <5>1. e.run # Cli
          BY <1>r, <2>3, <4>1
        <5>2. feed[h].batch[StepPos(e)].type = "step"
          BY <2>e, <5>1 DEF BatchInv, OfEvent
        <5>3. QED
          BY <2>m, <4>2, <5>2
      <4>4. page'[c].cur = log[o].run
        BY <2>1, <2>3, <2>4, <3>2, ZenonT(30) DEF SessionInv
      <4>5. /\ Shown(page[c], m).cur = page[c].cur
            /\ Shown(page[c], m).rail = IF page[c].cur \in {NoRun, m.run}
                                        THEN page[c].rail \cup {m.id} ELSE page[c].rail
        BY <1>0, <2>2, <4>3, ShownIs
      <4>6. m.run = page[c].cur /\ m.id = log[j].id
        BY <2>2, <2>4, <3>2, <4>1, <4>3, <4>4, <4>5
      <4>7. QED
        BY <2>2, <2>3, <4>5, <4>6
    <3>3. QED
      BY <3>1, <3>2
  <2>8. CASE log[j].id \in page[c].rail
    <3>1. CASE m.type = "session_open"
      <4>1. Idx(h) \in Opens(log)
        BY <2>e, <2>2, <3>1 DEF Opens
      <4>2. Idx(h) <= o
        BY <2>4, <4>1 DEF LastOpen
      <4>3. h <= log[o].id
        BY <2>e, <2>2, <2>4, <4>2, IdOrder
      <4>4. CASE log[j].id = h
        <5>1. Idx(h) = j /\ e = log[j]
          BY <2>e, <2>2, <2>4, <4>4, IdOrder
        <5>2. StepPos(e) = 2 /\ feed[h].next = 1
          BY <2>2, <3>1 DEF StepPos
        <5>3. StepPos(e) \in DOMAIN feed[h].batch
          BY <2>e, <2>2, <3>1 DEF BatchInv, OfEvent
        <5>4. 2 \in feed[h].next .. Len(feed[h].batch)
          BY <2>n, <5>2, <5>3, PageBatch
        <5>5. AheadIn(feed', h, c, 2)
          BY <2>2, <2>3, <5>2, <5>4
        <5>6. QED
          BY <2>3, <4>4, <5>1, <5>2, <5>5
      <4>5. CASE log[j].id # h
        <5>1. log[j].id > h
          BY <2>2, <2>4, <4>3, <4>5
        <5>2. QED
          BY <2>6, <5>1
      <4>6. QED
        BY <4>4, <4>5
    <3>2. CASE m.type = "state_replay"
      <4>1. wiped'[c] >= h /\ wiped'[c] \in Nat
        BY <1>0, <2>2, <3>2
      <4>2. log[j].id > h
        BY <2>2, <2>3, <2>4, <4>1
      <4>3. QED
        BY <2>6, <4>2
    <3>3. CASE m.type = "step"
      <4>1. Shown(page[c], m).rail = IF page[c].cur \in {NoRun, m.run}
                                     THEN page[c].rail \cup {m.id} ELSE page[c].rail
        BY <1>0, <2>2, <3>3, ShownIs
      <4>2. QED
        BY <2>2, <2>3, <2>8, <4>1
    <3>4. CASE m.type \notin {"session_open", "step", "state_replay"}
      <4>1. Shown(page[c], m).rail = page[c].rail
        BY <1>0, <2>2, <3>4, ShownIs
      <4>2. QED
        BY <2>2, <2>3, <2>8, <4>1
    <3>5. QED
      BY <3>1, <3>2, <3>3, <3>4
  <2>9. QED
    BY <2>5, <2>7, <2>8
<1>3. ASSUME NEW from \in Conns, Connect(c, from) PROVE log'[j].id \in page'[c].rail
  <2>1. /\ log' = log
        /\ page'[c].rail = IF LiveRun(log) = NoRun THEN {} ELSE StepsOf(log, LiveRun(log))
    BY <1>3, ConnectShows
  <2>2. LiveRun(log) = log[o].run /\ log[o].run \in Runs
    <3>1. LiveRun(log) = log[o].run
      BY <1>0, <2>1, LiveRunIs
    <3>2. log[o] \in Event /\ log[o].run # Cli
      BY <1>0, <2>1 DEF LastOpen, Opens
    <3>3. QED
      BY <3>1, <3>2 DEF Event
  <2>3. log[j].id \in StepsOf(log, LiveRun(log))
    BY <1>0, <2>1, <2>2, StepsAre
  <2>4. QED
    BY <2>1, <2>2, <2>3, FeedAssumption
<1>4. ASSUME Quiet(c)
      PROVE  \/ log'[j].id \in page'[c].rail
             \/ AheadIn(feed', log'[j].id, c, StepPos(log'[j]))
  <2>1. /\ conn[c] = "open" /\ log' = log /\ wiped'[c] = wiped[c] /\ page'[c] = page[c]
        /\ \A k, i : AheadIn(feed', k, c, i) <=> AheadIn(feed, k, c, i)
    BY <1>4 DEF Quiet
  <2>2. Orderly(feed, newest, overtaken, c)
    BY <1>4, OrderlyBefore
  <2>3. QED
    BY <1>s, <2>1, <2>2
<1>5. QED
  BY <1>0, <1>1, <1>2, <1>3, <1>4, StepFor

(* What SentLast says of the broadcasts, and of one page.                  *)
SentBatches(g) ==
    \A h \in DOMAIN feed : \A i \in DOMAIN feed[h].batch :
        feed[h].batch[i].type = "state_replay" =>
            h <= g /\ (h = g => feed[h].batch[i].version = lastReplay)

SentTo(g, c) ==
    /\ g > newest[c] => AheadIn(feed, g, c, 1) /\ HasReplay(feed[g].batch)
    /\ Orderly(feed, newest, overtaken, c) /\ g <= newest[c] =>
          \/ ReplayOK(c)
          \/ /\ g \in DOMAIN feed /\ HasReplay(feed[g].batch)
             /\ AheadIn(feed, g, c, Len(feed[g].batch))

(* They are all it says.                                                   *)
LEMMA SentLastIs ==
  ASSUME NEW g
  PROVE  SentLast(g) <=> SentBatches(g) /\ \A c \in Pages : conn[c] = "open" => SentTo(g, c)
BY Zenon DEF SentLast, SentBatches, SentTo

(* With an event that sends the change log, it is sent last; any other      *)
(* event sends none.                                                       *)
LEMMA IngestSends ==
  ASSUME TypeInv, NEW a \in Arrivals, Ingest(a[1], a[2]), NEW g \in 0 .. born, SentLast(g)
  PROVE  ReplayInv'
<1>e. PICK e : e = Arrived(a[1], a[2])
  OBVIOUS
<1>1. /\ UNCHANGED <<conn, page, newest, overtaken, wiped, changes>>
      /\ DOMAIN log = 1 .. Len(log) /\ DOMAIN log' = 1 .. Len(log) + 1 /\ Len(log) \in Nat
      /\ \A i \in DOMAIN log : log'[i] = log[i]
      /\ born' = born + 1 /\ born \in Nat
  BY IngestLog
<1>2. lastReplay' = IF ReplayDue(e) THEN changes ELSE lastReplay
  BY <1>e DEF Ingest, Arrived
<1>3. PICK order \in Orders(NewAlerts) : Started(BatchOf(e, order))
  BY <1>e, IngestStarts
<1>b. PICK new : new = BatchOf(e, order)
  OBVIOUS
<1>4. /\ \A i \in DOMAIN new :
            new[i].type = "state_replay" => ReplayDue(e) /\ new[i].version = changes
  <2>1. alerts \in 0 .. MaxAlerts /\ changes \in 0 .. MaxChanges /\ e \in Event
    BY <1>e, IngestLog DEF TypeInv, TypeOK
  <2>2. QED
    BY <1>b, <2>1, BatchOfEvent
<1>5. /\ \A h \in DOMAIN feed : h \in DOMAIN feed' /\ feed'[h] = feed[h]
      /\ \A h \in DOMAIN feed' : h \in DOMAIN feed \/ h = born + 1
      /\ born + 1 \in DOMAIN feed' => feed'[born + 1].batch = new
  BY <1>3, <1>b DEF Started
<1>6. \A h \in DOMAIN feed : h \in 1 .. born
  BY DEF TypeInv, TypeOK
<1>7. CASE ReplayDue(e)
  <2>1. PICK n : n = born + 1
    OBVIOUS
  <2>2. SentBatches(n)'
    <3>1. ASSUME NEW h \in DOMAIN feed', NEW i \in DOMAIN feed'[h].batch,
                 feed'[h].batch[i].type = "state_replay"
          PROVE  h <= n /\ (h = n => feed'[h].batch[i].version = lastReplay')
      <4>1. h <= n
        BY <1>1, <1>5, <1>6, <2>1, <3>1
      <4>2. ASSUME h = n PROVE feed'[h].batch[i].version = lastReplay'
        BY <1>2, <1>4, <1>5, <1>7, <2>1, <3>1, <4>2
      <4>3. QED
        BY <4>1, <4>2
    <3>2. QED
      BY <3>1, Zenon DEF SentBatches
  <2>3. ASSUME NEW c \in Pages, conn'[c] = "open" PROVE SentTo(n, c)'
    <3>1. newest'[c] \in 0 .. born
      BY <1>1 DEF Pages, TypeInv, TypeOK
    <3>2. n > newest'[c] /\ ~(n <= newest'[c])
      BY <1>1, <2>1, <3>1
    <3>3. conn[c] = "open"
      BY <1>1, <2>3
    <3>4. PICK batch :
            /\ \A i : i \in DOMAIN batch => AheadIn(feed', born + 1, c, i)
            /\ born + 1 \in DOMAIN feed' => feed'[born + 1].batch = batch
            /\ ReplayDue(e) => HasReplay(batch) /\ 1 \in DOMAIN batch
      BY <1>e, <2>3, <3>3, IngestComes
    <3>5. AheadIn(feed', n, c, 1) /\ HasReplay(feed'[n].batch)
      BY <1>7, <2>1, <3>4 DEF AheadIn
    <3>6. (AheadIn(feed, n, c, 1) /\ HasReplay(feed[n].batch))'
      BY <3>5 DEF AheadIn, Ahead, BatchFor, HasReplay
    <3>7. QED
      BY <3>2, <3>6, Zenon DEF SentTo
  <2>4. SentLast(n)'
    BY <2>2, <2>3, Zenon DEF SentLast, SentBatches, SentTo
  <2>5. n \in 0 .. born'
    BY <1>1, <2>1
  <2>6. QED
    BY <2>4, <2>5, Zenon DEF ReplayInv
<1>8. CASE ~ReplayDue(e)
  <2>1. SentBatches(g) /\ \A c \in Pages : conn[c] = "open" => SentTo(g, c)
    BY SentLastIs
  <2>2. SentBatches(g)'
    <3>1. ASSUME NEW h \in DOMAIN feed', NEW i \in DOMAIN feed'[h].batch,
                 feed'[h].batch[i].type = "state_replay"
          PROVE  h <= g /\ (h = g => feed'[h].batch[i].version = lastReplay')
      <4>1. h \in DOMAIN feed
        BY <1>4, <1>5, <1>8, <3>1
      <4>2. QED
        BY <1>2, <1>5, <1>8, <2>1, <3>1, <4>1 DEF SentBatches
    <3>2. QED
      BY <3>1, Zenon DEF SentBatches
  <2>3. ASSUME NEW c \in Pages, conn'[c] = "open" PROVE SentTo(g, c)'
    <3>1. conn[c] = "open" /\ SentTo(g, c)
      BY <1>1, <2>1, <2>3
    <3>2. ASSUME g > newest'[c] PROVE AheadIn(feed', g, c, 1) /\ HasReplay(feed'[g].batch)
      BY <1>1, <1>5, <3>1, <3>2 DEF SentTo, AheadIn
    <3>3. ASSUME Orderly(feed', newest', overtaken', c), g <= newest'[c]
          PROVE  \/ ReplayOK(c)'
                 \/ /\ g \in DOMAIN feed' /\ HasReplay(feed'[g].batch)
                    /\ AheadIn(feed', g, c, Len(feed'[g].batch))
      <4>1. Orderly(feed, newest, overtaken, c) /\ g <= newest[c]
        BY <1>1, <3>3, OrderlyBefore
      <4>2. CASE ReplayOK(c)
        <5>1. lastReplay' = lastReplay
          BY <1>2, <1>8
        <5>2. \A i \in DOMAIN log : i \in DOMAIN log' /\ log'[i] = log[i]
          BY <1>1
        <5>3. QED
          BY <1>1, <4>2, <5>1, <5>2 DEF ReplayOK
      <4>3. CASE /\ g \in DOMAIN feed /\ HasReplay(feed[g].batch)
                 /\ AheadIn(feed, g, c, Len(feed[g].batch))
        BY <1>5, <4>3 DEF AheadIn
      <4>4. QED
        BY <3>1, <4>1, <4>2, <4>3 DEF SentTo
    <3>4. QED
      BY <3>2, <3>3, Zenon DEF SentTo, HasReplay, AheadIn, Ahead, BatchFor
  <2>4. SentLast(g)'
    BY <2>2, <2>3, Zenon DEF SentLast, SentBatches, SentTo
  <2>5. g \in 0 .. born'
    BY <1>1
  <2>6. QED
    BY <2>4, <2>5, Zenon DEF ReplayInv
<1>9. QED
  BY <1>7, <1>8

(* A page that is sent a message has the change log last sent, or it comes.  *)
LEMMA SentReplays ==
  ASSUME TypeInv, BatchInv, ComingInv, VersionInv, NEW c \in Pages,
         NEW h \in DOMAIN feed, Sent(c, h), NEW g \in 0 .. born,
         SentBatches(g), SentTo(g, c)
  PROVE  SentTo(g, c)'
<1>m. PICK m : m = feed[h].batch[feed[h].next]
  OBVIOUS
<1>0. /\ c \in Conns /\ born \in Nat /\ newest[c] \in 0 .. born /\ wiped[c] \in 0 .. born
      /\ page[c] \in Page /\ page[c].version \in Nat /\ lastReplay \in Int
      /\ feed[h].next \in Nat /\ Len(feed[h].batch) \in Nat
      /\ DOMAIN feed[h].batch = 1 .. Len(feed[h].batch)
  <2>1. /\ c \in Conns /\ born \in Nat /\ newest[c] \in 0 .. born /\ wiped[c] \in 0 .. born
        /\ page[c] \in Page /\ lastReplay \in Int
    BY FeedAssumption DEF Pages, TypeInv, TypeOK
  <2>2. page[c].version \in Nat
    BY <2>1, FeedAssumption DEF Page
  <2>3. feed[h] \in Broadcast /\ feed[h].batch \in Seq(Message)
    BY PageBatch DEF TypeInv, TypeOK
  <2>4. QED
    BY <2>1, <2>2, <2>3 DEF Broadcast
<1>1. /\ conn[c] = "open" /\ m \in Message /\ page'[c] = Shown(page[c], m)
      /\ Idx(h) \in DOMAIN log /\ log[Idx(h)].id = h /\ h \in 1 .. born
      /\ feed[h].next \in DOMAIN feed[h].batch
      /\ m.type = "session_open" =>
            /\ feed[h].next = 1
            /\ log[Idx(h)].tier = "T0" /\ log[Idx(h)].run # Cli
      /\ m.type = "state_replay" => feed[h].next = Len(feed[h].batch)
      /\ \A i : AheadIn(feed, h, c, i) <=> i \in feed[h].next .. Len(feed[h].batch)
      /\ wiped'[c] = IF m.type = "state_replay" /\ h > wiped[c] THEN h ELSE wiped[c]
  BY <1>m, SentMessage
<1>2. /\ log' = log /\ lastReplay' = lastReplay /\ SameMessages(feed, feed')
      /\ newest'[c] = (IF h > newest[c] THEN h ELSE newest[c])
      /\ \A k, i : AheadIn(feed', k, c, i) <=>
                      AheadIn(feed, k, c, i) /\ ~(k = h /\ i <= feed[h].next)
  BY DEF Sent, memory
<1>3. ASSUME NEW k, NEW i, AheadIn(feed', k, c, i)
      PROVE  k \in DOMAIN feed' /\ k \in DOMAIN feed /\ feed'[k].batch = feed[k].batch
  BY <1>2, <1>3 DEF AheadIn, SameMessages
<1>4. ASSUME g > newest'[c] PROVE AheadIn(feed', g, c, 1) /\ HasReplay(feed'[g].batch)
  <2>1. g > newest[c] /\ g # h
    BY <1>0, <1>1, <1>2, <1>4
  <2>2. AheadIn(feed, g, c, 1) /\ HasReplay(feed[g].batch)
    BY <2>1 DEF SentTo
  <2>3. AheadIn(feed', g, c, 1)
    BY <1>2, <2>1, <2>2
  <2>4. QED
    BY <1>3, <2>2, <2>3
<1>5. ASSUME Orderly(feed', newest', overtaken', c), g <= newest'[c]
      PROVE  \/ ReplayOK(c)'
             \/ /\ g \in DOMAIN feed' /\ HasReplay(feed'[g].batch)
                /\ AheadIn(feed', g, c, Len(feed'[g].batch))
  <2>1. Orderly(feed, newest, overtaken, c) /\ newest'[c] = h /\ newest[c] <= h
    BY <1>5, OrderlyBefore
  <2>2. ASSUME m.type = "state_replay", h = g PROVE ReplayOK(c)'
    <3>1. m.version = lastReplay
      BY <1>m, <1>1, <2>2 DEF SentBatches
    <3>2. Shown(page[c], m).version = IF m.version = 0 THEN page[c].version ELSE m.version
      BY <1>0, <1>1, <2>2, ShownIs
    <3>3. page'[c].version >= lastReplay'
      BY <1>0, <1>1, <1>2, <3>1, <3>2
    <3>4. QED
      BY <3>3 DEF ReplayOK
  <2>3. CASE /\ g \in DOMAIN feed /\ HasReplay(feed[g].batch)
             /\ AheadIn(feed, g, c, Len(feed[g].batch))
    <3>1. CASE ~(g = h /\ Len(feed[g].batch) <= feed[h].next)
      <4>1. AheadIn(feed', g, c, Len(feed[g].batch))
        BY <1>2, <2>3, <3>1
      <4>2. QED
        BY <1>3, <2>3, <4>1
    <3>2. CASE g = h /\ Len(feed[g].batch) <= feed[h].next
      <4>1. feed[h].next = Len(feed[h].batch)
        BY <1>0, <1>1, <3>2
      <4>2. PICK i \in DOMAIN feed[h].batch : feed[h].batch[i].type = "state_replay"
        BY <2>3, <3>2 DEF HasReplay
      <4>3. i = Len(feed[h].batch)
        BY <4>2 DEF BatchInv, OfEvent
      <4>4. m.type = "state_replay"
        BY <1>m, <4>1, <4>2, <4>3
      <4>5. QED
        BY <2>2, <3>2, <4>4
    <3>3. QED
      BY <3>1, <3>2
  <2>4. CASE ReplayOK(c)
    <3>1. CASE m.type = "session_open"
      <4>1. Shown(page[c], m).version = 0
        BY <1>0, <1>1, <3>1, ShownIs
      <4>2. AheadIn(feed, h, c, 1)
        BY <1>0, <1>1, <3>1
      <4>3. newest[c] # h /\ wiped[c] <= newest[c]
        BY <1>1, <4>2 DEF ComingInv
      <4>4. h > wiped[c] /\ wiped'[c] = wiped[c]
        BY <1>0, <1>1, <2>1, <3>1, <4>3
      <4>5. QED
        BY <1>1, <1>2, <3>1, <4>1, <4>4 DEF ReplayOK
    <3>2. CASE m.type = "state_replay"
      <4>1. h <= g
        BY <1>m, <1>1, <3>2 DEF SentBatches
      <4>2. h = g
        BY <1>1, <1>5, <2>1, <4>1
      <4>3. QED
        BY <2>2, <3>2, <4>2
    <3>3. CASE m.type \notin {"session_open", "state_replay"}
      <4>1. Shown(page[c], m).version = page[c].version
        BY <1>0, <1>1, <3>3, ShownIs
      <4>2. page'[c].version = page[c].version /\ wiped'[c] = wiped[c]
        BY <1>1, <3>3, <4>1
      <4>3. QED
        BY <1>2, <2>4, <4>2 DEF ReplayOK
    <3>4. QED
      BY <3>1, <3>2, <3>3
  <2>5. CASE g <= newest[c]
    BY <2>1, <2>3, <2>4, <2>5 DEF SentTo
  <2>6. CASE g > newest[c]
    <3>1. AheadIn(feed, g, c, 1) /\ HasReplay(feed[g].batch)
      BY <2>6 DEF SentTo
    <3>2. g \in DOMAIN feed
      BY <3>1 DEF AheadIn
    <3>3. /\ BatchFor(feed[g], c) = feed[g].batch /\ feed[g].batch \in Seq(Message)
          /\ feed[g] \in Broadcast
      BY <3>2, PageBatch DEF TypeInv, TypeOK
    <3>4. Len(feed[g].batch) \in 1 .. Len(BatchFor(feed[g], c)) /\ 1 <= Len(feed[g].batch)
      BY <3>1, <3>3 DEF AheadIn, Ahead
    <3>5. AheadIn(feed, g, c, Len(feed[g].batch))
      BY <3>1, <3>3, <3>4, AheadUp
    <3>6. QED
      BY <2>3, <3>1, <3>2, <3>5
  <2>7. QED
    BY <1>0, <2>5, <2>6
<1>6. QED
  BY <1>4, <1>5, Zenon DEF SentTo, HasReplay, AheadIn, Ahead, BatchFor

(* Every page has the change log last sent, has cleared it, or is to get it. *)
LEMMA ReplayStep ==
  ASSUME TypeInv, TypeInv', [Next]_vars, BatchInv, RailInv, ComingInv, VersionInv, ReplayInv
  PROVE  ReplayInv'
<1>0. born \in Nat /\ changes \in Nat /\ lastReplay \in -1 .. changes
  BY FeedAssumption DEF TypeInv, TypeOK
<1>1. PICK g \in 0 .. born : SentLast(g)
  BY DEF ReplayInv
<1>2. SentBatches(g) /\ \A c \in Pages : conn[c] = "open" => SentTo(g, c)
  BY <1>1, SentLastIs
<1>3. ASSUME NEW a \in Arrivals, Ingest(a[1], a[2]) PROVE ReplayInv'
  BY <1>1, <1>3, IngestSends
<1>4. ASSUME SameMessages(feed, feed'), UNCHANGED <<log, born, lastReplay>>
      PROVE  ReplayInv'
  <2>1. SentBatches(g)'
    <3>1. ASSUME NEW h \in DOMAIN feed', NEW i \in DOMAIN feed'[h].batch,
                 feed'[h].batch[i].type = "state_replay"
          PROVE  h <= g /\ (h = g => feed'[h].batch[i].version = lastReplay')
      BY <1>2, <1>4, <3>1 DEF SentBatches, SameMessages
    <3>2. QED
      BY <3>1, Zenon DEF SentBatches
  <2>2. ASSUME NEW c \in Pages, conn'[c] = "open" PROVE SentTo(g, c)'
    <3>0. c \in Conns
      BY DEF Pages
    <3>1. ASSUME NEW a \in Arrivals, Ingest(a[1], a[2]) PROVE FALSE
      <4>1. born' = born + 1
        BY <3>1 DEF Ingest
      <4>2. QED
        BY <1>0, <1>4, <4>1
    <3>2. ASSUME NEW h \in DOMAIN feed, Sent(c, h) PROVE SentTo(g, c)'
      <4>1. SentTo(g, c)
        BY <1>2, <3>2 DEF Sent
      <4>2. QED
        BY <1>2, <3>2, <4>1, SentReplays
    <3>3. ASSUME NEW from \in Conns, Connect(c, from) PROVE SentTo(g, c)'
      <4>1. /\ newest'[c] = born /\ conn[from] # "open"
            /\ page'[c].version = IF changes = 0 THEN page[from].version ELSE changes
        BY <3>3, ConnectShows
      <4>2. from \in Pages
        BY <3>3 DEF Connect, Pages
      <4>3. page[from].version = 0
        BY <4>1, <4>2 DEF RailInv
      <4>4. page'[c].version >= lastReplay'
        BY <1>0, <1>4, <4>1, <4>3
      <4>5. ReplayOK(c)'
        BY <4>4 DEF ReplayOK
      <4>6. ~(g > newest'[c])
        BY <1>0, <4>1
      <4>7. QED
        BY <4>5, <4>6, Zenon DEF SentTo
    <3>4. ASSUME Quiet(c) PROVE SentTo(g, c)'
      <4>1. /\ conn[c] = "open" /\ page'[c] = page[c] /\ newest'[c] = newest[c]
            /\ wiped'[c] = wiped[c]
            /\ \A k, i : AheadIn(feed', k, c, i) <=> AheadIn(feed, k, c, i)
        BY <3>4 DEF Quiet
      <4>2. SentTo(g, c)
        BY <1>2, <4>1
      <4>3. ASSUME NEW k, NEW i, AheadIn(feed, k, c, i)
            PROVE  k \in DOMAIN feed' /\ feed'[k].batch = feed[k].batch
        BY <1>4, <4>1, <4>3 DEF AheadIn, SameMessages
      <4>4. ASSUME g > newest'[c] PROVE AheadIn(feed', g, c, 1) /\ HasReplay(feed'[g].batch)
        BY <4>1, <4>2, <4>3, <4>4 DEF SentTo
      <4>5. ASSUME Orderly(feed', newest', overtaken', c), g <= newest'[c]
            PROVE  \/ ReplayOK(c)'
                   \/ /\ g \in DOMAIN feed' /\ HasReplay(feed'[g].batch)
                      /\ AheadIn(feed', g, c, Len(feed'[g].batch))
        <5>1. Orderly(feed, newest, overtaken, c)
          BY <3>4, <4>5, OrderlyBefore
        <5>2. CASE ReplayOK(c)
          BY <1>4, <4>1, <5>2 DEF ReplayOK
        <5>3. CASE /\ g \in DOMAIN feed /\ HasReplay(feed[g].batch)
                   /\ AheadIn(feed, g, c, Len(feed[g].batch))
          BY <4>1, <4>3, <5>3
        <5>4. QED
          BY <4>1, <4>2, <4>5, <5>1, <5>2, <5>3 DEF SentTo
      <4>6. QED
        BY <4>4, <4>5, Zenon DEF SentTo, HasReplay, AheadIn, Ahead, BatchFor
    <3>5. QED
      BY <2>2, <3>0, <3>1, <3>2, <3>3, <3>4, StepFor
  <2>3. SentLast(g)'
    BY <2>1, <2>2, Zenon DEF SentLast, SentBatches, SentTo
  <2>4. g \in 0 .. born'
    BY <1>4
  <2>5. QED
    BY <2>3, <2>4, Zenon DEF ReplayInv
<1>5. ASSUME Restart PROVE ReplayInv'
  <2>1. feed' = <<>> /\ born' = born /\ \A c \in Pages : conn'[c] # "open"
    BY <1>5 DEF Restart, Pages, TypeInv, TypeOK
  <2>2. SentLast(0)'
    BY <2>1 DEF SentLast
  <2>3. 0 \in 0 .. born'
    BY <1>0, <2>1
  <2>4. QED
    BY <2>2, <2>3, Zenon DEF ReplayInv
<1>6. QED
  BY <1>3, <1>4, <1>5, FeedStep

(* At first nothing is shown.                                              *)
LEMMA InitShows ==
  ASSUME Init
  PROVE  ShowInv
<1>1. DOMAIN feed = {} /\ born = 0 /\ 0 \in 0 .. born
      /\ \A c \in Pages : conn[c] # "open" /\ page[c].rail = {} /\ page[c].version = 0
  BY DEF Init, Pages, FreshPage
<1>2. BatchInv /\ ComingInv /\ SessionInv /\ StepsInv /\ RailInv
  BY <1>1 DEF BatchInv, ComingInv, SessionInv, StepsInv, RailInv
<1>3. VersionInv
  BY <1>1 DEF VersionInv, Init
<1>4. SentLast(0)
  BY <1>1 DEF SentLast
<1>5. QED
  BY <1>1, <1>2, <1>3, <1>4, Zenon DEF ShowInv, ReplayInv

(* What a page that is up to date shows.                                   *)
LEMMA ShowsTruth ==
  ASSUME TypeInv, ShowInv
  PROVE  PageTrue
<1>1. ASSUME NEW c \in Pages PROVE RailOfOneRun(c)
  <2>1. ASSUME page[c].cur # NoRun, NEW e \in ToSet(log), e.id \in page[c].rail
        PROVE  e.run = page[c].cur
    <3>1. PICK i \in DOMAIN log : e = log[i]
      BY <2>1 DEF ToSet
    <3>2. Idx(e.id) = i
      BY <3>1, IdxOf
    <3>3. QED
      BY <2>1, <3>1, <3>2 DEF ShowInv, RailInv
  <2>2. QED
    BY <2>1 DEF RailOfOneRun
<1>2. ASSUME NEW c \in Pages, UpToDate(c)
      PROVE  LiveRunShown(c) /\ RailComplete(c) /\ ReplayShown(c)
  <2>0. conn[c] = "open" /\ log \in Seq(Event) /\ newest[c] \in Nat /\ born \in Nat
    BY <1>2, FeedAssumption DEF UpToDate, Pages, TypeInv, TypeOK
  <2>1. /\ \A h, i : ~AheadIn(feed, h, c, i)
        /\ Orderly(feed, newest, overtaken, c)
    <3>1. \A h, i : ~AheadIn(feed, h, c, i)
      BY <1>2, NothingAhead DEF UpToDate
    <3>2. QED
      BY <1>2, <3>1 DEF UpToDate, Orderly
  <2>2. ASSUME LiveRun(log) # NoRun
        PROVE  \E o \in DOMAIN log :
                  /\ LastOpen(log, o) /\ ~ClosedIn(log, o) /\ LiveRun(log) = log[o].run
                  /\ log[o].id <= newest[c] /\ page[c].cur = log[o].run
                  /\ log[o].tier = "T0"
    <3>1. Opens(log) # {}
      BY <2>0, <2>2, LiveRunIs
    <3>2. PICK o \in Opens(log) : LastOpen(log, o)
      BY <2>0, <3>1, LiveRunIs
    <3>3. ~ClosedIn(log, o) /\ LiveRun(log) = log[o].run
      BY <2>0, <2>2, <3>2, LiveRunIs
    <3>4. o \in DOMAIN log /\ log[o].run # Cli /\ log[o].tier = "T0"
      BY DEF Opens
    <3>5. log[o].id <= newest[c]
      <4>1. ~(log[o].id > newest[c])
        BY <2>0, <2>1, <3>4 DEF ShowInv, ComingInv
      <4>2. log[o].id \in 1 .. born
        BY <3>4, IdxOf
      <4>3. QED
        BY <2>0, <4>1, <4>2
    <3>6. page[c].cur = log[o].run
      BY <2>0, <2>1, <3>2, <3>3, <3>4, <3>5, Zenon DEF ShowInv, SessionInv
    <3>7. QED
      BY <3>2, <3>3, <3>4, <3>5, <3>6
  <2>3. LiveRunShown(c)
    BY <2>2 DEF LiveRunShown
  <2>4. RailComplete(c)
    <3>1. ASSUME LiveRun(log) # NoRun, NEW s \in SinceOpen, s > wiped[c]
          PROVE  s \in page[c].rail
      <4>1. PICK o \in DOMAIN log :
                  /\ LastOpen(log, o) /\ ~ClosedIn(log, o) /\ LiveRun(log) = log[o].run
                  /\ log[o].tier = "T0"
        BY <2>2, <3>1
      <4>2. /\ s \in StepsOf(log, LiveRun(log))
            /\ \A e \in ToSet(log) : e.tier = "T0" /\ e.run = LiveRun(log) => e.id <= s
        BY <3>1 DEF SinceOpen
      <4>3. PICK j \in DOMAIN log : s = log[j].id /\ log[j].run = LiveRun(log)
        BY <2>0, <4>2, StepsAre
      <4>4. log[o].id <= s
        BY <4>1, <4>2 DEF ToSet
      <4>5. j >= o
        <5>1. o <= j
          BY <4>3, <4>4, IdOrder
        <5>2. QED
          BY <5>1, IdxOf
      <4>6. \/ log[j].id \in page[c].rail
            \/ AheadIn(feed, log[j].id, c, StepPos(log[j]))
        BY <2>0, <2>1, <3>1, <4>1, <4>3, <4>5 DEF ShowInv, StepsInv
      <4>7. QED
        BY <2>1, <4>3, <4>6
    <3>2. QED
      BY <3>1 DEF RailComplete
  <2>5. ReplayShown(c)
    <3>1. PICK g \in 0 .. born : SentLast(g)
      BY DEF ShowInv, ReplayInv
    <3>2. SentTo(g, c)
      BY <2>0, <3>1, SentLastIs
    <3>3. g <= newest[c]
      <4>1. ~(g > newest[c])
        BY <2>1, <3>2 DEF SentTo
      <4>2. QED
        BY <2>0, <4>1
    <3>4. ReplayOK(c)
      BY <2>1, <3>2, <3>3 DEF SentTo
    <3>5. CASE page[c].version >= lastReplay
      <4>1. page[c].version <= changes
        BY DEF ShowInv, VersionInv
      <4>2. page[c].version \in Int /\ lastReplay \in Int /\ changes \in Int
        <5>1. page[c] \in Page
          BY DEF Pages, TypeInv, TypeOK
        <5>2. page[c].version \in Int
          BY <5>1, FeedAssumption DEF Page
        <5>3. lastReplay \in Int /\ changes \in Int
          BY FeedAssumption DEF TypeInv, TypeOK
        <5>4. QED
          BY <5>2, <5>3
      <4>3. QED
        BY <3>5, <4>1, <4>2 DEF ReplayShown
    <3>6. CASE /\ page[c].version = 0
               /\ \E i \in DOMAIN log :
                     log[i].tier = "T0" /\ log[i].run # Cli /\ log[i].id > wiped[c]
      BY <3>6 DEF ReplayShown, ToSet
    <3>7. QED
      BY <3>4, <3>5, <3>6 DEF ReplayOK
  <2>6. QED
    BY <2>3, <2>4, <2>5
<1>3. QED
  BY <1>1, <1>2 DEF PageTrue

(* What a page shows is what the event log says: one session on a rail,     *)
(* whatever order the broadcasts come in; and once a page has read all, the *)
(* live session, its steps since the last reset, and the change log that    *)
(* was sent last.  What handleEvent folds and what _state_replay_payload    *)
(* tells a page that connects agree, from _ws_handler's first message on.   *)
THEOREM PagesShowTheTruth == Spec => []PageTrue
<1>1. Init => ShowInv
  BY InitShows
<1>2. TypeInv /\ TypeInv' /\ [Next]_vars /\ ShowInv => ShowInv'
  <2> SUFFICES ASSUME TypeInv, TypeInv', [Next]_vars, ShowInv PROVE ShowInv'
    OBVIOUS
  <2>1. /\ BatchInv /\ RailInv /\ ComingInv /\ SessionInv /\ StepsInv
        /\ VersionInv /\ ReplayInv
    BY DEF ShowInv
  <2>2. BatchInv' /\ RailInv' /\ ComingInv' /\ VersionInv'
    BY <2>1, BatchStep, RailStep, ComingStep, VersionStep
  <2>3. SessionInv'
    BY <2>1, SessionStep
  <2>4. StepsInv'
    BY <2>1, <2>2, <2>3, StepsStep
  <2>5. ReplayInv'
    BY <2>1, ReplayStep
  <2>6. QED
    BY <2>2, <2>3, <2>4, <2>5 DEF ShowInv
<1>3. TypeInv /\ ShowInv => PageTrue
  BY ShowsTruth
<1>4. QED
  BY <1>1, <1>2, <1>3, TypeInvariant, PTL DEF Spec
=============================================================================
