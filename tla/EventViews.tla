----------------------------- MODULE EventViews -----------------------------
(***************************************************************************)
(* What the bridge makes of a workspace.  Every command of a session tells *)
(* the bridge of its start and its end through a queue, a thread and a     *)
(* socket (nightclaw_ops); any of these messages may be lost, for the      *)
(* bridge may be down and a process may die.  The bridge keeps what        *)
(* arrives, and builds its pages from that log and from the files the      *)
(* commands write: the timeline of a run, the sessions page, the replay of *)
(* one session with the LONGRUNNER as it was then, the live state.  A      *)
(* MonitorStore on the client side folds the same events one by one.       *)
(*                                                                         *)
(* One session works at a time (SessionLock).  Only one field of a         *)
(* LONGRUNNER is kept; texts, tokens and models are left out.              *)
(***************************************************************************)
EXTENDS Integers, Sequences, FiniteSets, SequencesExt

CONSTANTS Runs,         \* run ids
          Slugs,        \* projects
          NoRun, NoSlug,
          Values,       \* values of a LONGRUNNER field
          MaxCommands,  \* commands in a behaviour
          MaxClock,     \* end of time
          StaleAfter,   \* age after which a silent run is over (600 s)
          ChangeTail    \* rows parse_change_log returns (30)

ASSUME ViewAssumption ==
    /\ NoRun \notin Runs /\ NoSlug \notin Slugs /\ Values # {}
    /\ {MaxCommands, MaxClock, StaleAfter, ChangeTail} \subseteq Nat

VARIABLES
    proc,      \* the command that runs: a record, or Idle
    queue,     \* its telemetry queue
    sending,   \* what its telemetry thread has taken from it: at most one event
    log,       \* the bridge's event log
    watching,  \* whether the client is connected
    store,     \* the client's timelines
    open,      \* the run whose session is going on
    ended,     \* runs whose session is over
    lr,        \* the field, of every project
    changes,   \* CHANGE-LOG.md
    registry,  \* SESSION-REGISTRY.md: run |-> slug its summary speaks of
    closes,    \* SESSION_CLOSE rows of AUDIT-LOG.md: run |-> its RESULT
    now,
    count,     \* commands so far
    final,     \* history: lr when a session was over
    torn,      \* history: projects with a change that was never logged
    lostStarts \* history: runs with a start that did not arrive

bridge    == <<log, watching, store>>
telemetry == <<queue, sending>>
files     == <<lr, changes, registry, closes>>
history   == <<final, torn>>
vars == <<proc, telemetry, bridge, open, ended, files, now, count, history, lostStarts>>

NoCode == -1
Idle   == [at |-> "idle"]

(* lock-acquire, bundle-exec (longrunner_update and session_close) and      *)
(* lock-release stand for the commands of their tier.                      *)
Tier == [acquire |-> "T0", update |-> "T6", close |-> "T6", release |-> "T9"]

(* exec numbers the executions of commands; the two events of one have the  *)
(* same number.                                                            *)
Event == [exec : 1 .. MaxCommands, run : Runs, cmd : DOMAIN Tier,
          slug : Slugs \cup {NoSlug}, code : {NoCode, 0, 1}, at : 0 .. MaxClock]

Change == [run : Runs, slug : Slugs, old : Values, new : Values]

-----------------------------------------------------------------------------
(* THE TIMELINE OF A RUN                                                    *)

EventsOf(l, r) == SelectSeq(l, LAMBDA e : e.run = r)

Keys == (DOMAIN Tier) \X (Slugs \cup {NoSlug})

OpenAt(tl, e, i) ==
    tl[i].cmd = e.cmd /\ tl[i].slug = e.slug /\ tl[i].code = NoCode

(* fold_eventlog_views: an end closes the step that was opened last under   *)
(* its command and project, in place; a start is never taken off the table *)
(* "opened", in which 0 stands for none.                                   *)
FoldStep(s, e) ==
    LET key  == <<e.cmd, e.slug>>
        step == s.opened[key]
    IN  IF step # 0 /\ e.code # NoCode /\ s.tl[step].code = NoCode
        THEN [tl |-> [s.tl EXCEPT ![step].code = e.code], opened |-> s.opened]
        ELSE [tl |-> Append(s.tl, e),
              opened |-> IF e.code # NoCode THEN s.opened
                         ELSE [s.opened EXCEPT ![key] = Len(s.tl) + 1]]

(* The table and the timeline of a run after each event of the log.         *)
Folded(l, r) ==
    LET after[i \in 0 .. Len(l)] ==
            IF i = 0 THEN [tl |-> <<>>, opened |-> [key \in Keys |-> 0]]
            ELSE IF l[i].run = r THEN FoldStep(after[i - 1], l[i])
            ELSE after[i - 1]
    IN  after

Timeline(l, r) == Folded(l, r)[Len(l)].tl

(* Mutant: apply_opsstepevent looks for the open step from the front.       *)
StoreStepFront(tl, e) ==
    LET opens == {i \in 1 .. Len(tl) : OpenAt(tl, e, i)}
    IN  IF e.code # NoCode /\ opens # {}
        THEN [tl EXCEPT ![CHOOSE i \in opens : \A j \in opens : i <= j].code = e.code]
        ELSE Append(tl, e)

(* MonitorStore.apply_opsstepevent: the last open step of the command and   *)
(* project, however long it has been open.                                 *)
StoreStep(tl, e) ==
    LET opens == {i \in 1 .. Len(tl) : OpenAt(tl, e, i)}
    IN  IF e.code # NoCode /\ opens # {}
        THEN [tl EXCEPT ![CHOOSE i \in opens : \A j \in opens : i >= j].code = e.code]
        ELSE Append(tl, e)

-----------------------------------------------------------------------------
(* WHAT THE PAGES SAY OF A RUN                                              *)

Heard(r)    == {i \in DOMAIN log : log[i].run = r}
Finals(r)   == {i \in Heard(r) : Tier[log[i].cmd] = "T9"}
SawT9(r)    == Finals(r) # {}
ExitCode(r) == IF SawT9(r) THEN log[Max(Finals(r))].code ELSE NoCode

Never == -1

(* The stamp of the last event; for a run without events the day in its     *)
(* run id, which is long past.                                             *)
LastSeen(r) == IF Heard(r) = {} THEN Never ELSE log[Max(Heard(r))].at

IsStale(ts) == ts = Never \/ now - ts > StaleAfter

Outcome(ts, saw, code) ==
    IF saw THEN IF code \in {0, NoCode} THEN "clean" ELSE "crash"
    ELSE IF IsStale(ts) THEN "completed_no_t9" ELSE "running"

Registered == DOMAIN registry
ClosedRuns == DOMAIN closes
Known      == Registered \cup {e.run : e \in ToSet(log)}

(* The slug the closing artifact or the summary in the registry speaks of.  *)
Spoken(r) == IF r \in Registered THEN registry[r] ELSE NoSlug

(* The slug of the first event that has one goes before it.                 *)
SlugOf(r) ==
    LET stamped == {i \in Heard(r) : log[i].slug # NoSlug}
    IN  IF stamped # {} THEN log[Min(stamped)].slug ELSE Spoken(r)

(* _sessions_snapshot_payload: telemetry, overruled by the files for the    *)
(* runs in the registry.                                                   *)
SessionsPage ==
    [r \in Known |->
        IF r \in Registered /\ r \in ClosedRuns THEN "clean"
        ELSE IF Heard(r) # {} THEN Outcome(LastSeen(r), SawT9(r), ExitCode(r))
        ELSE "completed_no_t9"]

(* The session_history of a state_replay: the same enrichment, and after it *)
(* every run is classified again by its telemetry.                         *)
History ==
    [r \in Known |->
        LET enriched ==
                IF r \in Registered /\ r \in ClosedRuns THEN "clean"
                ELSE IF SawT9(r) THEN Outcome(LastSeen(r), TRUE, ExitCode(r))
                ELSE "running"
        IN  Outcome(LastSeen(r), SawT9(r), CASE enriched = "clean" -> 0
                                             [] enriched = "crash" -> 1
                                             [] OTHER -> NoCode)]

(* The run a state_replay presents as live: the last T0, until a T9 of it.  *)
CurrentRun ==
    LET begins == {i \in 1 .. Len(log) : Tier[log[i].cmd] = "T0"}
        last   == Max(begins)
    IN  IF begins = {} THEN NoRun
        ELSE IF \E j \in last + 1 .. Len(log) :
                    log[j].run = log[last].run /\ Tier[log[j].cmd] = "T9"
        THEN NoRun ELSE log[last].run

StateReplay ==
    [session |-> CurrentRun, steps |-> EventsOf(log, CurrentRun), history |-> History]

-----------------------------------------------------------------------------
(* THE REPLAY OF A SESSION                                                  *)

Newest(s, n) == SubSeq(s, IF Len(s) > n THEN Len(s) - n + 1 ELSE 1, Len(s))

(* Rows are taken back one after the other, the newest first: what is left  *)
(* in the end is what the oldest of them had found.                        *)
Undone(value, rows, places) == IF places = {} THEN value ELSE rows[Min(places)].old

(* Mutant: later rows of the run itself are undone as well.                 *)
LongrunnerAtFirstRow(s, r) ==
    LET rows  == Newest(changes, ChangeTail)
        mine  == {i \in DOMAIN rows : rows[i].run = r}
        newer == {i \in DOMAIN rows : rows[i].slug = s /\ \E j \in mine : j < i}
    IN  [value |-> Undone(lr[s], rows, newer), exact |-> mine # {}]

(* _reconstruct_longrunner_at: rows of other runs that follow a row of the  *)
(* run are newer.  Without a row of the run the current value is given, and *)
(* the replay marked partial.                                              *)
LongrunnerAt(s, r) ==
    LET rows  == Newest(changes, ChangeTail)
        mine  == {i \in DOMAIN rows : rows[i].run = r}
        newer == {i \in DOMAIN rows : /\ rows[i].run # r /\ rows[i].slug = s
                                      /\ \E j \in mine : j < i}
    IN  [value |-> Undone(lr[s], rows, newer), exact |-> mine # {}]

(* _dedupe_step_events: the same tier, command and second count once.       *)
Deduped(steps) ==
    LET seen(i) == \E j \in 1 .. i - 1 :
                      steps[j].cmd = steps[i].cmd /\ steps[j].at = steps[i].at
    IN  FoldLeft(LAMBDA out, i : IF seen(i) THEN out ELSE Append(out, steps[i]),
                 <<>>, [i \in 1 .. Len(steps) |-> i])

(* Mutant: a T9 in the telemetry is the only sign that a session is over.   *)
SessionReplayTelemetryOnly(r) ==
    [outcome |-> Outcome(LastSeen(r), SawT9(r), ExitCode(r)),
     steps   |-> Deduped(EventsOf(log, r)),
     slug    |-> SlugOf(r)]

(* The exit code that the RESULT of a SESSION_CLOSE row stands for.         *)
CloseCode(r) == IF closes[r] \in {"SUCCESS", "PASS"} THEN 0 ELSE 1

(* The code a run left as far as the replay of a session knows.             *)
LastCode(r) ==
    IF SawT9(r) \/ r \notin ClosedRuns THEN ExitCode(r) ELSE CloseCode(r)

(* _session_replay_payload: a SESSION_CLOSE row stands in for a T9 that was *)
(* not heard.                                                              *)
SessionReplay(r) ==
    [outcome |-> Outcome(LastSeen(r), SawT9(r) \/ r \in ClosedRuns, LastCode(r)),
     steps   |-> Deduped(EventsOf(log, r)),
     slug    |-> SlugOf(r)]

-----------------------------------------------------------------------------
(* A COMMAND AND ITS TELEMETRY                                              *)

Says(code) == [exec |-> count', run |-> proc'.run, cmd |-> proc'.cmd,
               slug |-> proc'.slug, code |-> code, at |-> now]

(* The lifecycle wrapper tells of the start before the command runs.  A     *)
(* scheduled session need not begin with a command of tier T0.              *)
Enter(r, c, s) ==
    /\ proc = Idle /\ count < MaxCommands
    /\ IF open = NoRun THEN r \notin ended /\ c \in {"acquire", "update"} ELSE open = r
    /\ (s # NoSlug) <=> (c = "update")
    /\ open' = r
    /\ count' = count + 1
    /\ proc' = [at |-> "work", run |-> r, cmd |-> c, slug |-> s, code |-> 0]
    /\ queue' = <<Says(NoCode)>>
    /\ UNCHANGED <<sending, bridge, ended, files, now, history, lostStarts>>

AtWork(c) == proc.at = "work" /\ proc.cmd = c

(* A change is in its file, and its row is not.                            *)
Unlogged == proc.at = "row"

Goto(stage) == proc' = [proc EXCEPT !.at = stage]

OverAt(r) ==
    /\ open' = NoRun /\ ended' = ended \cup {r}
    /\ final' = [final EXCEPT ![r] = lr]

(* longrunner_update writes the field, and later its row.                   *)
WriteField ==
    /\ AtWork("update")
    /\ \E v \in Values \ {lr[proc.slug]} :
          /\ lr' = [lr EXCEPT ![proc.slug] = v]
          /\ proc' = [at |-> "row", run |-> proc.run, cmd |-> proc.cmd,
                       slug |-> proc.slug, code |-> proc.code, old |-> lr[proc.slug]]
    /\ UNCHANGED <<telemetry, bridge, open, ended, changes, registry, closes, now, count, history, lostStarts>>

WriteRow ==
    /\ Unlogged
    /\ changes' = Append(changes, [run |-> proc.run, slug |-> proc.slug,
                                   old |-> proc.old, new |-> lr[proc.slug]])
    /\ Goto("leave")
    /\ UNCHANGED <<telemetry, bridge, open, ended, lr, registry, closes, now, count, history, lostStarts>>

(* The audit row is the agent's; the prompts have it say SUCCESS.           *)
LogsClose(r) ==
    \E result \in {"SUCCESS", "FAIL"} :
        closes' = [x \in ClosedRuns \cup {r} |-> IF x = r THEN result ELSE closes[x]]

(* Mutant: the audit row is written before the registry row.                *)
LogCloseEarly ==
    /\ AtWork("close")
    /\ LogsClose(proc.run)
    /\ OverAt(proc.run)
    /\ Goto("leave")
    /\ UNCHANGED <<telemetry, bridge, lr, changes, registry, now, count, torn, lostStarts>>

(* session_close registers the run, and logs its end after that.            *)
Register ==
    /\ AtWork("close") /\ proc.run \notin Registered
    /\ \E s \in Slugs \cup {NoSlug} :
          /\ s # NoSlug => \E c \in ToSet(changes) : c.run = proc.run /\ c.slug = s
          /\ registry' = [r \in Registered \cup {proc.run} |->
                              IF r = proc.run THEN s ELSE registry[r]]
    /\ UNCHANGED <<proc, telemetry, bridge, open, ended, lr, changes, closes, now, count, history, lostStarts>>

LogClose ==
    /\ AtWork("close") /\ proc.run \in Registered
    /\ LogsClose(proc.run)
    /\ OverAt(proc.run)
    /\ Goto("leave")
    /\ UNCHANGED <<telemetry, bridge, lr, changes, registry, now, count, torn, lostStarts>>

Acquire ==
    /\ AtWork("acquire") /\ Goto("leave")
    /\ UNCHANGED <<telemetry, bridge, open, ended, files, now, count, history, lostStarts>>

Release ==
    /\ AtWork("release") /\ OverAt(proc.run) /\ Goto("leave")
    /\ UNCHANGED <<telemetry, bridge, files, now, count, torn, lostStarts>>

(* A command that refuses to do anything exits with 1.                      *)
Refuse ==
    /\ proc.at = "work" /\ proc.cmd \in {"update", "release"}
    /\ proc' = [at |-> "leave", run |-> proc.run, cmd |-> proc.cmd,
                 slug |-> proc.slug, code |-> 1]
    /\ UNCHANGED <<telemetry, bridge, open, ended, files, now, count, history, lostStarts>>

(* The wrapper tells of the end, with the exit code.                        *)
Leave ==
    /\ proc.at = "leave"
    /\ Goto("exit")
    /\ UNCHANGED count
    /\ queue' = Append(queue, Says(proc.code))
    /\ UNCHANGED <<sending, bridge, open, ended, files, now, history, lostStarts>>

(* Mutant: what could not be sent is put back at the end of the queue.      *)
AfterLossRequeued == /\ queue' = queue \o sending /\ UNCHANGED lostStarts

(* What could not be sent is forgotten.                                     *)
AfterLoss ==
    /\ lostStarts' = lostStarts \cup {e.run : e \in {f \in ToSet(sending) : f.code = NoCode}}
    /\ UNCHANGED queue

(* The telemetry thread takes one event after the other.                    *)
Take ==
    /\ sending = <<>> /\ queue # <<>>
    /\ sending' = <<Head(queue)>> /\ queue' = Tail(queue)
    /\ UNCHANGED <<proc, bridge, open, ended, files, now, count, history, lostStarts>>

Arrive ==
    /\ sending # <<>>
    /\ log' = Append(log, Head(sending))
    /\ store' = IF watching
                THEN LET e == Head(sending) IN [store EXCEPT ![e.run] = StoreStep(@, e)]
                ELSE store
    /\ sending' = <<>>
    /\ UNCHANGED <<proc, queue, watching, open, ended, files, now, count, history, lostStarts>>

Lose ==
    /\ sending # <<>>
    /\ sending' = <<>>
    /\ AfterLoss
    /\ UNCHANGED <<proc, bridge, open, ended, files, now, count, history>>

(* The process is gone, and with it its queue and its thread.               *)
Gone ==
    /\ proc' = Idle /\ queue' = <<>> /\ sending' = <<>>
    /\ lostStarts' = lostStarts \cup {e.run : e \in {f \in ToSet(queue \o sending) : f.code = NoCode}}

(* _flush_on_exit waits until the queue is empty, not until its last event  *)
(* was sent, and at most for its budget.                                   *)
Exit ==
    /\ proc.at = "exit"
    /\ Gone
    /\ UNCHANGED <<bridge, open, ended, files, now, count, history>>

(* The process is killed; the session goes on or is over.                   *)
Kill ==
    /\ proc.at \in {"work", "row", "leave"}
    /\ Gone
    /\ torn' = IF Unlogged THEN torn \cup {proc.slug} ELSE torn
    /\ UNCHANGED <<bridge, open, ended, files, now, count, final>>

Abandon ==
    /\ proc = Idle /\ open # NoRun
    /\ OverAt(open)
    /\ UNCHANGED <<proc, telemetry, bridge, files, now, count, torn, lostStarts>>

(* The client leaves, and comes back to a snapshot of the log.              *)
Unwatch ==
    /\ watching
    /\ watching' = FALSE /\ store' = [r \in Runs |-> <<>>]
    /\ UNCHANGED <<proc, telemetry, log, open, ended, files, now, count, history, lostStarts>>

Watch ==
    /\ ~watching
    /\ watching' = TRUE /\ store' = [r \in Runs |-> Timeline(log, r)]
    /\ UNCHANGED <<proc, telemetry, log, open, ended, files, now, count, history, lostStarts>>

Tick ==
    /\ now < MaxClock
    /\ now' = now + 1
    /\ UNCHANGED <<proc, telemetry, bridge, open, ended, files, count, history, lostStarts>>

-----------------------------------------------------------------------------
Init ==
    /\ proc = Idle /\ queue = <<>> /\ sending = <<>>
    /\ log = <<>> /\ watching = TRUE /\ store = [r \in Runs |-> <<>>]
    /\ open = NoRun /\ ended = {}
    /\ lr = [s \in Slugs |-> CHOOSE v \in Values : TRUE]
    /\ changes = <<>> /\ registry = <<>> /\ closes = <<>>
    /\ now = 0 /\ count = 0
    /\ final = [r \in Runs |-> lr] /\ torn = {} /\ lostStarts = {}

Next ==
    \/ \E r \in Runs, c \in DOMAIN Tier, s \in Slugs \cup {NoSlug} : Enter(r, c, s)
    \/ WriteField \/ WriteRow \/ Register \/ LogClose \/ Acquire \/ Release
    \/ Refuse \/ Leave \/ Exit \/ Kill \/ Abandon
    \/ Take \/ Arrive \/ Lose \/ Unwatch \/ Watch \/ Tick

Spec == Init /\ [][Next]_vars

-----------------------------------------------------------------------------
(* PROPERTIES                                                              *)

(* Types: events, rows and timelines stay in their domains; a session is    *)
(* open or over, a run that logged its close is registered.                *)
TypeOK ==
    /\ ToSet(log) \cup ToSet(queue) \cup ToSet(sending) \subseteq Event
    /\ Len(sending) <= 1 /\ Len(queue) <= 2
    /\ \A r \in Runs : ToSet(store[r]) \subseteq Event
    /\ open \in (Runs \ ended) \cup {NoRun} /\ ended \subseteq Runs
    /\ lr \in [Slugs -> Values] /\ ToSet(changes) \subseteq Change
    /\ ClosedRuns \subseteq Registered /\ Registered \subseteq Runs

HeardInOrder ==
    \A i, j \in 1 .. Len(log) : i < j =>
        \/ log[i].exec < log[j].exec
        \/ log[i].exec = log[j].exec /\ log[i].code = NoCode /\ log[j].code # NoCode

PairedSteps ==
    \A i, j \in 1 .. Len(log) :
        (log[i].exec = log[j].exec /\ log[i].code = NoCode /\ log[j].code # NoCode) =>
            LET tl == Timeline(log, log[i].run)
            IN  \E k \in DOMAIN tl :
                  /\ {m \in DOMAIN tl : tl[m].exec = log[i].exec} = {k}
                  /\ tl[k].code = log[j].code

(* The timeline of a run is what happened.  The bridge hears of commands in *)
(* the order they ran, of a start before its end, and of nothing twice,     *)
(* whatever is lost on the way; a command whose start and end both arrived  *)
(* is one step with its own exit code, also when an earlier execution of    *)
(* the same command was killed and is still shown as open.                 *)
TimelineTrue == HeardInOrder /\ PairedSteps

(* A MonitorStore that followed the events shows what the bridge folds from *)
(* its log, for every run of which no start was lost: only then do they     *)
(* differ in which open step an end belongs to.                            *)
StoreAgrees ==
    watching => \A r \in Runs \ lostStarts : store[r] = Timeline(log, r)

(* The pages say the same of a run, but for two cases.  The sessions page   *)
(* calls clean every run that logged its close: the replay of a session     *)
(* says crash of it if its last T9, or failing one its close, tells of a    *)
(* failure, and the history of a state_replay goes by a T9 and nothing     *)
(* else.  A run that logged its close is shown as running by neither page   *)
(* of sessions, for it was registered before.                              *)
PagesAgree ==
    \A r \in DOMAIN SessionsPage :
        /\ SessionsPage[r] # SessionReplay(r).outcome <=> r \in ClosedRuns /\ LastCode(r) = 1
        /\ SessionsPage[r] # StateReplay.history[r] <=> r \in ClosedRuns /\ ~SawT9(r)
        /\ r \in ClosedRuns => "running" \notin {SessionsPage[r], SessionReplay(r).outcome}

(* A replay that is not marked partial shows the LONGRUNNER as it was when  *)
(* the session was over, however much has been changed and logged since.    *)
(* A change without a row (of a killed command) is not undone.              *)
RewindTrue ==
    \A r \in ended :
        LET s == SlugOf(r)
        IN  (s # NoSlug /\ s \notin torn /\ ~(Unlogged /\ proc.slug = s)) =>
                LET past == LongrunnerAt(s, r)
                IN  past.exact => past.value = final[r][s]

=============================================================================
