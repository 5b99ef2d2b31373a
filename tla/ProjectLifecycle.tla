--------------------------- MODULE ProjectLifecycle ---------------------------
(***************************************************************************)
(* The life of the projects of a NightClaw workspace: which project a       *)
(* session works on, how a phase ends, how the owner lets the next phase    *)
(* begin, and what a crash or the owner's own commands do in between.       *)
(*                                                                         *)
(* Two files say where a project is: its row in ACTIVE-PROJECTS.md and its  *)
(* LONGRUNNER.md.  Sessions change them through bundle-exec, which rewrites *)
(* one field at a time; the owner changes the row with nightclaw-admin at   *)
(* any moment, lock or no lock, by a table he read before; time makes a     *)
(* hold expire.  LOCK.md lets one session run at a time (SessionLock), so   *)
(* there is one session here.                                              *)
(***************************************************************************)
EXTENDS Integers, FiniteSets

CONSTANTS
    Projects,
    Phases,
    NoPhase,            \* an empty successor
    NoProject,
    Priority,           \* Priority[p], the first column of the row
    Proposed,           \* Proposed[f]: the successors a worker may choose for f
    MaxReroutes,        \* worker prompt: 2
    MaxReescalations,   \* transition-expiry: 3
    ManagerScansHolds,  \* the manager also surfaces rows skipped for their status
    Brief,              \* a command of the owner takes less time than a pass
    CommandLimit,       \* bound: how many commands the owner runs
    CrashLimit          \* bound: how many sessions crash

ASSUME ProjectAssumption ==
    /\ NoProject \notin Projects /\ NoPhase \notin Phases
    /\ Priority \in [Projects -> Nat]
    /\ Proposed \in [Phases -> SUBSET Phases]
    /\ \A f \in Phases : Proposed[f] # {} /\ f \notin Proposed[f]

ASSUME LimitAssumption ==
    /\ MaxReroutes \in Nat /\ CommandLimit \in Nat /\ CrashLimit \in Nat
    /\ Brief \in BOOLEAN
    /\ MaxReescalations \in Nat
    /\ ManagerScansHolds \in BOOLEAN

VARIABLES
    row,          \* ACTIVE-PROJECTS.md: status and escalation_pending
    lr,           \* LONGRUNNER.md of every project: what routing depends on
    notes,        \* NOTIFICATIONS.md: the entries nightclaw-admin done acts on
    preapproved,  \* OPS-PREAPPROVAL.md: phase-auto-advance is active
    session,      \* the session that holds LOCK.md, and how far it is
    unclosed,     \* projects of runs with a CHECKPOINT and no registry entry
    owner,        \* the command of the owner under way, with what it has read
    crashes,      \* how many sessions have crashed
    granted,      \* history: projects whose finished phase may give way
    announced,    \* history: projects the owner was told about, since their
                  \* last phase_transition began
    notices,      \* history: expiry notices sent for the current hold
    spoiled       \* history: projects whose row the owner wrote by what he had
                  \* read before a session wrote it

vars == <<row, lr, notes, preapproved, session, unclosed, owner, crashes, granted,
          announced, notices, spoiled>>

files   == <<row, lr, notes, owner, announced, notices, spoiled>>
history == <<granted, announced, notices, spoiled>>

-----------------------------------------------------------------------------
(* THE FILES                                                               *)

(* The case of a status matters: dispatch ignores it, nightclaw-admin does *)
(* not.  The CLI writes "active" and "paused", the bundles "ACTIVE", the    *)
(* manager "PAUSED".                                                       *)
Statuses == {"active", "ACTIVE", "BLOCKED", "TRANSITION-HOLD", "paused", "PAUSED"}

(* "reason" stands for the reasons of route_block and surface_escalation,  *)
(* "transition-stale" for transition-stale-re<n>-<date>.                    *)
Escalations == {"none", "surfaced", "phase-complete", "transition-approved",
                "transition-stale", "transition-auto-paused", "reason"}

Row == [status : Statuses, esc : Escalations]

Longrunner == [name : Phases,
               status : {"ACTIVE", "COMPLETE"},
               successor : Phases \cup {NoPhase},
               timer : {"none", "running", "expired"},   \* transition_expires
               count : 0 .. MaxReescalations,  \* transition_reescalation_count
               objective : BOOLEAN]            \* next_pass.objective is not empty

(* Status: PHASE-TRANSITION and Status: ESCALATION entries.  They are marked *)
(* [DONE] and stay in the file.                                            *)
Note == [slug : Projects, kind : {"transition", "escalation"}]

IsActive(p) == row[p].status \in {"active", "ACTIVE"}
OnHold(p)   == row[p].status = "TRANSITION-HOLD"

-----------------------------------------------------------------------------
(* dispatch                                                                *)

Dispatchable == {p \in Projects : IsActive(p) /\ row[p].esc \in {"none", "surfaced"}}

AdvanceableUnapproved == {p \in Projects : OnHold(p) /\ lr[p].successor # NoPhase}

(* A hold may end when the owner approved it or phase-auto-advance is       *)
(* active, and the LONGRUNNER names a successor.                           *)
Advanceable ==
    {p \in Projects :
        /\ OnHold(p)
        /\ \/ row[p].esc = "transition-approved"
           \/ row[p].esc = "phase-complete" /\ preapproved
        /\ lr[p].successor # NoPhase}

(* The routing that longrunner-extract prints for the project.              *)
Routing(p) ==
    IF lr[p].status = "COMPLETE" THEN "COMPLETE"
    ELSE IF lr[p].objective THEN "ACTIVE" ELSE "STALE_OBJECTIVE"

Best(S) == {p \in S : \A q \in S : Priority[p] <= Priority[q]}

-----------------------------------------------------------------------------
(* BUNDLES                                                                 *)
(*                                                                         *)
(* bundle-exec applies the writes of a bundle one by one, in the order of   *)
(* bundles.yaml, each of them a read and a rewrite of one file, and then    *)
(* appends the notification.  LrWrite, RowWrite and NoteKinds say what the  *)
(* i-th step does.  Fields no command branches on are left out.             *)
(* The last two bundles are the manager's own edits, in the order of its    *)
(* prompt.                                                                 *)

BundleLength ==
    [longrunner_update |-> 1, phase_transition |-> 7, phase_advance |-> 8,
     route_block |-> 2, surface_escalation |-> 2, reescalate |-> 3,
     auto_pause |-> 2]

Bundles == DOMAIN BundleLength

(* Mutant: the hold gets no deadline.                                      *)
TransitionLrNoTimer(i, l, next) ==
    CASE i = 1 -> [l EXCEPT !.status = "COMPLETE"]
      [] i = 2 -> [l EXCEPT !.successor = next]
      [] i = 4 -> [l EXCEPT !.count = 0]
      [] OTHER -> l

TransitionLr(i, l, next) ==
    CASE i = 1 -> [l EXCEPT !.status = "COMPLETE"]
      [] i = 2 -> [l EXCEPT !.successor = next]
      [] i = 3 -> [l EXCEPT !.timer = "running"]
      [] i = 4 -> [l EXCEPT !.count = 0]
      [] OTHER -> l

AdvanceLr(i, l, next) ==
    CASE i = 1 -> [l EXCEPT !.name = next]
      [] i = 2 -> [l EXCEPT !.status = "ACTIVE"]
      [] i = 3 -> [l EXCEPT !.successor = NoPhase]
      [] i = 4 -> [l EXCEPT !.timer = "none"]
      [] i = 5 -> [l EXCEPT !.count = 0]
      [] i = 6 -> [l EXCEPT !.objective = TRUE]
      [] OTHER -> l

LrWrite(b, i, l, next) ==
    CASE b = "phase_transition" -> TransitionLr(i, l, next)
      [] b = "phase_advance" -> AdvanceLr(i, l, next)
      [] b = "longrunner_update" -> [l EXCEPT !.objective = TRUE]
      [] b = "reescalate" /\ i = 2 -> [l EXCEPT !.count = @ + 1]
      [] OTHER -> l

TransitionRow(i, r) ==
    CASE i = 5 -> [r EXCEPT !.status = "TRANSITION-HOLD"]
      [] i = 6 -> [r EXCEPT !.esc = "phase-complete"]
      [] OTHER -> r

AdvanceRowStaysOnHold(i, r) == IF i = 8 THEN [r EXCEPT !.esc = "none"] ELSE r

AdvanceRow(i, r) ==
    CASE i = 7 -> [r EXCEPT !.status = "ACTIVE"]
      [] i = 8 -> [r EXCEPT !.esc = "none"]
      [] OTHER -> r

RowWrite(b, i, r) ==
    CASE b = "phase_transition" -> TransitionRow(i, r)
      [] b = "phase_advance" -> AdvanceRow(i, r)
      [] b = "route_block" /\ i = 1 -> [r EXCEPT !.status = "BLOCKED"]
      [] b = "route_block" /\ i = 2 -> [r EXCEPT !.esc = "reason"]
      [] b = "surface_escalation" /\ i = 1 -> [r EXCEPT !.esc = "reason"]
      [] b = "reescalate" /\ i = 3 -> [r EXCEPT !.esc = "transition-stale"]
      [] b = "auto_pause" /\ i = 1 -> [status |-> "PAUSED", esc |-> "transition-auto-paused"]
      [] OTHER -> r

(* The notification of a bundle, if its i-th step is one.                  *)
NoteKinds(b, i) ==
    CASE b = "phase_transition" /\ i = 7 -> {"transition"}
      [] b = "surface_escalation" /\ i = 2 -> {"escalation"}
      [] OTHER -> {}

(* Steps after which NOTIFICATIONS.md tells the owner about the project.    *)
Tells(b, i) == \/ NoteKinds(b, i) # {}
               \/ b = "reescalate" /\ i = 1
               \/ b = "auto_pause" /\ i = 2

-----------------------------------------------------------------------------
(* SESSIONS                                                                *)

Stages == {"start", "dispatch", "advance", "extract", "pass", "gate", "bundle",
           "block", "detect", "accuse", "scan", "surface", "expiry", "expire",
           "review", "close"}

NoSession ==
    [kind |-> "none", stage |-> "start", slug |-> NoProject, todo |-> {},
     reroutes |-> 0, checkpoint |-> FALSE,
     bundle |-> "route_block", step |-> 1, succ |-> NoPhase, then |-> "close"]

Session ==
    [kind : {"none", "worker", "manager"}, stage : Stages,
     slug : Projects \cup {NoProject}, todo : SUBSET Projects,
     reroutes : 0 .. MaxReroutes, checkpoint : BOOLEAN,
     bundle : Bundles, step : 1 .. 8, succ : Phases \cup {NoPhase},
     then : Stages]

At(stage) == session.stage = stage

Goto(stage) == session' = [session EXCEPT !.stage = stage]

(* bundle-exec b for project p; the session goes on at stage then.         *)
Run(b, p, next, then) ==
    session' = [session EXCEPT !.stage = "bundle", !.slug = p, !.bundle = b,
                               !.step = 1, !.succ = next, !.then = then]

(* The owner's commands take seconds, and at most the 20 of the bridge; a    *)
(* pass takes minutes, and sessions are hours apart.                        *)
NoneUnderWay == Brief => owner.cmd = "none"

Start(kind, stage) ==
    /\ session.kind = "none" /\ NoneUnderWay
    /\ session' = [NoSession EXCEPT !.kind = kind, !.stage = stage]
    /\ UNCHANGED <<files, preapproved, unclosed, crashes, granted>>

StartWorker  == Start("worker", "dispatch")
StartManager == Start("manager", "detect")

(* A phase that was finished and has not begun to give way: phase_advance    *)
(* writes the new name first, and then name and successor agree.            *)
Finished(p) == lr[p].status = "COMPLETE" /\ lr[p].successor # lr[p].name

Min3(n) == IF n < MaxReescalations THEN n ELSE MaxReescalations

(* A session writes rows while a command of the owner is under way.         *)
Meanwhile ==
    owner' = IF owner.cmd = "none" THEN owner
             ELSE [owner EXCEPT !.missed = @ \cup {p \in Projects : row'[p] # row[p]}]

(* One write of the bundle under way.                                      *)
BundleWrite ==
    /\ At("bundle")
    /\ LET b == session.bundle
           i == session.step
           p == session.slug
           begins == b = "phase_transition" /\ i = 1
           ends   == b = "phase_advance" /\ i = 1 /\ lr[p].name # session.succ
       IN  /\ lr' = [lr EXCEPT ![p] = LrWrite(b, i, @, session.succ)]
           /\ row' = [row EXCEPT ![p] = RowWrite(b, i, @)]
           /\ notes' = notes \cup {[slug |-> p, kind |-> k] : k \in NoteKinds(b, i)}
           /\ session' = IF i = BundleLength[b]
                         THEN [session EXCEPT !.stage = session.then, !.step = 1,
                                 !.bundle = "route_block", !.succ = NoPhase,
                                 !.then = "close"]
                         ELSE [session EXCEPT !.step = i + 1]
           /\ granted' = IF begins \/ ends THEN granted \ {p} ELSE granted
           /\ announced' = IF begins THEN announced \ {p}
                           ELSE IF Tells(b, i) THEN announced \cup {p}
                           ELSE announced
           /\ notices' = [notices EXCEPT ![p] =
                             IF begins THEN 0
                             ELSE IF b = "reescalate" /\ i = 1 THEN Min3(@ + 1)
                             ELSE @]
    /\ Meanwhile
    /\ UNCHANGED <<preapproved, unclosed, crashes, spoiled>>

(* T9: the session registers its run.  next-run-id gives the id after the   *)
(* highest registered one, so a run that crashed before has the same id,    *)
(* and crash-detect no longer sees it.                                      *)
Close ==
    /\ session.kind # "none" /\ At("close")
    /\ session' = NoSession
    /\ unclosed' = {}
    /\ UNCHANGED <<files, preapproved, crashes, granted>>

Crash ==
    /\ session.kind # "none" /\ crashes < CrashLimit
    /\ crashes' = crashes + 1
    /\ session' = NoSession
    /\ unclosed' = IF session.checkpoint THEN unclosed \cup {session.slug}
                                         ELSE unclosed
    /\ UNCHANGED <<files, preapproved, granted>>

-----------------------------------------------------------------------------
(* THE WORKER                                                              *)

(* T1.  A project whose hold may end is looked at only when no project is   *)
(* active.  With nothing to do the session looks for idle work (T1.5),      *)
(* which changes no project, and closes.                                    *)
Dispatch ==
    /\ At("dispatch")
    /\ \/ \E p \in Best(Dispatchable) :
             /\ session' = [session EXCEPT !.stage = "extract", !.slug = p]
             /\ UNCHANGED granted
       \/ /\ Dispatchable = {}
          /\ \E p \in Best(Advanceable) :
                /\ session' = [session EXCEPT !.stage = "advance", !.slug = p]
                /\ granted' = IF Finished(p) /\ row[p].esc = "phase-complete" /\ preapproved
                               THEN granted \cup {p} ELSE granted
       \/ /\ Dispatchable = {} /\ Advanceable = {}
          /\ Goto("close")
          /\ UNCHANGED granted
    /\ UNCHANGED <<files, preapproved, unclosed, crashes>>

(* T2-ADVANCE.  A hold that ends by pre-approval may be outside of its      *)
(* boundary.  The guards of phase_advance ask for a COMPLETE phase; the     *)
(* successor was seen by dispatch.                                          *)
AdvancePhase ==
    /\ At("advance")
    /\ LET p == session.slug
       IN  \/ /\ row[p].esc = "phase-complete"
              /\ Run("surface_escalation", p, NoPhase, "close")
           \/ /\ lr[p].status = "COMPLETE"
              /\ Run("phase_advance", p, lr[p].successor, "extract")
           \/ /\ lr[p].status # "COMPLETE"
              /\ Goto("close")
    /\ UNCHANGED <<files, preapproved, unclosed, crashes, granted>>

(* T2 to T3 of an active phase: the pass may be found unauthorised (T2.7)   *)
(* or lack a tool (T3); both block the project and dispatch again.  T4      *)
(* begins with the CHECKPOINT.  A stale objective escalates.                *)
Extract ==
    /\ At("extract")
    /\ LET p == session.slug
       IN  \/ /\ Routing(p) = "STALE_OBJECTIVE"
              /\ Run("surface_escalation", p, NoPhase, "dispatch")
           \/ /\ Routing(p) = "ACTIVE"
              /\ \/ session' = [session EXCEPT !.stage = "pass", !.checkpoint = TRUE]
                 \/ Run("surface_escalation", p, NoPhase, "block")
                 \/ Goto("block")
    /\ UNCHANGED <<files, preapproved, unclosed, crashes, granted>>

(* The blocker protocol: route_block, then dispatch at most MaxReroutes     *)
(* times again.                                                             *)
Block ==
    /\ At("block")
    /\ LET again == session.reroutes < MaxReroutes
       IN  session' = [session EXCEPT
              !.stage = "bundle", !.bundle = "route_block", !.step = 1,
              !.then = IF again THEN "dispatch" ELSE "close",
              !.reroutes = IF again THEN @ + 1 ELSE @]
    /\ UNCHANGED <<files, preapproved, unclosed, crashes, granted>>

(* The worker writes the successor it recommends, then runs                 *)
(* phase_transition, which insists on an ACTIVE phase.                      *)
Propose(p) ==
    /\ \E next \in Proposed[lr[p].name] :
          /\ lr' = [lr EXCEPT ![p].successor = next]
          /\ \/ /\ lr[p].status = "ACTIVE"
                /\ Run("phase_transition", p, next, "close")
             \/ /\ lr[p].status # "ACTIVE"
                /\ Goto("close")
    /\ UNCHANGED <<row, notes, preapproved, unclosed, owner, crashes, history>>

(* T2, routing=COMPLETE.                                                   *)
RouteComplete ==
    /\ At("extract") /\ Routing(session.slug) = "COMPLETE"
    /\ Propose(session.slug)

(* T4 to T6.1: the pass is executed and recorded.                           *)
RecordPass ==
    /\ At("pass") /\ NoneUnderWay
    /\ Run("longrunner_update", session.slug, NoPhase, "gate")
    /\ UNCHANGED <<files, preapproved, unclosed, crashes, granted>>

(* T6.2: the stop condition is met, or it is not.                           *)
StopConditionMet == At("gate") /\ Propose(session.slug)

StopConditionOpen ==
    /\ At("gate") /\ Goto("close")
    /\ UNCHANGED <<files, preapproved, unclosed, crashes, granted>>

-----------------------------------------------------------------------------
(* THE MANAGER                                                             *)

(* The manager acts on what a command printed: the projects in todo, one    *)
(* after the other.                                                         *)
List(stage, projects) ==
    session' = [session EXCEPT !.stage = stage, !.todo = projects]

(* T0: crash-detect.                                                        *)
DetectCrashes ==
    /\ At("detect")
    /\ List("accuse", unclosed)
    /\ UNCHANGED <<files, preapproved, unclosed, crashes, granted>>

Accuse ==
    /\ At("accuse")
    /\ \E p \in session.todo :
          session' = [session EXCEPT !.stage = "bundle", !.slug = p,
                        !.bundle = "surface_escalation", !.step = 1,
                        !.then = "accuse", !.todo = @ \ {p}]
    /\ UNCHANGED <<files, preapproved, unclosed, crashes, granted>>

(* timing-check: a worker that closed minutes ago makes the manager leave.  *)
Continue ==
    /\ At("accuse") /\ session.todo = {}
    /\ Goto("scan")
    /\ UNCHANGED <<files, preapproved, unclosed, crashes, granted>>

Defer ==
    /\ At("accuse") /\ session.todo = {}
    /\ Goto("close")
    /\ UNCHANGED <<files, preapproved, unclosed, crashes, granted>>

(* T2: the escalations that dispatch prints in its SKIP lines.  Those of a  *)
(* row that is skipped for its status are not printed.                      *)
Unsurfaced(p) ==
    /\ row[p].esc \notin {"none", "surfaced"}
    /\ IsActive(p) \/ ManagerScansHolds
    /\ ~(row[p].esc = "phase-complete" /\ preapproved)

ScanEscalations ==
    /\ At("scan")
    /\ List("surface", {p \in Projects : Unsurfaced(p)})
    /\ UNCHANGED <<files, preapproved, unclosed, crashes, granted>>

Surface ==
    /\ At("surface")
    /\ \/ \E p \in session.todo :
             /\ row' = [row EXCEPT ![p].esc = "surfaced"]
             /\ announced' = announced \cup {p}
             /\ session' = [session EXCEPT !.todo = @ \ {p}]
       \/ /\ session.todo = {}
          /\ Goto("expiry")
          /\ UNCHANGED <<row, announced>>
    /\ Meanwhile
    /\ UNCHANGED <<lr, notes, preapproved, unclosed, crashes, granted, notices, spoiled>>

(* T2: transition-expiry.  It looks at the status, the deadline and the     *)
(* counter, and not at the escalation.                                      *)
Expired == {p \in Projects : OnHold(p) /\ lr[p].timer = "expired"}

ScanExpiry ==
    /\ At("expiry")
    /\ List("expire", Expired)
    /\ UNCHANGED <<files, preapproved, unclosed, crashes, granted>>

ExpiryActionNeverPauses(p) == "reescalate"

ExpiryActionEarly(p) ==
    IF lr[p].count + 1 >= MaxReescalations THEN "auto_pause" ELSE "reescalate"

ExpiryAction(p) ==
    IF lr[p].count >= MaxReescalations THEN "auto_pause" ELSE "reescalate"

Expire ==
    /\ At("expire")
    /\ \/ \E p \in session.todo :
             session' = [session EXCEPT !.stage = "bundle", !.slug = p,
                           !.bundle = ExpiryAction(p), !.step = 1,
                           !.then = "expire", !.todo = @ \ {p}]
       \/ session.todo = {} /\ Goto("review")
    /\ UNCHANGED <<files, preapproved, unclosed, crashes, granted>>

(* T6: a major change of priorities is escalated.                           *)
Review ==
    /\ At("review")
    /\ \/ Goto("close")
       \/ \E p \in Projects : Run("surface_escalation", p, NoPhase, "close")
    /\ UNCHANGED <<files, preapproved, unclosed, crashes, granted>>

-----------------------------------------------------------------------------
(* THE OWNER AND TIME                                                      *)

(* A command of nightclaw-admin looks at the status of the row first; what  *)
(* it writes then is the work of another process, update_project_field,     *)
(* which reads the table anew and writes all of it back with one field      *)
(* changed.  Resolving a block takes two of these.                         *)
Fields(cmd, r) ==
    CASE cmd = "pause" -> [r EXCEPT !.status = "paused"]
      [] cmd \in {"unpause", "activate"} -> [r EXCEPT !.status = "active"]
      [] cmd = "approve" -> [r EXCEPT !.esc = "transition-approved"]
      [] cmd = "clear" -> [r EXCEPT !.esc = "none"]

NoRows == [p \in Projects |-> [status |-> "active", esc |-> "none"]]

NoCommand(n) ==
    [cmd |-> "none", slug |-> NoProject, read |-> FALSE, table |-> NoRows, missed |-> {},
     ran |-> n]

(* table is the copy to be written back, missed the projects whose rows      *)
(* sessions have written since the command looked at them, ran the number   *)
(* of commands so far.                                                     *)
Command ==
    [cmd : {"none", "pause", "unpause", "approve", "clear", "activate"},
     slug : Projects \cup {NoProject}, read : BOOLEAN,
     table : [Projects -> Row], missed : SUBSET Projects, ran : 0 .. CommandLimit]

OwnerRuns(cmd, p) ==
    /\ owner.cmd = "none" /\ owner.ran < CommandLimit
    /\ owner' = [owner EXCEPT !.cmd = cmd, !.slug = p, !.ran = @ + 1]
    /\ UNCHANGED <<row, lr, notes, preapproved, session, unclosed, crashes, history>>

Pause(p)   == row[p].status \in {"active", "TRANSITION-HOLD"} /\ OwnerRuns("pause", p)
Unpause(p) == row[p].status = "paused" /\ OwnerRuns("unpause", p)

(* done <line> looks at the kind and the project of the line and at the     *)
(* status of the row; a line may be resolved again.                         *)
ApproveTransition(n) ==
    n.kind = "transition" /\ OnHold(n.slug) /\ OwnerRuns("approve", n.slug)

ResolveBlock(n) ==
    n.kind = "escalation" /\ row[n.slug].status = "BLOCKED" /\ OwnerRuns("clear", n.slug)

(* A new copy is up to date with every row; whether the row still is what   *)
(* the command found it to be, nobody asks again.                          *)
OwnerReads ==
    /\ owner.cmd # "none" /\ ~owner.read
    /\ owner' = [owner EXCEPT !.read = TRUE, !.table = row, !.missed = @ \cap {owner.slug}]
    /\ UNCHANGED <<row, lr, notes, preapproved, session, unclosed, crashes, history>>

OwnerWrites ==
    /\ owner.read
    /\ LET p == owner.slug
       IN  /\ row' = [owner.table EXCEPT ![p] = Fields(owner.cmd, @)]
           /\ granted' = IF owner.cmd = "approve" /\ Finished(p)
                         THEN granted \cup {p} ELSE granted
    /\ owner' = IF owner.cmd = "clear"
                THEN [NoCommand(owner.ran) EXCEPT !.cmd = "activate", !.slug = owner.slug]
                ELSE NoCommand(owner.ran)
    /\ spoiled' = spoiled \cup owner.missed
    /\ UNCHANGED <<lr, notes, preapproved, session, unclosed, crashes, announced, notices>>

(* The terminal is closed, or the bridge kills the script after 20 seconds. *)
OwnerStops ==
    /\ owner.cmd # "none"
    /\ owner' = NoCommand(owner.ran)
    /\ UNCHANGED <<row, lr, notes, preapproved, session, unclosed, crashes, history>>

(* arm and disarm, or the end of the pre-approval's term.                   *)
ChangePreapproval ==
    /\ preapproved' = ~preapproved
    /\ UNCHANGED <<files, session, unclosed, crashes, granted>>

(* The deadline of a hold passes.                                           *)
TimerExpires(p) ==
    /\ lr[p].timer = "running"
    /\ lr' = [lr EXCEPT ![p].timer = "expired"]
    /\ UNCHANGED <<row, notes, preapproved, session, unclosed, owner, crashes, history>>

-----------------------------------------------------------------------------
Init ==
    /\ row = NoRows
    /\ \E first \in [Projects -> Phases], objective \in [Projects -> BOOLEAN] :
          lr = [p \in Projects |->
                  [name |-> first[p], status |-> "ACTIVE", successor |-> NoPhase,
                   timer |-> "none", count |-> 0, objective |-> objective[p]]]
    /\ notes = {}
    /\ preapproved = FALSE
    /\ session = NoSession
    /\ unclosed = {}
    /\ owner = NoCommand(0)
    /\ crashes = 0
    /\ granted = {} /\ announced = {} /\ spoiled = {}
    /\ notices = [p \in Projects |-> 0]

Worker == \/ Dispatch \/ AdvancePhase \/ Extract \/ Block \/ RouteComplete
          \/ RecordPass \/ StopConditionMet \/ StopConditionOpen

Manager == \/ DetectCrashes \/ Accuse \/ Continue \/ Defer
           \/ ScanEscalations \/ Surface \/ ScanExpiry \/ Expire \/ Review

Work == Worker \/ Manager \/ BundleWrite \/ Close

Owner == \/ \E p \in Projects : Pause(p) \/ Unpause(p)
         \/ \E n \in notes : ApproveTransition(n) \/ ResolveBlock(n)
         \/ OwnerReads \/ OwnerWrites \/ OwnerStops \/ ChangePreapproval

Next == \/ StartWorker \/ StartManager \/ Work \/ Crash
        \/ Owner \/ \E p \in Projects : TimerExpires(p)

Spec == Init /\ [][Next]_vars

(* A session that started runs to its end unless it crashes; workers and    *)
(* managers are fired again and again, and not every manager comes within   *)
(* minutes of a worker; deadlines pass.  The owner does nothing, or         *)
(* anything.                                                                *)
FairSpec ==
    /\ Spec
    /\ WF_vars(Work) /\ WF_vars(OwnerReads \/ OwnerWrites)
    /\ SF_vars(StartWorker) /\ SF_vars(StartManager) /\ SF_vars(Continue)
    /\ \A p \in Projects : WF_vars(TimerExpires(p))

-----------------------------------------------------------------------------
(* PROPERTIES                                                              *)

(* Types: rows, LONGRUNNERs, notifications and the session stay in their    *)
(* domains; the re-escalation counter stays within its bound.               *)
TypeOK ==
    /\ row \in [Projects -> Row]
    /\ lr \in [Projects -> Longrunner]
    /\ notes \subseteq Note
    /\ preapproved \in BOOLEAN
    /\ session \in Session
    /\ unclosed \subseteq Projects
    /\ owner \in Command
    /\ crashes \in 0 .. CrashLimit
    /\ granted \subseteq Projects /\ announced \subseteq Projects
    /\ spoiled \subseteq Projects
    /\ notices \in [Projects -> 0 .. MaxReescalations]

(* ProjectLifecycle implements PhaseGate: through crashes between any two   *)
(* writes, retries, pauses and expiries, a phase gives way only after it    *)
(* was finished and, after that, approved or pre-approved; except that of   *)
(* spoiled, where an approval of long ago may have come back.               *)
Gate == INSTANCE PhaseGate WITH
    phase <- [p \in Projects |-> lr[p].name],
    gate  <- [p \in Projects |->
                IF ~Finished(p) THEN "working"
                ELSE IF p \in granted THEN "authorised" ELSE "waiting"]

GateRefinement == Gate!GateSpec

(* While no session has crashed, a project on hold can be advanced as soon  *)
(* as the owner approves: its phase is complete and its successor known,    *)
(* whatever the owner did to its row and to those of other projects while   *)
(* sessions were writing.  A spoiled row is what a session had left behind: *)
(* a hold that is over may come back by it.                                *)
HoldCanAdvance ==
    crashes = 0 /\ session.kind = "none" =>
        \A p \in Projects \ spoiled : OnHold(p) => Finished(p) /\ lr[p].successor # NoPhase

CounterFollowsNotices ==
    \A p \in Projects \ spoiled : OnHold(p) => lr[p].count <= notices[p]

(* transition-expiry pauses a project only after the owner was sent the     *)
(* announced number of notices about this very hold, crashes included; the  *)
(* counter of a hold never runs ahead of the notices.                       *)
NoticesBeforePause ==
    /\ []CounterFollowsNotices
    /\ [][\A p \in Projects \ spoiled' :
             row[p].status # "PAUSED" /\ row'[p].status = "PAUSED" =>
                 notices[p] = MaxReescalations]_vars

(* The owner hears of what waits for him, and a project waits only for him. *)
(* A hold never goes unnoticed, also when the session that put a project on *)
(* hold crashed before its notification.  An escalation never takes an      *)
(* active project out of dispatch for good: the manager surfaces it, and    *)
(* the project is eligible again; it leaves "phase-complete" alone while    *)
(* the pre-approval is active.  A hold that the owner brought back by an    *)
(* old table has no deadline, and nobody may ever be told of it.            *)
OwnerIsTold ==
    \A p \in Projects :
        /\ OnHold(p) ~> (p \in announced \/ ~OnHold(p) \/ p \in spoiled)
        /\ (IsActive(p) /\ row[p].esc \notin {"none", "surfaced"}) ~>
               \/ ~IsActive(p)
               \/ row[p].esc \in {"none", "surfaced"}
               \/ row[p].esc = "phase-complete" /\ preapproved

-----------------------------------------------------------------------------
(* WHAT THE DOCUMENTS SAY AND THE CODE DOES NOT DO                         *)

(* nightclaw-admin.sh answers an approval with "Worker advances on next     *)
(* pass": an approved hold that names its successor does not stay as it is  *)
(* while the workers come and find nothing else to do.                      *)
ApprovalIsActedOn ==
    \A p \in Projects :
        (OnHold(p) /\ row[p].esc = "transition-approved" /\ lr[p].successor # NoPhase) ~>
            \/ Dispatchable # {}
            \/ ~OnHold(p)
            \/ row[p].esc # "transition-approved"
=============================================================================
