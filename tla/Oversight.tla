------------------------------ MODULE Oversight ------------------------------
(***************************************************************************)
(* What is seen of the sessions' work, and by whom.                        *)
(*                                                                         *)
(* A worker that finds no project to work on reads NOTIFICATIONS.md and    *)
(* acts on the oldest entry that scan-notifications finds, or does what    *)
(* idle-triage says: in the end it proposes a project.  A manager asks     *)
(* crash-detect, change-detect, audit-spine and prune-candidates, reviews  *)
(* the passes it has not seen, and tells the owner.  The files are all     *)
(* that one session knows of another; any session may die at any step.     *)
(*                                                                         *)
(* Sessions run one at a time (SessionLock), an ops command is one step    *)
(* (BundleExec has its writes), and what a phase goes through is           *)
(* ProjectLifecycle.  Of AUDIT-LOG.md and SESSION-REGISTRY.md the runs are *)
(* kept that did not come to their end: the rows of a run that did change  *)
(* no answer but the list of clean runs.                                   *)
(***************************************************************************)
EXTENDS Integers, Sequences, FiniteSets, SequencesExt

CONSTANTS Slugs, NoSlug,
          Notifications,  \* "PROJECT:notifications" in a CHECKPOINT row
          LastDay,        \* days are 0 .. LastDay
          OldAfter,       \* days after which a review row is due for housekeeping
          MaxCrashes

ASSUME OversightAssumption ==
    /\ NoSlug \notin Slugs /\ Notifications \notin Slugs /\ Notifications # NoSlug
    /\ {LastDay, OldAfter, MaxCrashes} \subseteq Nat

Never == -1

VARIABLES
    day,
    notices,    \* entries of NOTIFICATIONS.md that are not done, oldest first
    install,    \* where the entry is that the file is shipped with
    rows,       \* ACTIVE-PROJECTS.md: status, escalation_pending, last_worker_pass
    reviews,    \* MANAGER-REVIEW-REGISTRY.md: day of the last row of a slug
    drafts,     \* slugs with a LONGRUNNER-DRAFT.md
    open,       \* the rows under the run id that next-run-id will give
    left,       \* the rows of runs that ended early and whose id is not given again
    session,
    crashes,
    unseen,     \* history: slugs with a pass that no manager has looked at
    shown       \* history: slugs whose draft the owner was told of

papers  == <<notices, install>>
trail   == <<open, left>>
history == <<unseen, shown>>
vars    == <<day, papers, rows, reviews, drafts, trail, session, crashes, history>>

(* "alert" stands for what the manager writes of crashes, halts, anomalies  *)
(* and plans.  Entries of LOW and INFO priority (MANAGER-DEFERRED, APPROVED) *)
(* are left out: no session takes them.                                    *)
Kinds  == {"guide", "alert", "draft"}
Status == {"none", "ACTIVE", "other"}
Row    == [status : Status, esc : {"none", "crash", "surfaced"}, pass : Never .. LastDay]
Run    == [steps : SUBSET {"STARTUP", "T0", "T4", "T9"},
           slug : Slugs \cup {NoSlug, Notifications}, registered : BOOLEAN]
Stages == {"started", "working", "passed", "noticed", "drafting", "announcing",
           "detected", "surfaced", "reviewing", "planning", "auditing", "pruning",
           "closing", "registered"}

Fresh == [steps |-> {}, slug |-> NoSlug, registered |-> FALSE]

(* day is the one the run id bears; "subject" is the project or the kind of *)
(* notice the session works on, "todo" what a manager has yet to review.    *)
Idle == [kind |-> "none", stage |-> "started", day |-> 0, run |-> Fresh,
         subject |-> NoSlug, todo |-> {}]

At(kind, stage) == session.kind = kind /\ session.stage = stage
To(stage)       == session' = [session EXCEPT !.stage = stage]

Active == {s \in Slugs : rows[s].status = "ACTIVE"}

(* cmd_dispatch: "surfaced-" counts as no escalation.                       *)
Dispatchable == {s \in Active : rows[s].esc \in {"none", "surfaced"}}

(* One more entry at the end.  An entry like one that waits is not told     *)
(* from it.                                                                *)
Noted(kind) == IF Contains(notices, kind) THEN notices ELSE Append(notices, kind)

-----------------------------------------------------------------------------
(* WHAT THE OPS COMMANDS SAY                                                *)

(* Mutant: the newest entry is taken first.                                 *)
FoundNewest == {notices[i] : i \in {Len(notices)} \ {0}}

(* cmd_scan_notifications, and the first of what it finds.                  *)
Found == {notices[i] : i \in {1} \cap DOMAIN notices}

(* cmd_idle_triage.  Whether tiers 1 to 3b ("upkeep") come first depends on *)
(* files that the model leaves out: the knowledge repository, the open     *)
(* failure modes, and how many memory files there are.                     *)
Tiers ==
    {"upkeep",
     IF \E s \in Slugs : reviews[s] # Never /\ day - reviews[s] > OldAfter THEN "3c"
     ELSE IF drafts # {} THEN "4"
     ELSE IF Active = {} \/ \E s \in Slugs : rows[s].status = "other" THEN "4a"
     ELSE "NONE"}

(* cmd_crash_detect: a CHECKPOINT, and no line in SESSION-REGISTRY.md.      *)
Detected(r) ==
    IF r.registered THEN "none"
    ELSE IF "T4" \in r.steps THEN "CRASH"
    ELSE IF r.steps \cap {"T0", "STARTUP"} # {} THEN "ROUTING_HALT"
    ELSE "none"

(* cmd_audit_spine: rows of AUDIT-LOG.md alone, and no STARTUP among them.  *)
Spine(r) ==
    IF {"T0", "T4", "T9"} \subseteq r.steps THEN "CLEAN_PASS"
    ELSE IF {"T0", "T4"} \subseteq r.steps THEN "CRASH"
    ELSE IF "T0" \in r.steps THEN "ROUTING_HALT"
    ELSE "UNKNOWN"

(* Mutant: change-detect compares the dates of pass and review.             *)
ChangesByDate(s) ==
    IF rows[s].pass = Never THEN "SKIP"
    ELSE IF reviews[s] = Never \/ rows[s].pass > reviews[s] THEN "NEW_ACTIVITY"
    ELSE "CURRENT"

(* cmd_change_detect.  A pass has a time of day, a review is stamped with   *)
(* the date and read as its midnight: a pass of the same day is later.      *)
Changes(s) ==
    IF rows[s].pass = Never THEN "SKIP"
    ELSE IF reviews[s] = Never \/ rows[s].pass >= reviews[s] THEN "NEW_ACTIVITY"
    ELSE "CURRENT"

(* The rows there are of runs that have not come to their end.              *)
Runs == left \cup {open} \cup (IF session.kind = "none" THEN {} ELSE {session.run})

CrashedRuns  == {r \in Runs : Detected(r) = "CRASH"}
CrashedSpine == {r \in Runs : Spine(r) = "CRASH"}

-----------------------------------------------------------------------------
(* STARTING AND ENDING                                                      *)

Log(step, slug) == [session.run EXCEPT !.steps = @ \cup {step},
                                       !.slug = IF slug = NoSlug THEN @ ELSE slug]

(* next-run-id gives the id of a run that died unregistered on the same day *)
(* again: its rows become those of this run.  A STARTUP row says that the   *)
(* lock was stale, which crash-recover may have seen to before.             *)
Begin(kind, steps) ==
    /\ session.kind = "none"
    /\ \E startup \in {{}} \cup (IF crashes = 0 THEN {} ELSE {{"STARTUP"}}) :
          session' = [Idle EXCEPT !.kind = kind, !.day = day,
                         !.run = [open EXCEPT !.steps = @ \cup steps \cup startup]]
    /\ open' = Fresh
    /\ UNCHANGED left

(* T0: the result of the integrity check; a manager logs its own at T1.     *)
StartWorker ==
    /\ Begin("worker", {"T0"})
    /\ UNCHANGED <<day, papers, rows, reviews, drafts, crashes, history>>

StartManager ==
    /\ Begin("manager", {})
    /\ UNCHANGED <<day, papers, rows, reviews, drafts, crashes, history>>

(* session_close: SESSION-REGISTRY.md, then AUDIT-LOG.md.                   *)
Register ==
    /\ session.kind # "none" /\ session.stage = "closing"
    /\ session' = [session EXCEPT !.stage = "registered", !.run.registered = TRUE]
    /\ UNCHANGED <<day, papers, rows, reviews, drafts, trail, crashes, history>>

LogClose ==
    /\ session.kind # "none" /\ session.stage = "registered"
    /\ session' = Idle
    /\ UNCHANGED <<day, papers, rows, reviews, drafts, trail, crashes, history>>

(* A session dies.  If it is not registered and its day has not passed, its *)
(* run id will be given again.                                             *)
Crash ==
    /\ session.kind # "none" /\ crashes < MaxCrashes
    /\ crashes' = crashes + 1 /\ session' = Idle
    /\ IF session.day = day /\ ~session.run.registered
       THEN open' = session.run /\ UNCHANGED left
       ELSE left' = left \cup {session.run} /\ UNCHANGED open
    /\ UNCHANGED <<day, papers, rows, reviews, drafts, history>>

(* Midnight: run ids begin with another date.                               *)
NextDay ==
    /\ day < LastDay
    /\ day' = day + 1
    /\ left' = left \cup ({open} \ {Fresh}) /\ open' = Fresh
    /\ UNCHANGED <<papers, rows, reviews, drafts, session, crashes, history>>

-----------------------------------------------------------------------------
(* THE WORKER                                                               *)

Checkpointed(subject, stage) ==
    session' = [session EXCEPT !.stage = stage, !.subject = subject,
                   !.run = Log("T4", IF subject \in Slugs THEN subject ELSE Notifications)]

(* T1 to T4: the CHECKPOINT row comes before the work.                      *)
Work(s) ==
    /\ At("worker", "started") /\ s \in Dispatchable
    /\ Checkpointed(s, "working")
    /\ UNCHANGED <<day, papers, rows, reviews, drafts, trail, crashes, history>>

(* T6: longrunner_update stamps the row.                                    *)
RecordPass ==
    /\ At("worker", "working")
    /\ rows' = [rows EXCEPT ![session.subject].pass = day]
    /\ unseen' = unseen \cup {session.subject}
    /\ To("passed")
    /\ UNCHANGED <<day, papers, reviews, drafts, trail, crashes, shown>>

(* The phase is finished, or it is not.                                     *)
EndPass ==
    /\ At("worker", "passed")
    /\ \/ UNCHANGED rows
       \/ rows' = [rows EXCEPT ![session.subject].status = "other"]
    /\ To("closing")
    /\ UNCHANGED <<day, papers, reviews, drafts, trail, crashes, history>>

(* T1.5 A: the worker acts on the first entry that is found.                *)
ActOnNotice ==
    /\ At("worker", "started") /\ Dispatchable = {} /\ Found # {}
    /\ \E kind \in Found : Checkpointed(kind, "noticed")
    /\ UNCHANGED <<day, papers, rows, reviews, drafts, trail, crashes, history>>

(* [DONE] is put before the line of the entry, if it is still there.        *)
LineOf(kind) == CHOOSE i \in DOMAIN notices : notices[i] = kind
Done(kind)   == IF Contains(notices, kind) THEN RemoveAt(notices, LineOf(kind)) ELSE notices

MarkDone ==
    /\ At("worker", "noticed")
    /\ notices' = Done(session.subject)
    /\ session' = [session EXCEPT !.stage = "closing", !.subject = NoSlug]
    /\ UNCHANGED <<day, install, rows, reviews, drafts, trail, crashes, history>>

(* T1.5 B: only a proposal leaves something in the model.                   *)
Triage ==
    /\ At("worker", "started") /\ Dispatchable = {} /\ Found = {}
    /\ \E tier \in Tiers : To(IF tier = "4a" THEN "drafting" ELSE "closing")
    /\ UNCHANGED <<day, papers, rows, reviews, drafts, trail, crashes, history>>

(* Tier 4a: the draft of a new project, then its entry for the owner.       *)
WriteDraft ==
    /\ At("worker", "drafting")
    /\ \/ \E s \in Slugs : /\ rows[s].status = "none" /\ drafts' = drafts \cup {s}
                           /\ To("announcing")
       \/ (\A s \in Slugs : rows[s].status # "none") /\ To("closing") /\ UNCHANGED drafts
    /\ UNCHANGED <<day, papers, rows, reviews, trail, crashes, history>>

TellOfDrafts(stage) ==
    /\ notices' = Noted("draft") /\ shown' = shown \cup drafts
    /\ To(stage)
    /\ UNCHANGED <<day, install, rows, reviews, drafts, trail, crashes, unseen>>

AnnounceDraft == At("worker", "announcing") /\ TellOfDrafts("closing")

-----------------------------------------------------------------------------
(* THE MANAGER                                                              *)

(* Mutant: the reason is written into the column of the status.             *)
EscalatedColumn(runs) ==
    [s \in Slugs |-> IF \E r \in runs : r.slug = s /\ rows[s].status # "none"
                     THEN [rows[s] EXCEPT !.status = "crash"] ELSE rows[s]]

(* surface_escalation for the projects of crashed runs; a CRASH of another  *)
(* checkpoint, and a ROUTING_HALT, only leaves an entry.                   *)
Escalated(runs) ==
    [s \in Slugs |-> IF \E r \in runs : r.slug = s /\ rows[s].status # "none"
                     THEN [rows[s] EXCEPT !.esc = "crash"] ELSE rows[s]]

(* T0                                                                       *)
DetectCrashes ==
    /\ At("manager", "started")
    /\ rows' = Escalated(CrashedRuns)
    /\ notices' = IF \E r \in Runs : Detected(r) # "none" THEN Noted("alert") ELSE notices
    /\ To("detected")
    /\ UNCHANGED <<day, install, reviews, drafts, trail, crashes, history>>

(* T2: escalations are shown to the owner, and marked.                      *)
Surface ==
    /\ At("manager", "detected")
    /\ rows' = [s \in Slugs |-> IF rows[s].esc = "crash"
                                THEN [rows[s] EXCEPT !.esc = "surfaced"] ELSE rows[s]]
    /\ To("surfaced")
    /\ UNCHANGED <<day, papers, reviews, drafts, trail, crashes, history>>

(* T3: what the manager will look at.                                       *)
DetectChanges ==
    /\ At("manager", "surfaced")
    /\ LET new == {s \in Active : Changes(s) = "NEW_ACTIVITY"}
       IN  session' = [session EXCEPT !.todo = new,
                          !.stage = IF Active = {} THEN "planning"
                                     ELSE IF new = {} THEN "auditing" ELSE "reviewing"]
    /\ UNCHANGED <<day, papers, rows, reviews, drafts, trail, crashes, history>>

(* T4 to T7: one row of MANAGER-REVIEW-REGISTRY.md, with the date.          *)
Review(s) ==
    /\ At("manager", "reviewing") /\ s \in session.todo
    /\ reviews' = [reviews EXCEPT ![s] = day]
    /\ unseen' = unseen \ {s}
    /\ session' = [session EXCEPT !.todo = @ \ {s},
                       !.stage = IF session.todo = {s} THEN "auditing" ELSE @]
    /\ UNCHANGED <<day, papers, rows, drafts, trail, crashes, shown>>

(* T3.5: strategic-context has a draft reviewed before anything else.       *)
ReviewDraft == At("manager", "planning") /\ drafts # {} /\ TellOfDrafts("auditing")

Plan ==
    /\ At("manager", "planning") /\ drafts = {}
    /\ notices' \in {notices, Noted("alert")}
    /\ To("auditing")
    /\ UNCHANGED <<day, install, rows, reviews, drafts, trail, crashes, history>>

(* T8: audit-spine; a crash is surfaced if T0 has not done so.  Anomalies   *)
(* leave an entry.                                                         *)
Audit ==
    /\ At("manager", "auditing")
    /\ LET new == CrashedSpine \ CrashedRuns
       IN  /\ rows' = Escalated(new)
           /\ notices' \in {Noted("alert")} \cup (IF new = {} THEN {notices} ELSE {})
    /\ To("pruning")
    /\ UNCHANGED <<day, install, reviews, drafts, trail, crashes, history>>

(* T8.3.  prune-candidates ends at the heading under which entries are      *)
(* appended: the entry that the file is shipped with is all that it ever   *)
(* offers, once it is old.  It is archived, then taken out of the file.    *)
Prune ==
    /\ At("manager", "pruning")
    /\ IF install = "archive" \/ day = 0 THEN UNCHANGED install /\ To("closing")
       ELSE IF install = "file" THEN install' = "both" /\ UNCHANGED session
       ELSE install' = "archive" /\ To("closing")
    /\ UNCHANGED <<day, notices, rows, reviews, drafts, trail, crashes, history>>

-----------------------------------------------------------------------------
(* THE OWNER                                                                *)

(* nightclaw-admin guide                                                    *)
Guide ==
    /\ notices' = Noted("guide")
    /\ UNCHANGED <<day, install, rows, reviews, drafts, trail, session, crashes, history>>

(* nightclaw-admin done                                                     *)
Resolve(kind) ==
    /\ Contains(notices, kind)
    /\ notices' = Done(kind)
    /\ UNCHANGED <<day, install, rows, reviews, drafts, trail, session, crashes, history>>

(* nightclaw-admin approve and decline                                      *)
Decide(s) ==
    /\ s \in drafts
    /\ drafts' = drafts \ {s} /\ shown' = shown \ {s}
    /\ \E approved \in BOOLEAN :
          rows' = IF approved THEN [rows EXCEPT ![s].status = "ACTIVE"] ELSE rows
    /\ UNCHANGED <<day, papers, reviews, trail, session, crashes, unseen>>

(* pause, unpause, a phase that is let through.                             *)
Switch(s) ==
    /\ rows[s].status # "none"
    /\ rows' = [rows EXCEPT ![s].status = IF @ = "ACTIVE" THEN "other" ELSE "ACTIVE"]
    /\ UNCHANGED <<day, papers, reviews, drafts, trail, session, crashes, history>>

-----------------------------------------------------------------------------
SessionStep ==
    \/ \E s \in Slugs : Work(s) \/ Review(s)
    \/ RecordPass \/ EndPass \/ ActOnNotice \/ MarkDone
    \/ Triage \/ WriteDraft \/ AnnounceDraft
    \/ DetectCrashes \/ Surface \/ DetectChanges \/ ReviewDraft \/ Plan \/ Audit \/ Prune
    \/ Register \/ LogClose

Owner == Guide \/ (\E k \in Kinds : Resolve(k)) \/ (\E s \in Slugs : Decide(s) \/ Switch(s))

Init ==
    /\ day = 0
    /\ notices = <<>> /\ install = "file"
    /\ rows = [s \in Slugs |-> [status |-> "none", esc |-> "none", pass |-> Never]]
    /\ reviews = [s \in Slugs |-> Never]
    /\ drafts = {}
    /\ open = Fresh /\ left = {}
    /\ session = Idle /\ crashes = 0
    /\ unseen = {} /\ shown = {}

Next == StartWorker \/ StartManager \/ SessionStep \/ Crash \/ NextDay \/ Owner

Spec == Init /\ [][Next]_vars

(* cron fires workers and managers again and again, and now and then one    *)
(* finds the lock free; a session goes on unless it dies.                  *)
FairSpec == Spec /\ WF_vars(SessionStep) /\ SF_vars(StartWorker) /\ SF_vars(StartManager)

-----------------------------------------------------------------------------
(* PROPERTIES                                                               *)

(* Types; sessions are of one kind at a time, and there is never more than  *)
(* one draft: idle-triage proposes only if it finds none.                  *)
TypeOK ==
    /\ day \in 0 .. LastDay
    /\ notices \in Seq(Kinds) /\ IsInjective(notices)
    /\ install \in {"file", "both", "archive"}
    /\ rows \in [Slugs -> Row]
    /\ reviews \in [Slugs -> Never .. LastDay]
    /\ drafts \subseteq Slugs /\ Cardinality(drafts) <= 1
    /\ open \in Run /\ left \subseteq Run /\ session.run \in Run
    /\ session.stage \in Stages /\ session.todo \subseteq Slugs

(* What the commands tell a manager is so.  change-detect calls a project   *)
(* CURRENT only if a manager looked at it after its last pass, though a     *)
(* review is stamped with the date alone.  What crash-detect reads from two *)
(* files, audit-spine reads from one: they call the same runs crashed, save *)
(* those that died between the two rows of session_close.                  *)
RecordsTrue ==
    /\ \A s \in Slugs : Changes(s) = "CURRENT" => s \notin unseen
    /\ \A r \in Runs : Detected(r) = "CRASH" => Spine(r) = "CRASH"
    /\ \A r \in Runs : Spine(r) = "CRASH" => Detected(r) = "CRASH" \/ r.registered

(* Nothing waits for ever, whichever sessions die: what the owner wrote     *)
(* with guide is taken by a worker, unless there is a project to work on;   *)
(* the passes of an active project are looked at by a manager; and of a     *)
(* draft whose author died the owner is told by a manager, unless a project *)
(* is active.                                                              *)
NothingForgotten ==
    /\ (Contains(notices, "guide") /\ Dispatchable = {}) ~>
            (~Contains(notices, "guide") \/ Dispatchable # {})
    /\ \A s \in Slugs :
        /\ (s \in unseen /\ s \in Active) ~> (s \notin unseen \/ s \notin Active)
        /\ (s \in drafts /\ Active = {}) ~> (s \in shown \/ s \notin drafts \/ Active # {})
=============================================================================
