---------------------------- MODULE OwnerConsole ----------------------------
(***************************************************************************)
(* The owner's console: browser pages that talk to the bridge over a       *)
(* websocket, and the commands the bridge runs for them.                   *)
(*                                                                         *)
(* The bridge is one asyncio loop.  It takes the frames of a page one by   *)
(* one, several pages at a time.  Some commands it serves inside the loop, *)
(* which then stands still; for others it starts nightclaw-admin.sh in a   *)
(* thread, and waits at most twenty seconds.  Scripts of two pages, and    *)
(* the sessions, write the same files, each by reading the whole file and  *)
(* writing it back.  A script that is killed leaves its child running.     *)
(*                                                                         *)
(* What a command prints is left out; priority, guide, arm and disarm go   *)
(* the way of pause and are left out too.                                  *)
(***************************************************************************)
EXTENDS Integers, Sequences, FiniteSets, SequencesExt

CONSTANTS Pages,        \* browser pages
          Slugs,
          NoPage, NoSlug,
          MaxTries,     \* _AUTH_FAIL_MAX
          Window,       \* _AUTH_FAIL_WINDOW_S
          MaxClock,     \* end of time
          MaxWrong,     \* wrong tokens in a behaviour
          MaxFrames,    \* frames in a behaviour
          MaxNotices,   \* entries of NOTIFICATIONS.md
          Cmds          \* commands that the pages send

ASSUME ConsoleAssumption ==
    /\ NoPage \notin Pages /\ NoSlug \notin Slugs
    /\ {MaxTries, Window, MaxClock, MaxWrong, MaxFrames} \subseteq Nat
    /\ MaxNotices \in Nat \ {0}
    /\ Cmds \subseteq {"read", "report", "broken", "archive", "resign", "pause",
                       "unpause", "approve", "decline", "done"}

VARIABLES
    now,
    fails,      \* _auth_fails of 127.0.0.1, where all pages are
    tried,      \* history: times at which a wrong token was compared
    conn,       \* page |-> its connection
    inbox,      \* page |-> frames the bridge has not taken
    asked,      \* frames so far
    job,        \* page |-> the command that is being served
    loop,       \* the page whose command has the loop, or NoPage
    orphans,    \* writes that children of killed scripts have yet to do
    rows,       \* ACTIVE-PROJECTS.md: slug |-> status and approval
    drafts,     \* slugs with a LONGRUNNER-DRAFT.md
    projects,   \* slugs with a LONGRUNNER.md
    notices,    \* NOTIFICATIONS.md
    audit,      \* commands with a SUCCESS row in AUDIT-LOG.md
    did,        \* history: effects that were written
    oks,        \* history: commands that were answered with ok
    dropped     \* history: slugs whose row went with a whole-file write

auth    == <<now, fails, tried>>
lines   == <<conn, inbox, asked>>
table   == <<rows>>
papers  == <<drafts, projects>>
files   == <<table, papers, notices>>
history == <<did, oks, dropped>>
vars    == <<auth, lines, job, loop, orphans, files, audit, history>>

Off  == [at |-> "off", rw |-> FALSE]
Idle == [cmd |-> "none", slug |-> NoSlug, step |-> "idle", line |-> 0, read |-> <<>>, code |-> 0]

-----------------------------------------------------------------------------
(* COMMANDS                                                                 *)

(* archive_project and resign are served inside the loop, the others that   *)
(* write by the script.  "read" stands for the commands that are answered   *)
(* at once from files, "report" for those whose output comes from a process.*)
InLoop    == {"archive", "resign"}
ByScript  == {"pause", "unpause", "approve", "decline", "done"}
ReadWrite == InLoop \cup ByScript

(* "read" stands for an unknown command and a frame that is ignored, too.    *)
(* "broken": args is no object, and the handler raises.                     *)
Frame  == [cmd : Cmds, slug : Slugs]
Notice == [slug : Slugs, kind : {"phase", "other"}, done : BOOLEAN]
Row    == [status : {"none", "malformed", "active", "hold", "paused", "archived"},
           approved : BOOLEAN]

(* load and store are the halves of update_project_field, loadnotices and   *)
(* storenotices those of sed -i.  Where cmd_approve finds no row it goes    *)
(* from find to insert, and not to load.  It has no confirmation.           *)
Script ==
    [pause   |-> <<"check", "load", "store", "log">>,
     unpause |-> <<"check", "load", "store", "log">>,
     approve |-> <<"check", "copy", "find", "load", "store", "remove", "log">>,
     decline |-> <<"check", "confirm", "remove", "log">>,
     done    |-> <<"check", "confirm", "loadnotices", "storenotices", "resolve",
                   "hold", "load", "store", "log">>]

After(script, step) ==
    LET i == CHOOSE k \in DOMAIN script : script[k] = step
    IN  IF i = Len(script) THEN "exit" ELSE script[i + 1]

(* Mutant: cmd_approve moves the draft instead of copying it.               *)
FollowingMoved(cmd, step) ==
    After(IF cmd = "approve" THEN <<"check", "remove", "copy", "find", "load", "store", "log">>
          ELSE Script[cmd], step)

(* Mutant: pause and unpause are logged before the row is written.          *)
FollowingLogged(cmd, step) ==
    After(IF cmd \in {"pause", "unpause"} THEN <<"check", "log", "load", "store">>
          ELSE Script[cmd], step)

(* The step after a step that went well.                                    *)
Following(cmd, step) == After(Script[cmd], step)

(* Mutant: cmd_done writes its approval into the column of the status.      *)
UpdatedColumn(row, cmd) ==
    CASE cmd = "pause"                -> [row EXCEPT !.status = "paused"]
      [] cmd \in {"unpause", "approve"} -> [row EXCEPT !.status = "active"]
      [] cmd = "archive"              -> [row EXCEPT !.status = "archived"]
      [] cmd = "done"                 -> [row EXCEPT !.status = "transition-approved"]

(* The row that update_project_field, the insertion of cmd_approve and      *)
(* archive_project write.  A second row of a slug is not told from the      *)
(* first.                                                                  *)
Updated(row, cmd) ==
    CASE cmd = "pause"                -> [row EXCEPT !.status = "paused"]
      [] cmd \in {"unpause", "approve"} -> [row EXCEPT !.status = "active"]
      [] cmd = "archive"              -> [row EXCEPT !.status = "archived"]
      [] cmd = "done"                 -> [row EXCEPT !.approved = TRUE]

(* The slugs whose row a new table does not have any more.                  *)
Lost(new) == {s \in Slugs : rows[s].status # "none" /\ new[s].status = "none"}

(* sed -i "Ns/^/[DONE] /": nothing if there is no line N any more.          *)
Marked(ns, i) == IF i \in DOMAIN ns THEN [ns EXCEPT ![i].done = TRUE] ELSE ns

(* _build_admin_argv: the lines at which done looks for a project's phase.  *)
Waiting(s) == {i \in DOMAIN notices : notices[i].slug = s /\ notices[i].kind = "phase"
                                       /\ ~notices[i].done}

-----------------------------------------------------------------------------
(* CONNECTING                                                               *)

(* How many of the times lie within the window.                            *)
Recent(ts) == Cardinality({i \in DOMAIN ts : now - ts[i] < Window})

LastOf(l, k) == IF Len(l) > k THEN SubSeq(l, Len(l) - k + 1, Len(l)) ELSE l

(* Mutant: the list of failures is cut to one less than the limit.          *)
RecordedCut(l) == LastOf(Append(l, now), MaxTries - 1)

(* The failures that are kept are twice the limit.                          *)
Recorded(l) == LastOf(Append(l, now), 2 * MaxTries)

(* A page opens a websocket and is asked to connect.                        *)
Open(p) ==
    /\ conn[p].at = "off" /\ job[p] = Idle /\ loop = NoPage
    /\ conn' = [conn EXCEPT ![p].at = "asked"]
    /\ UNCHANGED <<auth, inbox, asked, job, loop, orphans, files, audit, history>>

(* No frame within ten seconds, or one that is not a connect frame.         *)
GiveUp(p) ==
    /\ conn[p].at = "asked" /\ loop = NoPage
    /\ conn' = [conn EXCEPT ![p] = Off]
    /\ UNCHANGED <<auth, inbox, asked, job, loop, orphans, files, audit, history>>

(* Without NIGHTCLAW_BRIDGE_TOKEN no token is the right one.                *)
MayWrite(token) == token = "right"

(* There is no await from the check of the limit to the record of a         *)
(* failure.  A page with a wrong token, or with none, may read.             *)
Greet(p, token) ==
    /\ conn[p].at = "asked" /\ loop = NoPage
    /\ token # "none" => Recent(fails) < MaxTries
    /\ conn' = [conn EXCEPT ![p] = [at |-> "on", rw |-> MayWrite(token)]]
    /\ IF token = "wrong"
       THEN /\ Len(tried) < MaxWrong
            /\ fails' = Recorded(fails)
            /\ tried' = Append(tried, now)
       ELSE UNCHANGED <<fails, tried>>
    /\ UNCHANGED <<now, inbox, asked, job, loop, orphans, files, audit, history>>

(* RATE_LIMITED, whatever the token.                                        *)
Refuse(p) ==
    /\ conn[p].at = "asked" /\ loop = NoPage
    /\ Recent(fails) >= MaxTries
    /\ conn' = [conn EXCEPT ![p] = Off]
    /\ UNCHANGED <<auth, inbox, asked, job, loop, orphans, files, audit, history>>

(* The page is closed.  A command of it goes on to its end.                 *)
Close(p) ==
    /\ conn[p].at = "on"
    /\ conn' = [conn EXCEPT ![p] = Off]
    /\ inbox' = [inbox EXCEPT ![p] = <<>>]
    /\ UNCHANGED <<auth, asked, job, loop, orphans, files, audit, history>>

Send(p, f) ==
    /\ conn[p].at = "on" /\ asked < MaxFrames
    /\ inbox' = [inbox EXCEPT ![p] = Append(@, f)]
    /\ asked' = asked + 1
    /\ UNCHANGED <<auth, conn, job, loop, orphans, files, audit, history>>

Tick ==
    /\ now < MaxClock
    /\ now' = now + 1
    /\ UNCHANGED <<fails, tried, lines, job, loop, orphans, files, audit, history>>

-----------------------------------------------------------------------------
(* THE LOOP TAKES A FRAME                                                   *)

Take(p) ==
    /\ loop = NoPage /\ job[p] = Idle /\ inbox[p] # <<>>
    /\ inbox' = [inbox EXCEPT ![p] = Tail(@)]
    /\ UNCHANGED <<auth, asked, orphans, files, audit, did, dropped>>

Allowed(p, f) == f.cmd \in ReadWrite => conn[p].rw

(* A command that is answered from the files; a frame that is ignored.      *)
ServeFromFiles(p) ==
    /\ Take(p)
    /\ Head(inbox[p]).cmd = "read"
    /\ UNCHANGED <<conn, job, loop, oks>>

(* No privilege, or "invalid args".                                         *)
TurnDown(p) ==
    /\ Take(p)
    /\ LET f == Head(inbox[p])
       IN  ~Allowed(p, f) \/ (f.cmd = "done" /\ Waiting(f.slug) = {})
    /\ UNCHANGED <<conn, job, loop, oks>>

(* The exception ends the handler of the page.                              *)
Break(p) ==
    /\ loop = NoPage /\ job[p] = Idle /\ inbox[p] # <<>>
    /\ Head(inbox[p]).cmd = "broken"
    /\ conn' = [conn EXCEPT ![p] = Off]
    /\ inbox' = [inbox EXCEPT ![p] = <<>>]
    /\ UNCHANGED <<auth, asked, job, loop, orphans, files, audit, history>>

(* The process runs in a thread: the loop goes on, the page waits.          *)
StartReport(p) ==
    /\ Take(p)
    /\ Head(inbox[p]).cmd = "report"
    /\ job' = [job EXCEPT ![p] = [Idle EXCEPT !.cmd = "report", !.step = "running"]]
    /\ UNCHANGED <<conn, loop, oks>>

(* It ends, or its time is over.                                            *)
ReportEnds(p, code) ==
    /\ job[p].step = "running"
    /\ job' = [job EXCEPT ![p].step = "exit", ![p].code = code]
    /\ UNCHANGED <<auth, lines, loop, orphans, files, audit, history>>

(* The line of a done is looked up here, for a script that runs later.      *)
StartScript(p) ==
    /\ Take(p)
    /\ LET f == Head(inbox[p])
       IN  /\ f.cmd \in ByScript /\ Allowed(p, f)
           /\ f.cmd = "done" => Waiting(f.slug) # {}
           /\ job' = [job EXCEPT ![p] =
                  [Idle EXCEPT !.cmd = f.cmd, !.slug = f.slug, !.step = "check",
                               !.line = IF f.cmd = "done" THEN Min(Waiting(f.slug)) ELSE 0]]
    /\ UNCHANGED <<conn, loop, oks>>

StartInLoop(p) ==
    /\ Take(p)
    /\ LET f == Head(inbox[p])
       IN  /\ f.cmd \in InLoop /\ Allowed(p, f)
           /\ job' = [job EXCEPT ![p] = [Idle EXCEPT !.cmd = f.cmd, !.slug = f.slug,
                         !.step = IF f.cmd = "archive" THEN "load" ELSE "sign"]]
    /\ loop' = p
    /\ UNCHANGED <<conn, oks>>

(* The result is sent, to whom it may reach.                                *)
Answer(p) ==
    /\ loop = NoPage /\ job[p].step = "exit"
    /\ job' = [job EXCEPT ![p] = Idle]
    /\ oks' = IF job[p].code = 0 THEN oks \cup {<<job[p].cmd, job[p].slug>>} ELSE oks
    /\ UNCHANGED <<auth, lines, loop, orphans, files, audit, did, dropped>>

-----------------------------------------------------------------------------
(* COMMANDS IN THE LOOP                                                     *)

(* The pattern has \w+ for the status: TRANSITION-HOLD does not match, and   *)
(* a row that would stay as it is counts as not found.                      *)
ArchiveLoad(p) ==
    /\ job[p].cmd = "archive" /\ job[p].step = "load"
    /\ IF rows[job[p].slug].status \in {"active", "paused"}
       THEN /\ job' = [job EXCEPT ![p].step = "store", ![p].read = rows]
            /\ UNCHANGED loop
       ELSE /\ job' = [job EXCEPT ![p].step = "exit", ![p].code = 1]
            /\ loop' = NoPage
    /\ UNCHANGED <<auth, lines, orphans, files, audit, history>>

ArchiveStore(p) ==
    /\ job[p].cmd = "archive" /\ job[p].step = "store"
    /\ rows' = [job[p].read EXCEPT ![job[p].slug] = Updated(@, "archive")]
    /\ did' = did \cup {<<"archive", job[p].slug>>}
    /\ dropped' = dropped \cup Lost(rows')
    /\ job' = [job EXCEPT ![p].step = "exit", ![p].read = <<>>]
    /\ loop' = NoPage
    /\ UNCHANGED <<auth, lines, orphans, papers, notices, audit, oks>>

(* resign.sh ends, or the thirty seconds do.                                *)
SignEnds(p, code) ==
    /\ job[p].step = "sign"
    /\ job' = [job EXCEPT ![p].step = "exit", ![p].code = code]
    /\ loop' = NoPage
    /\ UNCHANGED <<auth, lines, orphans, files, audit, history>>

-----------------------------------------------------------------------------
(* NIGHTCLAW-ADMIN.SH                                                       *)

Go(p) == job' = [job EXCEPT ![p].step = Following(job[p].cmd, job[p].step), ![p].read = <<>>]
Fail(p, code) == job' = [job EXCEPT ![p].step = "exit", ![p].code = code]

Passes(j) ==
    CASE j.cmd = "pause"   -> rows[j.slug].status \in {"active", "hold"}
      [] j.cmd = "unpause" -> rows[j.slug].status = "paused"
      [] j.cmd = "approve" -> j.slug \in drafts /\ j.slug \notin projects
      [] j.cmd = "decline" -> j.slug \in drafts
      [] j.cmd = "done"    -> j.line \in DOMAIN notices

(* done reads its line, and goes on with the project it finds there.        *)
Check(p) ==
    /\ job[p].step = "check"
    /\ IF ~Passes(job[p]) THEN Fail(p, 1)
       ELSE job' = [job EXCEPT
                ![p].step = Following(job[p].cmd, "check"),
                ![p].slug = IF job[p].cmd = "done" THEN notices[job[p].line].slug ELSE @]
    /\ UNCHANGED <<auth, lines, loop, orphans, files, audit, history>>

(* decline and done ask at the bridge's own standard input, for the bridge  *)
(* does not give them --yes.  There is a terminal with somebody at it or    *)
(* none; at the end of the input read fails, and set -e ends the script;    *)
(* "Aborted." is an exit with code 0.                                       *)
Confirm(p, says) ==
    /\ job[p].step = "confirm"
    /\ CASE says = "yes" -> Go(p)
         [] says = "no"  -> Fail(p, 0)
         [] says = "eof" -> Fail(p, 1)
    /\ UNCHANGED <<auth, lines, loop, orphans, files, audit, history>>

Copy(p) ==
    /\ job[p].step = "copy"
    /\ IF job[p].slug \in drafts
       THEN projects' = projects \cup {job[p].slug} /\ Go(p)
       ELSE Fail(p, 1) /\ UNCHANGED projects
    /\ UNCHANGED <<auth, lines, loop, orphans, rows, drafts, notices, audit, history>>

(* The grep of cmd_approve: a row is updated, and none is inserted.         *)
Find(p) ==
    /\ job[p].step = "find"
    /\ IF rows[job[p].slug].status = "none"
       THEN job' = [job EXCEPT ![p].step = "insert"]
       ELSE Go(p)
    /\ UNCHANGED <<auth, lines, loop, orphans, files, audit, history>>

(* update_project_field reads for itself: NOT_FOUND when the row is not in  *)
(* the table, or is one that grep finds and the table parser does not.      *)
(* cmd_approve takes its copy back then.                                    *)
Load(p) ==
    /\ job[p].cmd \in ByScript /\ job[p].step = "load"
    /\ IF rows[job[p].slug].status \notin {"none", "malformed"}
       THEN job' = [job EXCEPT ![p].step = "store", ![p].read = rows]
       ELSE IF job[p].cmd = "approve"
            THEN job' = [job EXCEPT ![p].step = "rollback"]
            ELSE Fail(p, 1)
    /\ UNCHANGED <<auth, lines, loop, orphans, files, audit, history>>

(* The insertion reads the file, and adds its row whatever is there.        *)
Insert(p) ==
    /\ job[p].step = "insert"
    /\ job' = [job EXCEPT ![p].step = "store", ![p].read = rows]
    /\ UNCHANGED <<auth, lines, loop, orphans, files, audit, history>>

Rollback(p) ==
    /\ job[p].step = "rollback"
    /\ projects' = projects \ {job[p].slug}
    /\ Fail(p, 1)
    /\ UNCHANGED <<auth, lines, loop, orphans, rows, drafts, notices, audit, history>>

Store(p) ==
    /\ job[p].cmd \in ByScript /\ job[p].step = "store"
    /\ rows' = [job[p].read EXCEPT ![job[p].slug] = Updated(@, job[p].cmd)]
    /\ did' = did \cup {<<job[p].cmd, job[p].slug>>}
    /\ dropped' = dropped \cup Lost(rows')
    /\ Go(p)
    /\ UNCHANGED <<auth, lines, loop, orphans, papers, notices, audit, oks>>

(* cmd_approve deletes with rm -f, cmd_decline with rm.                     *)
RemoveDraft(p) ==
    /\ job[p].step = "remove"
    /\ IF job[p].cmd = "decline" /\ job[p].slug \notin drafts
       THEN Fail(p, 1) /\ UNCHANGED <<drafts, did>>
       ELSE /\ drafts' = drafts \ {job[p].slug}
            /\ did' = IF job[p].cmd = "decline"
                      THEN did \cup {<<"decline", job[p].slug>>} ELSE did
            /\ Go(p)
    /\ UNCHANGED <<auth, lines, loop, orphans, rows, projects, notices, audit, oks, dropped>>

(* audit_log: "resolve" is the row ADMIN_RESOLVE of cmd_done, which goes on *)
(* to the project then.                                                    *)
Log(p) ==
    /\ job[p].step \in {"resolve", "log"}
    /\ audit' = audit \cup
           {<<IF job[p].step = "resolve" THEN "marked" ELSE job[p].cmd, job[p].slug>>}
    /\ Go(p)
    /\ UNCHANGED <<auth, lines, loop, orphans, files, history>>

LoadNotices(p) ==
    /\ job[p].step = "loadnotices"
    /\ job' = [job EXCEPT ![p].step = "storenotices", ![p].read = notices]
    /\ UNCHANGED <<auth, lines, loop, orphans, files, audit, history>>

(* What sed -i does to the file it has read.                                *)
Mark(j) ==
    /\ notices' = Marked(j.read, j.line)
    /\ did' = IF j.line \in DOMAIN j.read THEN did \cup {<<"marked", j.slug>>} ELSE did

(* It ends well whether or not there is such a line.                        *)
StoreNotices(p) ==
    /\ job[p].step = "storenotices"
    /\ Mark(job[p])
    /\ Go(p)
    /\ UNCHANGED <<auth, lines, loop, orphans, table, papers, audit, oks, dropped>>

(* cmd_done approves the transition of a project that is on hold.           *)
Hold(p) ==
    /\ job[p].step = "hold"
    /\ IF rows[job[p].slug].status = "hold" THEN Go(p)
       ELSE job' = [job EXCEPT ![p].step = "exit"]
    /\ UNCHANGED <<auth, lines, loop, orphans, files, audit, history>>

(* Mutant: subprocess.run has no timeout for scripts that ask.              *)
TimeoutNever(p) ==
    /\ job[p].cmd \in ByScript /\ job[p].step \notin {"confirm", "exit"}
    /\ orphans' = IF job[p].step \in {"store", "storenotices"}
                  THEN orphans \cup {job[p]} ELSE orphans
    /\ Fail(p, 124)
    /\ UNCHANGED <<auth, lines, loop, files, audit, history>>

(* Twenty seconds are over.  bash is killed; a child of it that was about   *)
(* to write does so later, after the page has been told of the timeout.     *)
Timeout(p) ==
    /\ job[p].cmd \in ByScript /\ job[p].step # "exit"
    /\ orphans' = IF job[p].step \in {"store", "storenotices"}
                  THEN orphans \cup {job[p]} ELSE orphans
    /\ Fail(p, 124)
    /\ UNCHANGED <<auth, lines, loop, files, audit, history>>

LateStore(o) ==
    /\ IF o.step = "store"
       THEN /\ rows' = [o.read EXCEPT ![o.slug] = Updated(@, o.cmd)]
            /\ did' = did \cup {<<o.cmd, o.slug>>}
            /\ dropped' = dropped \cup Lost(rows')
            /\ UNCHANGED notices
       ELSE Mark(o) /\ UNCHANGED <<rows, dropped>>
    /\ orphans' = orphans \ {o}
    /\ UNCHANGED <<auth, lines, job, loop, papers, audit, oks>>

-----------------------------------------------------------------------------
(* THE SESSIONS                                                             *)

(* A worker puts a project on hold and says so.                             *)
SessionHolds(s) ==
    /\ rows[s].status = "active" /\ Len(notices) < MaxNotices
    /\ rows' = [rows EXCEPT ![s] = [status |-> "hold", approved |-> FALSE]]
    /\ notices' = Append(notices, [slug |-> s, kind |-> "phase", done |-> FALSE])
    /\ UNCHANGED <<auth, lines, job, loop, orphans, papers, audit, history>>

(* The manager's T8.3: entries go, and the lines after them move up.        *)
SessionPrunes(i) ==
    /\ i \in DOMAIN notices /\ (notices[i].done \/ notices[i].kind = "other")
    /\ notices' = RemoveAt(notices, i)
    /\ UNCHANGED <<auth, lines, job, loop, orphans, table, papers, audit, history>>

-----------------------------------------------------------------------------
(* A slug has a draft that waits, with a row or without, or is a project.   *)
Init ==
    /\ now = 0 /\ fails = <<>> /\ tried = <<>>
    /\ conn = [p \in Pages |-> Off]
    /\ inbox = [p \in Pages |-> <<>>]
    /\ asked = 0
    /\ job = [p \in Pages |-> Idle]
    /\ loop = NoPage
    /\ orphans = {}
    /\ drafts \in SUBSET Slugs /\ projects = Slugs \ drafts
    /\ rows \in {rs \in [Slugs -> [status : {"none", "malformed", "active"}, approved : {FALSE}]] :
                  \A s \in Slugs : s \in drafts <=> rs[s].status # "active"}
    /\ notices \in {<<>>} \cup {<<[slug |-> s, kind |-> "other", done |-> FALSE]>> : s \in projects}
    /\ audit = {} /\ did = {} /\ oks = {} /\ dropped = {}

Loop(p) ==
    \/ ServeFromFiles(p) \/ TurnDown(p) \/ Break(p)
    \/ StartReport(p) \/ StartScript(p) \/ StartInLoop(p) \/ Answer(p)
    \/ ArchiveLoad(p) \/ ArchiveStore(p)
    \/ \E code \in {0, 1} : SignEnds(p, code) \/ ReportEnds(p, code)

AdminScript(p) ==
    \/ Check(p) \/ Copy(p) \/ Find(p) \/ Load(p) \/ Insert(p) \/ Rollback(p)
    \/ Store(p) \/ RemoveDraft(p) \/ Log(p)
    \/ LoadNotices(p) \/ StoreNotices(p) \/ Hold(p) \/ Timeout(p)

Next ==
    \/ \E p \in Pages :
          \/ Open(p) \/ GiveUp(p) \/ Refuse(p) \/ Close(p)
          \/ \E token \in {"none", "right", "wrong"} : Greet(p, token)
          \/ \E f \in Frame : Send(p, f)
          \/ \E says \in {"yes", "no", "eof"} : Confirm(p, says)
          \/ Loop(p) \/ AdminScript(p)
    \/ \E o \in orphans : LateStore(o)
    \/ \E s \in Slugs : SessionHolds(s)
    \/ \E i \in 1 .. MaxNotices : SessionPrunes(i)
    \/ Tick

Spec == Init /\ [][Next]_vars

(* The loop goes round, scripts run, timers fire.  Nobody need come to the  *)
(* terminal, and no page need send or close.                                *)
FairSpec == Spec /\ \A p \in Pages : WF_vars(Loop(p)) /\ WF_vars(AdminScript(p))

-----------------------------------------------------------------------------
(* PROPERTIES                                                               *)

(* Types; the list of failures stays short, and who has the loop is in it   *)
(* with a command that is served there.                                    *)
TypeOK ==
    /\ now \in 0 .. MaxClock
    /\ fails \in Seq(0 .. MaxClock) /\ Len(fails) <= 2 * MaxTries
    /\ conn \in [Pages -> [at : {"off", "asked", "on"}, rw : BOOLEAN]]
    /\ \A p \in Pages : inbox[p] \in Seq(Frame)
    /\ loop \in Pages \cup {NoPage}
    /\ loop # NoPage => job[loop].cmd \in InLoop /\ job[loop].step # "exit"
    /\ rows \in [Slugs -> Row]
    /\ drafts \subseteq Slugs /\ projects \subseteq Slugs
    /\ notices \in Seq(Notice) /\ Len(notices) <= MaxNotices

(* Within any window no more wrong tokens are compared than the limit says, *)
(* whatever pages come and go and however the list is cut (_ws_handler).    *)
TriesBounded == Recent(tried) <= MaxTries

(* A SUCCESS row of nightclaw-admin tells of a change that was written, but *)
(* for ADMIN_RESOLVE, and a page is told ok of a pause, an unpause or an    *)
(* approval only when the row is there: whatever is killed or runs at the   *)
(* same time (audit_log, run_admin_command).  It need not be there still.   *)
RowsTellTruth ==
    /\ \A r \in audit : r[1] # "marked" => r \in did
    /\ \A r \in oks : r[1] \in {"pause", "unpause", "approve"} => r \in audit

Declined == {s \in Slugs : <<"decline", s>> \in did}

(* Approvals that fail, are killed in the middle, run twice or beside a     *)
(* decline never lose a project: until the owner has declined it there is   *)
(* its draft or its LONGRUNNER (the order of the steps of cmd_approve) - as *)
(* long as no other writer has dropped its row with an old table.           *)
DraftKept == Slugs \subseteq drafts \cup projects \cup Declined \cup dropped

(* What cmd_approve says of itself: a step that fails leaves the draft.     *)
(* Two approvals pass the checks, one of them is through, and an old table  *)
(* without the row comes between the grep and the update of the other.      *)
DraftAlwaysKept == Slugs \subseteq drafts \cup projects \cup Declined

(* The bridge gets through what pages send it: no command, whoever waits at *)
(* a terminal and whatever holds the loop, keeps a page waiting for ever    *)
(* (the timeouts of run_admin_command and _run_python_source_command).      *)
FramesFinish ==
    \A p \in Pages : (inbox[p] # <<>> \/ job[p] # Idle) ~> (inbox[p] = <<>> /\ job[p] = Idle)
=============================================================================
