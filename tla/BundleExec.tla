----------------------------- MODULE BundleExec -----------------------------
(***************************************************************************)
(* bundle-exec: how a session changes the state files, and nightclaw-admin, *)
(* which changes ACTIVE-PROJECTS.md beside it without the lock.             *)
(*                                                                         *)
(* A call names a bundle of bundles.yaml and its arguments.  The guards are *)
(* checked, then each field is changed by reading its file whole, opening   *)
(* it for writing, which empties it, and writing it whole; at the end come  *)
(* the lines for the logs, one append each.  There is one project; its      *)
(* LONGRUNNER.md and its row of ACTIVE-PROJECTS.md are functions from the   *)
(* fields they have to values, and an emptied file has none.  Dying between *)
(* two steps leaves the files as they are.                                 *)
(***************************************************************************)
EXTENDS Integers, Sequences, SequencesExt, FiniteSets

CONSTANTS
    Bundles,      \* Bundles[b]: bundle b of bundles.yaml
    Calls,        \* bound: the calls made, [bundle, args]
    MaxCalls,     \* bound: how many of them
    InitDisk,     \* the files that exist and the fields they have
    Edges,        \* R4: [source, target], paths
    ProtectedNames,  \* PROTECTED_PATHS, R3 tier PROTECTED, CL5
    Appendable,   \* APPEND_ALLOWED, memory/<date>.md, R3 tier APPEND
    OwnerWrites,  \* bound: the fields of the row the owner sets, [key, value]
    MaxOwner,     \* bound: how often
    MaxDeaths,    \* bound: how often a process dies
    Texts,        \* every text: Python's str
    Numbers,      \* bound: the texts that int() takes
    Now(_),       \* {NOW} in the n-th call
    DaysAhead(_)  \* {NOW+field}, from a number

Files == {"LONGRUNNER", "DISPATCH", "LOCK", "MANIFEST"}
Procs == {"session", "owner"}

ExprKinds == {"literal", "arg", "now", "now_plus"}
GuardOps  == {"NOT_EMPTY", "EQUALS", "IN"}

Unresolved == "UNRESOLVED"

Exprs == [kind : ExprKinds \ {"now"}, text : Texts] \cup [kind : {"now"}]
Writes == [file : Files, key : Texts, expr : Exprs]
Templates == [to : Texts, refs : SUBSET Texts]

(* A bundle, as spec_from_model projects it: the writes in the order of     *)
(* bundles.yaml, each with its expression.  An append has the log it goes   *)
(* to and the arguments its line refers to; so has the notification, if any. *)
BundleShape(b) ==
    /\ b.writes \in Seq(Writes)
    /\ b.args \subseteq Texts
    /\ \A g \in b.validates : g.on \in Files \cup {"args"}
    /\ b.appends \in Seq(Templates) /\ b.notify \in Seq(Templates)

(* The two logs everybody writes to are append targets.                    *)
ASSUME BundleAssumption ==
    /\ \A name \in DOMAIN Bundles : BundleShape(Bundles[name])
    /\ DOMAIN InitDisk \subseteq Files /\ {"", Unresolved} \subseteq Texts
    /\ \A f \in DOMAIN InitDisk : InitDisk[f] \in [DOMAIN InitDisk[f] -> Texts]
    /\ {"CHANGE-LOG", "AUDIT-LOG"} \subseteq Appendable
    /\ Appendable \subseteq Texts
    /\ Edges \subseteq [source : Texts, target : Texts]

(* Values are texts, and nobody's text is a placeholder.                   *)
Text(t) == t \in Texts \ {Unresolved}

ASSUME TextAssumption ==
    /\ \A f \in DOMAIN InitDisk : \A k \in DOMAIN InitDisk[f] : Text(InitDisk[f][k])
    /\ \A c \in Calls : \A a \in DOMAIN c.args : Text(c.args[a])
    /\ \A name \in DOMAIN Bundles : \A w \in ToSet(Bundles[name].writes) :
          w.expr.kind = "literal" => Text(w.expr.text)
    /\ \A o \in OwnerWrites : o.key \in Texts /\ Text(o.value)
    /\ "3" \in Numbers /\ \A d \in Numbers : Text(DaysAhead(d))
    /\ \A n \in 1 .. MaxCalls : Text(Now(n))

ASSUME BoundAssumption ==
    MaxCalls \in Nat /\ MaxOwner \in Nat /\ MaxDeaths \in Nat

VARIABLES
    disk,     \* disk[f][k]: field k of file f
    change,   \* change[p]: the change of one field that p is making
    session,  \* the call under way
    owner,    \* the owner's command under way
    log,      \* log[p]: the rows p has added to CHANGE-LOG.md, in order
    stale,    \* the edges with a CASCADE_CHECK row
    reports,  \* reports[p]: the lines p has added to other logs, in order
    called,   \* the calls made
    typed,    \* how many commands the owner has typed
    deaths,
    intended, \* history: the value last written to each field
    torn,     \* history: files where two changes overlapped, or one was cut short
    forgotten \* history: rows owed by those who died

vars == <<disk, change, session, owner, log, stale, reports, called, typed,
          deaths, intended, torn, forgotten>>
logs == <<log, stale, reports>>
history == <<intended, torn, forgotten>>

Empty == <<>>   \* a file without a field

Contents(f) == [DOMAIN InitDisk[f] -> Texts] \cup {Empty}

Row(f, k, old, new) == [file |-> f, key |-> k, old |-> old, new |-> new]

Rows == [file : Files, key : Texts, old : Texts, new : Texts]

NoChange == [at |-> "none"]
Idle == [at |-> "idle"]

(* A line that reports a call, or tells the owner of it.                   *)
Report(kind, to, what) == [kind |-> kind, to |-> to, what |-> what]

Reports == [kind : {"append", "notice"}, to : Texts, what : {"text", Unresolved}]

Sessions ==
    {Idle}
    \cup [at : {"writes"}, bundle : DOMAIN Bundles, args : {c.args : c \in Calls},
          next : Nat, rows : Seq(Rows), touched : SUBSET Files]
    \cup [at : {"lines"}, edges : SUBSET Edges, rows : Seq(Rows), due : Seq(Reports)]

Owners ==
    {Idle, [at |-> "reporting"]}
    \cup [at : {"found", "written"}, key : Texts, value : Texts, old : Texts]

ChangesOf(f) ==
    [at : {"read", "opened"}, file : {f}, key : Texts, value : Texts,
     none : BOOLEAN, old : Texts, content : Contents(f)]

ChangeOK(c) == c = NoChange \/ \E f \in DOMAIN InitDisk : c \in ChangesOf(f)

TypeOK ==
    /\ DOMAIN disk = DOMAIN InitDisk /\ DOMAIN intended = DOMAIN InitDisk
    /\ \A f \in DOMAIN disk : /\ disk[f] \in Contents(f)
                             /\ intended[f] \in [DOMAIN InitDisk[f] -> Texts]
    /\ DOMAIN change = Procs
    /\ \A p \in Procs : ChangeOK(change[p])
    /\ session \in Sessions /\ owner \in Owners
    /\ session.at = "writes" => session.next \in 1 .. Len(Bundles[session.bundle].writes)
    /\ log \in [Procs -> Seq(Rows)] /\ stale \subseteq Edges
    /\ reports \in [Procs -> Seq(Reports)]
    /\ \A p \in Procs : \A i \in DOMAIN reports[p] : reports[p][i].to \in Appendable
    /\ called \in Seq(Calls) /\ Len(called) <= MaxCalls
    /\ typed \in 0 .. MaxOwner /\ deaths \in 0 .. MaxDeaths
    /\ torn \subseteq Files /\ forgotten \subseteq Rows

Init ==
    /\ disk = InitDisk
    /\ change = [p \in Procs |-> NoChange]
    /\ session = Idle /\ owner = Idle
    /\ log = [p \in Procs |-> <<>>] /\ stale = {} /\ reports = [p \in Procs |-> <<>>]
    /\ called = <<>> /\ typed = 0 /\ deaths = 0
    /\ intended = InitDisk /\ torn = {} /\ forgotten = {}

-----------------------------------------------------------------------------
(* EXPRESSIONS, GUARDS AND THE STATIC CHECK                                *)

ArgValue(args, a) == IF a \in DOMAIN args THEN args[a] ELSE Unresolved

(* Field k of a file as the parsers give it; "" when there is none.        *)
FieldOf(f, k) ==
    IF f \in DOMAIN disk /\ k \in DOMAIN disk[f] THEN disk[f][k] ELSE ""

(* {NOW+field} reads the LONGRUNNER while the bundle is being applied, and  *)
(* takes three days when there is no number in that field.                 *)
DaysIn(k) ==
    LET days == FieldOf("LONGRUNNER", k) IN IF days \in Numbers THEN days ELSE "3"

(* resolve_expression                                                      *)
Resolved(expr, args) ==
    CASE expr.kind = "literal"  -> expr.text
      [] expr.kind = "arg"      -> ArgValue(args, expr.text)
      [] expr.kind = "now"      -> Now(Len(called))
      [] expr.kind = "now_plus" -> DaysAhead(DaysIn(expr.text))

NullMarkers == {"", "~", "null", "None", "none"}

(* evaluate_guard: no LONGRUNNER, no pass; an operator it does not know     *)
(* lets everything pass.                                                   *)
Holds(g, args) ==
    LET actual == IF g.on = "args"
                  THEN IF g.key \in DOMAIN args THEN args[g.key] ELSE ""
                  ELSE FieldOf(g.on, g.key)
    IN  IF g.on = "LONGRUNNER" /\ g.on \notin DOMAIN disk THEN FALSE
        ELSE CASE g.op = "NOT_EMPTY" -> actual \notin NullMarkers
               [] g.op \in {"EQUALS", "IN"} -> actual \in g.values
               [] OTHER -> TRUE

(* Mutant: declared arguments may be left out.                             *)
AdmittedWithoutArgs(b, args) ==
    /\ (\E w \in ToSet(b.writes) : w.file \in {"LONGRUNNER", "DISPATCH"}) =>
          "slug" \in DOMAIN args /\ args.slug # "bad slug"
    /\ \A g \in b.validates : Holds(g, args)

(* What cmd_bundle_exec checks before the first write.  A target is tested  *)
(* by the name after its colon: the slug, or the keyword.                  *)
Admitted(b, args) ==
    /\ b.args \subseteq DOMAIN args
    /\ (\E w \in ToSet(b.writes) : w.file \in {"LONGRUNNER", "DISPATCH"}) =>
          "slug" \in DOMAIN args /\ args.slug # "bad slug"
    /\ \A w \in ToSet(b.writes) :
          (IF w.file \in {"LONGRUNNER", "DISPATCH"} THEN args.slug ELSE w.file)
              \notin ProtectedNames
    /\ \A g \in b.validates : Holds(g, args)

(* validate-bundles.  It does not look at the fields of a notification.    *)
Validates(b) ==
    /\ \A w \in ToSet(b.writes) :
          /\ w.file \notin ProtectedNames
          /\ w.expr.kind = "arg" => w.expr.text \in b.args
    /\ \A g \in b.validates : g.op \in GuardOps
    /\ \A a \in ToSet(b.appends) : a.refs \subseteq b.args

-----------------------------------------------------------------------------
(* CHANGING ONE FIELD                                                      *)

(* What the mutators return as the old value: nothing when LOCK.md has no   *)
(* such field, "" when the LONGRUNNER or the manifest has none.            *)
ReturnsNone(f, content, k) ==
    k \notin DOMAIN content /\ f \notin {"LONGRUNNER", "MANIFEST"}

OldValue(content, k) == IF k \in DOMAIN content THEN content[k] ELSE ""

(* Only the row mutator gives up without rewriting the file.               *)
GivesUp(f, content, k) == f = "DISPATCH" /\ k \notin DOMAIN content

After(content, k, v) ==
    IF k \in DOMAIN content THEN [content EXCEPT ![k] = v] ELSE content

(* Mutant: the file is opened for writing before it is read.               *)
ContentAfterOpening(p, f) == Empty

ContentRead(p, f) == disk[f]

Overlaps(p, f) ==
    \E q \in Procs \ {p} : change[q].at # "none" /\ change[q].file = f

ReadFile(p, f, k, v, old) ==
    /\ change' = [change EXCEPT ![p] =
                    [at |-> "read", file |-> f, key |-> k, value |-> v,
                     none |-> ReturnsNone(f, disk[f], k), old |-> old,
                     content |-> ContentRead(p, f)]]
    /\ torn' = IF Overlaps(p, f) THEN torn \cup {f} ELSE torn

OpenFile(p) ==
    /\ change[p].at = "read"
    /\ change' = [change EXCEPT ![p].at = "opened"]
    /\ disk' = [disk EXCEPT ![change[p].file] = Empty]
    /\ UNCHANGED <<session, owner, logs, called, typed, deaths, history>>

WriteFile(p) ==
    LET c == change[p] IN
    /\ c.at = "opened"
    /\ disk' = [disk EXCEPT ![c.file] = After(c.content, c.key, c.value)]
    /\ change' = [change EXCEPT ![p] = NoChange]
    /\ intended' = IF c.key \in DOMAIN intended[c.file]
                   THEN [intended EXCEPT ![c.file][c.key] = c.value] ELSE intended

-----------------------------------------------------------------------------
(* A CALL OF bundle-exec                                                   *)

(* After the writes come the lines: CASCADE_CHECK rows for the edges whose  *)
(* source is the name of a changed target, the rows of the changes but for  *)
(* the manifest's, the appends, the notification.                          *)
Filled(kind, template, args) ==
    Report(kind, template.to,
           IF template.refs \subseteq DOMAIN args THEN "text" ELSE Unresolved)

ReportsOf(b, args) ==
    [i \in DOMAIN b.appends |-> Filled("append", b.appends[i], args)]
    \o [i \in DOMAIN b.notify |-> Filled("notice", b.notify[i], args)]

CascadeFor(touched) == {e \in Edges : e.source \in touched}

ToLines(s, rows, touched) ==
    [at |-> "lines", edges |-> CascadeFor(touched), rows |-> rows,
     due |-> ReportsOf(Bundles[s.bundle], s.args)]

(* The next write, or the lines when the last write is done.               *)
Onward(s, rows, touched) ==
    IF s.next < Len(Bundles[s.bundle].writes)
    THEN [at |-> "writes", bundle |-> s.bundle, args |-> s.args, next |-> s.next + 1,
          rows |-> rows, touched |-> touched]
    ELSE ToLines(s, rows, touched)

(* The schema is authoritative: a name it does not declare is no bundle.    *)
Declared(name) == name \in DOMAIN Bundles

Call(c) ==
    LET b == Bundles[c.bundle]
        s == [at |-> "writes", bundle |-> c.bundle, args |-> c.args, next |-> 1,
              rows |-> <<>>, touched |-> {}]
    IN  /\ session.at = "idle" /\ Len(called) < MaxCalls
        /\ called' = Append(called, c)
        /\ session' = IF ~Declared(c.bundle) \/ ~Admitted(b, c.args) THEN session
                      ELSE IF b.writes = <<>> THEN ToLines(s, <<>>, {}) ELSE s
        /\ UNCHANGED <<disk, change, owner, logs, typed, deaths, history>>

(* A write whose file is not there, or whose row is not found, changes      *)
(* nothing and owes no row.                                                *)
StartWrite ==
    LET w == Bundles[session.bundle].writes[session.next]
        v == Resolved(w.expr, session.args)
        readable == w.file \in DOMAIN disk
    IN  /\ session.at = "writes" /\ change["session"].at = "none"
        /\ IF readable /\ ~GivesUp(w.file, disk[w.file], w.key)
           THEN /\ ReadFile("session", w.file, w.key, v,
                            OldValue(disk[w.file], w.key))
                /\ UNCHANGED session
           ELSE /\ session' = Onward(session, session.rows, session.touched)
                /\ torn' = IF readable /\ Overlaps("session", w.file)
                           THEN torn \cup {w.file} ELSE torn
                /\ UNCHANGED change
        /\ UNCHANGED <<disk, owner, logs, called, typed, deaths, intended, forgotten>>

(* Mutant: if old_val and old_val != resolved.                             *)
ChangedIfTruthy(c) == ~c.none /\ c.old \notin {"", c.value}

(* old_val is not None and old_val != resolved.                            *)
Changed(c) == ~c.none /\ c.old # c.value

(* A change of the manifest touches it, and has no row.                    *)
FinishWrite ==
    LET c == change["session"] IN
    /\ WriteFile("session")
    /\ session' = Onward(session,
                         IF Changed(c) /\ c.file # "MANIFEST"
                         THEN Append(session.rows, Row(c.file, c.key, c.old, c.value))
                         ELSE session.rows,
                         IF Changed(c) THEN session.touched \cup {c.file}
                         ELSE session.touched)
    /\ UNCHANGED <<owner, logs, called, typed, deaths, torn, forgotten>>

(* Mutant: the report is appended before the rows.                         *)
DueReportsFirst(s) ==
    IF s.edges # {} THEN "edge" ELSE IF s.due # <<>> THEN "report"
    ELSE IF s.rows # <<>> THEN "row" ELSE "nothing"

(* Which line comes next.                                                  *)
Due(s) ==
    IF s.edges # {} THEN "edge" ELSE IF s.rows # <<>> THEN "row"
    ELSE IF s.due # <<>> THEN "report" ELSE "nothing"

AppendEdge ==
    /\ session.at = "lines" /\ Due(session) = "edge"
    /\ \E e \in session.edges :
          /\ stale' = stale \cup {e}
          /\ session' = [session EXCEPT !.edges = @ \ {e}]
    /\ UNCHANGED <<disk, change, owner, log, reports, called, typed, deaths, history>>

AppendRow ==
    /\ session.at = "lines" /\ Due(session) = "row"
    /\ log' = [log EXCEPT !["session"] = Append(@, Head(session.rows))]
    /\ session' = [session EXCEPT !.rows = Tail(@)]
    /\ UNCHANGED <<disk, change, owner, stale, reports, called, typed, deaths, history>>

(* Mutant: do_append writes to any file.                                   *)
AppendToAnywhere(lines, line) == Append(lines, line)

(* do_append skips a file that is no append target.                        *)
Appended(lines, line) == IF line.to \in Appendable THEN Append(lines, line) ELSE lines

AppendReport ==
    /\ session.at = "lines" /\ Due(session) = "report"
    /\ reports' = [reports EXCEPT !["session"] = Appended(@, Head(session.due))]
    /\ session' = [session EXCEPT !.due = Tail(@)]
    /\ UNCHANGED <<disk, change, owner, log, stale, called, typed, deaths, history>>

Return ==
    /\ session.at = "lines" /\ Due(session) = "nothing"
    /\ session' = Idle
    /\ UNCHANGED <<disk, change, owner, logs, called, typed, deaths, history>>

-----------------------------------------------------------------------------
(* THE OWNER: pause, unpause, priority, done                               *)

(* get_project_field: the command reads the field for its own row, once.   *)
Look(o) ==
    /\ owner.at = "idle" /\ typed < MaxOwner
    /\ typed' = typed + 1
    /\ owner' = IF "DISPATCH" \in DOMAIN disk /\ o.key \in DOMAIN disk["DISPATCH"]
                THEN [at |-> "found", key |-> o.key, value |-> o.value,
                      old |-> disk["DISPATCH"][o.key]]
                ELSE owner
    /\ UNCHANGED <<disk, change, session, logs, called, deaths, history>>

(* update_project_field reads the file again; without the row it exits and  *)
(* the command ends there.                                                 *)
OwnerReads ==
    /\ owner.at = "found" /\ change["owner"].at = "none"
    /\ IF GivesUp("DISPATCH", disk["DISPATCH"], owner.key)
       THEN /\ owner' = Idle
            /\ torn' = IF Overlaps("owner", "DISPATCH") THEN torn \cup {"DISPATCH"} ELSE torn
            /\ UNCHANGED change
       ELSE /\ ReadFile("owner", "DISPATCH", owner.key, owner.value, owner.old)
            /\ UNCHANGED owner
    /\ UNCHANGED <<disk, session, logs, called, typed, deaths, intended, forgotten>>

OwnerWritesFile ==
    /\ WriteFile("owner")
    /\ owner' = [owner EXCEPT !.at = "written"]
    /\ UNCHANGED <<session, logs, called, typed, deaths, torn, forgotten>>

OwnerRow == Row("DISPATCH", owner.key, owner.old, owner.value)

OwnerLogs ==
    /\ owner.at = "written"
    /\ log' = [log EXCEPT !["owner"] = Append(@, OwnerRow)]
    /\ owner' = [at |-> "reporting"]
    /\ UNCHANGED <<disk, change, session, stale, reports, called, typed, deaths, history>>

OwnerReports ==
    /\ owner.at = "reporting"
    /\ reports' = [reports EXCEPT !["owner"] =
                      Append(@, Report("append", "AUDIT-LOG", "text"))]
    /\ owner' = Idle
    /\ UNCHANGED <<disk, change, session, log, stale, called, typed, deaths, history>>

-----------------------------------------------------------------------------
(* DYING                                                                   *)

(* The rows p still owes.                                                  *)
Owed(p) ==
    IF p = "owner" THEN IF owner.at = "written" THEN <<OwnerRow>> ELSE <<>>
    ELSE IF session.at = "idle" THEN <<>> ELSE session.rows

(* A killed session, an interrupted command.  A file that was open for      *)
(* writing stays empty.                                                    *)
Killed(p) ==
    /\ deaths < MaxDeaths
    /\ (IF p = "session" THEN session.at ELSE owner.at) # "idle"
    /\ deaths' = deaths + 1
    /\ change' = [change EXCEPT ![p] = NoChange]
    /\ session' = IF p = "session" THEN Idle ELSE session
    /\ owner' = IF p = "owner" THEN Idle ELSE owner
    /\ torn' = IF change[p].at = "opened" THEN torn \cup {change[p].file} ELSE torn
    /\ forgotten' = forgotten \cup ToSet(Owed(p))
    /\ UNCHANGED <<disk, logs, called, typed, intended>>

Next ==
    \/ \E c \in Calls : Call(c)
    \/ StartWrite
    \/ FinishWrite
    \/ AppendEdge
    \/ AppendRow
    \/ AppendReport
    \/ Return
    \/ \E o \in OwnerWrites : Look(o)
    \/ OwnerReads
    \/ OwnerWritesFile
    \/ OwnerLogs
    \/ OwnerReports
    \/ \E p \in Procs : OpenFile(p) \/ Killed(p)

Spec == Init /\ [][Next]_vars
-----------------------------------------------------------------------------
(* PROPERTIES                                                              *)

(* Where no two changes of a file overlapped and none was cut short, every  *)
(* field has the value last written to it: changing one field of a file     *)
(* loses no other, whoever wrote that and whenever (_shared.read_file, then *)
(* open(..., "w"), in the mutators and in update_project_field).            *)
WritesStick ==
    \A f \in DOMAIN disk \ torn :
        (\A p \in Procs : ~(change[p].at = "opened" /\ change[p].file = f))
            => disk[f] = intended[f]

(* A value that a state file did not have at first is in a row of           *)
(* CHANGE-LOG.md, or the row is still owed, or its author died owing it:    *)
(* no change is made behind the log (cmd_bundle_exec, change_log).          *)
LogCoversDisk ==
    \A f \in DOMAIN disk \ (torn \cup {"MANIFEST"}) : \A k \in DOMAIN disk[f] :
        disk[f][k] # InitDisk[f][k] =>
            \E r \in forgotten \cup UNION {ToSet(log[p]) \cup ToSet(Owed(p)) : p \in Procs} :
                r.file = f /\ r.key = k /\ r.new = disk[f][k]

(* validate-bundles is enough: as long as only bundles that pass it are     *)
(* called, no placeholder reaches a state file, a row or an appended line,  *)
(* whatever arguments the calls leave out.                                 *)
ValidatedResolved ==
    (\A i \in DOMAIN called :
        Declared(called[i].bundle) => Validates(Bundles[called[i].bundle])) =>
        /\ \A f \in DOMAIN disk : \A k \in DOMAIN disk[f] : disk[f][k] # Unresolved
        /\ \A p \in Procs : /\ \A r \in ToSet(log[p]) : r.new # Unresolved
                            /\ \A l \in ToSet(reports[p]) :
                                  l.kind = "append" => l.what # Unresolved

Journal == INSTANCE ChangeJournal WITH
    Authors <- Procs,
    rows <- log,
    owed <- [p \in Procs |-> Owed(p)],
    done <- [p \in Procs |-> Len(reports[p])]

(* Every change has its row, once, in the author's order, and a call is     *)
(* reported, in AUDIT-LOG.md or to the owner, only after its rows; only the *)
(* dead owe.                                                               *)
JournalRefinement == Journal!JournalSpec
=============================================================================
