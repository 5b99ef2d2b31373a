------------------------------- MODULE Manifest -------------------------------
(***************************************************************************)
(* The files that are signed, and who writes them.                         *)
(*                                                                         *)
(* audit/INTEGRITY-MANIFEST.md has a row with a hash for each protected    *)
(* file.  Two of the files are written by programs: OPS-PREAPPROVAL.md     *)
(* ("PA", nightclaw-admin arm and disarm) and REGISTRY.md ("REG",          *)
(* schema-sync); both can be edited by hand, and resign.sh puts the new    *)
(* hash into the row.  Sessions compare files and rows before they start   *)
(* (integrity-check), and the manager rewrites the whole manifest to stamp *)
(* it (bundle manifest_verify).  Nothing locks any of these files: the     *)
(* steps below are the reads and the writes of the programs, one by one.   *)
(*                                                                         *)
(* A hash is the content it was computed from.  A write of a file is one   *)
(* step (the programs truncate it and write it again).                     *)
(***************************************************************************)
EXTENDS SchemaGates

CONSTANTS Owners,     \* command lines (and the console) of the owner
          Deadlines,  \* readable expiry dates; a day is a number
          Unread,     \* an expiry that is no date
          Blank,      \* the dash that stands for no expiry
          Unsigned,   \* a row of the manifest without a hash
          Schemas, Disks,  \* schemas that may be written, and workspaces
          Tables,     \* tables of ACTIVE-PROJECTS.md: [rows, dirs], the values of
          Fields,     \* the fields that R2 declares for it
          LastDay, MaxScripts, MaxEdits  \* bounds of the model

VARIABLES content,   \* content[f]
          hash,      \* the rows of the manifest: contents, or Unsigned
          backup,    \* OPS-PREAPPROVAL.md.bak, one for all
          yaml,      \* orchestration-os/schema: rules, comments, is it YAML
          generated, \* the schema that REGISTRY.generated.md was rendered from
          script,    \* script[o]: the program that o runs, and how it ended
          session,   \* the session at its integrity check
          today,
          vetted,    \* history: the contents that the owner has signed
          spent      \* how much of the bounds is used

vars == <<content, hash, backup, yaml, generated, script, session, today, vetted, spent>>

Files == {"PA", "REG"}

(* The header of an approval is full, or lacks the field Expires.          *)
Approvals == [form : {"full", "bare"}, status : {"ACTIVE", "INACTIVE"},
              expires : Deadlines \cup {Unread, Blank}]
Registries == [body : Nat, text : Nat, marked : BOOLEAN]

(* A readable date is none of the other texts, and a file that is there is *)
(* not one that is missing.                                                *)
ASSUME ManifestAssumption ==
    /\ Deadlines \subseteq Nat /\ {LastDay, MaxScripts, MaxEdits} \subseteq Nat
    /\ {Unread, Blank} \cap Deadlines = {}
    /\ NoFile \notin Approvals \cup Owners

(* What the loader makes of the schema; R2 declares the priority of a      *)
(* project as a required number (fields.yaml), and a table is a list.      *)
ASSUME TablesAssumption ==
    /\ \A s \in Schemas : IsSchema(s)
    /\ "priority" \in DOMAIN Fields
    /\ Fields.priority.req /\ Fields.priority.type = "INT"
    /\ \A t \in Tables : DOMAIN t.rows \subseteq Nat \ {0}

(* The sections R1 to R6 and CL5 of REGISTRY.md show the rules;             *)
(* REGISTRY.generated.md also has the fingerprint of all of the files.     *)
RenderedSections(schema) == schema.body
RenderedWhole(schema)    == [body |-> schema.body, print |-> <<schema.body, schema.notes>>]

(* A file that is missing, is no YAML or has no list where one belongs.    *)
Loads(schema) == schema.loads

Off == [at |-> "off"]

Init ==
    /\ content = [f \in Files |->
                    IF f = "PA" THEN [form |-> "full", status |-> "INACTIVE", expires |-> Blank]
                                ELSE [body |-> 0, text |-> 0, marked |-> TRUE]]
    /\ hash \in {h \in [Files -> {Unsigned, content["PA"], content["REG"]}] :
                    \A f \in Files : h[f] \in {Unsigned, content[f]}}
    /\ vetted = [f \in Files |-> {hash[f]} \ {Unsigned}]
    /\ backup = NoFile
    /\ yaml = [body |-> 0, notes |-> 0, loads |-> TRUE] /\ generated = RenderedWhole(yaml)
    /\ script = [o \in Owners |-> Off] /\ session = Off
    /\ today = 0 /\ spent = [scripts |-> 0, edits |-> 0]

(* What a program found is kept while nobody else writes; when somebody     *)
(* does, its outcome says nothing any more.                                *)
Noticed(o) == [p \in Owners |->
    IF p = o \/ script[p].at = "off" THEN script[p]
    ELSE IF script[p].at = "done" THEN Off
    ELSE [script[p] EXCEPT !.before = NoFile]]

Goes(o, at)          == script' = [script EXCEPT ![o].at = at]
WritesAndGoes(o, at) == script' = [Noticed(o) EXCEPT ![o].at = at]

Outcome(o, result) ==
    IF script[o].before = NoFile THEN Off
    ELSE [at |-> "done", kind |-> script[o].kind, arg |-> script[o].arg,
          result |-> result, before |-> script[o].before]

Ends(o, result)          == script' = [script EXCEPT ![o] = Outcome(o, result)]
WritesAndEnds(o, result) == script' = [Noticed(o) EXCEPT ![o] = Outcome(o, result)]

-----------------------------------------------------------------------------
(* THE PROGRAMS OF THE OWNER                                                *)

Kinds == {"arm", "disarm", "resign", "sync", "render"}

(* arm takes any text for an expiry.                                       *)
Args(kind) == CASE kind = "arm"    -> Deadlines \cup {Unread}
                [] kind = "disarm" -> {Blank}
                [] kind = "resign" -> Files
                [] OTHER           -> {NoFile}

First(kind) == CASE kind \in {"arm", "disarm"} -> "copy"
                 [] kind = "resign"            -> "hash"
                 [] OTHER                      -> "read"

Start(o) ==
    /\ script[o].at \in {"off", "done"} /\ spent.scripts < MaxScripts
    /\ \E kind \in Kinds : \E arg \in Args(kind) :
          script' = [script EXCEPT ![o] =
                       [kind |-> kind, arg |-> arg, at |-> First(kind),
                        text |-> NoFile, sum |-> NoFile, rows |-> NoFile,
                        before |-> [content |-> content, hash |-> hash]]]
    /\ spent' = [spent EXCEPT !.scripts = @ + 1]
    /\ UNCHANGED <<content, hash, backup, yaml, generated, session, today, vetted>>

(* The file that a script signs.                                           *)
Signs(o) == IF script[o].kind = "resign" THEN script[o].arg ELSE "PA"

(* cp OPS-PREAPPROVAL.md OPS-PREAPPROVAL.md.bak                             *)
Copy(o) ==
    /\ script[o].at = "copy"
    /\ backup' = content["PA"] /\ WritesAndGoes(o, "load")
    /\ UNCHANGED <<content, hash, yaml, generated, session, today, vetted, spent>>

(* The header with its new status and expiry.                              *)
Rewritten(pa, kind, arg) ==
    [pa EXCEPT !.status = IF kind = "arm" THEN "ACTIVE" ELSE "INACTIVE", !.expires = arg]

(* The pattern wants both fields; without them the write fails.            *)
Load(o) ==
    /\ script[o].at = "load"
    /\ \/ /\ content["PA"].form = "full"
          /\ script' = [script EXCEPT ![o].at = "store",
                ![o].text = Rewritten(content["PA"], script[o].kind, script[o].arg)]
       \/ content["PA"].form # "full" /\ Goes(o, "undo")
    /\ UNCHANGED <<content, hash, backup, yaml, generated, session, today, vetted, spent>>

Store(o) ==
    /\ script[o].at = "store"
    /\ content' = [content EXCEPT !["PA"] = script[o].text]
    /\ script' = [Noticed(o) EXCEPT ![o].at = "hash", ![o].text = NoFile]
    /\ UNCHANGED <<hash, backup, yaml, generated, session, today, vetted, spent>>

(* resign.sh cannot be run.                                                *)
NoResign(o) ==
    /\ script[o].at = "hash" /\ script[o].kind # "resign" /\ Goes(o, "undo")
    /\ UNCHANGED <<content, hash, backup, yaml, generated, session, today, vetted, spent>>

(* resign.sh, alone or in arm and disarm: sha256sum ...                     *)
Hash(o) ==
    /\ script[o].at = "hash"
    /\ script' = [script EXCEPT ![o].at = "compare", ![o].sum = content[Signs(o)]]
    /\ UNCHANGED <<content, hash, backup, yaml, generated, session, today, vetted, spent>>

(* ... the row has this hash already ...                                   *)
Compare(o) ==
    /\ script[o].at = "compare"
    /\ IF hash[Signs(o)] # script[o].sum THEN Goes(o, "rows")
       ELSE IF script[o].kind = "resign" THEN Ends(o, "ok") ELSE Goes(o, "clean")
    /\ UNCHANGED <<content, hash, backup, yaml, generated, session, today, vetted, spent>>

(* ... the manifest is read; a row without a hash does not fit the pattern, *)
(* and one to which another program has given this hash since, on the same  *)
(* day, counts as not found.  The dates of rows are left out: before the    *)
(* first midnight they are all the same.                                   *)
LoadRows(o) ==
    /\ script[o].at = "rows"
    /\ \/ /\ hash[Signs(o)] # Unsigned /\ (hash[Signs(o)] = script[o].sum => today > 0)
          /\ script' = [script EXCEPT ![o].at = "sign", ![o].rows = hash]
       \/ /\ hash[Signs(o)] \in {Unsigned, script[o].sum}
          /\ IF script[o].kind = "resign" THEN Ends(o, "failed") ELSE Goes(o, "undo")
    /\ UNCHANGED <<content, hash, backup, yaml, generated, session, today, vetted, spent>>

(* ... and all of it is written.                                           *)
Sign(o) ==
    /\ script[o].at = "sign"
    /\ hash' = [script[o].rows EXCEPT ![Signs(o)] = script[o].sum]
    /\ vetted' = [vetted EXCEPT ![Signs(o)] = @ \cup {script[o].sum}]
    /\ IF script[o].kind = "resign" THEN WritesAndEnds(o, "ok") ELSE WritesAndGoes(o, "clean")
    /\ UNCHANGED <<content, backup, yaml, generated, session, today, spent>>

(* rm -f, and the rows of the logs.                                        *)
Clean(o) ==
    /\ script[o].at = "clean"
    /\ backup' = NoFile /\ WritesAndEnds(o, "ok")
    /\ UNCHANGED <<content, hash, yaml, generated, session, today, vetted, spent>>

(* Mutant: the backup is taken for granted.                                *)
UndoBlindly(o) ==
    /\ script[o].at = "undo"
    /\ content' = [content EXCEPT !["PA"] = backup] /\ backup' = NoFile
    /\ WritesAndEnds(o, "failed")
    /\ UNCHANGED <<hash, yaml, generated, session, today, vetted, spent>>

(* Mutant: the backup is removed before it is moved back.                  *)
UndoAfterClean(o) ==
    /\ script[o].at = "undo"
    /\ backup' = NoFile /\ WritesAndEnds(o, "failed")
    /\ UNCHANGED <<content, hash, yaml, generated, session, today, vetted, spent>>

(* mv: without a backup the script ends there.                             *)
Undo(o) ==
    /\ script[o].at = "undo"
    /\ \/ /\ backup # NoFile
          /\ content' = [content EXCEPT !["PA"] = backup] /\ backup' = NoFile
          /\ WritesAndEnds(o, "failed")
       \/ backup = NoFile /\ Ends(o, "died") /\ UNCHANGED <<content, backup>>
    /\ UNCHANGED <<hash, yaml, generated, session, today, vetted, spent>>

(* schema-sync and schema-render load the schema; schema-sync also reads    *)
(* REGISTRY.md, and wants its markers.                                     *)
Read(o) ==
    /\ script[o].at = "read"
    /\ CASE ~Loads(yaml) -> Ends(o, "failed")
         [] Loads(yaml) /\ script[o].kind = "render" ->
              script' = [script EXCEPT ![o].at = "generate", ![o].sum = RenderedWhole(yaml)]
         [] OTHER ->
              IF ~content["REG"].marked THEN Ends(o, "failed")
              ELSE IF content["REG"].body = RenderedSections(yaml) THEN Ends(o, "noop")
              ELSE script' = [script EXCEPT ![o].at = "registry", ![o].sum = RenderedWhole(yaml),
                     ![o].text = [content["REG"] EXCEPT !.body = RenderedSections(yaml)]]
    /\ UNCHANGED <<content, hash, backup, yaml, generated, session, today, vetted, spent>>

StoreRegistry(o) ==
    /\ script[o].at = "registry"
    /\ content' = [content EXCEPT !["REG"] = script[o].text] /\ WritesAndGoes(o, "generate")
    /\ UNCHANGED <<hash, backup, yaml, generated, session, today, vetted, spent>>

Generate(o) ==
    /\ script[o].at = "generate"
    /\ generated' = script[o].sum /\ WritesAndEnds(o, "ok")
    /\ UNCHANGED <<content, hash, backup, yaml, session, today, vetted, spent>>

(* The bridge kills a command that takes too long; so may the owner.       *)
Kill(o) ==
    /\ script[o].at \notin {"off", "done"} /\ script' = [script EXCEPT ![o] = Off]
    /\ UNCHANGED <<content, hash, backup, yaml, generated, session, today, vetted, spent>>

-----------------------------------------------------------------------------
(* THE SESSIONS                                                             *)

(* integrity-check reads the manifest; without any hash it is an error ... *)
CheckStarts ==
    /\ session.at \in {"off", "failed"}
    /\ \E f \in Files : hash[f] # Unsigned
    /\ session' = [at |-> "check", rows |-> hash, read |-> [f \in Files |-> NoFile]]
    /\ UNCHANGED <<content, hash, backup, yaml, generated, script, today, vetted, spent>>

(* ... then the files of the rows with a hash, in the order of their names, *)
(* as they are when their turn comes.                                      *)
Unchecked == {f \in Files : session.rows[f] # Unsigned /\ session.read[f] = NoFile}

CheckFile ==
    /\ session.at = "check" /\ Unchecked # {}
    /\ LET f == IF "PA" \in Unchecked THEN "PA" ELSE "REG"
       IN  session' = [session EXCEPT !.read[f] = content[f]]
    /\ UNCHANGED <<content, hash, backup, yaml, generated, script, today, vetted, spent>>

Agrees == \A f \in Files : session.rows[f] \in {Unsigned, session.read[f]}

CheckEnds ==
    /\ session.at = "check" /\ Unchecked = {}
    /\ session' = IF Agrees THEN [session EXCEPT !.at = "passed"] ELSE [at |-> "failed"]
    /\ UNCHANGED <<content, hash, backup, yaml, generated, script, today, vetted, spent>>

(* A worker goes on to its work, a manager to manifest_verify: two fields,  *)
(* and for each the manifest is read and written.                          *)
Work ==
    /\ session.at = "passed" /\ session' = Off
    /\ UNCHANGED <<content, hash, backup, yaml, generated, script, today, vetted, spent>>

StampReads ==
    /\ session.at \in {"passed", "stamped"}
    /\ session' = [at |-> IF session.at = "passed" THEN "first" ELSE "second", rows |-> hash]
    /\ UNCHANGED <<content, hash, backup, yaml, generated, script, today, vetted, spent>>

(* Mutant: manifest_verify brings the hashes up to date as well.           *)
StampWritesHashes ==
    /\ session.at \in {"first", "second"}
    /\ hash' = content
    /\ script' = IF hash' # hash THEN Noticed(NoFile) ELSE script
    /\ session' = IF session.at = "first" THEN [at |-> "stamped"] ELSE Off
    /\ UNCHANGED <<content, backup, yaml, generated, today, vetted, spent>>

StampWrites ==
    /\ session.at \in {"first", "second"}
    /\ hash' = session.rows
    /\ script' = IF hash' # hash THEN Noticed(NoFile) ELSE script
    /\ session' = IF session.at = "first" THEN [at |-> "stamped"] ELSE Off
    /\ UNCHANGED <<content, backup, yaml, generated, today, vetted, spent>>

-----------------------------------------------------------------------------
(* EVERYBODY ELSE                                                           *)

(* What a hand may make of a file: another approval, or a header without   *)
(* an expiry; other text, or no markers.                                   *)
Edited(f) ==
    IF f = "PA" THEN {[content["PA"] EXCEPT !.status = "ACTIVE", !.expires = d] : d \in Deadlines}
                     \cup {[form |-> "bare", status |-> "ACTIVE", expires |-> Blank]}
    ELSE {[content["REG"] EXCEPT !.text = @ + 1], [content["REG"] EXCEPT !.marked = FALSE]}

Edit(f) ==
    /\ spent.edits < MaxEdits /\ spent' = [spent EXCEPT !.edits = @ + 1]
    /\ \E new \in Edited(f) \ {content[f]} : content' = [content EXCEPT ![f] = new]
    /\ script' = Noticed(NoFile)
    /\ UNCHANGED <<hash, backup, yaml, generated, session, today, vetted>>

(* The owner edits the schema: a rule, a comment only, or it breaks.        *)
EditSchema ==
    /\ spent.edits < MaxEdits /\ spent' = [spent EXCEPT !.edits = @ + 1]
    /\ yaml' \in {[yaml EXCEPT !.body = @ + 1], [yaml EXCEPT !.notes = @ + 1],
                  [yaml EXCEPT !.loads = FALSE]}
    /\ script' = Noticed(NoFile)
    /\ UNCHANGED <<content, hash, backup, generated, session, today, vetted>>

NextDay ==
    /\ today < LastDay /\ today' = today + 1
    /\ UNCHANGED <<content, hash, backup, yaml, generated, script, session, vetted, spent>>

Arming(o)  == Copy(o) \/ Load(o) \/ Store(o) \/ NoResign(o) \/ Clean(o) \/ Undo(o)
Signing(o) == Hash(o) \/ Compare(o) \/ LoadRows(o) \/ Sign(o)
Syncing(o) == Read(o) \/ StoreRegistry(o) \/ Generate(o)
Checking   == CheckStarts \/ CheckFile \/ CheckEnds \/ Work \/ StampReads \/ StampWrites

Next ==
    \/ \E o \in Owners : Start(o) \/ Arming(o) \/ Signing(o) \/ Syncing(o) \/ Kill(o)
    \/ Checking
    \/ \E f \in Files : Edit(f)
    \/ EditSchema \/ NextDay

Spec == Init /\ [][Next]_vars

-----------------------------------------------------------------------------
(* THE READERS                                                              *)

(* preapproval_is_active: a date counts to its end.                        *)
Active(status, expires) == status = "ACTIVE" /\ expires \in Deadlines /\ today <= expires

(* check_pa_active of the engine wants both fields in the header.          *)
EngineActive(pa) == pa.form = "full" /\ Active(pa.status, pa.expires)

(* parse_preapprovals of the bridge takes a missing expiry for a dash.     *)
BridgeActive(pa) == Active(pa.status, IF pa.form = "full" THEN pa.expires ELSE Blank)

(* schema-lint renders the schema and compares.                            *)
LintOK == Loads(yaml) /\ generated = RenderedWhole(yaml)

(* integrity-check, were it run now and alone; verify-integrity.sh looks   *)
(* for the hash of a file anywhere in the manifest.                        *)
CheckPasses  == /\ \E f \in Files : hash[f] # Unsigned
                /\ \A f \in Files : hash[f] \in {Unsigned, content[f]}
VerifyPasses == \A f \in Files : \E g \in Files : hash[g] = content[f]

-----------------------------------------------------------------------------
(* PROPERTIES                                                               *)

Contents == [Files -> Approvals \cup Registries]
Rowses   == [Files -> Approvals \cup Registries \cup {Unsigned}]
Renderings == [body : Nat, print : Nat \X Nat]
Founds   == [content : Contents, hash : Rowses]

Programs(kind) ==
    [kind : {kind}, arg : Args(kind),
     at : {"copy", "load", "store", "undo", "hash", "compare", "rows", "sign", "clean",
           "read", "registry", "generate"},
     text : Approvals \cup Registries \cup {NoFile},
     sum : Approvals \cup Registries \cup Renderings \cup {NoFile},
     rows : Rowses \cup {NoFile}, before : Founds \cup {NoFile}]
Outcomes(kind) ==
    [at : {"done"}, kind : {kind}, arg : Args(kind), before : Founds,
     result : {"ok", "noop", "failed", "died"}]

(* The types, and what is where: only arm and disarm write a backup and     *)
(* take it back, and a row holds a hash of its own file (arm, disarm,      *)
(* resign.sh, manifest_verify, schema-sync).                               *)
TypeOK ==
    /\ content["PA"] \in Approvals /\ content["REG"] \in Registries
    /\ hash["PA"] \in Approvals \cup {Unsigned} /\ hash["REG"] \in Registries \cup {Unsigned}
    /\ backup \in Approvals \cup {NoFile}
    /\ yaml \in [body : Nat, notes : Nat, loads : BOOLEAN] /\ generated \in Renderings
    /\ \A o \in Owners : script[o] = Off \/ \E kind \in Kinds : script[o] \in Programs(kind) \cup Outcomes(kind)
    /\ session.at \in {"off", "check", "passed", "failed", "first", "stamped", "second"}
    /\ today \in 0 .. LastDay

(* A session whose integrity-check passes has read, of each file with a     *)
(* hash, a text that the owner signed: no order of the writes of arm,      *)
(* disarm, resign.sh and manifest_verify, which each write back all rows   *)
(* as they were when they read them, and no death of one of them, makes a  *)
(* text pass whose hash no program of the owner had taken ("Hash values:   *)
(* {OWNER} only", audit/INTEGRITY-MANIFEST.md:7).  An edit that an arm of   *)
(* the owner came upon in its file counts as signed: what the owner had     *)
(* looked at is not modelled.                                              *)
SignedByOwner ==
    session.at = "passed" =>
        \A f \in Files : session.rows[f] # Unsigned => session.read[f] \in vetted[f]

(* "Atomic arm: backup, write, re-sign, cleanup" (nightclaw-admin.sh:638):  *)
(* a program of the owner that nobody disturbs and nobody kills either     *)
(* does all it says or leaves files, rows and backup as they were, also    *)
(* when it started on a file that was edited by hand, on a row without a   *)
(* hash, or on the backup of a program that was killed.                    *)
ScriptsAtomic ==
    \A o \in Owners :
        LET c == script[o] IN
        c.at = "done" =>
            CASE c.kind \in {"arm", "disarm"} ->
                   /\ backup = NoFile
                   /\ hash["REG"] = c.before.hash["REG"]
                   /\ content["REG"] = c.before.content["REG"]
                   /\ IF c.result = "ok"
                      THEN /\ content["PA"] = Rewritten(c.before.content["PA"], c.kind, c.arg)
                           /\ hash["PA"] = content["PA"]
                      ELSE hash = c.before.hash /\ content = c.before.content
              [] c.kind = "resign" ->
                   /\ content = c.before.content
                   /\ hash = IF c.result = "ok"
                             THEN [c.before.hash EXCEPT ![c.arg] = content[c.arg]]
                             ELSE c.before.hash
              [] c.kind = "sync" ->
                   /\ hash = c.before.hash
                   /\ IF c.result = "failed" THEN content = c.before.content
                      ELSE /\ content = [c.before.content EXCEPT !["REG"].body = RenderedSections(yaml)]
                           /\ c.result = "ok" => LintOK
              [] OTHER -> /\ content = c.before.content /\ hash = c.before.hash
                          /\ c.result = "ok" => LintOK

(* The rules of R6 that the gates rely on are declared: a schema without    *)
(* them passes scr-verify whatever it says (schema/scr_rules.yaml of the   *)
(* repository declares all eleven).                                        *)
RulesDeclared ==
    \A s \in Schemas, w \in Disks :
        ScrFailed(s, w) = {} =>
            {"r3_protected_files_are_in_manifest", "code_files_have_r3_rows",
             "prompt_bundle_args_match_r5"} \subseteq s.rules

(* The rules of the schema hold for its readers: if scr-verify passes, a    *)
(* file that a row of R3 names PROTECTED is refused to every bundle and    *)
(* shown as such whatever rows stand before it, has a file that VALIDATES  *)
(* it, and append refuses it if no other row matches it; every code file   *)
(* on the disk has a route.  If validate-bundles passes too, a call in a   *)
(* prompt has a value for every name that the bundle uses.                 *)
SchemaHeld ==
    \A s \in Schemas, w \in Disks :
        ScrFailed(s, w) = {} =>
            /\ \A path \in Tier(s, "PROTECTED") \cap Paths :
                  /\ RouteAnswer(s, path) = "PROTECTED"
                  /\ \A b \in DOMAIN s.bundles : RouteCheck(s, path, b) = "R3_PROTECTED"
                  /\ \E e \in CascadeUpstream(s, path) :
                        /\ e.type = "VALIDATES"
                        /\ e.source \in Paths => e \in CascadeFor(s, e.source)
                  /\ (\A r \in Rows(s) : Matches(r.file, path) => r.file = path)
                     /\ Cardinality({r \in Rows(s) : r.file = path}) = 1
                        => ~AppendAllowed(s, path, {})
            /\ \A path \in CodeFiles \cap w.files : RouteFor(s, path) # NoRow
            /\ BundleErrors(s) = {} =>
                  \A c \in w.calls : c.bundle \in DOMAIN s.bundles =>
                      s.bundles[c.bundle].uses \subseteq c.args \cup Computed

(* A table that dispatch-validate passes can be dispatched: each active     *)
(* row has a number for a priority and a directory, and no two the same    *)
(* number in the same writing.                                             *)
TablesHeld ==
    \A t \in Tables :
        Violations(Fields, t.rows, t.dirs) = {} =>
            \A i, j \in DOMAIN t.rows :
                t.rows[i].status.text = "ACTIVE" =>
                    /\ "INT" \in t.rows[i].priority.fits /\ t.rows[i].slug.text \in t.dirs
                    /\ i # j /\ t.rows[j].status.text = "ACTIVE"
                           => t.rows[i].priority.text # t.rows[j].priority.text

(* Two programs that read the same file tell the same: an approval counts   *)
(* for the engine (_shared.check_pa_active) if it does for the monitor     *)
(* (sources.parse_preapprovals), an armed one until its day is over and a  *)
(* disarmed one never; what integrity-check passes with every row signed,  *)
(* verify-integrity.sh passes; a schema and a table that scr-verify and    *)
(* dispatch-validate pass are what gates and dispatch rely on.             *)
ReadersAgree ==
    /\ EngineActive(content["PA"]) = BridgeActive(content["PA"])
    /\ \A o \in Owners :
          script[o].at = "done" /\ script[o].result = "ok" =>
              /\ script[o].kind = "arm" => EngineActive(content["PA"]) =
                    (script[o].arg \in Deadlines /\ today <= script[o].arg)
              /\ script[o].kind = "disarm" => ~EngineActive(content["PA"])
    /\ CheckPasses /\ (\A f \in Files : hash[f] # Unsigned) => VerifyPasses
    /\ SchemaHeld /\ TablesHeld
=============================================================================
