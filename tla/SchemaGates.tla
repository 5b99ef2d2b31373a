----------------------------- MODULE SchemaGates -----------------------------
(***************************************************************************)
(* The rules of the registry, read by two kinds of readers.                *)
(*                                                                         *)
(* orchestration-os/schema/*.yaml says which file belongs to which tier,   *)
(* what depends on what, and which bundles there are.  The gates           *)
(* (engine/gates.py) look a path up when a command writes; scr-verify      *)
(* (protocol/integrity.py) compares the parts of the schema with each      *)
(* other and with the disk.  Both are functions of a schema; a schema is   *)
(* good if the gates can be relied upon whatever else is written in it.    *)
(*                                                                         *)
(* A schema is a record: routes (the rows of R3, in order), edges (R4),    *)
(* bundles (R5: of each the arguments, the names that its writes and       *)
(* appends use, the conditions of its guards, the files it writes),        *)
(* objects and fks (R1, R2), protected (CL5), rules (R6).  A disk is a record of what the predicates *)
(* read: the files there are, the ids in SESSION-REGISTRY.md, the keys in  *)
(* LOCK.md, the calls of bundles in the prompts.  A name is a path or a    *)
(* glob; "(append)" and the like after a name is its note.                 *)
(***************************************************************************)
EXTENDS Naturals, Sequences, FiniteSets, SequencesExt

CONSTANTS Paths,    \* files that commands are asked about
          Names,    \* what the schema names: paths and globs
          Covers,   \* Covers[n]: the paths that n matches
          NoRow,    \* no row of R3
          NoFile,   \* the file is not there
          CodeFiles,\* files under the code packages and apps/monitor
          Hardwired \* PROTECTED_PATHS of the engine

ASSUME SchemaAssumption ==
    /\ Paths \subseteq Names /\ CodeFiles \subseteq Paths
    /\ Covers \in [Names -> SUBSET Paths] /\ \A p \in Paths : Covers[p] = {p}

(* What the loader makes of the seven files, whatever is missing in them.  *)
IsSchema(s) ==
    /\ s.routes \in Seq([file : Names, tier : STRING, bundle : s.bundleNames \cup {""}])
    /\ \A i \in DOMAIN s.routes : s.routes[i] # NoRow
    /\ \A e \in s.edges : e.type \in STRING
                         /\ {e.source, e.target} \subseteq Names \cup s.bundleNames
    /\ \A b \in DOMAIN s.bundles : /\ s.bundles[b].args \subseteq STRING
                                  /\ s.bundles[b].targets \subseteq Names
    /\ DOMAIN s.bundles \subseteq s.bundleNames /\ s.protected \subseteq Names
    /\ s.fks \cup s.objects \cup s.rules \subseteq STRING

-----------------------------------------------------------------------------
(* THE GATES                                                                *)

(* _path_matches: notes are cut off, "*" is one segment of a path.          *)
Matches(name, path) == path \in Covers[name]

(* The first row whose name matches.                                        *)
RouteFor(s, path) ==
    LET hits == {i \in DOMAIN s.routes : Matches(s.routes[i].file, path)}
    IN  IF hits = {} THEN NoRow
        ELSE s.routes[CHOOSE i \in hits : \A j \in hits : i <= j]

(* Mutant: the tier alone is asked for.                                     *)
IsProtectedByRoute(s, path) ==
    RouteFor(s, path) # NoRow /\ RouteFor(s, path).tier = "PROTECTED"

(* CL5 lists names and is searched for the path itself; or the tier of R3.  *)
IsProtected(s, path) ==
    \/ path \in s.protected
    \/ RouteFor(s, path) # NoRow /\ RouteFor(s, path).tier = "PROTECTED"

(* A write by a bundle.                                                     *)
RouteCheck(s, path, bundle) ==
    IF IsProtected(s, path) THEN "R3_PROTECTED"
    ELSE IF RouteFor(s, path) = NoRow THEN "R3_ROUTE_UNKNOWN"
    ELSE IF RouteFor(s, path).bundle \notin {"", bundle} THEN "R3_BUNDLE_MISMATCH"
    ELSE "OK"

(* The command registry-route.                                              *)
RouteAnswer(s, path) ==
    IF IsProtected(s, path) THEN "PROTECTED"
    ELSE IF RouteFor(s, path) = NoRow THEN "UNKNOWN"
    ELSE RouteFor(s, path).tier

(* append takes the tier of the first row, and does not ask for CL5.        *)
AppendAllowed(s, path, allowed) ==
    \/ path \in allowed
    \/ RouteFor(s, path) # NoRow /\ RouteFor(s, path).tier \in {"APPEND", "APPEND-ONLY"}

(* Edges out of a file and into a file.                                     *)
CascadeFor(s, path)      == {e \in s.edges : e.source \in Names /\ Matches(e.source, path)}
CascadeUpstream(s, path) == {e \in s.edges : e.target \in Names /\ Matches(e.target, path)}

(* A field of R2 and a value: "fits" says of which types the text may be,   *)
(* "null" whether it is one of the marks for nothing; enumerations are      *)
(* compared without case.                                                  *)
ValidateField(spec, value) ==
    IF spec.req /\ value.text = "" THEN "R2_REQUIRED_EMPTY"
    ELSE IF ~spec.req /\ (value.text = "" \/ value.null) THEN "OK"
    ELSE IF spec.type \notin {"TEXT", "STRING", "ENUM"} /\ spec.type \notin value.fits
         THEN "R2_TYPE"
    ELSE IF spec.type = "ENUM" /\ spec.enum # {} /\ value.text \notin spec.enum
         THEN "R2_ENUM"
    ELSE "OK"

(* dispatch-validate: each column that R2 declares, priorities of active    *)
(* rows, and the directory of the project.                                 *)
Violations(fields, rows, dirs) ==
    {cell \in (DOMAIN rows) \X (DOMAIN fields) :
        ValidateField(fields[cell[2]], rows[cell[1]][cell[2]]) # "OK"}
    \cup {<<i, "priority_unique">> : i \in {i \in DOMAIN rows :
            rows[i].status.text = "ACTIVE" /\ \E j \in 1 .. i - 1 :
                rows[j].status.text = "ACTIVE" /\ rows[j].priority.text = rows[i].priority.text}}
    \cup {<<i, "slug_fk">> : i \in {i \in DOMAIN rows : rows[i].slug.text \notin dirs}}

-----------------------------------------------------------------------------
(* THE RULES                                                                *)

Rows(s)  == {s.routes[i] : i \in DOMAIN s.routes}
Tier(s, tier) == {r.file : r \in {x \in Rows(s) : x.tier = tier}}

Verdict(ok) == IF ok THEN "PASS" ELSE "FAIL"

(* SCR-01 and SCR-06: bundles that R3 and R4 name are in R5.                *)
R3BundlesExist(s) ==
    Verdict({r.bundle : r \in Rows(s)} \cap s.bundleNames \subseteq (DOMAIN s.bundles))
R4BundlesExist(s) ==
    Verdict(UNION {{e.source, e.target} : e \in s.edges} \cap s.bundleNames
                \subseteq DOMAIN s.bundles)

(* SCR-02: objects that R2 refers to are in R1.                             *)
R2FksExist(s) == Verdict(s.fks \subseteq s.objects)

(* SCR-03: a file of the tier PROTECTED is the target of an edge VALIDATES. *)
ProtectedValidated(s) ==
    Verdict(Tier(s, "PROTECTED") \subseteq {e.target : e \in {x \in s.edges : x.type = "VALIDATES"}})

(* SCR-04, SCR-05 and SCR-08 look at three files of the workspace; of       *)
(* LOCK.md only that it has two keys.                                      *)
ChangeLogExists(w) == Verdict(w.changeLog)
RunIdsDiffer(w)    == IF w.runIds = NoFile THEN "SKIP" ELSE Verdict(IsInjective(w.runIds))
LockHasKeys(w)     == IF w.lock = NoFile THEN "SKIP" ELSE Verdict({"status", "expires_at"} \subseteq w.lock)

(* SCR-09: the prompts give every argument.  A call of a bundle that R5     *)
(* does not have is passed over.                                           *)
PromptArgsMatch(s, w) ==
    Verdict(\A c \in w.calls : c.bundle \in DOMAIN s.bundles => s.bundles[c.bundle].args \subseteq c.args)

(* SCR-10: source files on the disk and rows of the tier CODE are the same; *)
(* SCR-11: such a row names a file that is there.                          *)
CodeHasRows(s, w) == Verdict(CodeFiles \cap w.files = Tier(s, "CODE"))
CodeOnDisk(s, w)  == IF Tier(s, "CODE") = {} THEN "SKIP"
                     ELSE Verdict(Tier(s, "CODE") \subseteq w.files)

(* PREDICATE_REGISTRY.  An edge REFERENCES (SCR-07) is only listed.         *)
Predicate(s, w) ==
    [r3_bundles_exist_in_r5           |-> R3BundlesExist(s),
     r2_foreign_keys_resolve_to_r1    |-> R2FksExist(s),
     r3_protected_files_are_in_manifest |-> ProtectedValidated(s),
     changelog_file_exists            |-> ChangeLogExists(w),
     session_registry_run_ids_unique  |-> RunIdsDiffer(w),
     r4_bundle_refs_resolve_to_r5     |-> R4BundlesExist(s),
     references_cross_doc_consistency |-> "INFO",
     session_close_releases_lock      |-> LockHasKeys(w),
     prompt_bundle_args_match_r5      |-> PromptArgsMatch(s, w),
     code_files_have_r3_rows          |-> CodeHasRows(s, w),
     r3_code_rows_exist_on_disk       |-> CodeOnDisk(s, w)]

(* run_scr_verify: a rule with a predicate nobody knows fails; the files of *)
(* the tier PROTECTED are in CL5, declared as a rule or not.               *)
ScrFailed(s, w) ==
    LET verdict == Predicate(s, w)
    IN  {r \in s.rules : r \notin DOMAIN verdict \/ verdict[r] = "FAIL"}
        \cup (IF Tier(s, "PROTECTED") \subseteq s.protected THEN {} ELSE {"CL5"})

(* validate-bundles: names that writes and appends use are declared, and    *)
(* guards have a condition that evaluate_guard knows (it lets others hold).*)
Computed == {"NOW", "TODAY"}
BundleErrors(s) ==
    {b \in DOMAIN s.bundles :
        \/ s.bundles[b].targets \cap Hardwired # {}
        \/ ~(s.bundles[b].conditions \subseteq {"NOT_EMPTY", "EQUALS", "==", "IN"})
        \/ ~(s.bundles[b].uses \subseteq s.bundles[b].args \cup Computed)}
=============================================================================
