------------------------------ MODULE MCManifest ------------------------------
(***************************************************************************)
(* Small schemas, workspaces and tables for Manifest: every list of up to   *)
(* three rows of R3 out of those below, with every CL5 and every set of    *)
(* edges.                                                                  *)
(***************************************************************************)
EXTENDS Manifest

MCPaths  == {"soul", "note", "code"}
MCNames  == MCPaths \cup {"docs/*"}
MCCovers == [n \in MCNames |-> IF n = "docs/*" THEN {"soul", "note"} ELSE {n}]

MCRow(file, tier, bundle) == [file |-> file, tier |-> tier, bundle |-> bundle]
MCRows == {MCRow("soul", "PROTECTED", ""), MCRow("docs/*", "STANDARD", "close"),
           MCRow("docs/*", "APPEND", ""), MCRow("note", "PROTECTED", ""),
           MCRow("code", "CODE", ""), MCRow("note", "STANDARD", "lost")}
MCEdge(source, type, target) == [source |-> source, type |-> type, target |-> target]
MCEdges == {MCEdge("code", "VALIDATES", "soul"), MCEdge("soul", "READS", "note"),
            MCEdge("close", "VALIDATES", "note")}

MCBundles(uses, condition) ==
    [b \in {"close"} |-> [args |-> {"run_id"}, uses |-> uses, conditions |-> {condition},
                          targets |-> {"note"}]]
MCRules == {"r3_bundles_exist_in_r5", "r2_foreign_keys_resolve_to_r1",
            "r3_protected_files_are_in_manifest", "changelog_file_exists",
            "session_registry_run_ids_unique", "r4_bundle_refs_resolve_to_r5",
            "references_cross_doc_consistency", "session_close_releases_lock",
            "prompt_bundle_args_match_r5", "code_files_have_r3_rows",
            "r3_code_rows_exist_on_disk"}

MCSchemas ==
    {[routes |-> routes, edges |-> edges, protected |-> protected,
      bundles |-> bundles, bundleNames |-> {"close", "lost"},
      objects |-> {"OBJ:PROJ"}, fks |-> {"OBJ:PROJ"}, rules |-> rules] :
        routes \in SeqOf(MCRows, 3), edges \in SUBSET MCEdges,
        protected \in SUBSET {"soul", "note"},
        bundles \in {MCBundles({"run_id", "NOW"}, "IN")}, rules \in {MCRules, {"unheard_of"}}}
    \cup
    {[routes |-> <<MCRow("soul", "PROTECTED", "")>>, edges |-> MCEdges, protected |-> {"soul"},
      bundles |-> bundles, bundleNames |-> {"close", "lost"},
      objects |-> {"OBJ:PROJ"}, fks |-> fks, rules |-> MCRules] :
        bundles \in {MCBundles(uses, condition) : uses \in {{"run_id"}, {"slug"}},
                                               condition \in {"==", "IS"}},
        fks \in {{"OBJ:LOST"}, {}}}

MCDisks ==
    {[files |-> files, changeLog |-> TRUE, runIds |-> runIds,
      lock |-> {"status", "holder", "expires_at"}, calls |-> calls] :
        files \in {{"soul", "note"}, {"soul", "note", "code"}},
        runIds \in {<<1, 2>>, <<1, 1>>, NoFile},
        calls \in {{}, {[bundle |-> "close", args |-> {}]}, {[bundle |-> "close", args |-> {"run_id"}], [bundle |-> "gone", args |-> {}]}}}

MCValue(text, fits, null) == [text |-> text, fits |-> fits, null |-> null]
MCFields == [priority |-> [type |-> "INT", req |-> TRUE, enum |-> {}],
             slug     |-> [type |-> "TOKEN", req |-> TRUE, enum |-> {}],
             status   |-> [type |-> "ENUM", req |-> TRUE, enum |-> {"ACTIVE", "PAUSED"}],
             phase    |-> [type |-> "TOKEN", req |-> FALSE, enum |-> {}]]
MCTableRows ==
    [priority : {MCValue("1", {"INT", "TOKEN"}, FALSE), MCValue("01", {"INT", "TOKEN"}, FALSE),
                 MCValue("high", {"TOKEN"}, FALSE), MCValue("", {}, FALSE)},
     slug     : {MCValue("p", {"TOKEN"}, FALSE), MCValue("q", {"TOKEN"}, FALSE)},
     status   : {MCValue("ACTIVE", {"TOKEN"}, FALSE), MCValue("PAUSED", {"TOKEN"}, FALSE),
                 MCValue("LOST", {"TOKEN"}, FALSE)},
     phase    : {MCValue("-", {"TOKEN"}, TRUE), MCValue("two words", {}, FALSE)}]
MCTables == {[rows |-> rows, dirs |-> dirs] :
                rows \in SeqOf(MCTableRows, 2), dirs \in {{"p"}, {"p", "q"}}}

(* Every schema above that scr-verify passes declares the rules it needs.   *)
ASSUME MCRulesDeclared == RulesDeclared

MCSymmetry == Permutations(Owners)
==============================================================================
