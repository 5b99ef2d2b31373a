----------------------------- MODULE MCBundleExec -----------------------------
(* Small bundles with the shapes of bundles.yaml: update is                  *)
(* longrunner_update (its field quality is one the LONGRUNNER template does  *)
(* not have), hold is phase_transition, close is session_close, verify is    *)
(* manifest_verify.  typo is a bundle that validate-bundles refuses.         *)
EXTENDS BundleExec, TLC

MCTexts == STRING
MCNow(n) == "t" \o ToString(n)
MCDaysAhead(days) == "in " \o days

Lit(t) == [kind |-> "literal", text |-> t]
Arg(a) == [kind |-> "arg", text |-> a]
Write(f, k, e) == [file |-> f, key |-> k, expr |-> e]
Audit(refs) == [to |-> "AUDIT-LOG", refs |-> refs]
Open == [on |-> "LONGRUNNER", key |-> "status", op |-> "EQUALS", values |-> {"ACTIVE"}]

MCBundles ==
    [update |->
        [args |-> {"slug", "objective"},
         validates |-> {Open, [on |-> "args", key |-> "objective", op |-> "NOT_EMPTY",
                               values |-> {}]},
         writes |-> <<Write("LONGRUNNER", "objective", Arg("objective")),
                      Write("LONGRUNNER", "quality", Lit("WEAK")),
                      Write("DISPATCH", "last_pass", [kind |-> "now"])>>,
         appends |-> <<Audit({"slug"})>>, notify |-> <<>>],
     hold |->
        [args |-> {"slug", "successor"}, validates |-> {Open},
         writes |-> <<Write("LONGRUNNER", "status", Lit("COMPLETE")),
                      Write("LONGRUNNER", "successor", Arg("successor")),
                      Write("LONGRUNNER", "expires", [kind |-> "now_plus", text |-> "days"]),
                      Write("DISPATCH", "status", Lit("HOLD"))>>,
         appends |-> <<>>, notify |-> <<[to |-> "NOTIFICATIONS", refs |-> {"slug", "successor"}]>>],
     close |->
        [args |-> {"entry"},
         validates |-> {[on |-> "args", key |-> "entry", op |-> "IN", values |-> {"e"}]},
         writes |-> <<Write("LOCK", "status", Lit("released"))>>,
         appends |-> <<[to |-> "memory", refs |-> {"entry"}],
                       [to |-> "SOUL", refs |-> {}]>>, notify |-> <<>>],
     verify |->
        [args |-> {}, validates |-> {},
         writes |-> <<Write("MANIFEST", "last_verified", [kind |-> "now"])>>,
         appends |-> <<Audit({})>>, notify |-> <<>>],
     typo |->
        [args |-> {"slug"},
         validates |-> {[on |-> "args", key |-> "slug", op |-> "EMPTY_NOT", values |-> {}]},
         writes |-> <<Write("DISPATCH", "escalation", Arg("reason"))>>,
         appends |-> <<>>, notify |-> <<>>]]

MCCalls ==
    {[bundle |-> b, args |-> [slug |-> "s", objective |-> "new", successor |-> "build",
                              entry |-> "e"]] :
        b \in DOMAIN MCBundles}
    \cup {[bundle |-> "undeclared", args |-> [slug |-> "s"]],
          [bundle |-> "hold", args |-> [slug |-> "bad slug", successor |-> "build"]],
          [bundle |-> "hold", args |-> [slug |-> "s"]],
          [bundle |-> "update", args |-> [slug |-> "s"]],
          [bundle |-> "close", args |-> [slug |-> "s"]]}

MCDisk ==
    [LONGRUNNER |-> [status |-> "ACTIVE", objective |-> "", successor |-> "", expires |-> "~",
                     days |-> "5"],
     DISPATCH |-> [status |-> "active", escalation |-> "none", last_pass |-> "t0"],
     LOCK |-> [status |-> "locked", run_id |-> "r"],
     MANIFEST |-> [last_verified |-> "t0"]]

(* cascade_for knows an edge by the name of a target, as the second has it. *)
MCEdges == {[source |-> "PROJECTS/*/LONGRUNNER.md", target |-> "ACTIVE-PROJECTS.md"],
            [source |-> "LOCK", target |-> "SESSION-REGISTRY.md"]}

MCOwnerWrites == {[key |-> "status", value |-> "paused"],
                  [key |-> "escalation", value |-> "none"]}
=============================================================================
