----------------------- MODULE ProjectLifecycleProofs -----------------------
(***************************************************************************)
(* What TLC checks of ProjectLifecycle on one and two projects, for every   *)
(* number of projects, phases, reroutes, notices and crashes.              *)
(***************************************************************************)
EXTENDS ProjectLifecycle, TLAPS

-----------------------------------------------------------------------------
(* THE INVARIANT                                                            *)

Slug  == session.slug
InBundle(b) == session.stage = "bundle" /\ session.bundle = b

(* The session at every stage.  Only bundles of a kind go on to a stage.    *)
SessionShape ==
    /\ session.kind = "none" => session.stage = "start"
    /\ session.stage \in {"advance", "extract", "pass", "gate", "block", "bundle"} => Slug \in Projects
    /\ session.checkpoint => Slug \in Projects
    /\ session.stage # "bundle" => session.then = "close"
    /\ session.then \in {"close", "extract", "gate", "dispatch", "block", "accuse", "expire"}
    /\ session.then = "extract" <=> InBundle("phase_advance")
    /\ session.then = "gate" <=> InBundle("longrunner_update")
    /\ session.then = "expire" <=> (InBundle("reescalate") \/ InBundle("auto_pause"))
    /\ session.stage = "bundle" => session.step \in 1 .. BundleLength[session.bundle]

TypeInv == TypeOK /\ SessionShape

(* A command of the owner that is under way: his copy is up to date with    *)
(* every row that no session wrote meanwhile, and what he approves is on     *)
(* hold, unless a session has written its row.                             *)
OwnerInv ==
    /\ owner.cmd # "none" => owner.slug \in Projects
    /\ owner.read => owner.cmd # "none" /\ \A q \in Projects \ owner.missed : owner.table[q] = row[q]
    /\ owner.cmd = "approve" => owner.slug \in owner.missed \/ OnHold(owner.slug)

(* A project that a worker works on is not on hold, and no approval of an   *)
(* earlier hold is left in its row; unless an old table brought it back.    *)
InWork == \/ session.stage \in {"extract", "pass", "gate"}
          \/ InBundle("longrunner_update")
          \/ (InBundle("phase_transition") /\ session.step <= 5)
WorkInv ==
    /\ InWork => \/ Slug \in spoiled
                 \/ ~OnHold(Slug) /\ row[Slug].esc # "transition-approved"
    /\ InBundle("phase_advance") /\ session.step = 8 => Slug \in spoiled \/ ~OnHold(Slug)

(* How far the bundles are that end a phase and begin the next.             *)
TransitionInv ==
    InBundle("phase_transition") =>
        /\ session.succ \in Phases
        /\ lr[Slug].successor = session.succ /\ session.succ # lr[Slug].name
        /\ lr[Slug].status = IF session.step = 1 THEN "ACTIVE" ELSE "COMPLETE"
        /\ session.step = 5 => lr[Slug].count = 0
AdvanceInv ==
    /\ session.stage = "advance" =>
          lr[Slug].successor # NoPhase /\ (Finished(Slug) => Slug \in granted \cup spoiled)
    /\ InBundle("phase_advance") =>
          /\ session.succ \in Phases
          /\ IF session.step = 1
             THEN /\ lr[Slug].status = "COMPLETE" /\ lr[Slug].successor = session.succ
                  /\ lr[Slug].name # session.succ => Slug \in granted \cup spoiled
             ELSE ~Finished(Slug)
          /\ session.step = 2 => lr[Slug].successor = lr[Slug].name
          /\ session.step > 2 => lr[Slug].status = "ACTIVE"

(* Only finished phases are authorised, and an approved one is.             *)
GrantInv ==
    /\ \A p \in granted : Finished(p)
    /\ \A p \in Projects \ spoiled :
          OnHold(p) /\ row[p].esc = "transition-approved" /\ Finished(p) => p \in granted

(* Without crashes a hold can end, or is ending.                            *)
HoldInv ==
    crashes = 0 =>
        \A p \in Projects \ spoiled : OnHold(p) =>
            \/ Finished(p) /\ lr[p].successor # NoPhase
            \/ InBundle("phase_advance") /\ Slug = p

(* The counter and the notices, of a hold and of one that is being dealt    *)
(* with.                                                                    *)
CountInv ==
    /\ CounterFollowsNotices
    /\ (session.stage = "expire" \/ session.then = "expire") =>
          \A p \in session.todo \ spoiled : lr[p].count <= notices[p]
    /\ InBundle("reescalate") =>
          /\ session.step <= 2 => lr[Slug].count < MaxReescalations
          /\ Slug \in spoiled \/ /\ session.step = 1 => lr[Slug].count <= notices[Slug]
                                 /\ session.step = 2 => lr[Slug].count < notices[Slug]
    /\ InBundle("auto_pause") /\ session.step = 1 =>
          Slug \in spoiled \/ notices[Slug] = MaxReescalations

LifeInv == /\ TypeInv /\ OwnerInv /\ WorkInv /\ TransitionInv /\ AdvanceInv
           /\ GrantInv /\ HoldInv /\ CountInv

-----------------------------------------------------------------------------
(* SESSIONS AND WRITES                                                      *)

(* A session is the record of its fields.                                   *)
LEMMA SessionFields ==
  ASSUME session \in Session
  PROVE  session = [kind |-> session.kind, stage |-> session.stage, slug |-> session.slug,
                    todo |-> session.todo, reroutes |-> session.reroutes,
                    checkpoint |-> session.checkpoint, bundle |-> session.bundle,
                    step |-> session.step, succ |-> session.succ, then |-> session.then]
BY DEF Session

(* A session in another place.                                              *)
LEMMA GotoFields ==
  ASSUME session \in Session, NEW stage \in Stages, Goto(stage)
  PROVE  /\ session' \in Session /\ session'.kind = session.kind /\ session'.stage = stage
         /\ session'.slug = session.slug /\ session'.todo = session.todo
         /\ session'.checkpoint = session.checkpoint /\ session'.bundle = session.bundle
         /\ session'.then = session.then
<1>1. session' = [kind |-> session.kind, stage |-> stage, slug |-> session.slug,
                  todo |-> session.todo, reroutes |-> session.reroutes,
                  checkpoint |-> session.checkpoint, bundle |-> session.bundle,
                  step |-> session.step, succ |-> session.succ, then |-> session.then]
  BY SessionFields DEF Goto
<1>2. QED
  BY <1>1 DEF Session

(* A session that runs a bundle.                                            *)
LEMMA RunFields ==
  ASSUME session \in Session, NEW b \in Bundles, NEW p \in Projects,
         NEW next \in Phases \cup {NoPhase}, NEW then \in Stages, Run(b, p, next, then)
  PROVE  /\ session' \in Session /\ session'.kind = session.kind /\ session'.stage = "bundle"
         /\ session'.slug = p /\ session'.todo = session.todo
         /\ session'.checkpoint = session.checkpoint /\ session'.bundle = b
         /\ session'.step = 1 /\ session'.succ = next /\ session'.then = then
<1> DEFINE r == [kind |-> session.kind, stage |-> "bundle", slug |-> p, todo |-> session.todo,
                 reroutes |-> session.reroutes, checkpoint |-> session.checkpoint,
                 bundle |-> b, step |-> 1, succ |-> next, then |-> then]
<1>1. "bundle" \in Stages
  BY DEF Stages
<1>2. session' = r
  BY SessionFields DEF Run
<1>3. r \in Session
  BY <1>1 DEF Session
<1>4. QED
  BY <1>2, <1>3

(* A session that runs one for the next project of its list.                *)
LEMMA RunNextFields ==
  ASSUME session \in Session, NEW b \in Bundles, NEW p \in session.todo, NEW then \in Stages,
         session' = [session EXCEPT !.stage = "bundle", !.slug = p, !.bundle = b,
                                    !.step = 1, !.then = then, !.todo = @ \ {p}]
  PROVE  /\ session' \in Session /\ session'.kind = session.kind /\ session'.stage = "bundle"
         /\ session'.slug = p /\ session'.todo = session.todo \ {p}
         /\ session'.checkpoint = session.checkpoint /\ session'.bundle = b
         /\ session'.step = 1 /\ session'.then = then /\ p \in Projects
<1> DEFINE r == [kind |-> session.kind, stage |-> "bundle", slug |-> p,
                 todo |-> session.todo \ {p},
                 reroutes |-> session.reroutes, checkpoint |-> session.checkpoint,
                 bundle |-> b, step |-> 1, succ |-> session.succ, then |-> then]
<1>1. "bundle" \in Stages
  BY DEF Stages
<1>2. session' = r
  BY SessionFields
<1>3. session.todo \subseteq Projects
  BY DEF Session
<1>4. r \in Session
  BY <1>1, <1>3 DEF Session
<1>5. QED
  BY <1>2, <1>3, <1>4

(* A session with another list.                                             *)
LEMMA ListFields ==
  ASSUME session \in Session, NEW stage \in Stages, NEW todo \in SUBSET Projects,
         List(stage, todo)
  PROVE  /\ session' \in Session /\ session'.kind = session.kind /\ session'.stage = stage
         /\ session'.slug = session.slug /\ session'.todo = todo
         /\ session'.checkpoint = session.checkpoint /\ session'.then = session.then
BY DEF Session, List

(* No session.                                                              *)
LEMMA NoSessionFields ==
  /\ NoSession \in Session /\ NoSession.kind = "none" /\ NoSession.stage = "start"
  /\ NoSession.slug = NoProject /\ NoSession.checkpoint = FALSE
  /\ NoSession.bundle = "route_block" /\ NoSession.then = "close"
<1>1. "start" \in Stages /\ "close" \in Stages
  BY DEF Stages
<1>2. "route_block" \in Bundles
  BY DEF Bundles, BundleLength
<1>3. 0 \in 0 .. MaxReroutes
  BY LimitAssumption
<1>4. QED
  BY <1>1, <1>2, <1>3 DEF NoSession, Session

(* The lengths of the bundles.                                              *)
LEMMA Lengths ==
  /\ Bundles = {"longrunner_update", "phase_transition", "phase_advance", "route_block",
                "surface_escalation", "reescalate", "auto_pause"}
  /\ BundleLength["longrunner_update"] = 1 /\ BundleLength["phase_transition"] = 7
  /\ BundleLength["phase_advance"] = 8 /\ BundleLength["route_block"] = 2
  /\ BundleLength["surface_escalation"] = 2 /\ BundleLength["reescalate"] = 3
  /\ BundleLength["auto_pause"] = 2
BY DEF Bundles, BundleLength

(* What the i-th write of a bundle makes of a LONGRUNNER l (bundles.yaml).  *)
LrStep(b, i, l, next, r) ==
    /\ r \in Longrunner
    /\ r.name = IF b = "phase_advance" /\ i = 1 THEN next ELSE l.name
    /\ r.status = IF b = "phase_transition" /\ i = 1 THEN "COMPLETE"
                  ELSE IF b = "phase_advance" /\ i = 2 THEN "ACTIVE" ELSE l.status
    /\ r.successor = IF b = "phase_transition" /\ i = 2 THEN next
                     ELSE IF b = "phase_advance" /\ i = 3 THEN NoPhase ELSE l.successor
    /\ r.count = IF (b = "phase_transition" /\ i = 4) \/ (b = "phase_advance" /\ i = 5) THEN 0
                 ELSE IF b = "reescalate" /\ i = 2 THEN l.count + 1 ELSE l.count
    /\ l.objective => r.objective
    /\ b = "longrunner_update" => r.objective

(* Every write of a LONGRUNNER is such a step.                             *)
LEMMA LrFields ==
  ASSUME NEW b \in Bundles, NEW i \in 1 .. BundleLength[b], NEW l \in Longrunner,
         NEW next \in Phases \cup {NoPhase},
         b = "phase_advance" => next \in Phases,
         b = "reescalate" /\ i = 2 => l.count < MaxReescalations
  PROVE  LrStep(b, i, l, next, LrWrite(b, i, l, next))
<1> USE DEF LrStep
<1>0. 0 \in 0 .. MaxReescalations /\ MaxReescalations \in Nat
  BY LimitAssumption
<1>1. CASE b = "phase_transition"
  <2>1. LrWrite(b, i, l, next) = TransitionLr(i, l, next)
    BY <1>1 DEF LrWrite
  <2>2. QED
    BY <1>0, <1>1, <2>1 DEF TransitionLr, Longrunner
<1>2. CASE b = "phase_advance"
  <2>1. LrWrite(b, i, l, next) = AdvanceLr(i, l, next)
    BY <1>2 DEF LrWrite
  <2>2. i = 1 \/ i = 2 \/ i = 3 \/ i = 4 \/ i = 5 \/ i = 6 \/ i > 6
    <3>1. i \in 1 .. 8
      BY <1>2, Lengths
    <3>2. QED
      BY <3>1
  <2>3. CASE i = 1
    BY <1>0, <1>2, <2>1, <2>3 DEF AdvanceLr, Longrunner
  <2>4. CASE i = 2
    BY <1>0, <1>2, <2>1, <2>4 DEF AdvanceLr, Longrunner
  <2>5. CASE i = 3
    BY <1>0, <1>2, <2>1, <2>5 DEF AdvanceLr, Longrunner
  <2>6. CASE i = 4
    BY <1>0, <1>2, <2>1, <2>6 DEF AdvanceLr, Longrunner
  <2>7. CASE i = 5
    BY <1>0, <1>2, <2>1, <2>7 DEF AdvanceLr, Longrunner
  <2>8. CASE i = 6
    <3>1. LrWrite(b, i, l, next) = [l EXCEPT !.objective = TRUE]
      BY <2>1, <2>8 DEF AdvanceLr
    <3>2. LrWrite(b, i, l, next) \in Longrunner
      BY <3>1 DEF Longrunner
    <3>3. /\ LrWrite(b, i, l, next).name = l.name /\ LrWrite(b, i, l, next).status = l.status
          /\ LrWrite(b, i, l, next).successor = l.successor
          /\ LrWrite(b, i, l, next).count = l.count
          /\ LrWrite(b, i, l, next).objective
      BY <3>1 DEF Longrunner
    <3>4. QED
      BY <1>2, <2>8, <3>2, <3>3
  <2>9. CASE i > 6
    BY <1>0, <1>2, <2>1, <2>2, <2>9 DEF AdvanceLr, Longrunner
  <2>10. QED
    BY <2>2, <2>3, <2>4, <2>5, <2>6, <2>7, <2>8, <2>9
<1>3. CASE b = "longrunner_update"
  BY <1>3 DEF LrWrite, Longrunner
<1>4. CASE b = "reescalate"
  <2>1. CASE i = 2
    <3>1. LrWrite(b, i, l, next) = [l EXCEPT !.count = @ + 1]
      BY <1>4, <2>1 DEF LrWrite
    <3>2. QED
      BY <1>0, <1>4, <2>1, <3>1 DEF Longrunner
  <2>2. CASE i # 2
    BY <1>4, <2>2 DEF LrWrite
  <2>3. QED
    BY <2>1, <2>2
<1>5. CASE b \in {"route_block", "surface_escalation", "auto_pause"}
  BY <1>5 DEF LrWrite
<1>6. QED
  BY <1>1, <1>2, <1>3, <1>4, <1>5, Lengths

(* ... and of a row.                                                        *)
RowStep(b, i, r, w) ==
    /\ w \in Row
    /\ w.status = IF b = "phase_transition" /\ i = 5 THEN "TRANSITION-HOLD"
                  ELSE IF b = "phase_advance" /\ i = 7 THEN "ACTIVE"
                  ELSE IF b = "route_block" /\ i = 1 THEN "BLOCKED"
                  ELSE IF b = "auto_pause" /\ i = 1 THEN "PAUSED" ELSE r.status
    /\ w.esc = "transition-approved" => r.esc = "transition-approved"
    /\ b = "phase_advance" /\ i = 8 => w.esc = "none"

(* Every write of a row is such a step.                                    *)
LEMMA RowFields ==
  ASSUME NEW b \in Bundles, NEW i \in 1 .. BundleLength[b], NEW r \in Row
  PROVE  RowStep(b, i, r, RowWrite(b, i, r))
<1> USE DEF RowStep
<1>1. CASE b = "phase_transition"
  <2>1. RowWrite(b, i, r) = TransitionRow(i, r)
    BY <1>1 DEF RowWrite
  <2>2. QED
    BY <1>1, <2>1 DEF TransitionRow, Row, Statuses, Escalations
<1>2. CASE b = "phase_advance"
  <2>1. RowWrite(b, i, r) = AdvanceRow(i, r)
    BY <1>2 DEF RowWrite
  <2>2. QED
    BY <1>2, <2>1 DEF AdvanceRow, Row, Statuses, Escalations
<1>3. CASE b = "route_block"
  <2>1. i = 1 \/ i = 2
    BY <1>3, Lengths
  <2>2. QED
    BY <1>3, <2>1 DEF RowWrite, Row, Statuses, Escalations
<1>4. CASE b \in {"surface_escalation", "reescalate"}
  BY <1>4 DEF RowWrite, Row, Statuses, Escalations
<1>5. CASE b = "auto_pause"
  BY <1>5 DEF RowWrite, Row, Statuses, Escalations
<1>6. CASE b = "longrunner_update"
  BY <1>6 DEF RowWrite
<1>7. QED
  BY <1>1, <1>2, <1>3, <1>4, <1>5, <1>6, Lengths

-----------------------------------------------------------------------------
(* STEPS THAT LEAVE THE PROJECTS ALONE                                      *)

(* No hold, approval or phase is about to change hands.                     *)
Calm == \/ session.stage \in {"start", "dispatch", "block", "detect", "accuse", "scan",
                              "surface", "expiry", "review", "close"}
        \/ InBundle("surface_escalation") \/ InBundle("route_block")

(* The owner's copy and the rows when neither he nor a session writes.      *)
LEMMA OwnerSame ==
  ASSUME OwnerInv, UNCHANGED <<row, owner>>
  PROVE  OwnerInv'
BY DEF OwnerInv, OnHold

(* A session writes rows, and the owner's copy of these is out of date.     *)
LEMMA OwnerMisses ==
  ASSUME LifeInv, Meanwhile, row' \in [Projects -> Row]
  PROVE  OwnerInv' /\ owner' \in Command
<1>0. owner \in Command /\ OwnerInv /\ row \in [Projects -> Row]
  BY DEF LifeInv, TypeInv, TypeOK
<1>1. CASE owner.cmd = "none"
  <2>1. owner' = owner
    BY <1>1 DEF Meanwhile
  <2>2. QED
    BY <1>0, <1>1, <2>1 DEF OwnerInv
<1>2. CASE owner.cmd # "none"
  <2> DEFINE Written == {p \in Projects : row'[p] # row[p]}
  <2>1. owner' = [owner EXCEPT !.missed = @ \cup Written]
    BY <1>2 DEF Meanwhile
  <2>2. /\ owner' \in Command /\ owner'.cmd = owner.cmd /\ owner'.slug = owner.slug
        /\ owner'.read = owner.read /\ owner'.table = owner.table
        /\ owner'.missed = owner.missed \cup Written
    BY <1>0, <2>1 DEF Command
  <2>3. \A q \in Projects \ owner'.missed : q \notin owner.missed /\ row'[q] = row[q]
    BY <2>2
  <2>4. owner.slug \in Projects
    BY <1>0, <1>2 DEF OwnerInv
  <2>5. (owner.cmd = "approve" => owner.slug \in owner.missed \/ OnHold(owner.slug))'
    BY <1>0, <2>2, <2>3, <2>4 DEF OwnerInv, OnHold
  <2>6. QED
    BY <1>0, <2>2, <2>3, <2>4, <2>5 DEF OwnerInv
<1>3. QED
  BY <1>1, <1>2

(* A step that begins no hold, gives no approval, writes neither phase nor   *)
(* counter, and takes the session to a calm place, if it moves it.          *)
LEMMA QuietStep ==
  ASSUME LifeInv, TypeInv', OwnerInv', spoiled \subseteq spoiled',
         \A q \in Projects \ spoiled' :
            /\ row'[q].status = "TRANSITION-HOLD" => row[q].status = "TRANSITION-HOLD"
            /\ row'[q].esc = "transition-approved" => row[q].esc = "transition-approved",
         \A q \in Projects :
            /\ lr'[q].name = lr[q].name /\ lr'[q].status = lr[q].status
            /\ lr'[q].successor = lr[q].successor /\ lr'[q].count = lr[q].count
            /\ lr[q].objective => lr'[q].objective,
         granted' = granted, notices' = notices,
         \/ session' = session /\ crashes' = crashes
         \/ Calm' /\ crashes' = crashes /\ ~InBundle("phase_advance")
         \/ Calm' /\ crashes' # 0
  PROVE  LifeInv'
<1>0. TypeInv /\ WorkInv /\ TransitionInv /\ AdvanceInv /\ GrantInv /\ HoldInv /\ CountInv
  BY DEF LifeInv
<1>1. CASE session' = session /\ crashes' = crashes
  <2>1. WorkInv'
    <3>1. \/ Slug' \in spoiled'
          \/ /\ Slug \in Projects \ spoiled /\ Slug' = Slug /\ (OnHold(Slug)' => OnHold(Slug))
             /\ row'[Slug].esc = "transition-approved" => row[Slug].esc = "transition-approved"
          \/ ~InWork' /\ ~InBundle("phase_advance")'
      BY <1>0, <1>1 DEF InWork, InBundle, Slug, OnHold, TypeInv, SessionShape
    <3>2. QED
      BY <1>0, <1>1, <3>1 DEF WorkInv, InWork, InBundle, Slug
  <2>2. TransitionInv'
    BY <1>0, <1>1 DEF TransitionInv, InBundle, Slug, TypeInv, SessionShape
  <2>3. AdvanceInv'
    BY <1>0, <1>1 DEF AdvanceInv, InBundle, Slug, TypeInv, SessionShape, Finished
  <2>4. GrantInv'
    BY <1>0, <1>1 DEF GrantInv, OnHold, Finished, TypeInv, TypeOK
  <2>5. HoldInv'
    BY <1>0, <1>1 DEF HoldInv, OnHold, Finished, InBundle, Slug
  <2>6. CountInv'
    <3>1. session.todo \subseteq Projects
      BY <1>0 DEF TypeInv, TypeOK, Session
    <3>2. CounterFollowsNotices'
      BY <1>0 DEF CountInv, CounterFollowsNotices, OnHold
    <3>3. QED
      BY <1>0, <1>1, <3>1, <3>2 DEF CountInv, InBundle, Slug, TypeInv, SessionShape
  <2>7. QED
    BY <2>1, <2>2, <2>3, <2>4, <2>5, <2>6 DEF LifeInv
<1>2. CASE Calm' /\ (crashes' # 0 \/ (crashes' = crashes /\ ~InBundle("phase_advance")))
  <2>0. /\ session'.stage \notin {"advance", "extract", "pass", "gate", "expire"}
        /\ session'.stage = "bundle" => session'.bundle \in {"surface_escalation", "route_block"}
        /\ session'.then # "expire"
    BY <1>2 DEF Calm, InBundle, TypeInv, SessionShape
  <2>1. WorkInv'
    BY <2>0 DEF WorkInv, InWork, InBundle
  <2>2. TransitionInv'
    BY <2>0 DEF TransitionInv, InBundle
  <2>3. AdvanceInv'
    BY <2>0 DEF AdvanceInv, InBundle
  <2>4. GrantInv'
    BY <1>0 DEF GrantInv, OnHold, Finished, TypeInv, TypeOK
  <2>5. HoldInv'
    BY <1>0, <1>2 DEF HoldInv, OnHold, Finished
  <2>6. CountInv'
    <3>2. CounterFollowsNotices'
      BY <1>0 DEF CountInv, CounterFollowsNotices, OnHold
    <3>3. QED
      BY <2>0, <3>2 DEF CountInv, InBundle
  <2>7. QED
    BY <2>1, <2>2, <2>3, <2>4, <2>5, <2>6 DEF LifeInv
<1>3. QED
  BY <1>1, <1>2

(* A session that goes on to a calm place and writes nothing.               *)
LEMMA CalmSession ==
  ASSUME LifeInv, session' \in Session, SessionShape', Calm', ~InBundle("phase_advance"),
         UNCHANGED <<files, preapproved, crashes, granted>>, unclosed' \subseteq Projects
  PROVE  LifeInv'
<1>1. TypeInv'
  BY DEF LifeInv, TypeInv, TypeOK, files
<1>2. OwnerInv' /\ spoiled' = spoiled
  BY OwnerSame DEF LifeInv, files
<1>3. QED
  BY <1>1, <1>2, QuietStep DEF files

(* A worker or a manager takes the lock.                                   *)
LEMMA StartKeeps ==
  ASSUME LifeInv, NEW kind \in {"worker", "manager"}, NEW stage \in {"dispatch", "detect"},
         Start(kind, stage)
  PROVE  LifeInv'
<1>1. session' = [kind |-> kind, stage |-> stage, slug |-> NoProject, todo |-> {},
                  reroutes |-> 0, checkpoint |-> FALSE,
                  bundle |-> "route_block", step |-> 1, succ |-> NoPhase, then |-> "close"]
  BY DEF Start, NoSession
<1>2. session' \in Session
  <2>1. stage \in Stages /\ "close" \in Stages
    BY DEF Stages
  <2>2. "route_block" \in Bundles
    BY Lengths
  <2>3. 0 \in 0 .. MaxReroutes
    BY LimitAssumption
  <2>4. QED
    BY <1>1, <2>1, <2>2, <2>3 DEF Session
<1>3. SessionShape' /\ Calm'
  BY <1>1 DEF SessionShape, Calm, InBundle
<1>4. ~InBundle("phase_advance")
  BY DEF Start, InBundle, LifeInv, TypeInv, SessionShape
<1>5. QED
  BY <1>2, <1>3, <1>4, CalmSession DEF Start, LifeInv, TypeInv, TypeOK

(* A session registers its run and leaves.                                 *)
LEMMA CloseKeeps ==
  ASSUME LifeInv, Close
  PROVE  LifeInv'
<1>1. session' \in Session /\ SessionShape' /\ Calm'
  BY NoSessionFields DEF Close, SessionShape, Calm, InBundle
<1>2. ~InBundle("phase_advance")
  BY DEF Close, At, InBundle
<1>3. QED
  BY <1>1, <1>2, CalmSession DEF Close

(* A crash may leave any bundle half-written.                               *)
LEMMA CrashKeeps ==
  ASSUME LifeInv, Crash
  PROVE  LifeInv'
<1>1. session' \in Session /\ SessionShape' /\ Calm'
  BY NoSessionFields DEF Crash, SessionShape, Calm, InBundle
<1>2. crashes' \in 0 .. CrashLimit /\ crashes' # 0
  BY LimitAssumption DEF Crash, LifeInv, TypeInv, TypeOK
<1>3. unclosed' \subseteq Projects
  BY DEF Crash, LifeInv, TypeInv, TypeOK, SessionShape, Slug
<1>4. TypeInv'
  BY <1>1, <1>2, <1>3 DEF Crash, LifeInv, TypeInv, TypeOK, files
<1>5. OwnerInv' /\ spoiled' = spoiled
  BY OwnerSame DEF Crash, LifeInv, files
<1>6. QED
  BY <1>1, <1>2, <1>4, <1>5, QuietStep DEF Crash, files

(* A session goes from one stage to another, or to a list.                  *)
LEMMA CalmGoto ==
  ASSUME LifeInv, session.stage # "bundle",
         NEW stage \in {"scan", "expiry", "review", "close", "block"}, Goto(stage),
         session.kind # "none", stage = "block" => Slug \in Projects,
         UNCHANGED <<files, preapproved, crashes, granted, unclosed>>
  PROVE  LifeInv'
<1>0. LifeInv /\ TypeInv /\ TypeOK /\ SessionShape /\ session \in Session
  BY DEF LifeInv, TypeInv, TypeOK
<1>1. stage \in Stages
  BY DEF Stages
<1>2. /\ session' \in Session /\ session'.kind = session.kind /\ session'.stage = stage
      /\ session'.slug = session.slug /\ session'.todo = session.todo
      /\ session'.checkpoint = session.checkpoint /\ session'.then = session.then
  BY <1>0, <1>1, GotoFields
<1>3. SessionShape' /\ Calm'
  BY <1>0, <1>2 DEF SessionShape, Calm, InBundle, Slug
<1>4. ~InBundle("phase_advance")
  BY DEF InBundle
<1>5. QED
  BY <1>0, <1>2, <1>3, <1>4, CalmSession DEF TypeOK

(* A session goes on with a list of projects.                              *)
LEMMA CalmList ==
  ASSUME LifeInv, session.stage \in {"detect", "scan"}, NEW stage \in {"accuse", "surface"},
         NEW todo \in SUBSET Projects, List(stage, todo),
         UNCHANGED <<files, preapproved, crashes, granted, unclosed>>
  PROVE  LifeInv'
<1>0. LifeInv /\ TypeInv /\ TypeOK /\ SessionShape /\ session \in Session
  BY DEF LifeInv, TypeInv, TypeOK
<1>1. stage \in Stages
  BY DEF Stages
<1>2. /\ session' \in Session /\ session'.kind = session.kind /\ session'.stage = stage
      /\ session'.slug = session.slug /\ session'.todo = todo
      /\ session'.checkpoint = session.checkpoint /\ session'.then = session.then
  BY <1>0, <1>1, ListFields
<1>3. SessionShape' /\ Calm'
  BY <1>0, <1>2 DEF SessionShape, Calm, InBundle, Slug
<1>4. ~InBundle("phase_advance")
  BY DEF InBundle
<1>5. QED
  BY <1>0, <1>2, <1>3, <1>4, CalmSession DEF TypeOK

(* A session that begins an escalation or a block.                          *)
LEMMA CalmRun ==
  ASSUME LifeInv, session.stage # "bundle", session.kind # "none",
         NEW b \in {"surface_escalation", "route_block"}, NEW p \in Projects,
         NEW next \in Phases \cup {NoPhase}, NEW then \in {"close", "dispatch", "block"},
         Run(b, p, next, then),
         UNCHANGED <<files, preapproved, crashes, granted, unclosed>>
  PROVE  LifeInv'
<1>0. LifeInv /\ TypeInv /\ TypeOK /\ SessionShape /\ session \in Session
  BY DEF LifeInv, TypeInv, TypeOK
<1>1. then \in Stages /\ b \in Bundles /\ BundleLength[b] = 2
  BY Lengths DEF Stages
<1>2. /\ session' \in Session /\ session'.kind = session.kind /\ session'.stage = "bundle"
      /\ session'.slug = p /\ session'.bundle = b /\ session'.step = 1
      /\ session'.checkpoint = session.checkpoint /\ session'.then = then
  BY <1>0, <1>1, RunFields
<1>3. SessionShape' /\ Calm'
  BY <1>0, <1>1, <1>2 DEF SessionShape, Calm, InBundle, Slug
<1>4. ~InBundle("phase_advance")
  BY DEF InBundle
<1>5. QED
  BY <1>0, <1>2, <1>3, <1>4, CalmSession DEF TypeOK

(* At a stage there is a session.                                           *)
LEMMA SomeSession ==
  ASSUME LifeInv, session.stage # "start"
  PROVE  session.kind # "none"
BY DEF LifeInv, TypeInv, SessionShape

(* Files that are not written.                                              *)
LEMMA SameFiles ==
  ASSUME LifeInv, UNCHANGED <<row, lr, notices, crashes, owner, spoiled>>,
         ~InBundle("phase_advance"),
         granted \subseteq granted', \A q \in granted' : q \in granted \/ Finished(q)
  PROVE  OwnerInv' /\ GrantInv' /\ HoldInv' /\ CounterFollowsNotices'
<1>1. GrantInv'
  BY DEF LifeInv, GrantInv, OnHold, Finished
<1>2. HoldInv'
  BY DEF LifeInv, HoldInv, OnHold, Finished
<1>3. CounterFollowsNotices'
  BY DEF LifeInv, CountInv, CounterFollowsNotices, OnHold
<1>4. OwnerInv'
  BY OwnerSame DEF LifeInv
<1>5. QED
  BY <1>1, <1>2, <1>3, <1>4

-----------------------------------------------------------------------------
(* THE WORKER                                                               *)

(* T1: the worker takes an active project, or a hold that may end.         *)
LEMMA DispatchKeeps ==
  ASSUME LifeInv, Dispatch
  PROVE  LifeInv'
<1>0. /\ TypeInv /\ TypeOK /\ SessionShape /\ session \in Session /\ GrantInv
      /\ session.stage = "dispatch" /\ session.kind # "none" /\ session.then = "close"
      /\ ~InBundle("phase_advance")
  BY DEF LifeInv, TypeInv, TypeOK, SessionShape, Dispatch, At, InBundle
<1>1. ASSUME NEW p \in Best(Dispatchable), granted' = granted,
             session' = [session EXCEPT !.stage = "extract", !.slug = p]
      PROVE  LifeInv'
  <2>1. p \in Projects /\ ~OnHold(p) /\ row[p].esc # "transition-approved"
    BY <1>1 DEF Best, Dispatchable, IsActive, OnHold
  <2>2. session' = [kind |-> session.kind, stage |-> "extract", slug |-> p,
                    todo |-> session.todo, reroutes |-> session.reroutes,
                    checkpoint |-> session.checkpoint, bundle |-> session.bundle,
                    step |-> session.step, succ |-> session.succ, then |-> session.then]
    BY <1>0, <1>1, SessionFields
  <2>3. session' \in Session
    BY <1>0, <2>1, <2>2 DEF Session, Stages
  <2>4. TypeInv'
    BY <1>0, <1>1, <2>1, <2>2, <2>3
       DEF TypeInv, TypeOK, SessionShape, InBundle, Slug, Dispatch, files
  <2>5. WorkInv' /\ TransitionInv' /\ AdvanceInv'
    BY <2>1, <2>2 DEF WorkInv, TransitionInv, AdvanceInv, InWork, InBundle, Slug, OnHold,
                      Dispatch, files
  <2>6. OwnerInv' /\ GrantInv' /\ HoldInv' /\ CounterFollowsNotices'
    BY <1>0, <1>1, SameFiles DEF Dispatch, files
  <2>7. CountInv'
    BY <1>0, <2>2, <2>6 DEF CountInv, InBundle
  <2>8. QED
    BY <2>4, <2>5, <2>6, <2>7 DEF LifeInv
<1>2. ASSUME NEW p \in Best(Advanceable),
             session' = [session EXCEPT !.stage = "advance", !.slug = p],
             granted' = IF Finished(p) /\ row[p].esc = "phase-complete" /\ preapproved
                        THEN granted \cup {p} ELSE granted
      PROVE  LifeInv'
  <2>1. /\ p \in Projects /\ OnHold(p) /\ lr[p].successor # NoPhase
        /\ row[p].esc = "transition-approved" \/ (row[p].esc = "phase-complete" /\ preapproved)
    BY <1>2 DEF Best, Advanceable
  <2>2. session' = [kind |-> session.kind, stage |-> "advance", slug |-> p,
                    todo |-> session.todo, reroutes |-> session.reroutes,
                    checkpoint |-> session.checkpoint, bundle |-> session.bundle,
                    step |-> session.step, succ |-> session.succ, then |-> session.then]
    BY <1>0, <1>2, SessionFields
  <2>3. session' \in Session
    BY <1>0, <2>1, <2>2 DEF Session, Stages
  <2>10. granted' \subseteq Projects
    BY <1>0, <1>2, <2>1 DEF TypeOK
  <2>4. TypeInv'
    BY <1>0, <2>10, <2>1, <2>2, <2>3
       DEF TypeInv, TypeOK, SessionShape, InBundle, Slug, Dispatch, files
  <2>5. Finished(p) => p \in granted' \cup spoiled
    BY <1>0, <1>2, <2>1 DEF GrantInv
  <2>6. WorkInv' /\ TransitionInv' /\ AdvanceInv'
    BY <2>1, <2>2, <2>5 DEF WorkInv, TransitionInv, AdvanceInv, InWork, InBundle, Slug,
                            Finished, Dispatch, files
  <2>7. OwnerInv' /\ GrantInv' /\ HoldInv' /\ CounterFollowsNotices'
    BY <1>0, <1>2, SameFiles DEF Dispatch, files
  <2>8. CountInv'
    BY <1>0, <2>2, <2>7 DEF CountInv, InBundle
  <2>9. QED
    BY <2>4, <2>6, <2>7, <2>8 DEF LifeInv
<1>3. ASSUME Goto("close"), granted' = granted
      PROVE  LifeInv'
  BY <1>0, <1>3, CalmGoto DEF Dispatch
<1>4. QED
  BY <1>1, <1>2, <1>3 DEF Dispatch

(* T2-ADVANCE: the hold that dispatch saw still has its successor.         *)
LEMMA AdvanceKeeps ==
  ASSUME LifeInv, AdvancePhase
  PROVE  LifeInv'
<1> DEFINE p == session.slug
<1>0. /\ TypeInv /\ TypeOK /\ SessionShape /\ session \in Session /\ AdvanceInv
      /\ session.stage = "advance" /\ session.kind # "none" /\ session.then = "close"
      /\ p \in Projects /\ ~InBundle("phase_advance")
  BY DEF LifeInv, TypeInv, TypeOK, SessionShape, AdvancePhase, At, InBundle, Slug
<1>1. CASE Run("surface_escalation", p, NoPhase, "close")
  BY <1>0, <1>1, CalmRun DEF AdvancePhase
<1>2. CASE Goto("close")
  BY <1>0, <1>2, CalmGoto DEF AdvancePhase
<1>3. CASE lr[p].status = "COMPLETE" /\ Run("phase_advance", p, lr[p].successor, "extract")
  <2>1. lr[p].successor \in Phases /\ (Finished(p) => p \in granted \cup spoiled)
    BY <1>0 DEF AdvanceInv, TypeOK, Longrunner, Slug
  <2>2. "extract" \in Stages /\ "phase_advance" \in Bundles
    BY Lengths DEF Stages
  <2>3. /\ session' \in Session /\ session'.kind = session.kind /\ session'.stage = "bundle"
        /\ session'.slug = p /\ session'.todo = session.todo
        /\ session'.checkpoint = session.checkpoint /\ session'.bundle = "phase_advance"
        /\ session'.step = 1 /\ session'.succ = lr[p].successor /\ session'.then = "extract"
    BY <1>0, <1>3, <2>1, <2>2, RunFields
  <2> HIDE DEF p
  <2>4. TypeInv'
    BY <1>0, <2>3, Lengths
       DEF TypeInv, TypeOK, SessionShape, InBundle, Slug, AdvancePhase, files
  <2>5. WorkInv' /\ TransitionInv'
    BY <2>3 DEF WorkInv, TransitionInv, InWork, InBundle
  <2>6. AdvanceInv'
    BY <1>3, <2>1, <2>3 DEF AdvanceInv, InBundle, Slug, Finished, AdvancePhase, files
  <2>7. OwnerInv' /\ GrantInv' /\ HoldInv' /\ CounterFollowsNotices'
    BY <1>0, SameFiles DEF AdvancePhase, files
  <2>8. CountInv'
    BY <2>3, <2>7 DEF CountInv, InBundle
  <2>9. QED
    BY <2>4, <2>5, <2>6, <2>7, <2>8 DEF LifeInv
<1>4. QED
  BY <1>1, <1>2, <1>3 DEF AdvancePhase

(* T2 to T4: the pass begins, or the project is escalated or blocked.       *)
LEMMA ExtractKeeps ==
  ASSUME LifeInv, Extract
  PROVE  LifeInv'
<1> DEFINE p == session.slug
<1>0. /\ TypeInv /\ TypeOK /\ SessionShape /\ session \in Session /\ WorkInv
      /\ session.stage = "extract" /\ session.kind # "none" /\ session.then = "close"
      /\ p \in Projects /\ ~InBundle("phase_advance")
  BY DEF LifeInv, TypeInv, TypeOK, SessionShape, Extract, At, InBundle, Slug
<1>1. ASSUME NEW then \in {"dispatch", "block"}, Run("surface_escalation", p, NoPhase, then)
      PROVE  LifeInv'
  BY <1>0, <1>1, CalmRun DEF Extract
<1>2. CASE Goto("block")
  BY <1>0, <1>2, CalmGoto DEF Extract, Slug
<1>3. CASE /\ Routing(p) = "ACTIVE"
           /\ session' = [session EXCEPT !.stage = "pass", !.checkpoint = TRUE]
  <2>2. p \in spoiled \/ (~OnHold(p) /\ row[p].esc # "transition-approved")
    BY <1>0 DEF WorkInv, InWork, Slug
  <2>3. session' = [kind |-> session.kind, stage |-> "pass", slug |-> p,
                    todo |-> session.todo, reroutes |-> session.reroutes,
                    checkpoint |-> TRUE, bundle |-> session.bundle,
                    step |-> session.step, succ |-> session.succ, then |-> session.then]
    BY <1>0, <1>3, SessionFields
  <2>4. session' \in Session
    BY <1>0, <2>3 DEF Session, Stages
  <2>5. TypeInv'
    BY <1>0, <2>3, <2>4 DEF TypeInv, TypeOK, SessionShape, InBundle, Slug, Extract, files
  <2>6. WorkInv' /\ TransitionInv' /\ AdvanceInv'
    BY <2>2, <2>3 DEF WorkInv, TransitionInv, AdvanceInv, InWork, InBundle, Slug, OnHold,
                      Extract, files
  <2>7. OwnerInv' /\ GrantInv' /\ HoldInv' /\ CounterFollowsNotices'
    BY <1>0, SameFiles DEF Extract, files
  <2>8. CountInv'
    BY <1>0, <2>3, <2>7 DEF CountInv, InBundle
  <2>9. QED
    BY <2>5, <2>6, <2>7, <2>8 DEF LifeInv
<1>4. QED
  BY <1>1, <1>2, <1>3 DEF Extract

(* The blocker protocol.                                                   *)
LEMMA BlockKeeps ==
  ASSUME LifeInv, Block
  PROVE  LifeInv'
<1> DEFINE again == session.reroutes < MaxReroutes
<1>0. /\ TypeInv /\ TypeOK /\ SessionShape /\ session \in Session
      /\ session.stage = "block" /\ session.kind # "none" /\ session.then = "close"
      /\ session.slug \in Projects
  BY DEF LifeInv, TypeInv, TypeOK, SessionShape, Block, At, Slug
<1>1. session' = [kind |-> session.kind, stage |-> "bundle", slug |-> session.slug,
                  todo |-> session.todo,
                  reroutes |-> IF again THEN session.reroutes + 1 ELSE session.reroutes,
                  checkpoint |-> session.checkpoint, bundle |-> "route_block",
                  step |-> 1, succ |-> session.succ,
                  then |-> IF again THEN "dispatch" ELSE "close"]
  BY <1>0, SessionFields DEF Block
<1>2. session' \in Session
  <2>1. session.reroutes \in 0 .. MaxReroutes
    BY <1>0 DEF Session
  <2>2. (IF again THEN session.reroutes + 1 ELSE session.reroutes) \in 0 .. MaxReroutes
    BY <2>1, LimitAssumption
  <2>3. "route_block" \in Bundles /\ {"bundle", "dispatch", "close"} \subseteq Stages
    BY Lengths DEF Stages
  <2> HIDE DEF again
  <2>4. QED
    BY <1>0, <1>1, <2>2, <2>3 DEF Session
<1> HIDE DEF again
<1>3. SessionShape' /\ Calm'
  BY <1>0, <1>1, Lengths DEF SessionShape, Calm, InBundle, Slug
<1>4. ~InBundle("phase_advance")
  BY <1>0 DEF InBundle
<1>5. QED
  BY <1>0, <1>2, <1>3, <1>4, CalmSession DEF Block, TypeOK

(* T6.1: the pass is recorded.                                             *)
LEMMA RecordPassKeeps ==
  ASSUME LifeInv, RecordPass
  PROVE  LifeInv'
<1> DEFINE p == session.slug
<1>0. /\ TypeInv /\ TypeOK /\ SessionShape /\ session \in Session /\ WorkInv
      /\ session.stage = "pass" /\ session.kind # "none" /\ session.then = "close"
      /\ p \in Projects /\ ~InBundle("phase_advance")
  BY DEF LifeInv, TypeInv, TypeOK, SessionShape, RecordPass, At, InBundle, Slug
<1>1. p \in spoiled \/ (~OnHold(p) /\ row[p].esc # "transition-approved")
  BY <1>0 DEF WorkInv, InWork, Slug
<1>2. "gate" \in Stages /\ "longrunner_update" \in Bundles
  BY Lengths DEF Stages
<1>3. /\ session' \in Session /\ session'.kind = session.kind /\ session'.stage = "bundle"
      /\ session'.slug = p /\ session'.todo = session.todo
      /\ session'.checkpoint = session.checkpoint /\ session'.bundle = "longrunner_update"
      /\ session'.step = 1 /\ session'.succ = NoPhase /\ session'.then = "gate"
  BY <1>0, <1>2, RunFields DEF RecordPass
<1> HIDE DEF p
<1>4. TypeInv'
  BY <1>0, <1>3, Lengths DEF TypeInv, TypeOK, SessionShape, InBundle, Slug, RecordPass, files
<1>5. WorkInv' /\ TransitionInv' /\ AdvanceInv'
  BY <1>1, <1>3 DEF WorkInv, TransitionInv, AdvanceInv, InWork, InBundle, Slug, OnHold,
                    RecordPass, files
<1>6. OwnerInv' /\ GrantInv' /\ HoldInv' /\ CounterFollowsNotices'
  BY <1>0, SameFiles DEF RecordPass, files
<1>7. CountInv'
  BY <1>3, <1>6 DEF CountInv, InBundle
<1>8. QED
  BY <1>4, <1>5, <1>6, <1>7 DEF LifeInv

(* The successor of a project that is not on hold is written.               *)
LEMMA Recommend ==
  ASSUME LifeInv, NEW p \in Projects, p \in spoiled \/ ~OnHold(p), ~InBundle("phase_advance"),
         NEW next \in Proposed[lr[p].name], lr' = [lr EXCEPT ![p].successor = next],
         UNCHANGED <<row, notices, crashes, granted, owner, spoiled>>
  PROVE  /\ lr' \in [Projects -> Longrunner]
         /\ next \in Phases /\ next # lr[p].name
         /\ lr'[p].name = lr[p].name /\ lr'[p].status = lr[p].status
         /\ lr'[p].successor = next
         /\ lr'[p].count = lr[p].count /\ lr'[p].objective = lr[p].objective
         /\ OwnerInv' /\ GrantInv' /\ HoldInv' /\ CounterFollowsNotices'
<1>0. lr \in [Projects -> Longrunner] /\ GrantInv /\ HoldInv /\ CounterFollowsNotices
      /\ granted \subseteq Projects
  BY DEF LifeInv, TypeInv, TypeOK, CountInv
<1>1. lr[p] \in Longrunner /\ lr[p].name \in Phases
  BY <1>0 DEF Longrunner
<1>2. next \in Phases /\ next # lr[p].name
  BY <1>1, ProjectAssumption
<1>3. /\ lr'[p] \in Longrunner
      /\ lr'[p].name = lr[p].name /\ lr'[p].status = lr[p].status
      /\ lr'[p].successor = next
      /\ lr'[p].count = lr[p].count /\ lr'[p].objective = lr[p].objective
  <2>1. lr'[p] = [lr[p] EXCEPT !.successor = next]
    BY <1>0
  <2>2. QED
    BY <1>1, <1>2, <2>1 DEF Longrunner
<1>4. \A q \in Projects : q # p => lr'[q] = lr[q]
  BY <1>0
<1>5. lr' \in [Projects -> Longrunner]
  BY <1>0, <1>3, <1>4
<1>6. GrantInv'
  BY <1>0, <1>2, <1>3, <1>4 DEF GrantInv, OnHold, Finished
<1>7. HoldInv'
  BY <1>0, <1>4 DEF HoldInv, OnHold, Finished
<1>8. CounterFollowsNotices'
  BY <1>0, <1>4 DEF CounterFollowsNotices, OnHold
<1>9. OwnerInv'
  BY OwnerSame DEF LifeInv
<1>10. QED
  BY <1>2, <1>3, <1>5, <1>6, <1>7, <1>8, <1>9

(* T2 and T6.2: a phase is found finished, and phase_transition begins.    *)
LEMMA ProposeKeeps ==
  ASSUME LifeInv, RouteComplete \/ StopConditionMet
  PROVE  LifeInv'
<1> DEFINE p == session.slug
<1>0. /\ TypeInv /\ TypeOK /\ SessionShape /\ session \in Session /\ WorkInv
      /\ session.stage \in {"extract", "gate"} /\ session.kind # "none"
      /\ session.then = "close"
      /\ p \in Projects /\ ~InBundle("phase_advance") /\ Propose(p)
  BY DEF LifeInv, TypeInv, TypeOK, SessionShape, RouteComplete, StopConditionMet, At, InBundle,
         Slug
<1>1. p \in spoiled \/ (~OnHold(p) /\ row[p].esc # "transition-approved")
  BY <1>0 DEF WorkInv, InWork, Slug
<1>2. PICK next \in Proposed[lr[p].name] :
          /\ lr' = [lr EXCEPT ![p].successor = next]
          /\ \/ lr[p].status = "ACTIVE" /\ Run("phase_transition", p, next, "close")
             \/ lr[p].status # "ACTIVE" /\ Goto("close")
  BY <1>0 DEF Propose
<1>3. UNCHANGED <<row, notes, preapproved, unclosed, owner, crashes, history>>
  BY <1>0 DEF Propose
<1>4. /\ lr' \in [Projects -> Longrunner]
      /\ next \in Phases /\ next # lr[p].name
      /\ lr'[p].name = lr[p].name /\ lr'[p].status = lr[p].status
      /\ lr'[p].successor = next
      /\ OwnerInv' /\ GrantInv' /\ HoldInv' /\ CounterFollowsNotices'
  BY <1>0, <1>1, <1>2, <1>3, Recommend DEF history
<1>5. CASE lr[p].status = "ACTIVE" /\ Run("phase_transition", p, next, "close")
  <2>1. "close" \in Stages /\ "phase_transition" \in Bundles
    BY Lengths DEF Stages
  <2>2. /\ session' \in Session /\ session'.kind = session.kind /\ session'.stage = "bundle"
        /\ session'.slug = p /\ session'.todo = session.todo
        /\ session'.checkpoint = session.checkpoint /\ session'.bundle = "phase_transition"
        /\ session'.step = 1 /\ session'.succ = next /\ session'.then = "close"
    BY <1>0, <1>4, <1>5, <2>1, RunFields
  <2> HIDE DEF p
  <2>3. TypeInv'
    BY <1>0, <1>3, <1>4, <2>2, Lengths
       DEF TypeInv, TypeOK, SessionShape, InBundle, Slug, history
  <2>4. WorkInv'
    BY <1>1, <1>3, <2>2 DEF WorkInv, InWork, InBundle, Slug, OnHold, history
  <2>5. TransitionInv' /\ AdvanceInv'
    BY <1>4, <1>5, <2>2 DEF TransitionInv, AdvanceInv, InBundle, Slug
  <2>6. CountInv'
    BY <1>4, <2>2 DEF CountInv, InBundle
  <2>7. QED
    BY <1>4, <2>3, <2>4, <2>5, <2>6 DEF LifeInv
<1>6. CASE Goto("close")
  <2>1. "close" \in Stages
    BY DEF Stages
  <2>2. /\ session' \in Session /\ session'.kind = session.kind /\ session'.stage = "close"
        /\ session'.slug = p /\ session'.todo = session.todo
        /\ session'.checkpoint = session.checkpoint /\ session'.then = session.then
    BY <1>0, <1>6, <2>1, GotoFields
  <2> HIDE DEF p
  <2>3. TypeInv'
    BY <1>0, <1>3, <1>4, <2>2 DEF TypeInv, TypeOK, SessionShape, InBundle, Slug, history
  <2>4. WorkInv' /\ TransitionInv' /\ AdvanceInv'
    BY <2>2 DEF WorkInv, TransitionInv, AdvanceInv, InWork, InBundle
  <2>5. CountInv'
    BY <1>0, <1>4, <2>2 DEF CountInv, InBundle
  <2>6. QED
    BY <1>4, <2>3, <2>4, <2>5 DEF LifeInv
<1>7. QED
  BY <1>2, <1>5, <1>6

-----------------------------------------------------------------------------
(* THE MANAGER                                                              *)

(* T0: the next crashed run is reported.                                   *)
LEMMA AccuseKeeps ==
  ASSUME LifeInv, Accuse
  PROVE  LifeInv'
<1>0. /\ TypeInv /\ TypeOK /\ SessionShape /\ session \in Session
      /\ session.stage = "accuse" /\ session.kind # "none" /\ ~InBundle("phase_advance")
  BY DEF LifeInv, TypeInv, TypeOK, SessionShape, Accuse, At, InBundle
<1>1. PICK p \in session.todo :
          session' = [session EXCEPT !.stage = "bundle", !.slug = p,
                        !.bundle = "surface_escalation", !.step = 1,
                        !.then = "accuse", !.todo = @ \ {p}]
  BY DEF Accuse
<1>2. "accuse" \in Stages /\ "surface_escalation" \in Bundles
  BY Lengths DEF Stages
<1>3. session' = [session EXCEPT !.stage = "bundle", !.slug = p, !.bundle = "surface_escalation",
                                 !.step = 1, !.then = "accuse", !.todo = @ \ {p}]
  BY <1>1
<1>4. /\ session' \in Session /\ session'.kind = session.kind /\ session'.stage = "bundle"
      /\ session'.slug = p /\ session'.todo = session.todo \ {p}
      /\ session'.checkpoint = session.checkpoint /\ session'.bundle = "surface_escalation"
      /\ session'.step = 1 /\ session'.then = "accuse" /\ p \in Projects
  BY <1>0, <1>2, <1>3, RunNextFields
<1>5. SessionShape' /\ Calm'
  BY <1>0, <1>4, Lengths DEF SessionShape, Calm, InBundle, Slug
<1>6. QED
  BY <1>0, <1>4, <1>5, CalmSession DEF Accuse, TypeOK

(* T2: the next escalation is surfaced.                                    *)
LEMMA SurfaceKeeps ==
  ASSUME LifeInv, Surface
  PROVE  LifeInv'
<1>0. /\ TypeInv /\ TypeOK /\ SessionShape /\ session \in Session
      /\ session.stage = "surface" /\ session.kind # "none" /\ ~InBundle("phase_advance")
      /\ session.then = "close"
  BY DEF LifeInv, TypeInv, TypeOK, SessionShape, Surface, At, InBundle
<1>1. ASSUME NEW p \in session.todo, row' = [row EXCEPT ![p].esc = "surfaced"],
             announced' = announced \cup {p}, session' = [session EXCEPT !.todo = @ \ {p}]
      PROVE  LifeInv'
  <2>1. p \in Projects /\ session.todo \subseteq Projects
    BY <1>0 DEF Session
  <2>2. session' = [kind |-> session.kind, stage |-> session.stage, slug |-> session.slug,
                    todo |-> session.todo \ {p}, reroutes |-> session.reroutes,
                    checkpoint |-> session.checkpoint, bundle |-> session.bundle,
                    step |-> session.step, succ |-> session.succ, then |-> session.then]
    BY <1>0, <1>1, SessionFields
  <2>3. session' \in Session
    BY <1>0, <2>1, <2>2 DEF Session
  <2>4. row'[p] = [row[p] EXCEPT !.esc = "surfaced"] /\ \A q \in Projects : q # p => row'[q] = row[q]
    BY <1>0, <1>1, <2>1 DEF TypeOK
  <2>5. /\ row'[p] \in Row /\ row'[p].status = row[p].status
        /\ row'[p].esc = "surfaced"
    BY <1>0, <2>1, <2>4 DEF TypeOK, Row, Escalations
  <2>6. row' \in [Projects -> Row]
    BY <1>0, <1>1, <2>4, <2>5 DEF TypeOK
  <2>7. announced' \subseteq Projects
    BY <1>0, <1>1, <2>1 DEF TypeOK
  <2>8. SessionShape' /\ Calm'
    BY <1>0, <2>2 DEF SessionShape, Calm, InBundle, Slug
  <2>9. OwnerInv' /\ owner' \in Command
    BY <2>6, OwnerMisses DEF Surface
  <2>10. TypeInv'
    BY <1>0, <2>3, <2>6, <2>7, <2>8, <2>9 DEF TypeInv, TypeOK, Surface
  <2>11. QED
    BY <1>0, <2>4, <2>5, <2>8, <2>9, <2>10, QuietStep DEF Surface
<1>2. ASSUME Goto("expiry"), UNCHANGED <<row, announced>>
      PROVE  LifeInv'
  <2>1. owner' = owner
    <3>1. owner \in Command /\ {p \in Projects : row'[p] # row[p]} = {}
      BY <1>0, <1>2 DEF TypeOK
    <3>2. QED
      BY <3>1 DEF Surface, Meanwhile, Command
  <2>2. QED
    BY <1>0, <1>2, <2>1, CalmGoto DEF Surface, files
<1>3. QED
  BY <1>1, <1>2 DEF Surface

(* The holds on the list that transition-expiry prints are unlike others    *)
(* only in that they may end meanwhile.                                     *)
LEMMA ScanExpiryKeeps ==
  ASSUME LifeInv, ScanExpiry
  PROVE  LifeInv'
<1>0. /\ TypeInv /\ TypeOK /\ SessionShape /\ session \in Session
      /\ session.stage = "expiry" /\ session.kind # "none" /\ ~InBundle("phase_advance")
      /\ session.then = "close" /\ CounterFollowsNotices
  BY DEF LifeInv, TypeInv, TypeOK, SessionShape, ScanExpiry, At, InBundle, CountInv
<1>1. "expire" \in Stages /\ Expired \in SUBSET Projects
  BY DEF Stages, Expired
<1>2. /\ session' \in Session /\ session'.kind = session.kind /\ session'.stage = "expire"
      /\ session'.slug = session.slug /\ session'.todo = Expired
      /\ session'.checkpoint = session.checkpoint /\ session'.then = session.then
  BY <1>0, <1>1, ListFields DEF ScanExpiry
<1>3. TypeInv'
  BY <1>0, <1>2 DEF TypeInv, TypeOK, SessionShape, InBundle, Slug, ScanExpiry, files
<1>4. WorkInv' /\ TransitionInv' /\ AdvanceInv'
  BY <1>2 DEF WorkInv, TransitionInv, AdvanceInv, InWork, InBundle
<1>5. OwnerInv' /\ GrantInv' /\ HoldInv' /\ CounterFollowsNotices'
  BY <1>0, SameFiles DEF ScanExpiry, files
<1>6. \A p \in Expired \ spoiled : lr[p].count <= notices[p]
  BY <1>0 DEF Expired, CounterFollowsNotices
<1>7. CountInv'
  BY <1>2, <1>5, <1>6 DEF CountInv, InBundle, ScanExpiry, files
<1>8. QED
  BY <1>3, <1>4, <1>5, <1>7 DEF LifeInv

(* T2: the next expired hold is reported again, or given up.               *)
LEMMA ExpireKeeps ==
  ASSUME LifeInv, Expire
  PROVE  LifeInv'
<1>0. /\ TypeInv /\ TypeOK /\ SessionShape /\ session \in Session /\ CountInv
      /\ session.stage = "expire" /\ session.kind # "none" /\ ~InBundle("phase_advance")
      /\ session.then = "close"
  BY DEF LifeInv, TypeInv, TypeOK, SessionShape, Expire, At, InBundle
<1>1. ASSUME NEW p \in session.todo,
             session' = [session EXCEPT !.stage = "bundle", !.slug = p,
                           !.bundle = ExpiryAction(p), !.step = 1,
                           !.then = "expire", !.todo = @ \ {p}]
      PROVE  LifeInv'
  <2> DEFINE b == ExpiryAction(p)
  <2>1. "expire" \in Stages /\ b \in Bundles /\ b \in {"reescalate", "auto_pause"}
    BY Lengths DEF Stages, ExpiryAction
  <2>2. session' = [session EXCEPT !.stage = "bundle", !.slug = p, !.bundle = b,
                                   !.step = 1, !.then = "expire", !.todo = @ \ {p}]
    BY <1>1
  <2>3. /\ session' \in Session /\ session'.kind = session.kind /\ session'.stage = "bundle"
        /\ session'.slug = p /\ session'.todo = session.todo \ {p}
        /\ session'.checkpoint = session.checkpoint /\ session'.bundle = b
        /\ session'.step = 1 /\ session'.then = "expire" /\ p \in Projects
    <3> HIDE DEF b
    <3>1. QED
      BY <1>0, <2>1, <2>2, RunNextFields
  <2>4. /\ b = "auto_pause" => lr[p].count >= MaxReescalations
        /\ b = "reescalate" => lr[p].count < MaxReescalations
    <3>1. lr[p].count \in 0 .. MaxReescalations
      BY <1>0, <2>3 DEF TypeOK, Longrunner
    <3>2. QED
      BY <3>1, LimitAssumption DEF ExpiryAction
  <2> HIDE DEF b
  <2>5. TypeInv'
    <3>1. TypeOK'
      BY <1>0, <2>3 DEF TypeOK, Expire, files
    <3>2. 1 \in 1 .. BundleLength[b]
      BY <2>1, Lengths
    <3>3. SessionShape'
      BY <1>0, <2>1, <2>3, <3>2 DEF SessionShape, InBundle, Slug
    <3>4. QED
      BY <3>1, <3>3 DEF TypeInv
  <2>6. WorkInv' /\ TransitionInv' /\ AdvanceInv'
    BY <2>1, <2>3 DEF WorkInv, TransitionInv, AdvanceInv, InWork, InBundle
  <2>7. OwnerInv' /\ GrantInv' /\ HoldInv' /\ CounterFollowsNotices'
    BY <1>0, SameFiles DEF Expire, files
  <2>8. \A q \in session.todo \ spoiled : lr[q].count <= notices[q]
    BY <1>0 DEF CountInv
  <2>9. b = "auto_pause" => p \in spoiled \/ notices[p] = MaxReescalations
    <3>1. notices[p] \in 0 .. MaxReescalations /\ lr[p].count \in 0 .. MaxReescalations
      BY <1>0, <2>3 DEF TypeOK, Longrunner
    <3>2. QED
      BY <2>4, <2>8, <3>1, LimitAssumption
  <2>10. CountInv'
    <3>1. lr' = lr /\ notices' = notices /\ spoiled' = spoiled
      BY DEF Expire, files
    <3>2. \A q \in session'.todo \ spoiled' : lr'[q].count <= notices'[q]
      BY <2>3, <2>8, <3>1
    <3>3. p \in spoiled' \/ lr'[p].count <= notices'[p]
      BY <2>8, <3>1
    <3>4. (InBundle("reescalate") =>
             /\ session.step <= 2 => lr[Slug].count < MaxReescalations
             /\ Slug \in spoiled \/ /\ session.step = 1 => lr[Slug].count <= notices[Slug]
                                    /\ session.step = 2 => lr[Slug].count < notices[Slug])'
      BY <2>3, <2>4, <3>1, <3>3 DEF InBundle, Slug
    <3>5. (InBundle("auto_pause") /\ session.step = 1 =>
              Slug \in spoiled \/ notices[Slug] = MaxReescalations)'
      BY <2>3, <2>9, <3>1 DEF InBundle, Slug
    <3>6. QED
      BY <2>7, <3>2, <3>4, <3>5 DEF CountInv
  <2>11. QED
    BY <2>5, <2>6, <2>7, <2>10 DEF LifeInv
<1>2. CASE Goto("review")
  BY <1>0, <1>2, CalmGoto DEF Expire
<1>3. QED
  BY <1>1, <1>2 DEF Expire

-----------------------------------------------------------------------------
(* THE OWNER AND TIME                                                       *)

(* A command is begun, reads or is stopped, and writes nothing.             *)
LEMMA OwnerAside ==
  ASSUME LifeInv, owner' \in Command, OwnerInv',
         UNCHANGED <<row, lr, notes, preapproved, session, unclosed, crashes, history>>
  PROVE  LifeInv'
<1>1. TypeInv'
  BY DEF LifeInv, TypeInv, TypeOK, SessionShape, InBundle, Slug, history
<1>2. QED
  BY <1>1, QuietStep DEF history

(* A command is begun.                                                     *)
LEMMA OwnerRunsKeeps ==
  ASSUME LifeInv, NEW p \in Projects,
         NEW cmd \in {"pause", "unpause", "approve", "clear", "activate"}, OwnerRuns(cmd, p),
         cmd = "approve" => OnHold(p)
  PROVE  LifeInv'
<1>1. owner \in Command /\ OwnerInv /\ owner.cmd = "none"
  BY DEF LifeInv, TypeInv, TypeOK, OwnerRuns
<1>2. owner' = [owner EXCEPT !.cmd = cmd, !.slug = p, !.ran = @ + 1] /\ owner.ran < CommandLimit
  BY DEF OwnerRuns
<1>3. owner.ran + 1 \in 0 .. CommandLimit
  BY <1>1, <1>2, LimitAssumption DEF Command
<1>4. /\ owner' \in Command /\ owner'.cmd = cmd /\ owner'.slug = p
      /\ owner'.read = owner.read /\ ~owner.read
  BY <1>1, <1>2, <1>3 DEF Command, OwnerInv
<1>5. OwnerInv'
  BY <1>4 DEF OwnerInv, OwnerRuns, OnHold
<1>6. QED
  BY <1>4, <1>5, OwnerAside DEF OwnerRuns

(* No command.                                                             *)
LEMMA NoCommandFields ==
  ASSUME NEW n \in 0 .. CommandLimit
  PROVE  NoCommand(n) \in Command /\ NoCommand(n).cmd = "none" /\ NoCommand(n).read = FALSE
BY DEF NoCommand, Command, NoRows, Row, Statuses, Escalations

(* The table is read, or the command is stopped.                            *)
LEMMA OwnerReadsKeeps ==
  ASSUME LifeInv, OwnerReads \/ OwnerStops
  PROVE  LifeInv'
<1>0. owner \in Command /\ OwnerInv /\ row \in [Projects -> Row]
  BY DEF LifeInv, TypeInv, TypeOK
<1>1. CASE OwnerReads
  <2>1. owner' = [owner EXCEPT !.read = TRUE, !.table = row, !.missed = @ \cap {owner.slug}]
        /\ owner.cmd # "none" /\ row' = row
    BY <1>1 DEF OwnerReads
  <2>2. /\ owner' \in Command /\ owner'.cmd = owner.cmd /\ owner'.slug = owner.slug
        /\ owner'.read = TRUE /\ owner'.table = row
        /\ owner'.missed = owner.missed \cap {owner.slug}
    BY <1>0, <2>1 DEF Command
  <2>3. OwnerInv'
    BY <1>0, <2>1, <2>2 DEF OwnerInv, OnHold
  <2>4. QED
    BY <1>1, <2>2, <2>3, OwnerAside DEF OwnerReads
<1>2. CASE OwnerStops
  <2>1. owner' = NoCommand(owner.ran) /\ owner.ran \in 0 .. CommandLimit
    BY <1>0, <1>2 DEF OwnerStops, Command
  <2>2. owner' \in Command /\ OwnerInv'
    BY <2>1, NoCommandFields DEF OwnerInv
  <2>3. QED
    BY <1>2, <2>2, OwnerAside DEF OwnerStops
<1>3. QED
  BY <1>1, <1>2

(* What the command writes into its row.                                    *)
LEMMA FieldsWritten ==
  ASSUME NEW cmd \in {"pause", "unpause", "approve", "clear", "activate"}, NEW r \in Row
  PROVE  /\ Fields(cmd, r) \in Row
         /\ Fields(cmd, r).status \in {"paused", "active"} \/ Fields(cmd, r).status = r.status
         /\ cmd = "approve" => Fields(cmd, r) = [r EXCEPT !.esc = "transition-approved"]
         /\ cmd # "approve" => Fields(cmd, r).esc \in {"none", r.esc}
BY DEF Fields, Row, Statuses, Escalations

(* The table is written: every row that no session wrote meanwhile is as it *)
(* was, except that of the command.                                        *)
LEMMA OwnerWritten ==
  ASSUME LifeInv, OwnerWrites
  PROVE  /\ owner.slug \in Projects /\ spoiled \subseteq spoiled'
         /\ owner.cmd \in {"pause", "unpause", "approve", "clear", "activate"}
         /\ TypeInv' /\ OwnerInv'
         /\ owner.cmd = "approve" => owner.slug \in spoiled' \/ OnHold(owner.slug)
         /\ \A q \in Projects \ spoiled' :
               row'[q] = IF q = owner.slug THEN Fields(owner.cmd, row[q]) ELSE row[q]
<1> DEFINE p == owner.slug
<1>0. /\ TypeOK /\ SessionShape /\ owner \in Command /\ OwnerInv /\ owner.read
      /\ row \in [Projects -> Row] /\ granted \subseteq Projects /\ spoiled \subseteq Projects
  BY DEF LifeInv, TypeInv, TypeOK, OwnerWrites
<1>1. /\ p \in Projects /\ owner.cmd # "none"
      /\ \A q \in Projects \ owner.missed : owner.table[q] = row[q]
      /\ owner.cmd = "approve" => p \in owner.missed \/ OnHold(p)
  BY <1>0 DEF OwnerInv
<1>2. /\ owner.cmd \in {"pause", "unpause", "approve", "clear", "activate"}
      /\ owner.table \in [Projects -> Row] /\ owner.missed \subseteq Projects
      /\ owner.ran \in 0 .. CommandLimit
  BY <1>0, <1>1 DEF Command
<1>3. /\ row' = [owner.table EXCEPT ![p] = Fields(owner.cmd, @)]
      /\ spoiled' = spoiled \cup owner.missed
      /\ granted' = IF owner.cmd = "approve" /\ Finished(p) THEN granted \cup {p} ELSE granted
      /\ owner' = IF owner.cmd = "clear"
                  THEN [NoCommand(owner.ran) EXCEPT !.cmd = "activate", !.slug = p]
                  ELSE NoCommand(owner.ran)
      /\ UNCHANGED <<lr, notes, preapproved, session, unclosed, crashes, announced, notices>>
  BY DEF OwnerWrites
<1> HIDE DEF p
<1>4. row' \in [Projects -> Row]
  <2>1. Fields(owner.cmd, owner.table[p]) \in Row
    BY <1>1, <1>2, FieldsWritten
  <2>2. QED
    BY <1>2, <1>3, <2>1
<1>5. owner' \in Command /\ OwnerInv'
  <2>1. CASE owner.cmd = "clear"
    <3>1. owner' = [NoCommand(owner.ran) EXCEPT !.cmd = "activate", !.slug = p]
      BY <1>3, <2>1
    <3>2. /\ owner' \in Command /\ owner'.cmd = "activate" /\ owner'.slug = p
          /\ owner'.read = FALSE
      BY <1>1, <1>2, <3>1, NoCommandFields DEF NoCommand, Command
    <3>3. QED
      BY <1>1, <3>2 DEF OwnerInv
  <2>2. CASE owner.cmd # "clear"
    BY <1>2, <1>3, <2>2, NoCommandFields DEF OwnerInv
  <2>3. QED
    BY <2>1, <2>2
<1>6. granted' \subseteq Projects /\ spoiled' \subseteq Projects
  BY <1>0, <1>1, <1>2, <1>3
<1>7. TypeInv'
  <2>1. TypeOK'
    BY <1>0, <1>3, <1>4, <1>5, <1>6 DEF TypeOK
  <2>2. SessionShape'
    BY <1>0, <1>3 DEF SessionShape, InBundle, Slug
  <2>3. QED
    BY <2>1, <2>2 DEF TypeInv
<1>8. \A q \in Projects \ spoiled' :
          row'[q] = IF q = p THEN Fields(owner.cmd, row[q]) ELSE row[q]
  BY <1>1, <1>2, <1>3
<1>9. QED
  BY <1>1, <1>2, <1>3, <1>5, <1>7, <1>8 DEF p

(* The approval of a hold, whatever the session is doing.                   *)
LEMMA OwnerApproves ==
  ASSUME LifeInv, OwnerWrites, owner.cmd = "approve"
  PROVE  LifeInv'
<1> DEFINE p == owner.slug
<1>0. TypeInv /\ TypeOK /\ SessionShape /\ row \in [Projects -> Row]
  BY DEF LifeInv, TypeInv, TypeOK
<1>1. /\ p \in Projects /\ spoiled \subseteq spoiled' /\ TypeInv' /\ OwnerInv'
      /\ p \in spoiled' \/ OnHold(p)
      /\ \A q \in Projects \ spoiled' :
            row'[q] = IF q = p THEN Fields(owner.cmd, row[q]) ELSE row[q]
  BY OwnerWritten
<1>2. Fields(owner.cmd, row[p]) = [row[p] EXCEPT !.esc = "transition-approved"]
  BY <1>0, <1>1, FieldsWritten
<1>3. \A q \in Projects \ spoiled' :
          (OnHold(q)' <=> OnHold(q)) /\ (q # p => row'[q] = row[q])
  BY <1>0, <1>1, <1>2 DEF OnHold, Row
<1>4. /\ UNCHANGED <<lr, session, crashes, notices>>
      /\ granted' = IF Finished(p) THEN granted \cup {p} ELSE granted
  BY DEF OwnerWrites
<1>5. WorkInv /\ TransitionInv /\ AdvanceInv /\ GrantInv /\ HoldInv /\ CountInv
  BY DEF LifeInv
<1> HIDE DEF p
<1>6. WorkInv'
  <2>1. InWork \/ InBundle("phase_advance") => Slug \in Projects
    BY <1>0 DEF InWork, SessionShape, InBundle
  <2>2. InWork' = InWork /\ Slug' = Slug /\ InBundle("phase_advance")' = InBundle("phase_advance")
    BY <1>4 DEF InWork, InBundle, Slug
  <2>3. InWork /\ Slug \notin spoiled' => Slug # p
    BY <1>1, <1>5 DEF WorkInv
  <2>4. (InWork => \/ Slug \in spoiled
                   \/ ~OnHold(Slug) /\ row[Slug].esc # "transition-approved")'
    BY <1>1, <1>3, <1>5, <2>1, <2>2, <2>3 DEF WorkInv
  <2>5. QED
    BY <1>1, <1>3, <1>4, <1>5, <2>1, <2>2, <2>4 DEF WorkInv
<1>7. TransitionInv'
  BY <1>4, <1>5 DEF TransitionInv, InBundle, Slug
<1>8. AdvanceInv'
  <2>1. granted \cup spoiled \subseteq granted' \cup spoiled'
    BY <1>1, <1>4
  <2>2. QED
    BY <1>4, <1>5, <2>1 DEF AdvanceInv, InBundle, Slug, Finished
<1>9. GrantInv'
  <2>1. \A q \in Projects : Finished(q)' <=> Finished(q)
    BY <1>4 DEF Finished
  <2>2. \A q \in granted' : Finished(q)'
    BY <1>4, <1>5 DEF GrantInv, Finished
  <2>3. ASSUME NEW q \in Projects \ spoiled', OnHold(q)', row'[q].esc = "transition-approved",
               Finished(q)'
        PROVE  q \in granted'
    BY <1>1, <1>3, <1>4, <1>5, <2>1, <2>3 DEF GrantInv
  <2>4. QED
    BY <2>2, <2>3 DEF GrantInv
<1>10. HoldInv' /\ CounterFollowsNotices'
  BY <1>1, <1>3, <1>4, <1>5 DEF HoldInv, CountInv, CounterFollowsNotices, InBundle, Slug, Finished
<1>11. CountInv'
  BY <1>1, <1>4, <1>5, <1>10 DEF CountInv, InBundle, Slug
<1>12. QED
  BY <1>1, <1>6, <1>7, <1>8, <1>9, <1>10, <1>11 DEF LifeInv

(* Whatever the session is doing, the owner may write these.                *)
LEMMA OwnerWritesKeeps ==
  ASSUME LifeInv, OwnerWrites
  PROVE  LifeInv'
<1>0. row \in [Projects -> Row]
  BY DEF LifeInv, TypeInv, TypeOK
<1>1. CASE owner.cmd # "approve"
  <2>1. /\ owner.slug \in Projects /\ spoiled \subseteq spoiled' /\ TypeInv' /\ OwnerInv'
        /\ owner.cmd \in {"pause", "unpause", "approve", "clear", "activate"}
        /\ \A q \in Projects \ spoiled' :
              row'[q] = IF q = owner.slug THEN Fields(owner.cmd, row[q]) ELSE row[q]
    BY OwnerWritten
  <2>2. ASSUME NEW q \in Projects \ spoiled'
        PROVE  /\ row'[q].status = "TRANSITION-HOLD" => row[q].status = "TRANSITION-HOLD"
               /\ row'[q].esc = "transition-approved" => row[q].esc = "transition-approved"
    <3>1. /\ Fields(owner.cmd, row[q]).status \in {"paused", "active"}
             \/ Fields(owner.cmd, row[q]).status = row[q].status
          /\ Fields(owner.cmd, row[q]).esc \in {"none", row[q].esc}
      BY <1>0, <1>1, <2>1, FieldsWritten
    <3>2. QED
      BY <2>1, <3>1
  <2>3. UNCHANGED <<lr, session, crashes, notices, granted>>
    BY <1>1 DEF OwnerWrites
  <2>4. QED
    BY <2>1, <2>2, <2>3, QuietStep
<1>2. QED
  BY <1>1, OwnerApproves

(* nightclaw-admin, at any moment of a session.                            *)
LEMMA OwnerKeeps ==
  ASSUME LifeInv, Owner
  PROVE  LifeInv'
<1>0. TypeInv /\ TypeOK /\ SessionShape /\ notes \subseteq Note
  BY DEF LifeInv, TypeInv, TypeOK
<1>1. ASSUME NEW p \in Projects, Pause(p) \/ Unpause(p)
      PROVE  LifeInv'
  BY <1>1, OwnerRunsKeeps DEF Pause, Unpause
<1>2. ASSUME NEW n \in notes, ApproveTransition(n) \/ ResolveBlock(n)
      PROVE  LifeInv'
  <2>1. n.slug \in Projects
    BY <1>0 DEF Note
  <2>2. QED
    BY <1>2, <2>1, OwnerRunsKeeps DEF ApproveTransition, ResolveBlock
<1>3. CASE ChangePreapproval
  <2>1. TypeInv'
    BY <1>0, <1>3 DEF TypeInv, TypeOK, SessionShape, InBundle, Slug, ChangePreapproval, files
  <2>2. OwnerInv'
    BY <1>3, OwnerSame DEF LifeInv, ChangePreapproval, files
  <2>3. QED
    BY <1>3, <2>1, <2>2, QuietStep DEF ChangePreapproval, files
<1>4. QED
  BY <1>1, <1>2, <1>3, OwnerReadsKeeps, OwnerWritesKeeps DEF Owner

(* A deadline passes.                                                      *)
LEMMA TimerKeeps ==
  ASSUME LifeInv, NEW p \in Projects, TimerExpires(p)
  PROVE  LifeInv'
<1>0. TypeOK /\ TypeInv /\ SessionShape
  BY DEF LifeInv, TypeInv
<1>1. lr' = [lr EXCEPT ![p].timer = "expired"] /\ lr[p] \in Longrunner
  BY <1>0 DEF TimerExpires, TypeOK
<1>2. lr'[p] = [lr[p] EXCEPT !.timer = "expired"] /\ \A q \in Projects : q # p => lr'[q] = lr[q]
  BY <1>0, <1>1 DEF TypeOK
<1>3. /\ lr'[p] \in Longrunner
      /\ lr'[p].name = lr[p].name /\ lr'[p].status = lr[p].status
      /\ lr'[p].successor = lr[p].successor /\ lr'[p].count = lr[p].count
      /\ lr'[p].objective = lr[p].objective
  BY <1>1, <1>2 DEF Longrunner
<1>4. lr' \in [Projects -> Longrunner]
  BY <1>0, <1>1, <1>2, <1>3 DEF TypeOK
<1>5. TypeInv'
  BY <1>0, <1>4 DEF TypeInv, TypeOK, SessionShape, InBundle, Slug, TimerExpires, history
<1>6. OwnerInv'
  BY OwnerSame DEF LifeInv, TimerExpires
<1>7. QED
  BY <1>2, <1>3, <1>5, <1>6, QuietStep DEF TimerExpires, history

-----------------------------------------------------------------------------
(* THE BUNDLES                                                              *)

(* Where the session goes, and what the write changes of every file.        *)
LastWrite == session.step = BundleLength[session.bundle]

(* The session goes on with the next write, or where the bundle ends.      *)
LEMMA BundleSession ==
  ASSUME LifeInv, BundleWrite
  PROVE  /\ session.stage = "bundle" /\ session.kind # "none"
         /\ Slug \in Projects /\ session.bundle \in Bundles
         /\ session.step \in 1 .. BundleLength[session.bundle]
         /\ session' \in Session /\ session'.kind = session.kind
         /\ session'.slug = Slug /\ session'.todo = session.todo
         /\ session'.checkpoint = session.checkpoint
         /\ LastWrite => /\ session'.stage = session.then /\ session'.bundle = "route_block"
                         /\ session'.then = "close"
         /\ ~LastWrite => /\ session'.stage = "bundle" /\ session'.bundle = session.bundle
                          /\ session'.step = session.step + 1 /\ session'.then = session.then
                          /\ session'.succ = session.succ
<1>0. /\ session \in Session /\ session.stage = "bundle" /\ SessionShape
      /\ Slug \in Projects /\ session.kind # "none"
      /\ session.step \in 1 .. BundleLength[session.bundle]
  BY DEF LifeInv, TypeInv, TypeOK, SessionShape, BundleWrite, At
<1>1. session.bundle \in Bundles /\ session.then \in Stages
  BY <1>0 DEF Session
<1>2. CASE LastWrite
  <2>1. session' = [kind |-> session.kind, stage |-> session.then, slug |-> session.slug,
                    todo |-> session.todo, reroutes |-> session.reroutes,
                    checkpoint |-> session.checkpoint, bundle |-> "route_block",
                    step |-> 1, succ |-> NoPhase, then |-> "close"]
    BY <1>0, <1>2, SessionFields DEF BundleWrite, LastWrite
  <2>2. "route_block" \in Bundles /\ "close" \in Stages
    BY Lengths DEF Stages
  <2>3. session' \in Session
    BY <1>0, <1>1, <2>1, <2>2 DEF Session
  <2>4. QED
    BY <1>0, <1>1, <1>2, <2>1, <2>3 DEF Slug
<1>3. CASE ~LastWrite
  <2>1. session' = [kind |-> session.kind, stage |-> session.stage, slug |-> session.slug,
                    todo |-> session.todo, reroutes |-> session.reroutes,
                    checkpoint |-> session.checkpoint, bundle |-> session.bundle,
                    step |-> session.step + 1, succ |-> session.succ, then |-> session.then]
    BY <1>0, <1>3, SessionFields DEF BundleWrite, LastWrite
  <2>2. session.step + 1 \in 1 .. 8
    BY <1>0, <1>1, <1>3, Lengths DEF LastWrite
  <2>3. session' \in Session
    BY <1>0, <2>1, <2>2 DEF Session
  <2>4. QED
    BY <1>0, <1>1, <1>3, <2>1, <2>3 DEF Slug
<1>4. QED
  BY <1>2, <1>3

(* The files of no other project change.                                   *)
LEMMA BundleFiles ==
  ASSUME LifeInv, BundleWrite,
         NEW b, b = session.bundle, NEW i, i = session.step, NEW p, p = Slug,
         NEW next, next = session.succ
  PROVE  /\ \A q \in Projects : q # p =>
                row'[q] = row[q] /\ lr'[q] = lr[q] /\ notices'[q] = notices[q]
         /\ LrStep(b, i, lr[p], next, lr'[p])
         /\ RowStep(b, i, row[p], row'[p])
         /\ notices'[p] = IF b = "phase_transition" /\ i = 1 THEN 0
                          ELSE IF b = "reescalate" /\ i = 1 THEN Min3(notices[p] + 1)
                          ELSE notices[p]
         /\ granted' = IF \/ b = "phase_transition" /\ i = 1
                          \/ b = "phase_advance" /\ i = 1 /\ lr[p].name # next
                       THEN granted \ {p} ELSE granted
         /\ crashes' = crashes /\ spoiled' = spoiled
         /\ TypeInv' /\ OwnerInv'
<1>0. /\ TypeOK /\ SessionShape /\ AdvanceInv /\ CountInv
      /\ session.stage = "bundle" /\ p \in Projects /\ b \in Bundles
      /\ i \in 1 .. BundleLength[b] /\ session \in Session
      /\ session.slug = p /\ session.then \in Stages
  BY BundleSession DEF LifeInv, TypeInv, TypeOK, Slug, Session
<1>1. /\ lr \in [Projects -> Longrunner] /\ row \in [Projects -> Row]
      /\ notices \in [Projects -> 0 .. MaxReescalations]
      /\ lr[p] \in Longrunner /\ row[p] \in Row /\ notices[p] \in 0 .. MaxReescalations
      /\ next \in Phases \cup {NoPhase}
  BY <1>0 DEF TypeOK, Session
<1>2. b = "phase_advance" => next \in Phases
  BY <1>0 DEF AdvanceInv, InBundle
<1>3. b = "reescalate" /\ i = 2 => lr[p].count < MaxReescalations
  BY <1>0 DEF CountInv, InBundle, Slug
<1>4. /\ lr' = [lr EXCEPT ![p] = LrWrite(b, i, @, next)]
      /\ row' = [row EXCEPT ![p] = RowWrite(b, i, @)]
      /\ notes' = notes \cup {[slug |-> p, kind |-> k] : k \in NoteKinds(b, i)}
      /\ granted' = IF \/ b = "phase_transition" /\ i = 1
                       \/ b = "phase_advance" /\ i = 1 /\ lr[p].name # next
                    THEN granted \ {p} ELSE granted
      /\ announced' = IF b = "phase_transition" /\ i = 1 THEN announced \ {p}
                      ELSE IF Tells(b, i) THEN announced \cup {p} ELSE announced
      /\ notices' = [notices EXCEPT ![p] =
                        IF b = "phase_transition" /\ i = 1 THEN 0
                        ELSE IF b = "reescalate" /\ i = 1 THEN Min3(@ + 1)
                        ELSE @]
      /\ UNCHANGED <<preapproved, unclosed, crashes, spoiled>> /\ Meanwhile
  BY <1>0 DEF BundleWrite
<1>5. lr'[p] = LrWrite(b, i, lr[p], next) /\ \A q \in Projects : q # p => lr'[q] = lr[q]
  BY <1>0, <1>1, <1>4
<1>6. row'[p] = RowWrite(b, i, row[p]) /\ \A q \in Projects : q # p => row'[q] = row[q]
  BY <1>0, <1>1, <1>4
<1>7. /\ notices'[p] = IF b = "phase_transition" /\ i = 1 THEN 0
                       ELSE IF b = "reescalate" /\ i = 1 THEN Min3(notices[p] + 1)
                       ELSE notices[p]
      /\ \A q \in Projects : q # p => notices'[q] = notices[q]
  BY <1>0, <1>1, <1>4
<1>8. LrStep(b, i, lr[p], next, lr'[p])
  BY <1>0, <1>1, <1>2, <1>3, <1>5, LrFields
<1>9. RowStep(b, i, row[p], row'[p])
  BY <1>0, <1>1, <1>6, RowFields
<1>13. OwnerInv' /\ owner' \in Command
  <2>1. row' \in [Projects -> Row]
    BY <1>1, <1>4, <1>6, <1>9 DEF RowStep
  <2>2. QED
    BY <1>4, <2>1, OwnerMisses
<1>10. TypeOK'
  <2>1. lr' \in [Projects -> Longrunner]
    BY <1>1, <1>4, <1>5, <1>8 DEF LrStep
  <2>2. row' \in [Projects -> Row]
    BY <1>1, <1>4, <1>6, <1>9 DEF RowStep
  <2>3. notices' \in [Projects -> 0 .. MaxReescalations]
    <3>1. notices'[p] \in 0 .. MaxReescalations
      BY <1>1, <1>7, LimitAssumption DEF Min3
    <3>2. QED
      BY <1>1, <1>4, <1>7, <3>1
  <2>4. notes' \subseteq Note
    <3>1. NoteKinds(b, i) \subseteq {"transition", "escalation"}
      BY DEF NoteKinds
    <3>2. notes \subseteq Note
      BY <1>0 DEF TypeOK
    <3>3. \A k \in {"transition", "escalation"} : [slug |-> p, kind |-> k] \in Note
      BY <1>0 DEF Note
    <3>4. QED
      BY <1>4, <3>1, <3>2, <3>3
  <2>5. granted' \subseteq Projects /\ announced' \subseteq Projects
    BY <1>0, <1>4 DEF TypeOK
  <2>6. session' \in Session
    BY BundleSession
  <2>7. QED
    BY <1>0, <1>4, <1>13, <2>1, <2>2, <2>3, <2>4, <2>5, <2>6 DEF TypeOK
<1>11. SessionShape'
  <2>1. CASE LastWrite
    BY <1>0, <2>1, BundleSession DEF SessionShape, InBundle, Slug
  <2>2. CASE ~LastWrite
    BY <1>0, <2>2, BundleSession, Lengths DEF SessionShape, InBundle, Slug, LastWrite
  <2>3. QED
    BY <2>1, <2>2
<1>12. QED
  BY <1>4, <1>5, <1>6, <1>7, <1>8, <1>9, <1>10, <1>11, <1>13 DEF TypeInv

(* An escalation or a block.                                                *)
LEMMA CalmBundleKeeps ==
  ASSUME LifeInv, BundleWrite, session.bundle \in {"route_block", "surface_escalation"}
  PROVE  LifeInv'
<1> DEFINE p == Slug
           b == session.bundle
           i == session.step
<1>1. /\ \A q \in Projects : q # p =>
              row'[q] = row[q] /\ lr'[q] = lr[q] /\ notices'[q] = notices[q]
      /\ LrStep(b, i, lr[p], session.succ, lr'[p]) /\ RowStep(b, i, row[p], row'[p])
      /\ notices'[p] = notices[p] /\ granted' = granted /\ crashes' = crashes
      /\ spoiled' = spoiled /\ TypeInv' /\ OwnerInv' /\ p \in Projects
  BY BundleFiles, BundleSession
<1>2. notices' = notices
  <2>1. notices \in [Projects -> 0 .. MaxReescalations] /\ notices' \in [Projects -> 0 .. MaxReescalations]
    BY <1>1 DEF LifeInv, TypeInv, TypeOK
  <2>2. \A q \in Projects : notices'[q] = notices[q]
    BY <1>1
  <2>3. QED
    BY <2>1, <2>2
<1>3. Calm' /\ ~InBundle("phase_advance")
  <2>1. SessionShape
    BY DEF LifeInv, TypeInv
  <2>2. session.then \in {"close", "dispatch", "block", "accuse"}
    BY <2>1, BundleSession DEF SessionShape, InBundle
  <2>3. QED
    BY <2>2, BundleSession DEF Calm, InBundle
<1>4. \A q \in Projects :
          /\ row'[q].status = "TRANSITION-HOLD" => row[q].status = "TRANSITION-HOLD"
          /\ row'[q].esc = "transition-approved" => row[q].esc = "transition-approved"
  BY <1>1 DEF RowStep
<1>5. \A q \in Projects :
          /\ lr'[q].name = lr[q].name /\ lr'[q].status = lr[q].status
          /\ lr'[q].successor = lr[q].successor /\ lr'[q].count = lr[q].count
          /\ lr[q].objective => lr'[q].objective
  BY <1>1 DEF LrStep
<1>6. QED
  BY <1>1, <1>2, <1>3, <1>4, <1>5, QuietStep

(* The record of a pass.                                                   *)
LEMMA UpdateKeeps ==
  ASSUME LifeInv, BundleWrite, session.bundle = "longrunner_update"
  PROVE  LifeInv'
<1> DEFINE p == Slug
           b == session.bundle
           i == session.step
<1>0. /\ SessionShape /\ WorkInv /\ GrantInv /\ HoldInv /\ CountInv
      /\ session.stage = "bundle" /\ session.then = "gate"
  BY BundleSession DEF LifeInv, TypeInv, SessionShape, InBundle
<1>1. /\ \A q \in Projects : q # p =>
              row'[q] = row[q] /\ lr'[q] = lr[q] /\ notices'[q] = notices[q]
      /\ LrStep(b, i, lr[p], session.succ, lr'[p]) /\ RowStep(b, i, row[p], row'[p])
      /\ notices'[p] = notices[p] /\ granted' = granted /\ crashes' = crashes
      /\ spoiled' = spoiled /\ TypeInv' /\ OwnerInv' /\ p \in Projects
  BY BundleFiles, BundleSession
<1>2. /\ lr'[p].name = lr[p].name /\ lr'[p].status = lr[p].status
      /\ lr'[p].successor = lr[p].successor /\ lr'[p].count = lr[p].count
      /\ row'[p].status = row[p].status
      /\ row'[p].esc = "transition-approved" => row[p].esc = "transition-approved"
  BY <1>1 DEF LrStep, RowStep
<1>3. /\ session'.slug = p /\ session'.stage = "gate" /\ session'.then = "close"
      /\ session'.bundle = "route_block"
  BY <1>0, BundleSession, Lengths DEF LastWrite
<1>4. p \in spoiled \/ (~OnHold(p) /\ row[p].esc # "transition-approved")
  BY <1>0 DEF WorkInv, InWork, InBundle
<1> HIDE DEF p, b, i
<1>5. \A q \in Projects : (OnHold(q)' => OnHold(q)) /\ (Finished(q)' <=> Finished(q))
  BY <1>1, <1>2 DEF OnHold, Finished
<1>6. WorkInv' /\ TransitionInv' /\ AdvanceInv'
  BY <1>1, <1>2, <1>3, <1>4 DEF WorkInv, InWork, TransitionInv, AdvanceInv, InBundle, Slug, OnHold
<1>7. GrantInv'
  <2>1. granted \subseteq Projects
    BY DEF LifeInv, TypeInv, TypeOK
  <2>2. \A q \in Projects : row'[q].esc = "transition-approved" => row[q].esc = "transition-approved"
    BY <1>1, <1>2
  <2>3. QED
    BY <1>0, <1>1, <1>5, <2>1, <2>2 DEF GrantInv
<1>8. HoldInv'
  <2>1. \A q \in Projects : lr'[q].successor = lr[q].successor
    BY <1>1, <1>2
  <2>2. ~InBundle("phase_advance")
    BY DEF InBundle
  <2>3. QED
    BY <1>0, <1>1, <1>5, <2>1, <2>2 DEF HoldInv
<1>9. CountInv'
  <2>1. \A q \in Projects : lr'[q].count = lr[q].count /\ notices'[q] = notices[q]
    BY <1>1, <1>2
  <2>2. CounterFollowsNotices'
    BY <1>0, <1>1, <1>5, <2>1 DEF CountInv, CounterFollowsNotices
  <2>3. QED
    BY <1>3, <2>2 DEF CountInv, InBundle
<1>10. QED
  BY <1>1, <1>6, <1>7, <1>8, <1>9 DEF LifeInv

(* A phase ends: its project goes on hold with the fifth write.             *)
LEMMA TransitionKeeps ==
  ASSUME LifeInv, BundleWrite, session.bundle = "phase_transition"
  PROVE  LifeInv'
<1>p. PICK p, b, i, next :
          p = Slug /\ b = session.bundle /\ i = session.step /\ next = session.succ
  OBVIOUS
<1>0. /\ SessionShape /\ WorkInv /\ TransitionInv /\ GrantInv /\ HoldInv /\ CountInv
      /\ session.stage = "bundle" /\ session.then \in {"close", "dispatch", "block", "accuse"}
      /\ i \in 1 .. 7 /\ granted \subseteq Projects
  <2>1. SessionShape /\ session.stage = "bundle" /\ i \in 1 .. 7 /\ granted \subseteq Projects
    BY <1>p, BundleSession, Lengths DEF LifeInv, TypeInv, TypeOK
  <2>2. session.then \in {"close", "dispatch", "block", "accuse"}
    BY <2>1 DEF SessionShape, InBundle
  <2>3. QED
    BY <2>1, <2>2 DEF LifeInv
<1>1. /\ \A q \in Projects : q # p =>
              row'[q] = row[q] /\ lr'[q] = lr[q] /\ notices'[q] = notices[q]
      /\ LrStep(b, i, lr[p], next, lr'[p]) /\ RowStep(b, i, row[p], row'[p])
      /\ notices'[p] = (IF i = 1 THEN 0 ELSE notices[p])
      /\ granted' = (IF i = 1 THEN granted \ {p} ELSE granted)
      /\ crashes' = crashes /\ spoiled' = spoiled
      /\ TypeInv' /\ OwnerInv' /\ p \in Projects
  BY <1>p, BundleFiles, BundleSession
<1>2. /\ lr'[p].name = lr[p].name
      /\ lr'[p].status = (IF i = 1 THEN "COMPLETE" ELSE lr[p].status)
      /\ lr'[p].successor = (IF i = 2 THEN next ELSE lr[p].successor)
      /\ lr'[p].count = (IF i = 4 THEN 0 ELSE lr[p].count)
      /\ row'[p].status = (IF i = 5 THEN "TRANSITION-HOLD" ELSE row[p].status)
      /\ row'[p].esc = "transition-approved" => row[p].esc = "transition-approved"
  BY <1>p, <1>1 DEF LrStep, RowStep
<1>3. /\ session'.slug = p
      /\ i = 7 => /\ session'.stage \in {"close", "dispatch", "block", "accuse"}
                  /\ session'.then = "close"
      /\ i # 7 => /\ session'.stage = "bundle" /\ session'.bundle = "phase_transition"
                  /\ session'.step = i + 1 /\ session'.then = session.then
                  /\ session'.succ = next
  BY <1>p, <1>0, BundleSession, Lengths DEF LastWrite
<1>4. /\ next \in Phases /\ lr[p].successor = next /\ next # lr[p].name
      /\ lr[p].status = (IF i = 1 THEN "ACTIVE" ELSE "COMPLETE")
      /\ i = 5 => lr[p].count = 0
      /\ i <= 5 /\ p \notin spoiled => ~OnHold(p) /\ row[p].esc # "transition-approved"
  BY <1>p, <1>0 DEF TransitionInv, WorkInv, InWork, InBundle
<1>5. lr'[p].successor = next /\ lr'[p].status = "COMPLETE" /\ Finished(p)'
  BY <1>2, <1>4 DEF Finished
<1>6. \A q \in Projects : q # p => (OnHold(q)' <=> OnHold(q)) /\ (Finished(q)' <=> Finished(q))
  BY <1>1 DEF OnHold, Finished
<1>7. p \notin spoiled =>
          /\ OnHold(p)' => i >= 5 /\ (i # 5 => OnHold(p))
          /\ i < 5 => ~OnHold(p)' /\ row'[p].esc # "transition-approved"
  BY <1>0, <1>2, <1>4 DEF OnHold
<1>8. WorkInv'
  BY <1>0, <1>1, <1>3, <1>7 DEF WorkInv, InWork, InBundle, Slug
<1>9. TransitionInv'
  BY <1>0, <1>2, <1>3, <1>4, <1>5 DEF TransitionInv, InBundle, Slug
<1>10. AdvanceInv'
  BY <1>0, <1>3 DEF AdvanceInv, InBundle
<1>11. GrantInv'
  <2>1. \A q \in granted' : Finished(q)'
    BY <1>0, <1>1, <1>5, <1>6 DEF GrantInv
  <2>2. ASSUME NEW q \in Projects \ spoiled, OnHold(q)',
               row'[q].esc = "transition-approved", Finished(q)'
        PROVE  q \in granted'
    <3>1. CASE q = p
      <4>1. i >= 5 /\ row[p].esc = "transition-approved"
        BY <1>2, <1>7, <2>2, <3>1
      <4>2. i > 5 /\ OnHold(p)
        BY <1>0, <1>4, <1>7, <2>2, <3>1, <4>1
      <4>3. Finished(p)
        BY <1>0, <1>4, <4>2 DEF Finished
      <4>4. QED
        BY <1>0, <1>1, <3>1, <4>1, <4>2, <4>3 DEF GrantInv
    <3>2. CASE q # p
      BY <1>0, <1>1, <1>6, <2>2, <3>2 DEF GrantInv
    <3>3. QED
      BY <3>1, <3>2
  <2>3. QED
    BY <1>1, <2>1, <2>2 DEF GrantInv
<1>12. HoldInv'
  <2>1. ~InBundle("phase_advance")
    BY DEF InBundle
  <2>2. ASSUME crashes' = 0, NEW q \in Projects \ spoiled, OnHold(q)'
        PROVE  Finished(q)' /\ lr'[q].successor # NoPhase
    <3>1. CASE q = p
      BY <1>4, <1>5, <3>1, ProjectAssumption
    <3>2. CASE q # p
      BY <1>0, <1>1, <1>6, <2>1, <2>2, <3>2 DEF HoldInv
    <3>3. QED
      BY <3>1, <3>2
  <2>3. QED
    BY <1>1, <2>2 DEF HoldInv
<1>13. CountInv'
  <2>0. notices'[p] \in Nat
    <3>1. notices' \in [Projects -> 0 .. MaxReescalations]
      BY <1>1 DEF TypeInv, TypeOK
    <3>2. QED
      BY <1>1, <3>1, LimitAssumption
  <2>1. ASSUME NEW q \in Projects \ spoiled, OnHold(q)'
        PROVE  lr'[q].count <= notices'[q]
    <3>1. CASE q = p /\ i = 5
      BY <1>2, <1>4, <2>0, <3>1
    <3>2. CASE q = p /\ i # 5
      BY <1>0, <1>1, <1>2, <1>7, <2>1, <3>2 DEF CountInv, CounterFollowsNotices
    <3>3. CASE q # p
      BY <1>0, <1>1, <1>6, <2>1, <3>3 DEF CountInv, CounterFollowsNotices
    <3>4. QED
      BY <3>1, <3>2, <3>3
  <2>2. CounterFollowsNotices'
    BY <1>1, <2>1 DEF CounterFollowsNotices
  <2>3. QED
    BY <1>0, <1>3, <2>2 DEF CountInv, InBundle
<1>14. QED
  BY <1>1, <1>8, <1>9, <1>10, <1>11, <1>12, <1>13 DEF LifeInv

(* A phase gives way: the name goes first, then the status.  The project is *)
(* no longer on hold after the seventh write.                               *)
LEMMA AdvanceBundleKeeps ==
  ASSUME LifeInv, BundleWrite, session.bundle = "phase_advance"
  PROVE  LifeInv'
<1>p. PICK p, b, i, next :
          p = Slug /\ b = session.bundle /\ i = session.step /\ next = session.succ
  OBVIOUS
<1>0. /\ WorkInv /\ AdvanceInv /\ GrantInv /\ HoldInv /\ CountInv
      /\ session.stage = "bundle" /\ session.then = "extract"
      /\ i \in 1 .. 8 /\ granted \subseteq Projects
  BY <1>p, BundleSession, Lengths DEF LifeInv, TypeInv, TypeOK, SessionShape, InBundle
<1>1. /\ \A q \in Projects : q # p =>
              row'[q] = row[q] /\ lr'[q] = lr[q] /\ notices'[q] = notices[q]
      /\ LrStep(b, i, lr[p], next, lr'[p]) /\ RowStep(b, i, row[p], row'[p])
      /\ notices'[p] = notices[p]
      /\ granted' = (IF i = 1 /\ lr[p].name # next THEN granted \ {p} ELSE granted)
      /\ crashes' = crashes /\ spoiled' = spoiled
      /\ TypeInv' /\ OwnerInv' /\ p \in Projects
  BY <1>p, BundleFiles, BundleSession
<1>2. /\ lr'[p].name = (IF i = 1 THEN next ELSE lr[p].name)
      /\ lr'[p].status = (IF i = 2 THEN "ACTIVE" ELSE lr[p].status)
      /\ lr'[p].successor = (IF i = 3 THEN NoPhase ELSE lr[p].successor)
      /\ lr'[p].count = (IF i = 5 THEN 0 ELSE lr[p].count)
      /\ row'[p].status = (IF i = 7 THEN "ACTIVE" ELSE row[p].status)
      /\ row'[p].esc = "transition-approved" => row[p].esc = "transition-approved"
      /\ i = 8 => row'[p].esc = "none"
  BY <1>p, <1>1 DEF LrStep, RowStep
<1>3. /\ session'.slug = p
      /\ i = 8 => session'.stage = "extract" /\ session'.then = "close"
      /\ i # 8 => /\ session'.stage = "bundle" /\ session'.bundle = "phase_advance"
                  /\ session'.step = i + 1 /\ session'.then = "extract"
                  /\ session'.succ = next
  BY <1>p, <1>0, BundleSession, Lengths DEF LastWrite
<1>4. /\ next \in Phases
      /\ i = 1 => /\ lr[p].status = "COMPLETE" /\ lr[p].successor = next
                  /\ lr[p].name # next => p \in granted \cup spoiled
      /\ i # 1 => ~Finished(p)
      /\ i = 2 => lr[p].successor = lr[p].name
      /\ i > 2 => lr[p].status = "ACTIVE"
      /\ i = 8 => p \in spoiled \/ ~OnHold(p)
  BY <1>p, <1>0 DEF AdvanceInv, WorkInv, InBundle
<1>5. /\ i = 1 => lr'[p].successor = lr'[p].name
      /\ i > 1 => lr'[p].status = "ACTIVE"
  BY <1>0, <1>2, <1>4
<1>6. ~Finished(p)'
  BY <1>0, <1>5 DEF Finished
<1>7. p \notin granted'
  BY <1>0, <1>1, <1>4 DEF GrantInv, Finished
<1>8. \A q \in Projects : q # p => (OnHold(q)' <=> OnHold(q)) /\ (Finished(q)' <=> Finished(q))
  BY <1>1 DEF OnHold, Finished
<1>9. (OnHold(p)' => OnHold(p)) /\ (i >= 7 => p \in spoiled \/ ~OnHold(p)')
  BY <1>0, <1>2, <1>4 DEF OnHold
<1>10. WorkInv'
  <2>1. CASE i = 8
    BY <1>1, <1>2, <1>3, <1>9, <2>1 DEF WorkInv, InWork, InBundle, Slug, OnHold
  <2>2. CASE i # 8
    BY <1>0, <1>1, <1>2, <1>3, <1>9, <2>2 DEF WorkInv, InWork, InBundle, Slug, OnHold
  <2>3. QED
    BY <2>1, <2>2
<1>11. TransitionInv'
  BY <1>3 DEF TransitionInv, InBundle
<1>12. AdvanceInv'
  <2>1. CASE i = 8
    BY <1>3, <2>1 DEF AdvanceInv, InBundle
  <2>2. CASE i # 8
    <3>1. i + 1 # 1 /\ (i + 1 = 2 <=> i = 1) /\ (i + 1 > 2 <=> i > 1)
      BY <1>0
    <3>2. QED
      BY <1>3, <1>4, <1>5, <1>6, <2>2, <3>1 DEF AdvanceInv, InBundle, Slug, Finished
  <2>3. QED
    BY <2>1, <2>2
<1>13. GrantInv'
  <2>1. \A q \in granted' : q # p /\ q \in granted
    BY <1>1, <1>7
  <2>2. \A q \in granted' : Finished(q)'
    BY <1>0, <1>8, <2>1 DEF GrantInv
  <2>3. ASSUME NEW q \in Projects \ spoiled, OnHold(q)',
               row'[q].esc = "transition-approved", Finished(q)'
        PROVE  q \in granted'
    <3>1. q # p
      BY <1>6, <2>3
    <3>2. QED
      BY <1>0, <1>1, <1>8, <2>3, <3>1 DEF GrantInv
  <2>4. QED
    BY <1>1, <2>2, <2>3 DEF GrantInv
<1>14. HoldInv'
  <2>1. ASSUME crashes' = 0, NEW q \in Projects \ spoiled, OnHold(q)'
        PROVE  (Finished(q) /\ lr[q].successor # NoPhase)' \/ (q = p /\ i # 8)
    <3>1. CASE q = p
      BY <1>9, <2>1, <3>1
    <3>2. CASE q # p
      BY <1>p, <1>0, <1>1, <1>8, <2>1, <3>2 DEF HoldInv, Finished
    <3>3. QED
      BY <3>1, <3>2
  <2>2. QED
    BY <1>1, <1>3, <2>1 DEF HoldInv, InBundle, Slug
<1>15. CountInv'
  <2>0. notices'[p] \in Nat
    <3>1. notices' \in [Projects -> 0 .. MaxReescalations]
      BY <1>1 DEF TypeInv, TypeOK
    <3>2. QED
      BY <1>1, <3>1, LimitAssumption
  <2>1. ASSUME NEW q \in Projects \ spoiled, OnHold(q)'
        PROVE  lr'[q].count <= notices'[q]
    <3>1. CASE q = p /\ i = 5
      BY <1>2, <2>0, <3>1
    <3>2. CASE q = p /\ i # 5
      BY <1>0, <1>1, <1>2, <1>9, <2>1, <3>2 DEF CountInv, CounterFollowsNotices
    <3>3. CASE q # p
      BY <1>0, <1>1, <1>8, <2>1, <3>3 DEF CountInv, CounterFollowsNotices
    <3>4. QED
      BY <3>1, <3>2, <3>3
  <2>2. CounterFollowsNotices'
    BY <1>1, <2>1 DEF CounterFollowsNotices
  <2>3. QED
    BY <1>0, <1>3, <2>2 DEF CountInv, InBundle
<1>16. QED
  BY <1>1, <1>10, <1>11, <1>12, <1>13, <1>14, <1>15 DEF LifeInv

(* A hold is reported again, or given up.                                   *)
LEMMA ExpiryBundleKeeps ==
  ASSUME LifeInv, BundleWrite, session.bundle \in {"reescalate", "auto_pause"}
  PROVE  LifeInv'
<1>p. PICK p, b, i, next :
          p = Slug /\ b = session.bundle /\ i = session.step /\ next = session.succ
  OBVIOUS
<1>0. /\ GrantInv /\ HoldInv /\ CountInv
      /\ session.stage = "bundle" /\ session.then = "expire"
      /\ b \in {"reescalate", "auto_pause"}
      /\ i \in 1 .. BundleLength[b] /\ granted \subseteq Projects
      /\ session.todo \subseteq Projects
  BY <1>p, BundleSession DEF LifeInv, TypeInv, TypeOK, SessionShape, InBundle, Session
<1>1. /\ \A q \in Projects : q # p =>
              row'[q] = row[q] /\ lr'[q] = lr[q] /\ notices'[q] = notices[q]
      /\ LrStep(b, i, lr[p], next, lr'[p]) /\ RowStep(b, i, row[p], row'[p])
      /\ notices'[p] = (IF b = "reescalate" /\ i = 1 THEN Min3(notices[p] + 1) ELSE notices[p])
      /\ granted' = granted
      /\ crashes' = crashes /\ spoiled' = spoiled
      /\ TypeInv' /\ OwnerInv' /\ p \in Projects
  BY <1>p, <1>0, BundleFiles, BundleSession
<1>2. /\ lr'[p].name = lr[p].name /\ lr'[p].status = lr[p].status
      /\ lr'[p].successor = lr[p].successor
      /\ lr'[p].count = (IF b = "reescalate" /\ i = 2 THEN lr[p].count + 1 ELSE lr[p].count)
      /\ row'[p].status = (IF b = "auto_pause" /\ i = 1 THEN "PAUSED" ELSE row[p].status)
      /\ row'[p].esc = "transition-approved" => row[p].esc = "transition-approved"
  BY <1>0, <1>1 DEF LrStep, RowStep
<1>3. /\ session'.slug = p /\ session'.todo = session.todo
      /\ LastWrite => session'.stage = "expire" /\ session'.then = "close"
      /\ ~LastWrite => /\ session'.stage = "bundle" /\ session'.bundle = b
                       /\ session'.step = i + 1 /\ session'.then = "expire"
  BY <1>p, <1>0, BundleSession
<1>4. /\ lr[p].count \in Nat /\ notices[p] \in Nat /\ notices[p] <= MaxReescalations
      /\ \A q \in session.todo \ spoiled : lr[q].count <= notices[q]
      /\ b = "reescalate" /\ i <= 2 => lr[p].count < MaxReescalations
      /\ p \in spoiled \/ /\ b = "reescalate" /\ i = 1 => lr[p].count <= notices[p]
                          /\ b = "reescalate" /\ i = 2 => lr[p].count < notices[p]
  <2>1. lr[p].count \in 0 .. MaxReescalations /\ notices[p] \in 0 .. MaxReescalations
    BY <1>1 DEF LifeInv, TypeInv, TypeOK, Longrunner
  <2>2. QED
    BY <1>p, <1>0, <2>1, LimitAssumption DEF CountInv, InBundle, Slug
<1>5. \A q \in Projects : (OnHold(q)' => OnHold(q)) /\ (Finished(q)' <=> Finished(q))
  BY <1>1, <1>2 DEF OnHold, Finished
<1>6. WorkInv' /\ TransitionInv' /\ AdvanceInv'
  <2>1. session'.stage = "expire" \/ (session'.stage = "bundle" /\ session'.bundle = b)
    BY <1>3
  <2>2. QED
    BY <1>0, <2>1 DEF WorkInv, InWork, TransitionInv, AdvanceInv, InBundle
<1>7. GrantInv'
  <2>1. \A q \in Projects : row'[q].esc = "transition-approved" => row[q].esc = "transition-approved"
    BY <1>1, <1>2
  <2>2. QED
    BY <1>0, <1>1, <1>5, <2>1 DEF GrantInv
<1>8. HoldInv'
  <2>1. \A q \in Projects : lr'[q].successor = lr[q].successor
    BY <1>1, <1>2
  <2>2. ~InBundle("phase_advance")
    BY <1>p, <1>0 DEF InBundle
  <2>3. QED
    BY <1>0, <1>1, <1>5, <2>1, <2>2 DEF HoldInv
<1>9. CountInv'
  <2>1. notices'[p] >= notices[p] /\ notices'[p] \in Nat
        /\ (b = "reescalate" /\ i = 1 => p \in spoiled \/ lr[p].count < notices'[p])
    BY <1>1, <1>4, LimitAssumption DEF Min3
  <2>2. p \in spoiled \/ (lr[p].count <= notices[p] => lr'[p].count <= notices'[p])
    BY <1>2, <1>4, <2>1
  <2>3. \A q \in Projects \ spoiled : lr[q].count <= notices[q] => lr'[q].count <= notices'[q]
    BY <1>1, <2>2
  <2>4. CounterFollowsNotices'
    BY <1>0, <1>1, <1>5, <2>3 DEF CountInv, CounterFollowsNotices
  <2>5. \A q \in session'.todo \ spoiled' : lr'[q].count <= notices'[q]
    BY <1>0, <1>1, <1>3, <1>4, <2>3
  <2>6. (InBundle("reescalate") =>
           /\ session.step <= 2 => lr[Slug].count < MaxReescalations
           /\ Slug \in spoiled \/ /\ session.step = 1 => lr[Slug].count <= notices[Slug]
                                  /\ session.step = 2 => lr[Slug].count < notices[Slug])'
    <3>1. InBundle("reescalate")' => ~LastWrite /\ b = "reescalate" /\ session'.step = i + 1
      BY <1>3 DEF InBundle
    <3>2. i \in Nat /\ i + 1 # 1 /\ (i + 1 = 2 <=> i = 1) /\ (i + 1 <= 2 => i = 1)
      BY <1>0, Lengths
    <3>3. i = 1 => lr'[p].count = lr[p].count
      BY <1>2
    <3>4. QED
      BY <1>1, <1>3, <1>4, <2>1, <3>1, <3>2, <3>3 DEF Slug
  <2>7. (InBundle("auto_pause") /\ session.step = 1 =>
            Slug \in spoiled \/ notices[Slug] = MaxReescalations)'
    <3>1. i \in Nat /\ i + 1 # 1
      BY <1>0, Lengths
    <3>2. QED
      BY <1>3, <3>1 DEF InBundle
  <2>8. QED
    BY <2>4, <2>5, <2>6, <2>7 DEF CountInv
<1>10. QED
  BY <1>1, <1>6, <1>7, <1>8, <1>9 DEF LifeInv

(* One write of any bundle.                                                *)
LEMMA BundleWriteKeeps ==
  ASSUME LifeInv, BundleWrite
  PROVE  LifeInv'
BY CalmBundleKeeps, UpdateKeeps, TransitionKeeps, AdvanceBundleKeeps, ExpiryBundleKeeps,
   BundleSession, Lengths

-----------------------------------------------------------------------------
(* THE INVARIANT HOLDS                                                      *)

(* A fresh workspace.                                                      *)
LEMMA InitInv ==
  ASSUME Init
  PROVE  LifeInv
<1>1. PICK first \in [Projects -> Phases], objective \in [Projects -> BOOLEAN] :
          lr = [p \in Projects |->
                  [name |-> first[p], status |-> "ACTIVE", successor |-> NoPhase,
                   timer |-> "none", count |-> 0, objective |-> objective[p]]]
  BY DEF Init
<1>2. 0 \in 0 .. MaxReescalations /\ 0 \in 0 .. CrashLimit
  BY LimitAssumption
<1>3. \A p \in Projects : lr[p] \in Longrunner /\ lr[p].count = 0 /\ lr[p].status = "ACTIVE"
  BY <1>1, <1>2 DEF Longrunner
<1>4. lr \in [Projects -> Longrunner]
  BY <1>1, <1>3
<1>5. row \in [Projects -> Row] /\ \A p \in Projects : ~OnHold(p)
  BY DEF Init, NoRows, Row, Statuses, Escalations, OnHold
<1>12. owner \in Command /\ OwnerInv
  <2>1. 0 \in 0 .. CommandLimit
    BY LimitAssumption
  <2>2. QED
    BY <2>1, NoCommandFields DEF Init, OwnerInv
<1>6. TypeOK
  BY <1>2, <1>4, <1>5, <1>12, NoSessionFields DEF Init, TypeOK
<1>7. session.stage = "start" /\ SessionShape
  BY NoSessionFields DEF Init, SessionShape, InBundle
<1>8. WorkInv /\ TransitionInv /\ AdvanceInv
  BY <1>7 DEF WorkInv, InWork, TransitionInv, AdvanceInv, InBundle
<1>9. GrantInv /\ HoldInv
  BY <1>5 DEF Init, GrantInv, HoldInv
<1>10. CountInv
  BY <1>5, <1>7, NoSessionFields DEF Init, CountInv, CounterFollowsNotices, InBundle
<1>11. QED
  BY <1>6, <1>7, <1>8, <1>9, <1>10, <1>12 DEF LifeInv, TypeInv

(* Every stage of the manager.                                             *)
LEMMA ManagerKeeps ==
  ASSUME LifeInv, Manager
  PROVE  LifeInv'
<1>1. unclosed \in SUBSET Projects
  BY DEF LifeInv, TypeInv, TypeOK
<1>2. CASE DetectCrashes
  BY <1>1, <1>2, CalmList DEF DetectCrashes, At
<1>3. CASE Continue \/ Defer
  BY <1>3, SomeSession, CalmGoto DEF Continue, Defer, At
<1>4. CASE ScanEscalations
  <2> DEFINE S == {p \in Projects : Unsurfaced(p)}
  <2>1. S \in SUBSET Projects
    OBVIOUS
  <2>2. List("surface", S) /\ session.stage \in {"detect", "scan"}
        /\ UNCHANGED <<files, preapproved, crashes, granted, unclosed>>
    BY <1>4 DEF ScanEscalations, At
  <2> HIDE DEF S
  <2>3. QED
    BY <2>1, <2>2, CalmList
<1>5. CASE Review
  <2>1. session.stage # "bundle" /\ session.kind # "none"
        /\ UNCHANGED <<files, preapproved, crashes, granted, unclosed>>
    BY <1>5, SomeSession DEF Review, At
  <2>2. CASE Goto("close")
    BY <2>1, <2>2, CalmGoto
  <2>3. ASSUME NEW p \in Projects, Run("surface_escalation", p, NoPhase, "close")
        PROVE  LifeInv'
    BY <2>1, <2>3, CalmRun
  <2>4. QED
    BY <1>5, <2>2, <2>3 DEF Review
<1>6. QED
  BY <1>2, <1>3, <1>4, <1>5, AccuseKeeps, SurfaceKeeps, ScanExpiryKeeps, ExpireKeeps DEF Manager

(* Every step keeps the invariant.                                         *)
LEMMA NextKeeps ==
  ASSUME LifeInv, [Next]_vars
  PROVE  LifeInv'
<1>1. CASE StartWorker \/ StartManager
  BY <1>1, StartKeeps DEF StartWorker, StartManager
<1>2. CASE Worker
  <2>1. CASE StopConditionOpen
    BY <2>1, SomeSession, CalmGoto DEF StopConditionOpen, At
  <2>2. QED
    BY <1>2, <2>1, DispatchKeeps, AdvanceKeeps, ExtractKeeps, BlockKeeps, ProposeKeeps,
       RecordPassKeeps DEF Worker
<1>3. CASE Owner
  BY <1>3, OwnerKeeps
<1>4. CASE \E p \in Projects : TimerExpires(p)
  BY <1>4, TimerKeeps
<1>5. CASE UNCHANGED vars
  <2>1. TypeInv'
    BY <1>5 DEF LifeInv, TypeInv, TypeOK, SessionShape, InBundle, Slug, vars
  <2>2. OwnerInv'
    BY <1>5, OwnerSame DEF LifeInv, vars
  <2>3. QED
    BY <1>5, <2>1, <2>2, QuietStep DEF vars
<1>6. QED
  BY <1>1, <1>2, <1>3, <1>4, <1>5, ManagerKeeps, BundleWriteKeeps, CloseKeeps, CrashKeeps
     DEF Next, Work

(* The inductive invariant, through every action.                           *)
THEOREM LifeInvariant == Spec => []LifeInv
<1>1. Init => LifeInv
  BY InitInv
<1>2. LifeInv /\ [Next]_vars => LifeInv'
  BY NextKeeps
<1>3. QED
  BY <1>1, <1>2, PTL DEF Spec

(* Rows, LONGRUNNERs, notifications and the session stay in their domains;  *)
(* the re-escalation counter stays within its bound.                        *)
THEOREM TypeCorrect == Spec => []TypeOK
<1>1. LifeInv => TypeOK
  BY DEF LifeInv, TypeInv
<1>2. QED
  BY <1>1, LifeInvariant, PTL

(* While no session has crashed, a hold that no old table touched can end   *)
(* when it is approved.                                                    *)
THEOREM HoldsCanAdvance == Spec => []HoldCanAdvance
<1>1. LifeInv => HoldCanAdvance
  BY DEF LifeInv, TypeInv, SessionShape, HoldInv, HoldCanAdvance, InBundle
<1>2. QED
  BY <1>1, LifeInvariant, PTL

-----------------------------------------------------------------------------
(* NOTICES COME BEFORE A PAUSE                                              *)

(* The status PAUSED is written by the first write of auto_pause only.      *)
LEMMA PauseStep ==
  ASSUME LifeInv, [Next]_vars, NEW p \in Projects \ spoiled',
         row[p].status # "PAUSED", row'[p].status = "PAUSED"
  PROVE  notices[p] = MaxReescalations
<1>0. row \in [Projects -> Row] /\ notes \subseteq Note
  BY DEF LifeInv, TypeInv, TypeOK
<1>1. CASE BundleWrite
  <2>1. PICK q, b, i, next :
            q = Slug /\ b = session.bundle /\ i = session.step /\ next = session.succ
    OBVIOUS
  <2>2. /\ p # q => row'[p] = row[p]
        /\ RowStep(b, i, row[q], row'[q]) /\ p \notin spoiled
    BY <1>1, <2>1, BundleFiles
  <2>3. p = q
    BY <2>2
  <2>4. b = "auto_pause" /\ i = 1
    BY <2>2, <2>3 DEF RowStep
  <2>5. session.stage = "bundle"
    BY <1>1, BundleSession
  <2>6. QED
    BY <2>1, <2>2, <2>3, <2>4, <2>5 DEF LifeInv, CountInv, InBundle
<1>2. CASE Surface
  <2>1. PICK q \in session.todo : row' = [row EXCEPT ![q].esc = "surfaced"]
    BY <1>2 DEF Surface
  <2>2. row'[p].status = row[p].status
    BY <1>0, <2>1 DEF Row
  <2>3. QED
    BY <2>2
<1>3. CASE OwnerWrites
  <2>1. /\ owner.cmd \in {"pause", "unpause", "approve", "clear", "activate"}
        /\ row'[p] = IF p = owner.slug THEN Fields(owner.cmd, row[p]) ELSE row[p]
    BY <1>3, OwnerWritten
  <2>2. \/ Fields(owner.cmd, row[p]).status \in {"paused", "active"}
        \/ Fields(owner.cmd, row[p]).status = row[p].status
    BY <1>0, <2>1, FieldsWritten
  <2>3. QED
    BY <2>1, <2>2
<1>4. CASE UNCHANGED row
  BY <1>4
<1>5. QED
  BY <1>1, <1>2, <1>3, <1>4 DEF Next, Work, Worker, Manager, StartWorker, StartManager, Start,
     Close, Crash, Dispatch, AdvancePhase, Extract, Block, RouteComplete, RecordPass,
     StopConditionMet, StopConditionOpen, Propose, DetectCrashes, Accuse, Continue, Defer,
     ScanEscalations, ScanExpiry, Expire, Review, TimerExpires, Owner, Pause, Unpause,
     ApproveTransition, ResolveBlock, OwnerRuns, OwnerReads, OwnerStops, ChangePreapproval,
     files, vars

(* A project is paused for its expired hold only after the owner was sent   *)
(* the announced number of notices about this hold.                         *)
THEOREM Notices == Spec => NoticesBeforePause
<1>1. LifeInv => CounterFollowsNotices
  BY DEF LifeInv, CountInv
<1>2. LifeInv /\ [Next]_vars =>
        [\A p \in Projects \ spoiled' :
            row[p].status # "PAUSED" /\ row'[p].status = "PAUSED" =>
                notices[p] = MaxReescalations]_vars
  BY PauseStep
<1>3. QED
  BY <1>1, <1>2, LifeInvariant, PTL DEF Spec, NoticesBeforePause

-----------------------------------------------------------------------------
(* ProjectLifecycle IMPLEMENTS PhaseGate                                    *)

PhaseOf == [p \in Projects |-> lr[p].name]
GateOf  == [p \in Projects |->
              IF ~Finished(p) THEN "working"
              ELSE IF p \in granted THEN "authorised" ELSE "waiting"]

(* Nothing that the gate of a project shows changes.                        *)
Stays(q) == /\ lr'[q].name = lr[q].name
            /\ Finished(q)' <=> Finished(q)
            /\ Finished(q) => (q \in granted' <=> q \in granted)

(* The gate of one project moves, or none.                                  *)
LEMMA GateMoves ==
  ASSUME NEW p \in Projects, spoiled \subseteq spoiled',
         \A q \in Projects : q # p => Stays(q),
         \/ Stays(p)
         \/ ~Finished(p) /\ Finished(p)' /\ p \notin granted' /\ lr'[p].name = lr[p].name
         \/ /\ Finished(p) /\ Finished(p)' /\ p \notin granted /\ p \in granted'
            /\ lr'[p].name = lr[p].name
         \/ /\ Finished(p) /\ ~Finished(p)' /\ p \in granted \cup spoiled
            /\ lr'[p].name # lr[p].name /\ lr'[p].name \in Phases
  PROVE  [Gate!GateNext]_<<PhaseOf, GateOf, spoiled>>
<1>1. \A q \in Projects : q # p => PhaseOf'[q] = PhaseOf[q] /\ GateOf'[q] = GateOf[q]
  BY DEF Stays, PhaseOf, GateOf
<1>2. PhaseOf[p] = lr[p].name /\ PhaseOf'[p] = lr'[p].name
  BY DEF PhaseOf
<1>3. CASE Stays(p)
  <2>1. PhaseOf'[p] = PhaseOf[p] /\ GateOf'[p] = GateOf[p]
    BY <1>3 DEF Stays, PhaseOf, GateOf
  <2>2. PhaseOf' = PhaseOf /\ GateOf' = GateOf
    BY <1>1, <2>1 DEF PhaseOf, GateOf
  <2>3. QED
    BY <2>2 DEF Gate!GateNext, PhaseOf, GateOf
<1>4. CASE ~Finished(p) /\ Finished(p)' /\ p \notin granted' /\ lr'[p].name = lr[p].name
  <2>1. GateOf[p] = "working" /\ GateOf'[p] = "waiting"
    BY <1>4 DEF GateOf
  <2>2. PhaseOf' = PhaseOf
    BY <1>1, <1>2, <1>4 DEF PhaseOf
  <2>3. GateOf' = [GateOf EXCEPT ![p] = "waiting"]
    BY <1>1, <2>1 DEF GateOf
  <2>4. Gate!Finish(p)
    BY <2>1, <2>2, <2>3 DEF Gate!Finish, Gate!Pass, PhaseOf, GateOf
  <2>5. QED
    BY <2>4 DEF Gate!GateNext
<1>5. CASE /\ Finished(p) /\ Finished(p)' /\ p \notin granted /\ p \in granted'
           /\ lr'[p].name = lr[p].name
  <2>1. GateOf[p] = "waiting" /\ GateOf'[p] = "authorised"
    BY <1>5 DEF GateOf
  <2>2. PhaseOf' = PhaseOf
    BY <1>1, <1>2, <1>5 DEF PhaseOf
  <2>3. GateOf' = [GateOf EXCEPT ![p] = "authorised"]
    BY <1>1, <2>1 DEF GateOf
  <2>4. Gate!Authorise(p)
    BY <2>1, <2>2, <2>3 DEF Gate!Authorise, Gate!Pass, PhaseOf, GateOf
  <2>5. QED
    BY <2>4 DEF Gate!GateNext
<1>6. CASE /\ Finished(p) /\ ~Finished(p)' /\ p \in granted \cup spoiled
           /\ lr'[p].name # lr[p].name /\ lr'[p].name \in Phases
  <2>1. /\ GateOf[p] = "authorised" \/ (p \in spoiled /\ GateOf[p] = "waiting")
        /\ GateOf'[p] = "working"
    BY <1>6 DEF GateOf
  <2>2. PhaseOf' = [PhaseOf EXCEPT ![p] = lr'[p].name]
    BY <1>1, <1>2 DEF PhaseOf
  <2>3. GateOf' = [GateOf EXCEPT ![p] = "working"]
    BY <1>1, <2>1 DEF GateOf
  <2>4. PICK next : next = lr'[p].name
    OBVIOUS
  <2>5. Gate!AdvanceTo(p, next)
    BY <2>1, <2>2, <2>3, <2>4 DEF Gate!AdvanceTo, Gate!Pass, PhaseOf, GateOf
  <2>6. next \in Phases \ {[q \in Projects |-> lr[q].name][p]}
    BY <1>6, <2>4
  <2>7. QED
    BY <2>5, <2>6 DEF Gate!GateNext
<1>7. QED
  BY <1>3, <1>4, <1>5, <1>6

(* A write that is about no gate.                                           *)
LEMMA GateStays ==
  ASSUME \A q \in Projects :
            /\ lr'[q].name = lr[q].name /\ lr'[q].status = lr[q].status
            /\ lr'[q].successor = lr[q].successor,
         granted' = granted
  PROVE  \A q \in Projects : Stays(q)
BY DEF Stays, Finished

(* Every step moves a gate as PhaseGate allows, or moves none: the first     *)
(* write of phase_transition finishes the phase, and the first write of      *)
(* phase_advance begins the next one.                                       *)
LEMMA GateStep ==
  ASSUME LifeInv, [Next]_vars
  PROVE  [Gate!GateNext]_<<PhaseOf, GateOf, spoiled>>
<1>0. /\ TypeOK /\ SessionShape /\ GrantInv /\ AdvanceInv /\ TransitionInv /\ WorkInv
      /\ notes \subseteq Note /\ lr \in [Projects -> Longrunner]
  BY DEF LifeInv, TypeInv, TypeOK
<1>1. ASSUME \A q \in Projects : Stays(q), spoiled \subseteq spoiled'
      PROVE  [Gate!GateNext]_<<PhaseOf, GateOf, spoiled>>
  <2>1. PhaseOf' = PhaseOf /\ GateOf' = GateOf
    BY <1>1 DEF Stays, PhaseOf, GateOf
  <2>2. QED
    BY <1>1, <2>1 DEF Gate!GateNext, PhaseOf, GateOf
<1>2. ASSUME NEW p \in Projects, lr' = lr, spoiled \subseteq spoiled',
             granted' = IF Finished(p) THEN granted \cup {p} ELSE granted
      PROVE  [Gate!GateNext]_<<PhaseOf, GateOf, spoiled>>
  <2>1. \A q \in Projects : q # p => Stays(q)
    BY <1>2 DEF Stays, Finished
  <2>2. \/ Stays(p)
        \/ /\ Finished(p) /\ Finished(p)' /\ p \notin granted /\ p \in granted'
           /\ lr'[p].name = lr[p].name
    BY <1>2 DEF Stays, Finished
  <2>3. QED
    BY <1>2, <2>1, <2>2, GateMoves
<1>3. CASE BundleWrite
  <2>1. PICK p, b, i, next :
            p = Slug /\ b = session.bundle /\ i = session.step /\ next = session.succ
    OBVIOUS
  <2>2. /\ \A q \in Projects : q # p => lr'[q] = lr[q]
        /\ LrStep(b, i, lr[p], next, lr'[p])
        /\ granted' = IF \/ b = "phase_transition" /\ i = 1
                         \/ b = "phase_advance" /\ i = 1 /\ lr[p].name # next
                      THEN granted \ {p} ELSE granted
        /\ p \in Projects /\ session.stage = "bundle" /\ spoiled' = spoiled
    BY <1>3, <2>1, BundleFiles, BundleSession
  <2>3. \A q \in Projects : q # p => Stays(q)
    BY <2>2 DEF Stays, Finished
  <2>4. /\ lr'[p].name = IF b = "phase_advance" /\ i = 1 THEN next ELSE lr[p].name
        /\ lr'[p].status = IF b = "phase_transition" /\ i = 1 THEN "COMPLETE"
                           ELSE IF b = "phase_advance" /\ i = 2 THEN "ACTIVE" ELSE lr[p].status
        /\ lr'[p].successor = IF b = "phase_transition" /\ i = 2 THEN next
                              ELSE IF b = "phase_advance" /\ i = 3 THEN NoPhase
                              ELSE lr[p].successor
    BY <2>2 DEF LrStep
  <2>5. CASE b = "phase_transition"
    <3>1. /\ lr[p].successor = next /\ next # lr[p].name
          /\ lr[p].status = IF i = 1 THEN "ACTIVE" ELSE "COMPLETE"
      BY <1>0, <2>1, <2>2, <2>5 DEF TransitionInv, InBundle
    <3>2. /\ lr'[p].name = lr[p].name /\ Finished(p)' /\ (Finished(p) <=> i # 1)
          /\ i = 1 => p \notin granted'
          /\ i # 1 => granted' = granted
      BY <2>2, <2>4, <2>5, <3>1 DEF Finished
    <3>3. QED
      BY <2>2, <2>3, <3>2, GateMoves DEF Stays
  <2>6. CASE b = "phase_advance"
    <3>1. /\ next \in Phases
          /\ i = 1 => /\ lr[p].status = "COMPLETE" /\ lr[p].successor = next
                      /\ lr[p].name # next => p \in granted \cup spoiled
          /\ i # 1 => ~Finished(p)
          /\ i = 2 => lr[p].successor = lr[p].name
          /\ i > 2 => lr[p].status = "ACTIVE"
      BY <1>0, <2>1, <2>2, <2>6 DEF AdvanceInv, InBundle
    <3>2. i \in 1 .. 8
      BY <1>3, <2>1, <2>6, BundleSession, Lengths
    <3>3. ~Finished(p)'
      BY <2>4, <2>6, <3>1, <3>2 DEF Finished
    <3>4. CASE i = 1 /\ lr[p].name # next
      <4>1. Finished(p) /\ p \in granted \cup spoiled /\ lr'[p].name = next
        BY <2>4, <2>6, <3>1, <3>4 DEF Finished
      <4>2. QED
        BY <2>2, <2>3, <3>1, <3>3, <3>4, <4>1, GateMoves
    <3>5. CASE ~(i = 1 /\ lr[p].name # next)
      <4>1. ~Finished(p) /\ lr'[p].name = lr[p].name
        BY <2>4, <2>6, <3>1, <3>5 DEF Finished
      <4>2. Stays(p)
        BY <3>3, <4>1 DEF Stays
      <4>3. QED
        BY <2>2, <2>3, <4>2, GateMoves
    <3>6. QED
      BY <3>4, <3>5
  <2>7. CASE b \notin {"phase_transition", "phase_advance"}
    <3>1. Stays(p)
      BY <2>2, <2>4, <2>7 DEF Stays, Finished
    <3>2. QED
      BY <2>2, <2>3, <3>1, GateMoves
  <2>8. QED
    BY <2>5, <2>6, <2>7
<1>4. CASE RouteComplete \/ StopConditionMet
  <2>1. PICK p : p = Slug
    OBVIOUS
  <2>2. /\ p \in Projects /\ (p \in spoiled \/ ~OnHold(p))
        /\ ~InBundle("phase_advance") /\ Propose(p)
    BY <1>0, <1>4, <2>1 DEF RouteComplete, StopConditionMet, At, SessionShape, WorkInv, InWork,
       InBundle, Slug
  <2>3. PICK next \in Proposed[lr[p].name] : lr' = [lr EXCEPT ![p].successor = next]
    BY <2>2 DEF Propose
  <2>4. UNCHANGED <<row, notices, crashes, granted, owner, spoiled>>
    BY <2>2 DEF Propose, history
  <2>5. /\ next # lr[p].name
        /\ lr'[p].name = lr[p].name /\ lr'[p].status = lr[p].status
        /\ lr'[p].successor = next
    BY <2>2, <2>3, <2>4, Recommend
  <2>6. \A q \in Projects : q # p => Stays(q)
    BY <1>0, <2>3, <2>4 DEF Stays, Finished
  <2>7. CASE lr[p].status = "COMPLETE" /\ lr[p].successor = lr[p].name
    <3>1. ~Finished(p) /\ Finished(p)' /\ p \notin granted'
      BY <1>0, <2>4, <2>5, <2>7 DEF Finished, GrantInv
    <3>2. QED
      BY <2>2, <2>4, <2>5, <2>6, <3>1, GateMoves
  <2>8. CASE ~(lr[p].status = "COMPLETE" /\ lr[p].successor = lr[p].name)
    <3>1. Stays(p)
      BY <2>4, <2>5, <2>8 DEF Stays, Finished
    <3>2. QED
      BY <2>2, <2>4, <2>6, <3>1, GateMoves
  <2>9. QED
    BY <2>7, <2>8
<1>5. CASE Dispatch
  <2>1. lr' = lr /\ spoiled' = spoiled
    BY <1>5 DEF Dispatch, files
  <2>2. CASE granted' = granted
    BY <1>1, <2>1, <2>2, GateStays
  <2>3. ASSUME NEW p \in Best(Advanceable),
               granted' = IF Finished(p) /\ row[p].esc = "phase-complete" /\ preapproved
                          THEN granted \cup {p} ELSE granted
        PROVE  [Gate!GateNext]_<<PhaseOf, GateOf, spoiled>>
    <3>1. p \in Projects
      BY DEF Best, Advanceable
    <3>2. CASE Finished(p) /\ row[p].esc = "phase-complete" /\ preapproved
      BY <1>2, <2>1, <2>3, <3>1, <3>2
    <3>3. CASE ~(Finished(p) /\ row[p].esc = "phase-complete" /\ preapproved)
      BY <2>2, <2>3, <3>3
    <3>4. QED
      BY <3>2, <3>3
  <2>4. QED
    BY <1>5, <2>2, <2>3 DEF Dispatch
<1>6. CASE OwnerWrites
  <2>1. owner.slug \in Projects /\ spoiled \subseteq spoiled'
    BY <1>6, OwnerWritten
  <2>2. /\ lr' = lr
        /\ granted' = IF owner.cmd = "approve" /\ Finished(owner.slug)
                      THEN granted \cup {owner.slug} ELSE granted
    BY <1>6 DEF OwnerWrites
  <2>3. CASE owner.cmd = "approve"
    BY <1>2, <2>1, <2>2, <2>3
  <2>4. CASE owner.cmd # "approve"
    BY <1>1, <2>1, <2>2, <2>4, GateStays
  <2>5. QED
    BY <2>3, <2>4
<1>7. ASSUME NEW p \in Projects, TimerExpires(p)
      PROVE  [Gate!GateNext]_<<PhaseOf, GateOf, spoiled>>
  <2>1. lr' = [lr EXCEPT ![p].timer = "expired"] /\ UNCHANGED <<granted, spoiled>>
    BY <1>7 DEF TimerExpires, history
  <2>2. \A q \in Projects :
            /\ lr'[q].name = lr[q].name /\ lr'[q].status = lr[q].status
            /\ lr'[q].successor = lr[q].successor
    BY <1>0, <2>1 DEF Longrunner
  <2>3. QED
    BY <1>1, <2>1, <2>2, GateStays
<1>8. CASE UNCHANGED <<lr, granted, spoiled>>
  BY <1>1, <1>8, GateStays
<1>9. CASE Owner
  <2>1. CASE \E p \in Projects : Pause(p) \/ Unpause(p)
    BY <1>8, <2>1 DEF Pause, Unpause, OwnerRuns, history
  <2>2. CASE \E n \in notes : ApproveTransition(n) \/ ResolveBlock(n)
    BY <1>8, <2>2 DEF ApproveTransition, ResolveBlock, OwnerRuns, history
  <2>3. CASE ChangePreapproval \/ OwnerReads \/ OwnerStops
    BY <1>8, <2>3 DEF ChangePreapproval, OwnerReads, OwnerStops, files, history
  <2>4. QED
    BY <1>6, <1>9, <2>1, <2>2, <2>3 DEF Owner
<1>10. QED
  BY <1>3, <1>4, <1>5, <1>7, <1>8, <1>9 DEF Next, Work, Worker, Manager, StartWorker, StartManager,
     Start, Close, Crash, AdvancePhase, Extract, Block, RecordPass, StopConditionOpen,
     DetectCrashes, Accuse, Continue, Defer, ScanEscalations, Surface, ScanExpiry, Expire,
     Review, files, vars

(* Through crashes between any two writes, retries, pauses and expiries, a  *)
(* phase gives way only after it was finished and, after that, authorised,  *)
(* unless its authorisation was spoiled.                                   *)
THEOREM GateRefined == Spec => GateRefinement
<1>1. Init => Gate!GateInit
  <2> SUFFICES ASSUME Init PROVE Gate!GateInit
    OBVIOUS
  <2>0. \A p \in Projects : lr[p].status = "ACTIVE"
    BY DEF Init
  <2>1. LifeInv /\ \A p \in Projects : lr[p].status = "ACTIVE"
    BY <2>0, InitInv
  <2>2. \A p \in Projects : lr[p].name \in Phases /\ ~Finished(p)
    BY <2>1 DEF LifeInv, TypeInv, TypeOK, Longrunner, Finished
  <2>3. QED
    BY <2>2 DEF Init, Gate!GateInit, Gate!GateTypeOK
<1>2. LifeInv /\ [Next]_vars => [Gate!GateNext]_<<PhaseOf, GateOf, spoiled>>
  BY GateStep
<1>3. QED
  BY <1>1, <1>2, LifeInvariant, PTL
  DEF Spec, GateRefinement, Gate!GateSpec, PhaseOf, GateOf
=============================================================================
