--------------------------- MODULE OversightProofs ---------------------------
(***************************************************************************)
(* What TLC checks of Oversight on one project and two days, for all        *)
(* projects, days and crashes.                                             *)
(***************************************************************************)
EXTENDS Oversight, FiniteSetTheorems, SequenceTheorems, TLAPS

-----------------------------------------------------------------------------
(* THE INVARIANT                                                            *)

(* A session is a record, and a worker logs its T0 before anything else.     *)
Sessions == [kind : {"none", "worker", "manager"}, stage : Stages, day : 0 .. LastDay,
             run : Run, subject : Slugs \cup {NoSlug} \cup Kinds, todo : SUBSET Slugs]

SessionInv ==
    /\ session \in Sessions /\ crashes \in Nat
    /\ session.kind = "worker" => "T0" \in session.run.steps

(* There is one draft at most, and none while a proposal is being made.     *)
DraftInv ==
    /\ \A s, t \in drafts : s = t
    /\ At("worker", "drafting") => drafts = {}

(* A run that has come to a CHECKPOINT has had its T0, if under another     *)
(* session that had the id; the T9 row ends it.                            *)
WellLogged(r) == /\ "T4" \in r.steps => "T0" \in r.steps
                 /\ "T9" \notin r.steps
RunsInv == WellLogged(open) /\ WellLogged(session.run) /\ \A r \in left : WellLogged(r)

(* A pass that no manager has looked at is not older than any review; and   *)
(* nobody dates a review ahead.                                            *)
ReviewInv ==
    \A s \in Slugs :
        /\ reviews[s] <= day
        /\ s \in unseen => reviews[s] = Never \/ rows[s].pass >= reviews[s]

WatchInv == TypeOK /\ SessionInv /\ DraftInv /\ RunsInv /\ ReviewInv

-----------------------------------------------------------------------------
(* NOTICES                                                                  *)

(* An entry that is appended once is there once.                            *)
LEMMA NotedTyped ==
  ASSUME notices \in Seq(Kinds), IsInjective(notices), NEW kind \in Kinds
  PROVE  Noted(kind) \in Seq(Kinds) /\ IsInjective(Noted(kind))
<1>1. CASE Contains(notices, kind)
  BY <1>1 DEF Noted
<1>2. CASE ~Contains(notices, kind)
  <2>1. /\ Noted(kind) = Append(notices, kind) /\ \A i \in 1 .. Len(notices) : notices[i] # kind
    BY <1>2 DEF Noted, Contains
  <2>2. /\ Append(notices, kind) \in Seq(Kinds)
        /\ DOMAIN Append(notices, kind) = 1 .. Len(notices) + 1
        /\ \A i \in 1 .. Len(notices) : Append(notices, kind)[i] = notices[i]
        /\ Append(notices, kind)[Len(notices) + 1] = kind
        /\ DOMAIN notices = 1 .. Len(notices) /\ Len(notices) \in Nat
    OBVIOUS
  <2>3. IsInjective(Append(notices, kind))
    BY <2>1, <2>2 DEF IsInjective
  <2>4. QED
    BY <2>1, <2>2, <2>3
<1>3. QED
  BY <1>1, <1>2

(* The others stay when an entry goes.                                      *)
LEMMA DoneTyped ==
  ASSUME notices \in Seq(Kinds), IsInjective(notices), NEW kind
  PROVE  Done(kind) \in Seq(Kinds) /\ IsInjective(Done(kind))
<1>1. CASE Contains(notices, kind)
  <2> DEFINE i == LineOf(kind)
  <2>1. i \in 1 .. Len(notices)
    <3>1. \E j \in DOMAIN notices : notices[j] = kind
      BY <1>1 DEF Contains
    <3>2. QED
      BY <3>1 DEF LineOf
  <2>2. Done(kind) = SubSeq(notices, 1, i - 1) \o SubSeq(notices, i + 1, Len(notices))
    BY <1>1 DEF Done, RemoveAt
  <2> HIDE DEF i
  <2> DEFINE before == SubSeq(notices, 1, i - 1)
             after  == SubSeq(notices, i + 1, Len(notices))
  <2>3. /\ before \in Seq(Kinds) /\ Len(before) = i - 1
        /\ \A j \in 1 .. i - 1 : before[j] = notices[j]
    BY <2>1
  <2>4. /\ after \in Seq(Kinds) /\ Len(after) = Len(notices) - i
        /\ \A j \in 1 .. Len(notices) - i : after[j] = notices[j + i]
    BY <2>1
  <2> HIDE DEF before, after
  <2>5. /\ before \o after \in Seq(Kinds) /\ Len(before \o after) = Len(notices) - 1
        /\ \A j \in 1 .. Len(notices) - 1 :
              (before \o after)[j] = IF j < i THEN notices[j] ELSE notices[j + 1]
    <3>1. /\ before \o after \in Seq(Kinds) /\ Len(before \o after) = Len(before) + Len(after)
          /\ \A j \in 1 .. Len(before) + Len(after) :
                (before \o after)[j] = IF j <= Len(before) THEN before[j]
                                       ELSE after[j - Len(before)]
      BY <2>3, <2>4, ConcatProperties
    <3>2. ASSUME NEW j \in 1 .. Len(notices) - 1
          PROVE  (before \o after)[j] = IF j < i THEN notices[j] ELSE notices[j + 1]
      <4>1. CASE j < i
        BY <2>1, <2>3, <2>4, <3>1, <4>1
      <4>2. CASE j >= i
        <5>1. j - (i - 1) \in 1 .. Len(notices) - i /\ (j - (i - 1)) + i = j + 1
          BY <2>1, <4>2
        <5>2. after[j - (i - 1)] = notices[(j - (i - 1)) + i]
          BY <2>4, <5>1
        <5>3. QED
          BY <2>1, <2>3, <2>4, <3>1, <4>2, <5>1, <5>2
      <4>3. j < i \/ j >= i
        BY <2>1
      <4>4. QED
        BY <4>1, <4>2, <4>3
    <3>3. QED
      BY <2>1, <2>3, <2>4, <3>1, <3>2
  <2>6. IsInjective(before \o after)
    <3>1. DOMAIN (before \o after) = 1 .. Len(notices) - 1 /\ DOMAIN notices = 1 .. Len(notices)
      BY <2>5
    <3>2. ASSUME NEW j \in 1 .. Len(notices) - 1, NEW k \in 1 .. Len(notices) - 1,
                 (before \o after)[j] = (before \o after)[k]
          PROVE  j = k
      <4>1. \A m, n \in 1 .. Len(notices) : notices[m] = notices[n] => m = n
        BY <3>1 DEF IsInjective
      <4>2. PICK m \in 1 .. Len(notices) : m = IF j < i THEN j ELSE j + 1
        BY <2>1
      <4>3. PICK n \in 1 .. Len(notices) : n = IF k < i THEN k ELSE k + 1
        BY <2>1
      <4>4. m = n
        BY <2>5, <3>2, <4>1, <4>2, <4>3
      <4>5. QED
        BY <2>1, <4>2, <4>3, <4>4
    <3>3. QED
      BY <3>1, <3>2 DEF IsInjective
  <2>7. QED
    BY <2>2, <2>5, <2>6 DEF before, after
<1>2. CASE ~Contains(notices, kind)
  BY <1>2 DEF Done
<1>3. QED
  BY <1>1, <1>2

-----------------------------------------------------------------------------
(* SESSIONS AND THEIR RUNS                                                  *)

(* Another row of the log is one of the same run.                           *)
LEMMA LogTyped ==
  ASSUME session \in Sessions, NEW step \in {"T0", "T4"},
         NEW slug \in Slugs \cup {NoSlug, Notifications}
  PROVE  /\ Log(step, slug) \in Run
         /\ Log(step, slug).steps = session.run.steps \cup {step}
  BY DEF Log, Sessions, Run

(* What the rest of a step does not touch stays well typed.                 *)
LEMMA RowsTyped ==
  ASSUME rows \in [Slugs -> Row], NEW runs
  PROVE  /\ Escalated(runs) \in [Slugs -> Row]
         /\ \A s \in Slugs : Escalated(runs)[s].pass = rows[s].pass
<1>1. ASSUME NEW s \in Slugs
      PROVE  /\ [rows[s] EXCEPT !.esc = "crash"] \in Row
             /\ [rows[s] EXCEPT !.esc = "crash"].pass = rows[s].pass
  BY DEF Row
<1>2. QED
  BY <1>1 DEF Escalated

(* Two drafts at most alike are one.                                        *)
LEMMA OneDraft ==
  ASSUME NEW D, \A s, t \in D : s = t
  PROVE  Cardinality(D) <= 1
<1>1. CASE D = {}
  BY <1>1, FS_EmptySet
<1>2. CASE D # {}
  <2>1. PICK s \in D : TRUE
    BY <1>2
  <2>2. D = {s}
    BY <2>1
  <2>3. Cardinality({s}) = 1
    BY FS_Singleton
  <2>4. QED
    BY <2>2, <2>3
<1>3. QED
  BY <1>1, <1>2

-----------------------------------------------------------------------------
(* THE STEPS                                                                *)

Typed == TypeOK /\ SessionInv /\ DraftInv

(* A session that begins takes over the rows of a dead one.                 *)
LEMMA BeginTyped ==
  ASSUME Typed, NEW kind \in {"worker", "manager"}, NEW steps \in SUBSET {"T0"},
         Begin(kind, steps), kind = "worker" => steps = {"T0"}, crashes' = crashes
  PROVE  /\ SessionInv' /\ session' \in Sessions
         /\ open' = Fresh /\ left' = left /\ ~At("worker", "drafting")'
         /\ \E more \in SUBSET {"T0", "STARTUP"} :
               /\ session'.run = [open EXCEPT !.steps = @ \cup more]
               /\ kind = "worker" => "T0" \in more
<1>1. PICK startup \in SUBSET {"STARTUP"} :
        session' = [Idle EXCEPT !.kind = kind, !.day = day,
                       !.run = [open EXCEPT !.steps = @ \cup steps \cup startup]]
  BY DEF Begin
<1>2. PICK run \in Run : run = [open EXCEPT !.steps = @ \cup steps \cup startup]
  <2>1. [open EXCEPT !.steps = @ \cup steps \cup startup] \in Run
    BY DEF Typed, TypeOK, Run
  <2>2. QED
    BY <2>1
<1>3. /\ session' = [kind |-> kind, stage |-> "started", day |-> day, run |-> run,
                     subject |-> NoSlug, todo |-> {}]
      /\ session' \in Sessions
  BY <1>1, <1>2 DEF Idle, Sessions, Stages, Typed, TypeOK
<1>4. run = [open EXCEPT !.steps = @ \cup (steps \cup startup)]
  <2>1. open.steps \cup steps \cup startup = open.steps \cup (steps \cup startup)
    OBVIOUS
  <2>2. QED
    BY <1>2, <2>1
<1>5. kind = "worker" => "T0" \in run.steps
  BY <1>4 DEF Typed, TypeOK, Run
<1>6. /\ session'.run = run /\ session'.kind = kind /\ session'.stage = "started"
      /\ (steps \cup startup) \in SUBSET {"T0", "STARTUP"}
  BY <1>3
<1>7. QED
  BY <1>3, <1>4, <1>5, <1>6 DEF Begin, SessionInv, At, Typed

(* The steps of the scheduler, and the end of a session.                    *)
LEMMA EndsTyped ==
  ASSUME Typed, StartWorker \/ StartManager \/ Register \/ LogClose \/ Crash \/ NextDay
  PROVE  Typed'
<1> USE DEF Typed
<1>1. CASE StartWorker
  <2>1. crashes' = crashes /\ session' \in Sessions /\ SessionInv' /\ open' = Fresh /\ left' = left
        /\ ~At("worker", "drafting")'
    BY <1>1, BeginTyped DEF StartWorker
  <2>2. QED
    BY <1>1, <2>1 DEF StartWorker, TypeOK, Sessions, DraftInv, Fresh, Run, papers, history
<1>2. CASE StartManager
  <2>1. crashes' = crashes /\ session' \in Sessions /\ SessionInv' /\ open' = Fresh /\ left' = left
        /\ ~At("worker", "drafting")'
    BY <1>2, BeginTyped DEF StartManager
  <2>2. QED
    BY <1>2, <2>1 DEF StartManager, TypeOK, Sessions, DraftInv, Fresh, Run, papers, history
<1>3. CASE Register
  <2>1. PICK run \in Run : run = [session.run EXCEPT !.registered = TRUE]
    BY DEF SessionInv, Sessions, Run
  <2>2. session' = [session EXCEPT !.stage = "registered", !.run = run]
    BY <1>3, <2>1 DEF Register, SessionInv, Sessions
  <2>3. /\ session' \in Sessions /\ session'.kind = session.kind /\ session'.run = run
        /\ session'.stage = "registered"
    BY <2>2 DEF SessionInv, Sessions, Stages
  <2>4. run.steps = session.run.steps
    BY <2>1 DEF SessionInv, Sessions, Run
  <2>5. QED
    BY <1>3, <2>3, <2>4
    DEF Register, TypeOK, SessionInv, Sessions, DraftInv, At, papers, trail, history
<1>4. ASSUME session' = Idle, UNCHANGED <<day, papers, rows, reviews, drafts, history>>,
             open' \in Run, left' \subseteq Run, crashes' \in Nat
      PROVE  Typed'
  <2>1. session' \in Sessions /\ session'.kind = "none"
    BY <1>4, OversightAssumption DEF Idle, Sessions, Stages, Fresh, Run, TypeOK
  <2>2. QED
    BY <1>4, <2>1 DEF TypeOK, SessionInv, Sessions, DraftInv, At, papers, history
<1>5. CASE LogClose
  BY <1>4, <1>5 DEF LogClose, trail, TypeOK, SessionInv
<1>6. CASE Crash
  <2>1. open' \in Run /\ left' \subseteq Run
    BY <1>6 DEF Crash, TypeOK
  <2>2. crashes' \in Nat
    BY <1>6 DEF Crash, SessionInv
  <2>3. QED
    BY <1>4, <1>6, <2>1, <2>2 DEF Crash
<1>7. CASE NextDay
  <2>1. day' \in 0 .. LastDay
    BY <1>7, OversightAssumption DEF NextDay, TypeOK
  <2>2. open' \in Run /\ left' \subseteq Run
    BY <1>7 DEF NextDay, TypeOK, Fresh, Run
  <2>3. QED
    BY <1>7, <2>1, <2>2 DEF NextDay, TypeOK, SessionInv, DraftInv, At, papers, history
<1>8. QED
  BY <1>1, <1>2, <1>3, <1>5, <1>6, <1>7

(* What a step of a session has to leave in order.                          *)
LEMMA StaysTyped ==
  ASSUME Typed, UNCHANGED <<day, trail, crashes>>,
         session' \in Sessions, session'.kind = session.kind, session'.run = session.run,
         install' \in {"file", "both", "archive"}, reviews' \in [Slugs -> Never .. LastDay],
         rows' \in [Slugs -> Row], notices' \in Seq(Kinds), IsInjective(notices'),
         drafts' \in SUBSET Slugs, \A s, t \in drafts' : s = t,
         session'.stage = "drafting" => drafts' = {}
  PROVE  Typed'
<1>1. SessionInv' /\ DraftInv'
  BY DEF Typed, SessionInv, DraftInv, At
<1>2. Cardinality(drafts') <= 1
  BY OneDraft
<1>3. QED
  BY <1>1, <1>2 DEF Typed, TypeOK, Sessions, trail

(* What is not touched is in order.                                         *)
LEMMA Standing ==
  ASSUME Typed
  PROVE  /\ install \in {"file", "both", "archive"} /\ reviews \in [Slugs -> Never .. LastDay]
         /\ rows \in [Slugs -> Row] /\ notices \in Seq(Kinds) /\ IsInjective(notices)
         /\ drafts \in SUBSET Slugs /\ \A s, t \in drafts : s = t
         /\ session \in Sessions /\ day \in 0 .. LastDay /\ 0 .. LastDay \subseteq Never .. LastDay
<1>1. 0 .. LastDay \subseteq Never .. LastDay
  BY OversightAssumption DEF Never
<1>2. QED
  BY <1>1 DEF Typed, TypeOK, SessionInv, DraftInv

(* The steps of a worker.                                                   *)
LEMMA WorkerTyped ==
  ASSUME Typed,
         \/ \E s \in Slugs : Work(s)
         \/ RecordPass \/ EndPass \/ ActOnNotice \/ MarkDone
         \/ Triage \/ WriteDraft \/ AnnounceDraft
  PROVE  Typed'
<1>1. ASSUME NEW subject \in Slugs \cup Kinds, NEW stage \in {"working", "noticed"},
             Checkpointed(subject, stage),
             UNCHANGED <<day, papers, rows, reviews, drafts, trail, crashes, history>>
      PROVE  Typed'
  <2> USE DEF Typed
  <2>1. PICK run \in Run :
           /\ run = Log("T4", IF subject \in Slugs THEN subject ELSE Notifications)
           /\ run.steps = session.run.steps \cup {"T4"}
    BY LogTyped DEF SessionInv
  <2>2. session' = [session EXCEPT !.stage = stage, !.subject = subject, !.run = run]
    BY <1>1, <2>1 DEF Checkpointed
  <2>3. /\ session' \in Sessions /\ session'.stage = stage /\ session'.run = run
        /\ session'.kind = session.kind
    BY <2>2 DEF SessionInv, Sessions, Stages
  <2>4. SessionInv' /\ DraftInv'
    BY <1>1, <2>1, <2>3 DEF SessionInv, DraftInv, At
  <2>5. QED
    BY <1>1, <2>3, <2>4 DEF TypeOK, Sessions, papers, trail
<1>2. ASSUME NEW stage \in Stages, To(stage)
      PROVE  /\ session' \in Sessions /\ session'.kind = session.kind
             /\ session'.run = session.run /\ session'.stage = stage
  BY <1>2, Standing DEF Sessions, To
<1>3. ASSUME NEW s \in Slugs, Work(s) PROVE Typed'
  BY <1>1, <1>3 DEF Work
<1>4. CASE RecordPass
  <2>1. rows' \in [Slugs -> Row]
    BY <1>4, Standing DEF RecordPass, Row
  <2>2. QED
    BY <1>2, <1>4, <2>1, Standing, StaysTyped DEF RecordPass, papers, Stages
<1>5. CASE EndPass
  <2>1. rows' \in [Slugs -> Row]
    BY <1>5, Standing DEF EndPass, Row, Status
  <2>2. QED
    BY <1>2, <1>5, <2>1, Standing, StaysTyped DEF EndPass, papers, Stages
<1>6. CASE ActOnNotice
  <2>1. PICK kind \in Found : Checkpointed(kind, "noticed")
    BY <1>6 DEF ActOnNotice
  <2>2. kind \in Kinds
    BY Standing DEF Found
  <2>3. QED
    BY <1>1, <1>6, <2>1, <2>2 DEF ActOnNotice
<1>7. CASE MarkDone
  <2>1. /\ session' \in Sessions /\ session'.kind = session.kind
        /\ session'.run = session.run /\ session'.stage = "closing"
    BY <1>7, Standing DEF MarkDone, Sessions, Stages
  <2>2. notices' \in Seq(Kinds) /\ IsInjective(notices')
    BY <1>7, Standing, DoneTyped DEF MarkDone
  <2>3. QED
    BY <1>7, <2>1, <2>2, Standing, StaysTyped DEF MarkDone
<1>8. CASE Triage
  <2>1. PICK tier \in Tiers : To(IF tier = "4a" THEN "drafting" ELSE "closing")
    BY <1>8 DEF Triage
  <2>2. tier = "4a" => drafts = {}
    BY <2>1 DEF Tiers
  <2>3. PICK stage \in Stages : To(stage) /\ (stage = "drafting" => drafts = {})
    BY <2>1, <2>2 DEF Stages
  <2>4. QED
    BY <1>2, <1>8, <2>3, Standing, StaysTyped DEF Triage, papers
<1>9. CASE WriteDraft
  <2>1. drafts = {}
    BY <1>9 DEF WriteDraft, Typed, DraftInv
  <2>2. PICK stage \in {"announcing", "closing"} : To(stage)
    BY <1>9 DEF WriteDraft
  <2>3. /\ session' \in Sessions /\ session'.kind = session.kind
        /\ session'.run = session.run /\ session'.stage # "drafting"
    BY <1>2, <2>2 DEF Stages
  <2>4. drafts' \in SUBSET Slugs /\ \A s, t \in drafts' : s = t
    BY <1>9, <2>1 DEF WriteDraft
  <2>5. QED
    BY <1>9, <2>3, <2>4, Standing, StaysTyped DEF WriteDraft, papers
<1>10. CASE AnnounceDraft
  <2>1. notices' \in Seq(Kinds) /\ IsInjective(notices')
    BY <1>10, Standing, NotedTyped DEF AnnounceDraft, TellOfDrafts, Kinds
  <2>2. QED
    BY <1>2, <1>10, <2>1, Standing, StaysTyped DEF AnnounceDraft, TellOfDrafts, Stages
<1>11. QED
  BY <1>3, <1>4, <1>5, <1>6, <1>7, <1>8, <1>9, <1>10

(* The steps of a manager.                                                  *)
LEMMA ManagerTyped ==
  ASSUME Typed,
         \/ \E s \in Slugs : Review(s)
         \/ DetectCrashes \/ Surface \/ DetectChanges \/ ReviewDraft \/ Plan \/ Audit \/ Prune
  PROVE  Typed'
<1>1. ASSUME NEW stage \in Stages, To(stage)
      PROVE  /\ session' \in Sessions /\ session'.kind = session.kind
             /\ session'.run = session.run /\ session'.stage = stage
  BY <1>1, Standing DEF Sessions, To
<1>2. Noted("alert") \in Seq(Kinds) /\ IsInjective(Noted("alert"))
  BY Standing, NotedTyped DEF Kinds
<1>3. ASSUME NEW s \in Slugs, Review(s) PROVE Typed'
  <2>1. PICK stage \in {"auditing", "reviewing"} :
          session' = [session EXCEPT !.todo = @ \ {s}, !.stage = stage]
    BY <1>3, Standing DEF Review, At, Sessions
  <2>2. /\ session' \in Sessions /\ session'.kind = session.kind
        /\ session'.run = session.run /\ session'.stage # "drafting"
    BY <2>1, Standing DEF Sessions, Stages
  <2>3. reviews' \in [Slugs -> Never .. LastDay]
    BY <1>3, Standing DEF Review
  <2>4. QED
    BY <1>3, <2>2, <2>3, Standing, StaysTyped DEF Review, papers
<1>4. CASE DetectCrashes
  <2>1. rows' \in [Slugs -> Row]
    BY <1>4, Standing, RowsTyped DEF DetectCrashes
  <2>2. notices' \in Seq(Kinds) /\ IsInjective(notices')
    BY <1>2, <1>4, Standing DEF DetectCrashes
  <2>3. QED
    BY <1>1, <1>4, <2>1, <2>2, Standing, StaysTyped DEF DetectCrashes, Stages
<1>5. CASE Surface
  <2>1. rows' \in [Slugs -> Row]
    BY <1>5, Standing DEF Surface, Row
  <2>2. QED
    BY <1>1, <1>5, <2>1, Standing, StaysTyped DEF Surface, papers, Stages
<1>6. CASE DetectChanges
  <2>1. PICK stage \in {"planning", "auditing", "reviewing"}, new \in SUBSET Slugs :
          session' = [session EXCEPT !.todo = new, !.stage = stage]
    <3>1. {s \in Active : Changes(s) = "NEW_ACTIVITY"} \in SUBSET Slugs
      BY DEF Active
    <3>2. QED
      BY <1>6, <3>1 DEF DetectChanges
  <2>2. /\ session' \in Sessions /\ session'.kind = session.kind
        /\ session'.run = session.run /\ session'.stage # "drafting"
    BY <2>1, Standing DEF Sessions, Stages
  <2>3. QED
    BY <1>6, <2>2, Standing, StaysTyped DEF DetectChanges, papers
<1>7. CASE ReviewDraft
  <2>1. notices' \in Seq(Kinds) /\ IsInjective(notices')
    BY <1>7, Standing, NotedTyped DEF ReviewDraft, TellOfDrafts, Kinds
  <2>2. QED
    BY <1>1, <1>7, <2>1, Standing, StaysTyped DEF ReviewDraft, TellOfDrafts, Stages
<1>8. CASE Plan
  <2>1. notices' \in Seq(Kinds) /\ IsInjective(notices')
    BY <1>2, <1>8, Standing DEF Plan
  <2>2. QED
    BY <1>1, <1>8, <2>1, Standing, StaysTyped DEF Plan, Stages
<1>9. CASE Audit
  <2>1. rows' \in [Slugs -> Row]
    BY <1>9, Standing, RowsTyped DEF Audit
  <2>2. notices' \in Seq(Kinds) /\ IsInjective(notices')
    BY <1>2, <1>9, Standing DEF Audit
  <2>3. QED
    BY <1>1, <1>9, <2>1, <2>2, Standing, StaysTyped DEF Audit, Stages
<1>10. CASE Prune
  <2>1. install' \in {"file", "both", "archive"}
    BY <1>10, Standing DEF Prune
  <2>2. UNCHANGED session \/ To("closing")
    BY <1>10 DEF Prune
  <2>3. /\ session' \in Sessions /\ session'.kind = session.kind
        /\ session'.run = session.run /\ session'.stage # "drafting"
    BY <1>1, <1>10, <2>2, Standing DEF Prune, At, Stages
  <2>4. QED
    BY <1>10, <2>1, <2>3, Standing, StaysTyped DEF Prune
<1>11. QED
  BY <1>3, <1>4, <1>5, <1>6, <1>7, <1>8, <1>9, <1>10

(* The owner writes beside any session.                                     *)
LEMMA OwnerTyped ==
  ASSUME Typed, Owner
  PROVE  Typed'
<1>1. ASSUME UNCHANGED <<day, install, reviews, trail, session, crashes>>,
             rows' \in [Slugs -> Row], notices' \in Seq(Kinds), IsInjective(notices'),
             drafts' \in SUBSET drafts
      PROVE  Typed'
  <2>1. SessionInv' /\ DraftInv'
    BY <1>1 DEF Typed, SessionInv, DraftInv, At
  <2>2. Cardinality(drafts') <= 1
    BY <1>1, OneDraft, Standing
  <2>3. QED
    BY <1>1, <2>1, <2>2, Standing DEF Typed, TypeOK, trail
<1>2. CASE Guide
  <2>1. notices' \in Seq(Kinds) /\ IsInjective(notices')
    BY <1>2, Standing, NotedTyped DEF Guide, Kinds
  <2>2. QED
    BY <1>1, <1>2, <2>1, Standing DEF Guide
<1>3. ASSUME NEW k \in Kinds, Resolve(k) PROVE Typed'
  <2>1. notices' \in Seq(Kinds) /\ IsInjective(notices')
    BY <1>3, Standing, DoneTyped DEF Resolve
  <2>2. QED
    BY <1>1, <1>3, <2>1, Standing DEF Resolve
<1>4. ASSUME NEW s \in Slugs, Decide(s) PROVE Typed'
  <2>1. rows' \in [Slugs -> Row]
    BY ZenonT(30), <1>4, Standing DEF Decide, Row, Status
  <2>2. QED
    BY <1>1, <1>4, <2>1, Standing DEF Decide, papers
<1>5. ASSUME NEW s \in Slugs, Switch(s) PROVE Typed'
  <2>1. rows' \in [Slugs -> Row]
    BY <1>5, Standing DEF Switch, Row, Status
  <2>2. QED
    BY <1>1, <1>5, <2>1, Standing DEF Switch, papers
<1>6. QED
  BY <1>2, <1>3, <1>4, <1>5 DEF Owner

-----------------------------------------------------------------------------
(* WHAT THE COMMANDS SAY                                                    *)

(* The rows of a run get more, in the order that the prompts say.           *)
LEMMA RunsStep ==
  ASSUME Typed, RunsInv, [Next]_vars
  PROVE  RunsInv'
<1> USE DEF Typed
<1>1. WellLogged(Fresh)
  BY DEF WellLogged, Fresh
<1>2. ASSUME session'.run = session.run, UNCHANGED trail PROVE RunsInv'
  BY <1>2 DEF RunsInv, WellLogged, trail
<1>3. ASSUME NEW kind \in {"worker", "manager"}, NEW steps \in SUBSET {"T0"},
             Begin(kind, steps), kind = "worker" => steps = {"T0"}, crashes' = crashes
      PROVE  RunsInv'
  <2>1. open' = Fresh /\ left' = left
    BY <1>3, BeginTyped
  <2>2. PICK more \in SUBSET {"T0", "STARTUP"} :
          session'.run = [open EXCEPT !.steps = @ \cup more]
    BY <1>3, BeginTyped
  <2>3. session'.run.steps = open.steps \cup more
    BY <2>2 DEF TypeOK, Run
  <2>4. WellLogged(session.run)'
    BY <2>3 DEF RunsInv, WellLogged
  <2>5. QED
    BY <1>1, <2>1, <2>4 DEF RunsInv, WellLogged
<1>4. ASSUME NEW subject \in Slugs \cup Kinds, NEW stage, Checkpointed(subject, stage),
             session.kind = "worker", UNCHANGED trail
      PROVE  RunsInv'
  <2>1. PICK run \in Run :
           /\ run = Log("T4", IF subject \in Slugs THEN subject ELSE Notifications)
           /\ run.steps = session.run.steps \cup {"T4"}
    BY LogTyped DEF SessionInv
  <2>2. session'.run = run
    BY <1>4, <2>1 DEF Checkpointed, SessionInv, Sessions
  <2>3. QED
    BY <1>4, <2>1, <2>2 DEF RunsInv, WellLogged, SessionInv, trail
<1>5. CASE StartWorker
  BY <1>3, <1>5 DEF StartWorker
<1>6. CASE StartManager
  BY <1>3, <1>6 DEF StartManager
<1>7. ASSUME NEW s \in Slugs, Work(s) PROVE RunsInv'
  BY <1>4, <1>7 DEF Work, At
<1>8. CASE ActOnNotice
  <2>1. PICK kind \in Found : Checkpointed(kind, "noticed")
    BY <1>8 DEF ActOnNotice
  <2>2. kind \in Kinds
    BY Standing DEF Found
  <2>3. QED
    BY <1>4, <1>8, <2>1, <2>2 DEF ActOnNotice, At
<1>9. CASE Register
  <2>1. session'.run.steps = session.run.steps
    BY <1>9, Standing DEF Register, Sessions, Run
  <2>2. QED
    BY <1>9, <2>1 DEF Register, RunsInv, WellLogged, trail
<1>10. CASE LogClose
  BY <1>1, <1>10 DEF LogClose, RunsInv, WellLogged, trail, Idle
<1>11. CASE Crash
  BY <1>1, <1>11 DEF Crash, RunsInv, WellLogged, Idle
<1>12. CASE NextDay
  BY <1>1, <1>12 DEF NextDay, RunsInv, WellLogged
<1>13. CASE \/ RecordPass \/ EndPass \/ Triage \/ WriteDraft \/ AnnounceDraft
            \/ DetectCrashes \/ Surface \/ ReviewDraft \/ Plan \/ Audit
  <2>1. \E stage : To(stage)
    BY <1>13, Zenon DEF RecordPass, EndPass, Triage, WriteDraft, AnnounceDraft, TellOfDrafts,
       DetectCrashes, Surface, ReviewDraft, Plan, Audit
  <2>2. session'.run = session.run
    BY <2>1, Standing DEF To, Sessions
  <2>3. UNCHANGED trail
    BY <1>13 DEF RecordPass, EndPass, Triage, WriteDraft, AnnounceDraft, TellOfDrafts,
       DetectCrashes, Surface, ReviewDraft, Plan, Audit
  <2>4. QED
    BY <1>2, <2>2, <2>3
<1>14. CASE MarkDone \/ DetectChanges \/ (\E s \in Slugs : Review(s)) \/ Prune \/ Owner
            \/ UNCHANGED vars
  <2>1. session'.run = session.run
    BY <1>14, Standing DEF MarkDone, DetectChanges, Review, Prune, To, Owner, Guide, Resolve,
       Decide, Switch, vars, Sessions
  <2>2. UNCHANGED trail
    BY <1>14 DEF MarkDone, DetectChanges, Review, Prune, Owner, Guide, Resolve,
       Decide, Switch, vars
  <2>3. QED
    BY <1>2, <2>1, <2>2
<1>15. QED
  BY <1>5, <1>6, <1>7, <1>8, <1>9, <1>10, <1>11, <1>12, <1>13, <1>14 DEF Next, SessionStep

(* A pass is stamped with the day of now, and a review takes the pass with  *)
(* it; nobody else moves the stamps.                                       *)
LEMMA ReviewStep ==
  ASSUME Typed, ReviewInv, [Next]_vars
  PROVE  ReviewInv'
<1>1. ASSUME UNCHANGED <<reviews, unseen>>, day' >= day, day' \in 0 .. LastDay,
             \A s \in Slugs : rows'[s].pass = rows[s].pass
      PROVE  ReviewInv'
  BY <1>1, Standing, OversightAssumption DEF ReviewInv, Never
<1>2. ASSUME UNCHANGED <<reviews, unseen, day>>,
             \A s \in Slugs : rows'[s].pass = rows[s].pass
      PROVE  ReviewInv'
  BY <1>1, <1>2, Standing, OversightAssumption
<1>3. CASE RecordPass
  <2>1. \A s \in Slugs : /\ rows'[s].pass = IF s = session.subject THEN day ELSE rows[s].pass
                         /\ s \in unseen' => s \in unseen \/ s = session.subject
    BY <1>3, Standing DEF RecordPass, Row
  <2>2. UNCHANGED <<day, reviews>>
    BY <1>3 DEF RecordPass
  <2>3. QED
    BY <2>1, <2>2, Standing DEF ReviewInv
<1>4. ASSUME NEW s \in Slugs, Review(s) PROVE ReviewInv'
  <2>1. \A t \in Slugs : /\ reviews'[t] = IF t = s THEN day ELSE reviews[t]
                         /\ t \in unseen' => t \in unseen /\ t # s
    BY <1>4, Standing DEF Review
  <2>2. UNCHANGED <<day, rows>>
    BY <1>4 DEF Review
  <2>3. QED
    BY <2>1, <2>2, Standing DEF ReviewInv
<1>5. CASE NextDay
  BY <1>1, <1>5, EndsTyped, Standing DEF NextDay, Typed, TypeOK, history
<1>6. CASE EndPass \/ Surface \/ (\E s \in Slugs : Decide(s) \/ Switch(s))
  <2>1. \A s \in Slugs : rows'[s].pass = rows[s].pass
    <3>0. ASSUME NEW s \in Slugs, NEW t, NEW status
          PROVE  [rows EXCEPT ![t].status = status][s].pass = rows[s].pass
      <4>1. [rows[s] EXCEPT !.status = status].pass = rows[s].pass
        BY Standing DEF Row
      <4>2. QED
        BY <4>1, Standing
    <3>1. CASE EndPass
      <4>1. PICK t : t = session.subject
        OBVIOUS
      <4>2. rows' = rows \/ rows' = [rows EXCEPT ![t].status = "other"]
        BY <3>1, <4>1, Zenon DEF EndPass
      <4>3. \A s \in Slugs : [rows EXCEPT ![t].status = "other"][s].pass = rows[s].pass
        BY <3>0
      <4>4. QED
        BY <4>2, <4>3
    <3>2. CASE Surface
      BY <3>2, Standing DEF Surface, Row
    <3>3. CASE \E s \in Slugs : Decide(s) \/ Switch(s)
      <4>1. ASSUME NEW t \in Slugs, Decide(t) PROVE \A s \in Slugs : rows'[s].pass = rows[s].pass
        BY <3>0, <4>1 DEF Decide
      <4>2. ASSUME NEW t \in Slugs, Switch(t) PROVE \A s \in Slugs : rows'[s].pass = rows[s].pass
        BY <3>0, <4>2 DEF Switch
      <4>3. QED
        BY <3>3, <4>1, <4>2
    <3>4. QED
      BY <1>6, <3>1, <3>2, <3>3
  <2>2. QED
    BY <1>2, <1>6, <2>1 DEF EndPass, Surface, Decide, Switch, history
<1>7. CASE DetectCrashes \/ Audit
  BY <1>2, <1>7, Standing, RowsTyped DEF DetectCrashes, Audit, history
<1>8. CASE \/ StartWorker \/ StartManager \/ Register \/ LogClose \/ Crash
           \/ (\E s \in Slugs : Work(s)) \/ ActOnNotice \/ MarkDone \/ Triage \/ WriteDraft
           \/ AnnounceDraft \/ DetectChanges \/ ReviewDraft \/ Plan \/ Prune
           \/ Guide \/ (\E k \in Kinds : Resolve(k)) \/ UNCHANGED vars
  <2>1. UNCHANGED <<reviews, unseen, day, rows>>
    BY <1>8 DEF StartWorker, StartManager, Register, LogClose, Crash, Work, ActOnNotice, MarkDone,
       Triage, WriteDraft, AnnounceDraft, TellOfDrafts, DetectChanges, ReviewDraft, Plan, Prune,
       Guide, Resolve, vars, history
  <2>2. QED
    BY <1>2, <2>1
<1>9. QED
  BY <1>3, <1>4, <1>5, <1>6, <1>7, <1>8 DEF Next, SessionStep, Owner

(* The invariant holds, from the shipped workspace on.                      *)
THEOREM WatchInvariant == Spec => []WatchInv
<1>1. Init => WatchInv
  <2> SUFFICES ASSUME Init PROVE WatchInv
    OBVIOUS
  <2>1. TypeOK
    <3>1. /\ notices \in Seq(Kinds) /\ IsInjective(notices)
      BY DEF Init, IsInjective
    <3>2. Cardinality(drafts) <= 1
      BY OneDraft DEF Init
    <3>3. /\ rows \in [Slugs -> Row] /\ reviews \in [Slugs -> Never .. LastDay]
      BY OversightAssumption DEF Init, Row, Status, Never
    <3>4. Fresh \in Run
      BY DEF Fresh, Run
    <3>5. QED
      BY <3>1, <3>2, <3>3, <3>4, OversightAssumption DEF Init, TypeOK, Idle, Stages
  <2>2. SessionInv
    BY OversightAssumption DEF Init, SessionInv, Sessions, Idle, Fresh, Run, Stages
  <2>3. DraftInv /\ RunsInv /\ ReviewInv
    BY DEF Init, DraftInv, RunsInv, WellLogged, ReviewInv, Never, Idle, Fresh
  <2>4. QED
    BY <2>1, <2>2, <2>3 DEF WatchInv
<1>2. WatchInv /\ [Next]_vars => WatchInv'
  <2> SUFFICES ASSUME WatchInv, [Next]_vars PROVE WatchInv'
    OBVIOUS
  <2>1. Typed
    BY DEF WatchInv, Typed
  <2>2. CASE UNCHANGED vars
    <3>1. Typed'
      BY <2>1, <2>2, Standing DEF Typed, TypeOK, SessionInv, DraftInv, At,
         vars, papers, trail
    <3>2. QED
      BY <2>1, <3>1, RunsStep, ReviewStep DEF WatchInv, Typed
  <2>3. CASE Next
    <3>1. Typed'
      BY <2>1, <2>3, EndsTyped, WorkerTyped, ManagerTyped, OwnerTyped DEF Next, SessionStep
    <3>2. QED
      BY <2>1, <3>1, RunsStep, ReviewStep DEF WatchInv, Typed
  <2>4. QED
    BY <2>2, <2>3
<1>3. QED
  BY <1>1, <1>2, PTL DEF Spec

(* Files, sessions and runs keep their types, an entry of NOTIFICATIONS.md  *)
(* is there once, and idle-triage never makes a second draft.              *)
THEOREM TypeCorrect == Spec => []TypeOK
<1>1. WatchInv => TypeOK
  BY DEF WatchInv
<1>2. QED
  BY <1>1, WatchInvariant, PTL

(* What change-detect, crash-detect and audit-spine tell a manager is so:   *)
(* a project is CURRENT only when its last pass was looked at, and the two  *)
(* call the same runs crashed, save those that died between the two rows   *)
(* of session_close.                                                       *)
THEOREM CommandsTellTruth == Spec => []RecordsTrue
<1>1. WatchInv => RecordsTrue
  <2> SUFFICES ASSUME WatchInv PROVE RecordsTrue
    OBVIOUS
  <2>1. Typed
    BY DEF WatchInv, Typed
  <2>2. ASSUME NEW s \in Slugs, Changes(s) = "CURRENT" PROVE s \notin unseen
    <3>1. reviews[s] # Never /\ ~(rows[s].pass >= reviews[s])
      BY <2>2 DEF Changes
    <3>2. QED
      BY <3>1 DEF WatchInv, ReviewInv
  <2>3. ASSUME NEW r \in Runs PROVE WellLogged(r)
    BY DEF Runs, WatchInv, RunsInv
  <2>4. QED
    BY <2>2, <2>3 DEF RecordsTrue, Detected, Spine, WellLogged
<1>2. QED
  BY <1>1, WatchInvariant, PTL
==============================================================================
