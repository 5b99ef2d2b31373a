----------------------------- MODULE SessionLock -----------------------------
(***************************************************************************)
(* The session lock of a NightClaw workspace.                              *)
(*                                                                         *)
(* Sessions are fired by a scheduler (worker, manager) or by the operator  *)
(* (manual).  They share no memory: what serialises them is LOCK.md, and   *)
(* what tells a dead session from a live one is the clock, the session     *)
(* registry and the audit log.  The module follows a session from STARTUP  *)
(* to T9 (CRON-WORKER-PROMPT.md and CRON-MANAGER-PROMPT.md are the scripts *)
(* a session executes) and the commands it runs on the way: crash-recover, *)
(* check-lock, next-run-id, lock-acquire, lock-release, crash-detect and   *)
(* bundle-exec session_close.  Every command that reads and writes LOCK.md *)
(* in one process is one step; a session may be anywhere between two       *)
(* commands when another session runs one of its own.                      *)
(***************************************************************************)
EXTENDS Integers, FiniteSets

CONSTANTS
    Sessions,           \* firings of the scheduled tasks, and manual runs
    NoSession,          \* not a session
    Kind,               \* Kind[s] is "worker", "manager" or "manual"
    RecoverMinMinutes,  \* audit.py: 10, crash-recover leaves younger locks alone
    LeaseMinutes,       \* the prompts: 20, expires_at = locked_at + lease
    StaleMinutes,       \* check-lock.py: 25, the orphan guard
    ManualLeases,       \* leases an operator passes to lock-acquire
    PassLimit,          \* the longest a live session keeps the lock, in minutes
    Staggered,          \* no session starts while another claims or closes
    MaxClock            \* bound: the clock stops here when no lock is active

Kinds == {"worker", "manager", "manual"}

ASSUME SessionAssumption ==
    /\ NoSession \notin Sessions
    /\ Kind \in [Sessions -> Kinds]

ASSUME TimeAssumption ==
    /\ RecoverMinMinutes \in Nat \ {0}
    /\ LeaseMinutes \in Nat /\ RecoverMinMinutes <= LeaseMinutes
    /\ StaleMinutes \in Nat /\ LeaseMinutes <= StaleMinutes
    /\ ManualLeases \subseteq Nat /\ \A d \in ManualLeases : d >= LeaseMinutes
    /\ PassLimit \in Nat /\ MaxClock \in Nat
    /\ Staggered \in BOOLEAN

VARIABLES
    clock,      \* minutes
    lock,       \* LOCK.md
    registry,   \* audit/SESSION-REGISTRY.md
    auditLog,   \* audit/AUDIT-LOG.md: the entries of steps T1 and later
    reports,    \* runs some manager's crash-detect printed as CRASH
    pc,         \* how far each session is in its script
    run,        \* the run_id next-run-id gave a session
    claim,      \* the failure count a session is about to write
    closeStep,  \* the next LOCK.md field session_close writes
    owner,      \* history: whose acquisition LOCK.md records
    since       \* history: when a session wrote its acquisition

vars == <<clock, lock, registry, auditLog, reports, pc, run, claim,
          closeStep, owner, since>>

-----------------------------------------------------------------------------
(* LOCK.md.  The dash that marks a cleared field is NoRun, NoTime or       *)
(* "none"; the unconfirmed id of STARTUP step 1 is Tentative: it is not a  *)
(* sentinel for check-lock.py and no audit entry beyond STARTUP bears it.  *)

NoRun     == 0
Tentative == -1
NoTime    == -1

Lock == [status : {"locked", "released"},
         holder : Kinds \cup {"none"},
         run_id : Nat \cup {Tentative},
         locked_at : Nat \cup {NoTime},
         expires_at : Nat \cup {NoTime},
         cpf : Nat]      \* consecutive_pass_failures

ReleasedLock ==
    [status |-> "released", holder |-> "none", run_id |-> NoRun,
     locked_at |-> NoTime, expires_at |-> NoTime, cpf |-> 0]

(* Mutant: the lease is not added to the time of acquisition.              *)
HeldLockNoLease(kind, id, lease, failures) ==
    [status |-> "locked", holder |-> kind, run_id |-> id,
     locked_at |-> clock, expires_at |-> clock, cpf |-> failures]

HeldLock(kind, id, lease, failures) ==
    [status |-> "locked", holder |-> kind, run_id |-> id,
     locked_at |-> clock, expires_at |-> clock + lease, cpf |-> failures]

-----------------------------------------------------------------------------
(* What the commands compute from the files.                               *)

(* check-lock.py answers DEFER exactly for such a lock: complete, not      *)
(* expired, not older than the orphan guard.                               *)
LockActive ==
    /\ lock.status = "locked"
    /\ lock.expires_at # NoTime /\ lock.locked_at # NoTime
    /\ lock.run_id # NoRun /\ lock.holder # "none"
    /\ clock <= lock.expires_at
    /\ clock - lock.locked_at <= StaleMinutes

(* The failure count a session takes from check-lock's answer PROCEED: one *)
(* more than that of a stale lock, none for a released one.                *)
ClaimedFailuresAlways == lock.cpf + 1   \* mutant: a released lock counts too

ClaimedFailures == IF lock.status = "locked" THEN lock.cpf + 1 ELSE 0

(* Mutant: the expiry is compared the wrong way round.                     *)
AcquireDeniedInverted ==
    /\ lock.status = "locked"
    /\ lock.expires_at # NoTime
    /\ clock > lock.expires_at

(* lock-acquire is denied: locked, with a parseable expiry still ahead.    *)
AcquireDenied ==
    /\ lock.status = "locked"
    /\ lock.expires_at # NoTime
    /\ clock < lock.expires_at

RegisteredRuns == {e.run : e \in registry}
StartedRuns    == {e.run : e \in auditLog}
CheckpointRuns == {e.run : e \in {x \in auditLog : x.step = "T4"}}

(* crash-recover: the run of the lock left entries of T1 or later, is not  *)
(* registered, and the lock is old enough.                                 *)
Recoverable ==
    /\ lock.status = "locked"
    /\ lock.run_id # NoRun
    /\ lock.locked_at # NoTime
    /\ clock - lock.locked_at >= RecoverMinMinutes
    /\ lock.run_id \in StartedRuns
    /\ lock.run_id \notin RegisteredRuns

(* crash-detect: a T4 CHECKPOINT with no entry in the registry.            *)
CrashedRuns == CheckpointRuns \ RegisteredRuns

(* Mutants: the highest id itself; no id on the first run of the day.      *)
NextRunIdsRepeated ==
    {n \in RegisteredRuns \cup {NoRun + 1} : \A r \in RegisteredRuns : r <= n}

NextRunIdsNoFirst == {n \in {r + 1 : r \in RegisteredRuns} :
                         \A r \in RegisteredRuns : r < n}

(* next-run-id: the id after the highest one in the registry, 1 on the     *)
(* first run of the day.                                                   *)
NextRunIds == {n \in {r + 1 : r \in RegisteredRuns \cup {NoRun}} :
                  \A r \in RegisteredRuns : r < n}

-----------------------------------------------------------------------------
(* Where a session is in its script.                                       *)

Stages == {"idle", "checked", "claiming", "locked", "numbered", "working",
           "reviewing", "passed", "manual", "closing", "registering",
           "logging", "closed", "unregistered", "released", "deferred",
           "crashed"}

Finished == {"closed", "unregistered", "released", "deferred", "crashed"}

(* The stages in which a session believes LOCK.md records its acquisition. *)
HoldingStages ==
    {"locked", "numbered", "working", "reviewing", "passed", "manual"}

Holding(s) == pc[s] \in HoldingStages

(* The seconds during which a scheduled session has read LOCK.md and not   *)
(* yet written it, or executes session_close.                              *)
WindowStages == {"claiming", "closing", "registering", "logging"}

(* With Staggered, no start falls into the window of another session.      *)
Quiet(s) == Staggered => \A t \in Sessions \ {s} : pc[t] \notin WindowStages

Live(s) == pc[s] \notin Finished /\ pc[s] # "idle"

Goto(s, stage) == pc' = [pc EXCEPT ![s] = stage]

-----------------------------------------------------------------------------
(* STARTUP                                                                 *)

(* Worker step 0.5: crash-recover, a single process that reads LOCK.md,    *)
(* the registry and the audit log and may overwrite LOCK.md.               *)
CrashRecover(s) ==
    /\ pc[s] = "idle" /\ Kind[s] = "worker"
    /\ Goto(s, "checked")
    /\ \/ /\ Recoverable
          /\ lock' = ReleasedLock
          /\ owner' = NoSession
       \/ /\ ~Recoverable
          /\ UNCHANGED <<lock, owner>>
    /\ UNCHANGED <<clock, registry, auditLog, reports, run, claim, closeStep,
                   since>>

(* Step 1: check-lock.py, which prints DEFER or PROCEED.                   *)
CheckLock(s) ==
    /\ \/ pc[s] = "checked"
       \/ pc[s] = "idle" /\ Kind[s] = "manager"
    /\ Quiet(s)
    /\ \/ /\ LockActive
          /\ Goto(s, "deferred")
          /\ UNCHANGED claim
       \/ /\ ~LockActive
          /\ Goto(s, "claiming")
          /\ claim' = [claim EXCEPT ![s] = ClaimedFailures]
    /\ UNCHANGED <<clock, lock, registry, auditLog, reports, run, closeStep,
                   owner, since>>

(* Step 1, continued: the session overwrites LOCK.md with what it decided  *)
(* from check-lock's answer; it does not read the file again.              *)
OverwriteLock(s) ==
    /\ pc[s] = "claiming"
    /\ lock' = HeldLock(Kind[s], Tentative, LeaseMinutes, claim[s])
    /\ owner' = s
    /\ since' = [since EXCEPT ![s] = clock]
    /\ claim' = [claim EXCEPT ![s] = 0]
    /\ Goto(s, "locked")
    /\ UNCHANGED <<clock, registry, auditLog, reports, run, closeStep>>

(* Step 4: next-run-id, then the run_id field of LOCK.md.                  *)
NumberRun(s) ==
    /\ pc[s] = "locked"
    /\ \E id \in NextRunIds : run' = [run EXCEPT ![s] = id]
    /\ Goto(s, "numbered")
    /\ UNCHANGED <<clock, lock, registry, auditLog, reports, claim, closeStep,
                   owner, since>>

ConfirmRun(s) ==
    /\ pc[s] = "numbered"
    /\ lock' = [lock EXCEPT !.run_id = run[s]]
    /\ Goto(s, "working")
    /\ UNCHANGED <<clock, registry, auditLog, reports, run, claim, closeStep,
                   owner, since>>

-----------------------------------------------------------------------------
(* THE PASS                                                                *)

(* Worker T4: the CHECKPOINT entry, written before anything is executed.   *)
Checkpoint(s) ==
    /\ pc[s] = "working" /\ Kind[s] = "worker"
    /\ auditLog' = auditLog \cup {[run |-> run[s], step |-> "T4", by |-> s]}
    /\ Goto(s, "passed")
    /\ UNCHANGED <<clock, lock, registry, reports, run, claim, closeStep,
                   owner, since>>

(* Manager T0: crash-detect prints every crashed run.                      *)
DetectCrashes(s) ==
    /\ pc[s] = "working" /\ Kind[s] = "manager"
    /\ reports' = reports \cup CrashedRuns
    /\ Goto(s, "reviewing")
    /\ UNCHANGED <<clock, lock, registry, auditLog, run, claim, closeStep,
                   owner, since>>

(* Manager T1: bundle-exec manifest_verify leaves an entry of step T1.     *)
VerifyManifest(s) ==
    /\ pc[s] = "reviewing"
    /\ auditLog' = auditLog \cup {[run |-> run[s], step |-> "T1", by |-> s]}
    /\ Goto(s, "passed")
    /\ UNCHANGED <<clock, lock, registry, reports, run, claim, closeStep,
                   owner, since>>

-----------------------------------------------------------------------------
(* T9: SESSION CLOSE                                                       *)

(* A worker may be idle (no checkpoint) and a manager may be told to defer *)
(* by timing-check: both still close.                                      *)
MayClose(s) == pc[s] \in {"working", "reviewing", "passed"}

(* Mutant: the dash goes into the failure count as well.                   *)
ClearFieldDashed(l, i) ==
    CASE i = 1 -> [l EXCEPT !.status = "released"]
      [] i = 2 -> [l EXCEPT !.run_id = NoRun]
      [] i = 3 -> [l EXCEPT !.holder = "none"]
      [] i = 4 -> [l EXCEPT !.locked_at = NoTime]
      [] i = 5 -> [l EXCEPT !.expires_at = NoTime]
      [] OTHER -> [l EXCEPT !.cpf = NoTime]

(* The fields in the order bundles.yaml lists them.  mutate_lock_field     *)
(* rewrites one line of the file and keeps whatever the others now say.    *)
ClearField(l, i) ==
    CASE i = 1 -> [l EXCEPT !.status = "released"]
      [] i = 2 -> [l EXCEPT !.run_id = NoRun]
      [] i = 3 -> [l EXCEPT !.holder = "none"]
      [] i = 4 -> [l EXCEPT !.locked_at = NoTime]
      [] i = 5 -> [l EXCEPT !.expires_at = NoTime]
      [] OTHER -> [l EXCEPT !.cpf = 0]

LastField == 6

(* One write of session_close to LOCK.md.                                  *)
CloseWrite(s) ==
    /\ MayClose(s) \/ pc[s] = "closing"
    /\ lock' = ClearField(lock, closeStep[s])
    /\ owner' = IF closeStep[s] = 1 THEN NoSession ELSE owner
    /\ IF closeStep[s] = LastField
       THEN Goto(s, "registering") /\ UNCHANGED closeStep
       ELSE /\ Goto(s, "closing")
            /\ closeStep' = [closeStep EXCEPT ![s] = @ + 1]
    /\ UNCHANGED <<clock, registry, auditLog, reports, run, claim, since>>

(* The appends of session_close, after its writes: the registry entry,     *)
(* then the T9 entry of the audit log.                                     *)
Register(s) ==
    /\ pc[s] = "registering"
    /\ registry' = registry \cup {[run |-> run[s], by |-> s]}
    /\ Goto(s, "logging")
    /\ UNCHANGED <<clock, lock, auditLog, reports, run, claim, closeStep,
                   owner, since>>

LogClose(s) ==
    /\ pc[s] = "logging"
    /\ auditLog' = auditLog \cup {[run |-> run[s], step |-> "T9", by |-> s]}
    /\ Goto(s, "closed")
    /\ UNCHANGED <<clock, lock, registry, reports, run, claim, closeStep,
                   owner, since>>

(* session_close refused by its guard (no session_entry): nothing was      *)
(* written, and the session releases LOCK.md by hand.                      *)
CloseByHand(s) ==
    /\ MayClose(s)
    /\ lock' = ReleasedLock
    /\ owner' = NoSession
    /\ Goto(s, "unregistered")
    /\ UNCHANGED <<clock, registry, auditLog, reports, run, claim, closeStep,
                   since>>

-----------------------------------------------------------------------------
(* THE OPERATOR'S COMMANDS                                                 *)

(* lock-acquire <holder> <run_id> <expires_at>: the failure count of the   *)
(* previous lock is kept as it is.                                         *)
LockAcquire(s) ==
    /\ pc[s] = "idle" /\ Kind[s] = "manual"
    /\ Quiet(s)
    /\ \/ /\ AcquireDenied
          /\ Goto(s, "deferred")
          /\ UNCHANGED <<lock, run, owner, since>>
       \/ /\ ~AcquireDenied
          /\ \E id \in NextRunIds, d \in ManualLeases :
                /\ lock' = HeldLock("manual", id, d, lock.cpf)
                /\ run' = [run EXCEPT ![s] = id]
          /\ owner' = s
          /\ since' = [since EXCEPT ![s] = clock]
          /\ Goto(s, "manual")
    /\ UNCHANGED <<clock, registry, auditLog, reports, claim, closeStep>>

(* lock-release [holder]: the argument is ignored; whoever holds the lock  *)
(* loses it.                                                               *)
LockRelease(s) ==
    /\ pc[s] = "manual"
    /\ Goto(s, "released")
    /\ \/ /\ lock.status = "locked"
          /\ lock' = ReleasedLock
          /\ owner' = NoSession
       \/ /\ lock.status # "locked"
          /\ UNCHANGED <<lock, owner>>
    /\ UNCHANGED <<clock, registry, auditLog, reports, run, claim, closeStep,
                   since>>

-----------------------------------------------------------------------------
(* THE ENVIRONMENT                                                         *)

(* The API, the host or the operator ends the session between two writes.  *)
Crash(s) ==
    /\ Live(s)
    /\ Goto(s, "crashed")
    /\ UNCHANGED <<clock, lock, registry, auditLog, reports, run, claim,
                   closeStep, owner, since>>

(* No live session keeps the lock longer than PassLimit.  MaxClock bounds  *)
(* the model and not the code; time runs on while a lock is active, so     *)
(* that the bound never keeps a lock from expiring.                        *)
Tick ==
    /\ clock < MaxClock \/ LockActive
    /\ \A s \in Sessions : Holding(s) => clock < since[s] + PassLimit
    /\ clock' = clock + 1
    /\ UNCHANGED <<lock, registry, auditLog, reports, pc, run, claim,
                   closeStep, owner, since>>

-----------------------------------------------------------------------------
Init ==
    /\ clock = 0
    /\ lock = ReleasedLock
    /\ registry = {}
    /\ auditLog = {}
    /\ reports = {}
    /\ pc = [s \in Sessions |-> "idle"]
    /\ run = [s \in Sessions |-> NoRun]
    /\ claim = [s \in Sessions |-> 0]
    /\ closeStep = [s \in Sessions |-> 1]
    /\ owner = NoSession
    /\ since = [s \in Sessions |-> 0]

(* What a session does when it is left to run.                             *)
Advance(s) ==
    \/ CrashRecover(s) \/ CheckLock(s) \/ OverwriteLock(s)
    \/ NumberRun(s) \/ ConfirmRun(s)
    \/ Checkpoint(s) \/ DetectCrashes(s) \/ VerifyManifest(s)
    \/ CloseWrite(s) \/ Register(s) \/ LogClose(s) \/ CloseByHand(s)
    \/ LockAcquire(s) \/ LockRelease(s)

Next == Tick \/ \E s \in Sessions : Advance(s) \/ Crash(s)

Spec == Init /\ [][Next]_vars

(* The clock runs, and the scheduler runs every session it fired to the    *)
(* end of its script, unless the session crashes.                          *)
FairSpec == Spec /\ WF_vars(Tick) /\ \A s \in Sessions : WF_vars(Advance(s))

-----------------------------------------------------------------------------
(* PROPERTIES                                                              *)

(* Types: every file and every session-local value stays in its domain.    *)
TypeOK ==
    /\ clock \in Nat
    /\ lock \in Lock
    /\ registry \subseteq [run : Nat, by : Sessions]
    /\ auditLog \subseteq [run : Nat, step : {"T1", "T4", "T9"}, by : Sessions]
    /\ reports \subseteq Nat
    /\ pc \in [Sessions -> Stages]
    /\ run \in [Sessions -> Nat]
    /\ claim \in [Sessions -> Nat]
    /\ closeStep \in [Sessions -> 1 .. LastField]
    /\ owner \in Sessions \cup {NoSession}
    /\ since \in [Sessions -> Nat]

(* The scheduling under which the lock is meant to work: starts do not     *)
(* fall into another session's claim or close, and a session is done with  *)
(* its pass before crash-recover may judge it.                             *)
Cadence == Staggered = TRUE /\ PassLimit < RecoverMinMinutes

(* LOCK.md "prevents concurrent cron overlap": no two sessions believe at  *)
(* the same time that they hold the workspace, through stale locks, crash  *)
(* recovery, manual runs and crashes anywhere in a session.                *)
MutualExclusion ==
    \A s, t \in Sessions : Holding(s) /\ Holding(t) => s = t

(* A session that is at work finds its own acquisition in LOCK.md: neither *)
(* crash-recover nor check-lock nor the late writes of another session's   *)
(* session_close have touched it, and everyone else is told to defer.      *)
HolderIsRecorded ==
    \A s \in Sessions : Holding(s) =>
        /\ owner = s /\ lock.holder = Kind[s]
        /\ lock.locked_at = since[s]
        /\ LockActive /\ ~Recoverable

(* No two sessions are registered under the same run_id, and a session at  *)
(* work has an id that no registry entry bears yet.                        *)
RunIdsUnique ==
    /\ \A d, e \in registry : d.run = e.run => d = e
    /\ \A s \in Sessions :
          pc[s] \in {"numbered", "working", "reviewing", "passed"} =>
              run[s] \notin RegisteredRuns

FailuresAreCrashes ==
    LET dead == Cardinality({s \in Sessions : pc[s] = "crashed"})
    IN  /\ lock.cpf <= dead
        /\ \A s \in Sessions : pc[s] = "claiming" => claim[s] <= dead

(* What is held for a crash is one.  The failure counter of LOCK.md, and    *)
(* the one a session is about to write, never count a session that is      *)
(* alive or closed; and when crash-detect reports a run, nobody who wrote  *)
(* that run's CHECKPOINT is still going to close.                          *)
CrashesAreReal ==
    [][/\ FailuresAreCrashes'
       /\ \A r \in reports' \ reports :
             \A e \in auditLog : e.run = r /\ e.step = "T4" => ~Live(e.by)]_vars

(* However sessions crash, the lock always opens again for the next one.   *)
LockReopens == []<>(~LockActive)
=============================================================================
