-------------------------- MODULE SessionLockProofs --------------------------
(***************************************************************************)
(* What TLC checks of SessionLock on small instances, for every set of     *)
(* sessions and every value of the time constants.                         *)
(***************************************************************************)
EXTENDS SessionLock, FiniteSetTheorems, TLAPS

(* LOCK.md, the registry, the audit log and the sessions' own values stay  *)
(* in their domains, with no assumption on the scheduling.                 *)
THEOREM TypeCorrect == Spec => []TypeOK
<1>1. Init => TypeOK
  BY SessionAssumption DEF Init, TypeOK, ReleasedLock, Lock, Stages, LastField,
     NoRun, NoTime
<1>2. TypeOK /\ [Next]_vars => TypeOK'
  <2> SUFFICES ASSUME TypeOK, [Next]_vars
               PROVE  TypeOK'
    OBVIOUS
  <2>1. CASE UNCHANGED vars
    BY <2>1 DEF TypeOK, vars
  <2>2. CASE Tick
    BY <2>2 DEF TypeOK, Tick
  <2>3. ASSUME NEW s \in Sessions, CrashRecover(s) PROVE TypeOK'
    BY <2>3 DEF TypeOK, CrashRecover, Goto, Stages, ReleasedLock, Lock, NoRun, NoTime
  <2>4. ASSUME NEW s \in Sessions, CheckLock(s) PROVE TypeOK'
    <3>1. lock.cpf \in Nat
      BY DEF TypeOK, Lock
    <3>2. QED
      BY <2>4, <3>1 DEF TypeOK, CheckLock, ClaimedFailures, Goto, Stages
  <2>5. ASSUME NEW s \in Sessions, OverwriteLock(s) PROVE TypeOK'
    <3>1. Kind[s] \in Kinds /\ claim[s] \in Nat
      BY SessionAssumption DEF TypeOK
    <3>2. clock \in Nat /\ clock + LeaseMinutes \in Nat
      BY TimeAssumption DEF TypeOK
    <3>3. lock' \in Lock
      BY <2>5, <3>1, <3>2 DEF OverwriteLock, HeldLock, Lock, Tentative
    <3>4. QED
      BY <2>5, <3>3 DEF TypeOK, OverwriteLock, Goto, Stages
  <2>6. ASSUME NEW s \in Sessions, NumberRun(s) PROVE TypeOK'
    <3>1. NextRunIds \subseteq Nat
      BY DEF TypeOK, NextRunIds, RegisteredRuns, NoRun
    <3>2. QED
      BY <2>6, <3>1 DEF TypeOK, NumberRun, Goto, Stages
  <2>7. ASSUME NEW s \in Sessions, ConfirmRun(s) PROVE TypeOK'
    BY <2>7 DEF TypeOK, ConfirmRun, Goto, Stages, Lock
  <2>8. ASSUME NEW s \in Sessions, Checkpoint(s) PROVE TypeOK'
    BY <2>8 DEF TypeOK, Checkpoint, Goto, Stages
  <2>9. ASSUME NEW s \in Sessions, DetectCrashes(s) PROVE TypeOK'
    <3>1. CrashedRuns \subseteq Nat
      BY DEF TypeOK, CrashedRuns, CheckpointRuns
    <3>2. QED
      BY <2>9, <3>1 DEF TypeOK, DetectCrashes, Goto, Stages
  <2>10. ASSUME NEW s \in Sessions, VerifyManifest(s) PROVE TypeOK'
    BY <2>10 DEF TypeOK, VerifyManifest, Goto, Stages
  <2>11. ASSUME NEW s \in Sessions, CloseWrite(s) PROVE TypeOK'
    <3>1. lock' \in Lock
      BY <2>11 DEF TypeOK, CloseWrite, ClearField, Lock, NoRun, NoTime
    <3>2. closeStep' \in [Sessions -> 1 .. LastField]
      BY <2>11 DEF TypeOK, CloseWrite, LastField
    <3>3. pc' \in [Sessions -> Stages]
      BY <2>11 DEF TypeOK, CloseWrite, Goto, Stages
    <3>4. QED
      BY <2>11, <3>1, <3>2, <3>3 DEF TypeOK, CloseWrite
  <2>12. ASSUME NEW s \in Sessions, Register(s) PROVE TypeOK'
    BY <2>12 DEF TypeOK, Register, Goto, Stages
  <2>13. ASSUME NEW s \in Sessions, LogClose(s) PROVE TypeOK'
    BY <2>13 DEF TypeOK, LogClose, Goto, Stages
  <2>14. ASSUME NEW s \in Sessions, CloseByHand(s) PROVE TypeOK'
    BY <2>14 DEF TypeOK, CloseByHand, Goto, Stages, ReleasedLock, Lock, NoRun, NoTime
  <2>15. ASSUME NEW s \in Sessions, LockAcquire(s) PROVE TypeOK'
    <3>1. NextRunIds \subseteq Nat
      BY DEF TypeOK, NextRunIds, RegisteredRuns, NoRun
    <3>2. lock' \in Lock /\ run' \in [Sessions -> Nat]
      BY <2>15, <3>1, TimeAssumption
      DEF TypeOK, LockAcquire, HeldLock, Lock, Kinds
    <3>3. QED
      BY <2>15, <3>2 DEF TypeOK, LockAcquire, Goto, Stages
  <2>16. ASSUME NEW s \in Sessions, LockRelease(s) PROVE TypeOK'
    BY <2>16 DEF TypeOK, LockRelease, Goto, Stages, ReleasedLock, Lock, NoRun, NoTime
  <2>17. ASSUME NEW s \in Sessions, Crash(s) PROVE TypeOK'
    BY <2>17 DEF TypeOK, Crash, Goto, Stages
  <2>18. QED
    BY <2>1, <2>2, <2>3, <2>4, <2>5, <2>6, <2>7, <2>8, <2>9, <2>10, <2>11,
       <2>12, <2>13, <2>14, <2>15, <2>16, <2>17 DEF Next, Advance
<1>3. QED
  BY <1>1, <1>2, PTL DEF Spec

-----------------------------------------------------------------------------
(* MUTUAL EXCLUSION UNDER THE CADENCE                                      *)
(*                                                                         *)
(* MutualExclusion is not inductive: a session that has been told PROCEED  *)
(* and one that still executes session_close will both write LOCK.md       *)
(* without looking at it again.  The invariant therefore speaks of every   *)
(* session that may still write LOCK.md, and of what LOCK.md says while    *)
(* one of them is at work: recorded, younger than RecoverMinMinutes, and   *)
(* leased for longer.                                                      *)

Busy(s) == pc[s] \in HoldingStages \cup WindowStages

OneBusy == \A s, t \in Sessions : Busy(s) /\ Busy(t) => s = t

Recorded ==
    \A s \in Sessions : Holding(s) =>
        /\ owner = s
        /\ lock.status = "locked"
        /\ lock.holder = Kind[s]
        /\ lock.run_id # NoRun
        /\ lock.locked_at = since[s]
        /\ lock.expires_at >= since[s] + RecoverMinMinutes
        /\ clock >= since[s]
        /\ clock <= since[s] + PassLimit

HasRun == {"numbered", "working", "reviewing", "passed"}

Numbered == \A s \in Sessions : pc[s] \in HasRun => run[s] >= 1

CloseOrder ==
    \A s \in Sessions :
        /\ pc[s] \in {"idle", "checked", "claiming"} \cup HoldingStages =>
              closeStep[s] = 1
        /\ pc[s] = "closing" => closeStep[s] > 1

LockInv == OneBusy /\ Recorded /\ Numbered /\ CloseOrder

(* While a session is at work, everyone who reads LOCK.md leaves it alone: *)
(* crash-recover finds it too fresh, check-lock and lock-acquire active.   *)
LEMMA HolderIsSafe ==
  ASSUME Cadence, TypeOK, LockInv, NEW s \in Sessions, Holding(s)
  PROVE  LockActive /\ AcquireDenied /\ ~Recoverable
<1>1. /\ lock.status = "locked" /\ lock.holder = Kind[s] /\ lock.run_id # NoRun
      /\ lock.locked_at = since[s]
      /\ lock.expires_at >= since[s] + RecoverMinMinutes
      /\ clock >= since[s] /\ clock <= since[s] + PassLimit
  BY DEF LockInv, Recorded
<1>2. since[s] \in Nat /\ clock \in Nat /\ lock.expires_at \in Nat \cup {NoTime}
  BY DEF TypeOK, Lock
<1>3. /\ PassLimit \in Nat /\ RecoverMinMinutes \in Nat /\ StaleMinutes \in Nat
      /\ PassLimit < RecoverMinMinutes /\ RecoverMinMinutes <= StaleMinutes
  BY TimeAssumption DEF Cadence
<1>4. Kind[s] # "none"
  BY SessionAssumption DEF Kinds
<1>5. LockActive
  BY <1>1, <1>2, <1>3, <1>4 DEF LockActive, NoTime
<1>6. AcquireDenied
  BY <1>1, <1>2, <1>3 DEF AcquireDenied, NoTime
<1>7. ~Recoverable
  BY <1>1, <1>2, <1>3 DEF Recoverable, NoTime
<1>8. QED
  BY <1>5, <1>6, <1>7

(* A session leaves its stage for one in which it writes LOCK.md no more.  *)
LEMMA LeavingKeepsInv ==
  ASSUME TypeOK, LockInv, NEW s \in Sessions,
         NEW stage \in {"registering", "logging", "closed", "unregistered",
                        "released", "deferred", "crashed"},
         Goto(s, stage), Busy(s) \/ stage \notin WindowStages,
         UNCHANGED <<clock, run, since>>,
         closeStep' = [closeStep EXCEPT ![s] = closeStep'[s]],
         \/ UNCHANGED <<lock, owner>>
         \/ Busy(s)
  PROVE  LockInv'
<1>1. pc' = [pc EXCEPT ![s] = stage] /\ pc \in [Sessions -> Stages]
  BY DEF Goto, TypeOK
<1>2. \A t \in Sessions : t # s => pc'[t] = pc[t] /\ closeStep'[t] = closeStep[t]
  BY <1>1 DEF TypeOK
<1>3. pc'[s] = stage
  BY <1>1
<1>4. OneBusy'
  BY <1>2, <1>3 DEF LockInv, OneBusy, Busy, HoldingStages, WindowStages
<1>5. Recorded'
  <2> SUFFICES ASSUME NEW t \in Sessions, Holding(t)'
               PROVE  /\ owner' = t
                      /\ lock'.status = "locked"
                      /\ lock'.holder = Kind[t]
                      /\ lock'.run_id # NoRun
                      /\ lock'.locked_at = since'[t]
                      /\ lock'.expires_at >= since'[t] + RecoverMinMinutes
                      /\ clock' >= since'[t]
                      /\ clock' <= since'[t] + PassLimit
    BY DEF Recorded
  <2>1. t # s /\ Holding(t)
    BY <1>2, <1>3 DEF Holding, HoldingStages
  <2>2. ~Busy(s)
    BY <2>1 DEF LockInv, OneBusy, Busy, Holding
  <2>3. UNCHANGED <<lock, owner>>
    BY <2>2
  <2>4. QED
    BY <2>1, <2>3 DEF LockInv, Recorded
<1>6. Numbered' /\ CloseOrder'
  BY <1>2, <1>3 DEF LockInv, Numbered, CloseOrder, HasRun, HoldingStages
<1>7. QED
  BY <1>4, <1>5, <1>6 DEF LockInv

(* A session moves on within the stages in which it is at work, and        *)
(* LOCK.md is as it was but for the confirmed run_id.                      *)
LEMMA WorkingKeepsInv ==
  ASSUME TypeOK, LockInv, NEW s \in Sessions, Holding(s),
         NEW stage \in HoldingStages, Goto(s, stage),
         lock' = lock \/ lock' = [lock EXCEPT !.run_id = run[s]],
         lock' = lock \/ run[s] # NoRun,
         stage \in HasRun => run'[s] >= 1,
         \A t \in Sessions \ {s} : run'[t] = run[t],
         UNCHANGED <<clock, owner, since, closeStep>>
  PROVE  LockInv'
<1>1. pc' = [pc EXCEPT ![s] = stage] /\ pc \in [Sessions -> Stages]
  BY DEF Goto, TypeOK
<1>2. (\A t \in Sessions : t # s => pc'[t] = pc[t]) /\ pc'[s] = stage
  BY <1>1
<1>3. OneBusy'
  BY <1>2 DEF LockInv, OneBusy, Busy, Holding, HoldingStages, WindowStages
<1>4. Recorded'
  <2>1. /\ lock'.status = lock.status /\ lock'.holder = lock.holder
        /\ lock'.locked_at = lock.locked_at /\ lock'.expires_at = lock.expires_at
        /\ lock.run_id # NoRun => lock'.run_id # NoRun
    BY DEF TypeOK, Lock
  <2>2. \A t \in Sessions : Holding(t)' => Holding(t)
    BY <1>2 DEF Holding
  <2>3. QED
    BY <2>1, <2>2 DEF LockInv, Recorded
<1>5. Numbered'
  BY <1>2 DEF LockInv, Numbered, HasRun
<1>6. CloseOrder'
  BY <1>2 DEF LockInv, CloseOrder, Holding, HoldingStages
<1>7. QED
  BY <1>3, <1>4, <1>5, <1>6 DEF LockInv

(* A session that was not at work acquires LOCK.md.                        *)
LEMMA AcquiringKeepsInv ==
  ASSUME TypeOK, LockInv, NEW s \in Sessions,
         \A t \in Sessions \ {s} : ~Busy(t),
         NEW stage \in {"locked", "manual"}, Goto(s, stage),
         closeStep[s] = 1, closeStep' = closeStep,
         NEW id \in (Nat \cup {Tentative}) \ {NoRun}, NEW lease \in Nat,
         RecoverMinMinutes <= lease, NEW failures,
         lock' = HeldLock(Kind[s], id, lease, failures),
         owner' = s, since' = [since EXCEPT ![s] = clock], clock' = clock,
         \A t \in Sessions \ {s} : run'[t] = run[t]
  PROVE  LockInv'
<1>1. pc' = [pc EXCEPT ![s] = stage] /\ pc \in [Sessions -> Stages]
  BY DEF Goto, TypeOK
<1>2. (\A t \in Sessions : t # s => pc'[t] = pc[t]) /\ pc'[s] = stage
  BY <1>1
<1>3. OneBusy'
  BY <1>2 DEF OneBusy, Busy, HoldingStages, WindowStages
<1>4. Recorded'
  <2> SUFFICES ASSUME NEW t \in Sessions, Holding(t)'
               PROVE  /\ owner' = t
                      /\ lock'.status = "locked"
                      /\ lock'.holder = Kind[t]
                      /\ lock'.run_id # NoRun
                      /\ lock'.locked_at = since'[t]
                      /\ lock'.expires_at >= since'[t] + RecoverMinMinutes
                      /\ clock' >= since'[t]
                      /\ clock' <= since'[t] + PassLimit
    BY DEF Recorded
  <2>1. t = s
    BY <1>2 DEF Holding, Busy
  <2>2. since'[s] = clock /\ clock \in Nat
    BY DEF TypeOK
  <2>3. lock' = [status |-> "locked", holder |-> Kind[s], run_id |-> id,
                 locked_at |-> clock, expires_at |-> clock + lease,
                 cpf |-> failures]
    BY DEF HeldLock
  <2>4. QED
    BY <2>1, <2>2, <2>3, TimeAssumption
<1>5. Numbered' /\ CloseOrder'
  BY <1>2 DEF LockInv, Numbered, CloseOrder, HasRun, HoldingStages
<1>6. QED
  BY <1>3, <1>4, <1>5 DEF LockInv

(* Under the cadence every step keeps the invariant.                       *)
LEMMA LockInvStep ==
  ASSUME Cadence, TypeOK, LockInv, [Next]_vars
  PROVE  LockInv'
<1>1. CASE UNCHANGED vars
  BY <1>1 DEF LockInv, OneBusy, Recorded, Numbered, CloseOrder, Busy, Holding, vars
<1>2. CASE Tick
  <2>1. OneBusy' /\ Numbered' /\ CloseOrder'
    BY <1>2 DEF Tick, LockInv, OneBusy, Numbered, CloseOrder, Busy
  <2>2. Recorded'
    BY <1>2, TimeAssumption DEF Tick, LockInv, Recorded, Holding, TypeOK
  <2>3. QED
    BY <2>1, <2>2 DEF LockInv
<1>3. ASSUME NEW s \in Sessions, CrashRecover(s) PROVE LockInv'
  <2>1. /\ pc' = [pc EXCEPT ![s] = "checked"] /\ pc[s] = "idle"
        /\ UNCHANGED <<clock, run, since, closeStep>>
    BY <1>3 DEF CrashRecover, Goto
  <2>2. (\A t \in Sessions : t # s => pc'[t] = pc[t]) /\ pc'[s] = "checked"
    BY <2>1 DEF TypeOK
  <2>3. \A t \in Sessions : Holding(t)' => Holding(t)
    BY <2>2 DEF Holding, HoldingStages
  <2>4. ASSUME NEW t \in Sessions, Holding(t)' PROVE UNCHANGED <<lock, owner>>
    BY <1>3, <2>3, <2>4, HolderIsSafe DEF CrashRecover
  <2>5. Recorded'
    BY <2>1, <2>3, <2>4 DEF LockInv, Recorded
  <2>6. OneBusy' /\ Numbered' /\ CloseOrder'
    BY <2>1, <2>2 DEF LockInv, OneBusy, Busy, Numbered, CloseOrder, HasRun,
       HoldingStages, WindowStages
  <2>7. QED
    BY <2>5, <2>6 DEF LockInv
<1>4. ASSUME NEW s \in Sessions, CheckLock(s) PROVE LockInv'
  <2>1. CASE LockActive
    BY <1>4, <2>1, LeavingKeepsInv DEF CheckLock, TypeOK, WindowStages
  <2>2. CASE ~LockActive
    <3>1. /\ pc' = [pc EXCEPT ![s] = "claiming"] /\ pc[s] \in {"checked", "idle"}
          /\ UNCHANGED <<clock, lock, owner, run, since, closeStep>>
      BY <1>4, <2>2 DEF CheckLock, Goto
    <3>2. (\A t \in Sessions : t # s => pc'[t] = pc[t]) /\ pc'[s] = "claiming"
      BY <3>1 DEF TypeOK
    <3>3. \A t \in Sessions \ {s} : ~Busy(t)
      BY <1>4, <2>2, HolderIsSafe DEF CheckLock, Quiet, Cadence, Busy, Holding
    <3>4. OneBusy'
      BY <3>2, <3>3 DEF OneBusy, Busy
    <3>5. Recorded'
      BY <3>1, <3>2 DEF LockInv, Recorded, Holding, HoldingStages
    <3>6. Numbered' /\ CloseOrder'
      BY <3>1, <3>2 DEF LockInv, Numbered, CloseOrder, HasRun, HoldingStages
    <3>7. QED
      BY <3>4, <3>5, <3>6 DEF LockInv
  <2>3. QED
    BY <2>1, <2>2
<1>5. ASSUME NEW s \in Sessions, OverwriteLock(s) PROVE LockInv'
  <2>1. Busy(s) /\ \A t \in Sessions \ {s} : ~Busy(t)
    BY <1>5 DEF OverwriteLock, Busy, WindowStages, LockInv, OneBusy
  <2>2. closeStep[s] = 1
    BY <1>5 DEF OverwriteLock, LockInv, CloseOrder
  <2>3. Tentative \in (Nat \cup {Tentative}) \ {NoRun}
    BY DEF Tentative, NoRun
  <2>4. QED
    BY <1>5, <2>1, <2>2, <2>3, AcquiringKeepsInv, TimeAssumption DEF OverwriteLock
<1>6. ASSUME NEW s \in Sessions, NumberRun(s) PROVE LockInv'
  <2>1. PICK id \in NextRunIds : run' = [run EXCEPT ![s] = id]
    BY <1>6 DEF NumberRun
  <2>2. id >= 1
    BY DEF NextRunIds, RegisteredRuns, TypeOK, NoRun
  <2>3. /\ run'[s] >= 1
        /\ \A t \in Sessions \ {s} : run'[t] = run[t]
    BY <2>1, <2>2 DEF TypeOK
  <2>4. Holding(s) /\ "numbered" \in HoldingStages
    BY <1>6 DEF NumberRun, Holding, HoldingStages
  <2>5. QED
    BY <1>6, <2>3, <2>4, WorkingKeepsInv DEF NumberRun
<1>7. ASSUME NEW s \in Sessions, ConfirmRun(s) PROVE LockInv'
  <2>1. Holding(s) /\ "working" \in HoldingStages
    BY <1>7 DEF ConfirmRun, Holding, HoldingStages
  <2>2. run[s] >= 1 /\ run[s] # NoRun
    BY <1>7 DEF ConfirmRun, LockInv, Numbered, HasRun, NoRun, TypeOK
  <2>3. QED
    BY <1>7, <2>1, <2>2, WorkingKeepsInv DEF ConfirmRun
<1>8. ASSUME NEW s \in Sessions,
             Checkpoint(s) \/ DetectCrashes(s) \/ VerifyManifest(s)
      PROVE  LockInv'
  <2>1. PICK stage \in {"passed", "reviewing"} : Goto(s, stage)
    BY <1>8 DEF Checkpoint, DetectCrashes, VerifyManifest
  <2>2. /\ pc[s] \in {"working", "reviewing"}
        /\ UNCHANGED <<clock, lock, owner, since, closeStep, run>>
    BY <1>8 DEF Checkpoint, DetectCrashes, VerifyManifest
  <2>3. Holding(s) /\ stage \in HoldingStages
    BY <2>2 DEF Holding, HoldingStages
  <2>4. run'[s] >= 1
    BY <2>2 DEF LockInv, Numbered, HasRun
  <2>5. QED
    BY <2>1, <2>2, <2>3, <2>4, WorkingKeepsInv
<1>9. ASSUME NEW s \in Sessions, CloseWrite(s) PROVE LockInv'
  <2>1. Busy(s)
    BY <1>9 DEF CloseWrite, MayClose, Busy, HoldingStages, WindowStages
  <2>2. CASE closeStep[s] = LastField
    <3>1. /\ Goto(s, "registering")
          /\ UNCHANGED <<clock, run, since, closeStep>>
      BY <1>9, <2>2 DEF CloseWrite
    <3>2. QED
      BY <2>1, <3>1, LeavingKeepsInv DEF TypeOK
  <2>3. CASE closeStep[s] # LastField
    <3>1. /\ pc' = [pc EXCEPT ![s] = "closing"]
          /\ closeStep' = [closeStep EXCEPT ![s] = @ + 1]
          /\ UNCHANGED <<clock, run, since>>
      BY <1>9, <2>3 DEF CloseWrite, Goto
    <3>2. \A t \in Sessions : t # s =>
             pc'[t] = pc[t] /\ closeStep'[t] = closeStep[t]
      BY <3>1 DEF TypeOK
    <3>3. pc'[s] = "closing" /\ closeStep'[s] > 1
      BY <3>1 DEF TypeOK
    <3>4. \A t \in Sessions : ~Holding(t)'
      BY <2>1, <3>2, <3>3 DEF LockInv, OneBusy, Busy, Holding, HoldingStages
    <3>5. OneBusy'
      BY <2>1, <3>2 DEF LockInv, OneBusy, Busy
    <3>6. Numbered' /\ CloseOrder'
      BY <3>1, <3>2, <3>3 DEF LockInv, Numbered, CloseOrder, HasRun, HoldingStages
    <3>7. QED
      BY <3>4, <3>5, <3>6 DEF LockInv, Recorded
  <2>4. QED
    BY <2>2, <2>3
<1>10. ASSUME NEW s \in Sessions,
              Register(s) \/ LogClose(s) \/ CloseByHand(s) \/ LockRelease(s)
       PROVE  LockInv'
  <2>1. PICK stage \in {"logging", "closed", "unregistered", "released"} :
           Goto(s, stage)
    BY <1>10 DEF Register, LogClose, CloseByHand, LockRelease
  <2>2. Busy(s) /\ UNCHANGED <<clock, run, since, closeStep>>
    BY <1>10 DEF Register, LogClose, CloseByHand, LockRelease, MayClose, Busy,
       HoldingStages, WindowStages
  <2>3. QED
    BY <2>1, <2>2, LeavingKeepsInv DEF TypeOK
<1>11. ASSUME NEW s \in Sessions, LockAcquire(s) PROVE LockInv'
  <2>1. CASE AcquireDenied
    <3>1. Goto(s, "deferred") /\ UNCHANGED <<clock, lock, owner, run, since, closeStep>>
      BY <1>11, <2>1 DEF LockAcquire
    <3>2. QED
      BY <3>1, LeavingKeepsInv DEF TypeOK, WindowStages
  <2>2. CASE ~AcquireDenied
    <3>1. PICK id \in NextRunIds, d \in ManualLeases :
             /\ lock' = HeldLock("manual", id, d, lock.cpf)
             /\ run' = [run EXCEPT ![s] = id]
      BY <1>11, <2>2 DEF LockAcquire
    <3>2. id \in (Nat \cup {Tentative}) \ {NoRun}
      BY DEF NextRunIds, RegisteredRuns, TypeOK, NoRun
    <3>3. d \in Nat /\ RecoverMinMinutes <= d
      BY TimeAssumption
    <3>4. \A t \in Sessions \ {s} : ~Busy(t)
      BY <1>11, <2>2, HolderIsSafe DEF LockAcquire, Quiet, Cadence, Busy, Holding
    <3>5. closeStep[s] = 1 /\ Kind[s] = "manual"
      BY <1>11 DEF LockAcquire, LockInv, CloseOrder
    <3>6. /\ Goto(s, "manual") /\ owner' = s
          /\ since' = [since EXCEPT ![s] = clock]
          /\ UNCHANGED <<clock, closeStep>>
      BY <1>11, <2>2 DEF LockAcquire
    <3>7. \A t \in Sessions \ {s} : run'[t] = run[t]
      BY <3>1 DEF TypeOK
    <3>8. QED
      BY <3>1, <3>2, <3>3, <3>4, <3>5, <3>6, <3>7, AcquiringKeepsInv
  <2>3. QED
    BY <2>1, <2>2
<1>12. ASSUME NEW s \in Sessions, Crash(s) PROVE LockInv'
  <2>1. /\ Goto(s, "crashed")
        /\ UNCHANGED <<clock, lock, owner, run, since, closeStep>>
    BY <1>12 DEF Crash
  <2>2. QED
    BY <2>1, LeavingKeepsInv DEF TypeOK, WindowStages
<1>13. QED
  BY <1>1, <1>2, <1>3, <1>4, <1>5, <1>6, <1>7, <1>8, <1>9, <1>10, <1>11, <1>12
  DEF Next, Advance

(* Initially nobody is at work and nobody may write LOCK.md.               *)
LEMMA LockInvInit == Init => LockInv
<1> SUFFICES ASSUME Init PROVE LockInv
  OBVIOUS
<1>1. \A s \in Sessions : pc[s] = "idle" /\ closeStep[s] = 1
  BY DEF Init
<1>2. \A s \in Sessions : ~Busy(s) /\ ~Holding(s)
  BY <1>1 DEF Busy, Holding, HoldingStages, WindowStages
<1>3. QED
  BY <1>1, <1>2 DEF LockInv, OneBusy, Recorded, Numbered, CloseOrder, HasRun,
     HoldingStages

(* Under the cadence LOCK.md always records the session that is at work,   *)
(* and only one session may write it.                                      *)
THEOREM LockInvariant ==
  ASSUME Cadence
  PROVE  Spec => []LockInv
<1>1. Init => LockInv
  BY LockInvInit
<1>2. TypeOK /\ LockInv /\ [Next]_vars => LockInv'
  BY LockInvStep
<1>3. QED
  BY <1>1, <1>2, TypeCorrect, PTL DEF Spec

(* Under the cadence no two sessions hold the workspace at the same time,  *)
(* whatever the number of workers, managers and operators that start, and  *)
(* wherever each of them crashes.                                          *)
THEOREM Exclusion ==
  ASSUME Cadence
  PROVE  Spec => []MutualExclusion
<1>1. LockInv => MutualExclusion
  BY DEF LockInv, OneBusy, Busy, Holding, MutualExclusion
<1>2. QED
  BY <1>1, LockInvariant, PTL

(* Under the cadence a session at work finds its acquisition in LOCK.md,   *)
(* active for check-lock and out of reach for crash-recover.               *)
THEOREM HolderRecorded ==
  ASSUME Cadence
  PROVE  Spec => []HolderIsRecorded
<1>1. TypeOK /\ LockInv => HolderIsRecorded
  BY HolderIsSafe DEF HolderIsRecorded, LockInv, Recorded
<1>2. QED
  BY <1>1, LockInvariant, TypeCorrect, PTL

-----------------------------------------------------------------------------
(* RUN IDS                                                                 *)

(* A session has taken its id and its entry is not in the registry yet.    *)
Unregistered == HasRun \cup {"closing", "registering"}

(* next-run-id looks at the registry alone, so an id is safe only as long  *)
(* as nobody registers between the look and the session's own entry.       *)
RunInv ==
    /\ \A d, e \in registry : d.run = e.run => d = e
    /\ \A s \in Sessions : pc[s] \in Unregistered => run[s] \notin RegisteredRuns

(* A session moves and registers nothing: what the others have is as it    *)
(* was, and an id that it takes is new.                                    *)
LEMMA MovingKeepsRunInv ==
  ASSUME TypeOK, RunInv, NEW s \in Sessions, NEW stage, Goto(s, stage),
         registry' = registry, \A t \in Sessions \ {s} : run'[t] = run[t],
         stage \in Unregistered => run'[s] \notin RegisteredRuns
  PROVE  RunInv'
<1>1. pc' = [pc EXCEPT ![s] = stage] /\ pc \in [Sessions -> Stages]
  BY DEF Goto, TypeOK
<1>2. (\A t \in Sessions : t # s => pc'[t] = pc[t]) /\ pc'[s] = stage
  BY <1>1
<1>3. QED
  BY <1>2 DEF RunInv, RegisteredRuns

(* Under the cadence every step keeps ids apart.                           *)
LEMMA RunInvStep ==
  ASSUME TypeOK, LockInv, RunInv, [Next]_vars
  PROVE  RunInv'
<1>1. CASE UNCHANGED vars \/ Tick
  BY <1>1 DEF RunInv, RegisteredRuns, vars, Tick
<1>2. ASSUME NEW s \in Sessions,
             \/ CrashRecover(s) \/ CheckLock(s) \/ OverwriteLock(s)
             \/ LogClose(s) \/ CloseByHand(s) \/ LockRelease(s) \/ Crash(s)
      PROVE  RunInv'
  <2>1. PICK stage \in {"checked", "deferred", "claiming", "locked", "closed",
                        "unregistered", "released", "crashed"} : Goto(s, stage)
    BY <1>2 DEF CrashRecover, CheckLock, OverwriteLock, LogClose, CloseByHand,
       LockRelease, Crash
  <2>2. UNCHANGED <<registry, run>>
    BY <1>2 DEF CrashRecover, CheckLock, OverwriteLock, LogClose, CloseByHand,
       LockRelease, Crash
  <2>3. QED
    BY <2>1, <2>2, MovingKeepsRunInv DEF Unregistered, HasRun
<1>3. ASSUME NEW s \in Sessions,
             \/ ConfirmRun(s) \/ Checkpoint(s) \/ DetectCrashes(s)
             \/ VerifyManifest(s) \/ CloseWrite(s)
      PROVE  RunInv'
  <2>1. /\ pc[s] \in Unregistered
        /\ UNCHANGED <<registry, run>>
        /\ \E stage : Goto(s, stage)
    BY <1>3 DEF ConfirmRun, Checkpoint, DetectCrashes, VerifyManifest,
       CloseWrite, MayClose, Unregistered, HasRun
  <2>2. run'[s] \notin RegisteredRuns
    BY <2>1 DEF RunInv
  <2>3. QED
    BY <2>1, <2>2, MovingKeepsRunInv
<1>4. ASSUME NEW s \in Sessions, NumberRun(s) PROVE RunInv'
  <2>1. PICK id \in NextRunIds : run' = [run EXCEPT ![s] = id]
    BY <1>4 DEF NumberRun
  <2>2. id \notin RegisteredRuns
    BY DEF NextRunIds, RegisteredRuns, TypeOK
  <2>3. run'[s] = id /\ \A t \in Sessions \ {s} : run'[t] = run[t]
    BY <2>1 DEF TypeOK
  <2>4. QED
    BY <1>4, <2>2, <2>3, MovingKeepsRunInv DEF NumberRun
<1>5. ASSUME NEW s \in Sessions, LockAcquire(s) PROVE RunInv'
  <2>1. PICK stage \in {"deferred", "manual"} : Goto(s, stage)
    BY <1>5 DEF LockAcquire
  <2>2. registry' = registry /\ \A t \in Sessions \ {s} : run'[t] = run[t]
    BY <1>5 DEF LockAcquire, TypeOK
  <2>3. QED
    BY <2>1, <2>2, MovingKeepsRunInv DEF Unregistered, HasRun
<1>6. ASSUME NEW s \in Sessions, Register(s) PROVE RunInv'
  <2>1. /\ pc[s] = "registering" /\ run' = run
        /\ registry' = registry \cup {[run |-> run[s], by |-> s]}
    BY <1>6 DEF Register
  <2>2. (\A t \in Sessions : t # s => pc'[t] = pc[t]) /\ pc'[s] = "logging"
    BY <1>6 DEF Register, Goto, TypeOK
  <2>3. run[s] \notin RegisteredRuns
    BY <2>1 DEF RunInv, Unregistered
  <2>4. \A d, e \in registry' : d.run = e.run => d = e
    BY <2>1, <2>3 DEF RunInv, RegisteredRuns
  <2>5. \A t \in Sessions : pc'[t] \notin Unregistered
    BY <2>1, <2>2 DEF LockInv, OneBusy, Busy, Unregistered, HasRun,
       HoldingStages, WindowStages
  <2>6. QED
    BY <2>4, <2>5 DEF RunInv
<1>7. QED
  BY <1>1, <1>2, <1>3, <1>4, <1>5, <1>6 DEF Next, Advance

(* Under the cadence the ids that next-run-id reads off the registry are   *)
(* never given twice, whoever crashes before registering.                  *)
THEOREM RunIds ==
  ASSUME Cadence
  PROVE  Spec => []RunIdsUnique
<1>1. Init => RunInv
  BY DEF Init, RunInv, RegisteredRuns
<1>2. TypeOK /\ LockInv /\ RunInv /\ [Next]_vars => RunInv'
  BY RunInvStep
<1>3. RunInv => RunIdsUnique
  BY DEF RunInv, RunIdsUnique, Unregistered, HasRun
<1>4. QED
  BY <1>1, <1>2, <1>3, TypeCorrect, LockInvariant, PTL DEF Spec

-----------------------------------------------------------------------------
(* CRASHES                                                                 *)

Dead == {s \in Sessions : pc[s] = "crashed"}

(* The counter of LOCK.md is short of the crash that left it locked: a     *)
(* locked LOCK.md belongs to a session at work or to a dead one, and what  *)
(* it counts are deaths of others.  What a session is about to write       *)
(* counts the dead.                                                        *)
CrashInv ==
    /\ IsFiniteSet(Dead)
    /\ lock.status = "locked" =>
          owner \in Sessions /\ (Holding(owner) \/ owner \in Dead)
    /\ lock.cpf <= Cardinality(Dead \ {owner})
    /\ \A s \in Sessions : pc[s] = "claiming" => claim[s] <= Cardinality(Dead)

(* A session that has written its CHECKPOINT is past its pass.             *)
AfterCheckpoint == {"passed", "closing", "registering", "logging"} \cup Finished

CheckpointInv ==
    \A e \in auditLog : e.step = "T4" => pc[e.by] \in AfterCheckpoint

(* Cardinalities of the sets of the dead are numbers, and compare.         *)
LEMMA DeadCount ==
  ASSUME IsFiniteSet(Dead), NEW S \in SUBSET Dead, NEW T \in SUBSET S
  PROVE  /\ IsFiniteSet(S) /\ IsFiniteSet(T)
         /\ Cardinality(S) \in Nat /\ Cardinality(T) \in Nat
         /\ Cardinality(T) <= Cardinality(S)
<1>1. IsFiniteSet(S)
  BY FS_Subset
<1>2. IsFiniteSet(T) /\ Cardinality(T) <= Cardinality(S)
  BY <1>1, FS_Subset
<1>3. QED
  BY <1>1, <1>2, FS_CardinalityType

(* A step in which nobody dies, LOCK.md keeps its failure count or clears  *)
(* it, and is released or stays with its owner.                            *)
LEMMA QuietKeepsCrashInv ==
  ASSUME TypeOK, CrashInv, Dead' = Dead,
         lock'.cpf \in {0, lock.cpf},
         \/ /\ owner' = NoSession /\ lock'.status # "locked"
         \/ /\ owner' = owner /\ lock'.status = lock.status
            /\ lock.status = "locked" /\ Holding(owner) => Holding(owner)'
         \/ lock'.cpf = 0 /\ lock'.status # "locked",
         \A s \in Sessions : pc'[s] = "claiming" =>
            pc[s] = "claiming" /\ claim'[s] = claim[s]
  PROVE  CrashInv'
<1>1. IsFiniteSet(Dead') /\ NoSession \notin Dead
  BY SessionAssumption DEF CrashInv, Dead
<1>2. lock'.status = "locked" =>
         owner' \in Sessions /\ (Holding(owner)' \/ owner' \in Dead')
  BY DEF CrashInv
<1>3. lock.cpf \in Nat /\ lock.cpf <= Cardinality(Dead \ {owner})
  BY DEF CrashInv, TypeOK, Lock
<1>4. \A x : /\ Cardinality(Dead \ {x}) \in Nat /\ Cardinality(Dead) \in Nat
             /\ Cardinality(Dead \ {x}) <= Cardinality(Dead)
  BY DeadCount DEF CrashInv
<1>5. Dead \ {NoSession} = Dead
  BY <1>1
<1>6. lock'.cpf <= Cardinality(Dead' \ {owner'})
  <2>1. CASE lock'.cpf = 0
    BY <1>4, <2>1
  <2>2. CASE lock'.cpf = lock.cpf /\ owner' = owner
    BY <1>3, <2>2
  <2>3. CASE lock'.cpf = lock.cpf /\ owner' = NoSession
    <3>1. Cardinality(Dead' \ {owner'}) = Cardinality(Dead)
      BY <1>5, <2>3
    <3>2. /\ Cardinality(Dead \ {owner}) \in Nat /\ Cardinality(Dead) \in Nat
          /\ Cardinality(Dead \ {owner}) <= Cardinality(Dead)
      BY <1>4
    <3>3. QED
      BY <1>3, <2>3, <3>1, <3>2
  <2>4. QED
    BY <2>1, <2>2, <2>3
<1>7. \A s \in Sessions : pc'[s] = "claiming" => claim'[s] <= Cardinality(Dead')
  BY DEF CrashInv
<1>8. QED
  BY <1>1, <1>2, <1>6, <1>7 DEF CrashInv

(* A session acquires LOCK.md with a count of the dead.                    *)
LEMMA AcquiringKeepsCrashInv ==
  ASSUME TypeOK, CrashInv, NEW s \in Sessions, pc[s] # "crashed",
         NEW stage \in {"locked", "manual"}, Goto(s, stage),
         owner' = s, lock'.cpf <= Cardinality(Dead),
         \A t \in Sessions \ {s} : claim'[t] = claim[t]
  PROVE  CrashInv'
<1>1. (\A t \in Sessions : t # s => pc'[t] = pc[t]) /\ pc'[s] = stage
  BY DEF Goto, TypeOK
<1>2. Dead' = Dead /\ Dead \ {s} = Dead
  BY <1>1 DEF Dead
<1>3. Holding(s)'
  BY <1>1 DEF Holding, HoldingStages
<1>4. \A t \in Sessions : pc'[t] = "claiming" => pc[t] = "claiming" /\ t # s
  BY <1>1
<1>5. QED
  BY <1>2, <1>3, <1>4 DEF CrashInv

(* Under the cadence every step counts real crashes only.                  *)
LEMMA CrashInvStep ==
  ASSUME Cadence, TypeOK, LockInv, CrashInv, [Next]_vars
  PROVE  CrashInv'
<1>0. lock.cpf \in Nat /\ IsFiniteSet(Dead) /\ Cardinality(Dead) \in Nat
  BY FS_CardinalityType DEF CrashInv, TypeOK, Lock
<1>1. CASE UNCHANGED vars \/ Tick
  BY <1>1 DEF CrashInv, Dead, Holding, vars, Tick
<1>2. ASSUME NEW s \in Sessions, CrashRecover(s) PROVE CrashInv'
  <2>1. (\A t \in Sessions : t # s => pc'[t] = pc[t]) /\ pc[s] = "idle" /\ pc'[s] = "checked"
    BY <1>2 DEF CrashRecover, Goto, TypeOK
  <2>2. Dead' = Dead /\ claim' = claim
    BY <1>2, <2>1 DEF Dead, CrashRecover
  <2>3. CASE lock' = ReleasedLock
    BY <2>1, <2>2, <2>3, QuietKeepsCrashInv DEF ReleasedLock
  <2>4. CASE UNCHANGED <<lock, owner>>
    <3>1. Holding(owner) /\ owner \in Sessions => Holding(owner)'
      BY <2>1, <2>4 DEF Holding, HoldingStages
    <3>2. lock.status = "locked" => owner \in Sessions
      BY DEF CrashInv
    <3>3. QED
      BY <2>1, <2>2, <2>4, <3>1, <3>2, QuietKeepsCrashInv
  <2>5. QED
    BY <1>2, <2>3, <2>4 DEF CrashRecover
<1>3. ASSUME NEW s \in Sessions, CheckLock(s) PROVE CrashInv'
  <2>1. /\ \A t \in Sessions : t # s => pc'[t] = pc[t] /\ claim'[t] = claim[t]
        /\ pc[s] \in {"idle", "checked"} /\ pc'[s] \in {"deferred", "claiming"}
        /\ UNCHANGED <<lock, owner>>
    BY <1>3 DEF CheckLock, Goto, TypeOK
  <2>2. Dead' = Dead
    BY <2>1 DEF Dead
  <2>3. lock.status = "locked" =>
           owner' \in Sessions /\ (Holding(owner)' \/ owner' \in Dead')
    BY <2>1, <2>2 DEF CrashInv, Holding, HoldingStages
  <2>4. pc'[s] = "claiming" => claim'[s] <= Cardinality(Dead)
    <3> SUFFICES ASSUME pc'[s] = "claiming" PROVE claim'[s] <= Cardinality(Dead)
      OBVIOUS
    <3>1. ~LockActive /\ claim'[s] = ClaimedFailures
      BY <1>3 DEF CheckLock, Goto, TypeOK
    <3>2. CASE lock.status # "locked"
      BY <1>0, <3>1, <3>2 DEF ClaimedFailures
    <3>3. CASE lock.status = "locked"
      <4>1. owner \in Dead
        BY <3>1, <3>3, HolderIsSafe DEF CrashInv
      <4>2. Cardinality(Dead \ {owner}) = Cardinality(Dead) - 1
        BY <1>0, <4>1, FS_RemoveElement
      <4>3. QED
        BY <1>0, <3>1, <3>3, <4>2 DEF CrashInv, ClaimedFailures
    <3>4. QED
      BY <3>2, <3>3
  <2>5. QED
    BY <2>1, <2>2, <2>3, <2>4 DEF CrashInv
<1>4. ASSUME NEW s \in Sessions, OverwriteLock(s) PROVE CrashInv'
  <2>1. lock'.cpf = claim[s] /\ claim[s] <= Cardinality(Dead)
    BY <1>4 DEF OverwriteLock, HeldLock, CrashInv
  <2>2. \A t \in Sessions \ {s} : claim'[t] = claim[t]
    BY <1>4 DEF OverwriteLock, TypeOK
  <2>3. QED
    BY <1>4, <2>1, <2>2, AcquiringKeepsCrashInv DEF OverwriteLock
<1>5. ASSUME NEW s \in Sessions,
             \/ NumberRun(s) \/ ConfirmRun(s) \/ Checkpoint(s)
             \/ DetectCrashes(s) \/ VerifyManifest(s)
      PROVE  CrashInv'
  <2>1. /\ \A t \in Sessions : t # s => pc'[t] = pc[t]
        /\ Holding(s) /\ Holding(s)' /\ pc'[s] # "claiming"
        /\ UNCHANGED <<claim, owner>>
    BY <1>5 DEF NumberRun, ConfirmRun, Checkpoint, DetectCrashes, VerifyManifest,
       Goto, TypeOK, Holding, HoldingStages
  <2>2. lock'.cpf = lock.cpf /\ lock'.status = lock.status
    BY <1>5 DEF NumberRun, ConfirmRun, Checkpoint, DetectCrashes, VerifyManifest,
       TypeOK, Lock
  <2>3. Dead' = Dead
    BY <2>1 DEF Dead, Holding, HoldingStages
  <2>4. \A t \in Sessions : Holding(t) => Holding(t)'
    BY <2>1 DEF Holding
  <2>5. lock.status = "locked" => owner \in Sessions
    BY DEF CrashInv
  <2>6. lock.status = "locked" /\ Holding(owner) => Holding(owner)'
    BY <2>1, <2>4, <2>5 DEF Holding
  <2>7. QED
    BY <2>1, <2>2, <2>3, <2>6, QuietKeepsCrashInv
<1>6. ASSUME NEW s \in Sessions, CloseWrite(s) PROVE CrashInv'
  <2>1. /\ \A t \in Sessions : t # s => pc'[t] = pc[t]
        /\ pc[s] \in {"working", "reviewing", "passed", "closing"}
        /\ pc'[s] \in {"closing", "registering"}
        /\ UNCHANGED claim
    BY <1>6 DEF CloseWrite, MayClose, Goto, TypeOK
  <2>2. Dead' = Dead
    BY <2>1 DEF Dead
  <2>3. closeStep[s] \in 1 .. LastField /\ lock' = ClearField(lock, closeStep[s])
    BY <1>6 DEF CloseWrite, TypeOK
  <2>4. lock'.cpf \in {0, lock.cpf}
    BY <2>3 DEF ClearField, TypeOK, Lock
  <2>5. CASE closeStep[s] = 1
    <3>1. owner' = NoSession /\ lock'.status # "locked"
      BY <1>6, <2>3, <2>5 DEF CloseWrite, ClearField, TypeOK, Lock
    <3>2. QED
      BY <2>1, <2>2, <2>4, <3>1, QuietKeepsCrashInv
  <2>6. CASE closeStep[s] # 1
    <3>1. owner' = owner /\ lock'.status = lock.status
      BY <1>6, <2>3, <2>6 DEF CloseWrite, ClearField, TypeOK, Lock
    <3>2. pc[s] = "closing"
      BY <2>1, <2>6 DEF LockInv, CloseOrder, HoldingStages
    <3>3. \A t \in Sessions : ~Holding(t)
      BY <3>2 DEF LockInv, OneBusy, Busy, Holding, HoldingStages, WindowStages
    <3>4. lock.status = "locked" => owner \in Sessions
      BY DEF CrashInv
    <3>5. QED
      BY <2>1, <2>2, <2>4, <3>1, <3>3, <3>4, QuietKeepsCrashInv
  <2>7. QED
    BY <2>5, <2>6
<1>7. ASSUME NEW s \in Sessions, Register(s) \/ LogClose(s) PROVE CrashInv'
  <2>1. /\ \A t \in Sessions : t # s => pc'[t] = pc[t]
        /\ pc[s] \in {"registering", "logging"} /\ pc'[s] \in {"logging", "closed"}
        /\ UNCHANGED <<lock, owner, claim>>
    BY <1>7 DEF Register, LogClose, Goto, TypeOK
  <2>2. Dead' = Dead
    BY <2>1 DEF Dead
  <2>3. lock.status = "locked" => owner \in Sessions
    BY DEF CrashInv
  <2>4. lock.status = "locked" /\ Holding(owner) => Holding(owner)'
    BY <2>1, <2>3 DEF Holding, HoldingStages
  <2>5. QED
    BY <2>1, <2>2, <2>4, QuietKeepsCrashInv
<1>8. ASSUME NEW s \in Sessions, CloseByHand(s) PROVE CrashInv'
  <2>1. /\ \A t \in Sessions : t # s => pc'[t] = pc[t]
        /\ pc[s] \in {"working", "reviewing", "passed"} /\ pc'[s] = "unregistered"
        /\ lock' = ReleasedLock /\ owner' = NoSession /\ claim' = claim
    BY <1>8 DEF CloseByHand, MayClose, Goto, TypeOK
  <2>2. Dead' = Dead
    BY <2>1 DEF Dead
  <2>3. QED
    BY <2>1, <2>2, QuietKeepsCrashInv DEF ReleasedLock
<1>9. ASSUME NEW s \in Sessions, LockAcquire(s) PROVE CrashInv'
  <2>1. pc[s] = "idle" /\ claim' = claim
    BY <1>9 DEF LockAcquire
  <2>2. CASE AcquireDenied
    <3>1. /\ \A t \in Sessions : t # s => pc'[t] = pc[t]
          /\ pc'[s] = "deferred" /\ UNCHANGED <<lock, owner>>
      BY <1>9, <2>2 DEF LockAcquire, Goto, TypeOK
    <3>2. Dead' = Dead
      BY <2>1, <3>1 DEF Dead
    <3>3. lock.status = "locked" => owner \in Sessions
      BY DEF CrashInv
    <3>4. lock.status = "locked" /\ Holding(owner) => Holding(owner)'
      BY <2>1, <3>1, <3>3 DEF Holding, HoldingStages
    <3>5. QED
      BY <2>1, <3>1, <3>2, <3>4, QuietKeepsCrashInv
  <2>3. CASE ~AcquireDenied
    <3>1. lock'.cpf = lock.cpf /\ Goto(s, "manual") /\ owner' = s
      BY <1>9, <2>3 DEF LockAcquire, HeldLock
    <3>2. /\ Cardinality(Dead \ {owner}) \in Nat
          /\ Cardinality(Dead \ {owner}) <= Cardinality(Dead)
      BY <1>0, DeadCount
    <3>3. lock'.cpf <= Cardinality(Dead)
      BY <1>0, <3>1, <3>2 DEF CrashInv
    <3>4. QED
      BY <2>1, <3>1, <3>3, AcquiringKeepsCrashInv
  <2>4. QED
    BY <2>2, <2>3
<1>10. ASSUME NEW s \in Sessions, LockRelease(s) PROVE CrashInv'
  <2>1. /\ \A t \in Sessions : t # s => pc'[t] = pc[t]
        /\ pc[s] = "manual" /\ pc'[s] = "released" /\ claim' = claim
    BY <1>10 DEF LockRelease, Goto, TypeOK
  <2>2. Dead' = Dead
    BY <2>1 DEF Dead
  <2>3. CASE lock' = ReleasedLock
    BY <2>1, <2>2, <2>3, QuietKeepsCrashInv DEF ReleasedLock
  <2>4. CASE lock.status # "locked" /\ UNCHANGED <<lock, owner>>
    BY <2>1, <2>2, <2>4, QuietKeepsCrashInv
  <2>5. QED
    BY <1>10, <2>3, <2>4 DEF LockRelease
<1>11. ASSUME NEW s \in Sessions, Crash(s) PROVE CrashInv'
  <2>1. /\ \A t \in Sessions : t # s => pc'[t] = pc[t]
        /\ pc'[s] = "crashed" /\ UNCHANGED <<lock, owner, claim>>
    BY <1>11 DEF Crash, Goto, TypeOK
  <2>2. Dead' = Dead \cup {s}
    BY <2>1 DEF Dead
  <2>3. IsFiniteSet(Dead')
    BY <1>0, <2>2, FS_AddElement
  <2>4. /\ Cardinality(Dead') \in Nat /\ Cardinality(Dead) <= Cardinality(Dead')
        /\ \A x : /\ Cardinality(Dead \ {x}) \in Nat
                  /\ Cardinality(Dead' \ {x}) \in Nat
                  /\ Cardinality(Dead \ {x}) <= Cardinality(Dead' \ {x})
    <3>1. Cardinality(Dead') \in Nat /\ Cardinality(Dead) <= Cardinality(Dead')
      BY <2>2, <2>3, FS_Subset, FS_CardinalityType
    <3>2. ASSUME NEW x
          PROVE  /\ Cardinality(Dead \ {x}) \in Nat
                 /\ Cardinality(Dead' \ {x}) \in Nat
                 /\ Cardinality(Dead \ {x}) <= Cardinality(Dead' \ {x})
      <4>1. IsFiniteSet(Dead' \ {x})
        BY <2>3, FS_Difference
      <4>2. Dead \ {x} \in SUBSET (Dead' \ {x})
        BY <2>2
      <4>3. QED
        BY <4>1, <4>2, FS_Subset, FS_CardinalityType
    <3>3. QED
      BY <3>1, <3>2
  <2>5. lock'.cpf <= Cardinality(Dead' \ {owner'})
    <3>1. lock.cpf <= Cardinality(Dead \ {owner})
      BY DEF CrashInv
    <3>2. /\ Cardinality(Dead \ {owner}) \in Nat
          /\ Cardinality(Dead' \ {owner}) \in Nat
          /\ Cardinality(Dead \ {owner}) <= Cardinality(Dead' \ {owner})
      BY <2>4
    <3>3. QED
      BY <1>0, <2>1, <3>1, <3>2
  <2>6. lock'.status = "locked" =>
           owner' \in Sessions /\ (Holding(owner)' \/ owner' \in Dead')
    BY <2>1, <2>2 DEF CrashInv, Holding
  <2>7. \A t \in Sessions : pc'[t] = "claiming" => claim'[t] <= Cardinality(Dead')
    <3>1. \A t \in Sessions : claim[t] \in Nat
      BY DEF TypeOK
    <3>2. QED
      BY <1>0, <2>1, <2>4, <3>1 DEF CrashInv
  <2>8. QED
    BY <2>3, <2>5, <2>6, <2>7 DEF CrashInv
<1>12. QED
  BY <1>1, <1>2, <1>3, <1>4, <1>5, <1>6, <1>7, <1>8, <1>9, <1>10, <1>11
  DEF Next, Advance

(* The entries of AUDIT-LOG.md follow their session's script.              *)
LEMMA CheckpointStep ==
  ASSUME TypeOK, CheckpointInv, [Next]_vars
  PROVE  CheckpointInv'
<1>1. \A e \in auditLog : e.by \in Sessions
  BY DEF TypeOK
<1>2. CASE UNCHANGED vars \/ Tick
  BY <1>2 DEF CheckpointInv, vars, Tick
<1>3. ASSUME NEW s \in Sessions, Checkpoint(s) PROVE CheckpointInv'
  <2>1. /\ \A t \in Sessions : t # s => pc'[t] = pc[t]
        /\ pc'[s] = "passed"
        /\ auditLog' = auditLog \cup {[run |-> run[s], step |-> "T4", by |-> s]}
    BY <1>3 DEF Checkpoint, Goto, TypeOK
  <2>2. QED
    BY <1>1, <2>1 DEF CheckpointInv, AfterCheckpoint
<1>4. ASSUME NEW s \in Sessions,
             \/ CrashRecover(s) \/ CheckLock(s) \/ OverwriteLock(s) \/ NumberRun(s)
             \/ ConfirmRun(s) \/ DetectCrashes(s) \/ VerifyManifest(s)
             \/ CloseWrite(s) \/ Register(s) \/ LogClose(s) \/ CloseByHand(s)
             \/ LockAcquire(s) \/ LockRelease(s) \/ Crash(s)
      PROVE  CheckpointInv'
  <2>1. /\ \A t \in Sessions : t # s => pc'[t] = pc[t]
        /\ pc[s] \in AfterCheckpoint => pc'[s] \in AfterCheckpoint
    BY <1>4 DEF CrashRecover, CheckLock, OverwriteLock, NumberRun, ConfirmRun,
       DetectCrashes, VerifyManifest, CloseWrite, MayClose, Register, LogClose,
       CloseByHand, LockAcquire, LockRelease, Crash, Goto, TypeOK,
       AfterCheckpoint, Finished
  <2>2. \A e \in auditLog' : e.step = "T4" => e \in auditLog
    BY <1>4 DEF CrashRecover, CheckLock, OverwriteLock, NumberRun, ConfirmRun,
       DetectCrashes, VerifyManifest, CloseWrite, Register, LogClose,
       CloseByHand, LockAcquire, LockRelease, Crash
  <2>3. QED
    BY <1>1, <2>1, <2>2 DEF CheckpointInv
<1>5. QED
  BY <1>2, <1>3, <1>4 DEF Next, Advance

(* crash-detect runs in a session at work, so whoever else wrote a          *)
(* CHECKPOINT has closed or crashed.                                       *)
LEMMA ReportsStep ==
  ASSUME TypeOK, LockInv, CheckpointInv, [Next]_vars
  PROVE  \A r \in reports' \ reports :
             \A e \in auditLog : e.run = r /\ e.step = "T4" => ~Live(e.by)
<1>1. ASSUME NEW s \in Sessions, DetectCrashes(s), NEW e \in auditLog, e.step = "T4"
      PROVE  ~Live(e.by)
  <2>1. pc[s] = "working" /\ e.by \in Sessions
    BY <1>1 DEF DetectCrashes, TypeOK
  <2>2. pc[e.by] \in AfterCheckpoint
    BY <1>1 DEF CheckpointInv
  <2>3. e.by # s
    BY <2>1, <2>2 DEF AfterCheckpoint, Finished
  <2>4. ~Busy(e.by)
    BY <2>1, <2>3 DEF LockInv, OneBusy, Busy, HoldingStages
  <2>5. QED
    BY <2>2, <2>4 DEF AfterCheckpoint, Busy, HoldingStages, WindowStages, Live
<1>2. ASSUME NEW s \in Sessions, Advance(s) \/ Crash(s), ~DetectCrashes(s)
      PROVE  reports' = reports
  BY <1>2 DEF Advance, Crash, CrashRecover, CheckLock, OverwriteLock, NumberRun,
     ConfirmRun, Checkpoint, VerifyManifest, CloseWrite, Register, LogClose,
     CloseByHand, LockAcquire, LockRelease
<1>3. CASE Tick \/ UNCHANGED vars
  BY <1>3 DEF Tick, vars
<1>4. QED
  BY <1>1, <1>2, <1>3 DEF Next

(* Under the cadence LOCK.md never counts a session that is alive or       *)
(* closed as a failure, and crash-detect reports no run whose session      *)
(* still goes on.                                                          *)
THEOREM Crashes ==
  ASSUME Cadence
  PROVE  Spec => CrashesAreReal
<1>1. Init => CrashInv /\ CheckpointInv
  <2> SUFFICES ASSUME Init PROVE CrashInv /\ CheckpointInv
    OBVIOUS
  <2>1. Dead = {} /\ Dead \ {owner} = {}
    BY DEF Init, Dead
  <2>2. QED
    BY <2>1, FS_EmptySet DEF Init, CrashInv, CheckpointInv, ReleasedLock
<1>2. TypeOK /\ LockInv /\ CrashInv /\ [Next]_vars => CrashInv'
  BY CrashInvStep
<1>3. TypeOK /\ CheckpointInv /\ [Next]_vars => CheckpointInv'
  BY CheckpointStep
<1>4. TypeOK /\ CrashInv => FailuresAreCrashes
  <2> SUFFICES ASSUME TypeOK, CrashInv PROVE FailuresAreCrashes
    OBVIOUS
  <2>1. /\ Cardinality(Dead \ {owner}) \in Nat /\ Cardinality(Dead) \in Nat
        /\ Cardinality(Dead \ {owner}) <= Cardinality(Dead)
    BY DeadCount DEF CrashInv
  <2>2. lock.cpf \in Nat
    BY DEF TypeOK, Lock
  <2>3. QED
    BY <2>1, <2>2 DEF CrashInv, FailuresAreCrashes, Dead
<1>5. TypeOK /\ LockInv /\ CheckpointInv /\ [Next]_vars =>
         \A r \in reports' \ reports :
             \A e \in auditLog : e.run = r /\ e.step = "T4" => ~Live(e.by)
  BY ReportsStep
<1>6. QED
  BY <1>1, <1>2, <1>3, <1>4, <1>5, TypeCorrect, LockInvariant, PTL DEF Spec, CrashesAreReal
=============================================================================
