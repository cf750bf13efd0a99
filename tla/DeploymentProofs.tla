--------------------------- MODULE DeploymentProofs ---------------------------
(***************************************************************************)
(* The theorems about DeploymentStore and Deployment, for any manifests,   *)
(* people, intents, days, notionals, limits and faults.                    *)
(*                                                                         *)
(* Those of the store are stated of StoreSpec, which the controller        *)
(* implements, so that it inherits them.  Its own invariant says, for      *)
(* every place where start may stand, what the scheduler's thread          *)
(* can be doing meanwhile and what the manifest's row can have become:     *)
(* pause, revoke and the other rails act between any two of its steps.     *)
(***************************************************************************)
EXTENDS Deployment, TotalsProofs
----------------------------------------------------------------------------
(* The store.                                                               *)

Agreed(m) ==
  approver[m] \in [risk : RiskActors, ops : OpsActors] /\ approver[m].risk # approver[m].ops

(* How far a row is tells who has approved it, and only a row that has been *)
(* armed can have orders.                                                   *)
Approved == \A m \in Manifests :
  /\ state[m] = "risk_approved" => approver[m].risk \in RiskActors
  /\ state[m] \in {"ops_approved", "activated", "armed", "running", "paused"} => Agreed(m)
  /\ (\E i \in Intents : auth[m][i] # NoRow)
       => Agreed(m) /\ state[m] \in {"armed", "running", "paused", "revoked"}

StoreInv == StoreTypeOK /\ Approved /\ DailyLimits
----------------------------------------------------------------------------
LEMMA OpenedFinite ==
  ASSUME NEW m, NEW d
  PROVE  IsFiniteSet(Opened(m, d)) /\ Opened(m, d) \subseteq Intents
<1>1. Opened(m, d) \subseteq Intents
  BY DEF Opened
<1>. QED  BY <1>1, StoreAssumption, FS_Subset

(* Exits and orders of other days or manifests leave a day's orders alone.  *)
LEMMA OthersKept ==
  ASSUME StoreTypeOK, NEW m \in Manifests, NEW d,
         \A i \in Intents : auth'[m][i] = auth[m][i] \/
           /\ auth[m][i] = NoRow
           /\ ~(auth'[m][i].opening /\ auth'[m][i].day = d)
  PROVE  /\ Opened(m, d)' = Opened(m, d)
         /\ Total(NotionalOf(m), Opened(m, d))' = Total(NotionalOf(m), Opened(m, d))
<1>1. Opened(m, d)' = Opened(m, d)
  BY DEF Opened, NoRow
<1>2. \A i \in Opened(m, d) : NotionalOf(m)'[i] = NotionalOf(m)[i]
  BY DEF Opened, NotionalOf, NoRow
<1>3. Total(NotionalOf(m)', Opened(m, d)) = Total(NotionalOf(m), Opened(m, d))
  BY <1>2, TotalAgree
<1>. QED  BY <1>1, <1>3

(* A new opening order adds itself to the orders of its day.                *)
LEMMA OneMore ==
  ASSUME StoreTypeOK, StoreTypeOK', NEW m \in Manifests, NEW d \in Days, NEW k \in Intents,
         NEW n \in Notionals, auth[m][k] = NoRow,
         auth'[m][k] = [day |-> d, notional |-> n, opening |-> TRUE],
         \A i \in Intents \ {k} : auth'[m][i] = auth[m][i]
  PROVE  /\ Cardinality(Opened(m, d)') = Cardinality(Opened(m, d)) + 1
         /\ Total(NotionalOf(m), Opened(m, d))' = Total(NotionalOf(m), Opened(m, d)) + n
<1>. DEFINE S == Opened(m, d)
            T == Opened(m, d)'
            f == NotionalOf(m)
            g == NotionalOf(m)'
<1>1. k \notin S /\ T = S \cup {k}
  BY DEF Opened, NoRow
<1>2. IsFiniteSet(S) /\ S \subseteq Intents
  BY OpenedFinite
<1>3. IsFiniteSet(T) /\ Cardinality(T) = Cardinality(S) + 1
  BY <1>1, <1>2, FS_AddElement
<1>4. \A i \in T : g[i] \in Nat
  <2>1. T \subseteq Intents
    BY <1>1, <1>2
  <2>. QED  BY <2>1, StoreAssumption DEF StoreTypeOK, Rows, NoRow, NotionalOf
<1>5. g[k] = n /\ \A i \in S : g[i] = f[i]
  BY <1>1, <1>2 DEF NotionalOf
<1>6. T \ {k} = S /\ k \in T
  BY <1>1
<1>7. Total(g, T) = Total(f, S) + n
  <2>. HIDE DEF S, T, f, g
  <2>1. Total(g, T) = Total(g, T \ {k}) + g[k]
    BY <1>3, <1>4, <1>6, TotalSplit
  <2>2. Total(g, S) = Total(f, S)
    BY <1>5, TotalAgree
  <2>. QED  BY <1>5, <1>6, <2>1, <2>2
<1>. QED  BY <1>3, <1>7
----------------------------------------------------------------------------
LEMMA TypeStep ==
  ASSUME StoreTypeOK, [StoreNext]_storeVars
  PROVE  StoreTypeOK'
<1>1. CASE UNCHANGED storeVars
  BY <1>1 DEF StoreTypeOK, storeVars
<1>2. ASSUME NEW m \in Manifests,
             Stage(m) \/ Activate(m) \/ Arm(m) \/ MarkRunning(m) \/ Pause(m) \/ Revoke(m)
      PROVE  StoreTypeOK'
  BY <1>2 DEF StoreTypeOK, Stage, Activate, Arm, MarkRunning, Pause, Revoke, Move, States
<1>3. ASSUME NEW m \in Manifests, NEW p \in RiskActors, ApproveRisk(m, p)
      PROVE  StoreTypeOK'
  BY <1>3 DEF StoreTypeOK, ApproveRisk, Move, States
<1>4. ASSUME NEW m \in Manifests, NEW p \in OpsActors, ApproveOperations(m, p)
      PROVE  StoreTypeOK'
  BY <1>4 DEF StoreTypeOK, ApproveOperations, Move, States
<1>5. ASSUME NEW m \in Manifests, NEW i \in Intents, NEW d \in Days, NEW n \in Notionals,
             NEW opening \in BOOLEAN, AuthorizeOrder(m, i, d, n, opening)
      PROVE  StoreTypeOK'
  BY <1>5 DEF StoreTypeOK, AuthorizeOrder, Rows
<1>. QED  BY <1>1, <1>2, <1>3, <1>4, <1>5 DEF StoreNext

LEMMA ApprovedStep ==
  ASSUME StoreTypeOK, Approved, [StoreNext]_storeVars
  PROVE  Approved'
<1>1. CASE UNCHANGED storeVars
  BY <1>1 DEF Approved, Agreed, storeVars
<1>2. ASSUME NEW m \in Manifests,
             Stage(m) \/ Activate(m) \/ Arm(m) \/ MarkRunning(m) \/ Pause(m) \/ Revoke(m)
      PROVE  Approved'
  BY <1>2 DEF StoreTypeOK, Approved, Agreed, Stage, Activate, Arm, MarkRunning, Pause, Revoke,
              Move, States, Pausable, Active, Trading
<1>3. ASSUME NEW m \in Manifests, NEW p \in RiskActors, ApproveRisk(m, p)
      PROVE  Approved'
  BY <1>3 DEF StoreTypeOK, Approved, Agreed, ApproveRisk, Move, States
<1>4. ASSUME NEW m \in Manifests, NEW p \in OpsActors, ApproveOperations(m, p)
      PROVE  Approved'
  BY <1>4 DEF StoreTypeOK, Approved, Agreed, ApproveOperations, Distinct, Move, States
<1>5. ASSUME NEW m \in Manifests, NEW i \in Intents, NEW d \in Days, NEW n \in Notionals,
             NEW opening \in BOOLEAN, AuthorizeOrder(m, i, d, n, opening)
      PROVE  Approved'
  BY <1>5 DEF StoreTypeOK, Approved, Agreed, AuthorizeOrder, Trading
<1>. QED  BY <1>1, <1>2, <1>3, <1>4, <1>5 DEF StoreNext

LEMMA LimitsStep ==
  ASSUME StoreTypeOK, StoreTypeOK', DailyLimits, [StoreNext]_storeVars
  PROVE  DailyLimits'
<1>1. ASSUME auth' = auth PROVE DailyLimits'
  BY <1>1 DEF DailyLimits, Opened, NotionalOf
<1>2. ASSUME NEW m \in Manifests, NEW i \in Intents, NEW d \in Days, NEW n \in Notionals,
             NEW opening \in BOOLEAN, AuthorizeOrder(m, i, d, n, opening)
      PROVE  DailyLimits'
  <2>. DEFINE row == [day |-> d, notional |-> n, opening |-> opening]
  <2>1. /\ auth[m][i] = NoRow /\ auth'[m][i] = row
        /\ \A k \in Intents \ {i} : auth'[m][k] = auth[m][k]
        /\ \A l \in Manifests \ {m} : auth'[l] = auth[l]
    BY <1>2 DEF AuthorizeOrder, StoreTypeOK
  <2>2. SUFFICES ASSUME NEW l \in Manifests, NEW e \in Days
                 PROVE  /\ Cardinality(Opened(l, e)') <= MaxDailyOrders
                        /\ Total(NotionalOf(l), Opened(l, e))' <= MaxDailyNotional
    BY DEF DailyLimits
  <2>3. CASE l = m /\ e = d /\ opening
    <3>1. WithinLimits(m, d, n)
      BY <1>2, <2>3 DEF AuthorizeOrder
    <3>2. /\ Cardinality(Opened(m, d)') = Cardinality(Opened(m, d)) + 1
          /\ Total(NotionalOf(m), Opened(m, d))' = Total(NotionalOf(m), Opened(m, d)) + n
      BY <2>1, <2>3, OneMore
    <3>3. Cardinality(Opened(m, d)) \in Nat
      BY OpenedFinite, FS_CardinalityType
    <3>. QED  BY <2>3, <3>1, <3>2, <3>3, StoreAssumption DEF WithinLimits
  <2>4. CASE ~(l = m /\ e = d /\ opening)
    <3>1. \A k \in Intents : auth'[l][k] = auth[l][k] \/
            /\ auth[l][k] = NoRow
            /\ ~(auth'[l][k].opening /\ auth'[l][k].day = e)
      BY <2>1, <2>4
    <3>2. /\ Opened(l, e)' = Opened(l, e)
          /\ Total(NotionalOf(l), Opened(l, e))' = Total(NotionalOf(l), Opened(l, e))
      BY <3>1, OthersKept
    <3>. QED  BY <3>2 DEF DailyLimits
  <2>. QED  BY <2>3, <2>4
<1>. QED  BY <1>1, <1>2
     DEF StoreNext, Stage, Activate, Arm, MarkRunning, Pause, Revoke, Move,
         ApproveRisk, ApproveOperations, storeVars
----------------------------------------------------------------------------
LEMMA StoreInitInv == StoreInit => StoreInv
<1>. SUFFICES ASSUME StoreInit PROVE StoreInv
  OBVIOUS
<1>1. StoreTypeOK /\ Approved
  BY DEF StoreInit, StoreTypeOK, Approved, States, Nobody, NoRow
<1>2. \A m \in Manifests, d \in Days : Opened(m, d) = {}
  BY DEF StoreInit, Opened, NoRow
<1>3. \A f : Total(f, {}) = 0
  BY TotalEmpty
<1>4. DailyLimits
  BY <1>2, <1>3, FS_EmptySet, StoreAssumption DEF DailyLimits
<1>. QED  BY <1>1, <1>4 DEF StoreInv

LEMMA StoreStep == StoreInv /\ [StoreNext]_storeVars => StoreInv'
BY TypeStep, ApprovedStep, LimitsStep DEF StoreInv

LEMMA StoreInvariant == StoreSpec => []StoreInv
BY StoreInitInv, StoreStep, PTL DEF StoreSpec

(* Daily limits hold under every sequence of the store's operations.        *)
THEOREM LimitsRespected == StoreSpec => []DailyLimits
<1>1. StoreInv => DailyLimits
  BY DEF StoreInv
<1>. QED  BY <1>1, StoreInvariant, PTL

(* Orders are only ever authorized under a manifest two people approved.    *)
THEOREM TwoApprovals == StoreSpec => []TwoPeopleAgreed
<1>1. StoreInv => TwoPeopleAgreed
  BY DEF StoreInv, Approved, Agreed, TwoPeopleAgreed
<1>. QED  BY <1>1, StoreInvariant, PTL

(* Paused and revoked manifests never come back.                            *)
THEOREM StoppedStays == StoreSpec => StoppedForGood
<1>1. StoreInv /\ [StoreNext]_storeVars =>
        [\A m \in Manifests : state[m] \in {"paused", "revoked"} =>
           /\ state'[m] \in {state[m], "revoked"}
           /\ auth'[m] = auth[m]]_storeVars
  <2>. SUFFICES ASSUME StoreInv, StoreNext, NEW m \in Manifests,
                       state[m] \in {"paused", "revoked"}
                PROVE  state'[m] \in {state[m], "revoked"} /\ auth'[m] = auth[m]
    OBVIOUS
  <2>. QED
    BY DEF StoreInv, StoreTypeOK, StoreNext, Stage, Activate, Arm, MarkRunning, Pause, Revoke,
           Move, ApproveRisk, ApproveOperations, AuthorizeOrder, Pausable, Active, Trading
<1>. QED  BY <1>1, StoreInvariant, PTL DEF StoreSpec, StoppedForGood
----------------------------------------------------------------------------
(* The controller and the scheduler's thread.                               *)

Launched == (Trying \ {"open", "launch"}) \cup Undoing \cup {"started", "failed"}

(* A process that is not up holds nothing; the session is bound before      *)
(* start and the thread runs only after its launch.                         *)
Process ==
  /\ up # "up" => bound = NoManifest /\ lead = Idle /\ stopper = NoStop
  /\ lead.pc # "idle" => lead.on \in Manifests
  /\ lead.pc \in {"activate", "bind", "unbind"} => bound = NoManifest
  /\ lead.pc \in {"arm"} \cup Trying \cup Undoing \cup {"started", "failed"} => bound = lead.on
  /\ stopper.pc # "idle" => bound # NoManifest
  /\ lead.pc \notin Launched => thread = "none" /\ first = "none" /\ ~released /\ ~stopping

(* Until start releases it, a thread that has an outcome is held or gone.   *)
Handshake ==
  /\ released /\ ~stopping => lead.pc = "started"
  /\ first # "none" /\ lead.pc # "started" => thread \in {"none", "held"}
  /\ lead.pc \in {"verify", "close", "prove", "mark", "reopen", "release", "started"} => first = "ok"
  /\ lead.pc \in {"prove", "mark"} => engaged
  /\ lead.pc = "mark" => ~working

(* What has become of the row while start is where it is.                   *)
Standing ==
  /\ lead.pc \in Trying \cup Undoing => state[lead.on] \in {"armed", "running", "paused", "revoked"}
  /\ lead.pc \in {"reopen", "release", "started"} => state[lead.on] \in {"running", "paused", "revoked"}
  /\ lead.pc = "failed" /\ ~incomplete => state[lead.on] \in {"paused", "revoked"}

(* How far the roll-back has come.                                          *)
RolledBack ==
  /\ lead.pc \in {"undo_stop", "undo_join", "undo_pause", "failed"} /\ ~incomplete => engaged
  /\ lead.pc \in {"undo_join", "undo_pause", "failed"} /\ thread # "none" => stopping

Course == Process /\ Handshake /\ Standing /\ RolledBack /\ OnlyBoundTrades

IInv == TypeOK /\ Course
----------------------------------------------------------------------------
(* Every step of the deployment is a step of the store or leaves it alone.  *)
LEMMA StoreOrNot ==
  ASSUME TypeOK, Process, Next
  PROVE  StoreNext \/ UNCHANGED storeVars
<1>1. CASE LeadStep
  <2>1. lead.pc # "idle" => lead.on \in Manifests
    BY DEF Process
  <2>. QED
    BY <1>1, <2>1
    DEF LeadStep, PrepareActivate, PrepareBind, PrepareUnbind, StartArm, StartOpen,
        StartLaunch, StartAwait, StartVerify, StartClose, StartProve, StartMark,
        StartRelease, StartRaises, UndoSwitch, UndoStop, UndoJoin, UndoPause, StoreNext
<1>2. CASE StopperStep
  <2>1. stopper.pc # "idle" => bound \in Manifests
    BY DEF Process, TypeOK
  <2>. QED
    BY <1>2, <2>1 DEF StopperStep, HaltStop, HaltJoin, HaltReconcile, HaltRecord, StoreNext
<1>3. CASE Schedule
  <2>1. thread = "guard" => bound \in Manifests
    BY DEF Process, Launched, TypeOK, Trying, Undoing
  <2>. QED
    BY <1>3, <2>1
    DEF Schedule, Loop, Top, Begin, Cycle, Guard, Place, ExecEnds, Killed, Held, HaltCycle,
        StoreNext
<1>4. CASE Approve
  BY <1>4 DEF Approve, StoreNext
<1>5. CASE Recover
  BY <1>5 DEF Recover, RecoverEngage, RecoverPause, RecoverFails, RecoverDone, Interrupted,
              StoreNext
<1>. QED
  BY <1>1, <1>2, <1>3, <1>4, <1>5
  DEF Next, Start, Engage, Settle, Crash, Restart, Prepare, Halt

----------------------------------------------------------------------------
(* Types.                                                                   *)
(* The lead's steps.                                                        *)
LEMMA LeadTypes ==
  ASSUME TypeOK, StoreTypeOK', LeadStep
  PROVE  TypeOK'
<1>1. CASE PrepareActivate
  BY <1>1 DEF TypeOK, PrepareActivate, schedVars, callVars, Idle, Lead, Busy
<1>2. CASE PrepareBind
  BY <1>2 DEF TypeOK, PrepareBind, schedVars, callVars, Idle, Lead, Busy
<1>3. CASE PrepareUnbind
  BY <1>3 DEF TypeOK, PrepareUnbind, schedVars, callVars, Idle
<1>4. CASE StartArm
  BY <1>4 DEF TypeOK, StartArm, schedVars, callVars, Idle, Lead, Busy, Trying
<1>5. CASE StartOpen
  <2>1. engaged' \in BOOLEAN
    BY <1>5, Zenon DEF TypeOK, StartOpen, schedVars
  <2>. QED
    BY <1>5, <2>1 DEF TypeOK, StartOpen, schedVars, callVars, Lead, Busy, Trying
<1>6. CASE StartLaunch
  BY <1>6 DEF TypeOK, StartLaunch, schedVars, callVars, Spawn, CanSpawn, Lead, Busy, Trying
<1>7. CASE StartAwait
  BY <1>7 DEF TypeOK, StartAwait, schedVars, callVars, Lead, Busy, Trying
<1>8. CASE StartVerify
  BY <1>8 DEF TypeOK, StartVerify, schedVars, callVars, Lead, Busy, Trying
<1>9. CASE StartClose
  BY <1>9 DEF TypeOK, StartClose, schedVars, callVars, Lead, Busy, Trying
<1>10. CASE StartProve
  BY <1>10 DEF TypeOK, StartProve, schedVars, callVars, Lead, Busy, Trying
<1>11. CASE StartMark
  BY <1>11 DEF TypeOK, StartMark, schedVars, callVars, Lead, Busy, Trying
<1>12. CASE StartRelease
  BY <1>12 DEF TypeOK, StartRelease, schedVars, callVars, Release, CanRelease, Lead
<1>13. CASE StartRaises
  BY <1>13 DEF TypeOK, StartRaises, schedVars, callVars, Lead, Busy, Undoing, Caught
<1>14. CASE UndoSwitch
  <2>1. engaged' \in BOOLEAN /\ incomplete' \in BOOLEAN
    BY <1>14, Zenon DEF TypeOK, UndoSwitch, schedVars
  <2>. QED
    BY <1>14, <2>1 DEF TypeOK, UndoSwitch, schedVars, callVars, Lead, Busy, Undoing
<1>15. CASE UndoStop
  <2>1. stopping' \in BOOLEAN /\ released' \in BOOLEAN
    BY <1>15, Zenon DEF TypeOK, UndoStop, SignalStop, schedVars
  <2>. QED
    BY <1>15, <2>1 DEF TypeOK, UndoStop, schedVars, callVars, Lead, Busy, Undoing, SignalStop,
                          AfterSignal
<1>16. CASE UndoJoin
  <2>1. running' \in BOOLEAN /\ (running' => thread' # "none")
    BY <1>16, Zenon DEF TypeOK, UndoJoin, Joined, schedVars
  <2>. QED
    BY <1>16, <2>1 DEF TypeOK, UndoJoin, schedVars, callVars, Lead, Busy, Undoing, Joined
<1>17. CASE UndoPause
  <2>1. incomplete' \in BOOLEAN
    BY <1>17, Zenon DEF TypeOK, UndoPause, schedVars
  <2>. QED
    BY <1>17, <2>1 DEF TypeOK, UndoPause, schedVars, callVars, Lead
<1>. QED  BY <1>1, <1>2, <1>3, <1>4, <1>5, <1>6, <1>7, <1>8, <1>9, <1>10, <1>11, <1>12, <1>13, <1>14, <1>15, <1>16, <1>17 DEF LeadStep

(* The stopper's.                                                           *)
LEMMA StopperTypes ==
  ASSUME TypeOK, StoreTypeOK', StopperStep
  PROVE  TypeOK'
<1>1. CASE HaltStop
  <2>1. stopping' \in BOOLEAN /\ released' \in BOOLEAN
    BY <1>1, Zenon DEF TypeOK, HaltStop, SignalStop, schedVars
  <2>. QED
    BY <1>1, <2>1 DEF TypeOK, HaltStop, schedVars, callVars, SignalStop, AfterSignal
<1>2. CASE HaltJoin
  <2>1. running' \in BOOLEAN /\ (running' => thread' # "none")
    BY <1>2, Zenon DEF TypeOK, HaltJoin, Joined, schedVars
  <2>. QED
    BY <1>2, <2>1 DEF TypeOK, HaltJoin, schedVars, callVars, Joined
<1>3. CASE HaltReconcile
  <2>1. engaged' \in BOOLEAN
    BY <1>3, Zenon DEF TypeOK, HaltReconcile, schedVars
  <2>. QED
    BY <1>3, <2>1 DEF TypeOK, HaltReconcile, schedVars, callVars
<1>4. CASE HaltRecord
  BY <1>4 DEF TypeOK, HaltRecord, schedVars, callVars, NoStop
<1>. QED  BY <1>1, <1>2, <1>3, <1>4 DEF StopperStep

(* Calls, people, other rails, the broker, the process.                     *)
LEMMA OutsideTypes ==
  ASSUME TypeOK, StoreTypeOK', Start \/ Approve \/ Engage \/ Settle \/ Crash \/ Restart \/ Recover
  PROVE  TypeOK'
<1>1. CASE Start
  BY <1>1 DEF TypeOK, Start, schedVars, callVars, CanSpawn, Busy
<1>2. CASE Approve
  BY <1>2 DEF TypeOK, Approve, schedVars, callVars
<1>3. CASE Engage
  BY <1>3 DEF TypeOK, Engage, schedVars, callVars
<1>4. CASE Settle
  <2>1. working' \in BOOLEAN
    BY <1>4, Zenon DEF TypeOK, Settle, schedVars
  <2>. QED
    BY <1>4, <2>1 DEF TypeOK, Settle, schedVars, callVars
<1>5. CASE Crash
  BY <1>5 DEF TypeOK, Crash, schedVars, callVars, Forget, Idle, NoStop
<1>6. CASE Restart
  BY <1>6 DEF TypeOK, Restart, schedVars, callVars
<1>7. CASE RecoverEngage
  BY <1>7 DEF TypeOK, RecoverEngage, schedVars, callVars
<1>8. CASE RecoverPause
  BY <1>8 DEF TypeOK, RecoverPause, schedVars, callVars
<1>9. CASE RecoverFails
  BY <1>9 DEF TypeOK, RecoverFails, schedVars, callVars
<1>10. CASE RecoverDone
  BY <1>10 DEF TypeOK, RecoverDone, schedVars, callVars
<1>. QED  BY <1>1, <1>2, <1>3, <1>4, <1>5, <1>6, <1>7, <1>8, <1>9, <1>10 DEF Recover

(* The thread's.                                                            *)
LEMMA ThreadTypes ==
  ASSUME TypeOK, StoreTypeOK', Schedule
  PROVE  TypeOK'
<1>1. /\ engaged' \in BOOLEAN /\ incomplete' \in BOOLEAN /\ stopping' \in BOOLEAN
      /\ released' \in BOOLEAN
  BY Zenon DEF TypeOK, Schedule, callVars
<1>2. thread' \in {"none", "top", "held"} \cup InCycle /\ first' \in {"none", "ok", "bad"}
  BY DEF TypeOK, Schedule, Loop, Top, Begin, Cycle, Guard, Place, ExecEnds, Killed, Held,
         HaltCycle, Exit, Publish, AfterCycle, InCycle
<1>3. running' \in BOOLEAN /\ (running' => thread' # "none")
  <2>1. CASE Exit
    BY <2>1, Zenon DEF Exit
  <2>2. CASE UNCHANGED running /\ thread' # "none"
    BY <2>2 DEF TypeOK
  <2>. QED
    BY <2>1, <2>2
    DEF TypeOK, Schedule, Loop, Top, Begin, Cycle, Guard, Place, ExecEnds, Killed, Held,
        HaltCycle, AfterCycle, InCycle
<1>4. working' \in BOOLEAN
  <2>1. CASE UNCHANGED working
    BY <2>1 DEF TypeOK
  <2>2. CASE working' = TRUE
    BY <2>2
  <2>. QED
    BY <2>1, <2>2
    DEF Schedule, Loop, Top, Begin, Cycle, Guard, Place, ExecEnds, Killed, Held, HaltCycle
<1>5. UNCHANGED <<up, bound, lead, stopper>>
  BY DEF Schedule, callVars
<1>. QED  BY <1>1, <1>2, <1>3, <1>4, <1>5 DEF TypeOK

LEMMA TypesKept ==
  ASSUME TypeOK, Process, [Next]_vars
  PROVE  TypeOK'
<1>1. CASE UNCHANGED vars
  BY <1>1 DEF TypeOK, StoreTypeOK, vars, storeVars, callVars, schedVars
<1>2. CASE Next
  <2>1. StoreTypeOK'
    BY <1>2, StoreOrNot, TypeStep DEF TypeOK
  <2>2. ASSUME NEW m \in Manifests, Prepare(m) PROVE TypeOK'
    BY <2>1, <2>2 DEF TypeOK, Prepare, Busy, schedVars
  <2>3. ASSUME NEW how \in {"pause", "revoke"}, Halt(how) PROVE TypeOK'
    BY <2>1, <2>3 DEF TypeOK, Halt, schedVars
  <2>. QED
    BY <1>2, <2>1, <2>2, <2>3, LeadTypes, StopperTypes, OutsideTypes, ThreadTypes DEF Next
<1>. QED  BY <1>1, <1>2
----------------------------------------------------------------------------
(* What a transition of the store does to the rows.                         *)
LEMMA Moved ==
  ASSUME StoreTypeOK, NEW m \in Manifests, NEW to, NEW from, Move(m, from, to)
  PROVE  /\ state[m] \in from
         /\ \A k \in Manifests : state'[k] = IF k = m THEN to ELSE state[k]
BY DEF StoreTypeOK, Move

(* The lead's steps keep the rest of the invariant.                         *)
LEMMA LeadKeeps ==
  ASSUME IInv, TypeOK', LeadStep
  PROVE  Course'
<1>. USE NoManifestAssumption
         DEF IInv, Course, TypeOK, Process, Handshake, Standing, RolledBack, OnlyBoundTrades,
             Launched, Trying, Undoing, Busy, Idle, NoStop, InCycle, Trading
<1>1. StoreTypeOK
  BY DEF TypeOK
<1>2. CASE PrepareActivate
  BY <1>2, <1>1, Moved DEF PrepareActivate, schedVars, callVars, Lead, storeVars, Activate
<1>3. CASE PrepareBind
  <2>1. state' = state
    BY <1>3 DEF PrepareBind, storeVars
  <2>. QED
    BY <1>3, <2>1 DEF PrepareBind, schedVars, callVars, Lead
<1>4. CASE PrepareUnbind
  BY <1>4, <1>1, Moved DEF PrepareUnbind, schedVars, callVars, storeVars, Pause, Pausable,
         Active
<1>5. CASE StartArm
  BY <1>5, <1>1, Moved DEF StartArm, schedVars, callVars, Lead, storeVars, Arm
<1>6. CASE StartOpen
  <2>1. state' = state
    BY <1>6 DEF StartOpen, storeVars
  <2>. QED
    BY <1>6, <2>1 DEF StartOpen, schedVars, callVars, Lead
<1>7. CASE StartLaunch
  <2>1. state' = state
    BY <1>7 DEF StartLaunch, storeVars
  <2>. QED
    BY <1>7, <2>1 DEF StartLaunch, schedVars, callVars, Lead, Spawn, CanSpawn
<1>8. CASE StartAwait
  <2>1. state' = state
    BY <1>8 DEF StartAwait, storeVars
  <2>. QED
    BY <1>8, <2>1 DEF StartAwait, schedVars, callVars, Lead
<1>9. CASE StartVerify
  <2>1. state' = state
    BY <1>9 DEF StartVerify, storeVars
  <2>. QED
    BY <1>9, <2>1 DEF StartVerify, schedVars, callVars, Lead
<1>10. CASE StartClose
  <2>1. state' = state
    BY <1>10 DEF StartClose, storeVars
  <2>. QED
    BY <1>10, <2>1 DEF StartClose, schedVars, callVars, Lead
<1>11. CASE StartProve
  <2>1. state' = state
    BY <1>11 DEF StartProve, storeVars
  <2>. QED
    BY <1>11, <2>1 DEF StartProve, schedVars, callVars, Lead, NoWorkingRisk
<1>12. CASE StartMark
  BY <1>12, <1>1, Moved DEF StartMark, schedVars, callVars, Lead, storeVars, MarkRunning
<1>13. CASE StartRelease
  <2>1. state' = state
    BY <1>13 DEF StartRelease, storeVars
  <2>. QED
    BY <1>13, <2>1 DEF StartRelease, schedVars, callVars, Lead, Release, CanRelease
<1>14. CASE StartRaises
  <2>1. state' = state
    BY <1>14 DEF StartRaises, storeVars
  <2>. QED
    BY <1>14, <2>1 DEF StartRaises, schedVars, callVars, Lead, Caught
<1>15. CASE UndoSwitch
  <2>1. state' = state
    BY <1>15 DEF UndoSwitch, storeVars
  <2>. QED
    BY <1>15, <2>1 DEF UndoSwitch, schedVars, callVars, Lead
<1>16. CASE UndoStop
  <2>1. state' = state
    BY <1>16 DEF UndoStop, storeVars
  <2>. QED
    BY <1>16, <2>1 DEF UndoStop, schedVars, callVars, Lead, SignalStop, AfterSignal
<1>17. CASE UndoJoin
  <2>1. state' = state
    BY <1>17 DEF UndoJoin, storeVars
  <2>. QED
    BY <1>17, <2>1 DEF UndoJoin, schedVars, callVars, Lead, Joined
<1>18. CASE UndoPause
  BY <1>18, <1>1, Moved DEF UndoPause, schedVars, callVars, Lead, StillActive, Active,
         storeVars, Pause, Pausable
<1>. QED  BY <1>2, <1>3, <1>4, <1>5, <1>6, <1>7, <1>8, <1>9, <1>10, <1>11, <1>12, <1>13,
             <1>14, <1>15, <1>16, <1>17, <1>18 DEF LeadStep

(* The stopper's.                                                           *)
LEMMA StopperKeeps ==
  ASSUME IInv, TypeOK', StopperStep
  PROVE  Course'
<1>. USE NoManifestAssumption
         DEF IInv, Course, TypeOK, Process, Handshake, Standing, RolledBack, OnlyBoundTrades,
             Launched, Trying, Undoing, Busy, Idle, NoStop, InCycle, Trading
<1>1. StoreTypeOK
  BY DEF TypeOK
<1>2. CASE HaltStop
  <2>1. state' = state
    BY <1>2 DEF HaltStop, storeVars
  <2>. QED
    BY <1>2, <2>1 DEF HaltStop, schedVars, callVars, SignalStop, AfterSignal
<1>3. CASE HaltJoin
  <2>1. state' = state
    BY <1>3 DEF HaltJoin, storeVars
  <2>. QED
    BY <1>3, <2>1 DEF HaltJoin, schedVars, callVars, Joined
<1>4. CASE HaltReconcile
  <2>1. state' = state
    BY <1>4 DEF HaltReconcile, storeVars
  <2>2. Process'
    BY <1>4, <2>1 DEF HaltReconcile, schedVars
  <2>3. engaged => engaged'
    BY <1>4, Zenon DEF HaltReconcile
  <2>4. Handshake' /\ RolledBack'
    BY <1>4, <2>1, <2>3 DEF HaltReconcile, schedVars
  <2>5. Standing' /\ OnlyBoundTrades'
    BY <1>4, <2>1 DEF HaltReconcile, schedVars
  <2>. QED
    BY <2>2, <2>4, <2>5
<1>5. CASE HaltRecord
  BY <1>5, <1>1, Moved DEF HaltRecord, schedVars, callVars, storeVars, Pause, Revoke,
         Pausable, Active
<1>. QED  BY <1>2, <1>3, <1>4, <1>5 DEF StopperStep

(* The thread's.                                                            *)
LEMMA ThreadKeeps ==
  ASSUME IInv, TypeOK', Schedule
  PROVE  Course'
<1>. USE NoManifestAssumption
         DEF IInv, Course, TypeOK, Process, Handshake, Standing, RolledBack, OnlyBoundTrades,
             Launched, Trying, Undoing, Busy, Idle, NoStop, InCycle, Trading
<1>1. CASE Top
  <2>1. state' = state
    BY <1>1 DEF Top, storeVars
  <2>. QED
    BY <1>1, <2>1 DEF Top, Schedule, callVars, GoesOn, Exit
<1>2. CASE Begin
  <2>1. state' = state
    BY <1>2 DEF Begin, storeVars, HaltCycle
  <2>. QED
    BY <1>2, <2>1 DEF Begin, Schedule, callVars, HaltCycle, Publish, Exit
<1>3. CASE Cycle
  <2>1. state' = state
    BY <1>3 DEF Cycle, storeVars, HaltCycle
  <2>. QED
    BY <1>3, <2>1 DEF Cycle, Schedule, callVars, HaltCycle, Publish, Exit, AfterCycle
<1>4. CASE Guard
  <2>1. state' = state
    BY <1>4 DEF Guard, storeVars, HaltCycle, AuthorizeOrder
  <2>. QED
    BY <1>4, <2>1 DEF Guard, Schedule, callVars, HaltCycle, Publish, Exit
<1>5. CASE Place
  <2>1. state' = state
    BY <1>5 DEF Place, storeVars, HaltCycle
  <2>. QED
    BY <1>5, <2>1 DEF Place, Schedule, callVars
<1>6. CASE ExecEnds
  <2>1. state' = state
    BY <1>6 DEF ExecEnds, storeVars, HaltCycle
  <2>. QED
    BY <1>6, <2>1 DEF ExecEnds, Schedule, callVars, HaltCycle, Publish, Exit
<1>7. CASE Killed
  <2>1. state' = state
    BY <1>7 DEF Killed, storeVars, HaltCycle
  <2>. QED
    BY <1>7, <2>1 DEF Killed, Schedule, callVars, HaltCycle, Publish, Exit, AfterCycle
<1>8. CASE Held
  <2>1. state' = state
    BY <1>8 DEF Held, storeVars
  <2>. QED
    BY <1>8, <2>1 DEF Held, Schedule, callVars, Exit
<1>. QED  BY <1>1, <1>2, <1>3, <1>4, <1>5, <1>6, <1>7, <1>8 DEF Schedule, Loop

(* Everybody else's, and the process's.                                     *)
LEMMA OutsideKeeps ==
  ASSUME IInv, TypeOK', Start \/ Approve \/ Engage \/ Settle \/ Crash \/ Restart \/ Recover
  PROVE  Course'
<1>. USE NoManifestAssumption
         DEF IInv, Course, TypeOK, Process, Handshake, Standing, RolledBack, OnlyBoundTrades,
             Launched, Trying, Undoing, Busy, Idle, NoStop, InCycle, Trading
<1>1. StoreTypeOK
  BY DEF TypeOK
<1>2. CASE Start
  <2>1. state' = state
    BY <1>2 DEF Start, storeVars
  <2>. QED
    BY <1>2, <2>1 DEF Start, schedVars, callVars, CanSpawn
<1>3. CASE Approve
  BY <1>3, <1>1, Moved DEF Approve, schedVars, callVars, storeVars, Stage, ApproveRisk,
         ApproveOperations
<1>4. CASE Engage
  <2>1. state' = state
    BY <1>4 DEF Engage, storeVars
  <2>. QED
    BY <1>4, <2>1 DEF Engage, schedVars, callVars
<1>5. CASE Settle
  <2>1. state' = state
    BY <1>5 DEF Settle, storeVars
  <2>. QED
    BY <1>5, <2>1 DEF Settle, schedVars, callVars
<1>6. CASE Crash
  <2>1. state' = state
    BY <1>6 DEF Crash, storeVars
  <2>. QED
    BY <1>6, <2>1 DEF Crash, schedVars, callVars, Forget
<1>7. CASE Restart
  <2>1. state' = state
    BY <1>7 DEF Restart, storeVars
  <2>. QED
    BY <1>7, <2>1 DEF Restart, schedVars, callVars
<1>8. CASE RecoverEngage
  <2>1. state' = state
    BY <1>8 DEF RecoverEngage, storeVars
  <2>. QED
    BY <1>8, <2>1 DEF RecoverEngage, schedVars, callVars
<1>9. CASE RecoverPause
  BY <1>9, <1>1, Moved DEF RecoverPause, schedVars, callVars, Interrupted, Active, storeVars,
         Pause, Pausable
<1>10. CASE RecoverFails
  <2>1. state' = state
    BY <1>10 DEF RecoverFails, storeVars
  <2>. QED
    BY <1>10, <2>1 DEF RecoverFails, schedVars, callVars
<1>11. CASE RecoverDone
  <2>1. state' = state
    BY <1>11 DEF RecoverDone, storeVars
  <2>. QED
    BY <1>11, <2>1 DEF RecoverDone, schedVars, callVars, Interrupted, Active
<1>. QED  BY <1>2, <1>3, <1>4, <1>5, <1>6, <1>7, <1>8, <1>9, <1>10, <1>11 DEF Recover

LEMMA InitInv == Init => IInv
<1>1. Init => TypeOK
  <2>1. Init => StoreTypeOK
    BY StoreInitInv DEF Init, StoreInv
  <2>2. Init => engaged \in BOOLEAN /\ working \in BOOLEAN /\ incomplete \in BOOLEAN
                /\ running \in BOOLEAN /\ stopping \in BOOLEAN /\ released \in BOOLEAN
                /\ ~running
    BY Zenon DEF Init
  <2>. QED
    BY <2>1, <2>2 DEF Init, TypeOK, Idle, NoStop
<1>2. Init => Course
  BY NoManifestAssumption
  DEF Init, StoreInit, Course, Process, Handshake, Standing, RolledBack, OnlyBoundTrades,
      Launched, Trying, Undoing, Idle, NoStop, Trading
<1>. QED
  BY <1>1, <1>2 DEF IInv

LEMMA StepInv == IInv /\ [Next]_vars => IInv'
<1>. SUFFICES ASSUME IInv, [Next]_vars PROVE IInv'
  OBVIOUS
<1>1. TypeOK'
  BY TypesKept DEF IInv, Course
<1>2. CASE UNCHANGED vars
  BY <1>1, <1>2
  DEF IInv, Course, Process, Handshake, Standing, RolledBack, OnlyBoundTrades,
      vars, storeVars, callVars, schedVars
<1>3. CASE Next
  <2>1. ASSUME NEW m \in Manifests, Prepare(m) PROVE Course'
    BY <2>1, NoManifestAssumption
    DEF IInv, Course, TypeOK, Process, Handshake, Standing, RolledBack, OnlyBoundTrades,
        Launched, Trying, Undoing, Trading, Prepare, storeVars, schedVars
  <2>2. ASSUME NEW how \in {"pause", "revoke"}, Halt(how) PROVE Course'
    BY <2>2, NoManifestAssumption
    DEF IInv, Course, TypeOK, Process, Handshake, Standing, RolledBack, OnlyBoundTrades,
        Launched, Trying, Undoing, Trading, Halt, storeVars, schedVars, NoStop
  <2>3. Course'
    BY <1>1, <1>3, <2>1, <2>2, LeadKeeps, StopperKeeps, ThreadKeeps, OutsideKeeps DEF Next
  <2>. QED
    BY <1>1, <2>3 DEF IInv
<1>. QED  BY <1>2, <1>3

LEMMA Invariant == Spec => []IInv
BY InitInv, StepInv, PTL DEF Spec
----------------------------------------------------------------------------
(* Every state is well-typed.                                               *)
THEOREM TypeCorrect == Spec => []TypeOK
<1>1. IInv => TypeOK
  BY DEF IInv
<1>. QED  BY <1>1, Invariant, PTL

(* The whole controller uses the store only through its operations.         *)
THEOREM ImplementsStore == Spec => StoreSpec
<1>1. Init => StoreInit
  BY DEF Init
<1>2. IInv /\ [Next]_vars => [StoreNext]_storeVars
  BY StoreOrNot DEF IInv, Course, vars
<1>. QED  BY <1>1, <1>2, Invariant, PTL DEF Spec, StoreSpec

(* So what holds of the store holds of every execution of the controller.   *)
THEOREM TradingLimits == Spec => []DailyLimits
BY ImplementsStore, LimitsRespected, PTL

(* No order is ever authorized without the two approvals (ImplementsStore).  *)
THEOREM TradingAgreed == Spec => []TwoPeopleAgreed
BY ImplementsStore, TwoApprovals, PTL

(* Whatever the controller does, pausing and revoking are final.             *)
THEOREM HaltedStays == Spec => StoppedForGood
BY ImplementsStore, StoppedStays, PTL

(* No second cycle starts while the deployment is only armed.               *)
THEOREM OneCycle == Spec => []OneCycleUntilProven
<1>1. IInv => OneCycleUntilProven
  BY NoManifestAssumption
  DEF IInv, Course, TypeOK, Process, Handshake, Standing, OneCycleUntilProven, Launched,
      Trying, Undoing
<1>. QED  BY <1>1, Invariant, PTL

(* Only the manifest bound in this process can trade.                       *)
THEOREM BoundTrades == Spec => []OnlyBoundTrades
<1>1. IInv => OnlyBoundTrades
  BY DEF IInv, Course
<1>. QED  BY <1>1, Invariant, PTL

(* A start that failed is rolled back, whichever rail or race made it fail. *)
THEOREM FailedStarts == Spec => []FailedStartIsRolledBack
<1>1. IInv => FailedStartIsRolledBack
  BY DEF IInv, Course, RolledBack, Standing, FailedStartIsRolledBack
<1>. QED  BY <1>1, Invariant, PTL

(* A deployment is marked running by start alone, where all is proven.      *)
LEMMA MarkedByStart ==
  ASSUME IInv, Next, NEW m \in Manifests, state[m] # "running", state'[m] = "running"
  PROVE  StartMark
<1>1. StoreTypeOK
  BY DEF IInv, TypeOK
<1>2. CASE LeadStep
  <2>1. lead.pc # "idle" => lead.on \in Manifests
    BY DEF IInv, Course, Process
  <2>. QED
    BY <1>1, <1>2, <2>1, Moved
    DEF LeadStep, PrepareActivate, PrepareBind, PrepareUnbind, StartArm, StartOpen,
        StartLaunch, StartAwait, StartVerify, StartClose, StartProve, StartRelease,
        StartRaises, UndoSwitch, UndoStop, UndoJoin, UndoPause, Activate, Arm, Pause,
        storeVars
<1>3. CASE StopperStep
  <2>1. stopper.pc # "idle" => bound \in Manifests
    BY DEF IInv, Course, Process, TypeOK
  <2>. QED
    BY <1>1, <1>3, <2>1, Moved
    DEF StopperStep, HaltStop, HaltJoin, HaltReconcile, HaltRecord, Pause, Revoke, storeVars
<1>4. CASE Schedule
  BY <1>4 DEF Schedule, Loop, Top, Begin, Cycle, Guard, Place, ExecEnds, Killed, Held,
              HaltCycle, AuthorizeOrder, storeVars
<1>5. CASE Approve
  BY <1>1, <1>5, Moved DEF Approve, Stage, ApproveRisk, ApproveOperations
<1>6. CASE Recover
  BY <1>1, <1>6, Moved
  DEF Recover, RecoverEngage, RecoverPause, RecoverFails, RecoverDone, Interrupted, Pause,
      storeVars
<1>. QED
  BY <1>2, <1>3, <1>4, <1>5, <1>6
  DEF Next, Start, Engage, Settle, Crash, Restart, Prepare, Halt, storeVars

(* Running is only ever granted on proof, whatever acts in between.         *)
THEOREM Proven == Spec => RunningIsProven
<1>1. IInv /\ [Next]_vars =>
        [\A m \in Manifests : state[m] # "running" /\ state'[m] = "running" =>
           engaged /\ first = "ok" /\ ~working /\ thread \in {"held", "none"}]_vars
  <2>. SUFFICES ASSUME IInv, Next, NEW m \in Manifests,
                       state[m] # "running", state'[m] = "running"
                PROVE  engaged /\ first = "ok" /\ ~working /\ thread \in {"held", "none"}
    OBVIOUS
  <2>1. lead.pc = "mark"
    BY MarkedByStart DEF StartMark
  <2>. QED
    BY <2>1 DEF IInv, Course, Handshake
<1>. QED  BY <1>1, Invariant, PTL DEF Spec, RunningIsProven

=============================================================================
