------------------------------ MODULE Deployment ------------------------------
(***************************************************************************)
(* The life of a controlled deployment: FoundationLiveController           *)
(* (deployment/live.py) over the durable manifests (DeploymentStore), the  *)
(* kill switch, and the scheduler thread (utils/scheduler.py) that runs    *)
(* the trading session's cycles (utils/live_session.py).                   *)
(*                                                                         *)
(* Three threads share them: the lead, who calls prepare and start; the    *)
(* stopper, who calls pause or revoke; and the scheduler's.  Nothing       *)
(* orders their steps but what they read.  The process may die between     *)
(* any two of them; manifests, switch and orders at the broker survive.    *)
(*                                                                         *)
(* That a person turns the switch off by hand is not modelled: every rule  *)
(* here is about the switch as the code uses it.                           *)
(***************************************************************************)
EXTENDS DeploymentStore

CONSTANT Faults   \* what may go wrong: see Fault

\* write: the switch, the store or the audit log cannot be written; the call
\*        raises and changes nothing.
\* late:  scheduler.stop gives up waiting for the thread.
\* unlisted: the executor takes an order it does not find for one that is over.
\* crash: the process dies.
Fault == {"write", "late", "unlisted", "crash"}

ASSUME DeploymentAssumption == Faults \subseteq Fault

NoManifest == "no manifest"
ASSUME NoManifestAssumption == NoManifest \notin Manifests

VARIABLES
  engaged,     \* the kill switch
  working,     \* an order of the deployment is at work at the broker
  up,          \* the process: "down", "recovering" in the controller's constructor, "up"
  bound,       \* the manifest the context's session was configured for
  lead,        \* where prepare or start stands, and for which manifest
  stopper,     \* where pause or revoke stands, and which of them it is
  incomplete,  \* a roll-back rail of start failed
  thread,      \* where the scheduler's thread stands, "none" if there is none
  running,     \* its _running
  stopping,    \* _stop_event
  released,    \* _first_cycle_release_event
  first        \* _first_cycle_outcome

schedVars == <<thread, running, stopping, released, first>>
callVars  == <<bound, lead, stopper, incomplete>>
vars == <<storeVars, engaged, working, up, callVars, schedVars>>
----------------------------------------------------------------------------
\* Where start may be between arming and its return: the body of its try.
Trying  == {"open", "launch", "await", "verify", "close", "prove", "mark",
            "reopen", "release"}
Undoing == {"undo_switch", "undo_stop", "undo_join", "undo_pause"}
Busy    == {"activate", "bind", "unbind", "arm"} \cup Trying \cup Undoing
InCycle == {"begin", "cycle", "guard", "exec", "killed"}

Idle     == [pc |-> "idle", on |-> NoManifest]
NoStop   == [pc |-> "idle", how |-> "none"]

TypeOK ==
  /\ StoreTypeOK
  /\ engaged \in BOOLEAN /\ working \in BOOLEAN
  /\ up \in {"down", "recovering", "up"}
  /\ bound \in Manifests \cup {NoManifest}
  /\ lead \in [pc : {"idle", "started", "failed"} \cup Busy, on : Manifests \cup {NoManifest}]
  /\ stopper \in [pc : {"idle", "stop", "join", "reconcile", "record"},
                  how : {"none", "pause", "revoke"}]
  /\ incomplete \in BOOLEAN
  /\ thread \in {"none", "top", "held"} \cup InCycle
  /\ running \in BOOLEAN /\ stopping \in BOOLEAN /\ released \in BOOLEAN
  /\ first \in {"none", "ok", "bad"}
  /\ running => thread # "none"

Init ==
  /\ StoreInit /\ engaged = TRUE /\ working = FALSE /\ up = "up"
  /\ bound = NoManifest /\ lead = Idle /\ stopper = NoStop /\ incomplete = FALSE
  /\ thread = "none" /\ running = FALSE
  /\ stopping = FALSE /\ released = FALSE /\ first = "none"
----------------------------------------------------------------------------
(* The scheduler's own operations.                                          *)

\* start: refused while a thread is alive, else a new generation.
CanSpawn == thread = "none"
Spawn ==
  /\ CanSpawn
  /\ thread' = "top" /\ running' = TRUE
  /\ stopping' = FALSE /\ released' = FALSE /\ first' = "none"

\* stop, up to the join: it does nothing, and waits for nothing, when no
\* thread is alive.
AfterSignal(join, past) == IF thread = "none" THEN past ELSE join
SignalStop ==
  /\ IF thread = "none" THEN UNCHANGED <<stopping, released>>
                        ELSE stopping' = TRUE /\ released' = TRUE
  /\ UNCHANGED <<thread, running, first>>

\* stop, from the join on.
Joined ==
  /\ thread = "none" \/ "late" \in Faults
  /\ running' = FALSE /\ UNCHANGED <<thread, stopping, released, first>>

\* release_after_first_cycle returns TRUE.
CanRelease == first # "none" /\ ~released
Release == CanRelease /\ released' = TRUE /\ UNCHANGED <<thread, running, stopping, first>>
----------------------------------------------------------------------------
(* The lead: prepare.                                                       *)
Lead(place) == lead' = [lead EXCEPT !.pc = place]
Fail(write) == write \/ "write" \in Faults

(* The preflight up to its last check: an automation session must not be    *)
(* configured, the switch must be on and no order at work.                  *)
Prepare(m) ==
  /\ up = "up" /\ lead.pc = "idle" /\ state[m] = "ops_approved"
  /\ bound = NoManifest /\ engaged /\ ~working
  /\ lead' = [pc |-> "activate", on |-> m]
  /\ UNCHANGED <<storeVars, engaged, working, up, bound, stopper, incomplete, schedVars>>

PrepareActivate ==
  /\ lead.pc = "activate"
  /\ \/ Activate(lead.on) /\ Lead("bind")
     \/ Fail(state[lead.on] # "ops_approved") /\ lead' = Idle /\ UNCHANGED storeVars
  /\ UNCHANGED <<engaged, working, up, bound, stopper, incomplete, schedVars>>

\* configure_session binds the session to the manifest, or raises.
PrepareBind ==
  /\ lead.pc = "bind"
  /\ \/ bound' = lead.on /\ lead' = Idle
     \/ Lead("unbind") /\ UNCHANGED bound
  /\ UNCHANGED <<storeVars, engaged, working, up, stopper, incomplete, schedVars>>

PrepareUnbind ==
  /\ lead.pc = "unbind"
  /\ \/ Pause(lead.on)
     \/ Fail(state[lead.on] \notin Pausable) /\ UNCHANGED storeVars
  /\ lead' = Idle
  /\ UNCHANGED <<engaged, working, up, bound, stopper, incomplete, schedVars>>
----------------------------------------------------------------------------
(* The lead: start.                                                         *)
Start ==
  /\ up = "up" /\ lead.pc = "idle" /\ bound # NoManifest
  /\ state[bound] = "activated" /\ engaged /\ ~working /\ CanSpawn
  /\ lead' = [pc |-> "arm", on |-> bound]
  /\ UNCHANGED <<storeVars, engaged, working, up, bound, stopper, incomplete, schedVars>>

StartArm ==
  /\ lead.pc = "arm"
  /\ \/ Arm(lead.on) /\ Lead("open")
     \/ Fail(state[lead.on] # "activated") /\ lead' = Idle /\ UNCHANGED storeVars
  /\ UNCHANGED <<engaged, working, up, bound, stopper, incomplete, schedVars>>

\* kill_switch.disengage, for the first cycle and for good.
StartOpen ==
  /\ \/ lead.pc = "open" /\ Lead("launch")
     \/ lead.pc = "reopen" /\ Lead("release")
  /\ engaged' = FALSE
  /\ UNCHANGED <<storeVars, working, up, bound, stopper, incomplete, schedVars>>

StartLaunch ==
  /\ lead.pc = "launch" /\ Spawn /\ Lead("await")
  /\ UNCHANGED <<storeVars, engaged, working, up, bound, stopper, incomplete>>

StartAwait ==
  /\ lead.pc = "await" /\ first = "ok" /\ Lead("verify")
  /\ UNCHANGED <<storeVars, engaged, working, up, bound, stopper, incomplete, schedVars>>

\* The switch stayed off and the scheduler healthy.
StartVerify ==
  /\ lead.pc = "verify" /\ ~engaged /\ running /\ thread # "none" /\ Lead("close")
  /\ UNCHANGED <<storeVars, engaged, working, up, bound, stopper, incomplete, schedVars>>

StartClose ==
  /\ lead.pc = "close" /\ engaged' = TRUE /\ Lead("prove")
  /\ UNCHANGED <<storeVars, working, up, bound, stopper, incomplete, schedVars>>

\* Mutant of NoWorkingRisk: what the first cycle left behind is not looked at.
AnyWorkingRisk == TRUE

NoWorkingRisk == ~working

StartProve ==
  /\ lead.pc = "prove" /\ NoWorkingRisk /\ Lead("mark")
  /\ UNCHANGED <<storeVars, engaged, working, up, bound, stopper, incomplete, schedVars>>

StartMark ==
  /\ lead.pc = "mark" /\ MarkRunning(lead.on) /\ Lead("reopen")
  /\ UNCHANGED <<engaged, working, up, bound, stopper, incomplete, schedVars>>

StartRelease ==
  /\ lead.pc = "release" /\ Release /\ Lead("started")
  /\ UNCHANGED <<storeVars, engaged, working, up, bound, stopper, incomplete>>

\* Mutant of Caught: the wait for the first cycle is outside the try.
CaughtButWait == Trying \ {"await"}

Caught == Trying

(* Whatever raises between arming and the return goes to the roll-back: a   *)
(* write, a timeout, a bad first cycle, a failed check, a drift, a refused  *)
(* transition or release, an interrupt.                                     *)
StartRaises ==
  /\ lead.pc \in Caught /\ Lead("undo_switch")
  /\ UNCHANGED <<storeVars, engaged, working, up, bound, stopper, incomplete, schedVars>>

UndoSwitch ==
  /\ lead.pc = "undo_switch" /\ Lead("undo_stop")
  /\ \/ engaged' = TRUE /\ UNCHANGED incomplete
     \/ "write" \in Faults /\ incomplete' = TRUE /\ UNCHANGED engaged
  /\ UNCHANGED <<storeVars, working, up, bound, stopper, schedVars>>

UndoStop ==
  /\ lead.pc = "undo_stop" /\ SignalStop /\ Lead(AfterSignal("undo_join", "undo_pause"))
  /\ UNCHANGED <<storeVars, engaged, working, up, bound, stopper, incomplete>>

UndoJoin ==
  /\ lead.pc = "undo_join" /\ Joined /\ Lead("undo_pause")
  /\ UNCHANGED <<storeVars, engaged, working, up, bound, stopper, incomplete>>

\* Mutant of StillActive: a deployment that reached running is left alone.
StillArmed == state[lead.on] \in {"activated", "armed"}

StillActive == state[lead.on] \in Active

UndoPause ==
  /\ lead.pc = "undo_pause" /\ Lead("failed")
  /\ \/ StillActive /\ Pause(lead.on) /\ UNCHANGED incomplete
     \/ ~StillActive /\ UNCHANGED <<storeVars, incomplete>>
     \/ "write" \in Faults /\ incomplete' = TRUE /\ UNCHANGED storeVars
  /\ UNCHANGED <<engaged, working, up, bound, stopper, schedVars>>
----------------------------------------------------------------------------
(* The stopper: pause and revoke.  They need the verified deployment, so    *)
(* they exist once a session is bound.                                      *)
Halt(how) ==
  /\ up = "up" /\ stopper.pc = "idle" /\ bound # NoManifest
  /\ engaged' = TRUE /\ stopper' = [pc |-> "stop", how |-> how]
  /\ UNCHANGED <<storeVars, working, up, bound, lead, incomplete, schedVars>>

HaltStop ==
  /\ stopper.pc = "stop" /\ SignalStop
  /\ stopper' = [stopper EXCEPT !.pc = AfterSignal("join", "reconcile")]
  /\ UNCHANGED <<storeVars, engaged, working, up, bound, lead, incomplete>>

HaltJoin ==
  /\ stopper.pc = "join" /\ Joined /\ stopper' = [stopper EXCEPT !.pc = "reconcile"]
  /\ UNCHANGED <<storeVars, engaged, working, up, bound, lead, incomplete>>

\* A mismatch, or a reconciliation that cannot run, engages the switch.
HaltReconcile ==
  /\ stopper.pc = "reconcile" /\ stopper' = [stopper EXCEPT !.pc = "record"]
  /\ engaged' \in {engaged, TRUE}
  /\ UNCHANGED <<storeVars, working, up, bound, lead, incomplete, schedVars>>

HaltRecord ==
  /\ stopper.pc = "record" /\ stopper' = NoStop
  /\ \/ stopper.how = "pause" /\ Pause(bound)
     \/ stopper.how = "revoke" /\ Revoke(bound)
     \/ Fail(state[bound] \notin Pausable) /\ UNCHANGED storeVars
  /\ UNCHANGED <<engaged, working, up, bound, lead, incomplete, schedVars>>
----------------------------------------------------------------------------
(* The scheduler's thread: _run and evaluate_once.                          *)

Exit == thread' = "none" /\ running' = FALSE

\* _record_first_cycle: the first outcome of a generation stays.
Publish(outcome) == first' = IF first = "none" THEN outcome ELSE first

\* Mutant of GoesOn: the loop does not look at the stop event.
GoesOnForEver == TRUE

\* The loop's condition.
GoesOn == ~stopping

Top ==
  /\ thread = "top"
  /\ IF GoesOn THEN thread' = "begin" /\ UNCHANGED running ELSE Exit
  /\ UNCHANGED <<first, storeVars, working>>

\* A cycle that halts pauses the loop; so does one exception.
HaltCycle == Publish("bad") /\ Exit /\ UNCHANGED <<storeVars, working>>

Begin ==
  /\ thread = "begin"
  /\ \/ ~engaged /\ thread' = "cycle" /\ UNCHANGED <<running, first, storeVars, working>>
     \/ HaltCycle

\* Mutant of AfterCycle: the loop does not wait to be released.
NoHold == "top"

\* hold_after_first_cycle
AfterCycle == IF first = "none" THEN "held" ELSE "top"

\* The next intent, the end of the cycle, or a halt.  A cycle that finds the
\* market closed or a cancellation pending ends as well, and is not a good one.
Cycle ==
  /\ thread = "cycle"
  /\ \/ ~engaged /\ thread' = "guard" /\ UNCHANGED <<running, first, storeVars, working>>
     \/ /\ Publish("ok") \/ Publish("bad")
        /\ thread' = AfterCycle /\ UNCHANGED <<running, storeVars, working>>
     \/ HaltCycle

\* The execution guard authorizes the intent, or raises.
Guard ==
  /\ thread = "guard"
  /\ \/ /\ \E i \in Intents, d \in Days, n \in Notionals, opening \in BOOLEAN :
             AuthorizeOrder(bound, i, d, n, opening)
        /\ thread' = "exec" /\ UNCHANGED <<running, first, working>>
     \/ HaltCycle

\* The executor places an order; it looks at the switch each time.
Place == thread = "exec" /\ ~engaged /\ working' = TRUE
         /\ UNCHANGED <<thread, running, first, storeVars>>

\* It returns a report once it sees nothing at work, or fails and may leave an
\* order.
ExecEnds ==
  /\ thread = "exec"
  /\ \/ /\ ~working \/ "unlisted" \in Faults
        /\ thread' = "cycle" \/ (engaged /\ thread' = "killed")
        /\ UNCHANGED <<running, first, storeVars, working>>
     \/ HaltCycle

\* A killed report: the next intent halts the cycle, or there is none.
Killed ==
  /\ thread = "killed"
  /\ \/ Publish("bad") /\ thread' = AfterCycle /\ UNCHANGED <<running, storeVars, working>>
     \/ HaltCycle

\* _wait_for_first_cycle_release
Held ==
  /\ thread = "held"
  /\ \/ stopping /\ Exit
     \/ ~stopping /\ released /\ thread' = "top" /\ UNCHANGED running
  /\ UNCHANGED <<first, storeVars, working>>

Loop == Top \/ Begin \/ Cycle \/ Guard \/ Place \/ ExecEnds \/ Killed \/ Held
Schedule == Loop /\ UNCHANGED <<engaged, up, callVars, stopping, released>>
----------------------------------------------------------------------------
(* The people who stage and approve work at a process of their own.         *)
Approve ==
  /\ \E m \in Manifests :
       \/ Stage(m)
       \/ \E p \in RiskActors : ApproveRisk(m, p)
       \/ \E p \in OpsActors : ApproveOperations(m, p)
  /\ UNCHANGED <<engaged, working, up, callVars, schedVars>>

\* Another rail, or a person, turns trading off.
Engage ==
  /\ up = "up" /\ ~engaged /\ engaged' = TRUE
  /\ UNCHANGED <<storeVars, working, up, callVars, schedVars>>

\* The broker fills or closes what is at work.
Settle ==
  /\ working /\ working' = FALSE
  /\ UNCHANGED <<storeVars, engaged, up, callVars, schedVars>>

\* What a process forgets.
Forget ==
  /\ bound' = NoManifest /\ lead' = Idle /\ stopper' = NoStop /\ incomplete' = FALSE
  /\ thread' = "none" /\ running' = FALSE
  /\ stopping' = FALSE /\ released' = FALSE /\ first' = "none"

Crash ==
  /\ "crash" \in Faults /\ up # "down" /\ up' = "down" /\ Forget
  /\ UNCHANGED <<storeVars, engaged, working>>

Restart ==
  /\ up = "down" /\ up' = "recovering"
  /\ UNCHANGED <<storeVars, engaged, working, callVars, schedVars>>

\* Mutant of Interrupted: only a running deployment is thought interrupted.
InterruptedRunning == {m \in Manifests : state[m] = "running"}

Interrupted == {m \in Manifests : state[m] \in Active}

(* _recover_interrupted_deployments: engage, then pause, each record; what  *)
(* it cannot write raises out of the constructor.                           *)
RecoverEngage ==
  /\ up = "recovering" /\ Interrupted # {} /\ ~engaged /\ engaged' = TRUE
  /\ UNCHANGED <<storeVars, working, up, callVars, schedVars>>

RecoverPause ==
  /\ up = "recovering" /\ engaged /\ \E m \in Interrupted : Pause(m)
  /\ UNCHANGED <<engaged, working, up, callVars, schedVars>>

RecoverFails ==
  /\ up = "recovering" /\ Interrupted # {} /\ "write" \in Faults /\ up' = "down"
  /\ UNCHANGED <<storeVars, engaged, working, callVars, schedVars>>

RecoverDone ==
  /\ up = "recovering" /\ Interrupted = {} /\ up' = "up"
  /\ UNCHANGED <<storeVars, engaged, working, callVars, schedVars>>
----------------------------------------------------------------------------
LeadStep ==
  \/ PrepareActivate \/ PrepareBind \/ PrepareUnbind
  \/ StartArm \/ StartOpen \/ StartLaunch \/ StartAwait \/ StartVerify \/ StartClose
  \/ StartProve \/ StartMark \/ StartRelease \/ StartRaises
  \/ UndoSwitch \/ UndoStop \/ UndoJoin \/ UndoPause

StopperStep == HaltStop \/ HaltJoin \/ HaltReconcile \/ HaltRecord

Recover == RecoverEngage \/ RecoverPause \/ RecoverFails \/ RecoverDone

Next ==
  \/ Start \/ LeadStep \/ StopperStep \/ Schedule \/ Approve \/ Engage \/ Settle
  \/ Crash \/ Restart \/ Recover
  \/ \E m \in Manifests : Prepare(m)
  \/ \E how \in {"pause", "revoke"} : Halt(how)

Spec == Init /\ [][Next]_vars

(* The calls in progress and the thread keep running.  ExecEnds on its own: *)
(* the executor gives up at its deadline.  Nobody need prepare, start or    *)
(* stop a deployment, or restart the process.                               *)
FairSpec ==
  /\ Spec
  /\ WF_vars(LeadStep) /\ WF_vars(StopperStep) /\ WF_vars(Recover)
  /\ WF_vars(Schedule) /\ WF_vars(ExecEnds /\ UNCHANGED <<engaged, up, callVars, stopping, released>>)
----------------------------------------------------------------------------
(* A deployment becomes running only with the switch on, after a good first *)
(* cycle that left no order at work, and while no cycle is in progress      *)
(* (start, live.py:668-706), whatever pause, revoke and other rails do.     *)
RunningIsProven == [][\A m \in Manifests : state[m] # "running" /\ state'[m] = "running" =>
  engaged /\ first = "ok" /\ ~working /\ thread \in {"held", "none"}]_vars

(* While the deployment is only armed, no second cycle starts: once the     *)
(* first has an outcome the thread is held, or on its way out               *)
(* (hold_after_first_cycle, scheduler.py:255-257).                          *)
OneCycleUntilProven ==
  bound # NoManifest /\ state[bound] = "armed" /\ first # "none"
    => thread \in {"none", "held"}

(* Once the controller is up, only the manifest whose session is bound in   *)
(* this process can be authorized to trade: a restart inherits nothing      *)
(* (_recover_interrupted_deployments, live.py:403-428).                     *)
OnlyBoundTrades == \A m \in Manifests :
  up = "up" /\ state[m] \in Trading => bound = m

(* A start that failed has turned the switch on, stopped the thread or told *)
(* it to stop, and recorded it, unless it reported an incomplete roll-back  *)
(* (live.py:712-744).                                                       *)
FailedStartIsRolledBack == lead.pc = "failed" /\ ~incomplete =>
  /\ engaged
  /\ state[lead.on] \in {"paused", "revoked"}
  /\ thread # "none" => stopping

(* When no call is in progress, the kill switch is off only for the loop of *)
(* a deployment that may trade, or after a roll-back that reported it could *)
(* not turn it on (docs/FOUNDATION_DEPLOYMENT.md:66-67).                    *)
ReleasedOnlyToTrade ==
  ~engaged /\ lead.pc \notin Busy /\ stopper.pc = "idle"
    => incomplete \/ \E m \in Manifests : state[m] \in Trading

(* An armed deployment does not stay armed: it is proven, or rolled back,   *)
(* or the roll-back is reported incomplete, while the process lives.        *)
ActivationEnds == \A m \in Manifests :
  state[m] = "armed" ~> state[m] # "armed" \/ incomplete \/ up = "down"

(* A thread that was told to stop ends: it is never left waiting for a      *)
(* release or inside an endless cycle (stop, scheduler.py:171-196).         *)
StopEndsThread == stopping ~> thread = "none"
=============================================================================
