--------------------------- MODULE DeploymentStore ---------------------------
(***************************************************************************)
(* DeploymentStore (deployment/state.py): what survives of a Foundation    *)
(* deployment.  Every manifest has a row with its state and the two people *)
(* who approved it, and a table of the orders it was authorized to place.  *)
(*                                                                         *)
(* Each operation is one BEGIN IMMEDIATE transaction, with its audit row   *)
(* in the same transaction: it happens whole or not at all.  A call that   *)
(* is refused, or whose audit row cannot be written, leaves everything     *)
(* unchanged.                                                              *)
(***************************************************************************)
EXTENDS Totals

CONSTANTS
  Manifests,         \* the manifests (their hashes)
  RiskActors,        \* those who call approve_risk
  OpsActors,         \* those who call approve_operations
  Intents,           \* intent ids; a cycle never repeats one
  Days,              \* trading dates
  Notionals,         \* what an order may be worth
  MaxOrderNotional,  \* max_order_notional of a manifest
  MaxDailyOrders,    \* max_daily_orders
  MaxDailyNotional   \* max_daily_notional

NoOne == "no one"

ASSUME StoreAssumption ==
  /\ IsFiniteSet(Intents) /\ Notionals \subseteq Nat
  /\ NoOne \notin RiskActors \cup OpsActors
  /\ MaxOrderNotional \in Nat /\ MaxDailyOrders \in Nat /\ MaxDailyNotional \in Nat

VARIABLES
  state,     \* state[m]: the row's state, "unstaged" before there is a row
  approver,  \* approver[m]: risk_approver and ops_approver
  auth       \* auth[m]: the rows of deployment_order_authorizations, by intent

storeVars == <<state, approver, auth>>
----------------------------------------------------------------------------
States == {"unstaged", "staged", "risk_approved", "ops_approved", "activated",
           "armed", "running", "paused", "revoked"}

\* The states in which orders may be authorized.
Trading == {"armed", "running"}
\* The states that pause accepts, and that a restart must not inherit.
Active  == Trading \cup {"activated"}

Rows    == [day : Days, notional : Notionals, opening : BOOLEAN]
NoRow   == [day |-> "none", notional |-> 0, opening |-> FALSE]
Nobody  == [risk |-> NoOne, ops |-> NoOne]

StoreTypeOK ==
  /\ state \in [Manifests -> States]
  /\ approver \in [Manifests -> [risk : RiskActors \cup {NoOne}, ops : OpsActors \cup {NoOne}]]
  /\ auth \in [Manifests -> [Intents -> Rows \cup {NoRow}]]

StoreInit ==
  /\ state = [m \in Manifests |-> "unstaged"]
  /\ approver = [m \in Manifests |-> Nobody]
  /\ auth = [m \in Manifests |-> [i \in Intents |-> NoRow]]
----------------------------------------------------------------------------
(* stage and _transition: the manifest's row moves on from an allowed state. *)
Move(m, from, to) ==
  /\ state[m] \in from
  /\ state' = [state EXCEPT ![m] = to]
  /\ UNCHANGED auth

Stage(m)    == Move(m, {"unstaged"}, "staged") /\ UNCHANGED approver
Activate(m) == Move(m, {"ops_approved"}, "activated") /\ UNCHANGED approver
Arm(m)      == Move(m, {"activated"}, "armed") /\ UNCHANGED approver
MarkRunning(m) == Move(m, {"armed"}, "running") /\ UNCHANGED approver

\* Mutant of Pausable: a revoked manifest may be paused.
PausableAgain == Active \cup {"revoked"}

Pausable == Active
Pause(m)  == Move(m, Pausable, "paused") /\ UNCHANGED approver
Revoke(m) == Move(m, States \ {"unstaged", "revoked"}, "revoked") /\ UNCHANGED approver

ApproveRisk(m, p) ==
  /\ Move(m, {"staged"}, "risk_approved")
  /\ approver' = [approver EXCEPT ![m].risk = p]

\* Mutant of Distinct: anyone may give the second approval.
Anyone(m, p) == TRUE

\* require_distinct_risk_actor
Distinct(m, p) == p # approver[m].risk

ApproveOperations(m, p) ==
  /\ Distinct(m, p)
  /\ Move(m, {"risk_approved"}, "ops_approved")
  /\ approver' = [approver EXCEPT ![m].ops = p]
----------------------------------------------------------------------------
\* The opening orders authorized under m on a day.
Opened(m, d) == {i \in Intents : auth[m][i].opening /\ auth[m][i].day = d}
NotionalOf(m) == [i \in Intents |-> auth[m][i].notional]

\* Mutant of WithinLimits: the order itself is not counted.
BelowLimits(m, d, n) ==
  /\ Cardinality(Opened(m, d)) < MaxDailyOrders
  /\ Total(NotionalOf(m), Opened(m, d)) <= MaxDailyNotional

\* Room for one more opening order of notional n.
WithinLimits(m, d, n) ==
  /\ n <= MaxOrderNotional
  /\ Cardinality(Opened(m, d)) < MaxDailyOrders
  /\ Total(NotionalOf(m), Opened(m, d)) + n <= MaxDailyNotional

(* authorize_order.  Exits count against no limit.  An id that is there is  *)
(* answered without a change: authorized if the economics are the same,     *)
(* refused if they are not.  Expiry and universe refuse an order whatever   *)
(* the store holds.                                                         *)
AuthorizeOrder(m, i, d, n, opening) ==
  /\ state[m] \in Trading
  /\ auth[m][i] = NoRow
  /\ opening => WithinLimits(m, d, n)
  /\ auth' = [auth EXCEPT ![m][i] = [day |-> d, notional |-> n, opening |-> opening]]
  /\ UNCHANGED <<state, approver>>

StoreNext == \E m \in Manifests :
  \/ Stage(m) \/ Activate(m) \/ Arm(m) \/ MarkRunning(m) \/ Pause(m) \/ Revoke(m)
  \/ \E p \in RiskActors : ApproveRisk(m, p)
  \/ \E p \in OpsActors : ApproveOperations(m, p)
  \/ \E i \in Intents, d \in Days, n \in Notionals, opening \in BOOLEAN :
       AuthorizeOrder(m, i, d, n, opening)

StoreSpec == StoreInit /\ [][StoreNext]_storeVars
----------------------------------------------------------------------------
(* What was opened under a manifest on a day stays within its daily order   *)
(* and notional limits, whoever asks and in whatever order                  *)
(* (authorize_order, state.py:522-537).                                     *)
DailyLimits == \A m \in Manifests, d \in Days :
  /\ Cardinality(Opened(m, d)) <= MaxDailyOrders
  /\ Total(NotionalOf(m), Opened(m, d)) <= MaxDailyNotional

(* An order was only ever authorized under a manifest that two different    *)
(* people approved, however it came to be armed and whatever became of it.  *)
TwoPeopleAgreed == \A m \in Manifests :
  (\E i \in Intents : auth[m][i] # NoRow)
    => approver[m] \in [risk : RiskActors, ops : OpsActors] /\ approver[m].risk # approver[m].ops

(* A paused manifest can only be revoked and a revoked one never comes      *)
(* back; neither is authorized another order.                               *)
StoppedForGood == [][\A m \in Manifests : state[m] \in {"paused", "revoked"} =>
  /\ state'[m] \in {state[m], "revoked"}
  /\ auth'[m] = auth[m]]_storeVars
=============================================================================
