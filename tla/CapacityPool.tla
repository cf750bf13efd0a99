--------------------------- MODULE CapacityPool ---------------------------
(***************************************************************************)
(* What a risk ledger promises its callers, without order ids, fills or    *)
(* intents: a pool of capacity from which a claim is opened once, moves    *)
(* freely down, moves up only while the pool has room, and is closed once. *)
(***************************************************************************)
EXTENDS Totals

CONSTANTS
  ReservationIds,  \* the claims
  Dimensions,      \* the dimensions of a claim
  Capacity         \* the limit of each limited dimension

VARIABLES
  phase,  \* "new", "open" or "closed"
  held    \* what each claim takes in each dimension

poolVars == <<phase, held>>
----------------------------------------------------------------------------
Nothing == [d \in Dimensions |-> 0]

Open(p) == {r \in ReservationIds : p[r] = "open"}

\* The pool has room for what the open claims of p take in h.
HasRoom(p, h) ==
  \A d \in DOMAIN Capacity :
    Total([r \in ReservationIds |-> h[r][d]], Open(p)) <= Capacity[d]

Init ==
  /\ phase = [r \in ReservationIds |-> "new"]
  /\ held = [r \in ReservationIds |-> Nothing]

OpenClaim(r) ==
  /\ phase[r] = "new"
  /\ phase' = [phase EXCEPT ![r] = "open"]
  /\ held'[r] \in [Dimensions -> Nat]
  /\ held' = [held EXCEPT ![r] = held'[r]]
  /\ HasRoom(phase', held')

\* An adjustment may lower a claim at any time; raising it needs room.
Adjust(r) ==
  /\ phase[r] = "open"
  /\ held'[r] \in [Dimensions -> Nat]
  /\ held' = [held EXCEPT ![r] = held'[r]]
  /\ (\A d \in Dimensions : held'[r][d] <= held[r][d]) \/ HasRoom(phase, held')
  /\ UNCHANGED phase

CloseClaim(r) ==
  /\ phase[r] = "open"
  /\ phase' = [phase EXCEPT ![r] = "closed"]
  /\ held' = [held EXCEPT ![r] = Nothing]

Next == \E r \in ReservationIds : OpenClaim(r) \/ Adjust(r) \/ CloseClaim(r)

Spec == Init /\ [][Next]_poolVars
=============================================================================
