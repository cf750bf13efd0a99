---------------------------- MODULE RiskLedger ----------------------------
(***************************************************************************)
(* RiskReservationLedger (portfolio/risk_reservations.py): the durable     *)
(* record of the risk held by live orders that have not filled yet.        *)
(*                                                                         *)
(* Every public operation of the class runs in one BEGIN IMMEDIATE         *)
(* transaction and rolls back when it raises, so an operation is one       *)
(* action here and a call that raises is a step that changes nothing.      *)
(* What makes a call raise is its Can... predicate, which the callers in   *)
(* LiveOrder use to take their error paths.                                *)
(*                                                                         *)
(* A risk vector maps a dimension (gross, cash_debit, or a key of          *)
(* per_name, sector or option) to an amount.  The code scales the          *)
(* requested vector by the unfilled fraction 1 - filled/units; here an     *)
(* intent carries the risk of ONE unit, so that the scaled vector is       *)
(* rate * (units - filled) and stays integral.                             *)
(***************************************************************************)
EXTENDS Totals

CONSTANTS
  ReservationIds,   \* reservation_id: one per clientOrderId
  OrderIds,         \* order_id: what the broker calls an accepted order
  Dimensions,       \* all the dimensions of a risk vector
  Scalars,          \* the dimensions checked whatever the request ("gross", "cash_debit")
  Capacity,         \* the limit of each configured dimension
  MaxUnits,         \* bound: units of one intent
  Rates,            \* the vectors that the risk of one unit is taken from
  Bases,            \* the vectors that the risk of the positions held is taken from
  NoReservation,    \* the owner of an order id that is not bound
  NoIntent          \* the intent of a reservation that does not exist

ASSUME LedgerAssumption ==
  /\ IsFiniteSet(ReservationIds) /\ IsFiniteSet(OrderIds)
  /\ Scalars \subseteq Dimensions
  /\ Capacity \in [DOMAIN Capacity -> Nat]
  /\ DOMAIN Capacity \subseteq Dimensions
  /\ MaxUnits \in Nat
  /\ Rates \subseteq [Dimensions -> Nat] /\ Bases \subseteq [Dimensions -> Nat]
  /\ NoReservation \notin ReservationIds

VARIABLES
  status,      \* risk_reservations.status, "ABSENT" when there is no row
  intent,      \* risk_reservations.intent_json: units, reducing, risk of one unit
  remaining,   \* risk_reservations.remaining_risk_json
  binding      \* risk_reservation_orders: owner, cumulative fill and status of an order

ledgerVars == <<status, intent, remaining, binding>>
----------------------------------------------------------------------------
Vector == [Dimensions -> Nat]
Intent == [units : 1 .. MaxUnits, reducing : BOOLEAN, rate : Rates]

Zero == [d \in Dimensions |-> 0]
Scale(v, n) == [d \in Dimensions |-> v[d] * n]

\* CANCELLED stands for CANCELLED, CANCELED, REJECTED and EXPIRED.
Releasing == {"CANCELLED", "EXECUTED", "FILLED"}
Inactive  == Releasing \cup {"REPLACED"}
Observed  == {"OPEN"} \cup Releasing
OrderStatus == {"NONE", "PENDING"} \cup Observed \cup Inactive

Unbound == [owner |-> NoReservation, filled |-> 0, status |-> "NONE"]
Binding == [owner : ReservationIds \cup {NoReservation}, filled : Nat, status : OrderStatus]

TypeOK ==
  /\ status \in [ReservationIds -> {"ABSENT", "ACTIVE", "RELEASED", "FILLED"}]
  /\ intent \in [ReservationIds -> Intent \cup {NoIntent}]
  /\ remaining \in [ReservationIds -> Vector]
  /\ binding \in [OrderIds -> Binding]
  /\ \A r \in ReservationIds : status[r] # "ABSENT" => intent[r] \in Intent
  /\ \A o \in OrderIds : binding[o].owner # NoReservation => status[binding[o].owner] # "ABSENT"

Init ==
  /\ status = [r \in ReservationIds |-> "ABSENT"]
  /\ intent = [r \in ReservationIds |-> NoIntent]
  /\ remaining = [r \in ReservationIds |-> Zero]
  /\ binding = [o \in OrderIds |-> Unbound]
----------------------------------------------------------------------------
Active == {r \in ReservationIds : status[r] = "ACTIVE"}

\* The risk of the reservations in R, in dimension d.
HeldBy(R, d) == Total([r \in ReservationIds |-> remaining[r][d]], R)
ActiveTotal(d) == HeldBy(Active, d)

OrdersOf(b, r) == {o \in OrderIds : b[o].owner = r}

\* Units filled over every order ever bound to r, replaced ones included.
Filled(b, r) == Total([o \in OrderIds |-> b[o].filled], OrdersOf(b, r))

\* What is still held for intent i once n of its units have filled.
Unfilled(i, n) == IF i.reducing THEN Zero ELSE Scale(i.rate, i.units - n)

\* The limits a caller passes: none for an order that only reduces positions.
Limits(i) == IF i.reducing THEN [d \in {} |-> 0] ELSE Capacity

\* Mutant of Fits: the other reservations are not counted.
FitsAlone(base, R, i, v, limits) ==
  \A d \in DOMAIN limits :
    d \in Scalars \/ i.rate[d] > 0 => base[d] + v[d] <= limits[d]

\* No breach: in every limited dimension that the request names, what is used
\* by the positions (base) and by the reservations R leaves room for v.
Fits(base, R, i, v, limits) ==
  \A d \in DOMAIN limits :
    d \in Scalars \/ i.rate[d] > 0 => base[d] + HeldBy(R, d) + v[d] <= limits[d]

Bindable(o, r) == binding[o].owner \in {NoReservation, r}

\* The bindings once every order of os is bound to r.
BindAll(b, os, r) ==
  [o \in OrderIds |->
     IF o \in os /\ b[o].owner # r
     THEN [owner |-> r, filled |-> 0, status |-> "PENDING"]
     ELSE b[o]]
----------------------------------------------------------------------------
(* check_and_reserve: a first call with room for the intent inserts an      *)
(* ACTIVE row.  A repeated call with the same intent takes nothing more and *)
(* only binds the orders it names; with another intent, or with metadata    *)
(* that differ (left out of the model), it raises.                          *)
CanReserve(r, i, base) ==
  IF status[r] = "ABSENT"
  THEN Fits(base, Active, i, Unfilled(i, 0), Limits(i))
  ELSE intent[r] = i

Reserve(r, i, base, os) ==
  /\ status[r] = "ABSENT"
  /\ CanReserve(r, i, base)
  /\ \A o \in os : Bindable(o, r)
  /\ status' = [status EXCEPT ![r] = "ACTIVE"]
  /\ intent' = [intent EXCEPT ![r] = i]
  /\ remaining' = [remaining EXCEPT ![r] = Unfilled(i, 0)]
  /\ binding' = BindAll(binding, os, r)

ReserveAgain(r, i, base, os) ==
  /\ status[r] # "ABSENT"
  /\ CanReserve(r, i, base)
  /\ status[r] = "ACTIVE" => \A o \in os : Bindable(o, r)
  /\ binding' = IF status[r] = "ACTIVE" THEN BindAll(binding, os, r) ELSE binding
  /\ UNCHANGED <<status, intent, remaining>>

CheckAndReserve(r, i, base, os) ==
  Reserve(r, i, base, os) \/ ReserveAgain(r, i, base, os)

(* bind_order, without and with replaces_order_id.                          *)
\* Mutant of CanBind: the reservation is not looked up.
CanBindAnywhere(r, o) == Bindable(o, r)
CanBind(r, o) == status[r] = "ACTIVE" /\ Bindable(o, r)

BindOrder(r, o) ==
  /\ CanBind(r, o)
  /\ binding' = BindAll(binding, {o}, r)
  /\ UNCHANGED <<status, intent, remaining>>

ReplaceOrder(r, o, old) ==
  /\ CanBind(r, o)
  /\ old # o /\ binding[old].owner = r
  /\ binding' = BindAll([binding EXCEPT ![old].status = "REPLACED"], {o}, r)
  /\ UNCHANGED <<status, intent, remaining>>

(* revalue: the unfilled share at the latest price must fit beside the      *)
(* other reservations; a breach leaves both vectors as they were.           *)
Repriced(r, rate) == [intent[r] EXCEPT !.rate = rate]

\* Mutant of CanRevalue: a closed reservation is revalued too.
CanRevalueClosed(r, rate, base) ==
  /\ status[r] # "ABSENT"
  /\ LET i == Repriced(r, rate) IN
       Fits(base, Active \ {r}, i, Unfilled(i, Filled(binding, r)), Limits(i))

CanRevalue(r, rate, base) ==
  /\ status[r] = "ACTIVE"
  /\ LET i == Repriced(r, rate) IN
       Fits(base, Active \ {r}, i, Unfilled(i, Filled(binding, r)), Limits(i))

\* Mutant of Revalue: the whole vector is held again, fills are forgotten.
RevalueWhole(r, rate, base) ==
  /\ CanRevalue(r, rate, base)
  /\ intent' = [intent EXCEPT ![r] = Repriced(r, rate)]
  /\ remaining' = [remaining EXCEPT ![r] = Unfilled(Repriced(r, rate), 0)]
  /\ UNCHANGED <<status, binding>>

Revalue(r, rate, base) ==
  /\ CanRevalue(r, rate, base)
  /\ intent' = [intent EXCEPT ![r] = Repriced(r, rate)]
  /\ remaining' = [remaining EXCEPT ![r] = Unfilled(Repriced(r, rate), Filled(binding, r))]
  /\ UNCHANGED <<status, binding>>

(* record_order_update: the broker's cumulative fill and status of order o. *)
Updated(o, n, st) == [binding EXCEPT ![o].filled = n, ![o].status = st]

\* Mutant of CanRecord: a cumulative fill may go back.
CanRecordAny(o, n, st) ==
  LET r == binding[o].owner IN
  /\ r # NoReservation
  /\ binding[o].status \in Inactive => st \in Inactive
  /\ Filled(Updated(o, n, st), r) <= intent[r].units

CanRecord(o, n, st) ==
  LET r == binding[o].owner IN
  /\ r # NoReservation
  /\ n >= binding[o].filled
  /\ binding[o].status \in Inactive => st \in Inactive
  /\ Filled(Updated(o, n, st), r) <= intent[r].units

RecordOrderUpdate(o, n, st) ==
  LET r == binding[o].owner
      b == Updated(o, n, st)
      settled == \A p \in OrdersOf(b, r) : b[p].status \in Inactive
      outcome == IF st = "FILLED" THEN "FILLED"
                 ELSE IF st \in Releasing /\ settled THEN "RELEASED" ELSE "ACTIVE"
  IN /\ CanRecord(o, n, st)
     /\ binding' = b
     /\ IF status[r] = "ACTIVE"
        THEN /\ status' = [status EXCEPT ![r] = outcome]
             /\ remaining' = [remaining EXCEPT ![r] =
                  IF outcome = "ACTIVE" THEN Unfilled(intent[r], Filled(b, r)) ELSE Zero]
        ELSE UNCHANGED <<status, remaining>>
     /\ UNCHANGED intent

\* Mutant of Release: the row is closed and its vector left as it was.
ReleaseRow(r) ==
  /\ status[r] # "ABSENT"
  /\ status' = [status EXCEPT ![r] = IF @ = "ACTIVE" THEN "RELEASED" ELSE @]
  /\ UNCHANGED <<intent, remaining, binding>>

(* release: idempotent; KeyError when there is no row.                      *)
Release(r) ==
  /\ status[r] # "ABSENT"
  /\ IF status[r] = "ACTIVE"
     THEN /\ status' = [status EXCEPT ![r] = "RELEASED"]
          /\ remaining' = [remaining EXCEPT ![r] = Zero]
     ELSE UNCHANGED <<status, remaining>>
  /\ UNCHANGED <<intent, binding>>
----------------------------------------------------------------------------
Next ==
  \/ \E r \in ReservationIds, i \in Intent, base \in Bases, os \in SUBSET OrderIds :
       CheckAndReserve(r, i, base, os)
  \/ \E r \in ReservationIds, o \in OrderIds : BindOrder(r, o)
  \/ \E r \in ReservationIds, o, old \in OrderIds : ReplaceOrder(r, o, old)
  \/ \E r \in ReservationIds, rate \in Rates, base \in Bases :
       Revalue(r, rate, base)
  \/ \E o \in OrderIds, n \in 0 .. MaxUnits, st \in Observed : RecordOrderUpdate(o, n, st)
  \/ \E r \in ReservationIds : Release(r)

Spec == Init /\ [][Next]_ledgerVars
----------------------------------------------------------------------------
(* The risk held by the active reservations never exceeds the configured    *)
(* capacity in any limited dimension, whatever sequence of reservations,    *)
(* revaluations at new prices, replacements, fills and releases led here:   *)
(* every path that can raise remaining_risk_json goes through the check of  *)
(* _capacity_breaches, and no other path raises it.                         *)
ActiveWithinCapacity == \A d \in DOMAIN Capacity : ActiveTotal(d) <= Capacity[d]

(* remaining_risk_json agrees with the bindings: an active reservation      *)
(* holds exactly the share of its risk that no bound order has filled, over *)
(* the whole replacement chain; a closed one holds nothing; and the orders  *)
(* of one intent never fill more units than it reserved.                    *)
RemainingIsUnfilledShare ==
  \A r \in ReservationIds :
    /\ remaining[r] = IF status[r] = "ACTIVE"
                      THEN Unfilled(intent[r], Filled(binding, r)) ELSE Zero
    /\ status[r] # "ABSENT" => Filled(binding, r) <= intent[r].units

(* Once released or filled a reservation is closed for good: no late fill,  *)
(* repeated check_and_reserve, binding or revaluation takes capacity again. *)
ClosedForGood ==
  [][\A r \in ReservationIds :
       status[r] \in {"RELEASED", "FILLED"} =>
         status'[r] = status[r] /\ remaining'[r] = Zero]_ledgerVars

(* What the ledger knows of an order only moves forward: it stays bound to  *)
(* its reservation, its cumulative fill never falls, and after a terminal   *)
(* status it never counts as working again.                                 *)
OrdersMoveForward ==
  [][\A o \in OrderIds :
       binding[o].owner # NoReservation =>
         /\ binding'[o].owner = binding[o].owner
         /\ binding'[o].filled >= binding[o].filled
         /\ binding[o].status \in Inactive => binding'[o].status \in Inactive]_ledgerVars

(* The ledger implements the capacity pool its callers rely on: whatever    *)
(* happens to the orders bound to it, a reservation is one claim, opened    *)
(* once within capacity, raised only within capacity, and closed once.      *)
phaseOf == [r \in ReservationIds |->
              CASE status[r] = "ABSENT" -> "new"
                [] status[r] = "ACTIVE" -> "open"
                [] OTHER -> "closed"]

Pool == INSTANCE CapacityPool WITH phase <- phaseOf, held <- remaining

ImplementsPool == Pool!Spec
=============================================================================
