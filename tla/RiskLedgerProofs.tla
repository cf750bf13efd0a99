------------------------- MODULE RiskLedgerProofs -------------------------
(***************************************************************************)
(* The theorems about RiskLedger, for every set of reservations and orders *)
(* and every capacity.                                                     *)
(*                                                                         *)
(* ActiveWithinCapacity is not inductive: a status update recomputes the   *)
(* remaining risk from the requested one, and only the agreement between   *)
(* remaining risk and bound fills (RemainingIsUnfilledShare) says that the *)
(* result is no larger than what was held before.                          *)
(***************************************************************************)
EXTENDS RiskLedger, TotalsProofs

IInv == TypeOK /\ RemainingIsUnfilledShare /\ ActiveWithinCapacity
----------------------------------------------------------------------------
(* Facts about the operators.                                              *)

LEMMA FilledType ==
  ASSUME NEW b \in [OrderIds -> Binding], NEW r \in ReservationIds
  PROVE  Filled(b, r) \in Nat
<1>. DEFINE f == [o \in OrderIds |-> b[o].filled]
<1>1. IsFiniteSet(OrdersOf(b, r))
  BY LedgerAssumption, FS_Subset DEF OrdersOf
<1>2. \A o \in OrdersOf(b, r) : f[o] \in Nat
  BY DEF OrdersOf, Binding
<1>3. Total(f, OrdersOf(b, r)) \in Nat
  <2>. HIDE DEF f
  <2>. QED  BY <1>1, <1>2, TotalType
<1>. QED  BY <1>3 DEF Filled

LEMMA RateType ==
  ASSUME NEW i \in Intent, NEW d \in Dimensions
  PROVE  i.rate[d] \in Nat /\ i.units \in Nat
BY LedgerAssumption DEF Intent

LEMMA UnfilledType ==
  ASSUME NEW i \in Intent, NEW n \in Nat, n <= i.units
  PROVE  Unfilled(i, n) \in Vector
<1>1. ASSUME NEW d \in Dimensions PROVE i.rate[d] * (i.units - n) \in Nat
  <2>1. i.units - n \in Nat
    BY RateType
  <2>. QED  BY <2>1, RateType
<1>. QED  BY <1>1 DEF Unfilled, Scale, Zero, Vector

(* The more of an intent has filled, the less of its risk is held.         *)
LEMMA UnfilledShrinks ==
  ASSUME NEW i \in Intent, NEW m \in Nat, NEW n \in Nat, m <= n, n <= i.units,
         NEW d \in Dimensions
  PROVE  Unfilled(i, n)[d] <= Unfilled(i, m)[d]
<1>1. CASE i.reducing
  BY <1>1 DEF Unfilled, Zero
<1>2. CASE ~i.reducing
  <2>. DEFINE a == i.rate[d]
              x == i.units - n
              y == i.units - m
  <2>1. a \in Nat /\ x \in Nat /\ y \in Nat /\ x <= y
    BY RateType
  <2>2. a * x <= a * y
    <3>. HIDE DEF a, x, y
    <3>1. PICK k \in Nat : y = x + k
      <4>1. y - x \in Nat /\ y = x + (y - x)
        BY <2>1
      <4>. QED  BY <4>1
    <3>2. a * y = a * x + a * k /\ a * k \in Nat /\ a * x \in Nat
      BY <2>1, <3>1
    <3>. QED  BY <3>2
  <2>. QED  BY <1>2, <2>2 DEF Unfilled, Scale
<1>. QED  BY <1>1, <1>2

(* Binding orders that are free, or already bound to the same reservation, *)
(* changes no reservation's filled units.                                  *)
LEMMA BindingKeepsFills ==
  ASSUME NEW b \in [OrderIds -> Binding], NEW os \in SUBSET OrderIds,
         NEW r \in ReservationIds,
         \A o \in os : b[o].owner \in {NoReservation, r},
         NEW q \in ReservationIds
  PROVE  /\ BindAll(b, os, r) \in [OrderIds -> Binding]
         /\ Filled(BindAll(b, os, r), q) = Filled(b, q)
<1>. DEFINE c == BindAll(b, os, r)
            f == [o \in OrderIds |-> b[o].filled]
            g == [o \in OrderIds |-> c[o].filled]
<1>1. c \in [OrderIds -> Binding]
  BY DEF BindAll, Binding, OrderStatus
<1>2. \A o \in OrderIds : o \in OrdersOf(b, q) => o \in OrdersOf(c, q) /\ g[o] = f[o]
  BY LedgerAssumption DEF OrdersOf, BindAll
<1>3. \A o \in OrderIds : o \in OrdersOf(c, q) =>
        (o \in OrdersOf(b, q) /\ g[o] = f[o]) \/ g[o] = 0
  BY DEF OrdersOf, BindAll
<1>4. UnitsOf(g, OrdersOf(c, q)) = UnitsOf(f, OrdersOf(b, q))
  <2>. HIDE DEF c, f, g
  <2>1. \A o \in OrderIds : g[o] = 0 => (1 .. g[o]) = {}
    OBVIOUS
  <2>2. OrdersOf(c, q) \subseteq OrderIds /\ OrdersOf(b, q) \subseteq OrderIds
    BY DEF OrdersOf
  <2>3. UnitsOf(g, OrdersOf(c, q)) \subseteq UnitsOf(f, OrdersOf(b, q))
    BY <1>3, <2>1, <2>2 DEF UnitsOf
  <2>4. UnitsOf(f, OrdersOf(b, q)) \subseteq UnitsOf(g, OrdersOf(c, q))
    BY <1>2, <2>2 DEF UnitsOf
  <2>. QED  BY <2>3, <2>4
<1>5. Filled(c, q) = Filled(b, q)
  BY <1>4 DEF Filled, Total
<1>. QED  BY <1>1, <1>5

\* The same for the orders a ledger operation binds.
LEMMA BoundKeepsFills ==
  ASSUME TypeOK, NEW r \in ReservationIds, NEW os \in SUBSET OrderIds,
         \A o \in os : Bindable(o, r)
  PROVE  /\ BindAll(binding, os, r) \in [OrderIds -> Binding]
         /\ \A q \in ReservationIds : Filled(BindAll(binding, os, r), q) = Filled(binding, q)
<1>1. binding \in [OrderIds -> Binding]
  BY DEF TypeOK
<1>2. \A o \in os : binding[o].owner \in {NoReservation, r}
  BY DEF Bindable
<1>3. ASSUME NEW q \in ReservationIds
      PROVE /\ BindAll(binding, os, r) \in [OrderIds -> Binding]
            /\ Filled(BindAll(binding, os, r), q) = Filled(binding, q)
  BY <1>1, <1>2, BindingKeepsFills
<1>. QED  BY <1>3

LEMMA UpdatedType ==
  ASSUME TypeOK, NEW o \in OrderIds, NEW n \in Nat, NEW st \in Observed
  PROVE  /\ Updated(o, n, st) \in [OrderIds -> Binding]
         /\ \A p \in OrderIds : Updated(o, n, st)[p].owner = binding[p].owner
BY DEF TypeOK, Updated, Binding, OrderStatus

(* A cumulative update of a bound order never lowers a reservation's fills *)
(* and leaves the other reservations alone.                                *)
LEMMA UpdateRaisesFills ==
  ASSUME TypeOK, NEW o \in OrderIds, NEW n \in Nat, NEW st \in Observed,
         n >= binding[o].filled, NEW q \in ReservationIds
  PROVE  /\ Updated(o, n, st) \in [OrderIds -> Binding]
         /\ Filled(binding, q) <= Filled(Updated(o, n, st), q)
         /\ q # binding[o].owner => Filled(Updated(o, n, st), q) = Filled(binding, q)
<1>. DEFINE c == Updated(o, n, st)
            f == [p \in OrderIds |-> binding[p].filled]
            g == [p \in OrderIds |-> c[p].filled]
<1>1. c \in [OrderIds -> Binding]
  BY DEF TypeOK, Updated, Binding, OrderStatus
<1>2. OrdersOf(c, q) = OrdersOf(binding, q)
  BY DEF TypeOK, OrdersOf, Updated, Binding
<1>3. \A p \in OrderIds : f[p] \in Nat /\ g[p] \in Nat /\ f[p] <= g[p]
  BY DEF TypeOK, Updated, Binding
<1>4. q # binding[o].owner => \A p \in OrdersOf(binding, q) : g[p] = f[p]
  BY DEF TypeOK, OrdersOf, Updated, Binding
<1>5. IsFiniteSet(OrdersOf(binding, q)) /\ OrdersOf(binding, q) \subseteq OrderIds
  BY LedgerAssumption, FS_Subset DEF OrdersOf
<1>6. Total(f, OrdersOf(binding, q)) <= Total(g, OrdersOf(binding, q))
  <2>. HIDE DEF f, g
  <2>. QED  BY <1>3, <1>5, TotalMonotone
<1>7. q # binding[o].owner => Total(g, OrdersOf(binding, q)) = Total(f, OrdersOf(binding, q))
  <2>. HIDE DEF f, g
  <2>. QED  BY <1>4, TotalAgree
<1>. QED  BY <1>1, <1>2, <1>6, <1>7 DEF Filled
----------------------------------------------------------------------------
(* Type correctness.                                                       *)

LEMMA TypeInit == Init => TypeOK
BY DEF Init, TypeOK, Zero, Vector, Unbound, Binding, OrderStatus, Intent

(* A row's held vector is a vector whatever share of its units has filled. *)
LEMMA HeldType ==
  ASSUME TypeOK, NEW b \in [OrderIds -> Binding], NEW r \in ReservationIds,
         NEW i \in Intent, Filled(b, r) <= i.units
  PROVE  Unfilled(i, Filled(b, r)) \in Vector
BY FilledType, UnfilledType

LEMMA TypeNext ==
  ASSUME TypeOK, RemainingIsUnfilledShare, [Next]_ledgerVars
  PROVE  TypeOK'
<1>1. ASSUME NEW r \in ReservationIds, NEW i \in Intent, NEW base \in Bases,
             NEW os \in SUBSET OrderIds, Reserve(r, i, base, os)
      PROVE TypeOK'
  <2>1. 0 \in Nat /\ 0 <= i.units
    BY DEF Intent
  <2>2. Unfilled(i, 0) \in Vector
    BY <2>1, UnfilledType
  <2>3. BindAll(binding, os, r) \in [OrderIds -> Binding]
    BY <1>1, BoundKeepsFills DEF Reserve
  <2>. QED  BY <1>1, <2>2, <2>3 DEF TypeOK, Reserve, BindAll, Bindable, Binding
<1>2. ASSUME NEW r \in ReservationIds, NEW i \in Intent, NEW base \in Bases,
             NEW os \in SUBSET OrderIds, ReserveAgain(r, i, base, os)
      PROVE TypeOK'
  <2>1. CASE status[r] = "ACTIVE"
    <3>1. BindAll(binding, os, r) \in [OrderIds -> Binding]
      BY <1>2, <2>1, BoundKeepsFills DEF ReserveAgain
    <3>. QED  BY <1>2, <2>1, <3>1 DEF TypeOK, ReserveAgain, BindAll, Bindable, Binding
  <2>2. CASE status[r] # "ACTIVE"
    BY <1>2, <2>2 DEF TypeOK, ReserveAgain
  <2>. QED  BY <2>1, <2>2
<1>3. ASSUME NEW r \in ReservationIds, NEW o \in OrderIds, BindOrder(r, o)
      PROVE TypeOK'
  <2>1. BindAll(binding, {o}, r) \in [OrderIds -> Binding]
    BY <1>3, BoundKeepsFills DEF BindOrder, CanBind
  <2>. QED  BY <1>3, <2>1 DEF TypeOK, BindOrder, CanBind, BindAll, Bindable, Binding
<1>4. ASSUME NEW r \in ReservationIds, NEW o \in OrderIds, NEW old \in OrderIds,
             ReplaceOrder(r, o, old)
      PROVE TypeOK'
  <2>. DEFINE c == [binding EXCEPT ![old].status = "REPLACED"]
  <2>1. c \in [OrderIds -> Binding] /\ \A p \in OrderIds : c[p].owner = binding[p].owner
    BY DEF TypeOK, Binding, OrderStatus, Inactive
  <2>2. BindAll(c, {o}, r) \in [OrderIds -> Binding]
    <3>. HIDE DEF c
    <3>. QED  BY <1>4, <2>1, BindingKeepsFills DEF ReplaceOrder, CanBind, Bindable, TypeOK
  <2>. QED  BY <1>4, <2>1, <2>2 DEF TypeOK, ReplaceOrder, CanBind, BindAll, Bindable, Binding
<1>5. ASSUME NEW r \in ReservationIds, NEW rate \in Rates, NEW base \in Bases,
             Revalue(r, rate, base)
      PROVE TypeOK'
  <2>1. intent[r] \in Intent /\ status[r] = "ACTIVE"
    BY <1>5 DEF TypeOK, Revalue, CanRevalue
  <2>2. Repriced(r, rate) \in Intent /\ Repriced(r, rate).units = intent[r].units
    BY <2>1 DEF Repriced, Intent
  <2>3. Unfilled(Repriced(r, rate), Filled(binding, r)) \in Vector
    BY <2>1, <2>2, HeldType DEF RemainingIsUnfilledShare, TypeOK
  <2>. QED  BY <1>5, <2>2, <2>3 DEF TypeOK, Revalue
<1>6. ASSUME NEW o \in OrderIds, NEW n \in 0 .. MaxUnits, NEW st \in Observed,
             RecordOrderUpdate(o, n, st)
      PROVE TypeOK'
  <2>. DEFINE r == binding[o].owner
  <2>1. CanRecord(o, n, st) /\ n \in Nat
    BY <1>6, LedgerAssumption DEF RecordOrderUpdate
  <2>2. r \in ReservationIds /\ intent[r] \in Intent
    BY <2>1 DEF TypeOK, CanRecord, Binding
  <2>3. /\ Updated(o, n, st) \in [OrderIds -> Binding]
        /\ \A p \in OrderIds : Updated(o, n, st)[p].owner = binding[p].owner
    BY <2>1, UpdatedType
  <2>4. Unfilled(intent[r], Filled(Updated(o, n, st), r)) \in Vector
    BY <2>1, <2>2, <2>3, HeldType DEF CanRecord
  <2>5. Zero \in Vector
    BY DEF Zero, Vector
  <2>6. /\ status' \in [ReservationIds -> {"ABSENT", "ACTIVE", "RELEASED", "FILLED"}]
        /\ \A q \in ReservationIds : status'[q] = "ABSENT" <=> status[q] = "ABSENT"
    BY <1>6, <2>2 DEF TypeOK, RecordOrderUpdate
  <2>7. remaining' \in [ReservationIds -> Vector]
    BY <1>6, <2>2, <2>4, <2>5 DEF TypeOK, RecordOrderUpdate
  <2>8. binding' = Updated(o, n, st) /\ intent' = intent
    BY <1>6 DEF RecordOrderUpdate
  <2>. QED  BY <2>3, <2>6, <2>7, <2>8 DEF TypeOK, Binding
<1>7. ASSUME NEW r \in ReservationIds, Release(r)
      PROVE TypeOK'
  <2>1. /\ status' \in [ReservationIds -> {"ABSENT", "ACTIVE", "RELEASED", "FILLED"}]
        /\ \A q \in ReservationIds : status'[q] = "ABSENT" <=> status[q] = "ABSENT"
    BY <1>7 DEF TypeOK, Release
  <2>2. remaining' \in [ReservationIds -> Vector]
    BY <1>7 DEF TypeOK, Release, Zero, Vector
  <2>. QED  BY <1>7, <2>1, <2>2 DEF TypeOK, Release, Binding
<1>8. CASE UNCHANGED ledgerVars
  BY <1>8 DEF TypeOK, ledgerVars
<1>. QED
  BY <1>1, <1>2, <1>3, <1>4, <1>5, <1>6, <1>7, <1>8 DEF Next, CheckAndReserve
----------------------------------------------------------------------------
(* The remaining risk agrees with the fills.                               *)

LEMMA ShareInit == Init => RemainingIsUnfilledShare
BY DEF Init, RemainingIsUnfilledShare

\* A step that leaves the rows alone and every reservation's fills unchanged.
LEMMA ShareKept ==
  ASSUME RemainingIsUnfilledShare, UNCHANGED <<status, intent, remaining>>,
         \A q \in ReservationIds : Filled(binding', q) = Filled(binding, q)
  PROVE  RemainingIsUnfilledShare'
BY DEF RemainingIsUnfilledShare

LEMMA ShareNext ==
  ASSUME TypeOK, RemainingIsUnfilledShare, [Next]_ledgerVars
  PROVE  RemainingIsUnfilledShare'
<1>1. ASSUME NEW r \in ReservationIds, NEW i \in Intent, NEW base \in Bases,
             NEW os \in SUBSET OrderIds, Reserve(r, i, base, os)
      PROVE RemainingIsUnfilledShare'
  <2>1. \A q \in ReservationIds : Filled(binding', q) = Filled(binding, q)
    BY <1>1, BoundKeepsFills DEF Reserve
  <2>2. OrdersOf(binding, r) = {}
    BY <1>1, LedgerAssumption DEF Reserve, TypeOK, OrdersOf
  <2>3. Filled(binding, r) = 0
    BY <2>2, TotalEmpty DEF Filled
  <2>4. 0 <= i.units
    BY DEF Intent
  <2>. QED  BY <1>1, <2>1, <2>3, <2>4 DEF RemainingIsUnfilledShare, Reserve, TypeOK
<1>2. ASSUME NEW r \in ReservationIds, NEW i \in Intent, NEW base \in Bases,
             NEW os \in SUBSET OrderIds, ReserveAgain(r, i, base, os)
      PROVE RemainingIsUnfilledShare'
  <2>1. \A q \in ReservationIds : Filled(binding', q) = Filled(binding, q)
    BY <1>2, BoundKeepsFills DEF ReserveAgain
  <2>. QED  BY <1>2, <2>1, ShareKept DEF ReserveAgain
<1>3. ASSUME NEW r \in ReservationIds, NEW o \in OrderIds, BindOrder(r, o)
      PROVE RemainingIsUnfilledShare'
  <2>1. \A q \in ReservationIds : Filled(binding', q) = Filled(binding, q)
    BY <1>3, BoundKeepsFills DEF BindOrder, CanBind
  <2>. QED  BY <1>3, <2>1, ShareKept DEF BindOrder
<1>4. ASSUME NEW r \in ReservationIds, NEW o \in OrderIds, NEW old \in OrderIds,
             ReplaceOrder(r, o, old)
      PROVE RemainingIsUnfilledShare'
  <2>. DEFINE c == [binding EXCEPT ![old].status = "REPLACED"]
  <2>1. /\ c \in [OrderIds -> Binding]
        /\ \A p \in OrderIds : c[p].owner = binding[p].owner /\ c[p].filled = binding[p].filled
    BY DEF TypeOK, Binding, OrderStatus, Inactive
  <2>2. \A q \in ReservationIds : Filled(c, q) = Filled(binding, q)
    <3>. HIDE DEF c
    <3>. QED  BY <2>1 DEF Filled, OrdersOf
  <2>3. \A p \in {o} : c[p].owner \in {NoReservation, r}
    BY <1>4, <2>1 DEF ReplaceOrder, CanBind, Bindable
  <2>4. ASSUME NEW q \in ReservationIds
        PROVE Filled(BindAll(c, {o}, r), q) = Filled(c, q)
    <3>1. {o} \in SUBSET OrderIds
      OBVIOUS
    <3>. HIDE DEF c
    <3>. QED  BY <2>1, <2>3, <2>4, <3>1, BindingKeepsFills
  <2>. QED  BY <1>4, <2>2, <2>4, ShareKept DEF ReplaceOrder
<1>5. ASSUME NEW r \in ReservationIds, NEW rate \in Rates, NEW base \in Bases,
             Revalue(r, rate, base)
      PROVE RemainingIsUnfilledShare'
  <2>1. intent[r] \in Intent /\ status[r] = "ACTIVE"
    BY <1>5 DEF TypeOK, Revalue, CanRevalue
  <2>2. Repriced(r, rate).units = intent[r].units
    BY <2>1 DEF Repriced, Intent
  <2>. QED  BY <1>5, <2>1, <2>2 DEF RemainingIsUnfilledShare, Revalue, TypeOK
<1>6. ASSUME NEW o \in OrderIds, NEW n \in 0 .. MaxUnits, NEW st \in Observed,
             RecordOrderUpdate(o, n, st)
      PROVE RemainingIsUnfilledShare'
  <2>. DEFINE r == binding[o].owner
  <2>1. CanRecord(o, n, st) /\ n \in Nat
    BY <1>6, LedgerAssumption DEF RecordOrderUpdate
  <2>2. r \in ReservationIds
    BY <2>1 DEF TypeOK, CanRecord, Binding
  <2>3. \A q \in ReservationIds : q # r => Filled(binding', q) = Filled(binding, q)
    BY <1>6, <2>1, UpdateRaisesFills DEF CanRecord, RecordOrderUpdate
  <2>4. Filled(binding', r) <= intent[r].units
    BY <1>6, <2>1 DEF CanRecord, RecordOrderUpdate
  <2>5. ASSUME NEW q \in ReservationIds, q # r
        PROVE status'[q] = status[q] /\ remaining'[q] = remaining[q]
    BY <1>6, <2>5 DEF RecordOrderUpdate, TypeOK
  <2>6. remaining'[r] = IF status'[r] = "ACTIVE"
                        THEN Unfilled(intent[r], Filled(binding', r)) ELSE Zero
    BY <1>6, <2>2 DEF RecordOrderUpdate, TypeOK, RemainingIsUnfilledShare
  <2>. QED
    BY <1>6, <2>2, <2>3, <2>4, <2>5, <2>6
    DEF RemainingIsUnfilledShare, RecordOrderUpdate
<1>7. ASSUME NEW r \in ReservationIds, Release(r)
      PROVE RemainingIsUnfilledShare'
  BY <1>7 DEF RemainingIsUnfilledShare, Release, TypeOK
<1>8. CASE UNCHANGED ledgerVars
  BY <1>8, ShareKept DEF ledgerVars
<1>. QED
  BY <1>1, <1>2, <1>3, <1>4, <1>5, <1>6, <1>7, <1>8 DEF Next, CheckAndReserve
----------------------------------------------------------------------------
(* Capacity.                                                               *)

\* What a reservation holds in dimension d, as HeldBy sums it.
Amounts(h, d) == [r \in ReservationIds |-> h[r][d]]

LEMMA HeldAmounts ==
  ASSUME NEW R, NEW d
  PROVE  HeldBy(R, d) = Total(Amounts(remaining, d), R)
BY DEF HeldBy, Amounts

LEMMA NewTotalAmounts ==
  ASSUME NEW d
  PROVE  ActiveTotal(d)' = Total(Amounts(remaining', d), Active')
BY DEF ActiveTotal, HeldBy, Amounts

LEMMA AmountsType ==
  ASSUME NEW h \in [ReservationIds -> Vector], NEW d \in Dimensions,
         NEW R \in SUBSET ReservationIds
  PROVE  /\ IsFiniteSet(R)
         /\ \A r \in R : Amounts(h, d)[r] \in Nat
         /\ Total(Amounts(h, d), R) \in Nat
<1>1. IsFiniteSet(R)
  BY LedgerAssumption, FS_Subset
<1>2. \A r \in R : Amounts(h, d)[r] \in Nat
  BY DEF Amounts, Vector
<1>. QED  BY <1>1, <1>2, TotalType

(* A granted request fits beside the other reservations in every limited   *)
(* dimension, those the request does not name included: there it adds      *)
(* nothing.                                                                *)
LEMMA GrantFits ==
  ASSUME TypeOK, NEW R \in SUBSET ReservationIds, NEW base \in Bases,
         NEW i \in Intent, NEW n \in Nat, n <= i.units,
         NEW d \in DOMAIN Capacity,
         HeldBy(R, d) <= Capacity[d],
         Fits(base, R, i, Unfilled(i, n), Limits(i))
  PROVE  HeldBy(R, d) + Unfilled(i, n)[d] <= Capacity[d]
<1>1. d \in Dimensions /\ Capacity[d] \in Nat /\ base[d] \in Nat
  BY LedgerAssumption
<1>2. HeldBy(R, d) \in Nat
  BY <1>1, HeldAmounts, AmountsType DEF TypeOK
<1>3. CASE i.reducing
  BY <1>1, <1>2, <1>3 DEF Unfilled, Zero
<1>4. CASE ~i.reducing /\ ~(d \in Scalars \/ i.rate[d] > 0)
  <2>1. i.rate[d] = 0 /\ i.units - n \in Nat
    BY <1>1, <1>4, RateType
  <2>2. Unfilled(i, n)[d] = 0
    BY <1>1, <1>4, <2>1 DEF Unfilled, Scale
  <2>. QED  BY <1>2, <2>2
<1>5. CASE ~i.reducing /\ (d \in Scalars \/ i.rate[d] > 0)
  <2>1. base[d] + HeldBy(R, d) + Unfilled(i, n)[d] <= Capacity[d]
    BY <1>5 DEF Fits, Limits
  <2>2. Unfilled(i, n)[d] \in Nat
    BY <1>1, UnfilledType DEF Vector
  <2>. QED  BY <1>1, <1>2, <2>1, <2>2
<1>. QED  BY <1>3, <1>4, <1>5

(* One reservation's amount is replaced by what fits beside the others.    *)
LEMMA TotalAfterGrant ==
  ASSUME NEW h \in [ReservationIds -> Vector], NEW A \in SUBSET ReservationIds,
         NEW r \in ReservationIds, NEW v \in Vector, NEW d \in Dimensions
  PROVE  Total(Amounts([h EXCEPT ![r] = v], d), A \cup {r})
           = Total(Amounts(h, d), A \ {r}) + v[d]
<1>. DEFINE g == Amounts([h EXCEPT ![r] = v], d)
            f == Amounts(h, d)
            B == A \cup {r}
<1>1. [h EXCEPT ![r] = v] \in [ReservationIds -> Vector]
  OBVIOUS
<1>2. IsFiniteSet(B) /\ r \in B /\ \A x \in B : g[x] \in Nat
  <2>1. B \in SUBSET ReservationIds
    OBVIOUS
  <2>. QED  BY <1>1, <2>1, AmountsType
<1>3. Total(g, B) = Total(g, B \ {r}) + g[r]
  <2>. HIDE DEF g, B
  <2>. QED  BY <1>2, TotalSplit
<1>4. g[r] = v[d]
  BY DEF Amounts
<1>5. B \ {r} = A \ {r} /\ \A x \in A \ {r} : g[x] = f[x]
  BY DEF Amounts
<1>6. Total(g, A \ {r}) = Total(f, A \ {r})
  <2>. HIDE DEF g, f
  <2>. QED  BY <1>5, TotalAgree
<1>. QED  BY <1>3, <1>4, <1>5, <1>6

(* A step that lowers what is held, or closes reservations, keeps the      *)
(* capacity.                                                               *)
LEMMA ShrinkKeepsCapacity ==
  ASSUME TypeOK, TypeOK', ActiveWithinCapacity, Active' \subseteq Active,
         \A r \in Active', d \in Dimensions : remaining'[r][d] <= remaining[r][d]
  PROVE  ActiveWithinCapacity'
<1>. SUFFICES ASSUME NEW d \in DOMAIN Capacity
              PROVE ActiveTotal(d)' <= Capacity[d]
  BY DEF ActiveWithinCapacity
<1>1. d \in Dimensions /\ Capacity[d] \in Nat
  BY LedgerAssumption
<1>2. /\ remaining \in [ReservationIds -> Vector] /\ remaining' \in [ReservationIds -> Vector]
      /\ Active \in SUBSET ReservationIds /\ Active' \in SUBSET ReservationIds
  BY DEF TypeOK, Active
<1>. DEFINE f == Amounts(remaining', d)
            g == Amounts(remaining, d)
<1>3. /\ IsFiniteSet(Active) /\ \A r \in Active : g[r] \in Nat
      /\ \A r \in Active' : f[r] \in Nat
      /\ Total(f, Active') \in Nat /\ Total(g, Active) \in Nat
  BY <1>1, <1>2, AmountsType
<1>4. \A r \in Active' : f[r] <= g[r]
  BY <1>1, <1>2 DEF Amounts
<1>5. Total(f, Active') <= Total(g, Active)
  <2>. HIDE DEF f, g
  <2>. QED  BY <1>3, <1>4, TotalMonotone
<1>6. Total(g, Active) = ActiveTotal(d) /\ Total(f, Active') = ActiveTotal(d)'
  BY DEF ActiveTotal, HeldBy, Amounts
<1>7. ActiveTotal(d) <= Capacity[d]
  BY DEF ActiveWithinCapacity
<1>. QED  BY <1>1, <1>3, <1>5, <1>6, <1>7

LEMMA CapacityInit == Init => ActiveWithinCapacity
<1>1. Init => Active = {}
  BY DEF Init, Active
<1>2. ASSUME Init, NEW d \in DOMAIN Capacity
      PROVE ActiveTotal(d) = 0
  BY <1>1, <1>2, TotalEmpty DEF ActiveTotal, HeldBy
<1>. QED  BY <1>2, LedgerAssumption DEF ActiveWithinCapacity

LEMMA CapacityNext ==
  ASSUME IInv, TypeOK', [Next]_ledgerVars
  PROVE  ActiveWithinCapacity'
<1>. USE DEF IInv
<1>1. ASSUME NEW r \in ReservationIds, NEW i \in Intent, NEW base \in Bases,
             NEW os \in SUBSET OrderIds, Reserve(r, i, base, os)
      PROVE ActiveWithinCapacity'
  <2>. SUFFICES ASSUME NEW d \in DOMAIN Capacity
                PROVE ActiveTotal(d)' <= Capacity[d]
    BY DEF ActiveWithinCapacity
  <2>1. /\ remaining \in [ReservationIds -> Vector] /\ Active \in SUBSET ReservationIds
        /\ d \in Dimensions
    BY LedgerAssumption DEF TypeOK, Active
  <2>2. Active' = Active \cup {r} /\ Active \ {r} = Active
    BY <1>1 DEF Reserve, Active, TypeOK
  <2>3. 0 \in Nat /\ 0 <= i.units
    BY DEF Intent
  <2>4. Unfilled(i, 0) \in Vector
    BY <2>3, UnfilledType
  <2>5. remaining' = [remaining EXCEPT ![r] = Unfilled(i, 0)]
    BY <1>1 DEF Reserve
  <2>6. ActiveTotal(d)' = HeldBy(Active, d) + Unfilled(i, 0)[d]
    <3>1. Total(Amounts([remaining EXCEPT ![r] = Unfilled(i, 0)], d), Active \cup {r})
            = Total(Amounts(remaining, d), Active \ {r}) + Unfilled(i, 0)[d]
      BY <2>1, <2>4, TotalAfterGrant
    <3>2. ActiveTotal(d)' = Total(Amounts(remaining', d), Active')
      BY NewTotalAmounts
    <3>3. HeldBy(Active, d) = Total(Amounts(remaining, d), Active)
      BY HeldAmounts
    <3>. QED  BY <2>2, <2>5, <3>1, <3>2, <3>3
  <2>7. HeldBy(Active, d) <= Capacity[d]
    BY DEF ActiveWithinCapacity, ActiveTotal
  <2>8. Fits(base, Active, i, Unfilled(i, 0), Limits(i))
    BY <1>1 DEF Reserve, CanReserve
  <2>9. HeldBy(Active, d) + Unfilled(i, 0)[d] <= Capacity[d]
    BY <2>1, <2>3, <2>7, <2>8, GrantFits
  <2>. QED  BY <2>6, <2>9
<1>2. ASSUME UNCHANGED <<status, remaining>>
      PROVE ActiveWithinCapacity'
  BY <1>2 DEF ActiveWithinCapacity, ActiveTotal, HeldBy, Active
<1>3. ASSUME NEW r \in ReservationIds, NEW rate \in Rates, NEW base \in Bases,
             Revalue(r, rate, base)
      PROVE ActiveWithinCapacity'
  <2>. SUFFICES ASSUME NEW d \in DOMAIN Capacity
                PROVE ActiveTotal(d)' <= Capacity[d]
    BY DEF ActiveWithinCapacity
  <2>. DEFINE i == Repriced(r, rate)
              n == Filled(binding, r)
              R == Active \ {r}
  <2>1. /\ remaining \in [ReservationIds -> Vector] /\ Active \in SUBSET ReservationIds
        /\ d \in Dimensions /\ R \in SUBSET Active
    BY LedgerAssumption DEF TypeOK, Active
  <2>2. status[r] = "ACTIVE" /\ Active' = Active \cup {r}
    BY <1>3 DEF Revalue, CanRevalue, Active
  <2>3. i \in Intent /\ n \in Nat /\ n <= i.units
    BY <2>2, FilledType DEF TypeOK, RemainingIsUnfilledShare, Repriced, Intent
  <2>4. Unfilled(i, n) \in Vector
    BY <2>3, UnfilledType
  <2>5. remaining' = [remaining EXCEPT ![r] = Unfilled(i, n)]
    BY <1>3 DEF Revalue
  <2>6. ActiveTotal(d)' = HeldBy(R, d) + Unfilled(i, n)[d]
    <3>. HIDE DEF i, n
    <3>1. Total(Amounts([remaining EXCEPT ![r] = Unfilled(i, n)], d), Active \cup {r})
            = Total(Amounts(remaining, d), Active \ {r}) + Unfilled(i, n)[d]
      BY <2>1, <2>4, TotalAfterGrant
    <3>2. ActiveTotal(d)' = Total(Amounts(remaining', d), Active')
      BY NewTotalAmounts
    <3>3. HeldBy(R, d) = Total(Amounts(remaining, d), R)
      BY HeldAmounts
    <3>. QED  BY <2>2, <2>5, <3>1, <3>2, <3>3
  <2>7. HeldBy(R, d) <= Capacity[d]
    <3>. DEFINE f == Amounts(remaining, d)
    <3>1. /\ IsFiniteSet(Active) /\ \A x \in Active : f[x] \in Nat
          /\ Total(f, Active) \in Nat /\ Total(f, R) \in Nat
      BY <2>1, AmountsType
    <3>2. Total(f, R) <= Total(f, Active)
      <4>. HIDE DEF f, R
      <4>. QED  BY <2>1, <3>1, TotalMonotone
    <3>3. Total(f, Active) <= Capacity[d]
      BY DEF ActiveWithinCapacity, ActiveTotal, HeldBy, Amounts
    <3>. QED  BY <3>1, <3>2, <3>3, LedgerAssumption, HeldAmounts
  <2>8. Fits(base, R, i, Unfilled(i, n), Limits(i))
    BY <1>3 DEF Revalue, CanRevalue
  <2>9. HeldBy(R, d) + Unfilled(i, n)[d] <= Capacity[d]
    <3>. HIDE DEF i, n
    <3>. QED  BY <2>1, <2>3, <2>7, <2>8, GrantFits
  <2>. QED  BY <2>6, <2>9
<1>4. ASSUME NEW o \in OrderIds, NEW n \in 0 .. MaxUnits, NEW st \in Observed,
             RecordOrderUpdate(o, n, st)
      PROVE ActiveWithinCapacity'
  <2>. DEFINE r == binding[o].owner
              b == Updated(o, n, st)
  <2>1. CanRecord(o, n, st) /\ n \in Nat
    BY <1>4, LedgerAssumption DEF RecordOrderUpdate
  <2>2. r \in ReservationIds /\ intent[r] \in Intent
    BY <2>1 DEF TypeOK, CanRecord, Binding
  <2>3. /\ Filled(binding, r) \in Nat /\ Filled(b, r) \in Nat
        /\ Filled(binding, r) <= Filled(b, r) /\ Filled(b, r) <= intent[r].units
    BY <2>1, <2>2, UpdatedType, UpdateRaisesFills, FilledType DEF CanRecord, TypeOK
  <2>4. Active' \subseteq Active
    BY <1>4, <2>2 DEF RecordOrderUpdate, Active, TypeOK
  <2>5. ASSUME NEW q \in Active', NEW d \in Dimensions
        PROVE remaining'[q][d] <= remaining[q][d]
    <3>1. remaining[q][d] \in Nat
      BY <2>5 DEF TypeOK, Vector, Active
    <3>2. CASE q = r
      <4>1. status[r] = "ACTIVE" /\ remaining[r] = Unfilled(intent[r], Filled(binding, r))
        BY <2>2, <2>4, <2>5, <3>2 DEF Active, RemainingIsUnfilledShare
      <4>2. remaining'[r] = Unfilled(intent[r], Filled(b, r)) \/ remaining'[r] = Zero
        BY <1>4, <2>2, <4>1 DEF RecordOrderUpdate, TypeOK
      <4>3. Unfilled(intent[r], Filled(b, r))[d] <= Unfilled(intent[r], Filled(binding, r))[d]
        BY <2>2, <2>3, UnfilledShrinks
      <4>. QED  BY <3>1, <3>2, <4>1, <4>2, <4>3 DEF Zero
    <3>3. CASE q # r
      <4>1. remaining'[q] = remaining[q]
        BY <1>4, <2>2, <2>5, <3>3 DEF RecordOrderUpdate, TypeOK, Active
      <4>. QED  BY <3>1, <4>1
    <3>. QED  BY <3>2, <3>3
  <2>. QED  BY <2>4, <2>5, ShrinkKeepsCapacity
<1>5. ASSUME NEW r \in ReservationIds, Release(r)
      PROVE ActiveWithinCapacity'
  <2>1. Active' \subseteq Active
    BY <1>5 DEF Release, Active, TypeOK
  <2>2. ASSUME NEW q \in Active', NEW d \in Dimensions
        PROVE remaining'[q][d] <= remaining[q][d]
    <3>1. remaining'[q] = remaining[q] /\ remaining[q][d] \in Nat
      BY <1>5, <2>2 DEF Release, Active, TypeOK, Vector
    <3>. QED  BY <3>1
  <2>. QED  BY <2>1, <2>2, ShrinkKeepsCapacity
<1>. QED
  BY <1>1, <1>2, <1>3, <1>4, <1>5
  DEF Next, CheckAndReserve, ReserveAgain, BindOrder, ReplaceOrder, ledgerVars
----------------------------------------------------------------------------
LEMMA InvInit == Init => IInv
BY TypeInit, ShareInit, CapacityInit DEF IInv

LEMMA InvNext == IInv /\ [Next]_ledgerVars => IInv'
BY TypeNext, ShareNext, CapacityNext DEF IInv

LEMMA Inductive == Spec => []IInv
BY InvInit, InvNext, PTL DEF Spec

(* The ledger's rows keep their types, and every bound order refers to a   *)
(* reservation that exists (the foreign key of the orders table).          *)
THEOREM TypeCorrect == Spec => []TypeOK
BY Inductive, PTL DEF IInv

(* Whatever the callers do, the risk held by pending orders stays within   *)
(* the configured capacity in every dimension.                             *)
THEOREM CapacityRespected == Spec => []ActiveWithinCapacity
BY Inductive, PTL DEF IInv

(* Recomputing the remaining risk from the cumulative fills always gives   *)
(* the unfilled share of the latest price, over all replacement orders.    *)
THEOREM RemainingTracksFills == Spec => []RemainingIsUnfilledShare
BY Inductive, PTL DEF IInv
----------------------------------------------------------------------------
(* What a step does to the rows, whichever operation it is: one row at     *)
(* most changes, and its status only moves forward.                        *)
RowMove(r) ==
  \/ status'[r] = status[r]
  \/ status[r] = "ABSENT" /\ status'[r] = "ACTIVE"
  \/ status[r] = "ACTIVE" /\ status'[r] \in {"RELEASED", "FILLED"}

LEMMA RowsMoveForward ==
  ASSUME TypeOK, [Next]_ledgerVars
  PROVE  \A r \in ReservationIds : RowMove(r)
<1>1. ASSUME NEW r \in ReservationIds, NEW i \in Intent, NEW base \in Bases,
             NEW os \in SUBSET OrderIds, Reserve(r, i, base, os)
      PROVE \A q \in ReservationIds : RowMove(q)
  BY <1>1 DEF Reserve, RowMove, TypeOK
<1>2. ASSUME UNCHANGED status
      PROVE \A q \in ReservationIds : RowMove(q)
  BY <1>2 DEF RowMove
<1>3. ASSUME NEW o \in OrderIds, NEW n \in 0 .. MaxUnits, NEW st \in Observed,
             RecordOrderUpdate(o, n, st)
      PROVE \A q \in ReservationIds : RowMove(q)
  <2>. DEFINE r == binding[o].owner
  <2>1. CASE status[r] = "ACTIVE"
    BY <1>3, <2>1 DEF RecordOrderUpdate, RowMove, TypeOK
  <2>2. CASE status[r] # "ACTIVE"
    BY <1>3, <2>2 DEF RecordOrderUpdate, RowMove
  <2>. QED  BY <2>1, <2>2
<1>4. ASSUME NEW r \in ReservationIds, Release(r)
      PROVE \A q \in ReservationIds : RowMove(q)
  BY <1>4 DEF Release, RowMove, TypeOK
<1>. QED
  BY <1>1, <1>2, <1>3, <1>4
  DEF Next, CheckAndReserve, ReserveAgain, BindOrder, ReplaceOrder, Revalue, ledgerVars

(* A released or filled reservation never takes capacity again.            *)
THEOREM ClosedStaysClosed == Spec => ClosedForGood
<1>1. ASSUME IInv, IInv', [Next]_ledgerVars, NEW r \in ReservationIds,
             status[r] \in {"RELEASED", "FILLED"}
      PROVE status'[r] = status[r] /\ remaining'[r] = Zero
  <2>1. status'[r] = status[r]
    BY <1>1, RowsMoveForward DEF IInv, RowMove
  <2>2. remaining'[r] = Zero
    BY <1>1, <2>1 DEF IInv, RemainingIsUnfilledShare
  <2>. QED  BY <2>1, <2>2
<1>2. IInv /\ IInv' /\ [Next]_ledgerVars =>
        [\A r \in ReservationIds :
           status[r] \in {"RELEASED", "FILLED"} =>
             status'[r] = status[r] /\ remaining'[r] = Zero]_ledgerVars
  BY <1>1
<1>. QED  BY <1>2, Inductive, PTL DEF Spec, ClosedForGood

(* Bindings, cumulative fills and terminal statuses are never taken back.  *)
THEOREM OrdersNeverMoveBack == Spec => OrdersMoveForward
<1>. DEFINE Forward(o) ==
       binding[o].owner # NoReservation =>
         /\ binding'[o].owner = binding[o].owner
         /\ binding'[o].filled >= binding[o].filled
         /\ binding[o].status \in Inactive => binding'[o].status \in Inactive
<1>1. ASSUME IInv, [Next]_ledgerVars, NEW o \in OrderIds
      PROVE Forward(o)
  <2>. USE DEF IInv
  <2>1. binding[o] \in Binding /\ binding[o].filled \in Nat
    BY <1>1 DEF TypeOK, Binding
  <2>2. ASSUME NEW b \in [OrderIds -> Binding], NEW r \in ReservationIds,
               NEW os \in SUBSET OrderIds, binding' = BindAll(b, os, r),
               \A p \in os : binding[p].owner \in {NoReservation, r},
               b[o].owner = binding[o].owner, b[o].filled = binding[o].filled,
               binding[o].status \in Inactive => b[o].status \in Inactive
        PROVE Forward(o)
    BY <2>1, <2>2 DEF BindAll
  <2>3. ASSUME NEW r \in ReservationIds, NEW i \in Intent, NEW base \in Bases,
               NEW os \in SUBSET OrderIds, CheckAndReserve(r, i, base, os)
        PROVE Forward(o)
    <3>1. \/ /\ \A p \in os : binding[p].owner \in {NoReservation, r}
             /\ binding' = BindAll(binding, os, r)
          \/ binding' = binding
      BY <2>3 DEF CheckAndReserve, Reserve, ReserveAgain, Bindable
    <3>. QED  BY <1>1, <2>1, <2>2, <3>1 DEF TypeOK
  <2>4. ASSUME NEW r \in ReservationIds, NEW p \in OrderIds, BindOrder(r, p)
        PROVE Forward(o)
    <3>1. /\ binding' = BindAll(binding, {p}, r)
          /\ \A x \in {p} : binding[x].owner \in {NoReservation, r}
      BY <2>4 DEF BindOrder, CanBind, Bindable
    <3>2. {p} \in SUBSET OrderIds /\ binding \in [OrderIds -> Binding]
      BY <1>1 DEF TypeOK
    <3>. QED  BY <2>2, <3>1, <3>2
  <2>5. ASSUME NEW r \in ReservationIds, NEW p \in OrderIds, NEW old \in OrderIds,
               ReplaceOrder(r, p, old)
        PROVE Forward(o)
    <3>. DEFINE c == [binding EXCEPT ![old].status = "REPLACED"]
    <3>1. /\ c \in [OrderIds -> Binding]
          /\ c[o].owner = binding[o].owner /\ c[o].filled = binding[o].filled
          /\ binding[o].status \in Inactive => c[o].status \in Inactive
      BY <1>1 DEF TypeOK, Binding, OrderStatus, Inactive
    <3>2. binding' = BindAll(c, {p}, r) /\ \A x \in {p} : binding[x].owner \in {NoReservation, r}
      BY <2>5 DEF ReplaceOrder, CanBind, Bindable
    <3>3. {p} \in SUBSET OrderIds
      OBVIOUS
    <3>. HIDE DEF c
    <3>. QED  BY <2>2, <3>1, <3>2, <3>3
  <2>6. ASSUME NEW p \in OrderIds, NEW n \in 0 .. MaxUnits, NEW st \in Observed,
               RecordOrderUpdate(p, n, st)
        PROVE Forward(o)
    BY <1>1, <2>1, <2>6 DEF RecordOrderUpdate, CanRecord, Updated, TypeOK, Binding
  <2>7. ASSUME UNCHANGED binding
        PROVE Forward(o)
    BY <2>1, <2>7
  <2>. QED
    BY <1>1, <2>3, <2>4, <2>5, <2>6, <2>7 DEF Next, Revalue, Release, ledgerVars
<1>2. IInv /\ [Next]_ledgerVars => [\A o \in OrderIds : Forward(o)]_ledgerVars
  BY <1>1
<1>. QED  BY <1>2, Inductive, PTL DEF Spec, OrdersMoveForward
----------------------------------------------------------------------------
(* The ledger implements the capacity pool.                                *)

LEMMA PoolInit == Init => Pool!Init
BY DEF Init, Pool!Init, Pool!Nothing, phaseOf, Zero

LEMMA RoomAfter ==
  ASSUME IInv'
  PROVE  Pool!HasRoom(phaseOf', remaining')
<1>1. Pool!Open(phaseOf') = Active'
  BY DEF IInv, TypeOK, Pool!Open, phaseOf, Active
<1>2. \A d \in DOMAIN Capacity :
        Total([r \in ReservationIds |-> remaining'[r][d]], Active') <= Capacity[d]
  BY DEF IInv, ActiveWithinCapacity, ActiveTotal, HeldBy
<1>3. \A f, S : Pool!Total(f, S) = Total(f, S)
  BY DEF Total, UnitsOf, Cardinality, Pool!Total, Pool!UnitsOf, Pool!Cardinality
<1>. QED  BY <1>1, <1>2, <1>3 DEF Pool!HasRoom

LEMMA PoolNext ==
  ASSUME IInv, IInv', [Next]_ledgerVars
  PROVE  [Pool!Next]_(Pool!poolVars)
<1>1. Pool!HasRoom(phaseOf', remaining')
  BY RoomAfter
<1>2. \A q \in ReservationIds : remaining'[q] \in [Dimensions -> Nat]
  BY DEF IInv, TypeOK, Vector
<1>3. ASSUME NEW r \in ReservationIds, NEW i \in Intent, NEW base \in Bases,
             NEW os \in SUBSET OrderIds, Reserve(r, i, base, os)
      PROVE Pool!Next
  <2>1. phaseOf[r] = "new" /\ phaseOf' = [phaseOf EXCEPT ![r] = "open"]
    BY <1>3 DEF Reserve, phaseOf, IInv, TypeOK
  <2>2. remaining' = [remaining EXCEPT ![r] = remaining'[r]]
    BY <1>3 DEF Reserve, IInv, TypeOK
  <2>3. Pool!OpenClaim(r)
    BY <1>1, <1>2, <2>1, <2>2 DEF Pool!OpenClaim
  <2>. QED  BY <2>3 DEF Pool!Next
<1>4. ASSUME UNCHANGED <<status, remaining>>
      PROVE UNCHANGED Pool!poolVars
  BY <1>4 DEF Pool!poolVars, phaseOf
<1>5. ASSUME NEW r \in ReservationIds, NEW rate \in Rates, NEW base \in Bases,
             Revalue(r, rate, base)
      PROVE Pool!Next
  <2>1. phaseOf[r] = "open" /\ phaseOf' = phaseOf
    BY <1>5 DEF Revalue, CanRevalue, phaseOf, IInv, TypeOK
  <2>2. remaining' = [remaining EXCEPT ![r] = remaining'[r]]
    BY <1>5 DEF Revalue, IInv, TypeOK
  <2>3. Pool!Adjust(r)
    BY <1>1, <1>2, <2>1, <2>2 DEF Pool!Adjust
  <2>. QED  BY <2>3 DEF Pool!Next
<1>6. ASSUME NEW r \in ReservationIds, status[r] = "ACTIVE",
             status' = [status EXCEPT ![r] = status'[r]],
             status'[r] \in {"RELEASED", "FILLED"},
             remaining' = [remaining EXCEPT ![r] = Zero]
      PROVE Pool!Next
  <2>1. phaseOf[r] = "open" /\ phaseOf' = [phaseOf EXCEPT ![r] = "closed"]
    BY <1>6 DEF phaseOf, IInv, TypeOK
  <2>2. Pool!CloseClaim(r)
    BY <1>6, <2>1 DEF Pool!CloseClaim, Pool!Nothing, Zero
  <2>. QED  BY <2>2 DEF Pool!Next
<1>7. ASSUME NEW o \in OrderIds, NEW n \in 0 .. MaxUnits, NEW st \in Observed,
             RecordOrderUpdate(o, n, st)
      PROVE Pool!Next \/ UNCHANGED Pool!poolVars
  <2>. DEFINE r == binding[o].owner
  <2>1. r \in ReservationIds
    BY <1>7 DEF RecordOrderUpdate, CanRecord, IInv, TypeOK, Binding
  <2>2. CASE status[r] # "ACTIVE"
    BY <1>4, <1>7, <2>2 DEF RecordOrderUpdate
  <2>3. CASE status[r] = "ACTIVE" /\ status'[r] # "ACTIVE"
    <3>1. /\ status' = [status EXCEPT ![r] = status'[r]]
          /\ status'[r] \in {"RELEASED", "FILLED"}
          /\ remaining' = [remaining EXCEPT ![r] = Zero]
      BY <1>7, <2>1, <2>3 DEF RecordOrderUpdate, IInv, TypeOK
    <3>. QED  BY <1>6, <2>1, <2>3, <3>1
  <2>4. CASE status[r] = "ACTIVE" /\ status'[r] = "ACTIVE"
    <3>1. status' = status /\ remaining' = [remaining EXCEPT ![r] = remaining'[r]]
      BY <1>7, <2>1, <2>4 DEF RecordOrderUpdate, IInv, TypeOK
    <3>2. phaseOf[r] = "open" /\ phaseOf' = phaseOf
      BY <2>1, <2>4, <3>1 DEF phaseOf
    <3>3. Pool!Adjust(r)
      BY <1>1, <1>2, <2>1, <3>1, <3>2 DEF Pool!Adjust
    <3>. QED  BY <2>1, <3>3 DEF Pool!Next
  <2>. QED  BY <2>2, <2>3, <2>4
<1>8. ASSUME NEW r \in ReservationIds, Release(r)
      PROVE Pool!Next \/ UNCHANGED Pool!poolVars
  <2>1. CASE status[r] = "ACTIVE"
    <3>1. /\ status' = [status EXCEPT ![r] = status'[r]]
          /\ status'[r] \in {"RELEASED", "FILLED"}
          /\ remaining' = [remaining EXCEPT ![r] = Zero]
      BY <1>8, <2>1 DEF Release, IInv, TypeOK
    <3>. QED  BY <1>6, <2>1, <3>1
  <2>2. CASE status[r] # "ACTIVE"
    BY <1>4, <1>8, <2>2 DEF Release
  <2>. QED  BY <2>1, <2>2
<1>. QED
  BY <1>3, <1>4, <1>5, <1>7, <1>8
  DEF Next, CheckAndReserve, ReserveAgain, BindOrder, ReplaceOrder, ledgerVars

(* Every behaviour of the ledger is one of the capacity pool.              *)
THEOREM LedgerImplementsPool == Spec => ImplementsPool
<1>1. IInv /\ IInv' /\ [Next]_ledgerVars => [Pool!Next]_(Pool!poolVars)
  BY PoolNext
<1>. QED  BY <1>1, PoolInit, Inductive, PTL DEF Spec, ImplementsPool, Pool!Spec
=============================================================================
