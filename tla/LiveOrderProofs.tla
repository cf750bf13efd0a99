--------------------------- MODULE LiveOrderProofs ---------------------------
(***************************************************************************)
(* The theorems about LiveOrder, for any number of submitters, requests    *)
(* and orders, any prices and limits, and any number of crashes.           *)
(*                                                                         *)
(* Lane relates the stores to the broker under every fault; Course says    *)
(* how far the thread that has a request can be, from what its order and   *)
(* its reservation look like.  What is promised without late arrivals, or  *)
(* without malformed answers, rests on these two and on one fact more.     *)
(***************************************************************************)
EXTENDS LiveOrder, TotalsProofs

LP == INSTANCE RiskLedgerProofs WITH Bases <- [Dimensions -> Nat]
----------------------------------------------------------------------------
(* The invariants.                                                          *)

Exists(o) == order[o].status # "NONE"

\* The broker has an order for whoever asked, and fills it up to what was asked.
Orders ==
  \A o \in OrderIds :
    /\ Exists(o) <=> order[o].client \in ReservationIds
    /\ order[o].status = "OPEN" => order[o].filled < Units[order[o].client]
    /\ book[o].status # "NONE" => Exists(o)

\* What a submitter has in hand is an order for its request.
Hands ==
  \A s \in Submitters :
    /\ pc[s] = "idle" <=> client[s] = NoReservation
    /\ pc[s] = "idle" => \A k \in {1, 2} : <<s, k>> \notin late
    /\ \A o \in got[s] :
         /\ got[s] = {o} /\ Exists(o) /\ order[o].client = client[s]
         /\ pc[s] = "bind" => book[o].status # "NONE"

\* An observation may be old, but it was true; and the book has it before the
\* ledger gets it.
Observations ==
  \A p \in Pollers : obs[p].stage # "none" =>
    /\ p # Sync => pc[p] = "done"
    /\ \A o \in obs[p].order :
         /\ obs[p].order = {o} /\ Exists(o)
         /\ obs[p].status # "NONE" /\ obs[p].filled <= order[o].filled
         /\ obs[p].status \in Terminal => order[o].status = obs[p].status
         /\ obs[p].stage = "ledger" => book[o].filled >= obs[p].filled

\* The ledger binds an order to the request it was placed for.
Bindings ==
  \A o \in OrderIds : binding[o].owner # NoReservation =>
    /\ order[o].client = binding[o].owner
    /\ binding[o].filled <= order[o].filled

Lane ==
  /\ TypeOK /\ L!RemainingIsUnfilledShare
  /\ Orders /\ Hands /\ Observations /\ Bindings /\ BookNeverBehindLedger

\* No request is placed by two, nor again by the one that had it.
Requests ==
  /\ \A s, t \in Submitters : client[s] = client[t] /\ client[s] # NoReservation => s = t
  /\ \A s \in Submitters : client[s] # NoReservation => ref[client[s]] = "gone"

Carried(r) == \E s \in Submitters : client[s] = r

\* A request that nobody has taken has left no trace.
Fresh ==
  \A r \in ReservationIds : ~Carried(r) => status[r] = "ABSENT" /\ OrdersUnder(r) = {}

\* Before its first POST a submitter has no order, nor can one arrive.
Sending == {"check", "revalue", "post"}
Unsent ==
  \A s \in Submitters :
    /\ pc[s] = "begin" \/ (pc[s] \in Sending /\ attempt[s] = 1) =>
         OrdersUnder(client[s]) = {} /\ \A k \in {1, 2} : <<s, k>> \notin late
    /\ pc[s] = "begin" => status[client[s]] = "ABSENT"

\* From the reservation to the end its row is active, and no order bound to it.
Held ==
  \A s \in Submitters : pc[s] \in Running \ {"begin"} =>
    /\ status[client[s]] = "ACTIVE"
    /\ \A o \in OrderIds : binding[o].owner # client[s]

\* A row is for the units of its request.
Rows ==
  \A r \in ReservationIds : status[r] # "ABSENT" =>
    intent[r].units = Units[r]

Course == Requests /\ Fresh /\ Unsent /\ Held /\ Rows
----------------------------------------------------------------------------
\* Without late arrivals: until a POST may have been taken there is no order, and there is
\* never a second.
Single ==
  /\ late = {}
  /\ OneOrderPerIntent
  /\ \A s \in Submitters :
       pc[s] \in Sending => OrdersUnder(client[s]) = {}

\* If besides a refusal is a refusal, then a working order is backed.
Backed ==
  /\ \A s \in Submitters : pc[s] = "refused" => OrdersUnder(client[s]) = {}
  /\ \A r \in ReservationIds : OpenUnder(r) # {} => status[r] = "ACTIVE"

\* What may have become an order is known to the operator.
Loud ==
  \A s \in Submitters :
    /\ pc[s] = "refused" /\ attempt[s] = 1 =>
         OrdersUnder(client[s]) = {} /\ \A k \in {1, 2} : <<s, k>> \notin late
    /\ pc[s] = "failed" =>
         /\ \A o \in OrderIds : binding[o].owner # client[s]
         /\ OrdersUnder(client[s]) # {} \/ (\E k \in {1, 2} : <<s, k>> \in late) =>
              client[s] \in unknown /\ status[client[s]] = "ACTIVE"

\* A POST that is on its way is none that its placement may still send.
MaySend(s, k) ==
  \/ pc[s] \in {"begin"} \cup Sending /\ k >= attempt[s]
  \/ pc[s] = "ambiguous" /\ k > attempt[s]
Sent == \A s \in Submitters, k \in {1, 2} : <<s, k>> \in late => ~MaySend(s, k)
----------------------------------------------------------------------------
(* The ledger's own theorems, for the ledger of the lane.                   *)

LEMMA LedgerConstants == LP!LedgerAssumption
BY LiveOrderAssumption DEF IsFiniteSet, LP!IsFiniteSet

LEMMA SameStep == [L!Next]_(L!ledgerVars) => [LP!Next]_(LP!ledgerVars)
BY DEF L!Next, LP!Next, L!ledgerVars, LP!ledgerVars, L!CheckAndReserve, LP!CheckAndReserve,
  L!Reserve, LP!Reserve, L!ReserveAgain, LP!ReserveAgain, L!CanReserve, LP!CanReserve, L!Fits, LP!Fits,
  L!HeldBy, LP!HeldBy, L!Active, LP!Active, L!Total, LP!Total, L!UnitsOf, LP!UnitsOf, L!Cardinality, LP!Cardinality, L!Unfilled, LP!Unfilled,
  L!Zero, LP!Zero, L!Scale, LP!Scale, L!Limits, LP!Limits, L!Bindable, LP!Bindable, L!BindAll, LP!BindAll,
  L!BindOrder, LP!BindOrder, L!CanBind, LP!CanBind, L!ReplaceOrder, LP!ReplaceOrder,
  L!Revalue, LP!Revalue, L!CanRevalue, LP!CanRevalue, L!Repriced, LP!Repriced, L!Filled, LP!Filled, 
  L!OrdersOf, LP!OrdersOf, L!RecordOrderUpdate, LP!RecordOrderUpdate, L!CanRecord, LP!CanRecord, L!Updated, LP!Updated,
  L!Inactive, LP!Inactive, L!Releasing, LP!Releasing, L!Observed, LP!Observed, L!Release, LP!Release, L!Intent, LP!Intent

LEMMA SameType == L!TypeOK <=> LP!TypeOK
BY DEF L!TypeOK, LP!TypeOK, L!Vector, LP!Vector, L!Intent, LP!Intent, L!Binding, LP!Binding, L!OrderStatus, LP!OrderStatus,
  L!Inactive, LP!Inactive, L!Releasing, LP!Releasing, L!Observed, LP!Observed

LEMMA SameShare == L!RemainingIsUnfilledShare <=> LP!RemainingIsUnfilledShare
BY DEF L!RemainingIsUnfilledShare, LP!RemainingIsUnfilledShare, L!Unfilled, LP!Unfilled, L!Filled, LP!Filled,
  L!Zero, LP!Zero, L!Scale, LP!Scale, L!OrdersOf, LP!OrdersOf, L!Total, LP!Total, L!UnitsOf, LP!UnitsOf, L!Cardinality, LP!Cardinality

LEMMA LedgerStep ==
  ASSUME L!TypeOK, L!RemainingIsUnfilledShare, [L!Next]_(L!ledgerVars)
  PROVE  L!TypeOK' /\ L!RemainingIsUnfilledShare'
<1>1. LP!TypeOK /\ LP!RemainingIsUnfilledShare /\ [LP!Next]_(LP!ledgerVars)
  BY SameStep, SameType, SameShare
<1>2. LP!TypeOK' /\ LP!RemainingIsUnfilledShare'
  BY <1>1, LedgerConstants, LP!TypeNext, LP!ShareNext
<1>3. (L!TypeOK <=> LP!TypeOK)' /\ (L!RemainingIsUnfilledShare <=> LP!RemainingIsUnfilledShare)'
  BY SameType, SameShare, PTL
<1>. QED  BY <1>2, <1>3
----------------------------------------------------------------------------
(* Which actions change what.                                               *)

LEMMA BrokerFrame ==
  ASSUME [Next]_vars
  PROVE  \/ UNCHANGED order
         \/ \E s \in Submitters : Post(s)
         \/ \E o \in OrderIds : Fill(o) \/ Cancel(o)
         \/ \E s \in Submitters, k \in {1, 2} : Arrive(s, k)
BY DEF Next, vars, submitVars, requestVars, brokerVars, Submit, Apply, Environment, Preview, Expire, PreTrade, Begin, Refresh,
  BeforeAttempt, Refused, Unknown, Lookup, Track, Bind, Observe, ReadBinding, BookUpdate, LedgerUpdate, Rebook,
  Reconcile, Flip, Crash

LEMMA LedgerFrame ==
  ASSUME [Next]_vars
  PROVE  \/ UNCHANGED ledgerVars
         \/ \E s \in Submitters : Begin(s) \/ BeforeAttempt(s) \/ Refused(s) \/ Bind(s)
         \/ \E p \in Pollers : LedgerUpdate(p)
BY DEF Next, vars, Submit, Apply, Environment, Preview, Expire, PreTrade, Refresh,
  Post, Unknown, Lookup, Track, Observe, ReadBinding, BookUpdate, Rebook,
  Reconcile, Flip, Crash, Fill, Cancel, Arrive

LEMMA BookFrame ==
  ASSUME [Next]_vars
  PROVE  \/ UNCHANGED book
         \/ \E s \in Submitters : Track(s)
         \/ \E p \in Pollers : BookUpdate(p)
         \/ Rebook
BY DEF Next, vars, Submit, Apply, Environment, Preview, Expire, PreTrade, Refresh, Begin, BeforeAttempt, Refused, Bind,
  Post, Unknown, Lookup, Observe, ReadBinding, LedgerUpdate,
  Reconcile, Flip, Crash, Fill, Cancel, Arrive

LEMMA PollFrame ==
  ASSUME [Next]_vars
  PROVE  \/ UNCHANGED obs
         \/ \E p \in Pollers : Observe(p) \/ ReadBinding(p) \/ BookUpdate(p) \/ LedgerUpdate(p)
         \/ Rebook \/ Crash
BY DEF Next, vars, Submit, Apply, Environment, Preview, Expire, PreTrade, Refresh, Begin, BeforeAttempt, Refused, Bind,
  Post, Unknown, Lookup, Track,
  Reconcile, Flip, Fill, Cancel, Arrive

LEMMA HandFrame ==
  ASSUME [Next]_vars
  PROVE  \/ UNCHANGED got
         \/ \E s \in Submitters : Post(s) \/ Lookup(s) \/ Track(s)
         \/ Crash
BY DEF Next, vars, submitVars, Submit, Apply, Environment, Preview, Expire, PreTrade, Refresh, Begin, BeforeAttempt, Refused, Bind,
  Unknown, Observe, ReadBinding, BookUpdate, LedgerUpdate, Rebook,
  Reconcile, Flip, Fill, Cancel, Arrive

LEMMA RequestFrame ==
  ASSUME [Next]_vars
  PROVE  \/ UNCHANGED requestVars
         \/ \E r \in ReservationIds : Preview(r) \/ Expire(r)
         \/ \E s \in Submitters : PreTrade(s) 
         \/ Crash
BY DEF Next, vars, submitVars, Submit, Apply, Environment, Refresh, Begin, BeforeAttempt, Refused, Bind,
  Post, Unknown, Lookup, Track, Observe, ReadBinding, BookUpdate, LedgerUpdate, Rebook,
  Reconcile, Flip, Fill, Cancel, Arrive

LEMMA LateFrame ==
  ASSUME [Next]_vars
  PROVE  \/ UNCHANGED late
         \/ \E s \in Submitters : Post(s)
         \/ \E s \in Submitters, k \in {1, 2} : Arrive(s, k)
BY DEF Next, vars, submitVars, requestVars, brokerVars, Submit, Apply, Environment, Preview, Expire, PreTrade, Begin, Refresh,
  BeforeAttempt, Refused, Unknown, Lookup, Track, Bind, Observe, ReadBinding, BookUpdate, LedgerUpdate, Rebook,
  Reconcile, Flip, Crash, Fill, Cancel
----------------------------------------------------------------------------
(* Every step of the lane is a step of the ledger, or none.                 *)

LEMMA ClientType ==
  ASSUME TypeOK, Hands, NEW s \in Submitters, pc[s] # "idle"
  PROVE  client[s] \in ReservationIds
<1>1. client[s] # NoReservation
  BY DEF Hands
<1>. QED  BY <1>1 DEF TypeOK

LEMMA IntentType ==
  ASSUME TypeOK, Hands, NEW s \in Submitters, pc[s] # "idle"
  PROVE  /\ IntentOf(s) \in L!Intent
         /\ seen[s].rate \in Rates /\ seen[s].base \in [Dimensions -> Nat]
BY ClientType, LiveOrderAssumption DEF TypeOK, IntentOf, L!Intent, L!Vector

LEMMA PlacementUsesLedger ==
  ASSUME TypeOK, Hands, NEW s \in Submitters,
         Begin(s) \/ BeforeAttempt(s) \/ Refused(s) \/ Bind(s)
  PROVE  [L!Next]_(L!ledgerVars)
<1>. DEFINE r == client[s]
<1>1. pc[s] # "idle"
  BY DEF Begin, BeforeAttempt, Refused, Bind
<1>2. r \in ReservationIds /\ IntentOf(s) \in L!Intent
  /\ seen[s].rate \in Rates /\ seen[s].base \in [Dimensions -> Nat] /\ got[s] \subseteq OrderIds
  BY <1>1, ClientType, IntentType DEF TypeOK
<1>3. CASE Reserved(s)
  <2>1. L!CheckAndReserve(r, IntentOf(s), seen[s].base, {})
    BY <1>3 DEF Reserved
  <2>. QED  BY <1>2, <2>1 DEF L!Next
<1>4. CASE L!Revalue(r, seen[s].rate, seen[s].base)
  BY <1>2, <1>4 DEF L!Next
<1>5. CASE L!Release(r)
  BY <1>2, <1>5 DEF L!Next
<1>6. CASE \E o \in got[s] : L!BindOrder(r, o)
  BY <1>2, <1>6 DEF L!Next
<1>7. CASE UNCHANGED ledgerVars
  BY <1>7 DEF ledgerVars, L!ledgerVars
<1>. QED
  BY <1>3, <1>4, <1>5, <1>6, <1>7 DEF Begin, BeforeAttempt, Refused, Bind, GiveUp

LEMMA PollUsesLedger ==
  ASSUME TypeOK, Observations, NEW p \in Pollers, LedgerUpdate(p)
  PROVE  [L!Next]_(L!ledgerVars)
<1>1. PICK o \in obs[p].order :
        \/ L!RecordOrderUpdate(o, obs[p].filled, obs[p].status)
        \/ UNCHANGED ledgerVars
  BY DEF LedgerUpdate
<1>2. o \in OrderIds /\ obs[p].filled \in 0 .. MaxUnits
  BY DEF TypeOK
<1>3. obs[p].status \in L!Observed
  BY DEF TypeOK, Observations, LedgerUpdate, L!Observed, L!Releasing, Terminal
<1>. QED  BY <1>1, <1>2, <1>3 DEF L!Next, ledgerVars, L!ledgerVars

LEMMA UsesLedger ==
  ASSUME TypeOK, Hands, Observations, [Next]_vars
  PROVE  [L!Next]_(L!ledgerVars)
BY LedgerFrame, PlacementUsesLedger, PollUsesLedger DEF ledgerVars, L!ledgerVars
----------------------------------------------------------------------------
(* Type correctness.                                                        *)

LEMMA PositionType ==
  ASSUME TypeOK
  PROVE  PositionUnits \in Nat
<1>. DEFINE f == [o \in OrderIds |-> order[o].filled]
<1>1. \A o \in OrderIds : f[o] \in Nat
  BY LiveOrderAssumption DEF TypeOK
<1>2. Total(f, OrderIds) \in Nat
  <2>. HIDE DEF f
  <2>. QED  BY <1>1, LiveOrderAssumption, TotalType
<1>. QED  BY <1>2 DEF PositionUnits

LEMMA ValuationType ==
  ASSUME TypeOK, NEW q \in Rates
  PROVE  Valuation(q) \in [rate : Rates, base : L!Vector]
<1>1. \A d \in Dimensions : q[d] \in Nat
  BY LiveOrderAssumption
<1>2. \A d \in Dimensions : q[d] * PositionUnits \in Nat
  BY <1>1, PositionType
<1>. QED  BY <1>2 DEF Valuation, L!Scale, L!Vector

LEMMA UnreadType == Unread \in [rate : Rates, base : L!Vector]
<1>1. \E q \in Rates : TRUE
  BY LiveOrderAssumption
<1>. QED  BY <1>1 DEF Unread, L!Zero, L!Vector

LEMMA SeenFrame ==
  ASSUME [Next]_vars
  PROVE  \/ UNCHANGED seen
         \/ \E s \in Submitters, q \in Rates : seen' = [seen EXCEPT ![s] = Valuation(q)]
         \/ \E s \in Submitters : Drop(s)
         \/ seen' = [s \in Submitters |-> Unread]
BY DEF Next, vars, submitVars, Submit, Apply, Environment, Preview, Expire, PreTrade, Refresh, Begin,
  BeforeAttempt, Refused, Bind, Post, Unknown, Lookup, Track, Observe, ReadBinding, BookUpdate, LedgerUpdate,
  Rebook, Reconcile, Flip, Fill, Cancel, Arrive, Crash

LEMMA SeenType ==
  ASSUME TypeOK, [Next]_vars
  PROVE  seen' \in [Submitters -> [rate : Rates, base : L!Vector]]
<1>. DEFINE V == [rate : Rates, base : L!Vector]
<1>1. seen \in [Submitters -> V]
  BY DEF TypeOK
<1>2. ASSUME NEW s \in Submitters, NEW v \in V, seen' = [seen EXCEPT ![s] = v]
      PROVE  seen' \in [Submitters -> V]
  <2>. HIDE DEF V
  <2>. QED  BY <1>1, <1>2
<1>3. \/ UNCHANGED seen
      \/ \E s \in Submitters, v \in V : seen' = [seen EXCEPT ![s] = v]
      \/ seen' = [s \in Submitters |-> Unread]
  BY SeenFrame, ValuationType, UnreadType DEF Drop
<1>. QED  BY <1>1, <1>2, <1>3, UnreadType

LEMMA RequestType ==
  ASSUME TypeOK, [Next]_vars
  PROVE  /\ ref' \in [ReservationIds -> {"new", "cached", "gone"}]
         /\ client' \in [Submitters -> ReservationIds \cup {NoReservation}]
BY RequestFrame DEF TypeOK, requestVars, Preview, Expire, PreTrade, Consume, Crash

\* A step of place_order goes on from where its submitter stands.
LEMMA Moves ==
  ASSUME NEW s \in Submitters, Submit(s)
  PROVE  /\ pc[s] \in Running
         /\ \E x \in (Running \ {"begin"}) \cup {"done", "failed"} : Goto(s, x)
         /\ \/ UNCHANGED attempt \/ Settle(s)
            \/ pc[s] = "ambiguous" /\ attempt[s] = 1 /\ attempt' = [attempt EXCEPT ![s] = 2]
BY DEF Submit, Running, Begin, Refresh, BeforeAttempt, Refused, GiveUp, Post, Unknown, Lookup,
  MayRetry, NextAttempt, Track, Bind, Goto

LEMMA PlaceFrame ==
  ASSUME [Next]_vars
  PROVE  \/ UNCHANGED <<pc, attempt>>
         \/ \E s \in Submitters : PreTrade(s) \/ Submit(s)
         \/ \E p \in Submitters :
              /\ obs[p].stage # "none" /\ obs' = [obs EXCEPT ![p] = Idle]
              /\ pc' = [pc EXCEPT ![p] = "closed"] /\ UNCHANGED attempt
         \/ Crash
BY DEF Next, vars, submitVars, Apply, Environment, Preview, Expire, Pollers,
  Observe, ReadBinding, BookUpdate, LedgerUpdate, Stage, Finish, Returned, Rebook, Reconcile, Flip, Fill, Cancel, Arrive

LEMMA PlaceType ==
  ASSUME TypeOK, [Next]_vars
  PROVE  /\ pc' \in [Submitters -> {"idle"} \cup Running \cup Ended]
         /\ attempt' \in [Submitters -> {1, 2}]
<1>. USE DEF TypeOK
<1>1. ASSUME NEW s \in Submitters, PreTrade(s)
      PROVE  pc' \in [Submitters -> {"idle"} \cup Running \cup Ended] /\ UNCHANGED attempt
  BY <1>1 DEF PreTrade, Goto, Running, Ended
<1>2. ASSUME NEW s \in Submitters, Submit(s)
      PROVE  /\ pc' \in [Submitters -> {"idle"} \cup Running \cup Ended]
             /\ attempt' \in [Submitters -> {1, 2}]
  <2>1. \E x \in (Running \ {"begin"}) \cup {"done", "failed"} : Goto(s, x)
    BY <1>2, Moves
  <2>2. UNCHANGED attempt \/ Settle(s) \/ attempt' = [attempt EXCEPT ![s] = 2]
    BY <1>2, Moves
  <2>3. attempt' \in [Submitters -> {1, 2}]
    BY <2>2 DEF Settle
  <2>4. PICK x \in (Running \ {"begin"}) \cup {"done", "failed"} : pc' = [pc EXCEPT ![s] = x]
    BY <2>1 DEF Goto
  <2>5. x \in {"idle"} \cup Running \cup Ended
    BY <2>4 DEF Ended
  <2>. QED  BY <2>3, <2>4, <2>5
<1>3. ASSUME Crash
      PROVE  /\ pc' \in [Submitters -> {"idle"} \cup Running \cup Ended]
             /\ attempt' \in [Submitters -> {1, 2}]
  BY <1>3 DEF Crash, Ended
<1>. QED  BY <1>1, <1>2, <1>3, PlaceFrame DEF Ended

LEMMA StopType ==
  ASSUME TypeOK, Hands, [Next]_vars
  PROVE  engaged' \in BOOLEAN /\ unknown' \subseteq ReservationIds
<1>1. \/ UNCHANGED stopVars
      \/ \E s \in Submitters : pc[s] # "idle" /\ Alarm(client[s])
      \/ UNCHANGED unknown /\ engaged' \in BOOLEAN
  BY DEF TypeOK, Next, vars, stopVars, submitVars, Submit, Apply, Environment, Preview, Expire, PreTrade,
    Begin, Refresh, BeforeAttempt, Refused, GiveUp, Post, Unknown, Lookup, Track, Bind, Observe, ReadBinding, BookUpdate,
    LedgerUpdate, Stage, Finish, Returned, Rebook, Reconcile, Flip, Crash, Fill, Cancel, Arrive
<1>2. ASSUME NEW s \in Submitters, pc[s] # "idle", Alarm(client[s])
      PROVE  engaged' \in BOOLEAN /\ unknown' \subseteq ReservationIds
  BY <1>2, ClientType DEF TypeOK, Alarm
<1>. QED  BY <1>1, <1>2 DEF TypeOK, stopVars

LEMMA CrashesType ==
  ASSUME TypeOK, [Next]_vars
  PROVE  crashes' \in 0 .. MaxCrashes
<1>1. UNCHANGED crashes \/ (crashes < MaxCrashes /\ crashes' = crashes + 1)
  BY DEF Next, vars, Submit, Apply, Environment, Preview, Expire, PreTrade,
    Begin, Refresh, BeforeAttempt, Refused, Post, Unknown, Lookup, Track, Bind, Observe, ReadBinding, BookUpdate,
    LedgerUpdate, Rebook, Reconcile, Flip, Crash, Fill, Cancel, Arrive
<1>. QED  BY <1>1, LiveOrderAssumption DEF TypeOK

\* An order is new, fills by one, is cancelled, or is as it was.
Opened(s, o) ==
  /\ ~Exists(o) /\ client[s] \in ReservationIds
  /\ order' = [order EXCEPT ![o] = [client |-> client[s], filled |-> 0, status |-> "OPEN"]]

LEMMA AcceptOpens ==
  ASSUME NEW s \in Submitters, NEW o \in OrderIds, client[s] \in ReservationIds, Accept(o, client[s])
  PROVE  Opened(s, o)
<1>1. o \in Unused
  BY DEF Accept
<1>. QED  BY <1>1 DEF Accept, Unused, Opened, Exists

LEMMA BrokerStep ==
  ASSUME TypeOK, Hands, [Next]_vars
  PROVE  \/ UNCHANGED order
         \/ \E s \in Submitters, o \in OrderIds :
              Opened(s, o) /\ (Post(s) \/ \E k \in {1, 2} : Arrive(s, k))
         \/ \E o \in OrderIds : Fill(o) \/ Cancel(o)
<1>1. ASSUME NEW s \in Submitters, Post(s)
      PROVE  UNCHANGED order \/ \E o \in OrderIds : Opened(s, o)
  <2>1. pc[s] # "idle"
    BY <1>1 DEF Post
  <2>2. client[s] \in ReservationIds
    BY <2>1, ClientType
  <2>3. UNCHANGED order \/ \E o \in OrderIds : Accept(o, client[s])
    BY <1>1 DEF Post, brokerVars
  <2>. QED  BY <2>2, <2>3, AcceptOpens
<1>2. ASSUME NEW s \in Submitters, NEW k \in {1, 2}, Arrive(s, k)
      PROVE  \E o \in OrderIds : Opened(s, o)
  <2>1. pc[s] # "idle"
    BY <1>2 DEF Arrive, Hands
  <2>2. client[s] \in ReservationIds
    BY <2>1, ClientType
  <2>. QED  BY <1>2, <2>2, AcceptOpens DEF Arrive
<1>. QED  BY <1>1, <1>2, BrokerFrame

\* Rows keep their type when a field of one is set.
LEMMA SetStatus ==
  ASSUME NEW A, NEW B, NEW C, NEW D, NEW f \in [A -> [client : B, filled : C, status : D]],
         NEW a \in A, NEW st \in D
  PROVE  [f EXCEPT ![a].status = st] \in [A -> [client : B, filled : C, status : D]]
OBVIOUS

LEMMA SetBook ==
  ASSUME NEW A, NEW C, NEW D, NEW f \in [A -> [filled : C, status : D]], NEW a \in A, NEW st \in D
  PROVE  [f EXCEPT ![a].status = st] \in [A -> [filled : C, status : D]]
OBVIOUS

LEMMA SetStage ==
  ASSUME NEW A, NEW B, NEW C, NEW D, NEW E,
         NEW f \in [A -> [stage : B, order : E, filled : C, status : D]], NEW a \in A, NEW x \in B
  PROVE  [f EXCEPT ![a].stage = x] \in [A -> [stage : B, order : E, filled : C, status : D]]
OBVIOUS

LEMMA OrderType ==
  ASSUME TypeOK, Hands, Orders, [Next]_vars
  PROVE  order' \in [OrderIds -> [client : ReservationIds \cup {NoReservation},
                                  filled : 0 .. MaxUnits, status : {"NONE", "OPEN"} \cup Terminal]]
<1>1. ASSUME NEW o \in OrderIds, Fill(o)
      PROVE  /\ order[o].filled + 1 \in 0 .. MaxUnits
             /\ order' = [order EXCEPT ![o].filled = order[o].filled + 1,
                                       ![o].status = IF order[o].filled + 1 = Units[order[o].client]
                                                     THEN "EXECUTED" ELSE "OPEN"]
  <2>1. order[o].status = "OPEN" /\ Exists(o)
    BY <1>1 DEF Fill, Exists
  <2>2. order[o].client \in ReservationIds /\ order[o].filled < Units[order[o].client]
    BY <2>1 DEF Orders
  <2>. QED  BY <1>1, <2>2, LiveOrderAssumption DEF TypeOK, Fill
<1>2. ASSUME NEW o \in OrderIds, NEW n \in 0 .. MaxUnits, NEW st \in {"OPEN"} \cup Terminal,
             order' = [order EXCEPT ![o].filled = n, ![o].status = st]
      PROVE  order' \in [OrderIds -> [client : ReservationIds \cup {NoReservation},
                                  filled : 0 .. MaxUnits, status : {"NONE", "OPEN"} \cup Terminal]]
  <2>1. order \in [OrderIds -> [client : ReservationIds \cup {NoReservation},
                             filled : 0 .. MaxUnits, status : {"NONE", "OPEN"} \cup Terminal]]
    BY DEF TypeOK
  <2>2. st \in {"NONE", "OPEN"} \cup Terminal
    OBVIOUS
  <2>3. PICK B, C, D : /\ B = ReservationIds \cup {NoReservation} /\ C = 0 .. MaxUnits
                       /\ D = {"NONE", "OPEN"} \cup Terminal
    OBVIOUS
  <2>4. order \in [OrderIds -> [client : B, filled : C, status : D]] /\ n \in C /\ st \in D
    BY <2>1, <2>2, <2>3
  <2>5. order' \in [OrderIds -> [client : B, filled : C, status : D]]
    BY <1>2, <2>4
  <2>. QED  BY <2>3, <2>5
<1>4. ASSUME NEW o \in OrderIds, NEW st \in {"OPEN"} \cup Terminal,
             order' = [order EXCEPT ![o].status = st]
      PROVE  order' \in [OrderIds -> [client : ReservationIds \cup {NoReservation},
                                  filled : 0 .. MaxUnits, status : {"NONE", "OPEN"} \cup Terminal]]
  <2>1. order \in [OrderIds -> [client : ReservationIds \cup {NoReservation},
                             filled : 0 .. MaxUnits, status : {"NONE", "OPEN"} \cup Terminal]]
    BY DEF TypeOK
  <2>2. st \in {"NONE", "OPEN"} \cup Terminal
    OBVIOUS
  <2>. QED  BY <1>4, <2>1, <2>2, SetStatus
<1>3. ASSUME NEW s \in Submitters, NEW o \in OrderIds, Opened(s, o)
      PROVE  order' \in [OrderIds -> [client : ReservationIds \cup {NoReservation},
                                  filled : 0 .. MaxUnits, status : {"NONE", "OPEN"} \cup Terminal]]
  BY <1>3, LiveOrderAssumption DEF TypeOK, Opened
<1>5. ASSUME NEW o \in OrderIds, Fill(o)
      PROVE  \E n \in 0 .. MaxUnits, st \in {"OPEN"} \cup Terminal :
               order' = [order EXCEPT ![o].filled = n, ![o].status = st]
  <2>1. (IF order[o].filled + 1 = Units[order[o].client] THEN "EXECUTED" ELSE "OPEN") \in {"OPEN"} \cup Terminal
    BY DEF Terminal
  <2>. QED  BY <1>1, <1>5, <2>1
<1>6. ASSUME NEW o \in OrderIds, Cancel(o)
      PROVE  \E st \in {"OPEN"} \cup Terminal : order' = [order EXCEPT ![o].status = st]
  BY <1>6 DEF Cancel, Terminal
<1>. QED  BY <1>2, <1>3, <1>4, <1>5, <1>6, BrokerStep DEF TypeOK

LEMMA HandType ==
  ASSUME TypeOK, [Next]_vars
  PROVE  /\ got' \in [Submitters -> SUBSET OrderIds]
         /\ late' \subseteq Submitters \X {1, 2}
<1>1. got' \in [Submitters -> SUBSET OrderIds]
  BY HandFrame DEF TypeOK, Post, Lookup, Listed, OrdersUnder, Track, Crash
<1>2. late' \subseteq Submitters \X {1, 2}
  <2>1. \/ late' \subseteq late
        \/ \E s \in Submitters : late' = late \cup {<<s, attempt[s]>>}
    BY LateFrame DEF Post, Arrive, brokerVars
  <2>2. \A s \in Submitters : <<s, attempt[s]>> \in Submitters \X {1, 2}
    BY DEF TypeOK
  <2>3. late \subseteq Submitters \X {1, 2}
    BY DEF TypeOK
  <2>. QED  BY <2>1, <2>2, <2>3
<1>. QED  BY <1>1, <1>2

LEMMA PollType ==
  ASSUME TypeOK, [Next]_vars
  PROVE  obs' \in [Pollers -> [stage : {"none", "read", "book", "settle", "ledger", "rebook"}, order : SUBSET OrderIds,
                               filled : 0 .. MaxUnits, status : {"NONE", "OPEN"} \cup Terminal]]
<1>1. \A p \in Pollers : Polls(p) \subseteq OrderIds
  BY DEF TypeOK, Polls, Pollers
<1>2. Idle \in [stage : {"none", "read", "book", "settle", "ledger", "rebook"}, order : SUBSET OrderIds,
                filled : 0 .. MaxUnits, status : {"NONE", "OPEN"} \cup Terminal]
  BY LiveOrderAssumption DEF Idle
<1>3. ASSUME NEW p \in Pollers, Observe(p)
      PROVE  obs' \in [Pollers -> [stage : {"none", "read", "book", "settle", "ledger", "rebook"}, order : SUBSET OrderIds,
                               filled : 0 .. MaxUnits, status : {"NONE", "OPEN"} \cup Terminal]]
  BY <1>1, <1>3 DEF TypeOK, Observe
<1>4. ASSUME NEW p \in Pollers, NEW x \in {"book", "settle", "ledger", "rebook"}, Stage(p, x)
      PROVE  obs' \in [Pollers -> [stage : {"none", "read", "book", "settle", "ledger", "rebook"}, order : SUBSET OrderIds,
                               filled : 0 .. MaxUnits, status : {"NONE", "OPEN"} \cup Terminal]]
  <2>1. obs' = [obs EXCEPT ![p].stage = x]
    BY <1>4 DEF Stage
  <2>2. x \in {"none", "read", "book", "settle", "ledger", "rebook"}
    OBVIOUS
  <2>. QED  BY <2>1, <2>2, SetStage DEF TypeOK
<1>5. ASSUME NEW p \in Pollers, obs' = [obs EXCEPT ![p] = Idle]
      PROVE  obs' \in [Pollers -> [stage : {"none", "read", "book", "settle", "ledger", "rebook"}, order : SUBSET OrderIds,
                               filled : 0 .. MaxUnits, status : {"NONE", "OPEN"} \cup Terminal]]
  BY <1>2, <1>5 DEF TypeOK
<1>6. \/ UNCHANGED obs \/ Crash
      \/ \E p \in Pollers :
           \/ Observe(p) \/ obs' = [obs EXCEPT ![p] = Idle]
           \/ \E x \in {"book", "settle", "ledger", "rebook"} : Stage(p, x)
  BY PollFrame DEF ReadBinding, BookUpdate, LedgerUpdate, Rebook, Returned, Finish, Pollers
<1>. QED  BY <1>2, <1>3, <1>4, <1>5, <1>6 DEF TypeOK, Crash

LEMMA BookType ==
  ASSUME TypeOK, [Next]_vars
  PROVE  book' \in [OrderIds -> [filled : 0 .. MaxUnits, status : {"NONE", "PENDING", "OPEN"} \cup Terminal]]
<1>1. ASSUME NEW p \in Pollers, NEW o \in OrderIds, book' = Booked(p, o)
      PROVE  book' \in [OrderIds -> [filled : 0 .. MaxUnits, status : {"NONE", "PENDING", "OPEN"} \cup Terminal]]
  BY <1>1 DEF TypeOK, Booked
<1>2. ASSUME NEW s \in Submitters, Track(s)
      PROVE  book' \in [OrderIds -> [filled : 0 .. MaxUnits, status : {"NONE", "PENDING", "OPEN"} \cup Terminal]]
  <2>1. UNCHANGED book \/ \E o \in OrderIds : book' = [book EXCEPT ![o].status = "PENDING"]
    BY <1>2 DEF TypeOK, Track
  <2>2. book \in [OrderIds -> [filled : 0 .. MaxUnits, status : {"NONE", "PENDING", "OPEN"} \cup Terminal]]
    BY DEF TypeOK
  <2>3. "PENDING" \in {"NONE", "PENDING", "OPEN"} \cup Terminal
    OBVIOUS
  <2>. QED  BY <2>1, <2>2, <2>3, SetBook
<1>3. \/ UNCHANGED book \/ \E s \in Submitters : Track(s)
      \/ \E p \in Pollers, o \in OrderIds : book' = Booked(p, o)
  BY BookFrame DEF TypeOK, BookUpdate, Rebook, Pollers
<1>. QED  BY <1>1, <1>2, <1>3 DEF TypeOK

LEMMA LaneTypeNext ==
  ASSUME TypeOK, L!RemainingIsUnfilledShare, Orders, Hands, Observations, [Next]_vars
  PROVE  TypeOK' /\ L!RemainingIsUnfilledShare'
<1>1. L!TypeOK' /\ L!RemainingIsUnfilledShare'
  <2>1. L!TypeOK /\ [L!Next]_(L!ledgerVars)
    BY UsesLedger DEF TypeOK
  <2>. QED  BY <2>1, LedgerStep
<1>. QED
  BY <1>1, RequestType, PlaceType, SeenType, HandType, OrderType, PollType, BookType, StopType, CrashesType
  DEF TypeOK
----------------------------------------------------------------------------
(* The broker's orders and the book only move forward.                      *)

LEMMA OrderGrows ==
  ASSUME TypeOK, Hands, [Next]_vars, NEW o \in OrderIds, Exists(o)
  PROVE  /\ Exists(o)' /\ order'[o].client = order[o].client
         /\ order'[o].filled >= order[o].filled
         /\ order[o].status \in Terminal => order'[o] = order[o]
<1>1. order[o].filled \in Nat /\ order \in [OrderIds -> [client : ReservationIds \cup {NoReservation},
                             filled : 0 .. MaxUnits, status : {"NONE", "OPEN"} \cup Terminal]]
  BY LiveOrderAssumption DEF TypeOK
<1>2. ASSUME NEW s \in Submitters, NEW p \in OrderIds, Opened(s, p)
      PROVE  order'[o] = order[o]
  BY <1>1, <1>2 DEF Opened
<1>3. ASSUME NEW p \in OrderIds, Fill(p)
      PROVE  /\ Exists(o)' /\ order'[o].client = order[o].client
             /\ order'[o].filled >= order[o].filled
             /\ order[o].status \in Terminal => order'[o] = order[o]
  BY <1>1, <1>3 DEF Fill, Exists, Terminal
<1>4. ASSUME NEW p \in OrderIds, Cancel(p)
      PROVE  /\ Exists(o)' /\ order'[o].client = order[o].client
             /\ order'[o].filled >= order[o].filled
             /\ order[o].status \in Terminal => order'[o] = order[o]
  BY <1>1, <1>4 DEF Cancel, Exists, Terminal
<1>5. ASSUME order'[o] = order[o]
      PROVE  /\ Exists(o)' /\ order'[o].client = order[o].client
             /\ order'[o].filled >= order[o].filled
             /\ order[o].status \in Terminal => order'[o] = order[o]
  BY <1>1, <1>5 DEF Exists
<1>. QED  BY <1>2, <1>3, <1>4, <1>5, BrokerStep

LEMMA OrdersNext ==
  ASSUME TypeOK, Hands, Orders, Observations, [Next]_vars
  PROVE  Orders'
<1>. SUFFICES ASSUME NEW o \in OrderIds
              PROVE  /\ Exists(o)' <=> order'[o].client \in ReservationIds
                     /\ order'[o].status = "OPEN" => order'[o].filled < Units[order'[o].client]
                     /\ book'[o].status # "NONE" => Exists(o)'
  BY DEF Orders
<1>1. /\ order[o].filled \in Nat
      /\ order \in [OrderIds -> [client : ReservationIds \cup {NoReservation},
                             filled : 0 .. MaxUnits, status : {"NONE", "OPEN"} \cup Terminal]]
      /\ \A r \in ReservationIds : Units[r] \in Nat /\ Units[r] > 0
  BY LiveOrderAssumption DEF TypeOK
<1>2. /\ Exists(o) <=> order[o].client \in ReservationIds
      /\ order[o].status = "OPEN" => order[o].filled < Units[order[o].client]
  BY DEF Orders
<1>3. Exists(o)' <=> order'[o].client \in ReservationIds
  <2>1. CASE Exists(o)
    BY <1>2, <2>1, OrderGrows
  <2>2. CASE ~Exists(o)
    <3>1. ASSUME NEW p \in OrderIds, Fill(p) \/ Cancel(p)
          PROVE  order'[o] = order[o]
      BY <1>1, <2>2, <3>1 DEF Fill, Cancel, Exists
    <3>2. ASSUME NEW s \in Submitters, NEW p \in OrderIds, Opened(s, p)
          PROVE  order'[o] = order[o] \/ (Exists(o)' /\ order'[o].client \in ReservationIds)
      BY <1>1, <3>2 DEF Opened, Exists
    <3>3. order'[o] = order[o] \/ (Exists(o)' /\ order'[o].client \in ReservationIds)
      BY <3>1, <3>2, BrokerStep
    <3>. QED  BY <1>2, <3>3 DEF Exists
  <2>. QED  BY <2>1, <2>2
<1>4. order'[o].status = "OPEN" => order'[o].filled < Units[order'[o].client]
  <2>1. ASSUME NEW p \in OrderIds, Fill(p), order'[o].status = "OPEN"
        PROVE  order'[o].filled < Units[order'[o].client]
    <3>1. CASE p # o
      BY <1>1, <1>2, <2>1, <3>1 DEF Fill
    <3>2. CASE p = o
      <4>1. /\ order'[o].client = order[o].client /\ order[o].status = "OPEN"
            /\ order'[o].filled = order[o].filled + 1 /\ order[o].filled + 1 # Units[order[o].client]
        BY <1>1, <2>1, <3>2 DEF Fill
      <4>2. order[o].client \in ReservationIds
        BY <4>1, <1>2 DEF Exists
      <4>. QED  BY <1>1, <1>2, <4>1, <4>2
    <3>. QED  BY <3>1, <3>2
  <2>2. ASSUME NEW p \in OrderIds, Cancel(p), order'[o].status = "OPEN"
        PROVE  order'[o].filled < Units[order'[o].client]
    BY <1>1, <1>2, <2>2 DEF Cancel
  <2>3. ASSUME NEW s \in Submitters, NEW p \in OrderIds, Opened(s, p), order'[o].status = "OPEN"
        PROVE  order'[o].filled < Units[order'[o].client]
    BY <1>1, <1>2, <2>3 DEF Opened
  <2>. QED  BY <1>2, <2>1, <2>2, <2>3, BrokerStep
<1>5. book'[o].status # "NONE" => Exists(o)
  <2>1. ASSUME NEW s \in Submitters, Track(s), book'[o].status # "NONE"
        PROVE  Exists(o)
    <3>1. \A x \in got[s] : Exists(x)
      BY DEF Hands
    <3>2. UNCHANGED book \/ \E x \in got[s] : book' = [book EXCEPT ![x].status = "PENDING"]
      BY <2>1 DEF Track
    <3>3. book \in [OrderIds -> [filled : 0 .. MaxUnits, status : {"NONE", "PENDING", "OPEN"} \cup Terminal]]
      BY DEF TypeOK
    <3>. QED  BY <2>1, <3>1, <3>2, <3>3 DEF Orders
  <2>2. ASSUME NEW p \in Pollers, BookUpdate(p) \/ (p = Sync /\ Rebook), book'[o].status # "NONE"
        PROVE  Exists(o)
    <3>1. obs[p].stage # "none"
      BY <2>2 DEF BookUpdate, Rebook
    <3>2. \A x \in obs[p].order : Exists(x)
      BY <3>1 DEF Observations
    <3>3. UNCHANGED book \/ \E x \in obs[p].order : book' = Booked(p, x)
      BY <2>2 DEF BookUpdate, Rebook
    <3>. QED  BY <2>2, <3>2, <3>3 DEF Orders, Booked, TypeOK
  <2>. QED  BY <2>1, <2>2, BookFrame DEF Orders, Pollers
<1>. QED  BY <1>3, <1>4, <1>5, OrderGrows

LEMMA BookGrows ==
  ASSUME TypeOK, Observations, [Next]_vars, NEW o \in OrderIds
  PROVE  book'[o].filled >= book[o].filled /\ (book[o].status # "NONE" => book'[o].status # "NONE")
<1>1. book[o].filled \in Nat
      /\ book \in [OrderIds -> [filled : 0 .. MaxUnits, status : {"NONE", "PENDING", "OPEN"} \cup Terminal]]
  BY LiveOrderAssumption DEF TypeOK
<1>2. ASSUME NEW s \in Submitters, Track(s)
      PROVE  book'[o].filled >= book[o].filled /\ (book[o].status # "NONE" => book'[o].status # "NONE")
  <2>1. UNCHANGED book \/ \E x \in OrderIds : book' = [book EXCEPT ![x].status = "PENDING"]
    BY <1>2 DEF TypeOK, Track
  <2>. QED  BY <1>1, <2>1
<1>3. ASSUME NEW p \in Pollers, BookUpdate(p) \/ (p = Sync /\ Rebook)
      PROVE  book'[o].filled >= book[o].filled /\ (book[o].status # "NONE" => book'[o].status # "NONE")
  <2>1. UNCHANGED book \/ \E x \in OrderIds : Bookable(p, x) /\ book' = Booked(p, x)
    BY <1>3 DEF BookUpdate, Rebook, TypeOK
  <2>2. obs[p].status # "NONE" \/ UNCHANGED book
    <3>1. obs[p].stage # "none"
      BY <1>3 DEF BookUpdate, Rebook
    <3>2. UNCHANGED book \/ obs[p].order # {}
      BY <1>3 DEF BookUpdate, Rebook
    <3>. QED  BY <3>1, <3>2 DEF Observations
  <2>. QED  BY <1>1, <2>1, <2>2 DEF Bookable, Booked
<1>. QED  BY <1>1, <1>2, <1>3, BookFrame DEF Pollers
----------------------------------------------------------------------------
(* What a step does to one submitter.                                       *)

LEMMA PlaceStep ==
  ASSUME TypeOK, Observations, [Next]_vars, NEW s \in Submitters
  PROVE  \/ pc'[s] = pc[s] /\ attempt'[s] = attempt[s]
         \/ PreTrade(s) /\ pc[s] = "idle" /\ pc'[s] \in {"begin", "failed"} /\ attempt'[s] = attempt[s]
         \/ Submit(s)
         \/ pc[s] = "done" /\ pc'[s] = "closed" /\ obs'[s] = Idle
         \/ Crash
<1>. USE DEF TypeOK
<1>1. ASSUME NEW t \in Submitters, PreTrade(t) \/ Submit(t), t # s
      PROVE  pc'[s] = pc[s] /\ attempt'[s] = attempt[s]
  BY <1>1, Moves DEF PreTrade, Goto, Settle
<1>2. ASSUME PreTrade(s)
      PROVE  pc[s] = "idle" /\ pc'[s] \in {"begin", "failed"} /\ attempt'[s] = attempt[s]
  BY <1>2 DEF PreTrade, Goto
<1>3. ASSUME NEW p \in Submitters, obs[p].stage # "none", obs' = [obs EXCEPT ![p] = Idle],
             pc' = [pc EXCEPT ![p] = "closed"]
      PROVE  pc'[s] = pc[s] \/ (pc[s] = "done" /\ pc'[s] = "closed" /\ obs'[s] = Idle)
  <2>1. pc[p] = "done"
    BY <1>3, LiveOrderAssumption DEF Observations, Pollers
  <2>. QED  BY <1>3, <2>1 DEF Pollers
<1>. QED  BY <1>1, <1>2, <1>3, PlaceFrame

LEMMA RequestStep ==
  ASSUME TypeOK, [Next]_vars, NEW s \in Submitters
  PROVE  \/ client'[s] = client[s]
         \/ PreTrade(s) /\ client'[s] \in ReservationIds
BY RequestFrame DEF TypeOK, requestVars, Preview, Expire, PreTrade, Crash

LEMMA HandStep ==
  ASSUME TypeOK, [Next]_vars, NEW s \in Submitters
  PROVE  \/ got'[s] = got[s]
         \/ Post(s) \/ Lookup(s)
         \/ got'[s] = {}
BY HandFrame DEF TypeOK, Post, Lookup, Track, Crash

LEMMA LateStep ==
  ASSUME TypeOK, [Next]_vars, NEW s \in Submitters, NEW k \in {1, 2}, <<s, k>> \in late'
  PROVE  <<s, k>> \in late \/ ("late" \in Faults /\ Post(s) /\ k = attempt[s] /\ pc'[s] = "ambiguous")
<1>1. ASSUME NEW t \in Submitters, Post(t), <<s, k>> \notin late
      PROVE  "late" \in Faults /\ s = t /\ k = attempt[s] /\ pc'[s] = "ambiguous"
  <2>1. /\ "late" \in Faults /\ late' = late \cup {<<t, attempt[t]>>} /\ Goto(t, "ambiguous")
    BY <1>1 DEF Post, brokerVars
  <2>. QED  BY <1>1, <2>1 DEF Goto, TypeOK
<1>2. ASSUME NEW t \in Submitters, NEW j \in {1, 2}, Arrive(t, j)
      PROVE  <<s, k>> \in late
  BY <1>2 DEF Arrive
<1>. QED  BY <1>1, <1>2, LateFrame

LEMMA HandsNext ==
  ASSUME TypeOK, Orders, Hands, Observations, Orders', [Next]_vars
  PROVE  Hands'
<1>. SUFFICES ASSUME NEW s \in Submitters
              PROVE  /\ pc'[s] = "idle" <=> client'[s] = NoReservation
                     /\ pc'[s] = "idle" => \A k \in {1, 2} : <<s, k>> \notin late'
                     /\ \A o \in got'[s] :
                          /\ got'[s] = {o} /\ Exists(o)' /\ order'[o].client = client'[s]
                          /\ pc'[s] = "bind" => book'[o].status # "NONE"
  BY DEF Hands
<1>1. pc[s] = "idle" <=> client[s] = NoReservation
  BY DEF Hands
<1>2. pc'[s] = "idle" => pc[s] = "idle" /\ ~PreTrade(s) /\ ~Submit(s)
  <2>1. ASSUME Submit(s)
        PROVE  pc'[s] # "idle"
    BY <2>1, Moves DEF TypeOK, Goto, Running
  <2>2. ASSUME Crash
        PROVE  pc'[s] = "idle" => pc[s] = "idle" /\ ~PreTrade(s) /\ ~Submit(s)
    <3>1. pc'[s] = pc[s] \/ pc'[s] = "dead"
      BY <2>2 DEF Crash
    <3>2. crashes' # crashes
      BY <2>2 DEF Crash, TypeOK
    <3>3. Submit(s) => crashes' = crashes
      BY DEF Submit, Begin, Refresh, BeforeAttempt, Refused, Post, Unknown, Lookup, Track, Bind
    <3>. QED  BY <3>1, <3>2, <3>3 DEF PreTrade
  <2>3. ASSUME PreTrade(s)
        PROVE  pc'[s] # "idle"
    BY <2>3 DEF PreTrade, Goto, TypeOK
  <2>. QED  BY <2>1, <2>2, <2>3, PlaceStep
<1>3. pc'[s] = "idle" <=> client'[s] = NoReservation
  <2>1. PreTrade(s) => pc'[s] # "idle" /\ client'[s] # NoReservation
    BY <1>2, LiveOrderAssumption DEF PreTrade, TypeOK
  <2>2. ~PreTrade(s) => client'[s] = client[s]
    BY RequestStep
  <2>3. ~PreTrade(s) /\ pc[s] = "idle" => pc'[s] = "idle"
    <3>1. ~Submit(s) \/ pc[s] # "idle"
      BY Moves DEF Running
    <3>. QED  BY <3>1, PlaceStep DEF Crash, Running
  <2>. QED  BY <1>1, <1>2, <2>1, <2>2, <2>3
<1>4. pc'[s] = "idle" => \A k \in {1, 2} : <<s, k>> \notin late'
  BY <1>2, LateStep DEF Hands
<1>5. ASSUME NEW o \in got'[s]
      PROVE  /\ got'[s] = {o} /\ Exists(o)' /\ order'[o].client = client'[s]
             /\ pc'[s] = "bind" => book'[o].status # "NONE"
  <2>1. CASE Post(s)
    <3>1. client'[s] = client[s] /\ pc'[s] # "bind"
      BY <2>1 DEF Post, requestVars, Goto, TypeOK
    <3>2. (\E x \in OrderIds : Accept(x, client[s]) /\ got' = [got EXCEPT ![s] = {x}]) \/ UNCHANGED got
      BY <2>1 DEF Post
    <3>3. ASSUME NEW x \in OrderIds, Accept(x, client[s]), got' = [got EXCEPT ![s] = {x}]
          PROVE  /\ got'[s] = {o} /\ Exists(o)' /\ order'[o].client = client'[s]
                 /\ pc'[s] = "bind" => book'[o].status # "NONE"
      <4>1. o = x /\ got'[s] = {o} /\ Opened(s, x)
        <5>1. client[s] \in ReservationIds
          BY <2>1, ClientType DEF Post
        <5>. QED  BY <3>3, <5>1, AcceptOpens DEF TypeOK
      <4>. QED  BY <3>1, <4>1 DEF Opened, Exists, TypeOK
    <3>4. CASE UNCHANGED got
      <4>1. o \in got[s] /\ o \in OrderIds
        BY <3>4 DEF TypeOK
      <4>. QED  BY <3>1, <3>4, <4>1, OrderGrows DEF Hands
    <3>. QED  BY <3>2, <3>3, <3>4
  <2>2. CASE Lookup(s)
    <3>1. client'[s] = client[s] /\ pc'[s] # "bind" /\ client[s] \in ReservationIds
      <4>1. client[s] \in ReservationIds
        BY <2>2, ClientType DEF Lookup
      <4>. QED  BY <2>2, <4>1 DEF Lookup, requestVars, Goto, TypeOK
    <3>2. (o \in got[s] /\ got'[s] = got[s]) \/ (o \in OrdersUnder(client[s]) /\ got'[s] = {o})
      BY <2>2 DEF Lookup, Listed, TypeOK
    <3>3. o \in OrderIds /\ Exists(o) /\ order[o].client = client[s] /\ got'[s] = {o}
      BY <3>1, <3>2 DEF Hands, Orders, OrdersUnder, TypeOK
    <3>. QED  BY <3>1, <3>3, OrderGrows
  <2>3. CASE ~Post(s) /\ ~Lookup(s)
    <3>1. got'[s] = got[s] /\ o \in got[s] /\ o \in OrderIds
      BY <2>3, HandStep DEF TypeOK
    <3>2. got[s] = {o} /\ Exists(o) /\ order[o].client = client[s]
      BY <3>1 DEF Hands
    <3>3. client[s] \in ReservationIds /\ pc[s] # "idle"
      BY <3>1, <3>2, <1>1, LiveOrderAssumption DEF Orders
    <3>4. client'[s] = client[s]
      BY <3>3, RequestStep DEF PreTrade
    <3>5. pc'[s] = "bind" => book'[o].status # "NONE"
      <4>1. CASE Track(s)
        <5>1. \/ \E x \in got[s] : book' = (IF book[x].status = "NONE"
                                            THEN [book EXCEPT ![x].status = "PENDING"] ELSE book)
              \/ Goto(s, "failed")
          BY <4>1 DEF Track
        <5>2. CASE Goto(s, "failed")
          BY <5>2 DEF Goto, TypeOK
        <5>3. CASE \E x \in got[s] : book' = (IF book[x].status = "NONE"
                                             THEN [book EXCEPT ![x].status = "PENDING"] ELSE book)
          <6>1. book' = IF book[o].status = "NONE" THEN [book EXCEPT ![o].status = "PENDING"] ELSE book
            BY <3>2, <5>3
          <6>. QED  BY <3>1, <6>1 DEF TypeOK
        <5>. QED  BY <5>1, <5>2, <5>3
      <4>2. CASE ~Track(s)
        <5>1. pc'[s] = "bind" => pc[s] = "bind"
          <6>1. Submit(s) => pc'[s] # "bind"
            BY <4>2, <2>3 DEF Submit, Begin, Refresh, BeforeAttempt, GiveUp, Refused, Unknown, Bind, Goto, TypeOK
          <6>. QED  BY <6>1, PlaceStep DEF Crash
        <5>. QED  BY <3>1, <5>1, BookGrows DEF Hands
      <4>. QED  BY <4>1, <4>2
    <3>. QED  BY <3>1, <3>2, <3>4, <3>5, OrderGrows
  <2>. QED  BY <2>1, <2>2, <2>3
<1>. QED  BY <1>3, <1>4, <1>5

LEMMA PollStep ==
  ASSUME TypeOK, [Next]_vars, NEW p \in Pollers, obs'[p].stage # "none"
  PROVE  \/ obs'[p] = obs[p]
         \/ Observe(p)
         \/ /\ obs[p].stage # "none" /\ UNCHANGED pc
            /\ \E x \in {"book", "settle", "rebook"} : obs'[p] = [obs[p] EXCEPT !.stage = x]
         \/ /\ obs[p].stage # "none" /\ UNCHANGED pc
            /\ obs'[p] = [obs[p] EXCEPT !.stage = "ledger"]
            /\ \E o \in obs[p].order : book' = Booked(p, o)
<1>1. obs \in [Pollers -> [stage : {"none", "read", "book", "settle", "ledger", "rebook"}, order : SUBSET OrderIds,
                           filled : 0 .. MaxUnits, status : {"NONE", "OPEN"} \cup Terminal]]
  BY DEF TypeOK
<1>2. ~Crash
  BY DEF Crash, Idle
<1>3. obs' # [obs EXCEPT ![p] = Idle]
  BY <1>1 DEF Idle
<1>4. \/ UNCHANGED obs
      \/ \E q \in Pollers : obs' = [obs EXCEPT ![q] = Idle]
      \/ \E q \in Pollers : Observe(q)
      \/ \E q \in Pollers, x \in {"book", "settle", "rebook"} : obs[q].stage # "none" /\ Stage(q, x)
      \/ \E q \in Pollers : /\ obs[q].stage # "none" /\ Stage(q, "ledger")
                            /\ \E o \in obs[q].order : book' = Booked(q, o)
  BY <1>2, PollFrame DEF ReadBinding, BookUpdate, LedgerUpdate, Rebook, Returned, Finish, Pollers
<1>5. ASSUME NEW q \in Pollers, Observe(q), q # p
      PROVE  obs'[p] = obs[p]
  BY <1>1, <1>5 DEF Observe
<1>6. ASSUME NEW q \in Pollers, NEW x, Stage(q, x)
      PROVE  UNCHANGED pc /\ obs'[p] = IF q = p THEN [obs[p] EXCEPT !.stage = x] ELSE obs[p]
  BY <1>1, <1>6 DEF Stage
<1>. QED  BY <1>1, <1>3, <1>4, <1>5, <1>6

LEMMA ObservationsNext ==
  ASSUME TypeOK, Orders, Hands, Observations, [Next]_vars
  PROVE  Observations'
<1>. SUFFICES ASSUME NEW p \in Pollers, obs'[p].stage # "none"
              PROVE  /\ p # Sync => pc'[p] = "done"
                     /\ \A o \in obs'[p].order :
                          /\ obs'[p].order = {o} /\ Exists(o)'
                          /\ obs'[p].status # "NONE" /\ obs'[p].filled <= order'[o].filled
                          /\ obs'[p].status \in Terminal => order'[o].status = obs'[p].status
                          /\ obs'[p].stage = "ledger" => book'[o].filled >= obs'[p].filled
  BY DEF Observations
<1>1. obs \in [Pollers -> [stage : {"none", "read", "book", "settle", "ledger", "rebook"}, order : SUBSET OrderIds,
                           filled : 0 .. MaxUnits, status : {"NONE", "OPEN"} \cup Terminal]]
  BY DEF TypeOK
<1>2. \A o \in OrderIds : order[o].filled \in Nat /\ book[o].filled \in Nat
  BY LiveOrderAssumption DEF TypeOK
<1>3. \A o \in OrderIds : order'[o].filled \in Nat /\ book'[o].filled \in Nat
  BY OrderType, BookType, LiveOrderAssumption
<1>4. ASSUME p # Sync, pc[p] = "done", UNCHANGED pc \/ obs'[p] = obs[p]
      PROVE  pc'[p] = "done"
  <2>1. p \in Submitters
    BY <1>4 DEF Pollers
  <2>2. ~Crash
    BY DEF Crash, Idle
  <2>3. obs'[p] # Idle
    BY DEF Idle
  <2>. QED  BY <1>4, <2>1, <2>2, <2>3, PlaceStep, Moves DEF Running
<1>5. ASSUME NEW o \in OrderIds, Exists(o), obs[p].filled <= order[o].filled,
             obs[p].status \in Terminal => order[o].status = obs[p].status
      PROVE  /\ Exists(o)' /\ obs[p].filled <= order'[o].filled
             /\ obs[p].status \in Terminal => order'[o].status = obs[p].status
  BY <1>1, <1>2, <1>3, <1>5, OrderGrows
<1>6. CASE obs'[p] = obs[p]
  <2>1. /\ p # Sync => pc[p] = "done"
        /\ \A o \in obs[p].order :
             /\ obs[p].order = {o} /\ Exists(o)
             /\ obs[p].status # "NONE" /\ obs[p].filled <= order[o].filled
             /\ obs[p].status \in Terminal => order[o].status = obs[p].status
             /\ obs[p].stage = "ledger" => book[o].filled >= obs[p].filled
    BY <1>6 DEF Observations
  <2>2. \A o \in obs[p].order : o \in OrderIds /\ book'[o].filled >= book[o].filled
    BY <1>1, BookGrows
  <2>. QED  BY <1>1, <1>2, <1>3, <1>4, <1>5, <1>6, <2>1, <2>2
<1>7. CASE Observe(p)
  <2>1. PICK o \in Polls(p) : obs' = [obs EXCEPT ![p] = [stage |-> "read", order |-> {o},
                                  filled |-> order[o].filled, status |-> order[o].status]]
    BY <1>7 DEF Observe
  <2>2. /\ obs'[p].stage = "read" /\ obs'[p].order = {o} /\ obs'[p].filled = order[o].filled
        /\ obs'[p].status = order[o].status
    BY <1>1, <2>1
  <2>3. UNCHANGED <<pc, order>>
    BY <1>7 DEF Observe, submitVars, brokerVars
  <2>4. p # Sync => pc[p] = "done"
    BY <2>1 DEF Polls
  <2>5. o \in OrderIds /\ Exists(o)
    <3>1. CASE p = Sync
      BY <2>1, <3>1 DEF Polls, Orders
    <3>2. CASE p # Sync
      <4>1. o \in got[p] /\ p \in Submitters
        BY <2>1, <3>2 DEF Polls, Pollers
      <4>. QED  BY <4>1 DEF Hands, TypeOK
    <3>. QED  BY <3>1, <3>2
  <2>. QED  BY <1>2, <2>2, <2>3, <2>4, <2>5 DEF Exists
<1>8. ASSUME obs[p].stage # "none", UNCHANGED pc,
             \/ \E x \in {"book", "settle", "rebook"} : obs'[p] = [obs[p] EXCEPT !.stage = x]
             \/ /\ obs'[p] = [obs[p] EXCEPT !.stage = "ledger"]
                /\ \E o \in obs[p].order : book' = Booked(p, o)
      PROVE  /\ p # Sync => pc'[p] = "done"
             /\ \A o \in obs'[p].order :
                  /\ obs'[p].order = {o} /\ Exists(o)'
                  /\ obs'[p].status # "NONE" /\ obs'[p].filled <= order'[o].filled
                  /\ obs'[p].status \in Terminal => order'[o].status = obs'[p].status
                  /\ obs'[p].stage = "ledger" => book'[o].filled >= obs'[p].filled
  <2>1. /\ obs'[p].order = obs[p].order /\ obs'[p].filled = obs[p].filled
        /\ obs'[p].status = obs[p].status
        /\ obs'[p].stage = "ledger" => \E o \in obs[p].order : book' = Booked(p, o)
    BY <1>1, <1>8
  <2>2. /\ p # Sync => pc[p] = "done"
        /\ \A o \in obs[p].order :
             /\ obs[p].order = {o} /\ Exists(o)
             /\ obs[p].status # "NONE" /\ obs[p].filled <= order[o].filled
             /\ obs[p].status \in Terminal => order[o].status = obs[p].status
    BY <1>8 DEF Observations
  <2>3. ASSUME NEW o \in obs[p].order, book' = Booked(p, o)
        PROVE  book'[o].filled >= obs[p].filled
    BY <1>1, <2>3, LiveOrderAssumption DEF Booked, TypeOK
  <2>4. \A o \in obs[p].order : o \in OrderIds
    BY <1>1
  <2>. QED  BY <1>4, <1>5, <1>8, <2>1, <2>2, <2>3, <2>4
<1>. QED  BY <1>6, <1>7, <1>8, PollStep
----------------------------------------------------------------------------
(* What a step does to the bindings.                                        *)

LEMMA BindingStep ==
  ASSUME TypeOK, Hands, Observations, [Next]_vars, NEW o \in OrderIds
  PROVE  \/ binding'[o] = binding[o]
         \/ \E s \in Submitters :
              /\ Bind(s) /\ o \in got[s] /\ binding[o].owner = NoReservation
              /\ binding'[o].owner = client[s] /\ binding'[o].filled = 0
         \/ \E p \in Pollers :
              /\ LedgerUpdate(p) /\ o \in obs[p].order /\ obs[p].stage = "ledger"
              /\ binding'[o].owner = binding[o].owner /\ binding[o].owner # NoReservation
              /\ binding'[o].filled = obs[p].filled
<1>1. binding \in [OrderIds -> L!Binding]
  BY DEF TypeOK, L!TypeOK
<1>2. ASSUME NEW s \in Submitters, Bind(s), binding'[o] # binding[o]
      PROVE  /\ o \in got[s] /\ binding[o].owner = NoReservation
             /\ binding'[o].owner = client[s] /\ binding'[o].filled = 0
  <2>1. PICK x \in got[s] : L!BindOrder(client[s], x) \/ UNCHANGED ledgerVars
    BY <1>2 DEF Bind
  <2>. QED  BY <1>1, <1>2, <2>1 DEF L!BindOrder, L!CanBind, L!Bindable, L!BindAll, ledgerVars
<1>3. ASSUME NEW p \in Pollers, LedgerUpdate(p), binding'[o] # binding[o]
      PROVE  /\ o \in obs[p].order /\ obs[p].stage = "ledger"
             /\ binding'[o].owner = binding[o].owner /\ binding[o].owner # NoReservation
             /\ binding'[o].filled = obs[p].filled
  <2>1. PICK x \in obs[p].order :
          L!RecordOrderUpdate(x, obs[p].filled, obs[p].status) \/ UNCHANGED ledgerVars
    BY <1>3 DEF LedgerUpdate
  <2>. QED
    BY <1>1, <1>3, <2>1 DEF L!RecordOrderUpdate, L!CanRecord, L!Updated, L!Binding, ledgerVars, LedgerUpdate
<1>4. ASSUME NEW s \in Submitters, Begin(s) \/ BeforeAttempt(s) \/ Refused(s)
      PROVE  binding'[o] = binding[o]
  BY <1>1, <1>4 DEF Begin, BeforeAttempt, Refused, GiveUp, Reserved, L!CheckAndReserve, L!Reserve, L!ReserveAgain,
    L!BindAll, L!Revalue, L!Release, ledgerVars
<1>. QED  BY <1>2, <1>3, <1>4, LedgerFrame DEF ledgerVars

LEMMA BindingsNext ==
  ASSUME TypeOK, Orders, Hands, Observations, Bindings, [Next]_vars
  PROVE  Bindings'
<1>. SUFFICES ASSUME NEW o \in OrderIds, binding'[o].owner # NoReservation
              PROVE  order'[o].client = binding'[o].owner /\ binding'[o].filled <= order'[o].filled
  BY DEF Bindings
<1>1. order[o].filled \in Nat /\ order'[o].filled \in Nat
  BY OrderType, LiveOrderAssumption DEF TypeOK
<1>2. CASE binding'[o] = binding[o]
  <2>1. order[o].client = binding[o].owner /\ binding[o].filled <= order[o].filled
    BY <1>2 DEF Bindings
  <2>2. binding[o].owner \in ReservationIds /\ binding[o].filled \in Nat
    BY <1>2 DEF TypeOK, L!TypeOK, L!Binding
  <2>3. Exists(o)
    BY <2>1, <2>2 DEF Orders
  <2>. QED  BY <1>1, <1>2, <2>1, <2>2, <2>3, OrderGrows
<1>3. ASSUME NEW s \in Submitters, o \in got[s], binding'[o].owner = client[s], binding'[o].filled = 0
      PROVE  order'[o].client = binding'[o].owner /\ binding'[o].filled <= order'[o].filled
  <2>1. Exists(o) /\ order[o].client = client[s]
    BY <1>3 DEF Hands
  <2>. QED  BY <1>1, <1>3, <2>1, OrderGrows
<1>4. ASSUME NEW p \in Pollers, o \in obs[p].order, obs[p].stage = "ledger",
             binding'[o].owner = binding[o].owner, binding[o].owner # NoReservation,
             binding'[o].filled = obs[p].filled
      PROVE  order'[o].client = binding'[o].owner /\ binding'[o].filled <= order'[o].filled
  <2>1. Exists(o) /\ obs[p].filled <= order[o].filled /\ obs[p].filled \in Nat
    BY <1>4 DEF Observations, TypeOK
  <2>2. order[o].client = binding[o].owner
    BY <1>4 DEF Bindings
  <2>. QED  BY <1>1, <1>4, <2>1, <2>2, OrderGrows
<1>. QED  BY <1>2, <1>3, <1>4, BindingStep

LEMMA BookNeverNext ==
  ASSUME TypeOK, Orders, Hands, Observations, BookNeverBehindLedger, [Next]_vars
  PROVE  BookNeverBehindLedger'
<1>. SUFFICES ASSUME NEW o \in OrderIds, binding'[o].owner # NoReservation
              PROVE  book'[o].status # "NONE" /\ book'[o].filled >= binding'[o].filled
  BY DEF BookNeverBehindLedger
<1>1. book[o].filled \in Nat /\ book'[o].filled \in Nat
  BY BookType, LiveOrderAssumption DEF TypeOK
<1>2. CASE binding'[o] = binding[o]
  <2>1. book[o].status # "NONE" /\ book[o].filled >= binding[o].filled /\ binding[o].filled \in Nat
    BY <1>2 DEF BookNeverBehindLedger, TypeOK, L!TypeOK, L!Binding
  <2>. QED  BY <1>1, <1>2, <2>1, BookGrows
<1>3. ASSUME NEW s \in Submitters, Bind(s), o \in got[s], binding'[o].filled = 0
      PROVE  book'[o].status # "NONE" /\ book'[o].filled >= binding'[o].filled
  <2>1. book[o].status # "NONE"
    BY <1>3 DEF Hands, Bind
  <2>. QED  BY <1>1, <1>3, <2>1, BookGrows
<1>4. ASSUME NEW p \in Pollers, o \in obs[p].order, obs[p].stage = "ledger",
             binding[o].owner # NoReservation, binding'[o].filled = obs[p].filled
      PROVE  book'[o].status # "NONE" /\ book'[o].filled >= binding'[o].filled
  <2>1. book[o].filled >= obs[p].filled /\ obs[p].filled \in Nat
    BY <1>4 DEF Observations, TypeOK
  <2>2. book[o].status # "NONE"
    BY <1>4 DEF BookNeverBehindLedger
  <2>. QED  BY <1>1, <1>4, <2>1, <2>2, BookGrows
<1>. QED  BY <1>2, <1>3, <1>4, BindingStep

LEMMA LaneInit == Init => Lane
<1>. SUFFICES ASSUME Init PROVE Lane
  OBVIOUS
<1>1. LP!Init
  BY DEF Init, L!Init, LP!Init, L!Zero, LP!Zero, L!Unbound, LP!Unbound
<1>2. L!TypeOK /\ L!RemainingIsUnfilledShare
  BY <1>1, LedgerConstants, LP!TypeInit, LP!ShareInit, SameType, SameShare
<1>3. TypeOK
  <2>1. /\ ref \in [ReservationIds -> {"new", "cached", "gone"}]
        /\ client \in [Submitters -> ReservationIds \cup {NoReservation}]
        /\ pc \in [Submitters -> {"idle"} \cup Running \cup Ended]
        /\ attempt \in [Submitters -> {1, 2}] /\ got \in [Submitters -> SUBSET OrderIds]
    BY DEF Init
  <2>2. seen \in [Submitters -> [rate : Rates, base : L!Vector]]
    BY UnreadType DEF Init
  <2>3. NoOrder \in [client : ReservationIds \cup {NoReservation},
                    filled : 0 .. MaxUnits, status : {"NONE", "OPEN"} \cup Terminal]
    BY LiveOrderAssumption DEF NoOrder
  <2>4. Idle \in [stage : {"none", "read", "book", "settle", "ledger", "rebook"}, order : SUBSET OrderIds,
                 filled : 0 .. MaxUnits, status : {"NONE", "OPEN"} \cup Terminal]
    BY LiveOrderAssumption DEF Idle
  <2>5. NoBook \in [filled : 0 .. MaxUnits, status : {"NONE", "PENDING", "OPEN"} \cup Terminal]
    BY LiveOrderAssumption DEF NoBook
  <2>6. engaged \in BOOLEAN /\ unknown \subseteq ReservationIds
        /\ late \subseteq Submitters \X {1, 2}
    BY DEF Init
  <2>7. crashes \in 0 .. MaxCrashes
    BY LiveOrderAssumption DEF Init
  <2>. QED  BY <1>2, <2>1, <2>2, <2>3, <2>4, <2>5, <2>6, <2>7 DEF Init, TypeOK
<1>4. Orders /\ Hands /\ Observations
  BY LiveOrderAssumption DEF Init, Orders, Hands, Observations, Exists, NoOrder, NoBook, Idle
<1>5. Bindings /\ BookNeverBehindLedger
  BY DEF Init, L!Init, L!Unbound, Bindings, BookNeverBehindLedger
<1>. QED  BY <1>2, <1>3, <1>4, <1>5 DEF Lane

LEMMA LaneNext == Lane /\ [Next]_vars => Lane'
BY LaneTypeNext, OrdersNext, HandsNext, ObservationsNext, BindingsNext, BookNeverNext DEF Lane

LEMMA LaneInvariant == Spec => []Lane
BY LaneInit, LaneNext, PTL DEF Spec
----------------------------------------------------------------------------
(* Whose step it is: rows and orders change by the submitter that has their *)
(* request, or by a status update of an order that is bound.                *)

LEMMA Leaves ==
  ASSUME TypeOK, NEW s \in Submitters, Submit(s)
  PROVE  pc'[s] # pc[s]
BY DEF TypeOK, Submit, Begin, Refresh, BeforeAttempt, Refused, GiveUp, Post, Unknown, Lookup, Track, Bind, Goto

LEMMA OwnRequest ==
  ASSUME TypeOK, Hands, Requests, NEW s \in Submitters, NEW t \in Submitters,
         pc[s] # "idle", client[s] = client[t]
  PROVE  s = t
<1>1. client[s] # NoReservation
  BY DEF Hands
<1>. QED  BY <1>1 DEF Requests

LEMMA RowStep ==
  ASSUME TypeOK, Hands, Observations, [Next]_vars, NEW r \in ReservationIds
  PROVE  \/ status'[r] = status[r] /\ intent'[r] = intent[r]
         \/ \E s \in Submitters :
              /\ client[s] = r /\ Begin(s) /\ (Goto(s, "check") \/ "audit" \in Faults)
              /\ status[r] = "ABSENT" /\ status'[r] = "ACTIVE" /\ intent'[r] = IntentOf(s)
         \/ \E s \in Submitters :
              /\ client[s] = r /\ BeforeAttempt(s) /\ status'[r] = status[r] /\ status[r] = "ACTIVE"
              /\ intent'[r].units = intent[r].units
         \/ \E s \in Submitters :
              /\ client[s] = r /\ (BeforeAttempt(s) \/ Refused(s))
              /\ attempt[s] = 1 /\ Goto(s, "failed") /\ intent'[r] = intent[r]
              /\ status[r] # "ABSENT" /\ status'[r] # "ABSENT"
         \/ \E p \in Pollers, o \in OrderIds :
              /\ o \in obs[p].order /\ obs[p].stage # "none" /\ binding[o].owner = r
              /\ intent'[r] = intent[r] /\ status'[r] # "ABSENT"
              /\ status'[r] = status[r] \/ obs[p].status \in Terminal
<1>. DEFINE Same == status'[r] = status[r] /\ intent'[r] = intent[r]
<1>1. /\ status \in [ReservationIds -> {"ABSENT", "ACTIVE", "RELEASED", "FILLED"}]
      /\ intent \in [ReservationIds -> L!Intent \cup {NoIntent}]
      /\ \A q \in ReservationIds : status[q] # "ABSENT" => intent[q] \in L!Intent
  BY DEF TypeOK, L!TypeOK
<1>2. ASSUME NEW s \in Submitters, Reserved(s)
      PROVE  \/ Same
             \/ client[s] = r /\ status[r] = "ABSENT" /\ status'[r] = "ACTIVE" /\ intent'[r] = IntentOf(s)
  BY <1>1, <1>2 DEF Reserved, L!CheckAndReserve, L!Reserve, L!ReserveAgain
<1>3. ASSUME NEW s \in Submitters, L!Revalue(client[s], seen[s].rate, seen[s].base)
      PROVE  \/ Same
             \/ client[s] = r /\ status'[r] = status[r] /\ status[r] = "ACTIVE"
                /\ intent'[r].units = intent[r].units
  <2>1. CASE client[s] # r
    BY <1>1, <1>3, <2>1 DEF L!Revalue
  <2>2. CASE client[s] = r
    <3>1. status[r] = "ACTIVE" /\ status' = status /\ intent' = [intent EXCEPT ![r] = L!Repriced(r, seen[s].rate)]
      BY <1>3, <2>2 DEF L!Revalue, L!CanRevalue
    <3>2. intent[r] \in L!Intent
      BY <1>1, <3>1
    <3>. QED  BY <1>1, <2>2, <3>1, <3>2 DEF L!Repriced, L!Intent
  <2>. QED  BY <2>1, <2>2
<1>4. ASSUME NEW s \in Submitters, L!Release(client[s])
      PROVE  \/ Same
             \/ client[s] = r /\ intent'[r] = intent[r] /\ status[r] # "ABSENT" /\ status'[r] # "ABSENT"
  BY <1>1, <1>4 DEF L!Release
<1>5. ASSUME NEW s \in Submitters, Begin(s)
      PROVE  \/ Same
             \/ /\ client[s] = r /\ Begin(s) /\ (Goto(s, "check") \/ "audit" \in Faults)
                /\ status[r] = "ABSENT" /\ status'[r] = "ACTIVE" /\ intent'[r] = IntentOf(s)
  <2>1. (Reserved(s) /\ (Goto(s, "check") \/ "audit" \in Faults)) \/ UNCHANGED ledgerVars
    BY <1>5 DEF Begin
  <2>. QED  BY <1>2, <1>5, <2>1 DEF ledgerVars
<1>6. ASSUME NEW s \in Submitters, GiveUp(s)
      PROVE  \/ Same
             \/ /\ client[s] = r /\ attempt[s] = 1 /\ Goto(s, "failed") /\ intent'[r] = intent[r]
                /\ status[r] # "ABSENT" /\ status'[r] # "ABSENT"
  BY <1>4, <1>6 DEF GiveUp, ledgerVars
<1>7. ASSUME NEW s \in Submitters, Bind(s)
      PROVE  Same
  BY <1>7 DEF Bind, L!BindOrder, ledgerVars
<1>8. ASSUME NEW p \in Pollers, LedgerUpdate(p)
      PROVE  \/ Same
             \/ \E o \in OrderIds :
                  /\ o \in obs[p].order /\ obs[p].stage # "none" /\ binding[o].owner = r
                  /\ intent'[r] = intent[r] /\ status'[r] # "ABSENT"
                  /\ status'[r] = status[r] \/ obs[p].status \in Terminal
  <2>1. PICK o \in obs[p].order :
          L!RecordOrderUpdate(o, obs[p].filled, obs[p].status) \/ UNCHANGED ledgerVars
    BY <1>8 DEF LedgerUpdate
  <2>2. o \in OrderIds /\ obs[p].stage # "none" /\ obs[p].status # "NONE"
    BY <1>8 DEF LedgerUpdate, Observations, TypeOK
  <2>3. CASE UNCHANGED ledgerVars
    BY <2>3 DEF ledgerVars
  <2>4. CASE L!RecordOrderUpdate(o, obs[p].filled, obs[p].status)
    <3>1. intent' = intent
      BY <2>4 DEF L!RecordOrderUpdate
    <3>2. CASE binding[o].owner # r
      BY <1>1, <2>4, <3>1, <3>2 DEF L!RecordOrderUpdate
    <3>3. CASE binding[o].owner = r
      <4>1. status[r] # "ABSENT"
        BY <2>2, <3>3, LiveOrderAssumption DEF TypeOK, L!TypeOK
      <4>2. status'[r] # "ABSENT" /\ (status'[r] = status[r] \/ obs[p].status \in {"FILLED"} \cup L!Releasing)
        BY <1>1, <2>4, <3>3, <4>1 DEF L!RecordOrderUpdate
      <4>3. obs[p].status \in {"FILLED"} \cup L!Releasing => obs[p].status \in Terminal
        BY <2>2 DEF TypeOK, L!Releasing, Terminal
      <4>. QED  BY <2>2, <3>1, <3>3, <4>2, <4>3
    <3>. QED  BY <3>2, <3>3
  <2>. QED  BY <2>1, <2>3, <2>4
<1>9. ASSUME NEW s \in Submitters, BeforeAttempt(s)
      PROVE  \/ Same
             \/ /\ client[s] = r /\ status'[r] = status[r] /\ status[r] = "ACTIVE"
                /\ intent'[r].units = intent[r].units
             \/ /\ client[s] = r /\ attempt[s] = 1 /\ Goto(s, "failed") /\ intent'[r] = intent[r]
                /\ status[r] # "ABSENT" /\ status'[r] # "ABSENT"
  BY <1>3, <1>6, <1>9 DEF BeforeAttempt
<1>10. ASSUME NEW s \in Submitters, Refused(s)
      PROVE  \/ Same
             \/ /\ client[s] = r /\ attempt[s] = 1 /\ Goto(s, "failed") /\ intent'[r] = intent[r]
                /\ status[r] # "ABSENT" /\ status'[r] # "ABSENT"
  BY <1>6, <1>10 DEF Refused
<1>11. UNCHANGED ledgerVars => Same
  BY DEF ledgerVars
<1>. HIDE DEF Same
<1>12. Same \/ ~Same
  OBVIOUS
<1>. QED  BY <1>5, <1>7, <1>8, <1>9, <1>10, <1>11, LedgerFrame DEF Same

LEMMA UnderStep ==
  ASSUME TypeOK, Hands, [Next]_vars, NEW o \in OrderIds, NEW r \in ReservationIds,
         order'[o].client = r
  PROVE  \/ order[o].client = r /\ (order'[o].status = "OPEN" => order[o].status = "OPEN")
         \/ \E s \in Submitters : Opened(s, o) /\ client[s] = r /\ (Post(s) \/ \E k \in {1, 2} : Arrive(s, k))
<1>1. order \in [OrderIds -> [client : ReservationIds \cup {NoReservation},
                             filled : 0 .. MaxUnits, status : {"NONE", "OPEN"} \cup Terminal]]
  BY DEF TypeOK
<1>2. ASSUME NEW s \in Submitters, NEW p \in OrderIds, Opened(s, p)
      PROVE  (p = o /\ client[s] = r) \/ order'[o] = order[o]
  BY <1>1, <1>2 DEF Opened
<1>3. ASSUME NEW p \in OrderIds, Fill(p) \/ Cancel(p)
      PROVE  order'[o].client = order[o].client /\ (order'[o].status = "OPEN" => order[o].status = "OPEN")
  BY <1>1, <1>3 DEF Fill, Cancel
<1>. QED  BY <1>2, <1>3, BrokerStep
----------------------------------------------------------------------------
(* The course of a request.                                                 *)

LEMMA RequestsNext ==
  ASSUME TypeOK, Requests, [Next]_vars
  PROVE  Requests'
<1>1. CASE UNCHANGED client /\ \A r \in ReservationIds : ref[r] = "gone" => ref'[r] = "gone"
  <2>1. \A s \in Submitters : client[s] # NoReservation => client[s] \in ReservationIds
    BY DEF TypeOK
  <2>. QED  BY <1>1, <2>1 DEF Requests
<1>2. ASSUME NEW s \in Submitters, PreTrade(s)
      PROVE  Requests'
  <2>1. PICK r \in ReservationIds :
          ref[r] # "gone" /\ client' = [client EXCEPT ![s] = r] /\ ref' = [ref EXCEPT ![r] = "gone"]
    BY <1>2 DEF PreTrade, MayTake, Consume
  <2>2. \A t \in Submitters : client[t] # r
    BY <2>1, LiveOrderAssumption DEF Requests
  <2>3. /\ \A t \in Submitters : client'[t] = IF t = s THEN r ELSE client[t]
        /\ \A q \in ReservationIds : ref'[q] = IF q = r THEN "gone" ELSE ref[q]
    BY <2>1 DEF TypeOK
  <2>4. \A t \in Submitters : client[t] # NoReservation => client[t] \in ReservationIds
    BY DEF TypeOK
  <2>. QED  BY <2>2, <2>3, <2>4 DEF Requests
<1>3. ASSUME NEW r \in ReservationIds, Preview(r) \/ Expire(r)
      PROVE  UNCHANGED client /\ \A q \in ReservationIds : ref[q] = "gone" => ref'[q] = "gone"
  BY <1>3 DEF Preview, Expire, TypeOK
<1>4. Crash \/ UNCHANGED requestVars =>
        UNCHANGED client /\ \A q \in ReservationIds : ref[q] = "gone" => ref'[q] = "gone"
  BY DEF Crash, requestVars
<1>. QED  BY <1>1, <1>2, <1>3, <1>4, RequestFrame

LEMMA CarriedStep ==
  ASSUME TypeOK, [Next]_vars, NEW s \in Submitters, client[s] # NoReservation, pc[s] # "idle"
  PROVE  client'[s] = client[s]
BY RequestStep DEF PreTrade

LEMMA FreshNext ==
  ASSUME Lane, Fresh, [Next]_vars
  PROVE  Fresh'
<1>. USE DEF Lane
<1>. SUFFICES ASSUME NEW r \in ReservationIds, ~Carried(r)'
              PROVE  status'[r] = "ABSENT" /\ OrdersUnder(r)' = {}
  BY DEF Fresh
<1>1. \A s \in Submitters : client[s] # r
  <2>. SUFFICES ASSUME NEW s \in Submitters, client[s] = r PROVE FALSE
    OBVIOUS
  <2>1. client[s] # NoReservation /\ pc[s] # "idle"
    BY LiveOrderAssumption DEF Hands
  <2>. QED  BY <2>1, CarriedStep DEF Carried
<1>2. status[r] = "ABSENT" /\ \A o \in OrderIds : order[o].client # r
  BY <1>1 DEF Fresh, Carried, OrdersUnder
<1>3. \A o \in OrderIds : binding[o].owner # r
  BY <1>2, LiveOrderAssumption DEF Bindings
<1>4. status'[r] = "ABSENT"
  BY <1>1, <1>2, <1>3, RowStep
<1>5. \A o \in OrderIds : order'[o].client # r
  BY <1>1, <1>2, UnderStep
<1>. QED  BY <1>4, <1>5 DEF OrdersUnder

\* No order appears for a submitter that sends nothing now and has no POST under way.
LEMMA NoneAppears ==
  ASSUME TypeOK, Hands, Requests, [Next]_vars, NEW s \in Submitters, pc[s] # "idle", ~Post(s),
         OrdersUnder(client[s]) = {}, \A k \in {1, 2} : <<s, k>> \notin late
  PROVE  OrdersUnder(client[s])' = {} /\ \A k \in {1, 2} : <<s, k>> \notin late'
<1>1. client[s] \in ReservationIds /\ client'[s] = client[s]
  BY ClientType, CarriedStep DEF Hands
<1>2. ASSUME NEW o \in OrderIds, order'[o].client = client[s]
      PROVE  FALSE
  <2>1. PICK t \in Submitters : client[t] = client[s] /\ (Post(t) \/ \E k \in {1, 2} : Arrive(t, k))
    BY <1>1, <1>2, UnderStep DEF OrdersUnder
  <2>2. t = s
    BY <2>1, OwnRequest
  <2>. QED  BY <2>1, <2>2 DEF Arrive
<1>3. \A k \in {1, 2} : <<s, k>> \notin late'
  BY LateStep
<1>. QED  BY <1>1, <1>2, <1>3 DEF OrdersUnder

\* A submitter's steps other than the POST leave its orders alone.
LEMMA NoneSent ==
  ASSUME TypeOK, Hands, NEW s \in Submitters, Submit(s), ~Post(s), OrdersUnder(client[s]) = {}
  PROVE  OrdersUnder(client[s])' = {} /\ UNCHANGED brokerVars
BY DEF Submit, Begin, Refresh, BeforeAttempt, Refused, Unknown, Lookup, Track, Bind, brokerVars, requestVars, OrdersUnder

LEMMA UnsentNext ==
  ASSUME Lane, Requests, Fresh, Unsent, [Next]_vars
  PROVE  Unsent'
<1>. USE DEF Lane
<1>. DEFINE Early(s) == pc[s] = "begin" \/ (pc[s] \in Sending /\ attempt[s] = 1)
            None(s) == OrdersUnder(client[s]) = {} /\ \A k \in {1, 2} : <<s, k>> \notin late
<1>. SUFFICES ASSUME NEW s \in Submitters
              PROVE  /\ Early(s)' => None(s)'
                     /\ pc'[s] = "begin" => status'[client'[s]] = "ABSENT"
  BY DEF Unsent
<1>1. CASE PreTrade(s)
  <2>1. PICK r \in ReservationIds : ref[r] # "gone" /\ client'[s] = r
    BY <1>1 DEF PreTrade, MayTake, TypeOK
  <2>2. ~Carried(r)
    BY <2>1, LiveOrderAssumption DEF Carried, Requests
  <2>3. status[r] = "ABSENT" /\ OrdersUnder(r) = {}
    BY <2>2 DEF Fresh
  <2>4. \A k \in {1, 2} : <<s, k>> \notin late
    BY <1>1 DEF Hands, PreTrade
  <2>. QED  BY <1>1, <2>1, <2>3, <2>4 DEF PreTrade, brokerVars, ledgerVars, OrdersUnder
<1>2. CASE ~PreTrade(s) /\ ~Submit(s)
  <2>1. Early(s)' \/ pc'[s] = "begin" => pc'[s] = pc[s] /\ attempt'[s] = attempt[s]
    BY <1>2, PlaceStep DEF Crash, Sending, Running, TypeOK
  <2>2. ASSUME Early(s)'
        PROVE  None(s)'
    <3>1. Early(s)
      BY <2>1, <2>2
    <3>2. None(s) /\ pc[s] # "idle"
      BY <3>1 DEF Unsent, Sending
    <3>3. ~Post(s)
      BY <1>2 DEF Submit
    <3>. QED  BY <3>2, <3>3, NoneAppears
  <2>3. ASSUME pc'[s] = "begin"
        PROVE  status'[client'[s]] = "ABSENT"
    <3>1. pc[s] = "begin" /\ client[s] \in ReservationIds /\ client'[s] = client[s]
      BY <2>1, <2>3, ClientType, CarriedStep DEF Hands
    <3>2. status[client[s]] = "ABSENT" /\ OrdersUnder(client[s]) = {}
      BY <3>1 DEF Unsent
    <3>3. \A o \in OrderIds : binding[o].owner # client[s]
      BY <3>1, <3>2, LiveOrderAssumption DEF Bindings, OrdersUnder
    <3>4. \A t \in Submitters : client[t] = client[s] => ~Begin(t) /\ ~BeforeAttempt(t) /\ ~Refused(t)
      BY <1>2, <3>1, OwnRequest DEF Submit
    <3>. QED  BY <3>1, <3>2, <3>3, <3>4, RowStep
  <2>. QED  BY <2>2, <2>3
<1>3. CASE Submit(s)
  <2>1. pc'[s] # "begin"
    BY <1>3, Moves DEF Goto, TypeOK
  <2>2. ASSUME Early(s)'
        PROVE  None(s)'
    <3>1. Early(s) /\ ~Post(s)
      BY <1>3, <2>2 DEF Submit, Begin, Refresh, BeforeAttempt, GiveUp, Refused, Post, Unknown, Lookup, Track, Bind,
        Goto, Settle, NextAttempt, MayRetry, Sending, TypeOK
    <3>2. None(s)
      BY <3>1 DEF Unsent
    <3>. QED  BY <1>3, <3>1, <3>2, NoneSent DEF brokerVars
  <2>. QED  BY <2>1, <2>2
<1>. QED  BY <1>1, <1>2, <1>3

LEMMA HeldNext ==
  ASSUME Lane, Requests, Fresh, Unsent, Held, [Next]_vars
  PROVE  Held'
<1>. USE DEF Lane
<1>. SUFFICES ASSUME NEW s \in Submitters, pc'[s] \in Running \ {"begin"}
              PROVE  /\ status'[client'[s]] = "ACTIVE"
                     /\ \A o \in OrderIds : binding'[o].owner # client'[s]
  BY DEF Held
<1>1. pc[s] \in Running
  <2>1. ~PreTrade(s)
    BY DEF PreTrade, Goto, TypeOK, Running
  <2>2. ~Crash
    BY DEF Crash, Running
  <2>. QED  BY <2>1, <2>2, PlaceStep, Moves DEF Running
<1>2. pc[s] # "idle" /\ client[s] \in ReservationIds /\ client'[s] = client[s]
  BY <1>1, ClientType, CarriedStep, LiveOrderAssumption DEF Running, Hands
<1>3. \A t \in Submitters : client[t] = client[s] => t = s
  BY <1>2, OwnRequest
<1>4. \A o \in OrderIds : binding[o].owner # client[s]
  <2>1. CASE pc[s] = "begin"
    BY <1>2, <2>1, LiveOrderAssumption DEF Unsent, Bindings, OrdersUnder
  <2>2. CASE pc[s] # "begin"
    BY <1>1, <2>2 DEF Held
  <2>. QED  BY <2>1, <2>2
<1>5. \A o \in OrderIds : binding'[o].owner # client[s]
  <2>1. ~Bind(s)
    BY DEF Bind, Goto, TypeOK, Running
  <2>. QED  BY <1>3, <1>4, <2>1, BindingStep
<1>6. ~Goto(s, "failed")
  BY DEF Goto, TypeOK, Running
<1>7. CASE pc[s] = "begin"
  <2>1. Submit(s)
    <3>1. pc'[s] # pc[s] /\ ~PreTrade(s) /\ ~Crash
      BY <1>7 DEF PreTrade, Crash, Running
    <3>. QED  BY <1>7, <3>1, PlaceStep
  <2>2. Begin(s) /\ Reserved(s)
    BY <1>6, <1>7, <2>1 DEF Submit, Begin, Refresh, BeforeAttempt, Refused, Post, Unknown, Lookup, Track, Bind
  <2>3. status[client[s]] = "ABSENT"
    BY <1>7 DEF Unsent
  <2>. QED  BY <1>2, <1>5, <2>2, <2>3 DEF Reserved, L!CheckAndReserve, L!Reserve, L!ReserveAgain, TypeOK, L!TypeOK
<1>8. CASE pc[s] # "begin"
  <2>1. status[client[s]] = "ACTIVE"
    BY <1>1, <1>8 DEF Held
  <2>. QED  BY <1>2, <1>3, <1>4, <1>5, <1>6, <2>1, RowStep
<1>. QED  BY <1>7, <1>8

LEMMA RowsNext ==
  ASSUME Lane, Rows, [Next]_vars
  PROVE  Rows'
<1>. USE DEF Lane
<1>. SUFFICES ASSUME NEW r \in ReservationIds, status'[r] # "ABSENT"
              PROVE  intent'[r].units = Units[r]
  BY DEF Rows
<1>1. status[r] # "ABSENT" => intent[r].units = Units[r]
  BY DEF Rows
<1>2. ASSUME NEW p \in Pollers, NEW o \in OrderIds, binding[o].owner = r
      PROVE  status[r] # "ABSENT"
  BY <1>2, LiveOrderAssumption DEF TypeOK, L!TypeOK
<1>3. \A s \in Submitters : IntentOf(s).units = Units[client[s]]
  BY DEF IntentOf
<1>. QED  BY <1>1, <1>2, <1>3, RowStep

LEMMA CourseInit == Init => Course
BY LiveOrderAssumption
DEF Init, L!Init, Course, Requests, Fresh, Carried, OrdersUnder, NoOrder, Unsent, Sending, Held, Running, Rows

LEMMA CourseNext == Lane /\ Course /\ [Next]_vars => Course'
BY RequestsNext, FreshNext, UnsentNext, HeldNext, RowsNext DEF Course, Lane

LEMMA CourseInvariant == Spec => [](Lane /\ Course)
BY LaneInit, LaneNext, CourseInit, CourseNext, PTL DEF Spec
----------------------------------------------------------------------------
(* Without late arrivals.                                                   *)

LEMMA AtMostOne ==
  ASSUME NEW S, IsFiniteSet(S), Cardinality(S) <= 1, NEW x \in S, NEW y \in S
  PROVE  x = y
<1>. SUFFICES ASSUME x # y PROVE FALSE
  OBVIOUS
<1>1. Cardinality({x, y}) = 2
  <2>1. IsFiniteSet({x}) /\ Cardinality({x}) = 1 /\ y \notin {x}
    BY FS_Singleton
  <2>2. Cardinality({x} \cup {y}) = Cardinality({x}) + 1
    BY <2>1, FS_AddElement
  <2>3. {x, y} = {x} \cup {y}
    OBVIOUS
  <2>. QED  BY <2>1, <2>2, <2>3
<1>2. Cardinality({x, y}) <= Cardinality(S) /\ Cardinality(S) \in Nat
  BY FS_Subset, FS_CardinalityType
<1>. QED  BY <1>1, <1>2

\* A POST that is taken is taken from a submitter that has no order.
LEMMA OpenedBySender ==
  ASSUME Lane, Course, Single, "late" \notin Faults, [Next]_vars, NEW o \in OrderIds,
         NEW r \in ReservationIds, order'[o].client = r, order[o].client # r
  PROVE  \E s \in Submitters : client[s] = r /\ pc[s] = "post" /\ Opened(s, o) /\ OrdersUnder(r) = {}
<1>1. PICK s \in Submitters : Opened(s, o) /\ client[s] = r /\ (Post(s) \/ \E k \in {1, 2} : Arrive(s, k))
  BY UnderStep DEF Lane
<1>2. Post(s) /\ pc[s] = "post"
  BY <1>1 DEF Single, Arrive, Post
<1>. QED  BY <1>1, <1>2 DEF Single, Sending

LEMMA SingleNext ==
  ASSUME Lane, Course, Single, "late" \notin Faults, [Next]_vars
  PROVE  Single'
<1>. USE DEF Lane, Course
<1>1. late' = {}
  <2>1. late' \subseteq Submitters \X {1, 2}
    BY HandType
  <2>2. \A s \in Submitters, k \in {1, 2} : <<s, k>> \notin late'
    BY LateStep DEF Single
  <2>3. \A x \in late' : \E s \in Submitters, k \in {1, 2} : x = <<s, k>>
    BY <2>1
  <2>. QED  BY <2>2, <2>3
<1>2. ASSUME NEW r \in ReservationIds
      PROVE  Cardinality(OrdersUnder(r)') <= 1
  <2>1. \A o \in OrdersUnder(r) : o \in OrderIds /\ Exists(o)
    BY DEF Orders, OrdersUnder
  <2>2. OrdersUnder(r) \subseteq OrdersUnder(r)'
    BY <2>1, OrderGrows DEF OrdersUnder
  <2>3. CASE OrdersUnder(r)' = OrdersUnder(r)
    BY <2>3 DEF Single, OneOrderPerIntent
  <2>4. CASE OrdersUnder(r)' # OrdersUnder(r)
    <3>1. PICK o \in OrderIds : order'[o].client = r /\ order[o].client # r
      BY <2>2, <2>4 DEF OrdersUnder
    <3>2. OrdersUnder(r) = {} /\ \E s \in Submitters : Opened(s, o)
      BY <3>1, OpenedBySender
    <3>3. \A p \in OrderIds : p # o => order'[p] = order[p]
      BY <3>2 DEF Opened, TypeOK
    <3>4. OrdersUnder(r)' = {o}
      BY <3>1, <3>2, <3>3 DEF OrdersUnder
    <3>. QED  BY <3>4, FS_Singleton
  <2>. QED  BY <2>3, <2>4
<1>3. ASSUME NEW s \in Submitters, pc'[s] \in Sending
      PROVE  OrdersUnder(client[s])' = {}
  <2>1. pc[s] \in Sending \/ pc[s] = "begin" \/ (Lookup(s) /\ Listed(client[s]) = {})
    <3>1. ~PreTrade(s) /\ ~Crash
      <4>1. ~PreTrade(s)
        BY <1>3 DEF PreTrade, Goto, TypeOK, Sending
      <4>2. ~Crash
        BY <1>3 DEF Crash, Sending, Running
      <4>. QED  BY <4>1, <4>2
    <3>2. Submit(s) => pc[s] \in Sending \/ pc[s] = "begin" \/ (Lookup(s) /\ Listed(client[s]) = {})
      BY <1>3 DEF Submit, Begin, Refresh, BeforeAttempt, GiveUp, Refused, Post, Unknown, Lookup, Track, Bind,
        Goto, Sending, TypeOK
    <3>. QED  BY <1>3, <3>1, <3>2, PlaceStep DEF Sending
  <2>2. OrdersUnder(client[s]) = {} /\ pc[s] # "idle"
    BY <2>1 DEF Single, Unsent, Sending, Lookup, Listed
  <2>3. ~Post(s)
    BY <1>3 DEF Post, Goto, TypeOK, Sending
  <2>. QED  BY <2>2, <2>3, NoneAppears DEF Single
<1>. QED  BY <1>1, <1>2, <1>3 DEF Single, OneOrderPerIntent

LEMMA SingleInit == Init => Single
<1>. SUFFICES ASSUME Init PROVE Single
  OBVIOUS
<1>1. \A r \in ReservationIds : OrdersUnder(r) = {}
  BY LiveOrderAssumption DEF Init, OrdersUnder, NoOrder
<1>2. OneOrderPerIntent
  BY <1>1, FS_EmptySet DEF OneOrderPerIntent
<1>. QED  BY <1>2 DEF Init, Single, Sending
----------------------------------------------------------------------------
(* Without malformed answers either.                                        *)

LEMMA BackedNext ==
  ASSUME Lane, Course, Single, Backed, {"late", "malformed"} \cap Faults = {}, [Next]_vars
  PROVE  Backed'
<1>. USE DEF Lane, Course
<1>1. ASSUME NEW s \in Submitters, pc'[s] = "refused"
      PROVE  OrdersUnder(client[s])' = {}
  <2>1. CASE Post(s)
    <3>1. UNCHANGED order /\ UNCHANGED client
      BY <1>1, <2>1 DEF Post, brokerVars, requestVars, Goto, TypeOK
    <3>2. OrdersUnder(client[s]) = {}
      BY <2>1 DEF Single, Sending, Post
    <3>. QED  BY <3>1, <3>2 DEF OrdersUnder
  <2>2. CASE ~Post(s)
    <3>1. pc[s] = "refused"
      <4>1. ~PreTrade(s) /\ ~Crash
        <5>1. ~PreTrade(s)
          BY <1>1 DEF PreTrade, Goto, TypeOK
        <5>2. ~Crash
          BY <1>1 DEF Crash, Running
        <5>. QED  BY <5>1, <5>2
      <4>2. ~Submit(s)
        BY <1>1, <2>2 DEF Submit, Begin, Refresh, BeforeAttempt, GiveUp, Refused, Unknown, Lookup, Track, Bind,
          Goto, TypeOK
      <4>. QED  BY <1>1, <4>1, <4>2, PlaceStep
    <3>2. OrdersUnder(client[s]) = {}
      BY <3>1 DEF Backed
    <3>. QED  BY <2>2, <3>1, <3>2, NoneAppears DEF Single
  <2>. QED  BY <2>1, <2>2
<1>2. ASSUME NEW r \in ReservationIds, NEW o \in OrderIds, order'[o].client = r, order'[o].status = "OPEN"
      PROVE  status'[r] = "ACTIVE"
  <2>1. CASE order[o].client # r
    <3>1. PICK s \in Submitters : client[s] = r /\ pc[s] = "post"
      BY <1>2, <2>1, OpenedBySender
    <3>2. status[r] = "ACTIVE" /\ \A p \in OrderIds : binding[p].owner # r
      BY <3>1 DEF Held, Running
    <3>3. \A t \in Submitters : client[t] = r => ~Begin(t) /\ ~BeforeAttempt(t) /\ ~Refused(t)
      BY <3>1, OwnRequest DEF Begin, BeforeAttempt, Refused
    <3>. QED  BY <3>2, <3>3, RowStep
  <2>2. CASE order[o].client = r
    <3>1. order[o].status = "OPEN"
      <4>1. ~(\E s \in Submitters : Opened(s, o))
        BY <2>2 DEF Opened, Orders
      <4>. QED  BY <1>2, <4>1, UnderStep
    <3>2. o \in OrdersUnder(r) /\ status[r] = "ACTIVE"
      BY <2>2, <3>1 DEF OrdersUnder, OpenUnder, Backed
    <3>3. ASSUME NEW s \in Submitters, client[s] = r, BeforeAttempt(s) \/ Refused(s), attempt[s] = 1
          PROVE  FALSE
      BY <3>2, <3>3 DEF Unsent, Sending, Backed, BeforeAttempt, Refused
    <3>4. ASSUME NEW p \in Pollers, NEW x \in OrderIds, x \in obs[p].order, obs[p].stage # "none",
                 binding[x].owner = r, obs[p].status \in Terminal
          PROVE  FALSE
      <4>1. order[x].status = obs[p].status
        BY <3>4 DEF Observations
      <4>2. x \in OrdersUnder(r)
        BY <3>4, LiveOrderAssumption DEF Bindings, OrdersUnder
      <4>3. x = o
        <5>1. Cardinality(OrdersUnder(r)) <= 1
          BY DEF Single, OneOrderPerIntent
        <5>2. IsFiniteSet(OrdersUnder(r))
          <6>1. IsFiniteSet(OrderIds) /\ OrdersUnder(r) \subseteq OrderIds
            BY LiveOrderAssumption DEF OrdersUnder
          <6>. QED  BY <6>1, FS_Subset
        <5>. QED  BY <3>2, <4>2, <5>1, <5>2, AtMostOne
      <4>. QED  BY <3>1, <3>4, <4>1, <4>3 DEF Terminal
    <3>. QED  BY <3>2, <3>3, <3>4, RowStep
  <2>. QED  BY <2>1, <2>2
<1>. QED  BY <1>1, <1>2 DEF Backed, OpenUnder, OrdersUnder

LEMMA BackedInit == Init => Backed
<1>. SUFFICES ASSUME Init PROVE Backed
  OBVIOUS
<1>1. \A r \in ReservationIds : OrdersUnder(r) = {}
  BY LiveOrderAssumption DEF Init, OrdersUnder, NoOrder
<1>. QED  BY <1>1 DEF Init, Backed, OpenUnder
----------------------------------------------------------------------------
(* Without a failing audit or malformed answers, late arrivals allowed.     *)

LEMMA UnknownGrows ==
  ASSUME [Next]_vars
  PROVE  unknown \subseteq unknown'
BY DEF Next, vars, stopVars, submitVars, Submit, Apply, Environment, Preview, Expire, PreTrade,
  Begin, Refresh, BeforeAttempt, Refused, GiveUp, Post, Unknown, Lookup, Track, Bind, Observe, ReadBinding, BookUpdate,
  LedgerUpdate, Stage, Finish, Returned, Rebook, Reconcile, Flip, Crash, Fill, Cancel, Arrive, Alarm

LEMMA RefusedUnsent ==
  ASSUME Lane, Course, Loud, {"audit", "malformed"} \cap Faults = {}, [Next]_vars,
         NEW s \in Submitters, pc'[s] = "refused", attempt'[s] = 1
  PROVE  OrdersUnder(client[s])' = {} /\ \A k \in {1, 2} : <<s, k>> \notin late'
<1>. USE DEF Lane, Course
<1>1. CASE Post(s)
  <2>1. UNCHANGED <<brokerVars, client, attempt>>
    BY <1>1 DEF Post, brokerVars, requestVars, Goto, TypeOK
  <2>2. OrdersUnder(client[s]) = {} /\ \A k \in {1, 2} : <<s, k>> \notin late
    BY <1>1, <2>1 DEF Unsent, Sending, Post
  <2>. QED  BY <2>1, <2>2 DEF OrdersUnder, brokerVars
<1>2. CASE ~Post(s)
  <2>1. ~PreTrade(s)
    BY DEF PreTrade, Goto, TypeOK
  <2>2. ~Crash
    BY DEF Crash, Running
  <2>3. ~Submit(s)
    BY <1>2 DEF Submit, Begin, Refresh, BeforeAttempt, GiveUp, Refused, Unknown, Lookup, Track, Bind,
      Goto, TypeOK
  <2>4. pc[s] = "refused" /\ attempt[s] = 1
    BY <2>1, <2>2, <2>3, PlaceStep
  <2>5. OrdersUnder(client[s]) = {} /\ \A k \in {1, 2} : <<s, k>> \notin late
    BY <2>4 DEF Loud
  <2>. QED  BY <1>2, <2>4, <2>5, NoneAppears
<1>. QED  BY <1>1, <1>2

\* The end of a step of place_order in an error.
LEMMA FailsLoudly ==
  ASSUME Lane, Course, Loud, {"audit", "malformed"} \cap Faults = {}, [Next]_vars,
         NEW s \in Submitters, Submit(s), pc'[s] = "failed"
  PROVE  \/ OrdersUnder(client[s])' = {} /\ \A k \in {1, 2} : <<s, k>> \notin late'
         \/ client[s] \in unknown' /\ status'[client[s]] = "ACTIVE"
<1>. USE DEF Lane, Course
<1>1. ~Post(s) /\ ~Refresh(s) /\ ~Track(s)
  BY DEF Post, Refresh, Track, Goto, TypeOK
<1>2. ASSUME OrdersUnder(client[s]) = {}, \A k \in {1, 2} : <<s, k>> \notin late
      PROVE  OrdersUnder(client[s])' = {} /\ \A k \in {1, 2} : <<s, k>> \notin late'
  BY <1>1, <1>2, NoneSent DEF brokerVars
<1>3. CASE Begin(s)
  BY <1>2, <1>3 DEF Unsent, Begin
<1>4. ASSUME Alarm(client[s]), UNCHANGED ledgerVars, pc[s] \in Running \ {"begin"}
      PROVE  client[s] \in unknown' /\ status'[client[s]] = "ACTIVE"
  BY <1>4 DEF Alarm, Held, ledgerVars
<1>5. ASSUME GiveUp(s), pc[s] = "revalue" \/ pc[s] = "refused"
      PROVE  \/ OrdersUnder(client[s])' = {} /\ \A k \in {1, 2} : <<s, k>> \notin late'
             \/ client[s] \in unknown' /\ status'[client[s]] = "ACTIVE"
  <2>1. CASE attempt[s] = 1
    <3>1. OrdersUnder(client[s]) = {} /\ \A k \in {1, 2} : <<s, k>> \notin late
      BY <1>5, <2>1 DEF Unsent, Sending, Loud
    <3>. QED  BY <1>2, <3>1
  <2>2. CASE attempt[s] # 1
    BY <1>4, <1>5, <2>2 DEF GiveUp, Running
  <2>. QED  BY <2>1, <2>2
<1>6. CASE BeforeAttempt(s)
  <2>1. GiveUp(s) /\ pc[s] = "revalue"
    BY <1>6 DEF BeforeAttempt, Goto, TypeOK
  <2>. QED  BY <1>5, <2>1
<1>7. CASE Refused(s)
  BY <1>5, <1>7 DEF Refused
<1>8. CASE Unknown(s)
  BY <1>4, <1>8 DEF Unknown, Running
<1>9. CASE Lookup(s)
  BY <1>4, <1>9 DEF Lookup, Goto, TypeOK, Running
<1>10. CASE Bind(s)
  <2>1. PICK o \in got[s] : ~L!CanBind(client[s], o)
    BY <1>10 DEF Bind, Goto, TypeOK
  <2>2. o \in OrderIds /\ order[o].client = client[s] /\ status[client[s]] = "ACTIVE"
        /\ binding[o].owner # client[s]
    BY <1>10, <2>1 DEF Hands, Held, Bind, Running, TypeOK
  <2>3. binding[o].owner = NoReservation
    BY <2>2 DEF Bindings
  <2>. QED  BY <2>1, <2>2, <2>3 DEF L!CanBind, L!Bindable
<1>. QED  BY <1>1, <1>3, <1>6, <1>7, <1>8, <1>9, <1>10 DEF Submit

LEMMA LoudNext ==
  ASSUME Lane, Course, Loud, {"audit", "malformed"} \cap Faults = {}, [Next]_vars
  PROVE  Loud'
<1>. USE DEF Lane, Course
<1>. SUFFICES ASSUME NEW s \in Submitters, pc'[s] = "failed"
              PROVE  /\ \A o \in OrderIds : binding'[o].owner # client'[s]
                     /\ OrdersUnder(client[s])' # {} \/ (\E k \in {1, 2} : <<s, k>> \in late') =>
                          client'[s] \in unknown' /\ status'[client'[s]] = "ACTIVE"
  BY RefusedUnsent DEF Loud
<1>1. CASE PreTrade(s)
  <2>1. PICK r \in ReservationIds : ref[r] # "gone" /\ client'[s] = r
    BY <1>1 DEF PreTrade, MayTake, TypeOK
  <2>2. ~Carried(r)
    BY <2>1, LiveOrderAssumption DEF Carried, Requests
  <2>3. status[r] = "ABSENT" /\ OrdersUnder(r) = {}
    BY <2>2 DEF Fresh
  <2>4. \A k \in {1, 2} : <<s, k>> \notin late
    BY <1>1 DEF Hands, PreTrade
  <2>5. \A o \in OrderIds : binding[o].owner # r
    BY <2>3, LiveOrderAssumption DEF Bindings, OrdersUnder
  <2>. QED  BY <1>1, <2>1, <2>3, <2>4, <2>5 DEF PreTrade, brokerVars, ledgerVars, OrdersUnder
<1>2. CASE Submit(s)
  <2>1. pc[s] \in Running /\ client[s] \in ReservationIds /\ client'[s] = client[s]
    <3>1. pc[s] \in Running
      BY <1>2, Moves
    <3>2. pc[s] # "idle"
      BY <3>1 DEF Running
    <3>. QED  BY <3>1, <3>2, ClientType, CarriedStep DEF Hands
  <2>2. \A o \in OrderIds : binding[o].owner # client[s]
    <3>1. CASE pc[s] = "begin"
      BY <2>1, <3>1, LiveOrderAssumption DEF Unsent, Bindings, OrdersUnder
    <3>2. CASE pc[s] # "begin"
      BY <2>1, <3>2 DEF Held
    <3>. QED  BY <3>1, <3>2
  <2>3. \A o \in OrderIds : binding'[o].owner # client[s]
    <3>1. ASSUME NEW o \in OrderIds, Bind(s), o \in got[s], binding'[o].owner = client[s]
          PROVE  FALSE
      <4>1. PICK x \in got[s] : ~L!CanBind(client[s], x)
        BY <3>1 DEF Bind, Goto, TypeOK
      <4>2. x \in OrderIds /\ order[x].client = client[s] /\ status[client[s]] = "ACTIVE"
            /\ binding[x].owner # client[s]
        BY <2>2, <3>1, <4>1 DEF Hands, Held, Bind, Running, TypeOK
      <4>3. binding[x].owner = NoReservation
        BY <4>2 DEF Bindings
      <4>. QED  BY <4>1, <4>2, <4>3 DEF L!CanBind, L!Bindable
    <3>2. \A t \in Submitters : client[t] = client[s] => t = s
      BY <2>1, OwnRequest DEF Running
    <3>. QED  BY <2>2, <3>1, <3>2, BindingStep
  <2>. QED  BY <1>2, <2>1, <2>3, FailsLoudly
<1>3. CASE ~PreTrade(s) /\ ~Submit(s)
  <2>1. pc[s] = "failed"
    <3>1. Crash => pc[s] = "failed"
      BY DEF Crash
    <3>. QED  BY <1>3, <3>1, PlaceStep
  <2>2. pc[s] # "idle" /\ client[s] \in ReservationIds /\ client'[s] = client[s]
    BY <2>1, ClientType, CarriedStep DEF Hands
  <2>3. \A o \in OrderIds : binding[o].owner # client[s]
    BY <2>1 DEF Loud
  <2>4. \A t \in Submitters : client[t] = client[s] => ~Submit(t)
    BY <1>3, <2>2, OwnRequest
  <2>5. \A o \in OrderIds : binding'[o].owner # client[s]
    BY <2>3, <2>4, BindingStep DEF Submit
  <2>6. CASE OrdersUnder(client[s]) = {} /\ \A k \in {1, 2} : <<s, k>> \notin late
    <3>1. ~Post(s)
      BY <1>3 DEF Submit
    <3>. QED  BY <2>2, <2>5, <2>6, <3>1, NoneAppears
  <2>7. CASE ~(OrdersUnder(client[s]) = {} /\ \A k \in {1, 2} : <<s, k>> \notin late)
    <3>1. client[s] \in unknown /\ status[client[s]] = "ACTIVE"
      BY <2>1, <2>7 DEF Loud
    <3>2. status'[client[s]] = "ACTIVE"
      BY <2>2, <2>3, <2>4, <3>1, RowStep DEF Submit
    <3>. QED  BY <2>2, <2>5, <3>1, <3>2, UnknownGrows
  <2>. QED  BY <2>6, <2>7
<1>. QED  BY <1>1, <1>2, <1>3

LEMMA LoudInit == Init => Loud
BY DEF Init, Loud
----------------------------------------------------------------------------
(* The POSTs that are left once the switch is on.                           *)

\* A placement gets no POST back, and the one it sends is sent.
LEMMA MaySendStep ==
  ASSUME TypeOK, Observations, [Next]_vars, NEW s \in Submitters, NEW k \in {1, 2}, MaySend(s, k)'
  PROVE  /\ MaySend(s, k) \/ (PreTrade(s) /\ pc[s] = "idle" /\ ~engaged)
         /\ Post(s) => k # attempt[s]
<1>. USE DEF TypeOK
<1>1. ASSUME pc'[s] = pc[s], attempt'[s] = attempt[s]
      PROVE  MaySend(s, k) /\ ~Post(s)
  <2>1. MaySend(s, k)
    BY <1>1 DEF MaySend
  <2>2. ~Post(s)
    BY <1>1 DEF Post, Goto
  <2>. QED  BY <2>1, <2>2
<1>2. ASSUME PreTrade(s)
      PROVE  pc[s] = "idle" /\ ~engaged /\ ~Post(s)
  BY <1>2 DEF PreTrade, MayTrade, Goto, MaySend, Sending, Post
<1>3. ASSUME Submit(s)
      PROVE  MaySend(s, k) /\ (Post(s) => k # attempt[s])
  <2>1. CASE Begin(s) \/ Refresh(s)
    BY <2>1 DEF Begin, Refresh, Goto, MaySend, Sending, Post
  <2>2. CASE BeforeAttempt(s)
    BY <2>2 DEF BeforeAttempt, GiveUp, Goto, MaySend, Sending, Post
  <2>3. CASE Post(s)
    <3>1. pc[s] = "post" /\ attempt'[s] = attempt[s]
      BY <2>3 DEF Post
    <3>2. pc'[s] \notin {"begin"} \cup Sending
      BY <2>3 DEF Post, Goto, Sending
    <3>. QED  BY <3>1, <3>2 DEF MaySend, Sending
  <2>4. CASE Lookup(s)
    <3>1. pc[s] = "ambiguous" /\ attempt[s] = 1
      BY <2>4 DEF Lookup, MayRetry
    <3>2. pc'[s] = "check" /\ attempt'[s] = 2
      BY <2>4, <3>1 DEF Lookup, NextAttempt, Goto, MaySend, Sending
    <3>. QED  BY <2>4, <3>1, <3>2 DEF MaySend, Sending, Post
  <2>5. CASE Refused(s) \/ Unknown(s) \/ Track(s) \/ Bind(s)
    BY <2>5 DEF Refused, GiveUp, Unknown, Track, Bind, Goto, MaySend, Sending
  <2>. QED  BY <1>3, <2>1, <2>2, <2>3, <2>4, <2>5 DEF Submit
<1>4. ~(pc'[s] = "closed")
  BY DEF MaySend, Sending
<1>5. ~Crash
  <2>1. ASSUME Crash
        PROVE  pc'[s] = "dead" \/ (pc'[s] = pc[s] /\ pc[s] \notin Running)
    BY <2>1 DEF Crash
  <2>2. pc'[s] \in Running /\ pc'[s] # "dead"
    BY DEF MaySend, Sending, Running
  <2>. QED  BY <2>1, <2>2
<1>. QED  BY <1>1, <1>2, <1>3, <1>4, <1>5, PlaceStep

LEMMA SentNext ==
  ASSUME Lane, Sent, [Next]_vars
  PROVE  Sent'
<1>. SUFFICES ASSUME NEW s \in Submitters, NEW k \in {1, 2}, <<s, k>> \in late', MaySend(s, k)'
              PROVE  FALSE
  BY DEF Sent
<1>1. /\ MaySend(s, k) \/ (PreTrade(s) /\ pc[s] = "idle" /\ ~engaged)
      /\ Post(s) => k # attempt[s]
  BY MaySendStep DEF Lane
<1>2. <<s, k>> \in late
  BY <1>1, LateStep DEF Lane
<1>. QED  BY <1>1, <1>2 DEF Sent, Hands, Lane

LEMMA OutstandingIs ==
  ASSUME TypeOK
  PROVE  /\ Outstanding \subseteq Submitters \X {1, 2}
         /\ \A s \in Submitters, k \in {1, 2} :
              <<s, k>> \in Outstanding <=> <<s, k>> \in late \/ MaySend(s, k)
BY DEF TypeOK, Outstanding, MaySend, Sending

LEMMA DrainStep ==
  ASSUME Lane, Sent, Lane', Sent', engaged, [Next]_vars
  PROVE  /\ Outstanding' \subseteq Outstanding
         /\ \A o \in OrderIds :
              order[o].status = "NONE" /\ order'[o].status # "NONE" => Served(o)
<1>. USE DEF Lane
<1>0. /\ Outstanding' \subseteq Submitters \X {1, 2}
      /\ \A s \in Submitters, k \in {1, 2} :
           <<s, k>> \in Outstanding' <=> <<s, k>> \in late' \/ MaySend(s, k)'
  <2>1. late' \subseteq Submitters \X {1, 2}
    BY DEF TypeOK
  <2>. QED  BY <2>1 DEF Outstanding, MaySend, Sending
<1>1. ASSUME NEW s \in Submitters, NEW k \in {1, 2}, <<s, k>> \in Outstanding'
      PROVE  <<s, k>> \in Outstanding
  <2>1. <<s, k>> \in late' \/ MaySend(s, k)'
    BY <1>0, <1>1
  <2>2. MaySend(s, k)' => MaySend(s, k)
    BY MaySendStep
  <2>3. Post(s) /\ k = attempt[s] => MaySend(s, k)
    BY DEF Post, MaySend, Sending, TypeOK
  <2>. QED  BY <2>1, <2>2, <2>3, LateStep, OutstandingIs
<1>2. Outstanding' \subseteq Outstanding
  <2>1. ASSUME NEW post \in Outstanding'
        PROVE  post \in Outstanding
    <3>1. PICK s \in Submitters, k \in {1, 2} : post = <<s, k>>
      BY <1>0, <2>1
    <3>. QED  BY <1>1, <2>1, <3>1
  <2>. QED  BY <2>1
<1>3. ASSUME NEW o \in OrderIds, order[o].status = "NONE", order'[o].status # "NONE"
      PROVE  Served(o)
  <2>1. PICK s \in Submitters : Opened(s, o) /\ (Post(s) \/ \E k \in {1, 2} : Arrive(s, k))
    BY <1>3, BrokerStep DEF Opened, Exists, Fill, Cancel, TypeOK
  <2>2. order'[o].client = client[s]
    BY <2>1 DEF Opened, TypeOK
  <2>3. ASSUME NEW k \in {1, 2}, <<s, k>> \in Outstanding, <<s, k>> \notin Outstanding'
        PROVE  Served(o)
    BY <2>2, <2>3 DEF Served
  <2>4. CASE Post(s)
    <3>1. PICK k \in {1, 2} : k = attempt[s]
      BY DEF TypeOK
    <3>2. MaySend(s, k) /\ late' = late
      BY <1>3, <2>1, <2>4, <3>1 DEF Post, MaySend, Sending, TypeOK, Opened, brokerVars, Exists
    <3>3. <<s, k>> \notin late'
      BY <3>2 DEF Sent
    <3>4. ~MaySend(s, k)'
      BY <2>4, <3>1, MaySendStep
    <3>. QED  BY <1>0, <2>3, <3>2, <3>3, <3>4, OutstandingIs
  <2>5. ASSUME NEW k \in {1, 2}, Arrive(s, k)
        PROVE  Served(o)
    <3>1. <<s, k>> \in late /\ <<s, k>> \notin late'
      BY <2>5 DEF Arrive
    <3>2. ~MaySend(s, k) /\ UNCHANGED <<pc, attempt>>
      BY <2>5, <3>1 DEF Sent, Arrive, submitVars
    <3>3. ~MaySend(s, k)'
      BY <3>2 DEF MaySend
    <3>. QED  BY <1>0, <2>3, <3>1, <3>3, OutstandingIs
  <2>. QED  BY <2>1, <2>4, <2>5
<1>. QED  BY <1>2, <1>3
----------------------------------------------------------------------------
(* What a working order may still fill.                                     *)

LEMMA TotalOfOne ==
  ASSUME NEW f, NEW x, f[x] \in Nat
  PROVE  Total(f, {x}) = f[x]
<1>1. IsFiniteSet({x}) /\ \A y \in {x} : f[y] \in Nat
  BY FS_Singleton
<1>2. Total(f, {x}) = Total(f, {x} \ {x}) + f[x]
  BY <1>1, TotalSplit
<1>3. {x} \ {x} = {}
  OBVIOUS
<1>. QED  BY <1>2, <1>3, TotalEmpty

LEMMA CoverHolds ==
  ASSUME Lane, Course, Single, Backed
  PROVE  Covered
<1>. USE DEF Lane, Course
<1>. SUFFICES ASSUME NEW r \in ReservationIds, OpenUnder(r) # {}
              PROVE  status[r] = "ACTIVE" /\ OpenUnits(r) <= intent[r].units - L!Filled(binding, r)
  BY DEF Covered
<1>1. status[r] = "ACTIVE"
  BY DEF Backed
<1>2. PICK o \in OrderIds : order[o].client = r /\ order[o].status = "OPEN"
  BY DEF OpenUnder, OrdersUnder
<1>3. OrdersUnder(r) = {o}
  <2>1. IsFiniteSet(OrdersUnder(r)) /\ Cardinality(OrdersUnder(r)) <= 1
    <3>1. IsFiniteSet(OrderIds) /\ OrdersUnder(r) \subseteq OrderIds
      BY LiveOrderAssumption DEF OrdersUnder
    <3>. QED  BY <3>1, FS_Subset DEF Single, OneOrderPerIntent
  <2>2. o \in OrdersUnder(r)
    BY <1>2 DEF OrdersUnder
  <2>. QED  BY <2>1, <2>2, AtMostOne
<1>4. OpenUnder(r) = {o}
  BY <1>2, <1>3 DEF OpenUnder
<1>5. /\ order[o].filled \in Nat /\ Units[r] \in Nat /\ order[o].filled < Units[r]
      /\ intent[r].units = Units[r] /\ binding[o].filled \in Nat
  BY <1>1, <1>2, LiveOrderAssumption DEF TypeOK, Orders, Rows, L!TypeOK, L!Binding
<1>6. OpenUnits(r) = Units[r] - order[o].filled
  <2>. DEFINE f == [x \in OrderIds |-> Units[r] - order[x].filled]
  <2>1. f[o] = Units[r] - order[o].filled /\ f[o] \in Nat
    BY <1>5
  <2>2. Total(f, {o}) = f[o]
    <3>. HIDE DEF f
    <3>. QED  BY <2>1, TotalOfOne
  <2>. QED  BY <1>4, <2>1, <2>2 DEF OpenUnits
<1>7. L!Filled(binding, r) \in Nat /\ L!Filled(binding, r) <= order[o].filled
  <2>. DEFINE g == [x \in OrderIds |-> binding[x].filled]
  <2>1. L!Filled(binding, r) = Total(g, L!OrdersOf(binding, r))
    BY DEF L!Filled, L!Total, L!UnitsOf, L!Cardinality, Total, UnitsOf, Cardinality
  <2>2. L!OrdersOf(binding, r) \subseteq {o}
    BY <1>3, LiveOrderAssumption DEF L!OrdersOf, Bindings, OrdersUnder
  <2>3. g[o] = binding[o].filled
    OBVIOUS
  <2>4. CASE L!OrdersOf(binding, r) = {}
    BY <1>5, <2>1, <2>4, TotalEmpty
  <2>5. CASE L!OrdersOf(binding, r) = {o}
    <3>1. binding[o].filled <= order[o].filled
      BY <2>5, LiveOrderAssumption DEF L!OrdersOf, Bindings
    <3>2. Total(g, {o}) = g[o]
      <4>. HIDE DEF g
      <4>. QED  BY <1>5, <2>3, TotalOfOne
    <3>. QED  BY <1>5, <2>1, <2>3, <2>5, <3>1, <3>2
  <2>. QED  BY <2>2, <2>4, <2>5
<1>. QED  BY <1>1, <1>5, <1>6, <1>7
----------------------------------------------------------------------------
(* The lane's variables keep their types, whatever fails.                   *)
THEOREM LaneTypeCorrect == Spec => []TypeOK
BY LaneInvariant, PTL DEF Lane

(* order_update books before it lowers the reservation, and neither a crash *)
(* between the two nor two polls that overtake each other ever leaves the   *)
(* book behind the ledger.                                                  *)
THEOREM BookKeepsUp == Spec => []BookNeverBehindLedger
BY LaneInvariant, PTL DEF Lane

(* The lane calls the ledger only in ways that RiskLedger allows: it is an  *)
(* implementation of the ledger's specification, under every fault.         *)
THEOREM LaneUsesLedger == Spec => L!Spec
<1>1. Init => L!Init
  BY DEF Init
<1>2. Lane /\ [Next]_vars => [L!Next]_(L!ledgerVars)
  BY UsesLedger DEF Lane
<1>. QED  BY <1>1, <1>2, LaneInvariant, PTL DEF Spec, L!Spec

LEMMA LaneHasLedger == Spec => LP!Spec
<1>1. L!Init => LP!Init
  BY DEF L!Init, LP!Init, L!Zero, LP!Zero, L!Unbound, LP!Unbound
<1>2. L!Spec => LP!Spec
  BY <1>1, SameStep, PTL DEF L!Spec, LP!Spec
<1>. QED  BY LaneUsesLedger, <1>2, PTL

(* So what is proved of the ledger holds in the lane: whatever is reserved, *)
(* revalued, filled and lost, the risk held stays within the limits.        *)
THEOREM LaneWithinCapacity == Spec => []L!ActiveWithinCapacity
<1>1. LP!Spec => []LP!ActiveWithinCapacity
  BY LedgerConstants, LP!CapacityRespected
<1>2. LP!ActiveWithinCapacity => L!ActiveWithinCapacity
  BY DEF L!ActiveWithinCapacity, LP!ActiveWithinCapacity, L!ActiveTotal, LP!ActiveTotal, L!HeldBy, LP!HeldBy,
    L!Active, LP!Active, L!Total, LP!Total, L!UnitsOf, LP!UnitsOf, L!Cardinality, LP!Cardinality
<1>. QED  BY LaneHasLedger, <1>1, <1>2, PTL

(* A reservation that the lane has released or filled stays closed, and     *)
(* what the ledger knows of an order only moves forward, although late      *)
(* polls, crashes and second attempts call it in any order.                 *)
THEOREM LaneMovesForward == Spec => L!ClosedForGood /\ L!OrdersMoveForward
<1>1. LP!Spec => LP!ClosedForGood /\ LP!OrdersMoveForward
  BY LedgerConstants, LP!ClosedStaysClosed, LP!OrdersNeverMoveBack
<1>2. LP!ClosedForGood => L!ClosedForGood
  BY DEF L!ClosedForGood, LP!ClosedForGood, L!ledgerVars, LP!ledgerVars, L!Zero, LP!Zero
<1>3. LP!OrdersMoveForward => L!OrdersMoveForward
  BY DEF L!OrdersMoveForward, LP!OrdersMoveForward, L!ledgerVars, LP!ledgerVars, L!Inactive, LP!Inactive,
    L!Releasing, LP!Releasing
<1>. QED  BY LaneHasLedger, <1>1, <1>2, <1>3, PTL

(* Seen from the limits, the whole lane is the capacity pool: each request  *)
(* is one claim, opened once, raised only where there is room, closed once. *)
THEOREM LaneImplementsPool == Spec => LP!ImplementsPool
<1>1. LP!Spec => LP!ImplementsPool
  BY LedgerConstants, LP!LedgerImplementsPool DEF LP!ImplementsPool
<1>. QED  BY LaneHasLedger, <1>1, PTL

(* Unless the broker takes a POST after the client gave up on it, it never  *)
(* has two orders under one clientOrderId, however many answers are lost.   *)
THEOREM OneOrderEach == ASSUME "late" \notin Faults PROVE Spec => []OneOrderPerIntent
<1>1. Lane /\ Course /\ Single /\ [Next]_vars => Single'
  BY SingleNext
<1>2. Single => OneOrderPerIntent
  BY DEF Single
<1>. QED  BY CourseInvariant, SingleInit, <1>1, <1>2, PTL DEF Spec

(* If besides a refusal is a refusal, then every order working at the       *)
(* broker is covered by an active reservation, at all times.                *)
THEOREM WorkingOrdersCovered ==
  ASSUME {"late", "malformed"} \cap Faults = {} PROVE Spec => []Covered
<1>1. Lane /\ Course /\ Single /\ [Next]_vars => Single'
  BY SingleNext
<1>2. Lane /\ Course /\ Single /\ Backed /\ [Next]_vars => Backed'
  BY BackedNext
<1>3. Lane /\ Course /\ Single /\ Backed => Covered
  BY CoverHolds
<1>. QED  BY CourseInvariant, SingleInit, BackedInit, <1>1, <1>2, <1>3, PTL DEF Spec

(* As long as the audit log can be written and a refusal is a refusal, no   *)
(* submission that ends in an error leaves an order behind in silence: late *)
(* arrivals and crashes are allowed for.                                    *)
THEOREM LossesAreLoud ==
  ASSUME {"audit", "malformed"} \cap Faults = {} PROVE Spec => []LossIsLoud
<1>1. Lane /\ Course /\ Loud /\ [Next]_vars => Loud'
  BY LoudNext
<1>2. Loud => LossIsLoud
  BY DEF Loud, LossIsLoud
<1>. QED  BY CourseInvariant, LoudInit, <1>1, <1>2, PTL DEF Spec

(* The switch is read once, but it drains the lane: while it is on, the     *)
(* POSTs still to come only grow fewer, and each order the broker gains was *)
(* one of them, under every fault.                                          *)
THEOREM SwitchDrainsTheLane == Spec => SwitchDrains
<1>1. Init => Sent
  BY DEF Init, Sent
<1>2. Lane /\ Sent /\ [Next]_vars => Sent'
  BY SentNext
<1>3. Lane /\ Sent /\ Lane' /\ Sent' /\ [Next]_vars =>
        [engaged /\ engaged' =>
           /\ Outstanding' \subseteq Outstanding
           /\ \A o \in OrderIds :
                order[o].status = "NONE" /\ order'[o].status # "NONE" => Served(o)]_vars
  BY DrainStep
<1>. QED  BY LaneInvariant, <1>1, <1>2, <1>3, PTL DEF Spec, SwitchDrains
============================================================================
