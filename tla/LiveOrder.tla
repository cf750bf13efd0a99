----------------------------- MODULE LiveOrder -----------------------------
(***************************************************************************)
(* The live order lane: EtradeClient.place_order (brokers/etrade_client.py) *)
(* driving the hooks of LiveRiskGate (execution/live_risk_gate.py) around   *)
(* every POST, with the durable stores behind the gate: the reservation     *)
(* ledger (RiskLedger), the local book, the kill switch and the audit log.  *)
(*                                                                         *)
(* The hooks hold no lock across their calls.  Each read of the broker,    *)
(* each POST and each SQLite transaction is a step of its own, so that the *)
(* steps of several submitters, of the status polls and of the broker      *)
(* interleave, and a crash may fall between any two of them.  The stores   *)
(* survive a crash; the threads and what they hold do not.                 *)
(***************************************************************************)
EXTENDS Totals

CONSTANTS
  Submitters,     \* threads that call place_order, once each
  Watchers,       \* the executors among them, which then poll their order until
                  \* it ends; the others are place requests of the GUI
  Sync,           \* LiveExecutionContext._sync_tracked_orders
  Units,          \* the units each clientOrderId asks for
  Faults,         \* what may go wrong: see Fault
  MaxCrashes,     \* bound: crashes of the process
  ReservationIds, OrderIds, Dimensions, Scalars, Capacity, MaxUnits, Rates,
  NoReservation, NoIntent

\* crash: the process dies.
\* audit: a write of the audit log or the book raises, or a poll's of the ledger.
\* late: the broker takes a POST after the client has given up on the answer.
\* malformed: the broker takes an order and answers 200 without OrderIds.
Fault == {"crash", "audit", "late", "malformed"}

Pollers == Submitters \cup {Sync}

ASSUME LiveOrderAssumption ==
  /\ Watchers \subseteq Submitters /\ Sync \notin Submitters
  /\ Units \in [ReservationIds -> 1 .. MaxUnits]
  /\ Faults \subseteq Fault /\ MaxCrashes \in Nat
  /\ IsFiniteSet(ReservationIds) /\ IsFiniteSet(OrderIds)
  /\ NoReservation \notin ReservationIds
  /\ Scalars \subseteq Dimensions /\ DOMAIN Capacity \subseteq Dimensions
  /\ Capacity \in [DOMAIN Capacity -> Nat] /\ MaxUnits \in Nat
  /\ Rates # {} /\ Rates \subseteq [Dimensions -> Nat]

VARIABLES
  ref,       \* the requests, by clientOrderId: not built yet, cached behind an
             \* order_ref of the GUI, or handed out
  client,    \* the request that each submitter places or has placed
  pc,        \* where each submitter stands in place_order
  attempt,   \* 1 or 2: the POST it is about to send or has sent
  seen,      \* the valuation it read last: risk of one unit, usage by positions
  got,       \* the broker order it has in hand
  order,     \* the broker's orders
  late,      \* the POSTs still on their way to the broker
  obs,       \* the status observation each poller is applying
  book,      \* local_book_orders: cumulative fill and status of a tracked order
  engaged,   \* kill_switch_state.engaged
  unknown,   \* reservations with a risk_reservation_unknown audit row
  crashes,
  status, intent, remaining, binding   \* the ledger

\* The ledger, for whatever risk the positions may hold.
L == INSTANCE RiskLedger WITH Bases <- [Dimensions -> Nat]

requestVars == <<ref, client>>
submitVars == <<requestVars, pc, attempt, seen, got>>
brokerVars == <<order, late>>
stopVars   == <<engaged, unknown>>
ledgerVars == <<status, intent, remaining, binding>>
vars == <<submitVars, brokerVars, stopVars, ledgerVars, obs, book, crashes>>
----------------------------------------------------------------------------
Running == {"begin", "check", "revalue", "post", "placed", "refused",
            "ambiguous", "garbled", "bind"}
Ended   == {"done", "closed", "failed", "dead"}

Terminal == {"EXECUTED", "CANCELLED"}
NoOrder  == [client |-> NoReservation, filled |-> 0, status |-> "NONE"]
Unread   == [rate |-> CHOOSE q \in Rates : TRUE, base |-> L!Zero]
NoBook   == [filled |-> 0, status |-> "NONE"]
Idle     == [stage |-> "none", order |-> {}, filled |-> 0, status |-> "NONE"]

TypeOK ==
  /\ L!TypeOK
  /\ ref \in [ReservationIds -> {"new", "cached", "gone"}]
  /\ client \in [Submitters -> ReservationIds \cup {NoReservation}]
  /\ pc \in [Submitters -> {"idle"} \cup Running \cup Ended]
  /\ attempt \in [Submitters -> {1, 2}]
  /\ seen \in [Submitters -> [rate : Rates, base : L!Vector]]
  /\ got \in [Submitters -> SUBSET OrderIds]
  /\ order \in [OrderIds -> [client : ReservationIds \cup {NoReservation},
                             filled : 0 .. MaxUnits,
                             status : {"NONE", "OPEN"} \cup Terminal]]
  /\ late \subseteq Submitters \X {1, 2}
  /\ obs \in [Pollers -> [stage : {"none", "read", "book", "settle", "ledger", "rebook"},
                          order : SUBSET OrderIds, filled : 0 .. MaxUnits,
                          status : {"NONE", "OPEN"} \cup Terminal]]
  /\ book \in [OrderIds -> [filled : 0 .. MaxUnits,
                            status : {"NONE", "PENDING", "OPEN"} \cup Terminal]]
  /\ engaged \in BOOLEAN /\ unknown \subseteq ReservationIds
  /\ crashes \in 0 .. MaxCrashes

Init ==
  /\ L!Init
  /\ ref = [r \in ReservationIds |-> "new"]
  /\ client = [s \in Submitters |-> NoReservation]
  /\ pc = [s \in Submitters |-> "idle"]
  /\ attempt = [s \in Submitters |-> 1]
  /\ seen = [s \in Submitters |-> Unread]
  /\ got = [s \in Submitters |-> {}]
  /\ order = [o \in OrderIds |-> NoOrder]
  /\ late = {}
  /\ obs = [p \in Pollers |-> Idle]
  /\ book = [o \in OrderIds |-> NoBook]
  /\ engaged = FALSE /\ unknown = {} /\ crashes = 0
----------------------------------------------------------------------------
Goto(s, place) == pc' = [pc EXCEPT ![s] = place]

\* No more POST will be sent: the count of attempts is not read again.
Settle(s) == attempt' = [attempt EXCEPT ![s] = 1]

\* _engage_unknown: stop new orders, then audit that the outcome for r is unknown.
\* The switch flips with an audit row of its own, in one transaction; place_order
\* goes on without whichever of the two steps raises.
Alarm(r) ==
  \/ engaged' = TRUE /\ unknown' = unknown \cup {r}
  \/ "audit" \in Faults /\ engaged' \in {engaged, TRUE} /\ UNCHANGED unknown

\* _value_order: quotes and positions are read from the broker.
PositionUnits == Total([o \in OrderIds |-> order[o].filled], OrderIds)
Drop(s) == seen' = [seen EXCEPT ![s] = Unread]  \* a local of the hook that read it
Valuation(q) == [rate |-> q, base |-> L!Scale(q, PositionUnits)]
IntentOf(s) == [units |-> Units[client[s]], reducing |-> FALSE, rate |-> seen[s].rate]

\* The broker's orders with clientOrderId r, which a lookup lists whatever
\* has become of them.
OrdersUnder(r) == {o \in OrderIds : order[o].client = r}

\* Mutant of Listed: the lookup passes over orders that are already over.
ListedOpen(r) == {o \in OrdersUnder(r) : order[o].status = "OPEN"}
Listed(r) == OrdersUnder(r)

\* The broker takes an order of client r and names it o.
Unused == {o \in OrderIds : order[o].status = "NONE"}
Accept(o, r) ==
  /\ Unused # {} /\ o = CHOOSE u \in Unused : TRUE
  /\ order' = [order EXCEPT ![o] = [client |-> r, filled |-> 0, status |-> "OPEN"]]
----------------------------------------------------------------------------
(* The GUI's previews.  Each builds a request with a clientOrderId of its    *)
(* own and caches it, in memory, until it is placed, expires or is evicted;  *)
(* the switch is read before the preview is sent and not again.              *)
Preview(r) ==
  /\ ref[r] = "new" /\ ref' = [ref EXCEPT ![r] = "cached"]
  /\ UNCHANGED <<client, pc, attempt, seen, got, brokerVars, stopVars, ledgerVars, obs, book, crashes>>

Expire(r) ==
  /\ ref[r] = "cached" /\ ref' = [ref EXCEPT ![r] = "gone"]
  /\ UNCHANGED <<client, pc, attempt, seen, got, brokerVars, stopVars, ledgerVars, obs, book, crashes>>

\* An executor builds a request for each placement, the GUI has previewed it.
MayTake(s, r) == ref[r] = IF s \in Watchers THEN "new" ELSE "cached"

\* Mutant of Consume: the record stays in the cache.
ConsumeAgain(r) == UNCHANGED ref

\* consume_order_ref pops the record: whatever becomes of the placement, the
\* request is not placed again.
Consume(r) == ref' = [ref EXCEPT ![r] = "gone"]

\* Mutant of MayTrade: the switch is not looked at.
TradeAlways == TRUE
MayTrade == ~engaged

(* place_order up to the reservation: the request is consumed, then the kill *)
(* switch checked; begin reads its valuation before the ledger's transaction. *)
(* It fails when the switch is on, or when the valuation cannot be made.     *)
PreTrade(s) ==
  /\ pc[s] = "idle"
  /\ \E r \in ReservationIds :
       MayTake(s, r) /\ Consume(r) /\ client' = [client EXCEPT ![s] = r]
  /\ \/ /\ MayTrade /\ Goto(s, "begin")
        /\ \E q \in Rates : seen' = [seen EXCEPT ![s] = Valuation(q)]
     \/ Goto(s, "failed") /\ UNCHANGED seen
  /\ UNCHANGED <<attempt, got, brokerVars, stopVars, ledgerVars, obs, book, crashes>>

(* begin: reserve, then audit.  When either raises, a row that exists is     *)
(* kept and the switch engaged; with metadata that differ, reserving an      *)
(* existing row raises even for the same intent.                             *)
Reserved(s) == L!CheckAndReserve(client[s], IntentOf(s), seen[s].base, {})

Begin(s) ==
  LET r == client[s] IN
  /\ pc[s] = "begin"
  /\ \/ Reserved(s) /\ Goto(s, "check") /\ UNCHANGED stopVars
     \/ "audit" \in Faults /\ Reserved(s) /\ Goto(s, "failed") /\ Alarm(r)
     \/ /\ status[r] # "ABSENT" \/ ~L!CanReserve(r, IntentOf(s), seen[s].base)
        /\ IF status[r] = "ABSENT" THEN UNCHANGED stopVars ELSE Alarm(r)
        /\ Goto(s, "failed") /\ UNCHANGED ledgerVars
  /\ Drop(s)
  /\ UNCHANGED <<requestVars, attempt, got, brokerVars, obs, book, crashes>>

(* before_attempt reads a fresh valuation, then revalues the reservation.   *)
Refresh(s) ==
  /\ pc[s] = "check"
  /\ \E q \in Rates : seen' = [seen EXCEPT ![s] = Valuation(q)]
  /\ Goto(s, "revalue")
  /\ UNCHANGED <<requestVars, attempt, got, brokerVars, stopVars, ledgerVars, obs, book, crashes>>

\* Mutant of GiveUp: capacity is released after a second attempt too.
GiveUpReleases(s) ==
  /\ Goto(s, "failed") /\ Settle(s)
  /\ L!Release(client[s]) /\ UNCHANGED stopVars

\* What place_order does when an attempt is known not to have been accepted:
\* release before a second attempt, keep the reservation and stop after one.
GiveUp(s) ==
  /\ Goto(s, "failed") /\ Settle(s)
  /\ IF attempt[s] = 1
     THEN L!Release(client[s]) /\ UNCHANGED stopVars
     ELSE Alarm(client[s]) /\ UNCHANGED ledgerVars

\* The valuation may fail at any time (no quote, no balances), and the audit
\* row once the ledger has been revalued; a release then overrides the revaluation.
BeforeAttempt(s) ==
  LET Revalued == L!Revalue(client[s], seen[s].rate, seen[s].base) IN
  /\ pc[s] = "revalue"
  /\ \/ Revalued /\ Goto(s, "post") /\ UNCHANGED <<attempt, stopVars>>
     \/ /\ "audit" \in Faults /\ attempt[s] = 2
        /\ Revalued /\ Goto(s, "failed") /\ Settle(s) /\ Alarm(client[s])
     \/ GiveUp(s)
  /\ Drop(s)
  /\ UNCHANGED <<requestVars, got, brokerVars, obs, book, crashes>>

(* One POST and the answer to it.  The broker may take the order whether or *)
(* not the client hears of it.                                              *)
Post(s) ==
  LET r == client[s]
      Taken(place) == (\E o \in OrderIds : Accept(o, r)) /\ Goto(s, place) /\ UNCHANGED late
      NotTaken(place) == Goto(s, place) /\ UNCHANGED brokerVars
  IN
  /\ pc[s] = "post"
  /\ \/ \E o \in OrderIds :
          /\ Accept(o, r) /\ got' = [got EXCEPT ![s] = {o}]
          /\ Goto(s, "placed") /\ UNCHANGED late
     \/ /\ \/ NotTaken("refused")
           \/ "malformed" \in Faults /\ Taken("refused")
           \/ Taken("ambiguous") \/ NotTaken("ambiguous")
           \/ Taken("garbled") \/ NotTaken("garbled")
           \/ /\ "late" \in Faults
              /\ late' = late \cup {<<s, attempt[s]>>}
              /\ Goto(s, "ambiguous") /\ UNCHANGED order
        /\ UNCHANGED got
  /\ UNCHANGED <<requestVars, attempt, seen, stopVars, ledgerVars, obs, book, crashes>>

(* A 4xx, a 429, an expired session, or a 200 without OrderIds.             *)
Refused(s) ==
  /\ pc[s] = "refused" /\ GiveUp(s)
  /\ UNCHANGED <<requestVars, seen, got, brokerVars, obs, book, crashes>>

\* An ambiguous answer is looked into once.
MayRetry(s) == attempt[s] = 1

\* Mutant of NextAttempt: the attempt is not counted.
SameAttempt(s) == attempt[s]
NextAttempt(s) == attempt[s] + 1

\* Mutant of Unknown: an ambiguous end is taken for a refusal.
UnknownReleases(s) ==
  /\ pc[s] = "garbled" \/ (pc[s] = "ambiguous" /\ ~MayRetry(s))
  /\ Goto(s, "failed") /\ Settle(s) /\ L!Release(client[s])
  /\ UNCHANGED <<requestVars, seen, got, brokerVars, stopVars, obs, book, crashes>>

(* Any other exception after the POST was sent, and a second ambiguous one. *)
Unknown(s) ==
  /\ pc[s] = "garbled" \/ (pc[s] = "ambiguous" /\ ~MayRetry(s))
  /\ Goto(s, "failed") /\ Settle(s) /\ Alarm(client[s])
  /\ UNCHANGED <<requestVars, seen, got, brokerVars, ledgerVars, obs, book, crashes>>

(* A first ambiguous answer: audit it, then look for an order under the     *)
(* clientOrderId; adopt the one found, send once more when there is none.   *)
Lookup(s) ==
  LET r == client[s] IN
  /\ pc[s] = "ambiguous" /\ MayRetry(s)
  /\ \/ \E o \in Listed(r) :
          got' = [got EXCEPT ![s] = {o}] /\ Goto(s, "placed") /\ UNCHANGED <<attempt, stopVars>>
     \/ /\ Listed(r) = {}
        /\ attempt' = [attempt EXCEPT ![s] = NextAttempt(s)]
        /\ Goto(s, "check") /\ UNCHANGED <<got, stopVars>>
     \/ Goto(s, "failed") /\ Alarm(r) /\ UNCHANGED <<attempt, got>>
  /\ UNCHANGED <<requestVars, seen, brokerVars, ledgerVars, obs, book, crashes>>

(* _audit_placed and the first half of accepted: the book tracks the order.  *)
Track(s) ==
  /\ pc[s] = "placed"
  /\ \/ /\ \E o \in got[s] :
             book' = IF book[o].status = "NONE"
                     THEN [book EXCEPT ![o].status = "PENDING"] ELSE book
        /\ Goto(s, "bind") /\ UNCHANGED <<got, stopVars>>
     \/ /\ "audit" \in Faults
        /\ Goto(s, "failed") /\ Alarm(client[s])
        /\ got' = [got EXCEPT ![s] = {}] /\ UNCHANGED book
  /\ Settle(s)
  /\ UNCHANGED <<requestVars, seen, brokerVars, ledgerVars, obs, crashes>>

(* The second half of accepted: the ledger binds the order, then audits.     *)
Bind(s) ==
  LET r == client[s] IN
  /\ pc[s] = "bind"
  /\ \E o \in got[s] :
       \/ L!BindOrder(r, o) /\ Goto(s, "done") /\ UNCHANGED stopVars
       \/ "audit" \in Faults /\ L!BindOrder(r, o) /\ Goto(s, "failed") /\ Alarm(r)
       \/ ~L!CanBind(r, o) /\ Goto(s, "failed") /\ Alarm(r) /\ UNCHANGED ledgerVars
  /\ UNCHANGED <<requestVars, attempt, seen, got, brokerVars, obs, book, crashes>>
----------------------------------------------------------------------------
(* order_status: a poll reads the broker, then hands what it read to         *)
(* order_update, which looks whether the ledger has the order bound, books   *)
(* what the poll saw and, if it was bound, tells the ledger: three steps, no *)
(* lock across them.  PatientExecutor polls the order it placed until it     *)
(* sees it end, a placement from the GUI never does; Sync polls the orders   *)
(* whose status in the book has not ended.                                   *)

\* Mutant of Polls: an executor too leaves alone what the book has as over.
PollsUnbooked(p) ==
  {o \in OrderIds : /\ book[o].status \notin Terminal \cup {"NONE"}
                    /\ p = Sync \/ (p \in Watchers /\ pc[p] = "done" /\ o \in got[p])}

Polls(p) ==
  IF p = Sync
  THEN {o \in OrderIds : book[o].status \notin Terminal \cup {"NONE"}}
  ELSE IF p \in Watchers /\ pc[p] = "done" THEN got[p] ELSE {}

Observe(p) ==
  /\ obs[p].stage = "none"
  /\ \E o \in Polls(p) :
       obs' = [obs EXCEPT ![p] = [stage |-> "read", order |-> {o},
                                  filled |-> order[o].filled, status |-> order[o].status]]
  /\ UNCHANGED <<submitVars, brokerVars, stopVars, ledgerVars, book, crashes>>

\* The poll of p goes on to a later stage, or is over; raised tells how.  When a
\* sync raises, run_reconciliation engages the kill switch, working_orders does not.
Stage(p, stage) ==
  /\ obs' = [obs EXCEPT ![p].stage = stage]
  /\ UNCHANGED <<pc, stopVars>>

Finish(p, raised) ==
  /\ obs' = [obs EXCEPT ![p] = Idle]
  /\ engaged' \in IF raised /\ p = Sync THEN {engaged, TRUE} ELSE {engaged}
  /\ pc' = IF p # Sync /\ (raised \/ obs[p].status \in Terminal)
           THEN [pc EXCEPT ![p] = "closed"] ELSE pc
  /\ UNCHANGED unknown

\* order_update ends with an audit row, and a sync goes on from what it returned.
Returned(p) ==
  \/ IF p = Sync THEN Stage(p, "rebook") ELSE Finish(p, FALSE)
  \/ "audit" \in Faults /\ Finish(p, TRUE)

\* reservation_for_order: what it finds decides whether the ledger hears of the
\* observation, however soon after it the order is bound.
ReadBinding(p) ==
  /\ obs[p].stage = "read"
  /\ \E o \in obs[p].order :
       Stage(p, IF binding[o].owner # NoReservation THEN "settle" ELSE "book")
  /\ UNCHANGED <<requestVars, attempt, seen, got, brokerVars, ledgerVars, book, crashes>>

\* apply_order_status: only a fill above the one booked moves positions, a
\* lower one raises, and the status is overwritten in either case.
\* Mutant of Bookable: a regressing fill is booked.
AlwaysBookable(p, o) == TRUE
Bookable(p, o) == obs[p].filled >= book[o].filled
Booked(p, o) == [book EXCEPT ![o] = [filled |-> obs[p].filled, status |-> obs[p].status]]

BookUpdate(p) ==
  /\ obs[p].stage \in {"book", "settle"}
  /\ \E o \in obs[p].order :
       \/ /\ Bookable(p, o) /\ book' = Booked(p, o)
          /\ IF obs[p].stage = "settle" THEN Stage(p, "ledger") ELSE Returned(p)
       \/ /\ ~Bookable(p, o) \/ "audit" \in Faults
          /\ Finish(p, TRUE) /\ UNCHANGED book
  /\ UNCHANGED <<requestVars, attempt, seen, got, brokerVars, ledgerVars, crashes>>

LedgerUpdate(p) ==
  /\ obs[p].stage = "ledger"
  /\ \E o \in obs[p].order :
       \/ L!RecordOrderUpdate(o, obs[p].filled, obs[p].status) /\ Returned(p)
       \/ /\ ~L!CanRecord(o, obs[p].filled, obs[p].status) \/ "audit" \in Faults
          /\ Finish(p, TRUE) /\ UNCHANGED ledgerVars
  /\ UNCHANGED <<requestVars, attempt, seen, got, brokerVars, book, crashes>>

\* _sync_tracked_orders applies what order_status returned to the book again.
Rebook ==
  /\ obs[Sync].stage = "rebook"
  /\ \E o \in obs[Sync].order :
       \/ Bookable(Sync, o) /\ book' = Booked(Sync, o) /\ Finish(Sync, FALSE)
       \/ /\ ~Bookable(Sync, o) \/ "audit" \in Faults
          /\ Finish(Sync, TRUE) /\ UNCHANGED book
  /\ UNCHANGED <<requestVars, attempt, seen, got, brokerVars, ledgerVars, crashes>>

\* Mutant of Mismatch: only positions missing at the broker count.
MissingAtBroker == Total([o \in OrderIds |-> book[o].filled], OrderIds) > PositionUnits
Mismatch == Total([o \in OrderIds |-> book[o].filled], OrderIds) # PositionUnits

(* The rest of run_reconciliation: the book must agree with the broker.      *)
Reconcile ==
  /\ obs[Sync].stage = "none" /\ Mismatch
  /\ engaged' = TRUE
  /\ UNCHANGED <<submitVars, brokerVars, unknown, ledgerVars, obs, book, crashes>>
----------------------------------------------------------------------------
(* The broker, the operator and the process.                                 *)
Fill(o) ==
  /\ order[o].status = "OPEN"
  /\ LET n == order[o].filled + 1
         whole == n = Units[order[o].client]
     IN order' = [order EXCEPT ![o].filled = n, ![o].status = IF whole THEN "EXECUTED" ELSE "OPEN"]
  /\ UNCHANGED <<submitVars, late, stopVars, ledgerVars, obs, book, crashes>>

Cancel(o) ==
  /\ order[o].status = "OPEN"
  /\ order' = [order EXCEPT ![o].status = "CANCELLED"]
  /\ UNCHANGED <<submitVars, late, stopVars, ledgerVars, obs, book, crashes>>

Arrive(s, k) ==
  /\ <<s, k>> \in late
  /\ \E o \in OrderIds : Accept(o, client[s])
  /\ late' = late \ {<<s, k>>}
  /\ UNCHANGED <<submitVars, stopVars, ledgerVars, obs, book, crashes>>

Flip ==
  /\ engaged' = ~engaged
  /\ UNCHANGED <<submitVars, brokerVars, unknown, ledgerVars, obs, book, crashes>>

Crash ==
  /\ "crash" \in Faults /\ crashes < MaxCrashes
  /\ crashes' = crashes + 1
  /\ pc' = [s \in Submitters |-> IF pc[s] \in Running \cup {"done"} THEN "dead" ELSE pc[s]]
  /\ attempt' = [s \in Submitters |-> 1]
  /\ seen' = [s \in Submitters |-> Unread]
  /\ got' = [s \in Submitters |-> {}]
  /\ obs' = [p \in Pollers |-> Idle]
  /\ ref' = [r \in ReservationIds |-> IF ref[r] = "cached" THEN "gone" ELSE ref[r]]
  /\ UNCHANGED <<client, brokerVars, stopVars, ledgerVars, book>>
----------------------------------------------------------------------------
Submit(s) ==
  \/ Begin(s) \/ Refresh(s) \/ BeforeAttempt(s) \/ Post(s) \/ Refused(s)
  \/ Unknown(s) \/ Lookup(s) \/ Track(s) \/ Bind(s)

Apply(p) == ReadBinding(p) \/ BookUpdate(p) \/ LedgerUpdate(p)

Environment ==
  \/ \E o \in OrderIds : Fill(o) \/ Cancel(o)
  \/ \E s \in Submitters, k \in {1, 2} : Arrive(s, k)
  \/ Flip \/ Crash

Next ==
  \/ \E r \in ReservationIds : Preview(r) \/ Expire(r)
  \/ \E s \in Submitters : PreTrade(s) \/ Submit(s)
  \/ \E p \in Pollers : Observe(p) \/ Apply(p)
  \/ Rebook \/ Reconcile \/ Environment

Spec == Init /\ [][Next]_vars

(* A thread that has started place_order runs on, a status poll that has     *)
(* been started is applied, an executor polls until its order ends, and the  *)
(* live loop reconciles every cycle, over every order the book tracks - but  *)
(* evaluate_once halts, and the scheduler with it, while the switch is on.   *)
Fairness ==
  /\ \A s \in Submitters : WF_vars(Submit(s))
  /\ \A p \in Pollers : WF_vars(Apply(p))
  /\ \A s \in Watchers : WF_vars(Observe(s))
  /\ \A o \in OrderIds : SF_vars(Observe(Sync) /\ ~engaged /\ obs'[Sync].order = {o})
  /\ WF_vars(Rebook) /\ SF_vars(Reconcile /\ ~engaged)

FairSpec == Spec /\ Fairness
----------------------------------------------------------------------------
OpenUnder(r) == {o \in OrdersUnder(r) : order[o].status = "OPEN"}
OpenUnits(r) == Total([o \in OrderIds |-> Units[r] - order[o].filled], OpenUnder(r))

(* Every order working at the broker is backed: its reservation is active    *)
(* and still holds at least the units the order can fill, whatever was lost  *)
(* on the way - an answer, a callback, the process - and whenever.           *)
Covered ==
  \A r \in ReservationIds :
    OpenUnder(r) # {} =>
      /\ status[r] = "ACTIVE"
      /\ OpenUnits(r) <= intent[r].units - L!Filled(binding, r)

(* The idempotency dance: however often the answer to a POST is lost, the    *)
(* broker never takes two orders for one clientOrderId.                      *)
OneOrderPerIntent == \A r \in ReservationIds : Cardinality(OrdersUnder(r)) <= 1

(* order_update books a fill before it lowers the reservation for it, so     *)
(* that risk is at worst counted twice: no fill the ledger has taken off a   *)
(* reservation is missing from the book, and no order is bound untracked.    *)
BookNeverBehindLedger ==
  \A o \in OrderIds :
    binding[o].owner # NoReservation =>
      book[o].status # "NONE" /\ book[o].filled >= binding[o].filled

(* A submission that ends in an error leaves no order behind in silence: if  *)
(* the broker has an order for it that is not bound, the ambiguity has been  *)
(* audited and its capacity is still reserved or the order bound elsewhere.  *)
LossIsLoud ==
  \A s \in Submitters :
    pc[s] = "failed" =>
      \A o \in OrdersUnder(client[s]) :
        binding[o].owner = NoReservation =>
          client[s] \in unknown /\ status[client[s]] = "ACTIVE"

(* The switch is read once, before the first POST.  Once it is on, and while *)
(* it stays on, the broker gains no order but for a POST that a placement    *)
(* already under way may still send, or that is still on its way: at most    *)
(* two for each such placement, and every order uses one of them up.         *)
Outstanding ==
  late \cup {post \in Submitters \X {1, 2} :
               \/ /\ pc[post[1]] \in {"begin", "check", "revalue", "post"}
                  /\ post[2] >= attempt[post[1]]
               \/ pc[post[1]] = "ambiguous" /\ post[2] > attempt[post[1]]}

Served(o) == \E post \in Outstanding \ Outstanding' : order'[o].client = client[post[1]]

SwitchDrains ==
  [][engaged /\ engaged' =>
       /\ Outstanding' \subseteq Outstanding
       /\ \A o \in OrderIds :
            order[o].status = "NONE" /\ order'[o].status # "NONE" => Served(o)]_vars

(* What the broker filled beside what working orders may still fill never    *)
(* exceeds the limits, with prices that do not move.                         *)
ExposureUnits == PositionUnits + Total([r \in ReservationIds |-> OpenUnits(r)], ReservationIds)
ExposureWithinCapacity ==
  \A q \in Rates, d \in DOMAIN Capacity : q[d] * ExposureUnits <= Capacity[d]

(* place_order always comes back, whatever the broker answers.               *)
PlacementEnds == \A s \in Submitters : pc[s] = "begin" ~> pc[s] \in Ended

(* The over-count is temporary: capacity held for an order that is over at   *)
(* the broker is given back while the lane runs.                             *)
HeldForNothing(o) ==
  /\ order[o].status \in Terminal /\ binding[o].owner # NoReservation
  /\ status[binding[o].owner] = "ACTIVE"
OverCountIsTemporary ==
  \A o \in OrderIds : HeldForNothing(o) ~> (engaged \/ ~HeldForNothing(o))

(* The end of an order reaches the ledger as long as a poll of a bound order *)
(* is still to come or under way: its executor still polls it, or the sync   *)
(* loop does not have it as over, and did not read it before it was bound.   *)
(* order_update (live_risk_gate.py) then gives back what is held for it,     *)
(* whichever poller booked the end first and however old the other's answer. *)
StillPolled(o) ==
  \/ \E s \in Watchers : pc[s] = "done" /\ o \in got[s]
  \/ book[o].status \notin Terminal /\ o \notin obs[Sync].order
  \/ o \in obs[Sync].order /\ obs[Sync].stage \in {"read", "settle", "ledger"}
EndReachesLedger ==
  \A o \in OrderIds :
    HeldForNothing(o) /\ StillPolled(o) ~> (engaged \/ ~HeldForNothing(o))

(* A fill of an order the book does not track stops the lane: reconciliation *)
(* finds the difference and engages the kill switch.                         *)
StrayFill(o) == order[o].filled > 0 /\ book[o].status = "NONE"
StrayFillStopsTrading ==
  \A o \in OrderIds : StrayFill(o) ~> (engaged \/ ~StrayFill(o))
=============================================================================
