----------------------------- MODULE TradingCycle -----------------------------
(***************************************************************************)
(* The cycles of a target-native trading session (utils/live_session.py):  *)
(* the daily-loss gate, the snapshot of reservations and book, the desk's  *)
(* target, the difference (portfolio/targets.py), and the order for it,    *)
(* which passes the client's gate again.                                   *)
(*                                                                         *)
(* One asset, which the session alone trades.  The executor that works an  *)
(* order may end with the order still at work, so the next cycle may begin *)
(* at any time after a placement.  Fills reach the local book and then the *)
(* ledger whenever somebody polls; the process may die anywhere.           *)
(***************************************************************************)
EXTENDS DailyLoss, Totals

CONSTANTS
  Session,     \* the caller of the gate that is the session's thread
  Targets,     \* what the desk may want to hold
  Largest,     \* the most of it
  Start,       \* what the account holds at first
  MaxOrders,   \* bounds the placements
  MaxUnknown   \* bounds the placements whose outcome is not known

ASSUME CycleAssumption ==
  /\ Session \in Callers /\ Largest \in Nat
  /\ Targets \subseteq 0 .. Largest /\ Start \in 0 .. Largest
  /\ MaxOrders \in Nat /\ MaxUnknown \in Nat

VARIABLES
  position,  \* what the account holds at the broker
  book,      \* what the local book says it holds
  order,     \* the orders and their reservations, in the order of placement
  poll,      \* an observation of an order that is being applied
  cycle,     \* where evaluate_once stands, and the snapshot it has taken
  unknown    \* placements with an unknown outcome, so far

cycleVars == <<position, book, order, poll, cycle, unknown>>
vars == <<gateVars, cycleVars>>
----------------------------------------------------------------------------
Sides == {1, -1}

(* quantity, filled, open: at the broker.  booked: the fill that the local  *)
(* book has.  ledgered, active, bound: the reservation's, its status and    *)
(* whether it knows the order.                                              *)
Orders == [side : Sides, quantity : Nat \ {0}, filled : Nat, open : BOOLEAN,
           booked : Nat, ledgered : Nat, active : BOOLEAN, bound : BOOLEAN]

NoPoll  == [on |-> 0, filled |-> 0, open |-> FALSE, stage |-> "none"]
Waiting == [pc |-> "top", step |-> 1, reserved |-> 0, cancels |-> FALSE, held |-> 0, target |-> 0]

Places == {"top", "gate", "read", "decide", "order", "regate"}

TypeOK ==
  /\ GateTypeOK
  /\ position \in Int /\ book \in Int /\ unknown \in 0 .. MaxUnknown
  /\ order \in Seq(Orders) /\ Len(order) <= MaxOrders
  /\ \A i \in DOMAIN order :
       order[i].ledgered <= order[i].booked /\ order[i].filled <= order[i].quantity
  /\ poll \in [on : 0 .. Len(order), filled : Nat, open : BOOLEAN,
               stage : {"none", "book", "ledger"}]
  /\ cycle \in [pc : Places, step : 1 .. 3, reserved : Int, cancels : BOOLEAN,
                held : Int, target : Targets \cup {0}]

Init ==
  /\ GateInit
  /\ position = Start /\ book = position /\ order = <<>> /\ unknown = 0
  /\ poll = NoPoll /\ cycle = Waiting
----------------------------------------------------------------------------
At(place) == cycle.pc = place
Goto(place) == cycle' = [cycle EXCEPT !.pc = place]
EndCycle == cycle' = Waiting

\* evaluate_once, and the client before a placement, consult the gate.
Ask(from, to) ==
  /\ At(from) /\ Enter(Session) /\ Goto(to)
  /\ UNCHANGED <<position, book, order, poll, unknown>>

Begin == Ask("top", "gate")
Order == Ask("order", "regate")

Passed(place) == At(place) /\ Leave(Session)

\* A breach or a gate that raises ends the cycle.
Blocked ==
  /\ (At("gate") \/ At("regate")) /\ call[Session].pc = "outside" /\ EndCycle
  /\ UNCHANGED <<gateVars, position, book, order, poll, unknown>>
----------------------------------------------------------------------------
(* The snapshot: _reservation_snapshot, then the local book.                *)
Remaining == [i \in DOMAIN order |-> order[i].quantity - order[i].ledgered]
Active(side) == {i \in DOMAIN order : order[i].active /\ order[i].side = side}

\* Mutant of Reserved: what is at work is left out of the effective position.
NothingReserved == 0

\* reserved_deltas_from_risk_snapshot
Reserved == Total(Remaining, Active(1)) - Total(Remaining, Active(-1))

\* An active reservation that knows its order: cancel_order has something to cancel.
Cancellable == \E i \in DOMAIN order : order[i].active /\ order[i].bound /\ Remaining[i] > 0

\* Mutant of Reads: the book first, then the reservations.
BookFirst == <<"book", "reservations">>

Reads == <<"reservations", "book">>

\* One of the two reads, the first as soon as the gate has let the cycle pass.
Snapshot ==
  /\ Passed("gate") \/ (At("read") /\ UNCHANGED gateVars)
  /\ LET what == Reads[cycle.step]
         next == [cycle EXCEPT !.step = @ + 1, !.pc = IF cycle.step = 2 THEN "decide" ELSE "read"]
     IN \/ /\ what = "reservations"
           /\ cycle' = [next EXCEPT !.reserved = Reserved, !.cancels = Cancellable]
        \/ what = "book" /\ cycle' = [next EXCEPT !.held = book]
  /\ UNCHANGED <<position, book, order, poll, unknown>>

Effective == cycle.held + cycle.reserved

\* PositionFlipNotAllowed: long to short or back in one difference.
Flips(t) == Effective < 0 /\ t > 0

\* Mutant of Obsolete: orders at work are not cancelled before a difference.
NeverObsolete(t) == FALSE

\* _cancel_obsolete_target_orders requests a cancellation.
Obsolete(t) == cycle.cancels /\ t # Effective

Differs(t) == t # Effective

(* The desk's target t: the validation raises, or an obsolete order is      *)
(* cancelled and the cycle is pending, or nothing is to do, or apply_risk   *)
(* drops the intent, or it goes to the executor.  What a cancellation does  *)
(* at the broker is Close.                                                  *)
Decide(t) ==
  /\ At("decide")
  /\ IF Flips(t) \/ Obsolete(t) \/ ~Differs(t)
       THEN EndCycle
       ELSE \/ cycle' = [cycle EXCEPT !.pc = "order", !.target = t]
            \/ EndCycle
  /\ UNCHANGED <<gateVars, position, book, order, poll, unknown>>

\* The executor does not place when the switch is on.
Killed ==
  /\ At("order") /\ engaged /\ EndCycle
  /\ UNCHANGED <<gateVars, position, book, order, poll, unknown>>

Delta    == cycle.target - Effective
Side     == IF Delta > 0 THEN 1 ELSE -1
Quantity == IF Delta > 0 THEN Delta ELSE -Delta

New(bound) ==
  [side |-> Side, quantity |-> Quantity, filled |-> 0, open |-> TRUE,
   booked |-> 0, ledgered |-> 0, active |-> TRUE, bound |-> bound]

\* _value_equity: a SELL of more than is held is refused.
CanSell == Side = 1 \/ Quantity <= position

Placed(bound) ==
  /\ CanSell /\ Len(order) < MaxOrders
  /\ order' = Append(order, New(bound))

(* The placement succeeds, or is refused, or nobody knows (_engage_unknown: *)
(* if the broker does not have the order, it is as one that Close ends).    *)
Post ==
  /\ At("regate") /\ call[Session].pc = "passed" /\ Refuse(Session) /\ EndCycle
  /\ \/ Placed(TRUE) /\ UNCHANGED <<engaged, unknown>>
     \/ UNCHANGED <<order, engaged, unknown>>
     \/ /\ unknown < MaxUnknown /\ unknown' = unknown + 1
        /\ Placed(FALSE)
        /\ engaged' = TRUE
  /\ UNCHANGED <<today, captured, sod, position, book, poll>>
----------------------------------------------------------------------------
(* The broker.                                                              *)
Fill(i) ==
  /\ order[i].open
  /\ order' = [order EXCEPT ![i].filled = @ + 1,
                            ![i].open = order[i].filled + 1 < order[i].quantity]
  /\ position' = position + order[i].side
  /\ UNCHANGED <<gateVars, book, poll, cycle, unknown>>

\* A cancellation takes effect, or the order expires.
Close(i) ==
  /\ order[i].open /\ order' = [order EXCEPT ![i].open = FALSE]
  /\ UNCHANGED <<gateVars, position, book, poll, cycle, unknown>>

(* A poll by the executor, the sync loop or the cancellation: the status is *)
(* read, then the book updated, then the ledger.  A poll that finds nothing *)
(* new changes nothing.                                                     *)
Observe(i) ==
  /\ poll = NoPoll /\ order[i].bound /\ order[i].active
  /\ order[i].filled # order[i].ledgered \/ ~order[i].open
  /\ poll' = [on |-> i, filled |-> order[i].filled, open |-> order[i].open, stage |-> "book"]
  /\ UNCHANGED <<gateVars, position, book, order, cycle, unknown>>

BookFill ==
  /\ poll.stage = "book"
  /\ LET i == poll.on IN
       /\ book' = book + order[i].side * (poll.filled - order[i].booked)
       /\ order' = [order EXCEPT ![i].booked = poll.filled]
  /\ poll' = [poll EXCEPT !.stage = "ledger"]
  /\ UNCHANGED <<gateVars, position, cycle, unknown>>

LedgerFill ==
  /\ poll.stage = "ledger"
  /\ order' = [order EXCEPT ![poll.on].ledgered = poll.filled, ![poll.on].active = poll.open]
  /\ poll' = NoPoll
  /\ UNCHANGED <<gateVars, position, book, cycle, unknown>>
----------------------------------------------------------------------------
\* The other callers of the gate, the calendar, the operator.
Around ==
  /\ \/ \E c \in Callers \ {Session} : Enter(c) \/ Leave(c)
     \/ \E c \in Callers : Consult(c)
     \/ Midnight \/ Flip
  /\ UNCHANGED cycleVars

\* The process dies and starts again.
Restart ==
  /\ GateRestart /\ cycle' = Waiting /\ poll' = NoPoll
  /\ UNCHANGED <<position, book, order, unknown>>

Next ==
  \/ Begin \/ Blocked \/ Snapshot \/ Order \/ Killed \/ Post
  \/ \E t \in Targets : Decide(t)
  \/ \E i \in DOMAIN order : Fill(i) \/ Close(i) \/ Observe(i)
  \/ BookFill \/ LedgerFill \/ Around \/ Restart

Spec == Init /\ [][Next]_vars
----------------------------------------------------------------------------
Working(side) == {i \in DOMAIN order : order[i].open /\ order[i].side = side}
Unfilled == [i \in DOMAIN order |-> order[i].quantity - order[i].filled]

Unbound(side) == {i \in DOMAIN order : ~order[i].bound /\ order[i].side = side}
Quantities == [i \in DOMAIN order |-> order[i].quantity]

(* Whatever has filled and whatever is cancelled, the account never goes    *)
(* beyond what the desk has ever wanted, nor short, neither in what it      *)
(* holds nor in what its working orders may still do: but for the orders    *)
(* with an unknown outcome, which cost at most their own quantity, because  *)
(* their reservations stay (risk_reservations.py, targets.py:520-570).      *)
NeverBeyondTargets ==
  /\ position + Total(Unfilled, Working(1)) <= Largest + Total(Quantities, Unbound(-1))
  /\ position - Total(Unfilled, Working(-1)) >= -Total(Quantities, Unbound(1))

(* An order completes the account to the target of the cycle that places    *)
(* it: with everything at work filled, it holds the target, although        *)
(* reservations and book are read at different times while fills are booked *)
(* (live_session.py:531-532, targets.py:394).                               *)
OrdersCompleteTheTarget ==
  [][Len(order') > Len(order) /\ unknown' = 0 =>
       position' + Total(Unfilled, Working(1))' - Total(Unfilled, Working(-1))' = cycle.target]_vars
=============================================================================
