-------------------------- MODULE PatientExecutor --------------------------
(***************************************************************************)
(* PatientExecutor.execute (execution/patient_executor.py): one parent     *)
(* order to buy, worked as a chain of limit orders at the broker.  Each    *)
(* step polls the child order at work and either stops or moves the limit  *)
(* by cancelling the child and placing another for what is left.           *)
(* Whoever shuts the lane down stops the executor, before, during or after *)
(* the execution, and waits for it to be idle (close).                     *)
(*                                                                         *)
(* Each call to the broker is a step of its own; the broker fills, expires *)
(* and cancels orders, the deadline passes and the operator stops the      *)
(* execution between any two of them.                                      *)
(***************************************************************************)
EXTENDS Totals

CONSTANTS
  Quantity,         \* units of the parent order
  Prices,           \* the limits and fill prices that occur, in ticks
  Budget,           \* max_notional of the controlled envelope
  ConfirmAttempts,  \* CANCEL_CONFIRM_ATTEMPTS
  MaxChildren,      \* bound: children of one execution
  Faults            \* what may go wrong: see Fault

\* down: a call to the broker, the quote or the edge check raises.
\* lost: the broker takes a child, but its placement raises.
\* unlisted: order_status does not find a working child and returns None.
Fault == {"down", "lost", "unlisted"}

ASSUME ExecutorAssumption ==
  /\ Quantity \in Nat \ {0} /\ Budget \in Nat /\ Prices \subseteq Nat
  /\ ConfirmAttempts \in Nat \ {0} /\ MaxChildren \in Nat \ {0}
  /\ Faults \subseteq Fault

VARIABLES
  pc,         \* where _run stands
  child,      \* order_id: the child order it knows of, 0 before the first
  booked,     \* order_filled and the cost of those units: what it has banked of child
  remaining,  \* units left of the parent order, as far as it knows
  spent,      \* filled_notional
  limit,      \* the current limit
  target,     \* new_limit: where a reprice under way moves it
  why,        \* what the cancel under way is for
  attempts,   \* confirmation polls left
  report,     \* status of the ExecutionReport
  order,      \* the broker's orders, numbered as they are placed
  sent,       \* how many there are
  told,       \* the cancel event is set, or the stop event
  closed,     \* close has returned TRUE
  engaged,    \* the kill switch
  expired     \* max_minutes have elapsed

workVars  == <<child, booked, remaining, spent>>
priceVars == <<limit, target>>
brokerVars == <<order, sent>>
signalVars == <<told, closed, engaged, expired>>
vars == <<pc, workVars, priceVars, why, attempts, report, brokerVars, signalVars>>
----------------------------------------------------------------------------
Children == 1 .. MaxChildren
Live     == {"OPEN", "CANCEL_REQUESTED"}
Terminal == {"EXECUTED", "CANCELLED"}   \* CANCELLED: REJECTED and EXPIRED as well
NoOrder  == [quantity |-> 0, limit |-> 0, filled |-> 0, cost |-> 0, status |-> "NONE"]
Nothing  == [filled |-> 0, cost |-> 0]

Outcomes == {"filled", "killed", "edge_decayed", "partial", "timeout"}

TypeOK ==
  /\ pc \in {"idle", "begin", "place", "landed", "wait", "poll", "decide", "cancel",
             "confirm", "abort", "last", "over"}
  /\ child \in 0 .. MaxChildren /\ sent \in 0 .. MaxChildren
  /\ booked \in [filled : 0 .. Quantity, cost : Nat]
  /\ remaining \in 0 .. Quantity /\ spent \in Nat
  /\ limit \in Prices /\ target \in Prices
  /\ why \in {"reprice", "killed", "edge_decayed", "deadline"}
  /\ attempts \in 0 .. ConfirmAttempts
  /\ report \in {"none", "raised", "error"} \cup Outcomes
  /\ order \in [Children -> [quantity : 0 .. Quantity, limit : Prices \cup {0},
                             filled : 0 .. Quantity, cost : Nat,
                             status : {"NONE"} \cup Live \cup Terminal]]
  /\ told \in {"nothing", "cancel", "stop"} /\ closed \in BOOLEAN
  /\ engaged \in BOOLEAN /\ expired \in BOOLEAN

Init ==
  /\ pc = "idle" /\ child = 0 /\ booked = Nothing
  /\ remaining = Quantity /\ spent = 0
  /\ limit \in Prices /\ target = limit
  /\ why = "reprice" /\ attempts = 0 /\ report = "none"
  /\ order = [c \in Children |-> NoOrder] /\ sent = 0
  /\ told = "nothing" /\ closed = FALSE /\ engaged \in BOOLEAN /\ expired = FALSE
----------------------------------------------------------------------------
\* Mutant of Halted: the stop event is not looked at.
SwitchOnly == engaged
Halted == told # "nothing" \/ engaged

Go(place) == pc' = place /\ UNCHANGED report
End(outcome) == pc' = "over" /\ report' = outcome
Abort == Go("abort")

\* Mutant of Execute: a call starts with both events cleared.
ExecuteAfresh ==
  /\ pc = "idle" /\ Go("begin") /\ told' = "nothing"
  /\ UNCHANGED <<workVars, priceVars, why, attempts, brokerVars, closed, engaged, expired>>

(* execute, up to _run: the executor is active, and what was left of a      *)
(* cancellation is cleared.  The stop event stays.                          *)
Execute ==
  /\ pc = "idle" /\ Go("begin")
  /\ told' = IF told = "cancel" THEN "nothing" ELSE told
  /\ UNCHANGED <<workVars, priceVars, why, attempts, brokerVars, closed, engaged, expired>>

(* The arrival quote fixes the first limit (Init); it is fetched outside    *)
(* the try, so that an error there propagates.                              *)
Begin ==
  /\ pc = "begin"
  /\ \/ "down" \in Faults /\ End("raised")
     \/ Halted /\ End("killed")
     \/ ~Halted /\ Go("place")
  /\ UNCHANGED <<workVars, priceVars, why, attempts, brokerVars, signalVars>>

\* Mutant of ChildQuantity: a replacement asks for the whole parent order again.
WholeQuantity == Quantity

\* What _place_child is called with: the units not yet bought.
ChildQuantity == remaining

\* Mutant of Affordable: only the child counts against the envelope.
AffordableAlone == ChildQuantity * limit <= Budget

\* _check_opening_budget: what has been spent and the worst of this child.
Affordable == spent + ChildQuantity * limit <= Budget

\* The broker takes the order.
Accept ==
  /\ sent < MaxChildren /\ sent' = sent + 1
  /\ order' = [order EXCEPT ![sent + 1] =
                 [quantity |-> ChildQuantity, limit |-> limit, filled |-> 0, cost |-> 0,
                  status |-> "OPEN"]]

(* _place_child.  When it raises, order_id still names the child before.    *)
Place ==
  /\ pc = "place"
  /\ \/ Affordable /\ Accept /\ child' = sent' /\ booked' = Nothing /\ Go("landed")
     \/ "lost" \in Faults /\ Affordable /\ Accept /\ Abort /\ UNCHANGED <<child, booked>>
     \/ Abort /\ UNCHANGED <<child, booked, brokerVars>>
  /\ UNCHANGED <<remaining, spent, priceVars, why, attempts, signalVars>>
----------------------------------------------------------------------------
(* _poll: order_status answers with the child's cumulative fill, which is   *)
(* banked, or with None; or it raises.                                      *)

Bank ==
  /\ booked' = [filled |-> order[child].filled, cost |-> order[child].cost]
  /\ remaining' = remaining - (order[child].filled - booked.filled)
  /\ spent' = spent + (order[child].cost - booked.cost)

Raises == "down" \in Faults
Unlisted == "unlisted" \in Faults /\ UNCHANGED <<booked, remaining, spent>>

\* The poll after a placement, and the one of every step.
Poll ==
  /\ pc \in {"landed", "poll"}
  /\ \/ /\ Bank \/ Unlisted
        /\ IF spent' > Budget THEN Abort
           ELSE IF remaining' <= 0 THEN End("filled")
           ELSE Go(IF pc = "landed" THEN "wait" ELSE "decide")
     \/ Raises /\ Abort /\ UNCHANGED <<booked, remaining, spent>>
  /\ UNCHANGED <<child, priceVars, why, attempts, brokerVars, signalVars>>

(* _wait_step, then the stop event and the kill switch.                     *)
Wait ==
  /\ pc = "wait"
  /\ \/ Halted /\ Go("cancel") /\ why' = "killed"
     \/ ~Halted /\ Go("poll") /\ UNCHANGED why
  /\ UNCHANGED <<workVars, priceVars, attempts, report, brokerVars, signalVars>>

(* The edge check, the deadline, and the new limit from a fresh quote.  The *)
(* quote may be anything, and so may the limit between the old one and it.  *)
Decide ==
  /\ pc = "decide"
  /\ \/ Go("cancel") /\ why' = "edge_decayed" /\ UNCHANGED target
     \/ expired /\ Go("cancel") /\ why' = "deadline" /\ UNCHANGED target
     \/ /\ ~expired /\ sent < MaxChildren
        /\ \E p \in Prices \ {limit} : target' = p
        /\ Go("cancel") /\ why' = "reprice"
     \/ ~expired /\ Go("wait") /\ UNCHANGED <<target, why>>
     \/ Raises /\ Abort /\ UNCHANGED <<target, why>>
  /\ UNCHANGED <<workVars, limit, attempts, brokerVars, signalVars>>
----------------------------------------------------------------------------
\* cancel_order: the broker accepts the request, or leaves the order alone.
Request(c) ==
  \/ order[c].status = "OPEN" /\ order' = [order EXCEPT ![c].status = "CANCEL_REQUESTED"]
  \/ UNCHANGED order

\* Mutant of RequestCancel: an execution that is killed does not wait.
RequestAndLeave ==
  /\ pc = "cancel"
  /\ Request(child)
  /\ IF why = "killed" THEN End(why) /\ UNCHANGED attempts
     ELSE Go("confirm") /\ attempts' = ConfirmAttempts
  /\ UNCHANGED <<workVars, priceVars, why, sent, signalVars>>

(* _cancel_confirmed: a request, then polls until the child is over.        *)
RequestCancel ==
  /\ pc = "cancel"
  /\ Request(child)
  /\ \/ Go("confirm") /\ attempts' = ConfirmAttempts
     \/ Raises /\ Abort /\ UNCHANGED attempts
  /\ UNCHANGED <<workVars, priceVars, why, sent, signalVars>>

\* Mutant of Dead: the request is taken for the cancellation.
DeadOnRequest == order[child].status # "OPEN"
Dead == order[child].status \in Terminal

\* The child is over: stop, or place another for what is left.
Confirmed ==
  \/ why \in {"killed", "edge_decayed"} /\ End(why) /\ UNCHANGED limit
  \/ /\ why = "deadline" /\ UNCHANGED limit
     /\ End(IF remaining' < Quantity THEN "partial" ELSE "timeout")
  \/ why = "reprice" /\ remaining' <= 0 /\ End("filled") /\ UNCHANGED limit
  \/ why = "reprice" /\ remaining' > 0 /\ Go("place") /\ limit' = target

Confirm ==
  /\ pc = "confirm"
  /\ \/ Bank /\ spent' <= Budget /\ Dead /\ Confirmed /\ UNCHANGED attempts
     \/ /\ Bank /\ ~(spent' <= Budget /\ Dead)
        /\ attempts' = attempts - 1
        /\ IF spent' > Budget \/ attempts' = 0 THEN Abort ELSE Go("confirm")
        /\ UNCHANGED limit
     \/ Unlisted /\ Confirmed /\ UNCHANGED attempts
     \/ Raises /\ Abort /\ UNCHANGED <<booked, remaining, spent, limit, attempts>>
  /\ UNCHANGED <<child, target, why, brokerVars, signalVars>>

(* The handler of any error: cancel the child it knows of and poll it once, *)
(* both as well as can be.                                                  *)
Pull ==
  /\ pc = "abort"
  /\ IF child = 0 THEN End("error") /\ UNCHANGED order
     ELSE Go("last") /\ Request(child)
  /\ UNCHANGED <<workVars, priceVars, why, attempts, sent, signalVars>>

LastPoll ==
  /\ pc = "last" /\ End("error")
  /\ Bank \/ UNCHANGED <<booked, remaining, spent>>
  /\ UNCHANGED <<child, priceVars, why, attempts, brokerVars, signalVars>>
----------------------------------------------------------------------------
(* The broker, the operator and the clock.                                  *)
OneMore(o, p) ==
  [o EXCEPT !.filled = o.filled + 1, !.cost = o.cost + p,
            !.status = IF o.filled + 1 = o.quantity THEN "EXECUTED" ELSE o.status]

Fill(c) ==
  /\ order[c].status \in Live
  /\ \E p \in Prices :
       p <= order[c].limit /\ order' = [order EXCEPT ![c] = OneMore(order[c], p)]
  /\ UNCHANGED <<pc, workVars, priceVars, why, attempts, report, sent, signalVars>>

Close(c) ==
  /\ order[c].status \in Live
  /\ order' = [order EXCEPT ![c].status = "CANCELLED"]
  /\ UNCHANGED <<pc, workVars, priceVars, why, attempts, report, sent, signalVars>>

\* execute has been called and its finally clause not reached.
Active == pc \notin {"idle", "over"}

\* cancel_current, for the child at work
CancelCurrent ==
  /\ Active /\ told = "nothing" /\ told' = "cancel" /\ UNCHANGED <<closed, engaged, expired>>
Stop == told # "stop" /\ told' = "stop" /\ UNCHANGED <<closed, engaged, expired>>

\* Mutant of Idle: close does not wait.
IdleOrNot == TRUE
Idle == ~Active

\* await_idle in close returns TRUE; it may as well time out.
AwaitIdle ==
  told = "stop" /\ ~closed /\ Idle /\ closed' = TRUE /\ UNCHANGED <<told, engaged, expired>>

Flip == engaged' = ~engaged /\ UNCHANGED <<told, closed, expired>>
Tick == Active /\ ~expired /\ expired' = TRUE /\ UNCHANGED <<told, closed, engaged>>

Signal ==
  /\ CancelCurrent \/ Stop \/ AwaitIdle \/ Flip \/ Tick
  /\ UNCHANGED <<pc, workVars, priceVars, why, attempts, report, brokerVars>>

Run ==
  \/ Begin \/ Place \/ Poll \/ Wait \/ Decide
  \/ RequestCancel \/ Confirm \/ Pull \/ LastPoll

Next == Execute \/ Run \/ (\E c \in Children : Fill(c) \/ Close(c)) \/ Signal

Spec == Init /\ [][Next]_vars

(* The thread in execute runs on: every call it makes has a timeout.        *)
(* Nobody need call execute.                                                *)
FairSpec == Spec /\ WF_vars(Run)
----------------------------------------------------------------------------
FilledUnits == Total([c \in Children |-> order[c].filled], Children)
WorkingUnits ==
  Total([c \in Children |-> IF order[c].status \in Live
                            THEN order[c].quantity - order[c].filled ELSE 0], Children)

(* Cancel and replace never buys more than was ordered: what the children   *)
(* have filled and what they may still fill stays within the parent's       *)
(* quantity, although fills race every cancellation.                        *)
NeverOverfills == FilledUnits + WorkingUnits <= Quantity

(* A report other than an error tells the truth: no child is left working,  *)
(* every fill is in it, and "filled" means that nothing remains.            *)
ReportIsExact ==
  report \in Outcomes =>
    /\ WorkingUnits = 0
    /\ FilledUnits = Quantity - remaining
    /\ report = "filled" => FilledUnits = Quantity

(* The notional authorized for an opening execution bounds what its         *)
(* children have cost and may still cost at their limits, over every        *)
(* reprice.                                                                 *)
WorstCost ==
  Total([c \in Children |->
           order[c].cost + (IF order[c].status \in Live
                            THEN (order[c].quantity - order[c].filled) * order[c].limit ELSE 0)],
        Children)
WithinEnvelope == WorstCost <= Budget

(* An execution that is cancelled or stopped, or whose time is up, ends     *)
(* with a report, whatever the broker answers or does: close need not wait  *)
(* for ever.                                                                *)
EndsWhenTold == Active /\ (told # "nothing" \/ expired) ~> report # "none"

(* Once close has returned TRUE the executor sends no more orders, also     *)
(* when execute is called, or has just been called, by a cycle that does    *)
(* not know (shutdown, live_context.py:178-187).                            *)
QuietAfterClose == [][closed => sent' = sent]_vars

(* The execution implements the parent order it was given.                  *)
Parent == INSTANCE ParentOrder WITH filled <- FilledUnits, working <- WorkingUnits

ImplementsParent == Parent!Spec
=============================================================================
