------------------------------ MODULE DailyLoss ------------------------------
(***************************************************************************)
(* The daily-loss rail (brokers/circuit_breaker.py): DailyLossGate, one    *)
(* object shared by the trading session and the GUI's requests, over       *)
(* DailyLossCircuitBreaker, the audit log and the kill switch.             *)
(*                                                                         *)
(* A call reads the account value and the date, then takes the gate's lock *)
(* to find the start-of-day value and compares the two, which nobody else  *)
(* can see; a breach is recorded and the switch engaged.  The gate's       *)
(* memory dies with the process; the audit log and the switch survive.     *)
(***************************************************************************)
EXTENDS Integers, Sequences

CONSTANTS
  Callers,   \* the threads that consult the gate
  Values,    \* what the account may be worth
  LossNum,   \* limit_pct is LossNum / LossDen
  LossDen,
  LastDay,   \* bounds the calendar
  Faults     \* what may go wrong: see GateFault

\* read:    the audit log cannot be read; the code then goes on without it.
\* capture: the row start_of_day_captured cannot be written.
\* overrun: so for a call that has read its date before midnight.
\* halt:    the row of a breach, or the switch, cannot be written.
GateFault == {"read", "capture", "overrun", "halt"}

ASSUME GateAssumption ==
  /\ Values \subseteq Nat \ {0} /\ LastDay \in Nat \ {0} /\ LossNum \in Nat /\ LossDen \in Nat

VARIABLES
  engaged,   \* the kill switch
  today,     \* the US/Eastern date
  captured,  \* captured[d]: the values of the rows start_of_day_captured for d
  sod,       \* the gate's _sod_date and _sod_value
  call       \* where each caller stands, with the value and date it has read

gateVars == <<engaged, today, captured, sod, call>>
----------------------------------------------------------------------------
Dates   == 1 .. LastDay
NoDate  == 0
NoValue == 0
Outside == [pc |-> "outside", value |-> NoValue, date |-> NoDate]

GateTypeOK ==
  /\ engaged \in BOOLEAN /\ today \in Dates
  /\ captured \in [Dates -> Seq(Values)]
  /\ sod \in [date : Dates \cup {NoDate}, value : Values \cup {NoValue}]
  /\ call \in [Callers -> [pc : {"outside", "observed", "breached", "passed"},
                           value : Values \cup {NoValue}, date : Dates \cup {NoDate}]]

GateInit ==
  /\ engaged = FALSE /\ today = 1
  /\ captured = [d \in Dates |-> <<>>]
  /\ sod = [date |-> NoDate, value |-> NoValue]
  /\ call = [c \in Callers |-> Outside]
----------------------------------------------------------------------------
\* Every caller looks at the switch first (evaluate_once, _pre_trade_checks).
Enter(c) ==
  /\ ~engaged /\ call[c].pc = "outside"
  /\ \E v \in Values : call' = [call EXCEPT ![c] =
       [pc |-> "observed", value |-> v, date |-> today]]
  /\ UNCHANGED <<engaged, today, captured, sod>>

Refuse(c) == call' = [call EXCEPT ![c] = Outside]

\* The gate's memory is of the day that c has read.
Remembered(c) == sod.date = call[c].date /\ sod.value # NoValue

\* Mutant of Persisted: the audit log is not asked.
MemoryOnly(d) == NoValue

\* _persisted_baseline: the newest row for d.
Persisted(d) == IF captured[d] = <<>> THEN NoValue ELSE captured[d][Len(captured[d])]

\* Mutant of Breach: a loss of exactly the limit is no breach.
BreachBeyond(start, value) == (start - value) * LossDen > start * LossNum

\* check: the loss is compared inclusively.
Breach(start, value) == (start - value) * LossDen >= start * LossNum

Compare(c, start) == call' = [call EXCEPT ![c] =
  IF Breach(start, call[c].value) THEN [Outside EXCEPT !.pc = "breached"]
                                  ELSE [call[c] EXCEPT !.pc = "passed"]]

\* The start-of-day value of c's date, under the lock, and the comparison.
Remember(c) ==
  /\ call[c].pc = "observed" /\ Remembered(c) /\ Compare(c, sod.value)
  /\ UNCHANGED <<engaged, today, captured, sod>>

Recover(c) ==
  /\ call[c].pc = "observed" /\ ~Remembered(c) /\ Persisted(call[c].date) # NoValue
  /\ sod' = [date |-> call[c].date, value |-> Persisted(call[c].date)]
  /\ Compare(c, Persisted(call[c].date))
  /\ UNCHANGED <<engaged, today, captured>>

NoRowFound(d) == Persisted(d) = NoValue \/ "read" \in Faults

Capture(c) ==
  /\ call[c].pc = "observed" /\ ~Remembered(c) /\ NoRowFound(call[c].date)
  /\ sod' = [date |-> call[c].date, value |-> call[c].value]
  /\ captured' = [captured EXCEPT ![call[c].date] = Append(@, call[c].value)]
  /\ Compare(c, call[c].value)
  /\ UNCHANGED <<engaged, today>>

\* The value is assigned before the row is written, the date after it.
CaptureFails(c) ==
  /\ call[c].pc = "observed" /\ ~Remembered(c) /\ NoRowFound(call[c].date)
  /\ "capture" \in Faults /\ (call[c].date = today \/ "overrun" \in Faults)
  /\ sod' = [sod EXCEPT !.value = call[c].value] /\ Refuse(c)
  /\ UNCHANGED <<engaged, today, captured>>

\* The row, then the switch; either may fail, and the caller is refused.
Halt(c) ==
  /\ call[c].pc = "breached" /\ Refuse(c)
  /\ engaged' = TRUE \/ ("halt" \in Faults /\ UNCHANGED engaged)
  /\ UNCHANGED <<today, captured, sod>>

\* A caller that has passed goes its way.
Leave(c) ==
  /\ call[c].pc = "passed" /\ Refuse(c)
  /\ UNCHANGED <<engaged, today, captured, sod>>

Consult(c) ==
  Remember(c) \/ Recover(c) \/ Capture(c) \/ CaptureFails(c) \/ Halt(c)

Midnight ==
  /\ today < LastDay /\ today' = today + 1
  /\ UNCHANGED <<engaged, captured, sod, call>>

\* Another rail, or a person, flips the switch.
Flip == engaged' = ~engaged /\ UNCHANGED <<today, captured, sod, call>>

GateRestart ==
  /\ sod' = [date |-> NoDate, value |-> NoValue] /\ call' = [c \in Callers |-> Outside]
  /\ UNCHANGED <<engaged, today, captured>>

GateNext ==
  \/ \E c \in Callers : Enter(c) \/ Consult(c) \/ Leave(c)
  \/ Midnight \/ Flip \/ GateRestart

GateSpec == GateInit /\ [][GateNext]_gateVars
----------------------------------------------------------------------------
(* A day has one start-of-day value, whichever threads ask first, however   *)
(* often the process restarts and whether or not it is past midnight by the *)
(* time they are served (DailyLossGate, circuit_breaker.py:208-235).        *)
OneBaselinePerDay == \A d \in Dates : Len(captured[d]) <= 1

(* Who passes has read a value above the limit of that day's value - also   *)
(* when a person turned the switch off after a breach or it could not be    *)
(* turned on (circuit_breaker.py:118-143).  Not promised with overrun: a call *)
(* from before midnight that fails to write its row after the new day's was  *)
(* captured leaves its value in memory beside the new date, and the rest of  *)
(* that day is measured from it (circuit_breaker.py:227-234).                *)
PassedWithinLimit == \A c \in Callers :
  call[c].pc = "passed" /\ (call[c].date = today \/ "capture" \notin Faults)
    => /\ captured[call[c].date] # <<>>
       /\ LossDen * call[c].value > (LossDen - LossNum) * Head(captured[call[c].date])
=============================================================================
