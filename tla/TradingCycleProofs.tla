-------------------------- MODULE TradingCycleProofs --------------------------
(***************************************************************************)
(* The theorems about TradingCycle, for any targets, any number of orders  *)
(* and any number of unknown outcomes.                                     *)
(*                                                                         *)
(* A cycle that goes on to an order has seen no reservation that it could  *)
(* cancel: every order that its reservation knows is over and booked, and  *)
(* stays so, since nobody else places orders (Quiet).  What it takes for   *)
(* its effective position is then what the account holds, as if every      *)
(* order with an unknown outcome had filled.                               *)
(***************************************************************************)
EXTENDS TradingCycle, TotalsProofs
----------------------------------------------------------------------------
(* The daily-loss gate, for any callers, values, limit and number of days.  *)
(* These theorems assume that the audit log can be read: where it cannot,   *)
(* the code captures a second start of the day (circuit_breaker.py:187-206).*)
(* What a caller compares with is what the gate has in memory, so the       *)
(* invariant says that memory and log agree about today, and about every    *)
(* day unless a capture can fail.                                           *)

(* No day is captured twice, and none that has not begun.                   *)
Captures == \A d \in Dates : Len(captured[d]) <= 1 /\ (captured[d] # <<>> => d <= today)

(* No date in memory or in a caller's hands is in the future.               *)
Observed ==
  /\ sod.date <= today
  /\ \A c \in Callers : call[c].pc \in {"observed", "passed"} =>
       call[c].value \in Values /\ call[c].date \in Dates /\ call[c].date <= today

(* The days that memory and callers are right about.                         *)
Sure(d) == d \in Dates /\ (d = today \/ "capture" \notin Faults)

Memory == Sure(sod.date) => captured[sod.date] # <<>> /\ sod.value = captured[sod.date][1]

Copies == \A c \in Callers : call[c].pc = "passed" /\ Sure(call[c].date) =>
  captured[call[c].date] # <<>> /\ ~Breach(captured[call[c].date][1], call[c].value)

Kept == GateTypeOK /\ Captures /\ Observed

DayInv == Kept /\ ("overrun" \notin Faults => Memory /\ Copies)
----------------------------------------------------------------------------
(* A start of the day is appended where there is none: the log's rows stay. *)
LEMMA NoRow ==
  ASSUME GateTypeOK, NEW d \in Dates, Persisted(d) = NoValue
  PROVE  captured[d] = <<>>
<1>1. SUFFICES ASSUME captured[d] # <<>> PROVE FALSE
  OBVIOUS
<1>2. captured[d] \in Seq(Values) /\ Len(captured[d]) \in 1 .. Len(captured[d])
  BY <1>1 DEF GateTypeOK
<1>3. captured[d][Len(captured[d])] \in Values
  BY <1>2
<1>. QED
  BY <1>1, <1>3, GateAssumption DEF Persisted, NoValue

LEMMA TheRow ==
  ASSUME Kept, NEW d \in Dates, Persisted(d) # NoValue
  PROVE  captured[d] # <<>> /\ Persisted(d) = captured[d][1] /\ captured[d][1] \in Values
<1>1. captured[d] # <<>> /\ captured[d] \in Seq(Values)
  BY DEF Persisted, Kept, GateTypeOK
<1>2. Len(captured[d]) \in Nat /\ Len(captured[d]) # 0
  BY <1>1
<1>3. Len(captured[d]) <= 1
  BY DEF Kept, Captures
<1>4. \A n \in Nat : n # 0 /\ n <= 1 => n = 1
  OBVIOUS
<1>5. Len(captured[d]) = 1
  BY <1>2, <1>3, <1>4
<1>6. captured[d][1] \in Values
  BY <1>1, <1>5
<1>. QED
  BY <1>1, <1>5, <1>6 DEF Persisted

LEMMA DayInit == GateInit => DayInv
<1>. SUFFICES ASSUME GateInit PROVE DayInv
  OBVIOUS
<1>. USE GateAssumption DEF GateInit, Outside, NoDate, NoValue, Dates
<1>1. GateTypeOK
  <2>1. captured \in [Dates -> Seq(Values)]
    OBVIOUS
  <2>2. sod \in [date : Dates \cup {NoDate}, value : Values \cup {NoValue}]
    OBVIOUS
  <2>3. today \in Dates
    OBVIOUS
  <2>4. \A c \in Callers : call[c] = Outside
    OBVIOUS
  <2>5. engaged \in BOOLEAN
    OBVIOUS
  <2>. QED
    BY <2>1, <2>2, <2>3, <2>4, <2>5 DEF GateTypeOK
<1>2. Captures /\ Observed
  BY DEF Captures, Observed
<1>3. Memory /\ Copies
  BY DEF Memory, Copies, Sure
<1>. QED
  BY <1>1, <1>2, <1>3 DEF DayInv, Kept
----------------------------------------------------------------------------
(* A caller that is refused, or that goes its way, changes nothing else     *)
(* than the switch.                                                         *)
LEMMA TypeOfRefusal ==
  ASSUME GateTypeOK, NEW c \in Callers, Refuse(c), UNCHANGED <<engaged, today, captured>>,
         sod' \in [date : Dates \cup {NoDate}, value : Values \cup {NoValue}]
  PROVE  GateTypeOK'
BY DEF GateTypeOK, Refuse, Outside, NoDate, NoValue

(* A comparison ends with the caller past the gate, or in a breach.         *)
LEMMA Compared ==
  ASSUME NEW c \in Callers, NEW start, Compare(c, start)
  PROVE  \/ /\ Breach(start, call[c].value)
            /\ call' = [call EXCEPT ![c] = [Outside EXCEPT !.pc = "breached"]]
         \/ /\ ~Breach(start, call[c].value)
            /\ call' = [call EXCEPT ![c] = [call[c] EXCEPT !.pc = "passed"]]
BY DEF Compare

LEMMA TypeOfComparison ==
  ASSUME GateTypeOK, NEW c \in Callers, NEW start, Compare(c, start),
         UNCHANGED <<engaged, today>>, captured' \in [Dates -> Seq(Values)],
         sod' \in [date : Dates \cup {NoDate}, value : Values \cup {NoValue}]
  PROVE  GateTypeOK'
<1>. DEFINE Rows == [pc : {"outside", "observed", "breached", "passed"},
                     value : Values \cup {NoValue}, date : Dates \cup {NoDate}]
            lost == [Outside EXCEPT !.pc = "breached"]
            fine == [call[c] EXCEPT !.pc = "passed"]
<1>1. call \in [Callers -> Rows] /\ engaged \in BOOLEAN /\ today \in Dates
  BY DEF GateTypeOK
<1>2. lost \in Rows
  BY DEF Outside, NoDate, NoValue
<1>3. fine \in Rows
  <2>1. call[c] \in Rows
    BY <1>1
  <2>. QED
    BY <2>1
<1>4. call' = [call EXCEPT ![c] = lost] \/ call' = [call EXCEPT ![c] = fine]
  BY Compared
<1>5. call' \in [Callers -> Rows]
  <2>. HIDE DEF lost, fine, Rows
  <2>. QED
    BY <1>1, <1>2, <1>3, <1>4
<1>. QED
  BY <1>1, <1>5 DEF GateTypeOK

(* What a comparison does not touch.                                        *)
LEMMA CallsAfterComparison ==
  ASSUME GateTypeOK, NEW c \in Callers, NEW start, Compare(c, start)
  PROVE  /\ \A x \in Callers \ {c} : call'[x] = call[x]
         /\ call'[c].pc \in {"breached", "passed"}
         /\ call'[c].pc = "passed" =>
              /\ call'[c].value = call[c].value /\ call'[c].date = call[c].date
              /\ ~Breach(start, call[c].value)
<1>1. CASE /\ Breach(start, call[c].value)
           /\ call' = [call EXCEPT ![c] = [Outside EXCEPT !.pc = "breached"]]
  BY <1>1 DEF Outside, GateTypeOK
<1>2. CASE /\ ~Breach(start, call[c].value)
           /\ call' = [call EXCEPT ![c] = [call[c] EXCEPT !.pc = "passed"]]
  BY <1>2 DEF GateTypeOK
<1>. QED
  BY <1>1, <1>2, Compared

(* A caller that is refused, or that goes its way, changes nothing else     *)
(* than the switch.                                                         *)
LEMMA OnlyCall ==
  ASSUME NEW c \in Callers, Halt(c) \/ Leave(c)
  PROVE  /\ UNCHANGED <<today, captured, sod>> /\ engaged' \in {TRUE, engaged}
         /\ Refuse(c)
<1>1. CASE Halt(c)
  BY <1>1 DEF Halt
<1>2. CASE Leave(c)
  BY <1>2 DEF Leave
<1>. QED
  BY <1>1, <1>2

(* What is kept whatever fails, but for the reading of the log.             *)
LEMMA KeptStep ==
  ASSUME Kept, [GateNext]_gateVars, "read" \notin Faults
  PROVE  Kept'
<1>. USE DEF NoDate, NoValue, Dates
<1>1. GateTypeOK /\ Captures /\ Observed
  BY DEF Kept
<1>2. ASSUME NEW c \in Callers, Enter(c) PROVE Kept'
  <2>1. GateTypeOK'
    BY <1>1, <1>2 DEF Enter, GateTypeOK
  <2>2. (Captures /\ Observed)'
    BY <1>1, <1>2 DEF Enter, Captures, Observed, GateTypeOK
  <2>. QED
    BY <2>1, <2>2 DEF Kept
<1>3. ASSUME NEW c \in Callers, Remember(c) PROVE Kept'
  <2>1. Compare(c, sod.value) /\ UNCHANGED <<engaged, today, captured, sod>>
    BY <1>3 DEF Remember
  <2>2. GateTypeOK'
    <3>1. captured' \in [Dates -> Seq(Values)]
      BY <1>1, <2>1 DEF GateTypeOK
    <3>2. sod' \in [date : Dates \cup {NoDate}, value : Values \cup {NoValue}]
      BY <1>1, <2>1 DEF GateTypeOK
    <3>. QED
      BY <1>1, <2>1, <3>1, <3>2, TypeOfComparison
  <2>3. (Captures /\ Observed)'
    BY <1>1, <1>3, <2>1, CallsAfterComparison DEF Remember, Captures, Observed
  <2>. QED
    BY <2>2, <2>3 DEF Kept
<1>4. ASSUME NEW c \in Callers, Recover(c) PROVE Kept'
  <2>. DEFINE d == call[c].date
  <2>1. d \in Dates /\ d <= today /\ Persisted(d) \in Values
    BY <1>1, <1>4, TheRow DEF Recover, Observed, Kept
  <2>2. Compare(c, Persisted(d)) /\ UNCHANGED <<engaged, today, captured>>
    BY <1>4 DEF Recover
  <2>3. GateTypeOK'
    <3>1. captured' \in [Dates -> Seq(Values)]
      BY <1>1, <2>2 DEF GateTypeOK
    <3>2. sod' \in [date : Dates \cup {NoDate}, value : Values \cup {NoValue}]
      BY <1>4, <2>1 DEF Recover
    <3>. QED
      BY <1>1, <2>2, <3>1, <3>2, TypeOfComparison
  <2>4. sod'.date = d
    BY <1>4 DEF Recover
  <2>5. (Captures /\ Observed)'
    BY <1>1, <1>4, <2>1, <2>2, <2>4, CallsAfterComparison DEF Recover, Captures, Observed
  <2>. QED
    BY <2>3, <2>5 DEF Kept
<1>5. ASSUME NEW c \in Callers, Capture(c) PROVE Kept'
  <2>. DEFINE d == call[c].date
  <2>1. d \in Dates /\ call[c].value \in Values /\ d <= today
    BY <1>1, <1>5 DEF Capture, Observed
  <2>2. captured[d] = <<>>
    BY <1>1, <1>5, <2>1, NoRow, "read" \notin Faults DEF Capture, NoRowFound
  <2>3. captured' = [captured EXCEPT ![d] = <<call[c].value>>]
    BY <1>5, <2>2 DEF Capture
  <2>4. Compare(c, call[c].value) /\ UNCHANGED <<engaged, today>> /\ sod'.date = d
    BY <1>5 DEF Capture
  <2>5. GateTypeOK'
    <3>1. captured' \in [Dates -> Seq(Values)]
      BY <1>1, <2>1, <2>3 DEF GateTypeOK
    <3>2. sod' \in [date : Dates \cup {NoDate}, value : Values \cup {NoValue}]
      BY <1>5, <2>1 DEF Capture
    <3>. QED
      BY <1>1, <2>4, <3>1, <3>2, TypeOfComparison
  <2>6. Captures'
    BY <1>1, <2>1, <2>3, <2>4 DEF Captures, GateTypeOK
  <2>7. Observed'
    BY <1>1, <1>5, <2>1, <2>4, CallsAfterComparison DEF Capture, Observed
  <2>. QED
    BY <2>5, <2>6, <2>7 DEF Kept
<1>6. ASSUME NEW c \in Callers, CaptureFails(c) PROVE Kept'
  <2>1. GateTypeOK'
    <3>1. call[c].value \in Values
      BY <1>1, <1>6 DEF CaptureFails, Observed
    <3>2. sod' \in [date : Dates \cup {NoDate}, value : Values \cup {NoValue}]
      BY <1>1, <1>6, <3>1 DEF CaptureFails, GateTypeOK
    <3>3. Refuse(c) /\ UNCHANGED <<engaged, today, captured>>
      BY <1>6 DEF CaptureFails
    <3>. QED
      BY <1>1, <3>2, <3>3, TypeOfRefusal
  <2>2. (Captures /\ Observed)'
    BY <1>1, <1>6 DEF CaptureFails, Refuse, Outside, Captures, Observed, GateTypeOK
  <2>. QED
    BY <2>1, <2>2 DEF Kept
<1>8. ASSUME NEW c \in Callers, Halt(c) \/ Leave(c) PROVE Kept'
  <2>1. /\ UNCHANGED <<today, captured, sod>> /\ engaged' \in {TRUE, engaged}
        /\ call' = [call EXCEPT ![c] = Outside]
    BY <1>8, OnlyCall DEF Refuse
  <2>2. GateTypeOK'
    <3>1. UNCHANGED <<today, captured, sod>> /\ engaged' \in BOOLEAN
      BY <1>1, <2>1 DEF GateTypeOK
    <3>. QED
      BY <1>1, <2>1, <3>1 DEF Outside, GateTypeOK
  <2>3. (Captures /\ Observed)'
    BY <1>1, <2>1 DEF Outside, Captures, Observed, GateTypeOK
  <2>. QED
    BY <2>2, <2>3 DEF Kept
<1>9. CASE Midnight
  <2>1. GateTypeOK'
    BY <1>1, <1>9, GateAssumption DEF Midnight, GateTypeOK
  <2>2. (Captures /\ Observed)'
    BY <1>1, <1>9, GateAssumption DEF Midnight, Captures, Observed, GateTypeOK
  <2>. QED
    BY <2>1, <2>2 DEF Kept
<1>10. CASE Flip \/ UNCHANGED gateVars
  <2>1. UNCHANGED <<today, captured, sod, call>> /\ engaged' \in BOOLEAN
    BY <1>1, <1>10 DEF Flip, gateVars, GateTypeOK
  <2>. QED
    BY <1>1, <2>1 DEF GateTypeOK, Captures, Observed, Kept
<1>11. CASE GateRestart
  <2>1. GateTypeOK'
    BY <1>1, <1>11 DEF GateRestart, Outside, GateTypeOK
  <2>2. (Captures /\ Observed)'
    BY <1>1, <1>11 DEF GateRestart, Outside, Captures, Observed, GateTypeOK
  <2>. QED
    BY <2>1, <2>2 DEF Kept
<1>. QED
  BY <1>2, <1>3, <1>4, <1>5, <1>6, <1>8, <1>9, <1>10, <1>11 DEF GateNext, Consult
----------------------------------------------------------------------------
(* Memory and copies: a copy is taken from memory or from the log, and a    *)
(* capture that fails spoils the memory of a past day only.                 *)
LEMMA CopiesStep ==
  ASSUME Kept, Memory, Copies, [GateNext]_gateVars,
         "read" \notin Faults, "overrun" \notin Faults
  PROVE  (Memory /\ Copies)'
<1>. USE DEF NoDate, NoValue, Dates
<1>1. GateTypeOK /\ Captures /\ Observed
  BY DEF Kept
<1>2. ASSUME NEW c \in Callers, Enter(c) PROVE (Memory /\ Copies)'
  BY <1>1, <1>2 DEF Enter, Memory, Copies, Sure, GateTypeOK
<1>3. ASSUME NEW c \in Callers, Remember(c) PROVE (Memory /\ Copies)'
  <2>1. /\ Compare(c, sod.value) /\ UNCHANGED <<today, captured, sod>>
        /\ sod.date = call[c].date
    BY <1>3 DEF Remember, Remembered
  <2>2. Memory'
    BY <2>1 DEF Memory, Sure
  <2>3. Copies'
    BY <1>1, <2>1, CallsAfterComparison DEF Memory, Copies, Sure
  <2>. QED
    BY <2>2, <2>3
<1>4. ASSUME NEW c \in Callers, Recover(c) PROVE (Memory /\ Copies)'
  <2>. DEFINE d == call[c].date
  <2>1. captured[d] # <<>> /\ Persisted(d) = captured[d][1]
    BY <1>1, <1>4, TheRow DEF Recover, Observed
  <2>2. /\ Compare(c, Persisted(d)) /\ UNCHANGED <<today, captured>>
        /\ sod'.date = d /\ sod'.value = Persisted(d)
    BY <1>4 DEF Recover
  <2>3. Memory'
    BY <2>1, <2>2 DEF Memory
  <2>4. Copies'
    BY <1>1, <2>1, <2>2, CallsAfterComparison DEF Copies, Sure
  <2>. QED
    BY <2>3, <2>4
<1>5. ASSUME NEW c \in Callers, Capture(c) PROVE (Memory /\ Copies)'
  <2>. DEFINE d == call[c].date
  <2>1. d \in Dates /\ call[c].value \in Values
    BY <1>1, <1>5 DEF Capture, Observed
  <2>2. captured[d] = <<>>
    BY <1>1, <1>5, <2>1, NoRow, "read" \notin Faults DEF Capture, NoRowFound
  <2>3. captured' = [captured EXCEPT ![d] = <<call[c].value>>]
    BY <1>5, <2>2 DEF Capture
  <2>4. /\ Compare(c, call[c].value) /\ UNCHANGED today
        /\ sod'.date = d /\ sod'.value = call[c].value
    BY <1>5 DEF Capture
  <2>5. /\ captured'[d] = <<call[c].value>>
        /\ \A e \in Dates \ {d} : captured'[e] = captured[e]
    BY <1>1, <2>1, <2>3 DEF GateTypeOK
  <2>6. captured'[d] # <<>> /\ captured'[d][1] = call[c].value
    BY <2>5
  <2>7. Memory'
    BY <2>4, <2>6 DEF Memory
  <2>8. Copies'
    <3>1. SUFFICES ASSUME NEW x \in Callers, call'[x].pc = "passed", Sure(call[x].date)'
                   PROVE  /\ captured'[call'[x].date] # <<>>
                          /\ ~Breach(captured'[call'[x].date][1], call'[x].value)
      BY DEF Copies, Breach
    <3>2. CASE x = c
      BY <1>1, <2>4, <2>6, <3>1, <3>2, CallsAfterComparison
    <3>3. CASE x # c
      <4>1. call'[x] = call[x] /\ Sure(call[x].date)
        BY <1>1, <2>4, <3>1, <3>3, CallsAfterComparison DEF Sure
      <4>2. /\ captured[call[x].date] # <<>>
            /\ ~Breach(captured[call[x].date][1], call[x].value)
        BY <3>1, <4>1 DEF Copies
      <4>3. captured'[call[x].date] = captured[call[x].date]
        BY <2>2, <2>5, <4>1, <4>2 DEF Sure
      <4>. QED
        BY <4>1, <4>2, <4>3
    <3>. QED
      BY <3>2, <3>3
  <2>. QED
    BY <2>7, <2>8
<1>6. ASSUME NEW c \in Callers, CaptureFails(c) PROVE (Memory /\ Copies)'
  <2>1. call[c].date = today /\ "capture" \in Faults
    BY <1>6, "overrun" \notin Faults DEF CaptureFails
  <2>2. sod.date # today
    BY <1>1, <1>6, <2>1, GateAssumption DEF CaptureFails, Remembered, Memory, Sure, Captures, GateTypeOK
  <2>. QED
    BY <1>1, <1>6, <2>1, <2>2
    DEF CaptureFails, Refuse, Outside, Memory, Copies, Sure, GateTypeOK
<1>8. ASSUME NEW c \in Callers, Halt(c) \/ Leave(c) PROVE (Memory /\ Copies)'
  <2>1. UNCHANGED <<today, captured, sod>> /\ call' = [call EXCEPT ![c] = Outside]
    BY <1>8, OnlyCall DEF Refuse
  <2>2. Memory'
    BY <2>1 DEF Memory, Sure
  <2>3. Copies'
    BY <1>1, <2>1 DEF Outside, Copies, Sure, GateTypeOK
  <2>. QED
    BY <2>2, <2>3
<1>9. CASE Midnight
  <2>1. \A d \in Dates : captured[d] # <<>> => d # today'
    BY <1>1, <1>9 DEF Midnight, Captures, GateTypeOK
  <2>2. \A c \in Callers : call[c].pc = "passed" => call[c].date # today'
    BY <1>1, <1>9 DEF Midnight, Observed, GateTypeOK
  <2>3. sod.date # today'
    BY <1>1, <1>9 DEF Midnight, Observed, GateTypeOK
  <2>4. Memory'
    BY <1>9, <2>3 DEF Midnight, Memory, Sure
  <2>5. Copies'
    BY <1>1, <1>9, <2>2 DEF Midnight, Copies, Sure
  <2>. QED
    BY <2>4, <2>5
<1>10. CASE Flip \/ UNCHANGED gateVars
  <2>1. UNCHANGED <<today, captured, sod, call>>
    BY <1>10 DEF Flip, gateVars
  <2>. QED
    BY <2>1 DEF Memory, Copies, Sure
<1>11. CASE GateRestart
  <2>1. Memory'
    BY <1>11 DEF GateRestart, Memory, Sure
  <2>2. Copies'
    BY <1>11 DEF GateRestart, Outside, Copies
  <2>. QED
    BY <2>1, <2>2
<1>. QED
  BY <1>2, <1>3, <1>4, <1>5, <1>6, <1>8, <1>9, <1>10, <1>11 DEF GateNext, Consult
----------------------------------------------------------------------------
LEMMA DayInvariant ==
  ASSUME "read" \notin Faults
  PROVE  GateSpec => []DayInv
<1>1. DayInv /\ [GateNext]_gateVars => DayInv'
  BY KeptStep, CopiesStep DEF DayInv
<1>. QED
  BY <1>1, DayInit, PTL DEF GateSpec

(* However many threads ask at once, however often the process restarts and *)
(* captures fail, a day has one start-of-day value (circuit_breaker.py:     *)
(* 208-235).                                                                *)
THEOREM OneBaseline ==
  ASSUME "read" \notin Faults
  PROVE  GateSpec => []OneBaselinePerDay
<1>1. DayInv => OneBaselinePerDay
  BY DEF DayInv, Kept, Captures, OneBaselinePerDay
<1>. QED
  BY <1>1, DayInvariant, PTL

LEMMA Passing ==
  ASSUME DayInv, "overrun" \notin Faults
  PROVE  PassedWithinLimit
<1>1. SUFFICES ASSUME NEW c \in Callers, call[c].pc = "passed",
                      call[c].date = today \/ "capture" \notin Faults
               PROVE  /\ captured[call[c].date] # <<>>
                      /\ LossDen * call[c].value
                           > (LossDen - LossNum) * Head(captured[call[c].date])
  BY DEF PassedWithinLimit
<1>. DEFINE d == call[c].date
            s == captured[d][1]
            v == call[c].value
<1>2. d \in Dates /\ v \in Values
  BY <1>1 DEF DayInv, Kept, Observed
<1>3. captured[d] # <<>> /\ ~Breach(s, v)
  BY <1>1, <1>2 DEF DayInv, Copies, Sure
<1>4. captured[d] \in Seq(Values)
  BY <1>2 DEF DayInv, Kept, GateTypeOK
<1>5. Head(captured[d]) = s
  BY <1>3, <1>4
<1>6. s \in Values
  BY <1>3, <1>4
<1>7. s \in Int /\ v \in Int /\ LossDen \in Int /\ LossNum \in Int
  <2>1. Values \subseteq Int
    BY GateAssumption
  <2>2. LossDen \in Int /\ LossNum \in Int
    BY GateAssumption
  <2>. QED
    BY <1>2, <1>6, <2>1, <2>2
<1>8. ~((s - v) * LossDen >= s * LossNum)
  BY <1>3 DEF Breach
<1>9. \A a, b, x, y \in Int : ~((a - b) * x >= a * y) => x * b > (x - y) * a
  OBVIOUS
<1>10. LossDen * v > (LossDen - LossNum) * s
  BY <1>7, <1>8, <1>9
<1>. QED
  BY <1>3, <1>5, <1>10

(* Who passes has compared with the day's value in the log and is above the *)
(* limit, for any limit and any values (circuit_breaker.py:118-143).        *)
THEOREM LossLimit ==
  ASSUME "read" \notin Faults, "overrun" \notin Faults
  PROVE  GateSpec => []PassedWithinLimit
<1>1. DayInv => PassedWithinLimit
  BY Passing
<1>. QED
  BY <1>1, DayInvariant, PTL
----------------------------------------------------------------------------
(* The orders of a cycle.                                                   *)

(* Of the orders in a: those of a side, what each may still fill, what the  *)
(* book has not got of it, and what it may not have got in the end.         *)
On(a, s)    == {i \in DOMAIN a : a[i].side = s}
NotBound(a, s) == {i \in DOMAIN a : ~a[i].bound /\ a[i].side = s}
Rest(a)     == [i \in DOMAIN a |-> IF a[i].open THEN a[i].quantity - a[i].filled ELSE 0]
Ahead(a)    == [i \in DOMAIN a |-> a[i].filled - a[i].booked]
Reach(a)    == [i \in DOMAIN a |-> (IF a[i].open THEN a[i].quantity ELSE a[i].filled) - a[i].booked]
Asked(a)    == [i \in DOMAIN a |-> a[i].quantity]

(* An order that makes sense.                                               *)
Sane(o) ==
  /\ o.booked <= o.filled /\ o.filled <= o.quantity /\ o.ledgered <= o.booked
  /\ o.open => o.filled < o.quantity
  /\ ~o.active => ~o.open /\ o.ledgered = o.filled /\ o.bound
  /\ ~o.bound => o.booked = 0 /\ o.ledgered = 0

Book == {o \in Orders : Sane(o)}

Settled(o) == ~o.open /\ o.booked = o.filled
----------------------------------------------------------------------------
(* What a total over the orders of a side becomes.                          *)
LEMMA SideFinite ==
  ASSUME NEW a \in Seq(Book), NEW s
  PROVE  IsFiniteSet(On(a, s)) /\ IsFiniteSet(NotBound(a, s)) /\ IsFiniteSet(DOMAIN a)
<1>1. DOMAIN a = 1 .. Len(a) /\ Len(a) \in Nat
  OBVIOUS
<1>2. IsFiniteSet(1 .. Len(a))
  BY <1>1, FS_Interval
<1>3. On(a, s) \subseteq DOMAIN a /\ NotBound(a, s) \subseteq DOMAIN a
  BY DEF On, NotBound
<1>. QED
  BY <1>1, <1>2, <1>3, FS_Subset

(* Keys that add nothing can be left out.                                   *)
LEMMA TotalSupport ==
  ASSUME NEW S, NEW R \in SUBSET S, NEW f, \A x \in S \ R : f[x] = 0
  PROVE  Total(f, S) = Total(f, R)
<1>1. \A x \in S \ R : {x} \X (1 .. f[x]) = {}
  OBVIOUS
<1>2. UnitsOf(f, S) = UnitsOf(f, R)
  BY <1>1 DEF UnitsOf
<1>. QED
  BY <1>2 DEF Total

(* One key's amount changes.                                                *)
LEMMA TotalChange ==
  ASSUME NEW S, IsFiniteSet(S), NEW f, NEW g, NEW x, x \in S,
         \A y \in S : f[y] \in Nat /\ g[y] \in Nat /\ (y # x => f[y] = g[y])
  PROVE  Total(g, S) = Total(f, S) + g[x] - f[x]
<1>1. Total(f, S) = Total(f, S \ {x}) + f[x]
  BY TotalSplit
<1>2. Total(g, S) = Total(g, S \ {x}) + g[x]
  BY TotalSplit
<1>3. Total(f, S \ {x}) = Total(g, S \ {x})
  BY TotalAgree
<1>4. Total(f, S \ {x}) \in Nat /\ f[x] \in Nat /\ g[x] \in Nat
  <2>1. IsFiniteSet(S \ {x})
    BY FS_RemoveElement
  <2>. QED
    BY <2>1, TotalType
<1>. QED
  BY <1>1, <1>2, <1>3, <1>4

(* A key is added.                                                          *)
LEMMA TotalAdd ==
  ASSUME NEW S, IsFiniteSet(S), NEW f, NEW g, NEW x, x \notin S,
         \A y \in S : f[y] \in Nat /\ g[y] = f[y], g[x] \in Nat
  PROVE  Total(g, S \cup {x}) = Total(f, S) + g[x]
<1>1. IsFiniteSet(S \cup {x})
  BY FS_AddElement
<1>2. Total(g, S \cup {x}) = Total(g, (S \cup {x}) \ {x}) + g[x]
  BY <1>1, TotalSplit
<1>3. (S \cup {x}) \ {x} = S
  OBVIOUS
<1>4. Total(g, S) = Total(f, S)
  BY TotalAgree
<1>. QED
  BY <1>2, <1>3, <1>4

LEMMA Amounts ==
  ASSUME NEW a \in Seq(Book), NEW i \in DOMAIN a
  PROVE  /\ Rest(a)[i] \in Nat /\ Ahead(a)[i] \in Nat /\ Reach(a)[i] \in Nat /\ Asked(a)[i] \in Nat
         /\ Ahead(a)[i] <= Asked(a)[i] /\ Reach(a)[i] <= Asked(a)[i]
         /\ a[i] \in Book
<1>1. a[i] \in Book
  OBVIOUS
<1>2. /\ a[i].filled \in Nat /\ a[i].booked \in Nat /\ a[i].quantity \in Nat
      /\ a[i].booked <= a[i].filled /\ a[i].filled <= a[i].quantity
  BY <1>1 DEF Book, Orders, Sane
<1>3. a[i].quantity - a[i].filled \in Nat /\ a[i].filled - a[i].booked \in Nat
      /\ a[i].quantity - a[i].booked \in Nat
      /\ a[i].filled - a[i].booked <= a[i].quantity /\ a[i].quantity - a[i].booked <= a[i].quantity
  BY <1>2
<1>4. CASE a[i].open
  BY <1>1, <1>2, <1>3, <1>4 DEF Rest, Ahead, Reach, Asked
<1>5. CASE ~a[i].open
  BY <1>1, <1>2, <1>3, <1>5 DEF Rest, Ahead, Reach, Asked
<1>. QED
  BY <1>4, <1>5

(* What one order can do: fill, end, be booked.                             *)
Progress(old, new) ==
  /\ new.side = old.side /\ new.quantity = old.quantity /\ new.bound = old.bound
  /\ new.filled >= old.filled
  /\ ~old.open => ~new.open /\ new.filled = old.filled

Replaces(a, i, o, b) ==
  /\ a \in Seq(Book) /\ i \in DOMAIN a /\ o \in Book /\ Progress(a[i], o)
  /\ b = [a EXCEPT ![i] = o]

(* Only the totals of its side change, by its amounts.                      *)
LEMMA Replaced ==
  ASSUME NEW a, NEW i, NEW o, NEW b, NEW s, Replaces(a, i, o, b)
  PROVE  /\ b \in Seq(Book) /\ On(b, s) = On(a, s)
         /\ a[i].side = s =>
              /\ Total(Rest(b), On(b, s)) = Total(Rest(a), On(a, s)) + Rest(b)[i] - Rest(a)[i]
              /\ Total(Ahead(b), On(b, s)) = Total(Ahead(a), On(a, s)) + Ahead(b)[i] - Ahead(a)[i]
              /\ Total(Reach(b), On(b, s)) = Total(Reach(a), On(a, s)) + Reach(b)[i] - Reach(a)[i]
         /\ a[i].side # s =>
              /\ Total(Rest(b), On(b, s)) = Total(Rest(a), On(a, s))
              /\ Total(Ahead(b), On(b, s)) = Total(Ahead(a), On(a, s))
              /\ Total(Reach(b), On(b, s)) = Total(Reach(a), On(a, s))
<1>0. a \in Seq(Book) /\ i \in DOMAIN a /\ o \in Book
  BY DEF Replaces
<1>1. b \in Seq(Book) /\ DOMAIN b = DOMAIN a /\ b[i] = o
  BY DEF Replaces
<1>2. /\ \A j \in DOMAIN a \ {i} : b[j] = a[j]
      /\ b[i].side = a[i].side /\ b[i].quantity = a[i].quantity /\ b[i].bound = a[i].bound
  BY <1>1 DEF Replaces, Progress
<1>3. On(b, s) = On(a, s)
  BY <1>1, <1>2 DEF On
<1>5. \A j \in On(a, s) \ {i} :
        Rest(b)[j] = Rest(a)[j] /\ Ahead(b)[j] = Ahead(a)[j] /\ Reach(b)[j] = Reach(a)[j]
  BY <1>1, <1>2 DEF On, Rest, Ahead, Reach
<1>6. \A j \in On(a, s) :
        /\ Rest(a)[j] \in Nat /\ Ahead(a)[j] \in Nat /\ Reach(a)[j] \in Nat
        /\ Rest(b)[j] \in Nat /\ Ahead(b)[j] \in Nat /\ Reach(b)[j] \in Nat
  BY <1>0, <1>1, Amounts DEF On
<1>7. IsFiniteSet(On(a, s))
  BY <1>0, SideFinite
<1>8. ASSUME a[i].side = s
      PROVE  /\ Total(Rest(b), On(a, s)) = Total(Rest(a), On(a, s)) + Rest(b)[i] - Rest(a)[i]
             /\ Total(Ahead(b), On(a, s)) = Total(Ahead(a), On(a, s)) + Ahead(b)[i] - Ahead(a)[i]
             /\ Total(Reach(b), On(a, s)) = Total(Reach(a), On(a, s)) + Reach(b)[i] - Reach(a)[i]
  <2>1. i \in On(a, s)
    BY <1>0, <1>8 DEF On
  <2>2. Total(Rest(b), On(a, s)) = Total(Rest(a), On(a, s)) + Rest(b)[i] - Rest(a)[i]
    <3>. DEFINE f == Rest(a)
                g == Rest(b)
                S == On(a, s)
                x == i
    <3>1. /\ \A j \in S : f[j] \in Nat /\ g[j] \in Nat /\ (j # x => f[j] = g[j])
          /\ IsFiniteSet(S) /\ x \in S
      BY <1>5, <1>6, <1>7, <2>1
    <3>. HIDE DEF f, g, S, x
    <3>2. Total(g, S) = Total(f, S) + g[x] - f[x]
      BY <3>1, TotalChange
    <3>. QED
      BY <3>2 DEF f, g, S, x
  <2>3. Total(Ahead(b), On(a, s)) = Total(Ahead(a), On(a, s)) + Ahead(b)[i] - Ahead(a)[i]
    <3>. DEFINE f == Ahead(a)
                g == Ahead(b)
                S == On(a, s)
                x == i
    <3>1. /\ \A j \in S : f[j] \in Nat /\ g[j] \in Nat /\ (j # x => f[j] = g[j])
          /\ IsFiniteSet(S) /\ x \in S
      BY <1>5, <1>6, <1>7, <2>1
    <3>. HIDE DEF f, g, S, x
    <3>2. Total(g, S) = Total(f, S) + g[x] - f[x]
      BY <3>1, TotalChange
    <3>. QED
      BY <3>2 DEF f, g, S, x
  <2>4. Total(Reach(b), On(a, s)) = Total(Reach(a), On(a, s)) + Reach(b)[i] - Reach(a)[i]
    <3>. DEFINE f == Reach(a)
                g == Reach(b)
                S == On(a, s)
                x == i
    <3>1. /\ \A j \in S : f[j] \in Nat /\ g[j] \in Nat /\ (j # x => f[j] = g[j])
          /\ IsFiniteSet(S) /\ x \in S
      BY <1>5, <1>6, <1>7, <2>1
    <3>. HIDE DEF f, g, S, x
    <3>2. Total(g, S) = Total(f, S) + g[x] - f[x]
      BY <3>1, TotalChange
    <3>. QED
      BY <3>2 DEF f, g, S, x
  <2>. QED
    BY <2>2, <2>3, <2>4
<1>9. ASSUME a[i].side # s
      PROVE  /\ Total(Rest(b), On(a, s)) = Total(Rest(a), On(a, s))
             /\ Total(Ahead(b), On(a, s)) = Total(Ahead(a), On(a, s))
             /\ Total(Reach(b), On(a, s)) = Total(Reach(a), On(a, s))
  <2>1. i \notin On(a, s)
    BY <1>9 DEF On
  <2>. QED
    BY <2>1, <1>5, TotalAgree
<1>. QED
  BY <1>1, <1>3, <1>8, <1>9

LEMMA TotalsAreNumbers ==
  ASSUME NEW a \in Seq(Book), NEW s
  PROVE  /\ Total(Rest(a), On(a, s)) \in Nat /\ Total(Ahead(a), On(a, s)) \in Nat
         /\ Total(Reach(a), On(a, s)) \in Nat /\ Total(Asked(a), NotBound(a, s)) \in Nat
<1>1. IsFiniteSet(On(a, s)) /\ IsFiniteSet(NotBound(a, s))
  BY SideFinite
<1>2. \A j \in On(a, s) : Rest(a)[j] \in Nat /\ Ahead(a)[j] \in Nat /\ Reach(a)[j] \in Nat
  BY Amounts DEF On
<1>3. \A j \in NotBound(a, s) : Asked(a)[j] \in Nat
  BY Amounts DEF NotBound
<1>. QED
  BY <1>1, <1>2, <1>3, TotalType

(* An order is placed.                                                      *)
Appends(a, o, b) == a \in Seq(Book) /\ o \in Book /\ b = Append(a, o)

LEMMA NewOrder ==
  ASSUME NEW a, NEW o, NEW b, NEW s, Appends(a, o, b), o.open, o.filled = 0, o.booked = 0
  PROVE  /\ o.side = s =>
              /\ Total(Rest(b), On(b, s)) = Total(Rest(a), On(a, s)) + o.quantity
              /\ Total(Ahead(b), On(b, s)) = Total(Ahead(a), On(a, s))
              /\ Total(Reach(b), On(b, s)) = Total(Reach(a), On(a, s)) + o.quantity
         /\ o.side # s =>
              /\ Total(Rest(b), On(b, s)) = Total(Rest(a), On(a, s))
              /\ Total(Ahead(b), On(b, s)) = Total(Ahead(a), On(a, s))
              /\ Total(Reach(b), On(b, s)) = Total(Reach(a), On(a, s))
         /\ Total(Asked(a), NotBound(a, s)) <= Total(Asked(b), NotBound(b, s))
<1>. DEFINE n == Len(a) + 1
<1>0. a \in Seq(Book) /\ o \in Book /\ b = Append(a, o)
  BY DEF Appends
<1>1. /\ b \in Seq(Book) /\ DOMAIN a = 1 .. Len(a) /\ DOMAIN b = 1 .. n /\ Len(a) \in Nat
      /\ b[n] = o /\ \A i \in DOMAIN a : b[i] = a[i]
  BY <1>0
<1>2. DOMAIN b = DOMAIN a \cup {n} /\ n \notin DOMAIN a
  BY <1>1
<1>. HIDE DEF n
<1>3. \A j \in DOMAIN a : /\ Rest(b)[j] = Rest(a)[j] /\ Ahead(b)[j] = Ahead(a)[j]
                          /\ Reach(b)[j] = Reach(a)[j] /\ Asked(b)[j] = Asked(a)[j]
  BY <1>1, <1>2 DEF Rest, Ahead, Reach, Asked
<1>4. \A j \in DOMAIN a : Rest(a)[j] \in Nat /\ Ahead(a)[j] \in Nat /\ Reach(a)[j] \in Nat
  BY <1>0, Amounts
<1>5. Rest(b)[n] \in Nat /\ Ahead(b)[n] \in Nat /\ Reach(b)[n] \in Nat
  BY <1>1, <1>2, Amounts
<1>10. Rest(b)[n] = o.quantity /\ Ahead(b)[n] = 0 /\ Reach(b)[n] = o.quantity
  <2>1. n \in DOMAIN b /\ b[n] = o /\ o.quantity \in Nat
    BY <1>0, <1>1, <1>2 DEF Book, Orders
  <2>. QED
    BY <2>1 DEF Rest, Ahead, Reach
<1>11. Total(Ahead(a), On(a, s)) \in Nat
  BY <1>0, TotalsAreNumbers
<1>6. IsFiniteSet(On(a, s)) /\ On(a, s) \subseteq DOMAIN a
  BY <1>0, SideFinite DEF On
<1>7. ASSUME o.side = s
      PROVE  /\ Total(Rest(b), On(b, s)) = Total(Rest(a), On(a, s)) + Rest(b)[n]
             /\ Total(Ahead(b), On(b, s)) = Total(Ahead(a), On(a, s)) + Ahead(b)[n]
             /\ Total(Reach(b), On(b, s)) = Total(Reach(a), On(a, s)) + Reach(b)[n]
  <2>1. On(b, s) = On(a, s) \cup {n} /\ n \notin On(a, s)
    BY <1>1, <1>2, <1>7 DEF On
  <2>2. Total(Rest(b), On(b, s)) = Total(Rest(a), On(a, s)) + Rest(b)[n]
    <3>. DEFINE f == Rest(a)
                g == Rest(b)
                S == On(a, s)
    <3>1. /\ \A j \in S : f[j] \in Nat /\ g[j] = f[j]
          /\ g[n] \in Nat /\ IsFiniteSet(S) /\ n \notin S
      BY <1>3, <1>4, <1>5, <1>6, <2>1
    <3>. HIDE DEF f, g, S
    <3>2. Total(g, S \cup {n}) = Total(f, S) + g[n]
      BY <3>1, TotalAdd
    <3>. QED
      BY <2>1, <3>2 DEF f, g, S
  <2>3. Total(Ahead(b), On(b, s)) = Total(Ahead(a), On(a, s)) + Ahead(b)[n]
    <3>. DEFINE f == Ahead(a)
                g == Ahead(b)
                S == On(a, s)
    <3>1. /\ \A j \in S : f[j] \in Nat /\ g[j] = f[j]
          /\ g[n] \in Nat /\ IsFiniteSet(S) /\ n \notin S
      BY <1>3, <1>4, <1>5, <1>6, <2>1
    <3>. HIDE DEF f, g, S
    <3>2. Total(g, S \cup {n}) = Total(f, S) + g[n]
      BY <3>1, TotalAdd
    <3>. QED
      BY <2>1, <3>2 DEF f, g, S
  <2>4. Total(Reach(b), On(b, s)) = Total(Reach(a), On(a, s)) + Reach(b)[n]
    <3>. DEFINE f == Reach(a)
                g == Reach(b)
                S == On(a, s)
    <3>1. /\ \A j \in S : f[j] \in Nat /\ g[j] = f[j]
          /\ g[n] \in Nat /\ IsFiniteSet(S) /\ n \notin S
      BY <1>3, <1>4, <1>5, <1>6, <2>1
    <3>. HIDE DEF f, g, S
    <3>2. Total(g, S \cup {n}) = Total(f, S) + g[n]
      BY <3>1, TotalAdd
    <3>. QED
      BY <2>1, <3>2 DEF f, g, S
  <2>. QED
    BY <2>2, <2>3, <2>4
<1>8. ASSUME o.side # s
      PROVE  /\ Total(Rest(b), On(b, s)) = Total(Rest(a), On(a, s))
             /\ Total(Ahead(b), On(b, s)) = Total(Ahead(a), On(a, s))
             /\ Total(Reach(b), On(b, s)) = Total(Reach(a), On(a, s))
  <2>1. On(b, s) = On(a, s)
    BY <1>1, <1>2, <1>8 DEF On
  <2>. QED
    BY <2>1, <1>3, <1>6, TotalAgree
<1>9. Total(Asked(a), NotBound(a, s)) <= Total(Asked(b), NotBound(b, s))
  <2>1. NotBound(a, s) \subseteq NotBound(b, s)
    BY <1>1, <1>2 DEF NotBound
  <2>2. IsFiniteSet(NotBound(b, s))
    BY <1>1, SideFinite
  <2>3. \A j \in NotBound(b, s) : Asked(b)[j] \in Nat
    BY <1>1, Amounts DEF NotBound
  <2>4. \A j \in NotBound(a, s) : Asked(a)[j] \in Nat /\ Asked(a)[j] <= Asked(b)[j]
    BY <1>0, <1>3, Amounts DEF NotBound
  <2>. QED
    BY <2>1, <2>2, <2>3, <2>4, TotalMonotone
<1>. QED
  BY <1>7, <1>8, <1>9, <1>10, <1>11
----------------------------------------------------------------------------
Kinds ==
  /\ order \in Seq(Book) /\ Len(order) <= MaxOrders
  /\ position \in Int /\ book \in Int /\ unknown \in 0 .. MaxUnknown
  /\ poll \in [on : Nat, filled : Nat, open : BOOLEAN, stage : {"none", "book", "ledger"}]
  /\ cycle \in [pc : Places, step : 1 .. 3, reserved : Int, cancels : BOOLEAN,
                held : Int, target : Targets \cup {0}]

(* An observation is of a known order, and no fill is ever taken back.      *)
Polling ==
  /\ poll.on # 0 => poll.on \in DOMAIN order
  /\ poll.stage # "none" =>
       /\ poll.on # 0 /\ order[poll.on].bound /\ order[poll.on].active
       /\ order[poll.on].booked <= poll.filled /\ poll.filled <= order[poll.on].filled
       /\ ~poll.open => ~order[poll.on].open /\ poll.filled = order[poll.on].filled
       /\ poll.stage = "ledger" => order[poll.on].booked = poll.filled

Quiet == \A i \in DOMAIN order : order[i].bound => Settled(order[i])

(* What the cycle that is going on knows.                                   *)
Going ==
  /\ cycle.pc \in {"top", "gate"} => cycle.step = 1
  /\ cycle.pc = "read" => cycle.step = 2
  /\ cycle.pc \in {"read", "decide", "order", "regate"} /\ ~cycle.cancels =>
       /\ Quiet
       /\ cycle.reserved = Total(Asked(order), NotBound(order, 1)) - Total(Asked(order), NotBound(order, -1))
  /\ cycle.pc \in {"decide", "order", "regate"} /\ ~cycle.cancels => cycle.held = book
  /\ cycle.pc \in {"order", "regate"} =>
       ~cycle.cancels /\ cycle.target \in Targets /\ cycle.target # Effective

(* The most and the least that the account may come to hold, as the book    *)
(* and the orders tell it.                                                  *)
Most(p, a)  == p + Total(Rest(a), On(a, 1))
Least(p, a) == p - Total(Rest(a), On(a, -1))

Balance(p, k, a) ==
  /\ Most(p, a)  = k + Total(Reach(a), On(a, 1)) - Total(Ahead(a), On(a, -1))
  /\ Least(p, a) = k + Total(Ahead(a), On(a, 1)) - Total(Reach(a), On(a, -1))

Bounded(p, a) ==
  /\ Most(p, a) <= Largest + Total(Asked(a), NotBound(a, -1))
  /\ Least(p, a) >= -Total(Asked(a), NotBound(a, 1))

Known == unknown = 0 => \A i \in DOMAIN order : order[i].bound

Course ==
  /\ Kinds /\ Polling /\ Going /\ Known
  /\ Balance(position, book, order) /\ Bounded(position, order)
----------------------------------------------------------------------------
(* The amounts of one order belong together.                                *)
LEMMA OneOrder ==
  ASSUME NEW a \in Seq(Book), NEW i \in DOMAIN a
  PROVE  /\ Reach(a)[i] = Rest(a)[i] + Ahead(a)[i]
         /\ Ahead(a)[i] = a[i].filled - a[i].booked
         /\ a[i].open => Rest(a)[i] = a[i].quantity - a[i].filled
         /\ ~a[i].open => Rest(a)[i] = 0
         /\ a[i].filled \in Nat /\ a[i].booked \in Nat /\ a[i].quantity \in Nat
         /\ a[i].filled <= a[i].quantity
<1>1. a[i] \in Book
  OBVIOUS
<1>2. /\ a[i].filled \in Nat /\ a[i].booked \in Nat /\ a[i].quantity \in Nat
      /\ a[i].filled <= a[i].quantity
  BY <1>1 DEF Book, Orders, Sane
<1>3. CASE a[i].open
  BY <1>2, <1>3 DEF Reach, Rest, Ahead
<1>4. CASE ~a[i].open
  BY <1>2, <1>4 DEF Reach, Rest, Ahead
<1>. QED
  BY <1>2, <1>3, <1>4

(* It may only shrink what the account may come to hold.                    *)
LEMMA Shrinks ==
  ASSUME NEW a \in Seq(Book), NEW i \in DOMAIN a, NEW b \in Seq(Book), i \in DOMAIN b,
         Progress(a[i], b[i])
  PROVE  b[i].filled + Rest(b)[i] <= a[i].filled + Rest(a)[i]
<1>1. /\ a[i].filled \in Nat /\ b[i].filled \in Nat /\ a[i].quantity \in Nat
      /\ b[i].quantity = a[i].quantity /\ b[i].filled <= b[i].quantity
  BY OneOrder DEF Progress
<1>2. CASE b[i].open
  <2>1. Rest(b)[i] = b[i].quantity - b[i].filled
    BY <1>2, OneOrder
  <2>2. a[i].open
    BY <1>2 DEF Progress
  <2>3. Rest(a)[i] = a[i].quantity - a[i].filled
    BY <2>2, OneOrder
  <2>. QED
    BY <1>1, <2>1, <2>3
<1>3. CASE ~b[i].open /\ a[i].open
  <2>1. Rest(b)[i] = 0
    BY <1>3, OneOrder
  <2>2. Rest(a)[i] = a[i].quantity - a[i].filled
    BY <1>3, OneOrder
  <2>. QED
    BY <1>1, <2>1, <2>2
<1>4. CASE ~b[i].open /\ ~a[i].open
  <2>1. Rest(b)[i] = 0 /\ Rest(a)[i] = 0
    BY <1>4, OneOrder
  <2>2. b[i].filled = a[i].filled
    BY <1>4 DEF Progress
  <2>. QED
    BY <1>1, <2>1, <2>2
<1>. QED
  BY <1>2, <1>3, <1>4

LEMMA SameUnknown ==
  ASSUME NEW a, NEW i, NEW o, NEW b, Replaces(a, i, o, b)
  PROVE  Asked(b) = Asked(a) /\ \A s \in {1, -1} : NotBound(b, s) = NotBound(a, s)
<1>1. /\ DOMAIN b = DOMAIN a
      /\ \A j \in DOMAIN a : /\ b[j].quantity = a[j].quantity
                            /\ b[j].bound = a[j].bound /\ b[j].side = a[j].side
  BY DEF Replaces, Progress
<1>. QED
  BY <1>1 DEF Asked, NotBound

(* Position and book follow their orders: balance and bounds stay.          *)
LEMMA Follows ==
  ASSUME NEW a, NEW i, NEW o, NEW b, Replaces(a, i, o, b),
         NEW p \in Int, NEW k \in Int, NEW q, NEW l,
         q = p + o.side * (o.filled - a[i].filled),
         l = k + o.side * (o.booked - a[i].booked)
  PROVE  /\ Balance(p, k, a) => Balance(q, l, b)
         /\ Bounded(p, a) => Bounded(q, b)
<1>0. a \in Seq(Book) /\ i \in DOMAIN a /\ o \in Book /\ o.side = a[i].side
  BY DEF Replaces, Progress
<1>2. b \in Seq(Book) /\ i \in DOMAIN b /\ b[i] = o /\ a[i] \in Book
  BY <1>0 DEF Replaces
<1>3. o.side \in {1, -1} /\ o.filled \in Nat /\ o.booked \in Nat
  BY <1>0 DEF Book, Orders, Sides
<1>4. a[i].filled \in Nat /\ a[i].booked \in Nat
  BY <1>2 DEF Book, Orders
<1>5. /\ Reach(b)[i] = Rest(b)[i] + Ahead(b)[i] /\ Ahead(b)[i] = o.filled - o.booked
      /\ Reach(a)[i] = Rest(a)[i] + Ahead(a)[i] /\ Ahead(a)[i] = a[i].filled - a[i].booked
      /\ Rest(a)[i] \in Nat /\ Rest(b)[i] \in Nat
  <2>1. Rest(a)[i] \in Nat /\ Rest(b)[i] \in Nat
    BY <1>0, <1>2, Amounts
  <2>2. Reach(b)[i] = Rest(b)[i] + Ahead(b)[i] /\ Ahead(b)[i] = o.filled - o.booked
    BY <1>2, OneOrder
  <2>3. Reach(a)[i] = Rest(a)[i] + Ahead(a)[i] /\ Ahead(a)[i] = a[i].filled - a[i].booked
    BY <1>0, OneOrder
  <2>. QED
    BY <2>1, <2>2, <2>3
<1>6. o.filled >= a[i].filled /\ o.filled + Rest(b)[i] <= a[i].filled + Rest(a)[i]
  BY <1>0, <1>2, Shrinks DEF Replaces, Progress
<1>7. \A s \in {1, -1} : Total(Asked(b), NotBound(b, s)) = Total(Asked(a), NotBound(a, s))
  BY SameUnknown
<1>8. Largest \in Nat /\ \A s \in {1, -1} : Total(Asked(a), NotBound(a, s)) \in Nat
  BY <1>0, CycleAssumption, TotalsAreNumbers
<1>1. \A s \in {1, -1} :
        /\ Total(Rest(a), On(a, s)) \in Nat /\ Total(Ahead(a), On(a, s)) \in Nat
        /\ Total(Reach(a), On(a, s)) \in Nat
  BY <1>0, TotalsAreNumbers
<1>10. CASE o.side = 1
  <2>1. /\ Total(Rest(b), On(b, 1)) = Total(Rest(a), On(a, 1)) + Rest(b)[i] - Rest(a)[i]
        /\ Total(Ahead(b), On(b, 1)) = Total(Ahead(a), On(a, 1)) + Ahead(b)[i] - Ahead(a)[i]
        /\ Total(Reach(b), On(b, 1)) = Total(Reach(a), On(a, 1)) + Reach(b)[i] - Reach(a)[i]
    <3>. DEFINE s == 1
    <3>1. a[i].side = s
      BY <1>0, <1>10
    <3>. HIDE DEF s
    <3>2. /\ Total(Rest(b), On(b, s)) = Total(Rest(a), On(a, s)) + Rest(b)[i] - Rest(a)[i]
          /\ Total(Ahead(b), On(b, s)) = Total(Ahead(a), On(a, s)) + Ahead(b)[i] - Ahead(a)[i]
          /\ Total(Reach(b), On(b, s)) = Total(Reach(a), On(a, s)) + Reach(b)[i] - Reach(a)[i]
      BY <3>1, Replaced
    <3>. QED
      BY <3>2 DEF s
  <2>2. /\ Total(Rest(b), On(b, -1)) = Total(Rest(a), On(a, -1))
        /\ Total(Ahead(b), On(b, -1)) = Total(Ahead(a), On(a, -1))
        /\ Total(Reach(b), On(b, -1)) = Total(Reach(a), On(a, -1))
    <3>. DEFINE s == -1
    <3>1. a[i].side # s
      BY <1>0, <1>10
    <3>. HIDE DEF s
    <3>2. /\ Total(Rest(b), On(b, s)) = Total(Rest(a), On(a, s))
          /\ Total(Ahead(b), On(b, s)) = Total(Ahead(a), On(a, s))
          /\ Total(Reach(b), On(b, s)) = Total(Reach(a), On(a, s))
      BY <3>1, Replaced
    <3>. QED
      BY <3>2 DEF s
  <2>3. q = p + (o.filled - a[i].filled) /\ l = k + (o.booked - a[i].booked)
    BY <1>10, <1>3, <1>4
  <2>4. Balance(p, k, a) => Balance(q, l, b)
    BY <1>1, <1>3, <1>4, <1>5, <1>6, <2>1, <2>2, <2>3 DEF Balance, Most, Least
  <2>5. Bounded(p, a) => Bounded(q, b)
    BY <1>1, <1>3, <1>4, <1>5, <1>6, <1>7, <1>8, <2>1, <2>2, <2>3 DEF Bounded, Most, Least
  <2>. QED
    BY <2>4, <2>5
<1>11. CASE o.side = -1
  <2>1. /\ Total(Rest(b), On(b, -1)) = Total(Rest(a), On(a, -1)) + Rest(b)[i] - Rest(a)[i]
        /\ Total(Ahead(b), On(b, -1)) = Total(Ahead(a), On(a, -1)) + Ahead(b)[i] - Ahead(a)[i]
        /\ Total(Reach(b), On(b, -1)) = Total(Reach(a), On(a, -1)) + Reach(b)[i] - Reach(a)[i]
    <3>. DEFINE s == -1
    <3>1. a[i].side = s
      BY <1>0, <1>11
    <3>. HIDE DEF s
    <3>2. /\ Total(Rest(b), On(b, s)) = Total(Rest(a), On(a, s)) + Rest(b)[i] - Rest(a)[i]
          /\ Total(Ahead(b), On(b, s)) = Total(Ahead(a), On(a, s)) + Ahead(b)[i] - Ahead(a)[i]
          /\ Total(Reach(b), On(b, s)) = Total(Reach(a), On(a, s)) + Reach(b)[i] - Reach(a)[i]
      BY <3>1, Replaced
    <3>. QED
      BY <3>2 DEF s
  <2>2. /\ Total(Rest(b), On(b, 1)) = Total(Rest(a), On(a, 1))
        /\ Total(Ahead(b), On(b, 1)) = Total(Ahead(a), On(a, 1))
        /\ Total(Reach(b), On(b, 1)) = Total(Reach(a), On(a, 1))
    <3>. DEFINE s == 1
    <3>1. a[i].side # s
      BY <1>0, <1>11
    <3>. HIDE DEF s
    <3>2. /\ Total(Rest(b), On(b, s)) = Total(Rest(a), On(a, s))
          /\ Total(Ahead(b), On(b, s)) = Total(Ahead(a), On(a, s))
          /\ Total(Reach(b), On(b, s)) = Total(Reach(a), On(a, s))
      BY <3>1, Replaced
    <3>. QED
      BY <3>2 DEF s
  <2>3. q = p - (o.filled - a[i].filled) /\ l = k - (o.booked - a[i].booked)
    BY <1>11, <1>3, <1>4
  <2>4. Balance(p, k, a) => Balance(q, l, b)
    BY <1>1, <1>3, <1>4, <1>5, <1>6, <2>1, <2>2, <2>3 DEF Balance, Most, Least
  <2>5. Bounded(p, a) => Bounded(q, b)
    BY <1>1, <1>3, <1>4, <1>5, <1>6, <1>7, <1>8, <2>1, <2>2, <2>3 DEF Bounded, Most, Least
  <2>. QED
    BY <2>4, <2>5
<1>. QED
  BY <1>3, <1>10, <1>11

(* When every known order is over and booked, only the unknown ones count.  *)
LEMMA QuietTotals ==
  ASSUME NEW a \in Seq(Book), \A i \in DOMAIN a : a[i].bound => Settled(a[i]), NEW s
  PROVE  /\ Total(Reach(a), On(a, s)) <= Total(Asked(a), NotBound(a, s))
         /\ (\A i \in DOMAIN a : a[i].bound) =>
              /\ Total(Reach(a), On(a, s)) = 0 /\ Total(Ahead(a), On(a, s)) = 0
              /\ Total(Rest(a), On(a, s)) = 0
<1>. DEFINE R == NotBound(a, s)
            S == On(a, s)
<1>1. R \subseteq S /\ S \subseteq DOMAIN a /\ IsFiniteSet(R)
  BY SideFinite DEF NotBound, On
<1>2. \A j \in S \ R : Reach(a)[j] = 0 /\ Ahead(a)[j] = 0 /\ Rest(a)[j] = 0
  <2>1. SUFFICES ASSUME NEW j \in S \ R
                 PROVE  Reach(a)[j] = 0 /\ Ahead(a)[j] = 0 /\ Rest(a)[j] = 0
    OBVIOUS
  <2>2. j \in DOMAIN a /\ Settled(a[j])
    BY <1>1, <2>1 DEF NotBound, On
  <2>3. Rest(a)[j] = 0
    BY <2>2, OneOrder DEF Settled
  <2>4. Ahead(a)[j] = 0
    BY <2>2, OneOrder DEF Settled
  <2>. QED
    BY <2>2, <2>3, <2>4, OneOrder
<1>3. \A j \in R : Reach(a)[j] \in Nat /\ Asked(a)[j] \in Nat /\ Reach(a)[j] <= Asked(a)[j]
  BY <1>1, Amounts
<1>4. Total(Reach(a), S) = Total(Reach(a), R)
  BY <1>1, <1>2, TotalSupport
<1>5. Total(Reach(a), R) <= Total(Asked(a), R)
  <2>. DEFINE f == Reach(a)
              g == Asked(a)
  <2>1. \A j \in R : f[j] \in Nat /\ g[j] \in Nat /\ f[j] <= g[j]
    BY <1>3
  <2>2. IsFiniteSet(R) /\ R \in SUBSET R
    BY <1>1
  <2>. HIDE DEF f, g, R
  <2>3. Total(f, R) <= Total(g, R)
    BY <2>1, <2>2, TotalMonotone
  <2>. QED
    BY <2>3 DEF f, g
<1>6. ASSUME \A i \in DOMAIN a : a[i].bound
      PROVE  /\ Total(Reach(a), S) = 0 /\ Total(Ahead(a), S) = 0 /\ Total(Rest(a), S) = 0
  <2>1. R = {}
    BY <1>6 DEF NotBound
  <2>2. /\ Total(Reach(a), S) = Total(Reach(a), {}) /\ Total(Ahead(a), S) = Total(Ahead(a), {})
        /\ Total(Rest(a), S) = Total(Rest(a), {})
    BY <1>1, <1>2, <2>1, TotalSupport
  <2>. QED
    BY <2>2, TotalEmpty
<1>. QED
  BY <1>4, <1>5, <1>6

(* An order for what is missing to a target t, when the effective position  *)
(* is the book and the unknown orders, keeps balance and bounds.            *)
Completes(a, o, b, k, t) ==
  /\ Appends(a, o, b) /\ o.open /\ o.filled = 0 /\ o.booked = 0
  /\ \A i \in DOMAIN a : a[i].bound => Settled(a[i])
  /\ t \in 0 .. Largest
  /\ o.side * o.quantity
       = t - (k + Total(Asked(a), NotBound(a, 1)) - Total(Asked(a), NotBound(a, -1)))

LEMMA Completed ==
  ASSUME NEW a, NEW o, NEW b, NEW p \in Int, NEW k \in Int, NEW t,
         Completes(a, o, b, k, t), Balance(p, k, a), Bounded(p, a)
  PROVE  /\ Balance(p, k, b) /\ Bounded(p, b)
         /\ (\A i \in DOMAIN a : a[i].bound) =>
              p + Total(Rest(b), On(b, 1)) - Total(Rest(b), On(b, -1)) = t
<1>. DEFINE rest(s)  == Total(Rest(a), On(a, s))
            ahead(s) == Total(Ahead(a), On(a, s))
            reach(s) == Total(Reach(a), On(a, s))
            asked(s) == Total(Asked(a), NotBound(a, s))
            rest2(s)  == Total(Rest(b), On(b, s))
            ahead2(s) == Total(Ahead(b), On(b, s))
            reach2(s) == Total(Reach(b), On(b, s))
            asked2(s) == Total(Asked(b), NotBound(b, s))
<1>1. /\ Appends(a, o, b) /\ o.open /\ o.filled = 0 /\ o.booked = 0
      /\ \A i \in DOMAIN a : a[i].bound => Settled(a[i])
      /\ t \in 0 .. Largest /\ o.side * o.quantity = t - (k + asked(1) - asked(-1))
  BY DEF Completes
<1>2. a \in Seq(Book) /\ b \in Seq(Book) /\ o \in Book
  BY <1>1 DEF Appends
<1>3. o.side \in {1, -1} /\ o.quantity \in Nat
  BY <1>2 DEF Book, Orders, Sides
<1>4. Largest \in Nat /\ t \in Int /\ t <= Largest /\ 0 <= t
  BY <1>1, CycleAssumption
<1>5. ASSUME NEW s
      PROVE  /\ rest(s) \in Nat /\ ahead(s) \in Nat /\ reach(s) \in Nat /\ asked(s) \in Nat
             /\ asked2(s) \in Nat
             /\ asked(s) <= asked2(s) /\ reach(s) <= asked(s)
  <2>1. rest(s) \in Nat /\ ahead(s) \in Nat /\ reach(s) \in Nat /\ asked(s) \in Nat
    BY <1>2, TotalsAreNumbers
  <2>2. asked2(s) \in Nat
    BY <1>2, TotalsAreNumbers
  <2>3. asked(s) <= asked2(s)
    BY <1>1, NewOrder
  <2>4. reach(s) <= asked(s)
    BY <1>1, <1>2, QuietTotals
  <2>. QED
    BY <2>1, <2>2, <2>3, <2>4
<1>6. ASSUME NEW s, o.side = s
      PROVE  rest2(s) = rest(s) + o.quantity /\ ahead2(s) = ahead(s)
             /\ reach2(s) = reach(s) + o.quantity
  BY <1>1, <1>6, NewOrder
<1>7. ASSUME NEW s, o.side # s
      PROVE  rest2(s) = rest(s) /\ ahead2(s) = ahead(s) /\ reach2(s) = reach(s)
  BY <1>1, <1>7, NewOrder
<1>8. ASSUME \A i \in DOMAIN a : a[i].bound, NEW s
      PROVE  reach(s) = 0 /\ ahead(s) = 0 /\ rest(s) = 0 /\ asked(s) = 0
  <2>1. reach(s) = 0 /\ ahead(s) = 0 /\ rest(s) = 0
    BY <1>1, <1>2, <1>8, QuietTotals
  <2>2. NotBound(a, s) = {}
    BY <1>8 DEF NotBound
  <2>. QED
    BY <2>1, <2>2, TotalEmpty
<1>9. /\ p + rest(1) = k + reach(1) - ahead(-1) /\ p - rest(-1) = k + ahead(1) - reach(-1)
      /\ p + rest(1) <= Largest + asked(-1) /\ p - rest(-1) >= -asked(1)
  BY DEF Balance, Bounded, Most, Least
<1>10. /\ Balance(p, k, b) <=> /\ p + rest2(1) = k + reach2(1) - ahead2(-1)
                                /\ p - rest2(-1) = k + ahead2(1) - reach2(-1)
       /\ Bounded(p, b) <=> /\ p + rest2(1) <= Largest + asked2(-1)
                             /\ p - rest2(-1) >= -asked2(1)
  BY DEF Balance, Bounded, Most, Least
<1>. HIDE DEF rest, ahead, reach, asked, rest2, ahead2, reach2, asked2
<1>13. /\ rest(1) \in Nat /\ ahead(1) \in Nat /\ reach(1) \in Nat
       /\ rest(-1) \in Nat /\ ahead(-1) \in Nat /\ reach(-1) \in Nat
  BY <1>5
<1>11. CASE o.side = 1
  <2>1. /\ rest2(1) = rest(1) + o.quantity /\ ahead2(1) = ahead(1)
        /\ reach2(1) = reach(1) + o.quantity
    BY <1>6, <1>11
  <2>2. rest2(-1) = rest(-1) /\ ahead2(-1) = ahead(-1) /\ reach2(-1) = reach(-1)
    BY <1>7, <1>11
  <2>3. o.quantity = t - (k + asked(1) - asked(-1))
    BY <1>1, <1>3, <1>11
  <2>4. Balance(p, k, b)
    BY <1>3, <1>9, <1>10, <1>13, <2>1, <2>2
  <2>5. Bounded(p, b)
    BY <1>3, <1>4, <1>5, <1>9, <1>10, <2>1, <2>2, <2>3
  <2>6. ASSUME \A i \in DOMAIN a : a[i].bound
        PROVE  p + rest2(1) - rest2(-1) = t
    BY <1>3, <1>4, <1>8, <1>9, <2>1, <2>2, <2>3, <2>6
  <2>. QED
    BY <2>4, <2>5, <2>6 DEF rest2
<1>12. CASE o.side = -1
  <2>1. /\ rest2(-1) = rest(-1) + o.quantity /\ ahead2(-1) = ahead(-1)
        /\ reach2(-1) = reach(-1) + o.quantity
    BY <1>6, <1>12
  <2>2. rest2(1) = rest(1) /\ ahead2(1) = ahead(1) /\ reach2(1) = reach(1)
    BY <1>7, <1>12
  <2>3. -o.quantity = t - (k + asked(1) - asked(-1))
    BY <1>1, <1>3, <1>12
  <2>4. Balance(p, k, b)
    BY <1>3, <1>9, <1>10, <1>13, <2>1, <2>2
  <2>5. Bounded(p, b)
    BY <1>3, <1>4, <1>5, <1>9, <1>10, <2>1, <2>2, <2>3
  <2>6. ASSUME \A i \in DOMAIN a : a[i].bound
        PROVE  p + rest2(1) - rest2(-1) = t
    BY <1>3, <1>4, <1>8, <1>9, <2>1, <2>2, <2>3, <2>6
  <2>. QED
    BY <2>4, <2>5, <2>6 DEF rest2
<1>. QED
  BY <1>3, <1>11, <1>12
----------------------------------------------------------------------------
(* The totals that the properties speak of.                                 *)
LEMMA SameTotals ==
  ASSUME NEW a \in Seq(Book), NEW s
  PROVE  Total([i \in DOMAIN a |-> a[i].quantity - a[i].filled],
               {i \in DOMAIN a : a[i].open /\ a[i].side = s}) = Total(Rest(a), On(a, s))
<1>. DEFINE R == {i \in DOMAIN a : a[i].open /\ a[i].side = s}
            S == On(a, s)
            f == Rest(a)
            g == [i \in DOMAIN a |-> a[i].quantity - a[i].filled]
<1>1. R \in SUBSET S
  BY DEF On
<1>2. \A j \in S \ R : f[j] = 0
  BY DEF On, Rest
<1>3. \A j \in R : f[j] = g[j]
  BY DEF Rest
<1>. HIDE DEF R, S, f, g
<1>4. Total(f, S) = Total(f, R)
  BY <1>1, <1>2, TotalSupport
<1>5. Total(f, R) = Total(g, R)
  BY <1>3, TotalAgree
<1>. QED
  BY <1>4, <1>5 DEF R, S, f, g

LEMMA Potentials ==
  ASSUME order \in Seq(Book)
  PROVE  /\ \A s \in Sides : /\ Total(Unfilled, Working(s)) = Total(Rest(order), On(order, s))
                              /\ Unbound(s) = NotBound(order, s)
         /\ Quantities = Asked(order)
<1>1. \A s \in Sides : Total(Unfilled, Working(s)) = Total(Rest(order), On(order, s))
  BY SameTotals DEF Unfilled, Working
<1>2. Quantities = Asked(order) /\ \A s \in Sides : Unbound(s) = NotBound(order, s)
  BY DEF Quantities, Asked, Unbound, NotBound
<1>. QED
  BY <1>1, <1>2

(* What the reservations tell when there is nothing to cancel: every known  *)
(* order is over and booked, and the unknown ones are at work in full.      *)
LEMMA NothingToCancel ==
  ASSUME order \in Seq(Book), ~Cancellable
  PROVE  /\ Quiet
         /\ Reserved = Total(Asked(order), NotBound(order, 1)) - Total(Asked(order), NotBound(order, -1))
<1>1. ASSUME NEW i \in DOMAIN order
      PROVE  /\ order[i].bound /\ order[i].active => Remaining[i] = 0 /\ Settled(order[i])
             /\ order[i].bound /\ ~order[i].active => Settled(order[i])
             /\ ~order[i].bound => order[i].active /\ Remaining[i] = order[i].quantity
  <2>1. /\ order[i].filled \in Nat /\ order[i].booked \in Nat /\ order[i].quantity \in Nat
        /\ order[i].ledgered \in Nat /\ Sane(order[i])
    BY DEF Book, Orders
  <2>2. Remaining[i] = order[i].quantity - order[i].ledgered
    BY DEF Remaining
  <2>3. order[i].bound /\ order[i].active => ~(Remaining[i] > 0)
    BY DEF Cancellable
  <2>. HIDE DEF Remaining
  <2>. QED
    BY <2>1, <2>2, <2>3 DEF Sane, Settled
<1>2. Quiet
  BY <1>1 DEF Quiet
<1>3. ASSUME NEW s \in Sides
      PROVE  Total(Remaining, Active(s)) = Total(Asked(order), NotBound(order, s))
  <2>. DEFINE R == NotBound(order, s)
              S == Active(s)
              f == Remaining
              g == Asked(order)
  <2>1. R \in SUBSET S
    BY <1>1 DEF NotBound, Active
  <2>2. \A j \in S \ R : f[j] = 0
    BY <1>1 DEF NotBound, Active
  <2>3. \A j \in R : f[j] = g[j]
    BY <1>1 DEF NotBound, Asked
  <2>. HIDE DEF R, S, f, g
  <2>4. Total(f, S) = Total(f, R)
    BY <2>1, <2>2, TotalSupport
  <2>5. Total(f, R) = Total(g, R)
    BY <2>3, TotalAgree
  <2>. QED
    BY <2>4, <2>5 DEF R, S, f, g
<1>. QED
  BY <1>2, <1>3 DEF Reserved, Sides
LEMMA ReservedIsInt ==
  ASSUME order \in Seq(Book)
  PROVE  Reserved \in Int
<1>1. ASSUME NEW i \in DOMAIN order PROVE Remaining[i] \in Nat
  <2>1. order[i] \in Book
    OBVIOUS
  <2>2. /\ order[i].quantity \in Nat /\ order[i].ledgered \in Nat
        /\ order[i].ledgered <= order[i].quantity
    BY <2>1 DEF Book, Orders, Sane
  <2>. QED
    BY <2>2 DEF Remaining
<1>2. ASSUME NEW s \in Sides PROVE Total(Remaining, Active(s)) \in Nat
  <2>1. Active(s) \in SUBSET DOMAIN order /\ IsFiniteSet(DOMAIN order)
    BY SideFinite DEF Active
  <2>2. IsFiniteSet(Active(s))
    BY <2>1, FS_Subset
  <2>3. \A j \in Active(s) : Remaining[j] \in Nat
    BY <1>1, <2>1
  <2>. QED
    BY <2>2, <2>3, TotalType
<1>. QED
  BY <1>2 DEF Reserved, Sides
----------------------------------------------------------------------------
Polls  == [on : Nat, filled : Nat, open : BOOLEAN, stage : {"none", "book", "ledger"}]
Cycles == [pc : Places, step : 1 .. 3, reserved : Int, cancels : BOOLEAN,
           held : Int, target : Targets \cup {0}]

(* A fill, an end, or a booking of one order.                               *)
LEMMA OneOrderMoves ==
  ASSUME Course, NEW i, NEW o, Replaces(order, i, o, order'), UNCHANGED <<cycle, unknown>>,
         poll' \in Polls, Polling',
         position' = position + o.side * (o.filled - order[i].filled),
         book' = book + o.side * (o.booked - order[i].booked),
         order[i].bound /\ Settled(order[i]) => o.booked = order[i].booked
  PROVE  Course'
<1>1. Kinds /\ Going /\ Known /\ Balance(position, book, order) /\ Bounded(position, order)
  BY DEF Course
<1>2. /\ order \in Seq(Book) /\ i \in DOMAIN order /\ o \in Book /\ Progress(order[i], o)
      /\ order' = [order EXCEPT ![i] = o]
  BY DEF Replaces
<1>3. /\ order' \in Seq(Book) /\ DOMAIN order' = DOMAIN order /\ Len(order') = Len(order)
      /\ order'[i] = o /\ \A j \in DOMAIN order \ {i} : order'[j] = order[j]
  BY <1>2
<1>4. /\ o.side \in Int /\ o.filled \in Int /\ o.booked \in Int
      /\ order[i].filled \in Int /\ order[i].booked \in Int
  <2>1. order[i] \in Book
    BY <1>2
  <2>. QED
    BY <1>2, <2>1 DEF Book, Orders, Sides
<1>5. position' \in Int /\ book' \in Int /\ position \in Int /\ book \in Int
  <2>1. \A x, y, z, w \in Int : x + y * (z - w) \in Int
    OBVIOUS
  <2>2. position \in Int /\ book \in Int
    BY <1>1 DEF Kinds
  <2>3. position + o.side * (o.filled - order[i].filled) \in Int
    BY <1>4, <2>1, <2>2
  <2>4. book + o.side * (o.booked - order[i].booked) \in Int
    BY <1>4, <2>1, <2>2
  <2>. QED
    BY <2>2, <2>3, <2>4
<1>6. Kinds'
  BY <1>1, <1>3, <1>5 DEF Kinds, Polls
<1>7. Known'
  BY <1>1, <1>2, <1>3 DEF Known, Progress
<1>8. /\ Balance(position, book, order) => Balance(position', book', order')
      /\ Bounded(position, order) => Bounded(position', order')
  BY <1>5, Follows
<1>9. ASSUME Quiet PROVE Quiet' /\ book' = book
  <2>1. order[i].bound => o.booked = order[i].booked /\ Settled(o)
    BY <1>2, <1>9 DEF Quiet, Settled, Progress
  <2>2. ~order[i].bound => o.booked = 0 /\ order[i].booked = 0
    <3>1. order[i] \in Book
      BY <1>2
    <3>. QED
      BY <1>2, <3>1 DEF Progress, Book, Sane
  <2>3. o.booked = order[i].booked
    BY <2>1, <2>2
  <2>4. book' = book
    BY <1>4, <1>5, <2>3
  <2>5. Quiet'
    BY <1>2, <1>3, <1>9, <2>1 DEF Quiet, Progress
  <2>. QED
    BY <2>4, <2>5
<1>10. Asked(order') = Asked(order) /\ \A s \in {1, -1} : NotBound(order', s) = NotBound(order, s)
  BY SameUnknown
<1>11. Going'
  BY <1>1, <1>9, <1>10 DEF Going, Effective
<1>. QED
  BY <1>1, <1>6, <1>7, <1>8, <1>11 DEF Course

(* A step that leaves the orders, the account and the book alone.           *)
LEMMA OrdersStay ==
  ASSUME Course, UNCHANGED <<position, book, order, unknown>>,
         poll' \in Polls, Polling', cycle' \in Cycles, Going'
  PROVE  Course'
<1>1. Kinds'
  BY DEF Course, Kinds, Polls, Cycles
<1>2. Known' /\ Balance(position', book', order') /\ Bounded(position', order')
  BY DEF Course, Known
<1>. QED
  BY <1>1, <1>2 DEF Course
----------------------------------------------------------------------------
LEMMA CourseInit == Init => Course
<1>1. SUFFICES ASSUME Init PROVE Course
  OBVIOUS
<1>2. /\ position = Start /\ book = Start /\ order = <<>> /\ unknown = 0 /\ poll = NoPoll
      /\ cycle = Waiting /\ Start \in Nat /\ Start <= Largest /\ Largest \in Nat
      /\ MaxOrders \in Nat /\ MaxUnknown \in Nat
  BY <1>1, CycleAssumption DEF Init
<1>3. Kinds
  BY <1>2 DEF Kinds, NoPoll, Waiting, Places
<1>4. Polling /\ Going /\ Known
  BY <1>2 DEF Polling, Going, Known, NoPoll, Waiting
<1>5. Balance(position, book, order) /\ Bounded(position, order)
  <2>1. On(order, 1) = {} /\ On(order, -1) = {}
    BY <1>2 DEF On
  <2>2. NotBound(order, 1) = {} /\ NotBound(order, -1) = {}
    BY <1>2 DEF NotBound
  <2>3. /\ Total(Rest(order), On(order, 1)) = 0 /\ Total(Rest(order), On(order, -1)) = 0
        /\ Total(Reach(order), On(order, 1)) = 0 /\ Total(Reach(order), On(order, -1)) = 0
        /\ Total(Ahead(order), On(order, 1)) = 0 /\ Total(Ahead(order), On(order, -1)) = 0
    BY <2>1, TotalEmpty
  <2>4. /\ Total(Asked(order), NotBound(order, 1)) = 0
        /\ Total(Asked(order), NotBound(order, -1)) = 0
    BY <2>2, TotalEmpty
  <2>. QED
    BY <1>2, <2>3, <2>4 DEF Balance, Bounded, Most, Least
<1>. QED
  BY <1>3, <1>4, <1>5 DEF Course

(* An observation stays one of a known order while orders fill and end.     *)
LEMMA PollingStays ==
  ASSUME Polling, poll \in Polls, order \in Seq(Book), UNCHANGED poll,
         NEW i, NEW o, Replaces(order, i, o, order'),
         o.booked = order[i].booked, o.active = order[i].active
  PROVE  Polling'
<1>1. /\ order \in Seq(Book) /\ i \in DOMAIN order /\ o \in Book /\ Progress(order[i], o)
      /\ order' = [order EXCEPT ![i] = o]
  BY DEF Replaces
<1>2. DOMAIN order' = DOMAIN order /\ order'[i] = o /\ \A j \in DOMAIN order \ {i} : order'[j] = order[j]
  BY <1>1
<1>3. order[i] \in Book
  BY <1>1
<1>4. order[i].filled \in Nat /\ o.filled \in Nat /\ poll.filled \in Nat
  BY <1>1, <1>3 DEF Book, Orders, Polls
<1>5. CASE poll.on = i
  BY <1>1, <1>2, <1>4, <1>5 DEF Polling, Progress
<1>6. CASE poll.on # i
  BY <1>2, <1>6 DEF Polling
<1>. QED
  BY <1>5, <1>6

(* Fills and ends at the broker.                                            *)
LEMMA BrokerStep ==
  ASSUME Course, NEW i \in DOMAIN order, Fill(i) \/ Close(i)
  PROVE  Course' /\ Len(order') = Len(order)
<1>. DEFINE a == order[i]
<1>1. /\ order \in Seq(Book) /\ poll \in Polls /\ Polling
      /\ UNCHANGED <<cycle, unknown, poll, book>> /\ a \in Book
  BY DEF Course, Kinds, Polls, Fill, Close
<1>2. /\ a.side \in Sides /\ a.quantity \in Nat \ {0} /\ a.filled \in Nat /\ a.booked \in Nat
      /\ a.ledgered \in Nat /\ a.open \in BOOLEAN /\ a.active \in BOOLEAN /\ a.bound \in BOOLEAN
      /\ Sane(a)
  BY <1>1 DEF Book, Orders
<1>3. CASE Fill(i)
  <2>. DEFINE n == a.filled + 1
              v == n < a.quantity
              o == [a EXCEPT !.filled = n, !.open = v]
  <2>1. a.open /\ order' = [order EXCEPT ![i] = o] /\ position' = position + a.side
    BY <1>3 DEF Fill
  <2>8. n \in Nat /\ n = a.filled + 1 /\ v \in BOOLEAN /\ (v <=> n < a.quantity)
    BY <1>2
  <2>. HIDE DEF n, v
  <2>2. o \in Book
    <3>1. o \in Orders
      BY <1>1, <1>2, <2>8 DEF Book, Orders
    <3>2. Sane(o)
      BY <1>1, <1>2, <2>1, <2>8 DEF Book, Orders, Sane
    <3>. QED
      BY <3>1, <3>2 DEF Book
  <2>3. /\ o.side = a.side /\ o.filled = n /\ o.booked = a.booked
        /\ o.active = a.active /\ Progress(a, o)
    BY <1>1, <1>2, <2>1, <2>8 DEF Book, Orders, Progress
  <2>. HIDE DEF o
  <2>4. Replaces(order, i, o, order')
    BY <1>1, <2>1, <2>2, <2>3 DEF Replaces
  <2>5. Polling'
    BY <1>1, <2>3, <2>4, PollingStays
  <2>6. /\ position' = position + o.side * (o.filled - a.filled)
        /\ book' = book + o.side * (o.booked - a.booked)
    <3>1. position \in Int /\ book \in Int
      BY DEF Course, Kinds
    <3>. QED
      BY <1>1, <1>2, <2>1, <2>3, <2>8, <3>1 DEF Sides
  <2>7. Course'
    BY <1>1, <2>3, <2>4, <2>5, <2>6, OneOrderMoves
  <2>. QED
    BY <1>1, <2>1, <2>7
<1>4. CASE Close(i)
  <2>. DEFINE o == [a EXCEPT !.open = FALSE]
  <2>1. a.open /\ order' = [order EXCEPT ![i] = o] /\ position' = position
    BY <1>4 DEF Close
  <2>2. o \in Book
    <3>1. o \in Orders
      BY <1>1, <1>2 DEF Book, Orders
    <3>2. Sane(o)
      BY <1>1, <1>2, <2>1 DEF Book, Orders, Sane
    <3>. QED
      BY <3>1, <3>2 DEF Book
  <2>3. /\ o.side = a.side /\ o.filled = a.filled /\ o.booked = a.booked
        /\ o.active = a.active /\ Progress(a, o)
    BY <1>1, <1>2, <2>1 DEF Book, Orders, Progress
  <2>. HIDE DEF o
  <2>4. Replaces(order, i, o, order')
    BY <1>1, <2>1, <2>2, <2>3 DEF Replaces
  <2>5. Polling'
    BY <1>1, <2>3, <2>4, PollingStays
  <2>6. /\ position' = position + o.side * (o.filled - a.filled)
        /\ book' = book + o.side * (o.booked - a.booked)
    <3>1. position \in Int /\ book \in Int
      BY DEF Course, Kinds
    <3>. QED
      BY <1>1, <1>2, <2>1, <2>3, <3>1 DEF Sides
  <2>7. Course'
    BY <1>1, <2>3, <2>4, <2>5, <2>6, OneOrderMoves
  <2>. QED
    BY <1>1, <2>1, <2>7
<1>. QED
  BY <1>3, <1>4

(* The second and the third part of a poll.                                 *)
LEMMA BookingStep ==
  ASSUME Course, BookFill \/ LedgerFill
  PROVE  Course' /\ Len(order') = Len(order)
<1>. DEFINE i == poll.on
            a == order[i]
            f == poll.filled
<1>1. /\ order \in Seq(Book) /\ poll \in Polls /\ poll.stage \in {"book", "ledger"}
      /\ UNCHANGED <<cycle, unknown, position>>
  BY DEF Course, Kinds, Polls, BookFill, LedgerFill
<1>2. /\ i \in DOMAIN order /\ i # 0 /\ a.bound /\ a.active /\ a.booked <= f /\ f <= a.filled
      /\ (~poll.open => ~a.open /\ f = a.filled)
      /\ (poll.stage = "ledger" => a.booked = f)
  BY <1>1 DEF Course, Polling
<1>3. /\ a \in Book /\ f \in Nat /\ poll.open \in BOOLEAN
      /\ a.side \in Sides /\ a.quantity \in Nat \ {0} /\ a.filled \in Nat /\ a.booked \in Nat
      /\ a.ledgered \in Nat /\ a.open \in BOOLEAN /\ a.active \in BOOLEAN /\ a.bound \in BOOLEAN
      /\ Sane(a)
  <2>1. a \in Book
    BY <1>1, <1>2
  <2>. QED
    BY <1>1, <2>1 DEF Book, Orders, Polls
<1>4. position \in Int /\ book \in Int
  BY DEF Course, Kinds
<1>. HIDE DEF i
<1>5. CASE BookFill
  <2>. DEFINE o == [a EXCEPT !.booked = f]
  <2>1. /\ order' = [order EXCEPT ![i] = o] /\ book' = book + a.side * (f - a.booked)
        /\ poll' = [poll EXCEPT !.stage = "ledger"] /\ poll.stage = "book"
    BY <1>5 DEF BookFill, i
  <2>2. o \in Book
    <3>1. o \in Orders
      BY <1>3 DEF Book, Orders
    <3>2. Sane(o)
      BY <1>2, <1>3 DEF Book, Orders, Sane
    <3>. QED
      BY <3>1, <3>2 DEF Book
  <2>3. /\ o.side = a.side /\ o.filled = a.filled /\ o.booked = f /\ o.bound = a.bound
        /\ o.open = a.open /\ o.active = a.active /\ Progress(a, o)
    BY <1>3 DEF Book, Orders, Progress
  <2>. HIDE DEF o
  <2>4. Replaces(order, i, o, order')
    BY <1>1, <1>2, <2>1, <2>2, <2>3 DEF Replaces
  <2>5. poll' \in Polls /\ poll'.on = i /\ poll'.filled = f /\ poll'.open = poll.open
    BY <1>1, <2>1 DEF Polls, i
  <2>6. Polling'
    <3>1. i \in DOMAIN order' /\ order'[i] = o
      BY <1>1, <1>2, <2>1
    <3>2. /\ order'[poll'.on] = o /\ poll'.on # 0 /\ poll'.on \in DOMAIN order'
          /\ o.bound /\ o.active /\ o.booked = poll'.filled /\ poll'.filled <= o.filled
      BY <1>2, <2>3, <2>5, <3>1
    <3>3. ~poll'.open => ~o.open /\ poll'.filled = o.filled
      BY <1>2, <2>3, <2>5
    <3>4. poll'.filled \in Nat
      BY <1>3, <2>5
    <3>. HIDE DEF o
    <3>. QED
      BY <3>2, <3>3, <3>4 DEF Polling
  <2>7. /\ position' = position + o.side * (o.filled - a.filled)
        /\ book' = book + o.side * (o.booked - a.booked)
    BY <1>1, <1>3, <1>4, <2>1, <2>3 DEF Sides
  <2>8. a.bound /\ Settled(a) => o.booked = a.booked
    BY <1>2, <1>3, <2>3 DEF Settled
  <2>9. Course'
    BY <1>1, <2>4, <2>5, <2>6, <2>7, <2>8, OneOrderMoves
  <2>. QED
    BY <1>1, <2>1, <2>9
<1>6. CASE LedgerFill
  <2>. DEFINE o == [a EXCEPT !.ledgered = f, !.active = poll.open]
  <2>1. /\ order' = [order EXCEPT ![i] = o] /\ UNCHANGED book /\ poll' = NoPoll
        /\ poll.stage = "ledger"
    BY <1>6 DEF LedgerFill, i
  <2>2. o \in Book
    <3>1. o \in Orders
      BY <1>3 DEF Book, Orders
    <3>2. Sane(o)
      BY <1>2, <1>3, <2>1 DEF Book, Orders, Sane
    <3>. QED
      BY <3>1, <3>2 DEF Book
  <2>3. /\ o.side = a.side /\ o.filled = a.filled /\ o.booked = a.booked /\ Progress(a, o)
    BY <1>3 DEF Book, Orders, Progress
  <2>. HIDE DEF o
  <2>4. Replaces(order, i, o, order')
    BY <1>1, <1>2, <2>1, <2>2, <2>3 DEF Replaces
  <2>5. poll' \in Polls /\ Polling'
    BY <2>1 DEF Polls, Polling, NoPoll
  <2>7. /\ position' = position + o.side * (o.filled - a.filled)
        /\ book' = book + o.side * (o.booked - a.booked)
    BY <1>1, <1>3, <1>4, <2>1, <2>3 DEF Sides
  <2>9. Course'
    BY <1>1, <2>3, <2>4, <2>5, <2>7, OneOrderMoves
  <2>. QED
    BY <1>1, <2>1, <2>9
<1>. QED
  BY <1>5, <1>6

(* The first part of a poll.                                                *)
LEMMA ObservationStep ==
  ASSUME Course, NEW i \in DOMAIN order, Observe(i)
  PROVE  Course' /\ Len(order') = Len(order)
<1>1. /\ order \in Seq(Book) /\ UNCHANGED <<position, book, order, cycle, unknown>>
      /\ poll' = [on |-> i, filled |-> order[i].filled, open |-> order[i].open, stage |-> "book"]
      /\ order[i].bound /\ order[i].active
  BY DEF Course, Kinds, Observe
<1>2. order[i] \in Book /\ i \in Nat
  BY <1>1
<1>3. /\ order[i].filled \in Nat /\ order[i].open \in BOOLEAN /\ order[i].booked \in Nat
      /\ order[i].booked <= order[i].filled /\ i # 0
  BY <1>1, <1>2 DEF Book, Orders, Sane
<1>4. poll' \in Polls
  BY <1>1, <1>2, <1>3 DEF Polls
<1>5. Polling'
  BY <1>1, <1>3 DEF Polling
<1>6. cycle' \in Cycles /\ Going'
  BY <1>1 DEF Course, Kinds, Cycles, Going, Effective, Quiet
<1>. QED
  BY <1>1, <1>4, <1>5, <1>6, OrdersStay

(* The cycle, up to the placement.                                          *)
LEMMA CycleStep ==
  ASSUME Course,
         Begin \/ Order \/ Blocked \/ Killed \/ Snapshot \/ (\E t \in Targets : Decide(t))
  PROVE  Course' /\ Len(order') = Len(order)
<1>1. UNCHANGED <<position, book, order, poll, unknown>>
  BY DEF Begin, Order, Ask, Blocked, Killed, Snapshot, Decide
<1>2. poll' \in Polls /\ Polling' /\ cycle \in Cycles /\ Going /\ order \in Seq(Book) /\ book \in Int
  BY <1>1 DEF Course, Kinds, Polls, Cycles, Polling
<1>3. SUFFICES cycle' \in Cycles /\ Going'
  BY <1>1, <1>2, OrdersStay
<1>4. ASSUME EndCycle PROVE cycle' \in Cycles /\ Going'
  BY <1>4 DEF EndCycle, Waiting, Cycles, Places, Going
<1>5. CASE Begin \/ Order
  BY <1>1, <1>2, <1>5 DEF Begin, Order, Ask, At, Goto, Cycles, Places, Going, Effective, Quiet
<1>6. CASE Blocked \/ Killed
  BY <1>4, <1>6 DEF Blocked, Killed
<1>7. CASE Snapshot
  <2>1. cycle.pc \in {"gate", "read"}
    BY <1>7 DEF Snapshot, Passed, At
  <2>2. CASE cycle.pc = "gate"
    <3>. DEFINE r == Reserved
                c == Cancellable
    <3>1. cycle.step = 1 /\ Reads[cycle.step] = "reservations"
      BY <1>2, <2>2 DEF Going, Reads
    <3>2. cycle' = [cycle EXCEPT !.step = 2, !.pc = "read", !.reserved = r, !.cancels = c]
      BY <1>2, <1>7, <3>1 DEF Snapshot, Cycles
    <3>3. c \in BOOLEAN /\ r \in Int
      BY ReservedIsInt, <1>2 DEF Cancellable
    <3>. HIDE DEF r, c
    <3>4. cycle' \in Cycles
      <4>. DEFINE first == [cycle EXCEPT !.step = 2, !.pc = "read"]
      <4>1. first \in Cycles
        <5>1. [cycle EXCEPT !.step = 2] \in Cycles
          BY <1>2 DEF Cycles
        <5>2. "read" \in Places
          BY DEF Places
        <5>. QED
          BY <5>1, <5>2 DEF Cycles
      <4>2. cycle' = [first EXCEPT !.reserved = r, !.cancels = c]
        BY <1>2, <3>2 DEF Cycles
      <4>. HIDE DEF first
      <4>. QED
        BY <3>3, <4>1, <4>2 DEF Cycles
    <3>5. /\ cycle'.pc = "read" /\ cycle'.step = 2 /\ cycle'.reserved = r /\ cycle'.cancels = c
      BY <1>2, <3>2 DEF Cycles
    <3>6. ~c => /\ Quiet
                /\ r = Total(Asked(order), NotBound(order, 1)) - Total(Asked(order), NotBound(order, -1))
      BY <1>2, NothingToCancel DEF r, c
    <3>7. Going'
      BY <1>1, <3>5, <3>6 DEF Going, Quiet
    <3>. QED
      BY <3>4, <3>7
  <2>3. CASE cycle.pc = "read"
    <3>1. cycle.step = 2 /\ Reads[cycle.step] = "book"
      BY <1>2, <2>3 DEF Going, Reads
    <3>2. cycle' = [cycle EXCEPT !.step = 3, !.pc = "decide", !.held = book]
      BY <1>2, <1>7, <3>1 DEF Snapshot, Cycles
    <3>3. cycle' \in Cycles
      <4>. DEFINE first == [cycle EXCEPT !.step = 3, !.pc = "decide"]
      <4>1. first \in Cycles
        <5>1. [cycle EXCEPT !.step = 3] \in Cycles
          BY <1>2 DEF Cycles
        <5>2. "decide" \in Places
          BY DEF Places
        <5>. QED
          BY <5>1, <5>2 DEF Cycles
      <4>2. cycle' = [first EXCEPT !.held = book]
        BY <1>2, <3>2 DEF Cycles
      <4>. HIDE DEF first
      <4>. QED
        BY <1>2, <4>1, <4>2 DEF Cycles
    <3>4. /\ cycle'.pc = "decide" /\ cycle'.reserved = cycle.reserved
          /\ cycle'.cancels = cycle.cancels /\ cycle'.held = book
      BY <1>2, <3>2 DEF Cycles
    <3>5. Going'
      BY <1>1, <1>2, <2>3, <3>4 DEF Going, Quiet
    <3>. QED
      BY <3>3, <3>5
  <2>. QED
    BY <2>1, <2>2, <2>3
<1>8. ASSUME NEW t \in Targets, Decide(t)
      PROVE  cycle' \in Cycles /\ Going'
  <2>1. CASE EndCycle
    BY <1>4, <2>1
  <2>2. CASE ~EndCycle
    <3>1. /\ cycle' = [cycle EXCEPT !.pc = "order", !.target = t]
          /\ ~Obsolete(t) /\ Differs(t) /\ cycle.pc = "decide"
      BY <1>8, <2>2 DEF Decide, At
    <3>2. /\ cycle' \in Cycles /\ cycle'.pc = "order" /\ cycle'.target = t
          /\ cycle'.reserved = cycle.reserved /\ cycle'.cancels = cycle.cancels
          /\ cycle'.held = cycle.held
      BY <1>2, <1>8, <3>1 DEF Cycles, Places
    <3>3. t # Effective /\ ~cycle.cancels
      BY <1>2, <3>1 DEF Obsolete, Differs
    <3>4. t # cycle'.held + cycle'.reserved /\ ~cycle'.cancels
      BY <3>2, <3>3 DEF Effective
    <3>. QED
      BY <1>1, <1>2, <1>8, <3>1, <3>2, <3>3, <3>4 DEF Going, Quiet, Effective
  <2>. QED
    BY <2>1, <2>2
<1>. QED
  BY <1>5, <1>6, <1>7, <1>8

(* The placement.                                                           *)
LEMMA Placement ==
  ASSUME Course, At("regate"), NEW v \in BOOLEAN, Placed(v)
  PROVE  /\ order' \in Seq(Book) /\ Len(order') <= MaxOrders
         /\ DOMAIN order \subseteq DOMAIN order'
         /\ \A i \in DOMAIN order : order'[i] = order[i]
         /\ \A i \in DOMAIN order' \ DOMAIN order : order'[i].bound = v
         /\ Balance(position, book, order') /\ Bounded(position, order')
         /\ (\A i \in DOMAIN order : order[i].bound) =>
              position + Total(Rest(order'), On(order', 1)) - Total(Rest(order'), On(order', -1))
                = cycle.target
<1>. DEFINE o == New(v)
<1>1. /\ order \in Seq(Book) /\ order' = Append(order, o) /\ Len(order) < MaxOrders
      /\ position \in Int /\ book \in Int /\ cycle \in Cycles
      /\ Balance(position, book, order) /\ Bounded(position, order)
  BY DEF Course, Kinds, Cycles, Placed
<1>2. /\ Quiet /\ cycle.target \in Targets /\ cycle.target # Effective
      /\ Effective = book + Total(Asked(order), NotBound(order, 1)) - Total(Asked(order), NotBound(order, -1))
  <2>1. cycle.pc = "regate" /\ Going
    BY DEF At, Course
  <2>2. /\ ~cycle.cancels /\ cycle.target \in Targets /\ cycle.target # Effective
    BY <2>1 DEF Going
  <2>3. /\ Quiet /\ cycle.held = book
        /\ cycle.reserved = Total(Asked(order), NotBound(order, 1)) - Total(Asked(order), NotBound(order, -1))
    BY <2>1, <2>2 DEF Going
  <2>4. /\ Total(Asked(order), NotBound(order, 1)) \in Nat
        /\ Total(Asked(order), NotBound(order, -1)) \in Nat
    BY <1>1, TotalsAreNumbers
  <2>. QED
    BY <1>1, <2>2, <2>3, <2>4 DEF Effective
<1>3. cycle.target \in 0 .. Largest /\ cycle.target \in Int /\ Effective \in Int
  <2>1. cycle.target \in 0 .. Largest
    BY <1>2, CycleAssumption
  <2>2. cycle.held \in Int /\ cycle.reserved \in Int
    BY <1>1 DEF Cycles
  <2>. QED
    BY <2>1, <2>2, CycleAssumption DEF Effective
<1>4. /\ Side \in Sides /\ Quantity \in Nat \ {0} /\ Side * Quantity = cycle.target - Effective
  <2>1. Delta \in Int /\ Delta # 0 /\ Delta = cycle.target - Effective
    BY <1>2, <1>3 DEF Delta
  <2>2. CASE Delta > 0
    BY <2>1, <2>2 DEF Side, Quantity, Sides
  <2>3. CASE ~(Delta > 0)
    BY <2>1, <2>3 DEF Side, Quantity, Sides
  <2>. QED
    BY <2>2, <2>3
<1>5. o \in Book
  BY <1>4 DEF New, Book, Orders, Sane
<1>6. /\ o.side = Side /\ o.quantity = Quantity /\ o.open /\ o.filled = 0 /\ o.booked = 0
      /\ o.bound = v
  BY DEF New
<1>. HIDE DEF o
<1>7. Completes(order, o, order', book, cycle.target)
  <2>1. Appends(order, o, order')
    BY <1>1, <1>5 DEF Appends
  <2>2. o.side * o.quantity = cycle.target - (book + Total(Asked(order), NotBound(order, 1))
                                                   - Total(Asked(order), NotBound(order, -1)))
    BY <1>2, <1>4, <1>6
  <2>. QED
    BY <1>2, <1>3, <1>6, <2>1, <2>2 DEF Completes, Quiet
<1>8. /\ Balance(position, book, order') /\ Bounded(position, order')
      /\ (\A i \in DOMAIN order : order[i].bound) =>
           position + Total(Rest(order'), On(order', 1)) - Total(Rest(order'), On(order', -1))
             = cycle.target
  BY <1>1, <1>7, Completed
<1>9. /\ order' \in Seq(Book) /\ Len(order') = Len(order) + 1 /\ Len(order) \in Nat
      /\ DOMAIN order' = DOMAIN order \cup {Len(order) + 1}
      /\ \A i \in DOMAIN order : order'[i] = order[i]
      /\ order'[Len(order) + 1] = o
  BY <1>1, <1>5
<1>10. Len(order') <= MaxOrders
  BY <1>1, <1>9, CycleAssumption
<1>. QED
  BY <1>6, <1>8, <1>9, <1>10

LEMMA PlacementStep ==
  ASSUME Course, Post
  PROVE  /\ Course'
         /\ Len(order') > Len(order) /\ unknown' = 0 =>
              position' + Total(Unfilled, Working(1))' - Total(Unfilled, Working(-1))' = cycle.target
<1>1. /\ At("regate") /\ cycle' = Waiting /\ UNCHANGED <<position, book, poll>>
      /\ poll \in Polls /\ Polling /\ Known /\ order \in Seq(Book) /\ position \in Int /\ book \in Int
      /\ unknown \in 0 .. MaxUnknown
  BY DEF Post, EndCycle, Course, Kinds, Polls
<1>2. poll' \in Polls /\ cycle' \in Cycles /\ Going'
  BY <1>1 DEF Waiting, Cycles, Places, Going
<1>3. CASE UNCHANGED <<order, unknown>>
  <2>1. Course'
    BY <1>1, <1>2, <1>3, OrdersStay DEF Polling
  <2>2. ~(Len(order') > Len(order))
    BY <1>1, <1>3
  <2>. QED
    BY <2>1, <2>2
<1>4. ASSUME NEW v \in BOOLEAN, Placed(v), unknown' \in 0 .. MaxUnknown,
             unknown' = 0 => v /\ unknown = 0
      PROVE  /\ Course'
             /\ unknown' = 0 => position' + Total(Unfilled, Working(1))'
                                   - Total(Unfilled, Working(-1))' = cycle.target
  <2>1. /\ order' \in Seq(Book) /\ Len(order') <= MaxOrders
        /\ DOMAIN order \subseteq DOMAIN order' /\ \A i \in DOMAIN order : order'[i] = order[i]
        /\ \A i \in DOMAIN order' \ DOMAIN order : order'[i].bound = v
    BY <1>1, <1>4, Placement
  <2>2. /\ Balance(position, book, order') /\ Bounded(position, order')
        /\ (\A i \in DOMAIN order : order[i].bound) =>
             position + Total(Rest(order'), On(order', 1)) - Total(Rest(order'), On(order', -1))
               = cycle.target
    BY <1>1, <1>4, Placement
  <2>3. Kinds'
    BY <1>1, <1>2, <1>4, <2>1 DEF Kinds, Polls, Cycles
  <2>4. Polling'
    BY <1>1, <2>1 DEF Polling
  <2>5. Known'
    BY <1>1, <1>4, <2>1 DEF Known
  <2>6. Course'
    BY <1>1, <1>2, <2>2, <2>3, <2>4, <2>5 DEF Course
  <2>7. ASSUME unknown' = 0
        PROVE  position' + Total(Unfilled, Working(1))' - Total(Unfilled, Working(-1))' = cycle.target
    <3>1. /\ Total(Unfilled, Working(1))' = Total(Rest(order'), On(order', 1))
          /\ Total(Unfilled, Working(-1))' = Total(Rest(order'), On(order', -1))
      BY <2>1, SameTotals DEF Unfilled, Working
    <3>2. \A i \in DOMAIN order : order[i].bound
      BY <1>1, <1>4, <2>7 DEF Known
    <3>. QED
      BY <1>1, <2>2, <3>1, <3>2
  <2>. QED
    BY <2>6, <2>7
<1>5. \/ UNCHANGED <<order, unknown>>
      \/ Placed(TRUE) /\ UNCHANGED unknown
      \/ Placed(FALSE) /\ unknown < MaxUnknown /\ unknown' = unknown + 1
  BY DEF Post
<1>6. CASE Placed(TRUE) /\ UNCHANGED unknown
  BY <1>1, <1>4, <1>6
<1>7. CASE Placed(FALSE) /\ unknown < MaxUnknown /\ unknown' = unknown + 1
  <2>1. unknown' \in 0 .. MaxUnknown /\ unknown' # 0
    BY <1>1, <1>7, CycleAssumption
  <2>. QED
    BY <1>4, <1>7, <2>1
<1>. QED
  BY <1>3, <1>5, <1>6, <1>7

(* The other callers, the calendar, a person; the death of the process.     *)
LEMMA OutsideStep ==
  ASSUME Course, Around \/ Restart \/ UNCHANGED vars
  PROVE  Course' /\ Len(order') = Len(order)
<1>1. CASE Around \/ UNCHANGED vars
  <2>1. UNCHANGED cycleVars
    BY <1>1 DEF Around, vars
  <2>2. /\ UNCHANGED <<position, book, order, unknown>> /\ poll' \in Polls /\ Polling'
        /\ cycle' \in Cycles /\ Going'
    BY <2>1 DEF cycleVars, Course, Kinds, Polls, Cycles, Polling, Going, Quiet, Effective
  <2>. QED
    BY <2>2, OrdersStay
<1>2. CASE Restart
  <2>1. UNCHANGED <<position, book, order, unknown>> /\ cycle' = Waiting /\ poll' = NoPoll
    BY <1>2 DEF Restart
  <2>2. poll' \in Polls /\ Polling' /\ cycle' \in Cycles /\ Going'
    BY <2>1 DEF Polls, Polling, NoPoll, Waiting, Cycles, Places, Going
  <2>. QED
    BY <2>1, <2>2, OrdersStay
<1>. QED
  BY <1>1, <1>2

LEMMA CourseStep ==
  ASSUME Course, [Next]_vars
  PROVE  /\ Course'
         /\ Len(order') > Len(order) /\ unknown' = 0 =>
              position' + Total(Unfilled, Working(1))' - Total(Unfilled, Working(-1))' = cycle.target
<1>1. ASSUME Course' /\ Len(order') = Len(order)
      PROVE  Course' /\ ~(Len(order') > Len(order))
  <2>1. Len(order) \in Nat
    BY DEF Course, Kinds
  <2>. QED
    BY <1>1, <2>1
<1>2. CASE Begin \/ Order \/ Blocked \/ Killed \/ Snapshot \/ \E t \in Targets : Decide(t)
  BY <1>1, <1>2, CycleStep
<1>3. CASE Post
  BY <1>3, PlacementStep
<1>4. ASSUME NEW i \in DOMAIN order, Fill(i) \/ Close(i)
      PROVE  Course' /\ Len(order') = Len(order)
  BY <1>4, BrokerStep
<1>5. ASSUME NEW i \in DOMAIN order, Observe(i)
      PROVE  Course' /\ Len(order') = Len(order)
  BY <1>5, ObservationStep
<1>6. CASE BookFill \/ LedgerFill
  BY <1>1, <1>6, BookingStep
<1>7. CASE Around \/ Restart \/ UNCHANGED vars
  BY <1>1, <1>7, OutsideStep
<1>. QED
  BY <1>1, <1>2, <1>3, <1>4, <1>5, <1>6, <1>7 DEF Next

LEMMA CourseInvariant == Spec => []Course
<1>1. Course /\ [Next]_vars => Course'
  BY CourseStep
<1>. QED
  BY <1>1, CourseInit, PTL DEF Spec
----------------------------------------------------------------------------
(* For any targets and any number of orders, of restarts and of outcomes    *)
(* nobody knows: neither what the account holds nor what its working orders *)
(* may still do goes beyond the largest target, nor short, but for the      *)
(* quantity of the unknown orders (targets.py:520-570).                     *)
THEOREM WithinTargets == Spec => []NeverBeyondTargets
<1>1. ASSUME Course PROVE NeverBeyondTargets
  <2>1. order \in Seq(Book) /\ Bounded(position, order)
    BY <1>1 DEF Course, Kinds
  <2>. QED
    BY <2>1, Potentials DEF Bounded, Most, Least, NeverBeyondTargets, Sides
<1>. QED
  BY <1>1, CourseInvariant, PTL

(* An order completes the account to the target of its cycle, whatever is   *)
(* filled, booked or closed between the two reads of the snapshot and the   *)
(* placement (live_session.py:531-532, targets.py:394).                     *)
THEOREM CompletesTheTarget == Spec => OrdersCompleteTheTarget
<1>1. Course /\ [Next]_vars =>
        [Len(order') > Len(order) /\ unknown' = 0 =>
           position' + Total(Unfilled, Working(1))' - Total(Unfilled, Working(-1))' = cycle.target]_vars
  BY CourseStep
<1>. QED
  BY <1>1, CourseInvariant, PTL DEF Spec, OrdersCompleteTheTarget
----------------------------------------------------------------------------
(* The gate inside the cycle: but for a placement, which is a Leave that    *)
(* may also engage the switch, its steps are those of DailyLoss.            *)
LEMMA DayStep ==
  ASSUME DayInv, [Next]_vars, "read" \notin Faults
  PROVE  DayInv'
<1>1. ASSUME [GateNext]_gateVars PROVE DayInv'
  BY <1>1, KeptStep, CopiesStep DEF DayInv
<1>2. ASSUME UNCHANGED gateVars PROVE DayInv'
  BY <1>1, <1>2
<1>3. CASE Begin \/ Order
  <2>1. Enter(Session)
    BY <1>3 DEF Begin, Order, Ask
  <2>. QED
    BY <1>1, <2>1, CycleAssumption DEF GateNext
<1>4. CASE Snapshot
  <2>1. Leave(Session) \/ UNCHANGED gateVars
    BY <1>4 DEF Snapshot, Passed
  <2>. QED
    BY <1>1, <1>2, <2>1, CycleAssumption DEF GateNext
<1>5. CASE Post
  <2>1. /\ UNCHANGED <<today, captured, sod>> /\ call' = [call EXCEPT ![Session] = Outside]
        /\ engaged' \in {TRUE, engaged} /\ Session \in Callers
    BY <1>5, CycleAssumption DEF Post, Refuse
  <2>2. GateTypeOK /\ Captures /\ Observed
    BY DEF DayInv, Kept
  <2>3. GateTypeOK'
    <3>1. Outside \in [pc : {"outside", "observed", "breached", "passed"},
                       value : Values \cup {NoValue}, date : Dates \cup {NoDate}]
      BY DEF Outside
    <3>2. engaged' \in BOOLEAN
      BY <2>1, <2>2 DEF GateTypeOK
    <3>. QED
      BY <2>1, <2>2, <3>1, <3>2 DEF GateTypeOK
  <2>4. (Captures /\ Observed)'
    BY <2>1, <2>2 DEF Captures, Observed, Outside, GateTypeOK
  <2>5. Memory => Memory'
    BY <2>1 DEF Memory, Sure
  <2>6. Copies => Copies'
    BY <2>1, <2>2 DEF Copies, Sure, Outside, GateTypeOK
  <2>. QED
    BY <2>3, <2>4, <2>5, <2>6 DEF DayInv, Kept
<1>6. CASE Around
  <2>1. GateNext
    BY <1>6 DEF Around, GateNext
  <2>. QED
    BY <1>1, <2>1
<1>7. CASE Restart
  <2>1. GateNext
    BY <1>7 DEF Restart, GateNext
  <2>. QED
    BY <1>1, <2>1
<1>8. CASE \/ Blocked \/ Killed \/ BookFill \/ LedgerFill \/ UNCHANGED vars
           \/ \E t \in Targets : Decide(t)
           \/ \E i \in DOMAIN order : Fill(i) \/ Close(i) \/ Observe(i)
  <2>1. UNCHANGED gateVars
    BY <1>8 DEF Blocked, Killed, BookFill, LedgerFill, Decide, Fill, Close, Observe, vars
  <2>. QED
    BY <1>2, <2>1
<1>. QED
  BY <1>3, <1>4, <1>5, <1>6, <1>7, <1>8 DEF Next

LEMMA DayInTheCycle ==
  ASSUME "read" \notin Faults
  PROVE  Spec => []DayInv
<1>1. Init => DayInv
  BY DayInit DEF Init
<1>2. DayInv /\ [Next]_vars => DayInv'
  BY DayStep
<1>. QED
  BY <1>1, <1>2, PTL DEF Spec

(* The session that trades through the gate shares it with the other        *)
(* callers: a day still has one start-of-day value (circuit_breaker.py:     *)
(* 208-235, live_session.py:598-632).                                       *)
THEOREM OneBaselineInTheCycle ==
  ASSUME "read" \notin Faults
  PROVE  Spec => []OneBaselinePerDay
<1>1. DayInv => OneBaselinePerDay
  BY DEF DayInv, Kept, Captures, OneBaselinePerDay
<1>. QED
  BY <1>1, DayInTheCycle, PTL

(* Who passes the gate of the cycle, the session before it places an order  *)
(* included, has read a value above the day's limit (circuit_breaker.py:    *)
(* 118-143).                                                                *)
THEOREM LossLimitInTheCycle ==
  ASSUME "read" \notin Faults, "overrun" \notin Faults
  PROVE  Spec => []PassedWithinLimit
<1>1. DayInv => PassedWithinLimit
  BY Passing
<1>. QED
  BY <1>1, DayInTheCycle, PTL

(* Every variable keeps its type, and an order's ledger is never ahead of   *)
(* its book nor its fill beyond its quantity.                               *)
THEOREM TypeCorrect ==
  ASSUME "read" \notin Faults
  PROVE  Spec => []TypeOK
<1>1. ASSUME Course, DayInv PROVE TypeOK
  <2>1. Kinds /\ Polling /\ GateTypeOK
    BY <1>1 DEF Course, DayInv, Kept
  <2>2. order \in Seq(Orders) /\ Len(order) \in Nat /\ DOMAIN order = 1 .. Len(order)
    BY <2>1 DEF Kinds, Book
  <2>3. \A i \in DOMAIN order :
          order[i].ledgered <= order[i].booked /\ order[i].filled <= order[i].quantity
    BY <2>1 DEF Kinds, Book, Sane
  <2>4. poll \in [on : 0 .. Len(order), filled : Nat, open : BOOLEAN,
                  stage : {"none", "book", "ledger"}]
    <3>1. poll \in Polls /\ poll.on \in 0 .. Len(order)
      BY <2>1, <2>2 DEF Kinds, Polling, Polls
    <3>. QED
      BY <3>1 DEF Polls
  <2>. QED
    BY <2>1, <2>2, <2>3, <2>4 DEF Kinds, TypeOK
<1>. QED
  BY <1>1, CourseInvariant, DayInTheCycle, PTL
=============================================================================
