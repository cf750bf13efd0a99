----------------------- MODULE PatientExecutorProofs -----------------------
(***************************************************************************)
(* The theorems about PatientExecutor, for every quantity, set of prices,  *)
(* envelope and number of children, as long as order_status finds the      *)
(* order it is asked for.                                                  *)
(*                                                                         *)
(* NeverOverfills is not inductive: that a replacement may be placed for   *)
(* `remaining' units needs the books of the execution to agree with the    *)
(* broker at that moment, which holds because the child before is over     *)
(* (Shape) and was banked after it was (Books).                            *)
(***************************************************************************)
EXTENDS PatientExecutor, TotalsProofs

(* The chain of children: only the last may work.                          *)
Shape ==
  /\ \A c \in Children : c > sent => order[c] = NoOrder
  /\ \A c \in Children : c < sent => order[c].status \in Terminal
  /\ \A c \in Children : order[c].filled <= order[c].quantity
  /\ \A c \in Children : order[c].status \in Live => order[c].filled < order[c].quantity

(* What the execution has banked of the child it knows of, and what it     *)
(* knows where it decides.                                                 *)
Books ==
  /\ child <= sent
  /\ child = 0 => booked = Nothing /\ remaining = Quantity
  /\ child > 0 => /\ booked.filled <= order[child].filled
                  /\ booked.cost <= order[child].cost
                  /\ remaining = order[child].quantity - booked.filled
  /\ pc \in {"idle", "begin"} => sent = 0
  /\ pc \in {"landed", "wait", "poll", "decide", "cancel", "confirm"} =>
       child > 0 /\ child = sent
  /\ pc = "confirm" => attempts > 0
  /\ pc = "last" => child > 0

\* The child it knows of is the last one, is over, and is banked in full.
Settled ==
  /\ child = sent
  /\ child > 0 => order[child].status \notin Live /\ booked.filled = order[child].filled

Placeable == pc = "place" => remaining > 0 /\ Settled /\ (child > 0 => Dead)

(* The last child asks for exactly what the ones before it left.           *)
Exact == sent > 0 => order[sent].quantity - order[sent].filled = Quantity - FilledUnits

\* The order that a placement sends.
Ordered == [quantity |-> remaining, limit |-> limit, filled |-> 0, cost |-> 0,
            status |-> "OPEN"]

Reported ==
  /\ pc # "over" => report = "none"
  /\ report \in Outcomes => Settled /\ (report = "filled" => remaining = 0)

IInv == TypeOK /\ Shape /\ Books /\ Placeable /\ Exact /\ Reported
----------------------------------------------------------------------------
(* Facts about the sums over the children.                                 *)

LEMMA TotalOfZeros ==
  ASSUME NEW S, NEW f, \A x \in S : f[x] = 0
  PROVE  Total(f, S) = 0
<1>1. UnitsOf(f, S) = {}
  BY DEF UnitsOf
<1>. QED  BY <1>1, FS_EmptySet DEF Total

LEMMA ChildrenFinite == IsFiniteSet(Children)
BY FS_Interval, ExecutorAssumption DEF Children

LEMMA FilledUnitsType ==
  ASSUME TypeOK
  PROVE  FilledUnits \in Nat
<1>. DEFINE f == [c \in Children |-> order[c].filled]
<1>1. \A c \in Children : f[c] \in Nat
  BY ExecutorAssumption DEF TypeOK
<1>2. Total(f, Children) \in Nat
  <2>. HIDE DEF f
  <2>. QED  BY <1>1, ChildrenFinite, TotalType
<1>. QED  BY <1>2 DEF FilledUnits

(* Steps that fill nothing leave the filled units alone.                   *)
LEMMA FilledUnitsSame ==
  ASSUME \A c \in Children : order'[c].filled = order[c].filled
  PROVE  FilledUnits' = FilledUnits
<1>. DEFINE f == [c \in Children |-> order[c].filled]
            g == [c \in Children |-> order'[c].filled]
<1>1. Total(g, Children) = Total(f, Children)
  <2>1. \A c \in Children : g[c] = f[c]
    OBVIOUS
  <2>. HIDE DEF f, g
  <2>. QED  BY <2>1, TotalAgree
<1>. QED  BY <1>1 DEF FilledUnits

(* A fill adds one unit.                                                   *)
LEMMA FilledUnitsGrow ==
  ASSUME TypeOK, TypeOK', NEW k \in Children,
         order'[k].filled = order[k].filled + 1,
         \A c \in Children \ {k} : order'[c].filled = order[c].filled
  PROVE  FilledUnits' = FilledUnits + 1
<1>. DEFINE f == [c \in Children |-> order[c].filled]
            g == [c \in Children |-> order'[c].filled]
            rest == Children \ {k}
<1>1. (\A c \in Children : f[c] \in Nat) /\ (\A c \in Children : g[c] \in Nat)
  BY ExecutorAssumption DEF TypeOK
<1>2. g[k] = f[k] + 1 /\ \A c \in rest : g[c] = f[c]
  OBVIOUS
<1>3. Total(g, Children) = Total(f, Children) + 1
  <2>. HIDE DEF f, g
  <2>1. Total(f, Children) = Total(f, rest) + f[k]
    BY <1>1, ChildrenFinite, TotalSplit
  <2>2. Total(g, Children) = Total(g, rest) + g[k]
    BY <1>1, ChildrenFinite, TotalSplit
  <2>3. Total(g, rest) = Total(f, rest)
    BY <1>2, TotalAgree
  <2>4. Total(f, rest) \in Nat
    BY <1>1, ChildrenFinite, FS_RemoveElement, TotalType
  <2>. QED  BY <1>1, <1>2, <2>1, <2>2, <2>3, <2>4
<1>. QED  BY <1>3 DEF FilledUnits

(* Only the last child can be working.                                     *)
LEMMA WorkingIsLast ==
  ASSUME TypeOK, Shape
  PROVE  WorkingUnits = IF sent > 0 /\ order[sent].status \in Live
                        THEN order[sent].quantity - order[sent].filled ELSE 0
<1>. DEFINE f == [c \in Children |-> IF order[c].status \in Live
                                     THEN order[c].quantity - order[c].filled ELSE 0]
<1>1. \A c \in Children : c # sent => f[c] = 0
  <2>1. ASSUME NEW c \in Children, c # sent PROVE order[c].status \notin Live
    <3>1. sent \in Int /\ c \in Int
      BY ExecutorAssumption DEF TypeOK, Children
    <3>2. CASE c > sent
      BY <3>2 DEF Shape, NoOrder, Live
    <3>3. CASE c < sent
      BY <3>3 DEF Shape, Terminal, Live
    <3>. QED  BY <2>1, <3>1, <3>2, <3>3
  <2>. QED  BY <2>1
<1>2. \A c \in Children : f[c] \in Nat
  BY ExecutorAssumption DEF TypeOK, Shape
<1>3. WorkingUnits = Total(f, Children)
  BY DEF WorkingUnits
<1>4. CASE sent > 0
  <2>1. sent \in Children
    BY <1>4 DEF TypeOK, Children
  <2>2. Total(f, Children) = f[sent]
    <3>. HIDE DEF f
    <3>1. Total(f, Children) = Total(f, Children \ {sent}) + f[sent]
      BY <1>2, <2>1, ChildrenFinite, TotalSplit
    <3>2. Total(f, Children \ {sent}) = 0
      BY <1>1, TotalOfZeros
    <3>. QED  BY <1>2, <2>1, <3>1, <3>2
  <2>. QED  BY <1>3, <1>4, <2>1, <2>2
<1>5. CASE ~(sent > 0)
  <2>1. \A c \in Children : f[c] = 0
    BY <1>1, <1>5 DEF TypeOK, Children
  <2>2. Total(f, Children) = 0
    <3>. HIDE DEF f
    <3>. QED  BY <2>1, TotalOfZeros
  <2>. QED  BY <1>3, <1>5, <2>2
<1>. QED  BY <1>4, <1>5

LEMMA NothingFilled ==
  ASSUME TypeOK, Shape, sent = 0
  PROVE  FilledUnits = 0
<1>. DEFINE f == [c \in Children |-> order[c].filled]
<1>1. \A c \in Children : f[c] = 0
  BY DEF Shape, Children, NoOrder
<1>2. Total(f, Children) = 0
  <2>. HIDE DEF f
  <2>. QED  BY <1>1, TotalOfZeros
<1>. QED  BY <1>2 DEF FilledUnits
----------------------------------------------------------------------------
(* The invariant holds at first, and each step preserves it.               *)

LEMMA InitIInv == Init => IInv
<1>. SUFFICES ASSUME Init PROVE IInv
  OBVIOUS
<1>1. TypeOK
  <2>1. NoOrder \in [quantity : 0 .. Quantity, limit : Prices \cup {0},
                    filled : 0 .. Quantity, cost : Nat,
                    status : {"NONE"} \cup Live \cup Terminal]
    BY ExecutorAssumption DEF NoOrder
  <2>2. Nothing \in [filled : 0 .. Quantity, cost : Nat]
    BY ExecutorAssumption DEF Nothing
  <2>3. order \in [Children -> [quantity : 0 .. Quantity, limit : Prices \cup {0},
                               filled : 0 .. Quantity, cost : Nat,
                               status : {"NONE"} \cup Live \cup Terminal]]
    BY <2>1 DEF Init
  <2>4. /\ remaining \in 0 .. Quantity /\ child \in 0 .. MaxChildren
        /\ sent \in 0 .. MaxChildren /\ attempts \in 0 .. ConfirmAttempts
        /\ spent \in Nat /\ booked \in [filled : 0 .. Quantity, cost : Nat]
    BY <2>2, ExecutorAssumption DEF Init
  <2>. QED  BY <2>3, <2>4 DEF Init, TypeOK
<1>2. Shape
  BY ExecutorAssumption DEF Init, Shape, Children, NoOrder, Live
<1>3. Books /\ Placeable /\ Exact /\ Reported
  BY ExecutorAssumption DEF Init, Books, Placeable, Exact, Reported, Outcomes, Nothing
<1>. QED  BY <1>1, <1>2, <1>3 DEF IInv

LEMMA ChainKept ==
  ASSUME Shape, Exact, UNCHANGED brokerVars
  PROVE  Shape' /\ Exact'
<1>1. order' = order /\ sent' = sent
  BY DEF brokerVars
<1>2. FilledUnits' = FilledUnits
  BY <1>1, FilledUnitsSame
<1>. QED  BY <1>1, <1>2 DEF Shape, Exact

(* A request to cancel changes no quantity and no fill, and ends nothing.  *)
LEMMA RequestFillsNothing ==
  ASSUME TypeOK, NEW k \in Children, Request(k)
  PROVE  \A c \in Children : /\ order'[c].quantity = order[c].quantity
                            /\ order'[c].filled = order[c].filled
                            /\ order'[c].cost = order[c].cost
BY DEF TypeOK, Request

LEMMA RequestKeeps ==
  ASSUME TypeOK, Shape, Exact, NEW k \in Children, Request(k), UNCHANGED sent
  PROVE  /\ order' \in [Children -> [quantity : 0 .. Quantity, limit : Prices \cup {0},
                                     filled : 0 .. Quantity, cost : Nat,
                                     status : {"NONE"} \cup Live \cup Terminal]]
         /\ Shape' /\ Exact'
<1>1. CASE UNCHANGED order
  BY <1>1, ChainKept DEF TypeOK, brokerVars
<1>2. CASE /\ order[k].status = "OPEN"
           /\ order' = [order EXCEPT ![k].status = "CANCEL_REQUESTED"]
  <2>1. order' \in [Children -> [quantity : 0 .. Quantity, limit : Prices \cup {0},
                                filled : 0 .. Quantity, cost : Nat,
                                status : {"NONE"} \cup Live \cup Terminal]]
    BY <1>2 DEF TypeOK, Live
  <2>2. \A c \in Children : /\ order'[c].quantity = order[c].quantity
                           /\ order'[c].filled = order[c].filled
    BY RequestFillsNothing
  <2>3. \A c \in Children \ {k} : order'[c] = order[c]
    BY <1>2 DEF TypeOK
  <2>4. FilledUnits' = FilledUnits
    BY <2>2, FilledUnitsSame
  <2>5. order'[k].filled < order'[k].quantity
    BY <1>2, <2>2 DEF Shape, Live
  <2>6. Exact'
    BY <2>2, <2>4 DEF Exact, TypeOK, Children
  <2>7. Shape'
    <3>1. ~(k > sent) /\ ~(k < sent)
      BY <1>2 DEF Shape, NoOrder, Terminal
    <3>. QED  BY <2>2, <2>3, <2>5, <3>1 DEF Shape
  <2>. QED  BY <2>1, <2>6, <2>7
<1>. QED  BY <1>1, <1>2 DEF Request

(* After a poll the books agree with the broker about the child polled.    *)
LEMMA BankWorks ==
  ASSUME IInv, child > 0, Bank
  PROVE  /\ booked' \in [filled : 0 .. Quantity, cost : Nat]
         /\ remaining' \in 0 .. Quantity /\ spent' \in Nat
         /\ booked'.filled = order[child].filled /\ booked'.cost = order[child].cost
         /\ remaining' = order[child].quantity - order[child].filled
<1>1. child \in Children
  BY DEF IInv, TypeOK, Children
<1>2. /\ order[child].filled \in 0 .. Quantity /\ order[child].cost \in Nat
      /\ order[child].quantity \in 0 .. Quantity
      /\ order[child].filled <= order[child].quantity
  BY <1>1 DEF IInv, TypeOK, Shape
<1>3. /\ booked.filled \in 0 .. Quantity /\ booked.cost \in Nat
      /\ spent \in Nat /\ Quantity \in Nat
      /\ booked.cost <= order[child].cost
      /\ remaining = order[child].quantity - booked.filled
  BY ExecutorAssumption DEF IInv, TypeOK, Books
<1>4. /\ booked' = [filled |-> order[child].filled, cost |-> order[child].cost]
      /\ remaining' = remaining - (order[child].filled - booked.filled)
      /\ spent' = spent + (order[child].cost - booked.cost)
  BY DEF Bank
<1>5. remaining' = order[child].quantity - order[child].filled
  BY <1>2, <1>3, <1>4
<1>6. remaining' \in 0 .. Quantity
  BY <1>2, <1>3, <1>5
<1>7. spent' \in Nat
  BY <1>2, <1>3, <1>4
<1>. QED  BY <1>2, <1>4, <1>5, <1>6, <1>7

LEMMA BeginInv ==
  ASSUME IInv, Execute \/ Begin
  PROVE  IInv'
<1>. USE DEF workVars, priceVars, brokerVars, signalVars
<1>1. TypeOK'
  BY DEF IInv, TypeOK, Execute, Begin, Go, End, Outcomes
<1>2. Shape' /\ Exact'
  BY ChainKept DEF IInv, Execute, Begin
<1>3. Books'
  BY DEF IInv, Books, Execute, Begin, Go, End
<1>4. sent = 0 /\ child = 0 /\ remaining = Quantity /\ Quantity > 0
  BY ExecutorAssumption DEF IInv, Books, TypeOK, Execute, Begin
<1>5. Placeable' /\ Reported'
  BY <1>4 DEF IInv, Placeable, Reported, Settled, Execute, Begin, Go, End, Outcomes
<1>. QED  BY <1>1, <1>2, <1>3, <1>5 DEF IInv

LEMMA WaitInv ==
  ASSUME IInv, Wait \/ Decide
  PROVE  IInv'
<1>. USE DEF workVars, priceVars, brokerVars, signalVars
<1>1. TypeOK'
  BY DEF IInv, TypeOK, Wait, Decide, Go, Abort
<1>2. Shape' /\ Exact'
  BY ChainKept DEF IInv, Wait, Decide
<1>3. Books'
  BY DEF IInv, Books, Wait, Decide, Go, Abort
<1>4. Placeable' /\ Reported'
  BY DEF IInv, Placeable, Reported, Settled, Wait, Decide, Go, Abort, Outcomes
<1>. QED  BY <1>1, <1>2, <1>3, <1>4 DEF IInv

LEMMA PlaceInv ==
  ASSUME IInv, Place
  PROVE  IInv'
<1>. USE DEF workVars, priceVars, brokerVars, signalVars
<1>1. CASE Abort /\ UNCHANGED <<child, booked, brokerVars>>
  <2>1. TypeOK'
    BY <1>1 DEF IInv, TypeOK, Place, Go, Abort
  <2>2. Shape' /\ Exact'
    BY <1>1, ChainKept DEF IInv
  <2>3. Books'
    BY <1>1 DEF IInv, Books, Place, Go, Abort
  <2>4. Placeable' /\ Reported'
    BY <1>1 DEF IInv, Placeable, Reported, Settled, Place, Go, Abort, Outcomes
  <2>. QED  BY <2>1, <2>2, <2>3, <2>4 DEF IInv
<1>2. CASE Accept /\ \/ child' = sent' /\ booked' = Nothing /\ Go("landed")
                     \/ Abort /\ UNCHANGED <<child, booked>>
  <2>. DEFINE n == sent + 1
              new == Ordered
  <2>1. n \in Children /\ sent' = n /\ sent \in Nat /\ child = sent
    BY <1>2, ExecutorAssumption DEF Accept, IInv, TypeOK, Children, Placeable, Settled, Place
  <2>2. order' = [order EXCEPT ![n] = new]
    BY <1>2 DEF Accept, ChildQuantity, Ordered
  <2>3. remaining \in 1 .. Quantity /\ remaining' = remaining
    BY DEF IInv, TypeOK, Placeable, Place
  <2>4. new = [quantity |-> remaining, limit |-> limit, filled |-> 0, cost |-> 0,
               status |-> "OPEN"]
    BY DEF Ordered
  <2>5. order'[n] = new /\ \A c \in Children \ {n} : order'[c] = order[c]
    BY <2>1, <2>2 DEF IInv, TypeOK
  <2>6. order[n] = NoOrder
    BY <2>1 DEF IInv, Shape
  <2>7. TypeOK'
    <3>1. new \in [quantity : 0 .. Quantity, limit : Prices \cup {0},
                  filled : 0 .. Quantity, cost : Nat,
                  status : {"NONE"} \cup Live \cup Terminal]
      BY <2>3, <2>4, ExecutorAssumption DEF IInv, TypeOK, Live
    <3>2. order' \in [Children -> [quantity : 0 .. Quantity, limit : Prices \cup {0},
                                  filled : 0 .. Quantity, cost : Nat,
                                  status : {"NONE"} \cup Live \cup Terminal]]
      BY <2>1, <2>2, <3>1 DEF IInv, TypeOK
    <3>3. booked' \in [filled : 0 .. Quantity, cost : Nat]
      BY <1>2, ExecutorAssumption DEF Nothing, IInv, TypeOK
    <3>4. child' \in 0 .. MaxChildren /\ sent' \in 0 .. MaxChildren
      BY <1>2, <2>1 DEF IInv, TypeOK, Children
    <3>5. /\ pc' \in {"landed", "abort"} /\ report' = report
          /\ UNCHANGED <<remaining, spent, limit, target, why, attempts, told,
                        closed, engaged, expired>>
      BY <1>2 DEF Place, Go, Abort
    <3>. QED  BY <3>2, <3>3, <3>4, <3>5 DEF IInv, TypeOK
  <2>8. \A c \in Children : c < n => order[c].status \in Terminal
    <3>1. ASSUME NEW c \in Children, c < n PROVE order[c].status \in Terminal
      <4>1. c < sent \/ c = sent
        BY <2>1, <3>1 DEF Children
      <4>2. CASE c < sent
        BY <4>2 DEF IInv, Shape
      <4>3. CASE c = sent
        BY <2>1, <4>3 DEF IInv, Placeable, Settled, Place, Dead, Children
      <4>. QED  BY <4>1, <4>2, <4>3
    <3>. QED  BY <3>1
  <2>9. Shape'
    <3>1. \A c \in Children : c > n => order'[c] = NoOrder
      BY <2>1, <2>5 DEF IInv, Shape, Children
    <3>2. \A c \in Children : c < n => order'[c].status \in Terminal
      BY <2>1, <2>5, <2>8 DEF Children
    <3>3. \A c \in Children : order'[c].filled <= order'[c].quantity
      BY <2>3, <2>4, <2>5 DEF IInv, Shape
    <3>4. \A c \in Children : order'[c].status \in Live => order'[c].filled < order'[c].quantity
      BY <2>3, <2>4, <2>5 DEF IInv, Shape
    <3>. QED  BY <2>1, <3>1, <3>2, <3>3, <3>4 DEF Shape
  <2>10. Books'
    <3>1. CASE child' = sent' /\ booked' = Nothing /\ Go("landed")
      <4>1. booked'.filled = 0 /\ booked'.cost = 0 /\ order'[n].filled = 0 /\ order'[n].cost = 0
            /\ order'[n].quantity = remaining
        BY <2>4, <2>5, <3>1 DEF Nothing
      <4>. QED  BY <2>1, <2>3, <3>1, <4>1 DEF Books, Go
    <3>2. CASE Abort /\ UNCHANGED <<child, booked>>
      <4>1. child > 0 => child \in Children \ {n}
        BY <2>1 DEF IInv, TypeOK, Children
      <4>2. child > 0 => order'[child] = order[child]
        BY <2>5, <4>1
      <4>. QED  BY <2>1, <2>3, <3>2, <4>2 DEF IInv, Books, Abort, Go
    <3>. QED  BY <1>2, <3>1, <3>2
  <2>11. Exact'
    <3>1. FilledUnits' = FilledUnits
      BY <2>4, <2>5, <2>6, FilledUnitsSame DEF NoOrder
    <3>2. order'[n].quantity = remaining /\ order'[n].filled = 0
      BY <2>4, <2>5
    <3>3. remaining = Quantity - FilledUnits
      <4>1. CASE sent = 0
        BY <2>1, <4>1, NothingFilled, ExecutorAssumption DEF IInv, Books
      <4>2. CASE sent > 0
        BY <2>1, <4>2 DEF IInv, Books, Exact, Placeable, Settled, Place
      <4>. QED  BY <2>1, <4>1, <4>2
    <3>4. remaining \in Int
      BY <2>3
    <3>. QED  BY <2>1, <3>1, <3>2, <3>3, <3>4 DEF Exact
  <2>12. Placeable' /\ Reported'
    BY <1>2 DEF IInv, Placeable, Reported, Settled, Place, Go, Abort, Outcomes
  <2>. QED  BY <2>7, <2>9, <2>10, <2>11, <2>12 DEF IInv
<1>. QED  BY <1>1, <1>2 DEF Place

LEMMA PollInv ==
  ASSUME IInv, Poll, "unlisted" \notin Faults
  PROVE  IInv'
<1>. USE DEF workVars, priceVars, brokerVars, signalVars
<1>1. child > 0 /\ child = sent /\ child \in Children
  BY DEF IInv, TypeOK, Books, Poll, Children
<1>2. Shape' /\ Exact'
  BY ChainKept DEF IInv, Poll
<1>3. CASE Raises /\ Abort /\ UNCHANGED <<booked, remaining, spent>>
  <2>1. TypeOK'
    BY <1>3 DEF IInv, TypeOK, Poll, Go, Abort
  <2>2. Books'
    BY <1>3 DEF IInv, Books, Poll, Go, Abort
  <2>3. Placeable' /\ Reported'
    BY <1>3 DEF IInv, Placeable, Reported, Settled, Poll, Go, Abort, Outcomes
  <2>. QED  BY <1>2, <2>1, <2>2, <2>3 DEF IInv
<1>4. CASE /\ Bank
           /\ IF spent' > Budget THEN Abort
              ELSE IF remaining' <= 0 THEN End("filled")
              ELSE Go(IF pc = "landed" THEN "wait" ELSE "decide")
  <2>1. /\ booked' \in [filled : 0 .. Quantity, cost : Nat]
        /\ remaining' \in 0 .. Quantity /\ spent' \in Nat
        /\ booked'.filled = order[child].filled /\ booked'.cost = order[child].cost
        /\ remaining' = order[child].quantity - order[child].filled
    BY <1>1, <1>4, BankWorks
  <2>2. \/ pc' \in {"abort", "wait", "decide"} /\ report' = report
        \/ pc' = "over" /\ report' = "filled" /\ remaining' <= 0
    BY <1>4 DEF Abort, Go, End
  <2>3. UNCHANGED <<child, limit, target, why, attempts, order, sent, told, closed, engaged, expired>>
    BY DEF Poll
  <2>4. TypeOK'
    BY <2>1, <2>2, <2>3 DEF IInv, TypeOK, Outcomes
  <2>5. order[child].filled <= order[child].filled /\ order[child].cost <= order[child].cost
    BY <1>1 DEF IInv, TypeOK
  <2>6. Books'
    BY <1>1, <2>1, <2>2, <2>3, <2>5 DEF IInv, Books
  <2>7. pc # "over"
    BY DEF Poll
  <2>8. remaining' <= 0 => order[child].status \notin Live
    BY <1>1, <2>1 DEF IInv, TypeOK, Shape
  <2>9. Placeable' /\ Reported'
    BY <1>1, <2>1, <2>2, <2>3, <2>7, <2>8 DEF IInv, Placeable, Reported, Settled, Outcomes
  <2>. QED  BY <1>2, <2>4, <2>6, <2>9 DEF IInv
<1>. QED  BY <1>3, <1>4 DEF Poll, Unlisted

(* RequestCancel and Pull: a request for the child it knows of.            *)
LEMMA RequestInv ==
  ASSUME IInv, RequestCancel \/ Pull
  PROVE  IInv'
<1>. USE DEF workVars, priceVars, brokerVars, signalVars
<1>1. CASE Pull /\ child = 0
  <2>1. TypeOK'
    BY <1>1 DEF IInv, TypeOK, Pull, End
  <2>2. Shape' /\ Exact'
    BY <1>1, ChainKept DEF IInv, Pull
  <2>3. Books' /\ Placeable' /\ Reported'
    BY <1>1 DEF IInv, Books, Placeable, Reported, Settled, Pull, End, Outcomes
  <2>. QED  BY <2>1, <2>2, <2>3 DEF IInv
<1>2. CASE RequestCancel \/ (Pull /\ child # 0)
  <2>1. child > 0 /\ child \in Children
    BY <1>2 DEF IInv, TypeOK, Books, RequestCancel, Children
  <2>2. Request(child) /\ UNCHANGED sent
    BY <1>2 DEF RequestCancel, Pull
  <2>3. /\ order' \in [Children -> [quantity : 0 .. Quantity, limit : Prices \cup {0},
                                    filled : 0 .. Quantity, cost : Nat,
                                    status : {"NONE"} \cup Live \cup Terminal]]
        /\ Shape' /\ Exact'
    BY <2>1, <2>2, RequestKeeps DEF IInv
  <2>8. \A c \in Children : /\ order'[c].quantity = order[c].quantity
                           /\ order'[c].filled = order[c].filled
                           /\ order'[c].cost = order[c].cost
    BY <2>1, <2>2, RequestFillsNothing DEF IInv
  <2>4. /\ pc' \in {"confirm", "abort", "last"} /\ report' = report /\ pc # "over"
        /\ pc' = "confirm" => pc = "cancel" /\ attempts' = ConfirmAttempts
        /\ attempts' \in {attempts, ConfirmAttempts}
        /\ UNCHANGED <<child, booked, remaining, spent, limit, target, why, told,
                      closed, engaged, expired>>
    BY <1>2 DEF RequestCancel, Pull, Go, Abort
  <2>5. TypeOK'
    BY <2>2, <2>3, <2>4, ExecutorAssumption DEF IInv, TypeOK
  <2>6. Books'
    <3>1. /\ child' <= sent' /\ child' > 0
          /\ booked'.filled <= order'[child].filled /\ booked'.cost <= order'[child].cost
          /\ remaining' = order'[child].quantity - booked'.filled
      <4>1. child' = child /\ sent' = sent /\ booked' = booked /\ remaining' = remaining
        BY <2>2, <2>4
      <4>2. /\ order'[child].quantity = order[child].quantity
            /\ order'[child].filled = order[child].filled
            /\ order'[child].cost = order[child].cost
        BY <2>1, <2>8
      <4>3. /\ child <= sent /\ booked.filled <= order[child].filled
            /\ booked.cost <= order[child].cost
            /\ remaining = order[child].quantity - booked.filled
        BY <2>1 DEF IInv, Books
      <4>. QED  BY <2>1, <4>1, <4>2, <4>3
    <3>2. pc' = "confirm" => child' = sent' /\ attempts' > 0
      BY <2>2, <2>4, ExecutorAssumption DEF IInv, Books
    <3>3. child' # 0 /\ child' = child
      BY <2>1, <2>4, ExecutorAssumption DEF Children
    <3>. QED  BY <2>4, <3>1, <3>2, <3>3 DEF Books
  <2>7. Placeable' /\ Reported'
    BY <2>4 DEF IInv, Placeable, Reported, Outcomes
  <2>. QED  BY <2>3, <2>5, <2>6, <2>7 DEF IInv
<1>. QED  BY <1>1, <1>2 DEF RequestCancel, Pull

LEMMA ConfirmInv ==
  ASSUME IInv, Confirm, "unlisted" \notin Faults
  PROVE  IInv'
<1>. USE DEF workVars, priceVars, brokerVars, signalVars
<1>1. child > 0 /\ child = sent /\ child \in Children /\ attempts > 0 /\ pc = "confirm"
  BY DEF IInv, TypeOK, Books, Confirm, Children
<1>2. Shape' /\ Exact'
  BY ChainKept DEF IInv, Confirm
<1>3. CASE Raises /\ Abort /\ UNCHANGED <<booked, remaining, spent, limit, attempts>>
  <2>1. TypeOK'
    BY <1>3 DEF IInv, TypeOK, Confirm, Go, Abort
  <2>2. Books' /\ Placeable' /\ Reported'
    BY <1>3 DEF IInv, Books, Placeable, Reported, Confirm, Go, Abort, Outcomes
  <2>. QED  BY <1>2, <2>1, <2>2 DEF IInv
<1>4. CASE Bank
  <2>1. /\ booked' \in [filled : 0 .. Quantity, cost : Nat]
        /\ remaining' \in 0 .. Quantity /\ spent' \in Nat
        /\ booked'.filled = order[child].filled /\ booked'.cost = order[child].cost
        /\ remaining' = order[child].quantity - order[child].filled
    BY <1>1, <1>4, BankWorks
  <2>2. UNCHANGED <<child, target, why, order, sent, told, closed, engaged, expired>>
    BY DEF Confirm
  <2>3. order[child].filled <= order[child].filled /\ order[child].cost <= order[child].cost
    BY <1>1 DEF IInv, TypeOK
  <2>4. CASE Dead /\ Confirmed /\ UNCHANGED attempts
    <3>1. \/ pc' = "over" /\ report' \in Outcomes /\ limit' = limit
             /\ (report' = "filled" => remaining' <= 0)
          \/ pc' = "place" /\ report' = report /\ limit' = target /\ remaining' > 0
      BY <2>4 DEF Confirmed, Go, End, Outcomes
    <3>2. TypeOK'
      BY <2>1, <2>2, <2>4, <3>1 DEF IInv, TypeOK
    <3>3. Books'
      BY <1>1, <2>1, <2>2, <2>3, <3>1 DEF IInv, Books
    <3>4. Settled' /\ Dead'
      BY <1>1, <2>1, <2>2, <2>4 DEF Settled, Dead, Terminal, Live
    <3>5. Placeable' /\ Reported'
      BY <1>1, <2>1, <3>1, <3>4 DEF IInv, Placeable, Reported, Outcomes
    <3>. QED  BY <1>2, <3>2, <3>3, <3>5 DEF IInv
  <2>5. CASE /\ attempts' = attempts - 1 /\ UNCHANGED limit
             /\ IF spent' > Budget \/ attempts' = 0 THEN Abort ELSE Go("confirm")
    <3>1. /\ pc' \in {"abort", "confirm"} /\ report' = report
          /\ pc' = "confirm" => attempts' # 0
      BY <2>5 DEF Abort, Go
    <3>2. attempts' \in 0 .. ConfirmAttempts
      BY <1>1, <2>5, ExecutorAssumption DEF IInv, TypeOK
    <3>3. TypeOK'
      BY <2>1, <2>2, <2>5, <3>1, <3>2 DEF IInv, TypeOK
    <3>4. Books'
      BY <1>1, <2>1, <2>2, <2>3, <3>1, <3>2 DEF IInv, Books
    <3>5. Placeable' /\ Reported'
      BY <1>1, <3>1 DEF IInv, Placeable, Reported, Outcomes
    <3>. QED  BY <1>2, <3>3, <3>4, <3>5 DEF IInv
  <2>6. CASE Raises /\ Abort /\ UNCHANGED <<booked, remaining, spent, limit, attempts>>
    BY <1>3, <2>6
  <2>7. \/ Dead /\ Confirmed /\ UNCHANGED attempts
        \/ /\ attempts' = attempts - 1 /\ UNCHANGED limit
           /\ IF spent' > Budget \/ attempts' = 0 THEN Abort ELSE Go("confirm")
        \/ Raises /\ Abort /\ UNCHANGED <<booked, remaining, spent, limit, attempts>>
    BY DEF Confirm, Unlisted
  <2>. QED  BY <2>4, <2>5, <2>6, <2>7
<1>5. Bank \/ (Raises /\ Abort /\ UNCHANGED <<booked, remaining, spent, limit, attempts>>)
  BY DEF Confirm, Unlisted
<1>. QED  BY <1>3, <1>4, <1>5

LEMMA LastPollInv ==
  ASSUME IInv, LastPoll
  PROVE  IInv'
<1>. USE DEF workVars, priceVars, brokerVars, signalVars
<1>1. Shape' /\ Exact'
  BY ChainKept DEF IInv, LastPoll
<1>2. /\ pc' = "over" /\ report' = "error"
      /\ UNCHANGED <<child, limit, target, why, attempts, order, sent, told, closed, engaged,
                    expired>>
  BY DEF LastPoll, End
<1>3. Placeable' /\ Reported'
  BY <1>2 DEF Placeable, Reported, Outcomes
<1>4. CASE UNCHANGED <<booked, remaining, spent>>
  <2>1. TypeOK'
    BY <1>2, <1>4 DEF IInv, TypeOK
  <2>2. Books'
    BY <1>2, <1>4 DEF IInv, Books
  <2>. QED  BY <1>1, <1>3, <2>1, <2>2 DEF IInv
<1>5. CASE Bank
  <2>1. child > 0 /\ child \in Children
    BY DEF IInv, TypeOK, Books, LastPoll, Children
  <2>2. /\ booked' \in [filled : 0 .. Quantity, cost : Nat]
        /\ remaining' \in 0 .. Quantity /\ spent' \in Nat
        /\ booked'.filled = order[child].filled /\ booked'.cost = order[child].cost
        /\ remaining' = order[child].quantity - order[child].filled
    BY <1>5, <2>1, BankWorks
  <2>3. TypeOK'
    BY <1>2, <2>2 DEF IInv, TypeOK
  <2>4. order[child].filled <= order[child].filled /\ order[child].cost <= order[child].cost
    BY <2>1 DEF IInv, TypeOK
  <2>5. Books'
    BY <1>2, <2>1, <2>2, <2>4 DEF IInv, Books
  <2>. QED  BY <1>1, <1>3, <2>3, <2>5 DEF IInv
<1>. QED  BY <1>4, <1>5 DEF LastPoll

(* The broker fills or ends an order: only the last one can be.            *)
LEMMA BrokerInv ==
  ASSUME IInv, NEW k \in Children, Fill(k) \/ Close(k)
  PROVE  IInv'
<1>. USE DEF workVars, priceVars, brokerVars, signalVars
<1>1. order[k].status \in Live /\ k = sent /\ sent > 0
  <2>1. order[k].status \in Live
    BY DEF Fill, Close
  <2>2. ~(k > sent) /\ ~(k < sent)
    BY <2>1 DEF IInv, Shape, NoOrder, Live, Terminal
  <2>3. k \in Int /\ sent \in Int /\ k > 0
    BY ExecutorAssumption DEF IInv, TypeOK, Children
  <2>. QED  BY <2>1, <2>2, <2>3
<1>2. /\ order[k].filled < order[k].quantity /\ order[k].filled \in 0 .. Quantity
      /\ order[k].quantity \in 0 .. Quantity /\ order[k].cost \in Nat
      /\ Quantity \in Nat
  BY <1>1, ExecutorAssumption DEF IInv, TypeOK, Shape
<1>3. UNCHANGED <<pc, child, booked, remaining, spent, limit, target, why, attempts, report,
                sent, told, closed, engaged, expired>>
  BY DEF Fill, Close
<1>4. /\ order' \in [Children -> [quantity : 0 .. Quantity, limit : Prices \cup {0},
                                 filled : 0 .. Quantity, cost : Nat,
                                 status : {"NONE"} \cup Live \cup Terminal]]
      /\ \A c \in Children \ {k} : order'[c] = order[c]
      /\ order'[k].quantity = order[k].quantity /\ order'[k].cost >= order[k].cost
      /\ \/ order'[k].filled = order[k].filled /\ order'[k].status = "CANCELLED"
         \/ /\ order'[k].filled = order[k].filled + 1
            /\ order'[k].status = (IF order[k].filled + 1 = order[k].quantity
                                   THEN "EXECUTED" ELSE order[k].status)
  <2>1. CASE Close(k)
    BY <1>2, <2>1 DEF Close, IInv, TypeOK, Terminal
  <2>2. CASE Fill(k)
    <3>1. PICK p \in Prices : order' = [order EXCEPT ![k] = OneMore(order[k], p)]
      BY <2>2 DEF Fill
    <3>2. p \in Nat
      BY ExecutorAssumption
    <3>3. order[k].filled + 1 \in 0 .. Quantity /\ order[k].cost + p \in Nat
          /\ order[k].cost + p >= order[k].cost
      BY <1>2, <3>2
    <3>. DEFINE st == IF order[k].filled + 1 = order[k].quantity
                      THEN "EXECUTED" ELSE order[k].status
    <3>4. st \in {"NONE"} \cup Live \cup Terminal
      BY DEF IInv, TypeOK, Terminal
    <3>. DEFINE new == OneMore(order[k], p)
    <3>5. order' = [order EXCEPT ![k] = new]
      BY <3>1
    <3>6. /\ new \in [quantity : 0 .. Quantity, limit : Prices \cup {0}, filled : 0 .. Quantity,
                      cost : Nat, status : {"NONE"} \cup Live \cup Terminal]
          /\ new.filled = order[k].filled + 1 /\ new.cost = order[k].cost + p
          /\ new.quantity = order[k].quantity /\ new.status = st
      <4>1. order[k] \in [quantity : 0 .. Quantity, limit : Prices \cup {0},
                         filled : 0 .. Quantity, cost : Nat,
                         status : {"NONE"} \cup Live \cup Terminal]
        BY DEF IInv, TypeOK
      <4>2. new = [order[k] EXCEPT !.filled = order[k].filled + 1,
                                   !.cost = order[k].cost + p, !.status = st]
        BY DEF OneMore
      <4>. HIDE DEF st, new
      <4>. QED  BY <3>3, <3>4, <4>1, <4>2
    <3>7. order' \in [Children -> [quantity : 0 .. Quantity, limit : Prices \cup {0},
                                 filled : 0 .. Quantity, cost : Nat,
                                 status : {"NONE"} \cup Live \cup Terminal]]
          /\ order'[k] = new /\ \A c \in Children \ {k} : order'[c] = order[c]
      <4>. HIDE DEF new
      <4>. QED  BY <3>5, <3>6 DEF IInv, TypeOK
    <3>8. order[k].cost + p >= order[k].cost
      BY <3>3
    <3>. HIDE DEF new
    <3>. QED  BY <3>6, <3>7, <3>8
  <2>. QED  BY <2>1, <2>2
<1>5. TypeOK'
  BY <1>3, <1>4 DEF IInv, TypeOK
<1>6. Shape'
  <2>1. order'[k].filled <= order'[k].quantity
    BY <1>2, <1>4
  <2>2. order'[k].status \in Live => order'[k].filled < order'[k].quantity
    BY <1>2, <1>4 DEF Live
  <2>3. \A c \in Children : c = k \/ order'[c] = order[c]
    BY <1>4
  <2>4. ~(k > sent') /\ ~(k < sent') /\ sent' = sent
    BY <1>1, <1>3 DEF IInv, TypeOK
  <2>. QED  BY <2>1, <2>2, <2>3, <2>4 DEF IInv, Shape
<1>7. Exact'
  <2>1. FilledUnits' - FilledUnits = order'[k].filled - order[k].filled
        /\ FilledUnits \in Nat /\ FilledUnits' \in Nat
    <3>1. FilledUnits \in Nat
      BY FilledUnitsType DEF IInv
    <3>2. CASE order'[k].filled = order[k].filled
      <4>1. \A c \in Children : order'[c].filled = order[c].filled
        BY <1>4, <3>2
      <4>. QED  BY <1>2, <3>1, <3>2, <4>1, FilledUnitsSame
    <3>3. CASE order'[k].filled = order[k].filled + 1
      <4>1. FilledUnits' = FilledUnits + 1
        BY <1>4, <1>5, <3>3, FilledUnitsGrow DEF IInv
      <4>. QED  BY <1>2, <3>1, <3>3, <4>1
    <3>. QED  BY <1>4, <3>2, <3>3
  <2>. QED  BY <1>1, <1>2, <1>3, <1>4, <2>1 DEF IInv, Exact
<1>8. Books'
  <2>1. CASE child = 0
    BY <1>1, <1>3, <2>1 DEF IInv, Books
  <2>2. CASE child > 0
    <3>1. child \in Children
      BY <2>2 DEF IInv, TypeOK, Children
    <3>2. /\ order[child].filled \in Int /\ order[child].cost \in Int
          /\ booked.filled \in Int /\ booked.cost \in Int
      BY <3>1, ExecutorAssumption DEF IInv, TypeOK
    <3>3. /\ order'[child].quantity = order[child].quantity
          /\ order'[child].filled = order[child].filled
             \/ order'[child].filled = order[child].filled + 1
          /\ order'[child].cost >= order[child].cost /\ order'[child].cost \in Int
      BY <1>4, <3>1, <3>2
    <3>. QED  BY <1>3, <2>2, <3>2, <3>3 DEF IInv, Books
  <2>. QED  BY <2>1, <2>2 DEF IInv, TypeOK
<1>9. ~Settled
  BY <1>1 DEF Settled
<1>10. Placeable' /\ Reported'
  BY <1>3, <1>9 DEF IInv, Placeable, Reported
<1>. QED  BY <1>5, <1>6, <1>7, <1>8, <1>10 DEF IInv

LEMMA SignalInv ==
  ASSUME IInv, Signal \/ UNCHANGED vars
  PROVE  IInv'
<1>. USE DEF workVars, priceVars, brokerVars, signalVars
<1>1. UNCHANGED <<pc, workVars, priceVars, why, attempts, report, brokerVars>>
  BY DEF Signal, vars
<1>2. TypeOK'
  <2>1. /\ told' \in {"nothing", "cancel", "stop"} /\ closed' \in BOOLEAN
        /\ engaged' \in BOOLEAN /\ expired' \in BOOLEAN
    BY DEF IInv, TypeOK, Signal, CancelCurrent, Stop, AwaitIdle, Flip, Tick, vars
  <2>. QED  BY <1>1, <2>1 DEF IInv, TypeOK
<1>3. Shape' /\ Exact'
  BY <1>1, ChainKept DEF IInv
<1>4. Books' /\ Placeable' /\ Reported'
  BY <1>1 DEF IInv, Books, Placeable, Reported, Settled, Dead
<1>. QED  BY <1>2, <1>3, <1>4 DEF IInv

LEMMA NextIInv ==
  ASSUME IInv, [Next]_vars, "unlisted" \notin Faults
  PROVE  IInv'
BY BeginInv, PlaceInv, PollInv, WaitInv, RequestInv, ConfirmInv, LastPollInv, BrokerInv,
   SignalInv DEF Next, Run
----------------------------------------------------------------------------
(* The invariant says that the books are exact; the properties follow.     *)

LEMMA NoOverfill ==
  ASSUME IInv
  PROVE  NeverOverfills
<1>1. FilledUnits \in Nat
  BY FilledUnitsType DEF IInv
<1>2. Quantity \in Nat
  BY ExecutorAssumption
<1>3. WorkingUnits = IF sent > 0 /\ order[sent].status \in Live
                     THEN order[sent].quantity - order[sent].filled ELSE 0
  BY WorkingIsLast DEF IInv
<1>4. CASE sent = 0
  BY <1>2, <1>3, <1>4, NothingFilled DEF IInv, NeverOverfills
<1>5. CASE sent > 0
  <2>1. sent \in Children
    BY <1>5 DEF IInv, TypeOK, Children
  <2>2. /\ order[sent].quantity \in Int /\ order[sent].filled \in Int
        /\ order[sent].filled <= order[sent].quantity
    BY <2>1, ExecutorAssumption DEF IInv, TypeOK, Shape
  <2>3. order[sent].quantity - order[sent].filled = Quantity - FilledUnits
    BY <1>5 DEF IInv, Exact
  <2>. QED  BY <1>1, <1>2, <1>3, <2>2, <2>3 DEF NeverOverfills
<1>. QED  BY <1>4, <1>5 DEF IInv, TypeOK

LEMMA ExactReport ==
  ASSUME IInv
  PROVE  ReportIsExact
<1>. SUFFICES ASSUME report \in Outcomes
              PROVE  /\ WorkingUnits = 0
                     /\ FilledUnits = Quantity - remaining
                     /\ report = "filled" => FilledUnits = Quantity
  BY DEF ReportIsExact
<1>1. Settled /\ (report = "filled" => remaining = 0)
  BY DEF IInv, Reported
<1>2. WorkingUnits = 0
  BY <1>1, WorkingIsLast DEF IInv, Settled
<1>3. FilledUnits = Quantity - remaining
  <2>1. CASE sent = 0
    BY <1>1, <2>1, NothingFilled, ExecutorAssumption DEF IInv, Settled, Books
  <2>2. CASE sent > 0
    <3>1. order[sent].quantity - order[sent].filled = Quantity - FilledUnits
      BY <2>2 DEF IInv, Exact
    <3>2. remaining = order[sent].quantity - order[sent].filled
      BY <1>1, <2>2 DEF IInv, Settled, Books
    <3>3. FilledUnits \in Nat /\ Quantity \in Nat
      BY FilledUnitsType, ExecutorAssumption DEF IInv
    <3>. QED  BY <3>1, <3>2, <3>3
  <2>. QED  BY <2>1, <2>2 DEF IInv, TypeOK
<1>. QED  BY <1>1, <1>2, <1>3, ExecutorAssumption

LEMMA Inductive ==
  ASSUME "unlisted" \notin Faults
  PROVE  Spec => []IInv
<1>1. Init => IInv
  BY InitIInv
<1>2. IInv /\ [Next]_vars => IInv'
  BY NextIInv
<1>. QED  BY <1>1, <1>2, PTL DEF Spec

(* Every state of an execution is well-typed: `remaining' never goes below *)
(* zero, and what has been banked is never more than the broker filled.    *)
THEOREM TypeCorrect ==
  ASSUME "unlisted" \notin Faults
  PROVE  Spec => []TypeOK
<1>1. IInv => TypeOK
  BY DEF IInv
<1>. QED  BY <1>1, Inductive, PTL

(* Cancel and replace never buys more than was ordered (_cancel_confirmed, *)
(* _place_child and _poll), whatever fills race the cancellations and      *)
(* whichever calls fail.                                                   *)
THEOREM NoDoubleExecution ==
  ASSUME "unlisted" \notin Faults
  PROVE  Spec => []NeverOverfills
<1>1. IInv => NeverOverfills
  BY NoOverfill
<1>. QED  BY <1>1, Inductive, PTL

(* A report other than an error is exact: nothing is left working and      *)
(* every fill is in it.                                                    *)
THEOREM ReportsAreExact ==
  ASSUME "unlisted" \notin Faults
  PROVE  Spec => []ReportIsExact
<1>1. IInv => ReportIsExact
  BY ExactReport
<1>. QED  BY <1>1, Inductive, PTL
----------------------------------------------------------------------------
(* The refinement of ParentOrder.                                          *)

\* What the broker may still fill, once only the last child can.
LastWorking == IF sent > 0 /\ order[sent].status \in Live
               THEN order[sent].quantity - order[sent].filled ELSE 0

LEMMA RequestEndsNothing ==
  ASSUME TypeOK, NEW k \in Children, Request(k), NEW c \in Children
  PROVE  order'[c].status \in Live <=> order[c].status \in Live
<1>1. CASE UNCHANGED order
  BY <1>1
<1>2. CASE /\ order[k].status = "OPEN"
           /\ order' = [order EXCEPT ![k].status = "CANCEL_REQUESTED"]
  BY <1>2 DEF TypeOK, Live
<1>. QED  BY <1>1, <1>2 DEF Request

WorksLast == WorkingUnits = LastWorking

LEMMA LastWorks ==
  ASSUME IInv
  PROVE  WorksLast
BY WorkingIsLast DEF IInv, WorksLast, LastWorking

(* Cancel requests and steps that leave the broker's orders alone change   *)
(* neither sum.                                                            *)
LEMMA SameSums ==
  ASSUME IInv, WorksLast, WorksLast', UNCHANGED sent,
         UNCHANGED order \/ (\E k \in Children : Request(k))
  PROVE  FilledUnits' = FilledUnits /\ WorkingUnits' = WorkingUnits
<1>1. \A c \in Children : /\ order'[c].quantity = order[c].quantity
                         /\ order'[c].filled = order[c].filled
  BY RequestFillsNothing DEF IInv
<1>2. \A c \in Children : order'[c].status \in Live <=> order[c].status \in Live
  BY RequestEndsNothing DEF IInv
<1>3. FilledUnits' = FilledUnits
  BY <1>1, FilledUnitsSame
<1>4. sent > 0 => sent \in Children
  BY DEF IInv, TypeOK, Children
<1>5. LastWorking' = LastWorking
  BY <1>1, <1>2, <1>4 DEF LastWorking
<1>. QED  BY <1>3, <1>5 DEF WorksLast

LEMMA AcceptPlacesRest ==
  ASSUME IInv, IInv', WorksLast, WorksLast', Place, Accept
  PROVE  Parent!PlaceRest
<1>1. /\ remaining > 0 /\ Settled /\ sent \in Nat /\ sent + 1 \in Children
      /\ remaining \in Nat /\ Quantity \in Nat
  BY ExecutorAssumption DEF IInv, Placeable, Place, TypeOK, Accept, Children
<1>2. WorkingUnits = 0
  BY <1>1 DEF WorksLast, LastWorking, Settled
<1>3. FilledUnits \in Nat
  BY FilledUnitsType DEF IInv
<1>4. remaining = Quantity - FilledUnits
  <2>1. CASE sent = 0
    BY <1>1, <1>3, <2>1, NothingFilled DEF IInv, Settled, Books
  <2>2. CASE sent > 0
    BY <1>1, <2>2 DEF IInv, Settled, Books, Exact
  <2>. QED  BY <1>1, <2>1, <2>2
<1>5. order'[sent + 1] = Ordered /\ sent' = sent + 1
      /\ \A c \in Children \ {sent + 1} : order'[c] = order[c]
  BY <1>1 DEF Accept, ChildQuantity, Ordered, IInv, TypeOK
<1>6. order[sent + 1] = NoOrder
  BY <1>1 DEF IInv, Shape
<1>7. FilledUnits' = FilledUnits
  <2>1. \A c \in Children : order'[c].filled = order[c].filled
    BY <1>1, <1>5, <1>6 DEF Ordered, NoOrder
  <2>. QED  BY <2>1, FilledUnitsSame
<1>8. WorkingUnits' = remaining
  <2>1. LastWorking' = remaining
    BY <1>1, <1>5 DEF LastWorking, Ordered, Live
  <2>. QED  BY <2>1 DEF WorksLast
<1>. QED  BY <1>1, <1>2, <1>3, <1>4, <1>7, <1>8 DEF Parent!PlaceRest

LEMMA BrokerStep ==
  ASSUME IInv, IInv', WorksLast, WorksLast', NEW k \in Children, Fill(k) \/ Close(k)
  PROVE  Parent!FillOne \/ Parent!CloseChild
<1>1. order[k].status \in Live
  BY DEF Fill, Close
<1>2. k = sent /\ sent > 0 /\ sent' = sent
  <2>1. ~(k > sent) /\ ~(k < sent)
    BY <1>1 DEF IInv, Shape, NoOrder, Live, Terminal
  <2>2. k \in Int /\ sent \in Int /\ k > 0
    BY ExecutorAssumption DEF IInv, TypeOK, Children
  <2>. QED  BY <2>1, <2>2 DEF Fill, Close, brokerVars
<1>3. /\ order[k].filled \in Nat /\ order[k].quantity \in Nat
      /\ order[k].filled < order[k].quantity
  BY <1>1, ExecutorAssumption DEF IInv, TypeOK, Shape
<1>4. WorkingUnits = order[k].quantity - order[k].filled
  BY <1>1, <1>2 DEF WorksLast, LastWorking
<1>5. FilledUnits \in Nat
  BY FilledUnitsType DEF IInv
<1>6. CASE Close(k)
  <2>1. /\ order'[k].status = "CANCELLED"
        /\ \A c \in Children : order'[c].filled = order[c].filled
    BY <1>6 DEF Close, IInv, TypeOK
  <2>2. FilledUnits' = FilledUnits
    BY <2>1, FilledUnitsSame
  <2>3. WorkingUnits' = 0
    BY <1>2, <2>1 DEF WorksLast, LastWorking, Live
  <2>. QED  BY <1>3, <1>4, <2>2, <2>3 DEF Parent!CloseChild
<1>7. CASE Fill(k)
  <2>1. PICK p \in Prices : order' = [order EXCEPT ![k] = OneMore(order[k], p)]
    BY <1>7 DEF Fill
  <2>2. /\ OneMore(order[k], p).filled = order[k].filled + 1
        /\ OneMore(order[k], p).quantity = order[k].quantity
        /\ OneMore(order[k], p).status = (IF order[k].filled + 1 = order[k].quantity
                                          THEN "EXECUTED" ELSE order[k].status)
    <3>1. order[k] \in [quantity : 0 .. Quantity, limit : Prices \cup {0},
                       filled : 0 .. Quantity, cost : Nat,
                       status : {"NONE"} \cup Live \cup Terminal]
      BY DEF IInv, TypeOK
    <3>. QED  BY <3>1 DEF OneMore
  <2>3. /\ order'[k] = OneMore(order[k], p)
        /\ \A c \in Children \ {k} : order'[c] = order[c]
    BY <2>1 DEF IInv, TypeOK
  <2>4. FilledUnits' = FilledUnits + 1
    <3>1. order'[k].filled = order[k].filled + 1
      BY <2>2, <2>3
    <3>. QED  BY <2>3, <3>1, FilledUnitsGrow DEF IInv
  <2>5. WorkingUnits' = WorkingUnits - 1
    <3>1. LastWorking' = order[k].quantity - (order[k].filled + 1)
      BY <1>1, <1>2, <1>3, <2>2, <2>3 DEF LastWorking, Live
    <3>. QED  BY <1>3, <1>4, <3>1 DEF WorksLast
  <2>. QED  BY <1>3, <1>4, <2>4, <2>5 DEF Parent!FillOne
<1>. QED  BY <1>6, <1>7

LEMMA StepImplements ==
  ASSUME IInv, IInv', WorksLast, WorksLast', [Next]_vars
  PROVE  [Parent!Next]_(Parent!parentVars)
<1>. USE DEF workVars, priceVars, brokerVars, signalVars
<1>1. CASE Place
  <2>1. CASE Accept
    BY <1>1, <2>1, AcceptPlacesRest DEF Parent!Next
  <2>2. CASE UNCHANGED brokerVars
    BY <2>2, SameSums DEF Parent!parentVars
  <2>. QED  BY <1>1, <2>1, <2>2 DEF Place
<1>2. CASE RequestCancel \/ Pull
  <2>1. CASE child > 0
    <3>1. child \in Children
      BY <2>1 DEF IInv, TypeOK, Children
    <3>2. UNCHANGED sent /\ (UNCHANGED order \/ Request(child))
      BY <1>2 DEF RequestCancel, Pull
    <3>. QED  BY <3>1, <3>2, SameSums DEF Parent!parentVars
  <2>2. CASE child = 0
    <3>1. UNCHANGED brokerVars
      BY <1>2, <2>2 DEF RequestCancel, Pull, IInv, Books
    <3>. QED  BY <3>1, SameSums DEF Parent!parentVars
  <2>. QED  BY <2>1, <2>2 DEF IInv, TypeOK
<1>3. CASE \E c \in Children : Fill(c) \/ Close(c)
  BY <1>3, BrokerStep DEF Parent!Next
<1>4. CASE \/ Execute \/ Begin \/ Poll \/ Wait \/ Decide \/ Confirm \/ LastPoll
           \/ Signal \/ UNCHANGED vars
  <2>1. UNCHANGED brokerVars
    BY <1>4 DEF Execute, Begin, Poll, Wait, Decide, Confirm, LastPoll, Signal, vars
  <2>. QED  BY <2>1, SameSums DEF Parent!parentVars
<1>. QED  BY <1>1, <1>2, <1>3, <1>4 DEF Next, Run

(* The chain of children implements one parent order: each child asks for  *)
(* exactly what is left, and only when no other is at work.                *)
THEOREM ExecutionImplementsParent ==
  ASSUME "unlisted" \notin Faults
  PROVE  Spec => ImplementsParent
<1>1. Init => Parent!Init
  <2>. SUFFICES ASSUME Init PROVE Parent!Init
    OBVIOUS
  <2>1. IInv /\ sent = 0
    BY InitIInv DEF Init
  <2>2. FilledUnits = 0
    BY <2>1, NothingFilled DEF IInv
  <2>3. WorkingUnits = 0
    BY <2>1, LastWorks DEF WorksLast, LastWorking
  <2>. QED  BY <2>2, <2>3 DEF Parent!Init
<1>2. IInv => WorksLast
  BY LastWorks
<1>3. IInv /\ WorksLast /\ (IInv /\ WorksLast)' /\ [Next]_vars
      => [Parent!Next]_(Parent!parentVars)
  BY StepImplements
<1>. QED  BY <1>1, <1>2, <1>3, Inductive, PTL DEF Spec, ImplementsParent, Parent!Spec
----------------------------------------------------------------------------
(* Once close has returned, a call of execute ends before it places.        *)
Quiet == closed => told = "stop" /\ pc \in {"idle", "begin", "over"}

LEMMA QuietNext ==
  ASSUME Quiet, [Next]_vars
  PROVE  Quiet' /\ (closed => sent' = sent)
<1>. USE DEF workVars, priceVars, brokerVars, signalVars
<1>1. CASE Execute
  BY <1>1 DEF Execute, Quiet, Go
<1>2. CASE Begin
  BY <1>2 DEF Begin, Quiet, Halted, Go, End
<1>3. CASE Run /\ ~Begin
  <2>1. pc \notin {"idle", "begin", "over"} /\ UNCHANGED <<told, closed>>
    BY <1>3 DEF Run, Place, Poll, Wait, Decide, RequestCancel, Confirm, Pull, LastPoll
  <2>. QED  BY <2>1 DEF Quiet
<1>4. CASE Signal
  <2>1. UNCHANGED <<pc, sent>>
    BY <1>4 DEF Signal
  <2>2. closed => closed' /\ told' = told
    BY <1>4 DEF Signal, CancelCurrent, Stop, AwaitIdle, Flip, Tick, Quiet
  <2>3. closed' /\ ~closed => told' = "stop" /\ pc \in {"idle", "over"}
    BY <1>4 DEF Signal, CancelCurrent, Stop, AwaitIdle, Flip, Tick, Idle, Active
  <2>. QED  BY <2>1, <2>2, <2>3 DEF Quiet
<1>5. CASE (\E c \in Children : Fill(c) \/ Close(c)) \/ UNCHANGED vars
  BY <1>5 DEF Fill, Close, vars, Quiet
<1>. QED  BY <1>1, <1>2, <1>3, <1>4, <1>5 DEF Next

(* After close has returned TRUE the executor sends no more orders, under   *)
(* every fault and whoever still calls execute (stop, close, await_idle,    *)
(* patient_executor.py:251-275).                                            *)
THEOREM StaysQuiet == Spec => QuietAfterClose
<1>1. Init => Quiet
  BY DEF Init, Quiet
<1>2. Quiet /\ [Next]_vars => Quiet' /\ [closed => sent' = sent]_vars
  BY QuietNext
<1>. QED  BY <1>1, <1>2, PTL DEF Spec, QuietAfterClose
----------------------------------------------------------------------------
(* The envelope of an opening execution.  Each child is placed where what   *)
(* was banked, its own limit and what was paid for earlier children fit     *)
(* the notional: Accounts says that the bank is what was paid.              *)

TotalCost == Total([c \in Children |-> order[c].cost], Children)

\* What the last child may still cost.
OpenCost(o) == (o.quantity - o.filled) * o.limit

(* The money that has been banked is the money that was paid, but for what *)
(* the child at work has not been polled for.                              *)
Accounts ==
  /\ child = sent /\ child = 0 => spent = 0
  /\ child = sent /\ child > 0 => spent + (order[child].cost - booked.cost) = TotalCost

\* A child that is replaced was banked to the last unit.
Paid == pc = "place" /\ child > 0 => booked.cost = order[child].cost

Funded ==
  /\ TotalCost <= Budget
  /\ sent > 0 /\ order[sent].status \in Live => TotalCost + OpenCost(order[sent]) <= Budget

EInv == IInv /\ Accounts /\ Paid /\ Funded
----------------------------------------------------------------------------
(* Facts about the costs.                                                  *)

LEMMA TotalCostType ==
  ASSUME TypeOK
  PROVE  TotalCost \in Nat
<1>. DEFINE f == [c \in Children |-> order[c].cost]
<1>1. \A c \in Children : f[c] \in Nat
  BY DEF TypeOK
<1>2. Total(f, Children) \in Nat
  <2>. HIDE DEF f
  <2>. QED  BY <1>1, ChildrenFinite, TotalType
<1>. QED  BY <1>2 DEF TotalCost

LEMMA TotalCostSame ==
  ASSUME \A c \in Children : order'[c].cost = order[c].cost
  PROVE  TotalCost' = TotalCost
<1>. DEFINE f == [c \in Children |-> order[c].cost]
            g == [c \in Children |-> order'[c].cost]
<1>1. Total(g, Children) = Total(f, Children)
  <2>1. \A c \in Children : g[c] = f[c]
    OBVIOUS
  <2>. HIDE DEF f, g
  <2>. QED  BY <2>1, TotalAgree
<1>. QED  BY <1>1 DEF TotalCost

(* A fill costs its price.                                                 *)
LEMMA TotalCostGrow ==
  ASSUME TypeOK, TypeOK', NEW k \in Children, NEW p \in Nat,
         order'[k].cost = order[k].cost + p,
         \A c \in Children \ {k} : order'[c].cost = order[c].cost
  PROVE  TotalCost' = TotalCost + p
<1>. DEFINE f == [c \in Children |-> order[c].cost]
            g == [c \in Children |-> order'[c].cost]
            rest == Children \ {k}
<1>1. (\A c \in Children : f[c] \in Nat) /\ (\A c \in Children : g[c] \in Nat)
  BY DEF TypeOK
<1>2. g[k] = f[k] + p /\ \A c \in rest : g[c] = f[c]
  OBVIOUS
<1>3. Total(g, Children) = Total(f, Children) + p
  <2>. HIDE DEF f, g
  <2>1. Total(f, Children) = Total(f, rest) + f[k]
    BY <1>1, ChildrenFinite, TotalSplit
  <2>2. Total(g, Children) = Total(g, rest) + g[k]
    BY <1>1, ChildrenFinite, TotalSplit
  <2>3. Total(g, rest) = Total(f, rest)
    BY <1>2, TotalAgree
  <2>4. Total(f, rest) \in Nat
    BY <1>1, ChildrenFinite, FS_RemoveElement, TotalType
  <2>. QED  BY <1>1, <1>2, <2>1, <2>2, <2>3, <2>4
<1>. QED  BY <1>3 DEF TotalCost

LEMMA NothingPaid ==
  ASSUME TypeOK, Shape, sent = 0
  PROVE  TotalCost = 0
<1>. DEFINE f == [c \in Children |-> order[c].cost]
<1>1. \A c \in Children : f[c] = 0
  BY DEF Shape, Children, NoOrder
<1>2. Total(f, Children) = 0
  <2>. HIDE DEF f
  <2>. QED  BY <1>1, TotalOfZeros
<1>. QED  BY <1>2 DEF TotalCost

LEMMA LimitIsNat == \A l \in Prices \cup {0} : l \in Nat
<1>1. Prices \subseteq Nat /\ 0 \in Nat
  BY ExecutorAssumption
<1>. QED  BY <1>1, Zenon

LEMMA OpenCostType ==
  ASSUME TypeOK, Shape, NEW c \in Children
  PROVE  OpenCost(order[c]) \in Nat
<1>1. order[c].quantity - order[c].filled \in Nat
  BY ExecutorAssumption DEF TypeOK, Shape
<1>2. order[c].limit \in Nat
  <2>1. order[c].limit \in Prices \cup {0}
    BY DEF TypeOK
  <2>. QED  BY <2>1, LimitIsNat
<1>. QED  BY <1>1, <1>2 DEF OpenCost

(* One unit less at a price within the limit costs no more than before.    *)
LEMMA OneUnitLess ==
  ASSUME NEW n \in Nat, n > 0, NEW l \in Nat, NEW p \in Nat, p <= l
  PROVE  p + (n - 1) * l <= n * l
<1>1. n * l = (n - 1) * l + l /\ (n - 1) * l \in Nat /\ n * l \in Nat
  OBVIOUS
<1>. QED  BY <1>1
----------------------------------------------------------------------------
(* The invariant holds at first, and each step preserves it.               *)

LEMMA InitEInv == Init => EInv
<1>. SUFFICES ASSUME Init PROVE EInv
  OBVIOUS
<1>1. IInv
  BY InitIInv
<1>2. sent = 0 /\ TotalCost = 0
  BY <1>1, NothingPaid DEF Init, IInv
<1>3. Accounts /\ Paid /\ Funded
  BY <1>2, ExecutorAssumption DEF Init, Accounts, Paid, Funded
<1>. QED  BY <1>1, <1>3 DEF EInv

LEMMA FundsKept ==
  ASSUME Funded, UNCHANGED brokerVars
  PROVE  Funded' /\ TotalCost' = TotalCost
<1>1. order' = order /\ sent' = sent
  BY DEF brokerVars
<1>2. TotalCost' = TotalCost
  BY <1>1, TotalCostSame
<1>. QED  BY <1>1, <1>2 DEF Funded

LEMMA IdleEnvelope ==
  ASSUME EInv, Execute \/ Begin \/ Wait \/ Decide \/ Signal \/ UNCHANGED vars
  PROVE  (Accounts /\ Paid /\ Funded)'
<1>. USE DEF workVars, priceVars, brokerVars, signalVars
<1>1. UNCHANGED <<workVars, brokerVars>>
  BY DEF Execute, Begin, Wait, Decide, Signal, vars
<1>2. Funded' /\ TotalCost' = TotalCost
  BY <1>1, FundsKept DEF EInv
<1>3. pc' = "place" => pc = "place" \/ child = 0
  BY DEF Execute, Begin, Wait, Decide, Signal, vars, Go, End, Abort, EInv, IInv, Books, TypeOK
<1>. QED  BY <1>1, <1>2, <1>3 DEF EInv, Accounts, Paid

(* Where a child is placed, everything paid has been banked.               *)
LEMMA BooksClosed ==
  ASSUME EInv, pc = "place"
  PROVE  child = sent /\ spent = TotalCost
<1>1. child = sent /\ sent \in Nat /\ spent \in Nat
  BY DEF EInv, IInv, Placeable, Settled, TypeOK
<1>2. CASE child = 0
  BY <1>1, <1>2, NothingPaid DEF EInv, IInv, Accounts
<1>3. CASE child > 0
  <2>1. child \in Children
    BY <1>3 DEF EInv, IInv, TypeOK, Children
  <2>2. order[child].cost \in Nat
    BY <2>1 DEF EInv, IInv, TypeOK
  <2>. QED  BY <1>1, <1>3, <2>2 DEF EInv, Accounts, Paid
<1>. QED  BY <1>1, <1>2, <1>3

LEMMA PlaceEnvelope ==
  ASSUME EInv, IInv', Place
  PROVE  (Accounts /\ Paid /\ Funded)'
<1>. USE DEF workVars, priceVars, brokerVars, signalVars
<1>1. pc = "place" /\ child = sent /\ spent = TotalCost /\ spent \in Nat /\ sent \in Nat
  BY BooksClosed DEF Place, EInv, IInv, TypeOK
<1>2. CASE Abort /\ UNCHANGED <<child, booked, brokerVars>>
  <2>1. Funded' /\ TotalCost' = TotalCost
    BY <1>2, FundsKept DEF EInv
  <2>. QED  BY <1>2, <2>1 DEF EInv, Accounts, Paid, Place, Abort, Go
<1>3. CASE /\ Affordable /\ Accept
           /\ \/ child' = sent' /\ booked' = Nothing /\ Go("landed")
              \/ Abort /\ UNCHANGED <<child, booked>>
  <2>1. sent' = sent + 1 /\ sent + 1 \in Children
    BY <1>1, <1>3 DEF Accept, Children, EInv, IInv, TypeOK
  <2>2. order'[sent + 1] = Ordered /\ \A c \in Children \ {sent + 1} : order'[c] = order[c]
    BY <1>3, <2>1 DEF Accept, ChildQuantity, Ordered, EInv, IInv, TypeOK
  <2>3. order[sent + 1] = NoOrder
    BY <1>1, <2>1 DEF EInv, IInv, Shape
  <2>4. TotalCost' = TotalCost
    <3>1. \A c \in Children : order'[c].cost = order[c].cost
      BY <2>2, <2>3 DEF Ordered, NoOrder
    <3>. QED  BY <3>1, TotalCostSame
  <2>5. Funded'
    <3>1. OpenCost(order'[sent']) = (remaining - 0) * limit
      BY <2>1, <2>2 DEF OpenCost, Ordered
    <3>2. TotalCost + remaining * limit <= Budget
      BY <1>1, <1>3 DEF Affordable, ChildQuantity
    <3>3. remaining - 0 = remaining
      BY DEF EInv, IInv, TypeOK
    <3>. QED  BY <2>4, <3>1, <3>2, <3>3 DEF EInv, Funded
  <2>6. Accounts'
    <3>1. CASE child' = sent' /\ booked' = Nothing
      <4>1. order'[child'].cost = 0 /\ booked'.cost = 0
        BY <2>1, <2>2, <3>1 DEF Ordered, Nothing
      <4>2. spent' = spent /\ child' > 0
        BY <1>1, <2>1, <3>1 DEF Place
      <4>. QED  BY <1>1, <2>4, <4>1, <4>2 DEF Accounts
    <3>2. CASE child' = child
      BY <1>1, <2>1, <3>2 DEF Accounts
    <3>. QED  BY <1>3, <3>1, <3>2
  <2>7. Paid'
    BY <1>3 DEF Paid, Go, Abort
  <2>. QED  BY <2>5, <2>6, <2>7
<1>. QED  BY <1>2, <1>3 DEF Place

LEMMA PollEnvelope ==
  ASSUME EInv, Poll \/ Confirm \/ LastPoll, "unlisted" \notin Faults
  PROVE  (Accounts /\ Paid /\ Funded)'
<1>. USE DEF workVars, priceVars, brokerVars, signalVars
<1>1. UNCHANGED <<child, order, sent>> /\ child > 0 /\ pc # "place" /\ child \in Children
  BY DEF Poll, Confirm, LastPoll, EInv, IInv, Books, TypeOK, Children
<1>2. Funded' /\ TotalCost' = TotalCost
  BY <1>1, FundsKept DEF EInv
<1>3. CASE Bank
  <2>1. /\ booked'.cost = order[child].cost
        /\ spent' = spent + (order[child].cost - booked.cost)
    BY <1>3 DEF Bank
  <2>2. spent \in Nat /\ booked.cost \in Nat /\ order[child].cost \in Nat
    BY <1>1 DEF EInv, IInv, TypeOK
  <2>. QED  BY <1>1, <1>2, <2>1, <2>2 DEF EInv, Accounts, Paid
<1>4. CASE UNCHANGED <<booked, remaining, spent>> /\ pc' # "place"
  BY <1>1, <1>2, <1>4 DEF EInv, Accounts, Paid
<1>5. Bank \/ (UNCHANGED <<booked, remaining, spent>> /\ pc' # "place")
  BY DEF Poll, Confirm, LastPoll, Unlisted, Abort, Go, End
<1>. QED  BY <1>3, <1>4, <1>5

LEMMA RequestEnvelope ==
  ASSUME EInv, RequestCancel \/ Pull
  PROVE  (Accounts /\ Paid /\ Funded)'
<1>. USE DEF workVars, priceVars, brokerVars, signalVars
<1>1. UNCHANGED <<child, booked, spent, sent>> /\ pc' # "place"
  BY DEF RequestCancel, Pull, Go, Abort, End
<1>2. CASE UNCHANGED order
  BY <1>1, <1>2, FundsKept DEF EInv, Accounts, Paid
<1>3. CASE child \in Children /\ Request(child)
  <2>1. \A c \in Children : /\ order'[c].quantity = order[c].quantity
                           /\ order'[c].filled = order[c].filled
                           /\ order'[c].cost = order[c].cost
    BY <1>3, RequestFillsNothing DEF EInv, IInv
  <2>2. \A c \in Children : order'[c].limit = order[c].limit
    BY <1>3 DEF Request, EInv, IInv, TypeOK
  <2>3. \A c \in Children : order'[c].status \in Live <=> order[c].status \in Live
    BY <1>3, RequestEndsNothing DEF EInv, IInv
  <2>4. TotalCost' = TotalCost
    BY <2>1, TotalCostSame
  <2>5. sent > 0 => sent \in Children
    BY DEF EInv, IInv, TypeOK, Children
  <2>. QED  BY <1>1, <1>3, <2>1, <2>2, <2>3, <2>4, <2>5
            DEF EInv, Accounts, Paid, Funded, OpenCost
<1>4. UNCHANGED order \/ (child \in Children /\ Request(child))
  <2>1. child = 0 \/ child \in Children
    BY DEF EInv, IInv, TypeOK, Children
  <2>2. child = 0 => UNCHANGED order
    BY DEF RequestCancel, Pull, EInv, IInv, Books
  <2>. QED  BY <2>1, <2>2 DEF RequestCancel, Pull
<1>. QED  BY <1>2, <1>3, <1>4

(* A fill moves its price from what may still be spent to what was, and    *)
(* the end of an order frees the rest.                                     *)
LEMMA BrokerEnvelope ==
  ASSUME EInv, IInv', NEW k \in Children, Fill(k) \/ Close(k)
  PROVE  (Accounts /\ Paid /\ Funded)'
<1>. USE DEF workVars, priceVars, brokerVars, signalVars
<1>1. order[k].status \in Live /\ UNCHANGED <<pc, child, booked, spent, sent>>
  BY DEF Fill, Close
<1>2. k = sent /\ sent > 0
  <2>1. ~(k > sent) /\ ~(k < sent)
    BY <1>1 DEF EInv, IInv, Shape, NoOrder, Live, Terminal
  <2>2. k \in Int /\ sent \in Int /\ k > 0
    BY ExecutorAssumption DEF EInv, IInv, TypeOK, Children
  <2>. QED  BY <2>1, <2>2
<1>3. /\ order[k].filled \in Nat /\ order[k].quantity \in Nat
      /\ order[k].filled < order[k].quantity
      /\ order[k].cost \in Nat /\ order[k].limit \in Prices \cup {0}
  BY <1>1, ExecutorAssumption DEF EInv, IInv, TypeOK, Shape
<1>4. order[k].limit \in Nat /\ Budget \in Nat
  BY <1>3, LimitIsNat, ExecutorAssumption
<1>5. TotalCost \in Nat /\ OpenCost(order[k]) \in Nat
      /\ TotalCost + OpenCost(order[k]) <= Budget
  BY <1>1, <1>2, TotalCostType, OpenCostType DEF EInv, IInv, Funded
<1>6. pc # "place"
  BY <1>1, <1>2 DEF EInv, IInv, Placeable, Settled
<1>7. CASE Close(k)
  <2>1. order'[k].status = "CANCELLED" /\ \A c \in Children : order'[c].cost = order[c].cost
    BY <1>7 DEF Close, EInv, IInv, TypeOK
  <2>2. TotalCost' = TotalCost
    BY <2>1, TotalCostSame
  <2>3. Funded'
    BY <1>1, <1>2, <1>5, <2>1, <2>2 DEF Funded, Live, EInv
  <2>4. child > 0 => child \in Children
    BY DEF EInv, IInv, TypeOK, Children
  <2>. QED  BY <1>1, <1>6, <2>1, <2>2, <2>3, <2>4 DEF EInv, Accounts, Paid
<1>8. CASE Fill(k)
  <2>1. PICK p \in Prices : p <= order[k].limit
                            /\ order' = [order EXCEPT ![k] = OneMore(order[k], p)]
    BY <1>8 DEF Fill
  <2>2. p \in Nat
    BY ExecutorAssumption
  <2>3. /\ OneMore(order[k], p).filled = order[k].filled + 1
        /\ OneMore(order[k], p).cost = order[k].cost + p
        /\ OneMore(order[k], p).quantity = order[k].quantity
        /\ OneMore(order[k], p).limit = order[k].limit
    <3>1. order[k] \in [quantity : 0 .. Quantity, limit : Prices \cup {0},
                       filled : 0 .. Quantity, cost : Nat,
                       status : {"NONE"} \cup Live \cup Terminal]
      BY DEF EInv, IInv, TypeOK
    <3>. QED  BY <3>1 DEF OneMore
  <2>4. /\ order'[k] = OneMore(order[k], p)
        /\ \A c \in Children \ {k} : order'[c] = order[c]
    BY <2>1 DEF EInv, IInv, TypeOK
  <2>5. TotalCost' = TotalCost + p
    <3>1. order'[k].cost = order[k].cost + p
      BY <2>3, <2>4
    <3>. QED  BY <2>2, <2>4, <3>1, TotalCostGrow DEF EInv, IInv
  <2>6. p + OpenCost(order'[k]) <= OpenCost(order[k]) /\ OpenCost(order'[k]) \in Nat
    <3>. DEFINE n == order[k].quantity - order[k].filled
                l == order[k].limit
    <3>1. n \in Nat /\ n > 0 /\ l \in Nat /\ p <= l
      BY <1>3, <1>4, <2>1
    <3>2. p + (n - 1) * l <= n * l
      <4>. HIDE DEF n, l
      <4>. QED  BY <2>2, <3>1, OneUnitLess
    <3>3. OpenCost(order[k]) = n * l
      BY DEF OpenCost
    <3>4. OpenCost(order'[k]) = (order[k].quantity - (order[k].filled + 1)) * l
      BY <2>3, <2>4 DEF OpenCost
    <3>5. order[k].quantity - (order[k].filled + 1) = n - 1
      BY <1>3
    <3>6. OpenCost(order'[k]) = (n - 1) * l /\ n - 1 \in Nat
      BY <3>1, <3>4, <3>5
    <3>7. (n - 1) * l \in Nat
      <4>. HIDE DEF n, l
      <4>. QED  BY <3>1, <3>6
    <3>. HIDE DEF n, l
    <3>. QED  BY <3>2, <3>3, <3>6, <3>7
  <2>7. Funded'
    <3>. DEFINE a == TotalCost
                b == OpenCost(order[k])
                d == OpenCost(order'[k])
    <3>1. a + p <= Budget /\ a + p + d <= Budget
      <4>1. a \in Nat /\ b \in Nat /\ d \in Nat /\ a + b <= Budget /\ p + d <= b
        BY <1>5, <2>6
      <4>. HIDE DEF a, b, d
      <4>. QED  BY <1>4, <2>2, <4>1
    <3>. HIDE DEF a, d
    <3>2. TotalCost' = a + p /\ OpenCost(order'[sent']) = d
      BY <1>1, <1>2, <2>5 DEF a, d
    <3>. QED  BY <3>1, <3>2 DEF Funded
  <2>8. Accounts'
    <3>1. CASE child = sent
      <4>1. child = k /\ child > 0 /\ child' = child /\ order'[k].cost = order[k].cost + p
        BY <1>1, <1>2, <2>3, <2>4, <3>1
      <4>2. spent \in Nat /\ booked.cost \in Nat
        BY DEF EInv, IInv, TypeOK
      <4>3. spent + (order[k].cost - booked.cost) = TotalCost
        BY <3>1, <4>1 DEF EInv, Accounts
      <4>. QED  BY <1>1, <1>3, <2>2, <2>5, <4>1, <4>2, <4>3 DEF Accounts
    <3>2. CASE child # sent
      BY <1>1, <3>2 DEF Accounts
    <3>. QED  BY <3>1, <3>2
  <2>. QED  BY <1>1, <1>6, <2>7, <2>8 DEF Paid
<1>. QED  BY <1>7, <1>8

LEMMA NextEInv ==
  ASSUME EInv, [Next]_vars, "unlisted" \notin Faults
  PROVE  EInv'
<1>1. IInv'
  BY NextIInv DEF EInv
<1>2. (Accounts /\ Paid /\ Funded)'
  BY <1>1, IdleEnvelope, PlaceEnvelope, PollEnvelope, RequestEnvelope, BrokerEnvelope
     DEF Next, Run
<1>. QED  BY <1>1, <1>2 DEF EInv

(* Only the last child can still cost anything.                            *)
LEMMA EnvelopeHolds ==
  ASSUME EInv
  PROVE  WithinEnvelope
<1>. DEFINE f == [c \in Children |-> order[c].cost]
            w == [c \in Children |->
                    order[c].cost
                      + (IF order[c].status \in Live
                         THEN (order[c].quantity - order[c].filled) * order[c].limit ELSE 0)]
            rest == Children \ {sent}
<1>1. \A c \in Children : f[c] \in Nat /\ OpenCost(order[c]) \in Nat
  BY OpenCostType DEF EInv, IInv, TypeOK
<1>2. \A c \in Children : w[c] = f[c] + (IF order[c].status \in Live
                                         THEN OpenCost(order[c]) ELSE 0)
  BY DEF OpenCost
<1>3. \A c \in Children : w[c] \in Nat
  <2>. HIDE DEF f, w
  <2>. QED  BY <1>1, <1>2
<1>4. \A c \in rest : w[c] = f[c]
  <2>1. ASSUME NEW c \in rest PROVE order[c].status \notin Live
    <3>1. sent \in Int /\ c \in Int /\ c # sent
      BY ExecutorAssumption DEF EInv, IInv, TypeOK, Children
    <3>2. CASE c > sent
      BY <3>2 DEF EInv, IInv, Shape, NoOrder, Live
    <3>3. CASE c < sent
      BY <3>3 DEF EInv, IInv, Shape, Terminal, Live
    <3>. QED  BY <3>1, <3>2, <3>3
  <2>2. \A c \in Children : f[c] + 0 = f[c]
    BY <1>1
  <2>. HIDE DEF f, w
  <2>. QED  BY <1>2, <2>1, <2>2
<1>5. WorstCost = Total(w, Children) /\ TotalCost = Total(f, Children)
  BY DEF WorstCost, TotalCost
<1>6. Budget \in Nat /\ TotalCost \in Nat /\ TotalCost <= Budget
  BY ExecutorAssumption, TotalCostType DEF EInv, IInv, Funded
<1>7. CASE sent > 0
  <2>1. sent \in Children
    BY <1>7 DEF EInv, IInv, TypeOK, Children
  <2>. HIDE DEF f, w
  <2>2. Total(w, Children) = Total(w, rest) + w[sent]
    BY <1>3, <2>1, ChildrenFinite, TotalSplit
  <2>3. Total(f, Children) = Total(f, rest) + f[sent]
    BY <1>1, <2>1, ChildrenFinite, TotalSplit
  <2>4. Total(w, rest) = Total(f, rest)
    BY <1>4, TotalAgree
  <2>5. Total(f, rest) \in Nat
    BY <1>1, ChildrenFinite, FS_RemoveElement, TotalType
  <2>6. WorstCost = TotalCost + (IF order[sent].status \in Live
                                 THEN OpenCost(order[sent]) ELSE 0)
    BY <1>1, <1>2, <1>3, <1>5, <2>1, <2>2, <2>3, <2>4, <2>5
  <2>. QED  BY <1>1, <1>6, <1>7, <2>1, <2>6 DEF EInv, Funded, WithinEnvelope
<1>8. CASE ~(sent > 0)
  <2>1. \A c \in Children : c \in rest
    BY <1>8 DEF Children, EInv, IInv, TypeOK
  <2>. HIDE DEF f, w
  <2>2. Total(w, Children) = Total(f, Children)
    BY <1>4, <2>1, TotalAgree
  <2>. QED  BY <1>5, <1>6, <2>2 DEF WithinEnvelope
<1>. QED  BY <1>7, <1>8

(* What the children of an opening execution have cost, and may still cost *)
(* at their limits, stays within the notional it was authorized for        *)
(* (_check_opening_budget and the check in _poll).                         *)
THEOREM EnvelopeRespected ==
  ASSUME "unlisted" \notin Faults
  PROVE  Spec => []WithinEnvelope
<1>1. Init => EInv
  BY InitEInv
<1>2. EInv /\ [Next]_vars => EInv'
  BY NextEInv
<1>3. EInv => WithinEnvelope
  BY EnvelopeHolds
<1>. QED  BY <1>1, <1>2, <1>3, PTL DEF Spec
=============================================================================
