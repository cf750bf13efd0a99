-------------------------- MODULE AuthSessionProofs --------------------------
(***************************************************************************)
(* The theorems about AuthSession, for any routes, tokens, days, failure   *)
(* limit and faults.                                                       *)
(*                                                                         *)
(* The invariant has two halves that hardly meet.  Desk is about the token *)
(* table, the cached session and the calls on the wire; because of the     *)
(* lock there is one such call at a time, and it is signed with the only   *)
(* row that counts.  Thread is about the keep-alive thread and whoever     *)
(* starts and stops it.                                                    *)
(***************************************************************************)
EXTENDS AuthSession, TLAPS
----------------------------------------------------------------------------
DeskTypes ==
  /\ today \in Days /\ issued \in 0 .. MaxToken
  /\ broker \in [Tokens -> {"unknown", "live", "idle", "dead"}]
  /\ life \in [Tokens -> {"none", "active", "expired", "disconnected"}]
  /\ since \in [Tokens -> Days \cup {0}]
  /\ pending \in BOOLEAN /\ session \in Tokens \cup {0}
  /\ wire \in [Threads -> Calls \cup {Quiet}]

\* One call at a time is on the wire.
OneCall == \A x, y \in Threads : wire[x] # Quiet /\ wire[y] # Quiet => x = y

\* E*TRADE knows the tokens it has issued, and only those have rows.
Known == \A t \in Tokens :
  /\ broker[t] = "unknown" <=> t > issued
  /\ life[t] # "none" => t <= issued

\* A row of an earlier day has a token that died at a midnight since.
Dated == \A t \in Tokens : life[t] # "none" /\ since[t] # today => broker[t] = "dead"

\* A 401 on the wire is about a token that nobody can make good meanwhile.
Refused == \A x \in Threads : wire[x].answer = "expired" =>
  \/ wire[x].kind = "renew" /\ broker[wire[x].token] = "dead"
  \/ wire[x].kind = "request" /\ broker[wire[x].token] \in {"idle", "dead"}

\* An access token on its way has no row yet.
Minted == \A x \in Threads : wire[x].kind = "verify" /\ wire[x].answer = "ok" =>
  /\ wire[x].token \in Tokens /\ wire[x].token <= issued
  /\ life[wire[x].token] = "none"

Desk ==
  /\ DeskTypes /\ OneCall /\ Known /\ Dated /\ Refused /\ Minted
  /\ OneCurrentRow /\ SessionIsCurrent /\ CallsOwnTheToken /\ ExpiredForCause
----------------------------------------------------------------------------
(* The current row.                                                        *)

LEMMA CurrentRow ==
  ASSUME OneCurrentRow
  PROVE  /\ Current = 0 <=> Held = {}
         /\ \A t \in Held : Current = t
         /\ Current \in Held \cup {0} /\ Current \in Tokens \cup {0}
<1>1. 0 \notin Tokens /\ Tokens \subseteq Int /\ Held \subseteq Tokens
  BY DEF Tokens, Held
<1>2. CASE Held = {}
  BY <1>1, <1>2 DEF Current
<1>3. CASE Held # {}
  <2>1. PICK t \in Held : TRUE
    BY <1>3
  <2>2. Held = {t}
    BY <2>1 DEF OneCurrentRow
  <2>3. t <= t
    BY <1>1, <2>1
  <2>4. Current = CHOOSE u \in Held : \A v \in Held : v <= u
    BY <1>3 DEF Current
  <2>5. (CHOOSE u \in Held : \A v \in Held : v <= u) \in Held
    BY <2>1, <2>2, <2>3
  <2>6. Current = t
    BY <2>2, <2>4, <2>5
  <2>. QED  BY <2>1, <2>2, <2>6, <1>1
<1>. QED  BY <1>2, <1>3

LEMMA UsableRow ==
  ASSUME OneCurrentRow, Active
  PROVE  Current \in Held /\ Current \in Tokens /\ life[Current] = "active"
BY CurrentRow DEF Active, Held

\* The row that a call would use is the one the cached session signs for.
LEMMA SessionSigns ==
  ASSUME Desk, Active
  PROVE  (IF session = 0 THEN Current ELSE session) = Current
BY CurrentRow, UsableRow DEF Desk, SessionIsCurrent

LEMMA NobodyCalls ==
  ASSUME NEW x \in Threads, LockFree(x), wire[x] = Quiet
  PROVE  \A y \in Threads : wire[y] = Quiet
BY DEF LockFree
----------------------------------------------------------------------------
(* What each kind of operation does to the desk.                           *)

LEMMA DeskAlone ==
  ASSUME Desk, today' = today, UNCHANGED <<tokens, session, wire>>, pending' \in BOOLEAN
  PROVE  Desk'
BY DEF Desk, DeskTypes, OneCall, Known, Dated, Refused, Minted, OneCurrentRow,
       SessionIsCurrent, CallsOwnTheToken, ExpiredForCause, Held, tokens

\* A call that ends without a trace, or drops the cached session.
LEMMA DeskHears ==
  ASSUME Desk, today' = today, UNCHANGED tokens, session' = session \/ session' = 0,
         pending' \in BOOLEAN, NEW x \in Threads, Answered(x)
  PROVE  Desk'
<1>1. \A y \in Threads : wire'[y] = wire[y] \/ wire'[y] = Quiet
  BY DEF Desk, DeskTypes, Answered
<1>2. wire' \in [Threads -> Calls \cup {Quiet}]
  BY DEF Desk, DeskTypes, Answered
<1>3. Quiet.kind = "none" /\ Quiet.answer = "none"
  BY DEF Quiet
<1>4. DeskTypes' /\ Known' /\ Dated' /\ OneCurrentRow' /\ SessionIsCurrent' /\ ExpiredForCause'
  BY <1>2 DEF Desk, DeskTypes, Known, Dated, OneCurrentRow, SessionIsCurrent, ExpiredForCause,
              Held, tokens
<1>5. OneCall' /\ Refused' /\ Minted' /\ CallsOwnTheToken'
  BY <1>1, <1>3 DEF Desk, OneCall, Refused, Minted, CallsOwnTheToken, Held, tokens
<1>. QED  BY <1>4, <1>5 DEF Desk

\* A row that E*TRADE refuses is marked, and no call is left on the wire.
LEMMA DeskExpires ==
  ASSUME Desk, today' = today, NEW t \in Tokens, life[t] = "active", ExpireRow(t),
         broker[t] \in {"idle", "dead"},
         wire' \in [Threads -> Calls \cup {Quiet}], \A y \in Threads : wire'[y] = Quiet
  PROVE  Desk'
<1>1. Quiet.kind = "none" /\ Quiet.answer = "none"
  BY DEF Quiet
<1>2. life' = [life EXCEPT ![t] = "expired"] /\ session' = 0 /\ broker' = broker
        /\ since' = since /\ issued' = issued /\ pending' = pending
  BY DEF ExpireRow
<1>3. Held' = Held /\ 0 \notin Tokens
  BY <1>2 DEF Held, Desk, DeskTypes, Tokens
<1>4. DeskTypes' /\ Known' /\ Dated'
  BY <1>2 DEF Desk, DeskTypes, Known, Dated
<1>5. OneCurrentRow' /\ SessionIsCurrent'
  BY <1>2, <1>3 DEF Desk, OneCurrentRow, SessionIsCurrent
<1>6. ExpiredForCause'
  BY <1>2 DEF Desk, DeskTypes, ExpiredForCause
<1>7. OneCall' /\ Refused' /\ Minted' /\ CallsOwnTheToken'
  BY <1>1 DEF OneCall, Refused, Minted, CallsOwnTheToken
<1>. QED  BY <1>4, <1>5, <1>6, <1>7 DEF Desk

LEMMA DeskNotices ==
  ASSUME Desk, today' = today, Notice, wire' = wire, \A y \in Threads : wire[y] = Quiet
  PROVE  Desk'
<1>1. CASE Stale
  <2>1. Current \in Tokens /\ life[Current] = "active" /\ broker[Current] = "dead"
    BY <1>1, UsableRow DEF Stale, Desk, Dated
  <2>. QED  BY <1>1, <2>1, DeskExpires DEF Notice, Desk, DeskTypes
<1>2. CASE ~Stale
  <2>1. UNCHANGED <<tokens, manager>>
    BY <1>2 DEF Notice
  <2>. QED  BY <2>1, DeskAlone DEF manager, Desk, DeskTypes
<1>. QED  BY <1>1, <1>2

\* A call goes out; it is signed with the current row, which is active.
LEMMA DeskSends ==
  ASSUME Desk, today' = today, NEW x \in Threads, \A y \in Threads : wire[y] = Quiet, Usable,
         NEW kind \in {"request", "renew"}, NEW a \in {"ok", "expired", "refused", "raised"},
         Signed(x, kind, a),
         UNCHANGED <<issued, life, since, pending>>,
         \/ broker' = broker
         \/ kind = "renew" /\ a # "expired" /\ broker[Current] \in {"live", "idle"}
              /\ broker' = [broker EXCEPT ![Current] = "live"]
  PROVE  Desk'
<1>1. /\ Current \in Held /\ Current \in Tokens /\ life[Current] = "active"
      /\ session' = Current
  BY UsableRow, SessionSigns DEF Desk, Usable, Signed
<1>2. wire' = [wire EXCEPT ![x] = [kind |-> kind, token |-> Current, row |-> Current,
                                   answer |-> a]]
  BY <1>1 DEF Signed
<1>3. a \in Answers(kind, Current)
  BY <1>1 DEF Signed
<1>4. a = "expired" => broker[Current] \in {"idle", "dead"}
                       /\ (kind = "renew" => broker[Current] = "dead")
  <2>1. "expired" \notin Unsure(kind)
    BY DEF Unsure
  <2>2. broker[Current] # "unknown"
    BY <1>1 DEF Desk, Known, DeskTypes, Tokens
  <2>3. broker[Current] \in {"live", "idle", "dead"}
    BY <1>1, <2>2 DEF Desk, DeskTypes
  <2>. QED  BY <1>3, <2>1, <2>3 DEF Answers
<1>5. /\ \A y \in Threads \ {x} : wire'[y] = Quiet
      /\ wire'[x] = [kind |-> kind, token |-> Current, row |-> Current, answer |-> a]
      /\ Quiet.kind = "none" /\ Quiet.answer = "none"
  BY <1>2 DEF Desk, DeskTypes, Quiet
<1>6. DeskTypes'
  <2>1. [kind |-> kind, token |-> Current, row |-> Current, answer |-> a] \in Calls
    BY <1>1 DEF Calls
  <2>2. wire' \in [Threads -> Calls \cup {Quiet}]
    BY <1>2, <2>1 DEF Desk, DeskTypes
  <2>3. broker' \in [Tokens -> {"unknown", "live", "idle", "dead"}]
    BY <1>1 DEF Desk, DeskTypes
  <2>. QED  BY <1>1, <2>2, <2>3 DEF Desk, DeskTypes
<1>7. OneCurrentRow' /\ SessionIsCurrent' /\ Held' = Held
  BY <1>1 DEF Desk, OneCurrentRow, SessionIsCurrent, Held
<1>8. Known' /\ Dated'
  BY <1>1 DEF Desk, DeskTypes, Known, Dated
<1>9. ExpiredForCause'
  BY <1>1 DEF Desk, DeskTypes, ExpiredForCause
<1>10. OneCall' /\ Minted' /\ CallsOwnTheToken'
  BY <1>1, <1>5, <1>7 DEF OneCall, Minted, CallsOwnTheToken
<1>11. Refused'
  BY <1>4, <1>5 DEF Refused
<1>. QED  BY <1>6, <1>7, <1>8, <1>9, <1>10, <1>11 DEF Desk
\* A call that is not signed with a row: it may have E*TRADE issue a token.
LEMMA DeskAsks ==
  ASSUME Desk, today' = today, NEW x \in Threads, \A y \in Threads : wire[y] = Quiet,
         UNCHANGED <<life, since, manager>>,
         NEW c \in Calls, wire' = [wire EXCEPT ![x] = c], c.kind \in {"ask", "verify"},
         c.answer # "expired",
         \/ UNCHANGED <<issued, broker>> /\ (c.kind = "verify" => c.answer # "ok")
         \/ /\ issued < MaxToken /\ issued' = issued + 1 /\ c.token = issued'
            /\ broker' = [broker EXCEPT ![issued'] = "live"]
  PROVE  Desk'
<1>1. /\ \A y \in Threads \ {x} : wire'[y] = Quiet
      /\ wire'[x] = c
      /\ Quiet.kind = "none" /\ Quiet.answer = "none"
  BY DEF Desk, DeskTypes, Quiet
<1>2. wire' \in [Threads -> Calls \cup {Quiet}]
  BY DEF Desk, DeskTypes
<1>3. MaxToken \in Nat
  BY AuthAssumption
<1>4. DeskTypes' /\ Known'
  <2>1. CASE UNCHANGED <<issued, broker>>
    BY <2>1, <1>2 DEF Desk, DeskTypes, Known, manager
  <2>2. CASE /\ issued < MaxToken /\ issued' = issued + 1
             /\ broker' = [broker EXCEPT ![issued'] = "live"]
    <3>1. issued' \in 0 .. MaxToken /\ issued' \in Tokens /\ issued \in Int
      BY <2>2, <1>3 DEF Desk, DeskTypes, Tokens
    <3>2. DeskTypes'
      BY <2>2, <3>1, <1>2 DEF Desk, DeskTypes, manager
    <3>3. Known'
      BY <2>2, <3>1 DEF Desk, DeskTypes, Known, Tokens
    <3>. QED  BY <3>2, <3>3
  <2>. QED  BY <2>1, <2>2
<1>5. \A t \in Tokens : life[t] # "none" => broker'[t] = broker[t]
  <2>1. CASE broker' = broker
    BY <2>1
  <2>2. CASE issued' = issued + 1 /\ broker' = [broker EXCEPT ![issued'] = "live"]
    BY <2>2 DEF Desk, DeskTypes, Known, Tokens
  <2>. QED  BY <2>1, <2>2
<1>6. OneCurrentRow' /\ SessionIsCurrent'
  BY DEF Desk, OneCurrentRow, SessionIsCurrent, Held, manager
<1>7. Dated'
  BY <1>5 DEF Desk, Dated
<1>8. ExpiredForCause'
  BY <1>5 DEF Desk, ExpiredForCause
<1>9. OneCall' /\ CallsOwnTheToken' /\ Refused'
  BY <1>1 DEF OneCall, CallsOwnTheToken, Refused
<1>10. Minted'
  <2>1. SUFFICES ASSUME c.kind = "verify", c.answer = "ok"
                 PROVE  c.token \in Tokens /\ c.token <= issued' /\ life'[c.token] = "none"
    BY <1>1 DEF Minted
  <2>2. issued < MaxToken /\ issued' = issued + 1 /\ c.token = issued'
    BY <2>1
  <2>3. c.token \in Tokens /\ issued \in Int
    BY <2>2, <1>3 DEF Desk, DeskTypes, Tokens
  <2>. QED  BY <2>2, <2>3 DEF Desk, DeskTypes, Known, Tokens
<1>. QED  BY <1>4, <1>6, <1>7, <1>8, <1>9, <1>10 DEF Desk

LEMMA DeskConnects ==
  ASSUME Desk, NEW r \in Routes, VerifyAnswered(r)
  PROVE  Desk'
<1>. DEFINE t == wire[r].token
<1>1. r \in Threads /\ Answered(r) /\ today' = today /\ wire[r].kind = "verify"
  BY DEF VerifyAnswered, Threads, clock
<1>2. CASE wire[r].answer # "ok"
  BY <1>1, <1>2, DeskHears DEF VerifyAnswered, tokens, manager, Desk, DeskTypes
<1>3. CASE wire[r].answer = "ok"
  <2>1. /\ t \in Tokens /\ t <= issued /\ life[t] = "none" /\ t \notin Held
    BY <1>1, <1>3 DEF Desk, Minted, Held
  <2>2. /\ life' = [u \in Tokens |-> IF u = t THEN "active"
                                     ELSE IF u \in Held THEN "disconnected" ELSE life[u]]
        /\ since' = [since EXCEPT ![t] = today]
        /\ pending' = FALSE /\ session' = 0 /\ issued' = issued /\ broker' = broker
    BY <1>3 DEF VerifyAnswered
  <2>3. Held' = {t}
    BY <2>1, <2>2 DEF Held, Desk, DeskTypes
  <2>4. /\ wire' \in [Threads -> Calls \cup {Quiet}]
        /\ \A y \in Threads : wire'[y] = Quiet
    <3>1. Quiet.kind = "none"
      BY DEF Quiet
    <3>2. \A y \in Threads \ {r} : wire[y] = Quiet
      BY <1>1, <3>1 DEF Desk, OneCall
    <3>. QED  BY <1>1, <3>2 DEF Answered, Desk, DeskTypes
  <2>5. DeskTypes'
    BY <1>1, <2>1, <2>2, <2>4 DEF Desk, DeskTypes
  <2>6. OneCurrentRow' /\ SessionIsCurrent'
    BY <2>2, <2>3 DEF OneCurrentRow, SessionIsCurrent
  <2>7. Known'
    BY <2>1, <2>2 DEF Desk, DeskTypes, Known, Held
  <2>8. Dated'
    <3>1. since'[t] = today
      BY <2>1, <2>2 DEF Desk, DeskTypes
    <3>2. \A u \in Tokens \ {t} : since'[u] = since[u] /\ (life'[u] # "none" => life[u] # "none")
      BY <2>1, <2>2 DEF Desk, DeskTypes, Held
    <3>. QED  BY <1>1, <2>2, <3>1, <3>2 DEF Desk, Dated
  <2>9. ExpiredForCause'
    BY <2>2 DEF Desk, ExpiredForCause, Held
  <2>10. OneCall' /\ Refused' /\ Minted' /\ CallsOwnTheToken'
    BY <2>4 DEF OneCall, Refused, Minted, CallsOwnTheToken, Quiet
  <2>. QED  BY <2>5, <2>6, <2>7, <2>8, <2>9, <2>10 DEF Desk
<1>. QED  BY <1>2, <1>3

LEMMA DeskDisconnects ==
  ASSUME Desk, NEW r \in Routes, Disconnect(r)
  PROVE  Desk'
<1>1. /\ \A y \in Threads : wire[y] = Quiet
      /\ wire' = wire /\ today' = today /\ issued' = issued /\ broker' = broker
      /\ since' = since /\ pending' = FALSE /\ session' = 0
      /\ life' = IF Current = 0 THEN life ELSE [life EXCEPT ![Current] = "disconnected"]
  BY NobodyCalls DEF Disconnect, Free, Threads, clock
<1>2. /\ life' \in [Tokens -> {"none", "active", "expired", "disconnected"}]
      /\ \A t \in Tokens : life'[t] = life[t] \/ (t = Current /\ life'[t] = "disconnected")
      /\ \A t \in Tokens : life'[t] # "none" => life[t] # "none"
  BY <1>1, CurrentRow DEF Desk, DeskTypes, Held
<1>3. Held' = {}
  BY <1>1, <1>2, CurrentRow DEF Desk, DeskTypes, Held
<1>4. DeskTypes' /\ Known' /\ Dated' /\ ExpiredForCause'
  BY <1>1, <1>2 DEF Desk, DeskTypes, Known, Dated, ExpiredForCause
<1>5. OneCurrentRow' /\ SessionIsCurrent'
  BY <1>1, <1>3 DEF OneCurrentRow, SessionIsCurrent
<1>6. OneCall' /\ Refused' /\ Minted' /\ CallsOwnTheToken'
  BY <1>1 DEF OneCall, Refused, Minted, CallsOwnTheToken, Quiet
<1>. QED  BY <1>4, <1>5, <1>6 DEF Desk

LEMMA DeskRequestAnswered ==
  ASSUME Desk, today' = today, NEW r \in Threads, wire[r].kind = "request", Answered(r),
         IF wire[r].answer = "expired" /\ Active THEN ExpireRow(Current)
         ELSE UNCHANGED <<tokens, manager>>
  PROVE  Desk'
<1>1. CASE wire[r].answer = "expired" /\ Active
  <2>1. wire[r].token \in Held /\ wire[r].token = Current /\ broker[Current] \in {"idle", "dead"}
    BY <1>1, CurrentRow DEF Desk, CallsOwnTheToken, Refused
  <2>2. life[Current] = "active" /\ Current \in Tokens
    BY <1>1, UsableRow DEF Desk
  <2>3. /\ wire' \in [Threads -> Calls \cup {Quiet}]
        /\ \A y \in Threads : wire'[y] = Quiet
    BY DEF Answered, Desk, DeskTypes, OneCall, Quiet
  <2>. QED  BY <1>1, <2>1, <2>2, <2>3, DeskExpires
<1>2. CASE ~(wire[r].answer = "expired" /\ Active)
  BY <1>2, DeskHears DEF manager, Desk, DeskTypes
<1>. QED  BY <1>1, <1>2

LEMMA DeskRenewAnswered ==
  ASSUME Desk, today' = today, NEW x \in Threads, RenewAnswered(x)
  PROVE  Desk'
<1>1. wire[x].kind = "renew" /\ Answered(x)
  BY DEF RenewAnswered
<1>2. CASE wire[x].answer = "expired"
  <2>1. /\ wire[x].row = wire[x].token /\ wire[x].token \in Tokens
        /\ life[wire[x].token] = "active" /\ broker[wire[x].token] = "dead"
    BY <1>1, <1>2 DEF Desk, CallsOwnTheToken, Refused, Held
  <2>2. /\ wire' \in [Threads -> Calls \cup {Quiet}]
        /\ \A y \in Threads : wire'[y] = Quiet
    BY <1>1 DEF Answered, Desk, DeskTypes, OneCall, Quiet
  <2>3. ExpireRow(wire[x].row)
    BY <1>2 DEF RenewAnswered
  <2>. QED  BY <2>1, <2>2, <2>3, DeskExpires
<1>3. CASE wire[x].answer # "expired"
  BY <1>1, <1>3, DeskHears DEF RenewAnswered, manager, Desk, DeskTypes
<1>. QED  BY <1>2, <1>3

LEMMA DeskMidnight ==
  ASSUME Desk, Midnight
  PROVE  Desk'
<1>1. /\ today < LastDay /\ today' = today + 1
      /\ broker' = [t \in Tokens |-> IF t <= issued THEN "dead" ELSE broker[t]]
      /\ UNCHANGED <<issued, life, since, pending, session, wire>>
  BY DEF Midnight, manager
<1>2. \A t \in Tokens : life[t] # "none" => broker'[t] = "dead"
  BY <1>1 DEF Desk, Known
<1>3. today' \in Days
  BY <1>1, AuthAssumption DEF Desk, DeskTypes, Days
<1>4. DeskTypes' /\ OneCurrentRow' /\ SessionIsCurrent' /\ CallsOwnTheToken' /\ Minted' /\ OneCall'
  BY <1>1, <1>3 DEF Desk, DeskTypes, OneCurrentRow, SessionIsCurrent, CallsOwnTheToken, Minted,
                    OneCall, Held
<1>5. Known'
  <2>1. issued \in Int
    BY DEF Desk, DeskTypes
  <2>. QED  BY <1>1, <2>1 DEF Desk, Known, Tokens
<1>6. Dated' /\ ExpiredForCause'
  BY <1>1, <1>2 DEF Dated, ExpiredForCause
<1>7. Refused'
  <2>1. \A x \in Threads : wire[x].kind \in {"request", "renew"} =>
          wire[x].token \in Tokens /\ life[wire[x].token] = "active"
    BY DEF Desk, CallsOwnTheToken, Held
  <2>. QED  BY <1>1, <1>2, <2>1 DEF Desk, Refused
<1>. QED  BY <1>4, <1>5, <1>6, <1>7 DEF Desk

LEMMA DeskGoesIdle ==
  ASSUME Desk, NEW t \in Tokens, GoesIdle(t)
  PROVE  Desk'
<1>1. /\ broker[t] = "live" /\ broker' = [broker EXCEPT ![t] = "idle"]
      /\ UNCHANGED <<today, issued, life, since, pending, session, wire>>
  BY DEF GoesIdle, manager, clock
<1>2. \A u \in Tokens : broker'[u] = IF u = t THEN "idle" ELSE broker[u]
  BY <1>1 DEF Desk, DeskTypes
<1>3. DeskTypes' /\ OneCurrentRow' /\ SessionIsCurrent' /\ CallsOwnTheToken' /\ Minted' /\ OneCall'
  BY <1>1 DEF Desk, DeskTypes, OneCurrentRow, SessionIsCurrent, CallsOwnTheToken, Minted,
              OneCall, Held
<1>4. Known' /\ Dated' /\ ExpiredForCause'
  BY <1>1, <1>2 DEF Desk, Known, Dated, ExpiredForCause
<1>5. Refused'
  <2>1. \A x \in Threads : wire[x].kind \in {"request", "renew"} => wire[x].token \in Tokens
    BY DEF Desk, CallsOwnTheToken, Held
  <2>. QED  BY <1>1, <1>2, <2>1 DEF Desk, Refused
<1>. QED  BY <1>3, <1>4, <1>5 DEF Desk

LEMMA DeskCrashes ==
  ASSUME Desk, Crash
  PROVE  Desk'
<1>1. /\ pending' = FALSE /\ session' = 0 /\ wire' = [x \in Threads |-> Quiet]
      /\ UNCHANGED <<today, issued, broker, life, since>>
  BY DEF Crash, clock, tokens
<1>2. DeskTypes' /\ Known' /\ Dated' /\ ExpiredForCause' /\ OneCurrentRow' /\ SessionIsCurrent'
  BY <1>1 DEF Desk, DeskTypes, Known, Dated, ExpiredForCause, OneCurrentRow, SessionIsCurrent, Held
<1>3. OneCall' /\ Refused' /\ Minted' /\ CallsOwnTheToken'
  BY <1>1 DEF OneCall, Refused, Minted, CallsOwnTheToken, Quiet
<1>. QED  BY <1>2, <1>3 DEF Desk
----------------------------------------------------------------------------
(* The keep-alive thread and whoever starts and stops it.                   *)

ThreadTypes ==
  /\ open \in BOOLEAN
  /\ loop \in LoopPlaces /\ stop \in BOOLEAN /\ running \in BOOLEAN
  /\ reason \in PauseReasons \cup {"none"} /\ failures \in 0 .. FailureLimit
  /\ route \in [Routes -> RoutePlaces]
  /\ intent \in {"none", "start", "stop"} /\ up \in BOOLEAN

Works == {"top", "look", "renew", "declined", "wait"}

\* What the thread waits for on the wire is its renewal.
Listening == wire[Loop] # Quiet => loop = "renew" /\ wire[Loop].kind = "renew"

\* Short of the limit the thread goes on.
Patient == loop \in Works => failures < FailureLimit

\* Who joins the present thread has told it to stop.
Joining == \A r \in Routes : route[r] = "joining" => stop

Down == ~up => /\ loop = "none"
               /\ \A r \in Routes : route[r] = "idle"
               /\ \A x \in Threads : wire[x] = Quiet

Thread ==
  /\ ThreadTypes /\ Listening /\ Patient /\ Joining /\ Down /\ EndsLoudly /\ RunningIsTrue

IInv == Desk /\ Thread
----------------------------------------------------------------------------
LEMMA Starts ==
  ASSUME Init
  PROVE  IInv
<1>1. 0 \in 0 .. MaxToken /\ 1 \in Days /\ 0 < FailureLimit
  BY AuthAssumption DEF Days
<1>2. Desk
  <2>1. DeskTypes
    BY <1>1 DEF Init, DeskTypes
  <2>2. Known
    BY DEF Init, Known, Tokens
  <2>3. Held = {}
    BY DEF Init, Held
  <2>. QED
    BY <2>1, <2>2, <2>3 DEF Init, Desk, OneCall, Dated, Refused, Minted, OneCurrentRow,
       SessionIsCurrent, CallsOwnTheToken, ExpiredForCause, Quiet
<1>3. Thread
  <2>1. Loop \in Threads
    BY DEF Threads
  <2>2. ThreadTypes
    <3>1. 0 \in 0 .. FailureLimit
      BY AuthAssumption
    <3>. QED  BY <3>1 DEF Init, ThreadTypes, LoopPlaces, RoutePlaces
  <2>3. Listening /\ Patient /\ Joining /\ Down /\ EndsLoudly /\ RunningIsTrue
    BY <2>1 DEF Init, Listening, Patient, Joining, Down, EndsLoudly, RunningIsTrue, Works, Alive
  <2>. QED  BY <2>2, <2>3 DEF Thread
<1>. QED  BY <1>2, <1>3 DEF IInv

\* Everything that leaves table, session and wire alone.
LEMMA DeskOfThreads ==
  ASSUME Desk, UNCHANGED <<clock, tokens, manager, wire>>
  PROVE  Desk'
BY DeskAlone DEF clock, manager, Desk, DeskTypes

LEMMA DeskOfRoutes ==
  ASSUME IInv, NEW r \in Routes, RouteStep(r)
  PROVE  Desk'
<1>0. Desk /\ r \in Threads
  BY DEF IInv, Threads
<1>. DEFINE As == {"ok", "expired", "refused", "raised"}
<1>1. ASSUME NEW a \in As, Request(r, a)  PROVE Desk'
  BY <1>0, <1>1, NobodyCalls, DeskSends DEF Request, Free, clock, tokens
<1>2. ASSUME NEW a \in As, RenewByHand(r, a)  PROVE Desk'
  <2>1. /\ \A y \in Threads : wire[y] = Quiet
        /\ today' = today /\ Usable /\ Signed(r, "renew", a)
        /\ UNCHANGED <<issued, life, since, pending>>
    BY <1>0, <1>2, NobodyCalls DEF RenewByHand, RenewSent, Free, clock
  <2>2. session' = Current
    BY <1>0, <2>1, SessionSigns DEF Signed, Usable
  <2>3. \/ broker' = broker
        \/ a # "expired" /\ broker[Current] \in {"live", "idle"}
             /\ broker' = [broker EXCEPT ![Current] = "live"]
    BY <1>2, <2>2 DEF RenewByHand, RenewSent
  <2>. QED  BY <1>0, <2>1, <2>3, DeskSends
<1>3. ASSUME NEW a \in As, AskAuth(r, a)  PROVE Desk'
  <2>. DEFINE c == [kind |-> "ask", token |-> 0, row |-> 0, answer |-> a]
  <2>1. a # "expired" /\ \A y \in Threads : wire[y] = Quiet
    BY <1>0, <1>3, NobodyCalls DEF AskAuth, Free, Unsure
  <2>3. c \in Calls /\ c.kind = "ask" /\ c.answer = a
    BY DEF Calls
  <2>4. wire' = [wire EXCEPT ![r] = c] /\ today' = today
        /\ UNCHANGED <<issued, broker, life, since, manager>>
    BY <1>3 DEF AskAuth, clock, tokens
  <2>. QED  BY <1>0, <2>1, <2>3, <2>4, DeskAsks
<1>4. ASSUME NEW a \in As, Verify(r, a)  PROVE Desk'
  <2>. DEFINE c == [kind |-> "verify", token |-> issued', row |-> 0, answer |-> a]
  <2>1. a # "expired" /\ \A y \in Threads : wire[y] = Quiet
    BY <1>0, <1>4, NobodyCalls DEF Verify, Free, Unsure
  <2>2. \/ UNCHANGED <<issued, broker>> /\ a # "ok"
        \/ issued < MaxToken /\ issued' = issued + 1
             /\ broker' = [broker EXCEPT ![issued'] = "live"]
    BY <1>4 DEF Verify
  <2>3. issued' \in Tokens \cup {0}
    BY <1>0, <2>2, AuthAssumption DEF Desk, DeskTypes, Tokens
  <2>4. c \in Calls /\ c.kind = "verify" /\ c.answer = a /\ c.token = issued'
    BY <2>3 DEF Calls
  <2>5. wire' = [wire EXCEPT ![r] = c] /\ today' = today /\ UNCHANGED <<life, since, manager>>
    BY <1>4 DEF Verify, clock
  <2>. QED  BY <1>0, <2>1, <2>2, <2>4, <2>5, DeskAsks
<1>5. ASSUME RequestAnswered(r)  PROVE Desk'
  BY <1>0, <1>5, DeskRequestAnswered DEF RequestAnswered, clock
<1>6. ASSUME RenewedByHand(r)  PROVE Desk'
  BY <1>0, <1>6, DeskRenewAnswered DEF RenewedByHand, clock
<1>7. ASSUME AskAnswered(r)  PROVE Desk'
  <2>1. pending' \in BOOLEAN
    BY <1>7 DEF AskAnswered
  <2>. QED  BY <1>0, <1>7, <2>1, DeskHears DEF AskAnswered, clock
<1>8. ASSUME VerifyAnswered(r)  PROVE Desk'
  BY <1>0, <1>8, DeskConnects
<1>9. ASSUME LookAtStatus(r)  PROVE Desk'
  BY <1>0, <1>9, NobodyCalls, DeskNotices DEF LookAtStatus, Free, clock
<1>10. ASSUME Disconnect(r)  PROVE Desk'
  BY <1>0, <1>10, DeskDisconnects
<1>11. ASSUME StartLoop(r) \/ Started(r) \/ StopLoop(r) \/ Joined(r) \/ Stopped(r)  PROVE Desk'
  BY <1>0, <1>11, DeskOfThreads DEF StartLoop, Started, StopLoop, Joined, Stopped
<1>. QED
  BY <1>1, <1>2, <1>3, <1>4, <1>5, <1>6, <1>7, <1>8, <1>9, <1>10, <1>11 DEF RouteStep

LEMMA DeskOfLoop ==
  ASSUME IInv, LoopStep
  PROVE  Desk'
<1>0. Desk /\ Loop \in Threads /\ Listening
  BY DEF IInv, Threads, Thread
<1>1. ASSUME LoopLooks  PROVE Desk'
  <2>1. /\ \A y \in Threads : wire[y] = Quiet
        /\ wire' = wire /\ today' = today
        /\ UNCHANGED <<tokens, manager>> \/ Notice
    BY <1>0, <1>1, NobodyCalls DEF LoopLooks, LoopOnly, Listening, clock, NoticeRaises
  <2>. QED  BY <1>0, <2>1, DeskNotices, DeskAlone DEF manager, Desk, DeskTypes
<1>2. ASSUME LoopDeclined  PROVE Desk'
  BY <1>0, <1>2, NobodyCalls, DeskNotices DEF LoopDeclined, RenewDeclined, LoopOnly, clock
<1>3. ASSUME LoopLooksAgain  PROVE Desk'
  <2>1. /\ \A y \in Threads : wire[y] = Quiet
        /\ wire' = wire /\ today' = today
        /\ UNCHANGED <<tokens, manager>> \/ Notice
    BY <1>0, <1>3, NobodyCalls DEF LoopLooksAgain, LoopOnly, Listening, clock, NoticeRaises
  <2>. QED  BY <1>0, <2>1, DeskNotices, DeskAlone DEF manager, Desk, DeskTypes
<1>4. ASSUME NEW a \in {"ok", "expired", "refused", "raised"}, LoopRenews(a)  PROVE Desk'
  <2>1. /\ \A y \in Threads : wire[y] = Quiet
        /\ today' = today /\ Usable /\ Signed(Loop, "renew", a)
        /\ UNCHANGED <<issued, life, since, pending>>
    BY <1>0, <1>4, NobodyCalls DEF LoopRenews, RenewSent, LoopOnly, clock
  <2>2. session' = Current
    BY <1>0, <2>1, SessionSigns DEF Signed, Usable
  <2>3. \/ broker' = broker
        \/ a # "expired" /\ broker[Current] \in {"live", "idle"}
             /\ broker' = [broker EXCEPT ![Current] = "live"]
    BY <1>4, <2>2 DEF LoopRenews, RenewSent
  <2>. QED  BY <1>0, <2>1, <2>3, DeskSends
<1>5. ASSUME LoopHears  PROVE Desk'
  BY <1>0, <1>5, DeskRenewAnswered DEF LoopHears, LoopOnly, clock
<1>6. ASSUME LoopTop \/ StatusRaises \/ LoopWakes \/ Pause \/ LoopEnds  PROVE Desk'
  BY <1>0, <1>6, DeskOfThreads DEF LoopTop, StatusRaises, LoopWakes, Pause, LoopEnds, LoopOnly
<1>. QED  BY <1>1, <1>2, <1>3, <1>4, <1>5, <1>6 DEF LoopStep, LoopLocks

LEMMA DeskOfWorld ==
  ASSUME IInv, World
  PROVE  Desk'
<1>0. Desk /\ Down
  BY DEF IInv, Thread
<1>1. ASSUME MarketOpens \/ MarketCloses  PROVE Desk'
  BY <1>0, <1>1, DeskAlone DEF MarketOpens, MarketCloses, manager, Desk, DeskTypes
<1>2. ASSUME Midnight  PROVE Desk'
  BY <1>0, <1>2, DeskMidnight
<1>3. ASSUME NEW t \in Tokens, GoesIdle(t)  PROVE Desk'
  BY <1>0, <1>3, DeskGoesIdle
<1>4. ASSUME Crash  PROVE Desk'
  BY <1>0, <1>4, DeskCrashes
<1>5. ASSUME Resume  PROVE Desk'
  BY <1>0, <1>5, DeskOfThreads DEF Resume
<1>6. ASSUME StayStopped  PROVE Desk'
  <2>1. /\ \A y \in Threads : wire[y] = Quiet
        /\ wire' = wire /\ today' = today
        /\ UNCHANGED <<tokens, manager>> \/ Notice
    BY <1>0, <1>6 DEF StayStopped, Down, clock
  <2>. QED  BY <1>0, <2>1, DeskNotices, DeskAlone DEF manager, Desk, DeskTypes
<1>. QED  BY <1>1, <1>2, <1>3, <1>4, <1>5, <1>6 DEF World
----------------------------------------------------------------------------
LEMMA ThreadAlone ==
  ASSUME Thread, UNCHANGED <<thread, route, up>>, open' \in BOOLEAN,
         intent' \in {"none", "start", "stop"},
         wire'[Loop] \in {wire[Loop], Quiet}, ~up => \A x \in Threads : wire'[x] = Quiet
  PROVE  Thread'
BY DEF Thread, ThreadTypes, Listening, Patient, Joining, Down, EndsLoudly, RunningIsTrue,
       Alive, thread

\* A route acts on the loop: its own place changes, the wire does not.
LEMMA ThreadOfCallers ==
  ASSUME IInv, NEW r \in Routes,
         StartLoop(r) \/ Started(r) \/ StopLoop(r) \/ Joined(r) \/ Stopped(r)
  PROVE  Thread'
<1>0. /\ ThreadTypes /\ Listening /\ Patient /\ Joining /\ Down /\ EndsLoudly /\ RunningIsTrue
      /\ FailureLimit \in Nat \ {0}
  BY AuthAssumption DEF IInv, Thread
<1>1. ASSUME StartLoop(r), ~Alive  PROVE Thread'
  <2>1. /\ loop' = "top" /\ stop' = FALSE /\ running' = TRUE /\ reason' = "none" /\ failures' = 0
        /\ UNCHANGED <<wire, open, intent, up>> /\ up /\ wire[Loop] = Quiet
    <3>1. wire[Loop] = Quiet
      BY <1>0, <1>1 DEF Listening, Alive
    <3>. QED  BY <1>1, <3>1 DEF StartLoop, Launch, clock
  <2>2. route' = Overtake([route EXCEPT ![r] = "started"])
    BY <1>1 DEF StartLoop
  <2>3. /\ route' \in [Routes -> RoutePlaces]
        /\ \A q \in Routes : route'[q] # "joining"
    BY <1>0, <2>2 DEF Overtake, ThreadTypes, RoutePlaces
  <2>4. ThreadTypes'
    <3>1. "top" \in LoopPlaces /\ 0 \in 0 .. FailureLimit
      BY <1>0 DEF LoopPlaces
    <3>2. loop' \in LoopPlaces /\ failures' \in 0 .. FailureLimit
      BY <2>1, <3>1
    <3>3. open' \in BOOLEAN /\ up' \in BOOLEAN
            /\ intent' \in {"none", "start", "stop"}
      BY <1>0, <2>1 DEF ThreadTypes
    <3>. QED  BY <2>1, <2>3, <3>2, <3>3 DEF ThreadTypes
  <2>. QED
    BY <1>0, <2>1, <2>3, <2>4
       DEF Thread, Listening, Patient, Joining, Down, EndsLoudly, RunningIsTrue, Alive
<1>2. ASSUME \/ StartLoop(r) /\ Alive
             \/ StopLoop(r) /\ ~Alive
             \/ Started(r) \/ Stopped(r)
      PROVE  Thread'
  <2>1. /\ Goto(r, "idle") /\ UNCHANGED <<loop, stop, running, reason, failures, wire, open, up>>
        /\ intent' \in {"none", "start", "stop"}
    BY <1>0, <1>2
       DEF StartLoop, Started, Stopped, StopLoop, ThreadTypes, thread, clock
  <2>2. /\ route' \in [Routes -> RoutePlaces]
        /\ \A q \in Routes : route'[q] = "idle" \/ route'[q] = route[q]
    BY <1>0, <2>1 DEF Goto, ThreadTypes, RoutePlaces
  <2>3. ThreadTypes'
    BY <1>0, <2>1, <2>2 DEF ThreadTypes
  <2>. QED
    BY <1>0, <2>1, <2>2, <2>3
       DEF Thread, Listening, Patient, Joining, Down, EndsLoudly, RunningIsTrue, Alive
<1>3. ASSUME StopLoop(r), Alive  PROVE Thread'
  <2>1. /\ stop' = TRUE /\ Goto(r, "joining") /\ up
        /\ UNCHANGED <<loop, running, reason, failures, wire, open, intent, up>>
    BY <1>3 DEF StopLoop, clock
  <2>2. route' \in [Routes -> RoutePlaces]
    BY <1>0, <2>1 DEF Goto, ThreadTypes, RoutePlaces
  <2>3. ThreadTypes'
    BY <1>0, <2>1, <2>2 DEF ThreadTypes
  <2>. QED
    BY <1>0, <2>1, <2>3
       DEF Thread, Listening, Patient, Joining, Down, EndsLoudly, RunningIsTrue, Alive
<1>4. ASSUME Joined(r)  PROVE Thread'
  <2>1. /\ Goto(r, "stopped")
        /\ UNCHANGED <<loop, stop, reason, failures, wire, open, intent, up>>
    BY <1>4 DEF Joined, clock
  <2>2. /\ route' \in [Routes -> RoutePlaces]
        /\ \A q \in Routes : route'[q] = "stopped" \/ route'[q] = route[q]
    BY <1>0, <2>1 DEF Goto, ThreadTypes, RoutePlaces
  <2>3. running' = running \/ (running' = FALSE /\ stop)
    BY <1>0, <1>4 DEF Joined, Joining
  <2>4. up
    BY <1>0, <1>4 DEF Joined, Down
  <2>5. ThreadTypes'
    BY <1>0, <2>1, <2>2, <2>3 DEF ThreadTypes
  <2>. QED
    BY <1>0, <2>1, <2>2, <2>3, <2>4, <2>5
       DEF Thread, Listening, Patient, Joining, Down, EndsLoudly, RunningIsTrue, Alive
<1>5. CASE StartLoop(r)
  BY <1>1, <1>2, <1>5
<1>6. CASE StopLoop(r)
  BY <1>2, <1>3, <1>6
<1>. QED  BY <1>2, <1>4, <1>5, <1>6

LEMMA ThreadOfRoutes ==
  ASSUME IInv, NEW r \in Routes, RouteStep(r)
  PROVE  Thread'
<1>0. Thread /\ wire \in [Threads -> Calls \cup {Quiet}] /\ r # Loop /\ r \in Threads
        /\ Loop \in Threads
  BY AuthAssumption DEF IInv, Desk, DeskTypes, Threads
<1>. DEFINE As == {"ok", "expired", "refused", "raised"}
<1>1. ASSUME NEW c, wire' = [wire EXCEPT ![r] = c], up \/ c = Quiet,
             UNCHANGED <<thread, route, up, clock, intent>>
      PROVE  Thread'
  <2>1. wire'[Loop] = wire[Loop] /\ (~up => \A x \in Threads : wire'[x] = Quiet)
    BY <1>0, <1>1 DEF Thread, Down
  <2>2. open' = open /\ intent' = intent
    BY <1>1 DEF clock
  <2>. QED  BY <1>0, <1>1, <2>1, <2>2, ThreadAlone DEF Thread, ThreadTypes
<1>2. ASSUME NEW a \in As, Request(r, a) \/ RenewByHand(r, a) \/ AskAuth(r, a) \/ Verify(r, a)
      PROVE  Thread'
  BY <1>1, <1>2 DEF Request, RenewByHand, AskAuth, Verify, Free, RenewSent, Signed
<1>3. ASSUME RequestAnswered(r) \/ RenewedByHand(r) \/ AskAnswered(r)  PROVE Thread'
  BY <1>1, <1>3 DEF RequestAnswered, RenewedByHand, AskAnswered, RenewAnswered, Answered
<1>4. ASSUME LookAtStatus(r)  PROVE Thread'
  BY <1>0, <1>4, ThreadAlone DEF LookAtStatus, clock, Thread, ThreadTypes, Down
<1>5. ASSUME VerifyAnswered(r) \/ Disconnect(r)  PROVE Thread'
  <2>1. /\ UNCHANGED <<loop, stop, running, reason, failures, open, intent, up>>
        /\ wire' = wire \/ wire' = [wire EXCEPT ![r] = Quiet]
        /\ route' = route \/ \E p \in {"connected", "leaving", "idle"} : Goto(r, p)
    BY <1>5 DEF VerifyAnswered, Disconnect, thread, clock, Answered
  <2>2. up
    <3>1. CASE Disconnect(r)
      BY <3>1 DEF Disconnect, Free
    <3>2. CASE VerifyAnswered(r)
      BY <1>0, <3>2 DEF VerifyAnswered, Thread, Down, Quiet
    <3>. QED  BY <1>5, <3>1, <3>2
  <2>3. /\ route' \in [Routes -> RoutePlaces]
        /\ \A q \in Routes : route'[q] \in {"connected", "leaving", "idle"} \/ route'[q] = route[q]
    BY <1>0, <2>1 DEF Goto, Thread, ThreadTypes, RoutePlaces
  <2>4. wire'[Loop] = wire[Loop]
    BY <1>0, <2>1
  <2>5. ThreadTypes'
    BY <1>0, <2>1, <2>3 DEF Thread, ThreadTypes
  <2>. QED
    BY <1>0, <2>1, <2>2, <2>3, <2>4, <2>5
       DEF Thread, Listening, Patient, Joining, Down, EndsLoudly, RunningIsTrue, Alive
<1>6. ASSUME StartLoop(r) \/ Started(r) \/ StopLoop(r) \/ Joined(r) \/ Stopped(r)  PROVE Thread'
  BY <1>6, ThreadOfCallers
<1>. QED  BY <1>2, <1>3, <1>4, <1>5, <1>6 DEF RouteStep

\* The thread goes on, to a pause, or to its end because it was told to stop.
LEMMA ThreadGoesOn ==
  ASSUME Thread, loop \in Works, LoopOnly,
         loop' \in Works \cup PauseReasons \/ (loop' = "ending" /\ stop),
         failures' \in 0 .. FailureLimit, loop' \in Works => failures' < FailureLimit,
         wire'[Loop] # Quiet => loop' = "renew" /\ wire'[Loop].kind = "renew"
  PROVE  Thread'
<1>1. /\ ThreadTypes /\ Joining /\ Down /\ EndsLoudly /\ RunningIsTrue
      /\ UNCHANGED <<open, stop, running, reason, route, intent, up>>
  BY DEF Thread, LoopOnly, clock
<1>2. up
  BY <1>1 DEF Down, Works
<1>3. loop' \in LoopPlaces /\ loop' \notin {"none", "dead"}
  BY DEF LoopPlaces, PauseReasons, Works
<1>4. ThreadTypes'
  BY <1>1, <1>3 DEF ThreadTypes
<1>5. Listening' /\ Patient' /\ Joining' /\ Down'
  BY <1>1, <1>2 DEF Listening, Patient, Joining, Down
<1>6. EndsLoudly'
  BY <1>1, <1>3 DEF EndsLoudly, Works, PauseReasons
<1>7. RunningIsTrue'
  BY <1>1, <1>3 DEF RunningIsTrue, Alive, Works
<1>. QED  BY <1>4, <1>5, <1>6, <1>7 DEF Thread

\* A failure is counted short of the limit, and the limit ends in a pause.
LEMMA Counted ==
  ASSUME Thread, loop \in Works, CountFailure
  PROVE  /\ loop' \in Works \cup PauseReasons /\ loop' # "renew"
         /\ failures' \in 0 .. FailureLimit
         /\ loop' \in Works => failures' < FailureLimit
BY AuthAssumption DEF Thread, ThreadTypes, Patient, CountFailure, Works, PauseReasons

LEMMA ThreadOfLoop ==
  ASSUME IInv, LoopStep
  PROVE  Thread'
<1>0. /\ Thread /\ ThreadTypes /\ Listening /\ Patient /\ Down
      /\ wire \in [Threads -> Calls \cup {Quiet}]
      /\ Loop \in Threads /\ failures \in 0 .. FailureLimit /\ FailureLimit \in Nat \ {0}
  BY AuthAssumption DEF IInv, Desk, DeskTypes, Threads, Thread, ThreadTypes
<1>1. ASSUME LoopTop  PROVE Thread'
  <2>1. /\ loop = "top" /\ LoopOnly /\ wire' = wire /\ failures' = failures
        /\ loop' \in {"look", "loop_error"} \/ (loop' = "ending" /\ stop)
    BY <1>1 DEF LoopTop, LoopGoes
  <2>2. wire[Loop] = Quiet /\ failures < FailureLimit
    BY <1>0, <2>1 DEF Listening, Patient, Works
  <2>. QED  BY <1>0, <2>1, <2>2, ThreadGoesOn DEF Works, PauseReasons
<1>2. ASSUME LoopLooks \/ StatusRaises \/ LoopWakes  PROVE Thread'
  <2>1. /\ loop \in {"look", "wait"} /\ LoopOnly /\ wire' = wire /\ failures' = failures
        /\ loop' \in {"wait", "renew", "top", "token_expired"}
    BY <1>2 DEF LoopLooks, StatusRaises, LoopWakes, LoopGoes
  <2>2. wire[Loop] = Quiet /\ failures < FailureLimit
    BY <1>0, <2>1 DEF Listening, Patient, Works
  <2>. QED  BY <1>0, <2>1, <2>2, ThreadGoesOn DEF Works, PauseReasons
<1>3. ASSUME LoopDeclined \/ LoopLooksAgain  PROVE Thread'
  <2>1. loop \in {"renew", "declined"} /\ LoopOnly /\ wire' = wire /\ wire[Loop] = Quiet
    BY <1>0, <1>3 DEF LoopDeclined, LoopLooksAgain, Listening
  <2>2. loop \in Works
    BY <2>1 DEF Works
  <2>3. \/ loop' \in {"declined", "token_expired"} /\ failures' = failures
        \/ CountFailure
    BY <1>3 DEF LoopDeclined, LoopLooksAgain
  <2>4. CASE loop' \in {"declined", "token_expired"} /\ failures' = failures
    BY <1>0, <2>1, <2>2, <2>4, ThreadGoesOn DEF Works, PauseReasons, Patient
  <2>5. CASE CountFailure
    BY <1>0, <2>1, <2>2, <2>5, Counted, ThreadGoesOn
  <2>. QED  BY <2>3, <2>4, <2>5
<1>4. ASSUME NEW a \in {"ok", "expired", "refused", "raised"}, LoopRenews(a)  PROVE Thread'
  <2>1. loop = "renew" /\ loop' = loop /\ failures' = failures /\ LoopOnly
    BY <1>4 DEF LoopRenews
  <2>2. wire'[Loop].kind = "renew"
    BY <1>0, <1>4 DEF LoopRenews, RenewSent, Signed
  <2>. QED  BY <1>0, <2>1, <2>2, ThreadGoesOn DEF Works, Patient
<1>5. ASSUME LoopHears  PROVE Thread'
  <2>1. /\ loop = "renew" /\ LoopOnly /\ wire'[Loop] = Quiet
    <3>1. wire[Loop].kind = "renew" /\ Answered(Loop) /\ LoopOnly
      BY <1>5 DEF LoopHears, RenewAnswered
    <3>. QED  BY <1>0, <3>1 DEF Listening, Answered, Quiet
  <2>2. loop \in Works
    BY <2>1 DEF Works
  <2>3. \/ loop' = "wait" /\ failures' = 0
        \/ loop' = "declined" /\ failures' = failures
        \/ CountFailure
    BY <1>5 DEF LoopHears
  <2>4. CASE CountFailure
    BY <1>0, <2>1, <2>2, <2>4, Counted, ThreadGoesOn
  <2>5. CASE \/ loop' = "wait" /\ failures' = 0
             \/ loop' = "declined" /\ failures' = failures
    BY <1>0, <2>1, <2>2, <2>5, ThreadGoesOn DEF Works, Patient
  <2>. QED  BY <2>3, <2>4, <2>5
<1>6. ASSUME Pause  PROVE Thread'
  <2>1. /\ reason' = loop /\ loop \in PauseReasons /\ running' = FALSE /\ loop' = "ending"
        /\ UNCHANGED <<wire, stop, failures, route, open, intent, up>>
    BY <1>6 DEF Pause, clock
  <2>2. wire[Loop] = Quiet /\ up
    BY <1>0, <2>1 DEF Listening, Down, PauseReasons
  <2>3. ThreadTypes'
    BY <1>0, <2>1 DEF ThreadTypes, LoopPlaces
  <2>. QED
    BY <1>0, <2>1, <2>2, <2>3
       DEF Thread, Listening, Patient, Joining, Down, EndsLoudly, RunningIsTrue, Works, PauseReasons
<1>7. ASSUME LoopEnds  PROVE Thread'
  <2>1. /\ loop = "ending" /\ running' = FALSE /\ loop' = "dead"
        /\ UNCHANGED <<wire, stop, reason, failures, route, open, intent, up>>
    BY <1>7 DEF LoopEnds, LoopGoes, clock
  <2>2. wire[Loop] = Quiet /\ up
    BY <1>0, <2>1 DEF Listening, Down
  <2>3. ThreadTypes'
    BY <1>0, <2>1 DEF ThreadTypes, LoopPlaces
  <2>. QED
    BY <1>0, <2>1, <2>2, <2>3
       DEF Thread, Listening, Patient, Joining, Down, EndsLoudly, RunningIsTrue, Works
<1>. QED  BY <1>1, <1>2, <1>3, <1>4, <1>5, <1>6, <1>7 DEF LoopStep, LoopLocks

LEMMA ThreadOfWorld ==
  ASSUME IInv, World
  PROVE  Thread'
<1>0. /\ Thread /\ ThreadTypes /\ Down /\ Loop \in Threads /\ 0 \in 0 .. FailureLimit
      /\ 0 < FailureLimit
  BY AuthAssumption DEF IInv, Thread, Threads
<1>1. ASSUME MarketOpens \/ MarketCloses \/ Midnight \/ \E t \in Tokens : GoesIdle(t)
      PROVE  Thread'
  <2>1. /\ UNCHANGED <<thread, route, up, wire, intent>>
        /\ open' \in BOOLEAN
    BY <1>0, <1>1 DEF MarketOpens, MarketCloses, Midnight, GoesIdle, clock, ThreadTypes
  <2>. QED  BY <1>0, <2>1, ThreadAlone DEF ThreadTypes, Down
<1>2. ASSUME Crash  PROVE Thread'
  <2>1. /\ up' = FALSE /\ wire' = [x \in Threads |-> Quiet] /\ loop' = "none" /\ stop' = FALSE
        /\ running' = FALSE /\ reason' = "none" /\ failures' = 0
        /\ route' = [r \in Routes |-> "idle"] /\ UNCHANGED <<open, intent>>
    BY <1>2 DEF Crash, clock
  <2>2. ThreadTypes'
    <3>1. "none" \in LoopPlaces /\ "idle" \in RoutePlaces
      BY DEF LoopPlaces, RoutePlaces
    <3>. QED  BY <1>0, <2>1, <3>1 DEF ThreadTypes
  <2>. QED
    BY <1>0, <2>1, <2>2
       DEF Thread, Listening, Patient, Joining, Down, EndsLoudly, RunningIsTrue, Works
<1>3. ASSUME Resume  PROVE Thread'
  <2>1. /\ up' = TRUE /\ loop' = "top" /\ stop' = FALSE /\ running' = TRUE /\ reason' = "none"
        /\ failures' = 0 /\ UNCHANGED <<open, wire, route, intent>> /\ ~up
    BY <1>3 DEF Resume, Launch, clock
  <2>2. wire[Loop] = Quiet /\ \A r \in Routes : route[r] = "idle"
    BY <1>0, <2>1 DEF Down
  <2>3. ThreadTypes'
    <3>1. "top" \in LoopPlaces
      BY DEF LoopPlaces
    <3>. QED  BY <1>0, <2>1, <3>1 DEF ThreadTypes
  <2>. QED
    BY <1>0, <2>1, <2>2, <2>3
       DEF Thread, Listening, Patient, Joining, Down, EndsLoudly, RunningIsTrue, Alive
<1>4. ASSUME StayStopped  PROVE Thread'
  <2>1. ~up /\ up' = TRUE /\ UNCHANGED <<thread, route, wire, open, intent>>
    BY <1>4 DEF StayStopped, clock
  <2>2. loop = "none" /\ wire[Loop] = Quiet
    BY <1>0, <2>1 DEF Down
  <2>3. ThreadTypes'
    BY <1>0, <2>1 DEF ThreadTypes, thread
  <2>. QED
    BY <1>0, <2>1, <2>2, <2>3
       DEF Thread, Listening, Patient, Joining, Down, EndsLoudly, RunningIsTrue, Alive, thread
<1>. QED  BY <1>1, <1>2, <1>3, <1>4 DEF World
----------------------------------------------------------------------------
LEMMA Keeps ==
  ASSUME IInv, [Next]_vars
  PROVE  IInv'
<1>1. CASE UNCHANGED vars
  <2>1. Desk'
    BY <1>1, DeskOfThreads DEF IInv, vars
  <2>2. Thread'
    BY <1>1, ThreadAlone DEF IInv, Thread, ThreadTypes, Down, vars, clock
  <2>. QED  BY <2>1, <2>2 DEF IInv
<1>2. ASSUME NEW r \in Routes, RouteStep(r)  PROVE IInv'
  BY <1>2, DeskOfRoutes, ThreadOfRoutes DEF IInv
<1>3. CASE LoopStep
  BY <1>3, DeskOfLoop, ThreadOfLoop DEF IInv
<1>4. CASE World
  BY <1>4, DeskOfWorld, ThreadOfWorld DEF IInv
<1>. QED  BY <1>1, <1>2, <1>3, <1>4 DEF Next

\* The inductive invariant of the session with E*TRADE.
THEOREM SessionInvariant == Spec => []IInv
<1>1. Init => IInv
  BY Starts
<1>2. IInv /\ [Next]_vars => IInv'
  BY Keeps
<1>. QED  BY <1>1, <1>2, PTL DEF Spec

\* Every variable keeps its type.
THEOREM TypeCorrect == Spec => []TypeOK
<1>1. IInv => TypeOK
  BY DEF IInv, Desk, DeskTypes, Thread, ThreadTypes, TypeOK
<1>. QED  BY <1>1, SessionInvariant, PTL

\* However connections, disconnections, expiries, crashes and midnights fall,
\* one row at most is active or expired (submit_verifier, disconnect).
THEOREM OneCurrent == Spec => []OneCurrentRow
<1>1. IInv => OneCurrentRow
  BY DEF IInv, Desk
<1>. QED  BY <1>1, SessionInvariant, PTL

\* No signing session outlives the active row it was built for (_build_session).
THEOREM SessionCurrent == Spec => []SessionIsCurrent
<1>1. IInv => SessionIsCurrent
  BY DEF IInv, Desk
<1>. QED  BY <1>1, SessionInvariant, PTL

\* Nobody takes the token away from a call that is on the wire (the lock).
THEOREM CallsOwn == Spec => []CallsOwnTheToken
<1>1. IInv => CallsOwnTheToken
  BY DEF IInv, Desk
<1>. QED  BY <1>1, SessionInvariant, PTL

\* A token marked expired is one that E*TRADE refuses (mark_expired, renew).
THEOREM ExpiryHasCause == Spec => []ExpiredForCause
<1>1. IInv => ExpiredForCause
  BY DEF IInv, Desk
<1>. QED  BY <1>1, SessionInvariant, PTL

\* The keep-alive thread ends because it was told to, or says why (_run).
THEOREM NoSilentEnd == Spec => []EndsLoudly
<1>1. IInv => EndsLoudly
  BY DEF IInv, Thread
<1>. QED  BY <1>1, SessionInvariant, PTL

\* The running flag tells the truth, whatever starts and stops overlap (stop).
THEOREM RunningTrue == Spec => []RunningIsTrue
<1>1. IInv => RunningIsTrue
  BY DEF IInv, Thread
<1>. QED  BY <1>1, SessionInvariant, PTL
----------------------------------------------------------------------------
(* The token table implements TokenLife.                                   *)

LEMMA ExpireIsExpire ==
  ASSUME NEW t \in Tokens, life[t] = "active", ExpireRow(t)
  PROVE  Life!LifeNext
BY DEF ExpireRow, Life!LifeNext, Life!Expire

LEMMA NoticeIsExpire ==
  ASSUME OneCurrentRow, Notice
  PROVE  [Life!LifeNext]_life
<1>1. CASE Stale
  BY <1>1, UsableRow, ExpireIsExpire DEF Notice, Stale
<1>2. CASE ~Stale
  BY <1>2 DEF Notice, tokens
<1>. QED  BY <1>1, <1>2

LEMMA RenewalIsExpire ==
  ASSUME Desk, NEW x \in Threads, RenewAnswered(x)
  PROVE  [Life!LifeNext]_life
<1>1. CASE wire[x].answer = "expired"
  <2>1. /\ wire[x].row \in Tokens /\ life[wire[x].row] = "active"
    BY <1>1 DEF RenewAnswered, Desk, CallsOwnTheToken, Held
  <2>2. ExpireRow(wire[x].row)
    BY <1>1 DEF RenewAnswered
  <2>. QED  BY <2>1, <2>2, ExpireIsExpire
<1>2. CASE wire[x].answer # "expired"
  BY <1>2 DEF RenewAnswered, tokens
<1>. QED  BY <1>1, <1>2

LEMMA StepOfLife ==
  ASSUME IInv, [Next]_vars
  PROVE  [Life!LifeNext]_life
<1>0. Desk /\ OneCurrentRow /\ DeskTypes /\ Minted /\ Loop \in Threads /\ Routes \subseteq Threads
  BY DEF IInv, Desk, Threads
<1>1. ASSUME NEW r \in Routes, NEW a \in {"ok", "expired", "refused", "raised"},
             Request(r, a) \/ RenewByHand(r, a) \/ AskAuth(r, a) \/ Verify(r, a)
      PROVE  UNCHANGED life
  BY <1>1 DEF Request, RenewByHand, RenewSent, AskAuth, Verify, tokens
<1>2. ASSUME NEW r \in Routes, RequestAnswered(r)  PROVE [Life!LifeNext]_life
  <2>1. CASE Active /\ ExpireRow(Current)
    BY <1>0, <2>1, UsableRow, ExpireIsExpire
  <2>2. CASE UNCHANGED life
    BY <2>2
  <2>. QED  BY <1>2, <2>1, <2>2 DEF RequestAnswered, tokens
<1>3. ASSUME NEW r \in Routes, RenewedByHand(r)  PROVE [Life!LifeNext]_life
  BY <1>0, <1>3, RenewalIsExpire DEF RenewedByHand
<1>4. ASSUME NEW r \in Routes, VerifyAnswered(r)  PROVE [Life!LifeNext]_life
  <2>. DEFINE t == wire[r].token
  <2>1. CASE wire[r].answer = "ok"
    <3>1. t \in Tokens /\ life[t] = "none"
      BY <1>0, <1>4, <2>1 DEF VerifyAnswered, Minted
    <3>2. Life!Connect(t)
      BY <1>4, <2>1, <3>1 DEF VerifyAnswered, Life!Connect, Life!Held, Held
    <3>. QED  BY <3>1, <3>2 DEF Life!LifeNext
  <2>2. CASE wire[r].answer # "ok"
    BY <1>4, <2>2 DEF VerifyAnswered
  <2>. QED  BY <2>1, <2>2
<1>5. ASSUME NEW r \in Routes, Disconnect(r)  PROVE [Life!LifeNext]_life
  <2>1. CASE Current = 0
    BY <1>5, <2>1 DEF Disconnect
  <2>2. CASE Current # 0
    <3>1. Current \in Held /\ Current \in Tokens
      BY <1>0, <2>2, CurrentRow
    <3>2. Life!GiveUp(Current)
      BY <1>5, <2>2, <3>1 DEF Disconnect, Life!GiveUp, Life!Held, Held
    <3>. QED  BY <3>1, <3>2 DEF Life!LifeNext
  <2>. QED  BY <2>1, <2>2
<1>6. ASSUME NEW r \in Routes,
             \/ AskAnswered(r) \/ StartLoop(r) \/ Started(r)
             \/ StopLoop(r) \/ Joined(r) \/ Stopped(r)
      PROVE  UNCHANGED life
  BY <1>6 DEF AskAnswered, StartLoop, Started, StopLoop, Joined, Stopped, tokens
<1>7. ASSUME NEW r \in Routes, LookAtStatus(r)  PROVE [Life!LifeNext]_life
  BY <1>0, <1>7, NoticeIsExpire DEF LookAtStatus
<1>8. ASSUME LoopHears  PROVE [Life!LifeNext]_life
  BY <1>0, <1>8, RenewalIsExpire DEF LoopHears
<1>9. ASSUME LoopLooks \/ LoopDeclined \/ LoopLooksAgain \/ StayStopped
      PROVE  [Life!LifeNext]_life
  <2>1. Notice \/ UNCHANGED life
    BY <1>9
       DEF LoopLooks, LoopDeclined, RenewDeclined, LoopLooksAgain, StayStopped, NoticeRaises, tokens
  <2>. QED  BY <1>0, <2>1, NoticeIsExpire
<1>10. ASSUME NEW a \in {"ok", "expired", "refused", "raised"}, LoopRenews(a)
       PROVE  UNCHANGED life
  BY <1>10 DEF LoopRenews, RenewSent
<1>11. ASSUME \/ LoopTop \/ StatusRaises \/ LoopWakes \/ Pause \/ LoopEnds
              \/ MarketOpens \/ MarketCloses \/ Midnight \/ Crash \/ Resume
              \/ \E t \in Tokens : GoesIdle(t)
       PROVE  UNCHANGED life
  BY <1>11 DEF LoopTop, StatusRaises, LoopWakes, Pause, LoopEnds, MarketOpens, MarketCloses,
               Midnight, Crash, Resume, GoesIdle, tokens
<1>12. ASSUME NEW r \in Routes, RouteStep(r)  PROVE [Life!LifeNext]_life
  BY <1>1, <1>2, <1>3, <1>4, <1>5, <1>6, <1>7, <1>12 DEF RouteStep
<1>13. CASE LoopStep
  BY <1>8, <1>9, <1>10, <1>11, <1>13 DEF LoopStep, LoopLocks
<1>14. CASE World
  BY <1>9, <1>11, <1>14 DEF World
<1>15. CASE UNCHANGED vars
  BY <1>15 DEF vars, tokens
<1>. QED  BY <1>12, <1>13, <1>14, <1>15 DEF Next

\* A token becomes active once, may expire, and never comes back, whoever
\* renews, expires, reconnects and disconnects at that time (_expire_row,
\* submit_verifier, disconnect).
THEOREM TokensLiveOnce == Spec => LivesOnce
<1>1. Init => Life!LifeInit
  BY DEF Init, Life!LifeInit
<1>2. IInv /\ [Next]_vars => [Life!LifeNext]_life
  BY StepOfLife
<1>. QED  BY <1>1, <1>2, SessionInvariant, PTL DEF Spec, LivesOnce, Life!LifeSpec
=============================================================================
