----------------------------- MODULE AuthSession -----------------------------
(***************************************************************************)
(* The signed session with E*TRADE: the token table and cached session of  *)
(* EtradeAuthManager (brokers/etrade_auth.py), the requests EtradeClient   *)
(* makes with it, the keep-alive thread that renews it                     *)
(* (utils/token_keepalive.py), the routes that connect, disconnect, start  *)
(* and stop (gui/routes/api_live.py), and a restart that resumes the loop. *)
(*                                                                         *)
(* A call to E*TRADE is two steps, Sent and Answered; the manager's        *)
(* transport lock is held in between.  What E*TRADE makes of the call is   *)
(* decided when it is sent.                                                *)
(***************************************************************************)
EXTENDS Integers

CONSTANTS
  Routes,        \* threads that serve the GUI or trade
  MaxToken,      \* bounds the access tokens E*TRADE issues
  LastDay,       \* bounds the days
  FailureLimit,  \* max_consecutive_failures of the loop
  Faults         \* what may go wrong, see below

Loop == "keepalive"

\* transport: a call fails or its answer is lost.  audit: a write of the audit
\* log raises.  status: reading the token table raises.  calendar: the market
\* calendar raises.  late: stop() gives up waiting.  crash: the process dies.
ASSUME AuthAssumption ==
  /\ Loop \notin Routes
  /\ MaxToken \in Nat /\ LastDay \in Nat \ {0} /\ FailureLimit \in Nat \ {0}
  /\ Faults \subseteq {"transport", "audit", "status", "calendar", "late", "crash"}

VARIABLES
  today,     \* the date in New York
  open,      \* the market is open
  issued,    \* E*TRADE: the tokens issued so far are 1 .. issued
  broker,    \* E*TRADE: what it thinks of each token
  life,      \* etrade_tokens: the status of each row
  since,     \* etrade_tokens: the date of token_issued_at
  pending,   \* _pending: start_auth has a request token
  session,   \* _session: the token the cached session signs with, or 0
  wire,      \* wire[x]: the call to E*TRADE that thread x waits for
  loop,      \* the keep-alive thread: see LoopPlaces
  stop,      \* its stop event
  running,   \* _running
  reason,    \* _paused_reason
  failures,  \* _consecutive_failures
  route,     \* route[r]: what r has left to do, see RoutePlaces
  intent,    \* the latest of keepalive_started and keepalive_stopped
  up         \* the process runs

clock   == <<today, open>>
tokens  == <<issued, broker, life, since>>
manager == <<pending, session>>
thread  == <<loop, stop, running, reason, failures>>
vars    == <<clock, tokens, manager, wire, thread, route, intent, up>>
----------------------------------------------------------------------------
Tokens  == 1 .. MaxToken
Days    == 1 .. LastDay
Threads == Routes \cup {Loop}

PauseReasons == {"token_expired", "renew_failure_storm", "loop_error"}

\* none: no thread since the process began.  A pause reason: at _pause(reason).
LoopPlaces == {"none", "dead", "top", "look", "renew", "declined", "wait", "ending"} \cup PauseReasons

\* connected, leaving: the route goes on to start or stop the loop.
\* joining, overtaken: in stop(), of the present loop or of an earlier one.
\* started, stopped: about to write that to the audit log.
RoutePlaces == {"idle", "connected", "leaving", "joining", "overtaken", "started", "stopped"}

Quiet == [kind |-> "none", token |-> 0, row |-> 0, answer |-> "none"]
Calls == [kind : {"request", "renew", "ask", "verify"}, token : Tokens \cup {0},
          row : Tokens \cup {0}, answer : {"ok", "expired", "refused", "raised"}]

TypeOK ==
  /\ today \in Days /\ open \in BOOLEAN
  /\ issued \in 0 .. MaxToken
  /\ broker \in [Tokens -> {"unknown", "live", "idle", "dead"}]
  /\ life \in [Tokens -> {"none", "active", "expired", "disconnected"}]
  /\ since \in [Tokens -> Days \cup {0}]
  /\ pending \in BOOLEAN /\ session \in Tokens \cup {0}
  /\ wire \in [Threads -> Calls \cup {Quiet}]
  /\ loop \in LoopPlaces /\ stop \in BOOLEAN /\ running \in BOOLEAN
  /\ reason \in PauseReasons \cup {"none"} /\ failures \in 0 .. FailureLimit
  /\ route \in [Routes -> RoutePlaces]
  /\ intent \in {"none", "start", "stop"}
  /\ up \in BOOLEAN

Init ==
  /\ today = 1 /\ open = FALSE
  /\ issued = 0 /\ broker = [t \in Tokens |-> "unknown"]
  /\ life = [t \in Tokens |-> "none"] /\ since = [t \in Tokens |-> 0]
  /\ pending = FALSE /\ session = 0 /\ wire = [x \in Threads |-> Quiet]
  /\ loop = "none" /\ stop = FALSE /\ running = FALSE /\ reason = "none" /\ failures = 0
  /\ route = [r \in Routes |-> "idle"]
  /\ intent = "none" /\ up = TRUE
----------------------------------------------------------------------------
(* The token table and the manager's answers.                              *)

\* Mutant of LockFree: the lock is given back while a request is on the wire.
LockFreeOnTheWire(x) == \A y \in Threads \ {x} : wire[y].kind \in {"none", "request"}

\* Mutant of LockFree: a renewal does not take it.
LockFreeOfRenewals(x) == \A y \in Threads \ {x} : wire[y].kind \in {"none", "renew"}

\* The lock, when x asks for it: reentrant, and held over a call to E*TRADE.
LockFree(x) == \A y \in Threads \ {x} : wire[y] = Quiet

Held == {t \in Tokens : life[t] \in {"active", "expired"}}

\* _current_row: 0 when there is none.
Current == IF Held = {} THEN 0 ELSE CHOOSE t \in Held : \A u \in Held : u <= t

Active == Current # 0 /\ life[Current] = "active"
Stale  == Active /\ since[Current] # today
Usable == Active /\ since[Current] = today

Fails(f) == f \in Faults

\* _expire_row.  When its audit row fails, the call that meets it raises.
ExpireRow(t) ==
  /\ life' = [life EXCEPT ![t] = "expired"] /\ session' = 0
  /\ UNCHANGED <<issued, broker, since, pending>>

\* status() and get_session() notice that the day of the token is over.
Notice == IF Stale THEN ExpireRow(Current) ELSE UNCHANGED <<tokens, manager>>
NoticeRaises == Stale /\ Fails("audit") /\ Notice

\* What comes of a call: refused is any other status than 200 and 401, which
\* only renew() tells from an exception.
Unsure(kind) == IF ~Fails("transport") THEN {}
                ELSE IF kind = "renew" THEN {"refused", "raised"} ELSE {"raised"}

Answers(kind, t) ==
  (IF broker[t] = "live" \/ (kind = "renew" /\ broker[t] = "idle") THEN {"ok"} ELSE {"expired"})
    \cup Unsure(kind)

Signed(x, kind, answer) ==
  /\ session' = IF session = 0 THEN Current ELSE session
  /\ answer \in Answers(kind, session')
  /\ wire' = [wire EXCEPT ![x] = [kind |-> kind, token |-> session', row |-> Current,
                                  answer |-> answer]]

Answered(x) == wire' = [wire EXCEPT ![x] = Quiet]
----------------------------------------------------------------------------
(* Calls that any thread makes.                                            *)

\* renew(), as far as the call: E*TRADE may renew and the answer be lost.
RenewSent(x, answer) ==
  /\ LockFree(x) /\ Usable /\ Signed(x, "renew", answer)
  /\ \/ /\ answer \in {"ok", "raised"} /\ broker[session'] \in {"live", "idle"}
        /\ broker' = [broker EXCEPT ![session'] = "live"]
     \/ answer # "ok" /\ UNCHANGED broker
  /\ UNCHANGED <<issued, life, since, pending>>

\* A successful renewal drops the cached session, unless its audit row fails.
RenewAnswered(x) ==
  LET call == wire[x] IN
  /\ call.kind = "renew" /\ Answered(x)
  /\ \/ /\ call.answer = "ok"
        /\ session' = 0 \/ (Fails("audit") /\ session' = session)
        /\ UNCHANGED <<tokens, pending>>
     \/ call.answer = "expired" /\ ExpireRow(call.row)
     \/ call.answer \in {"refused", "raised"} /\ UNCHANGED <<tokens, manager>>

\* renew() without a call: no active row, or one whose day is over.
RenewDeclined(x) == LockFree(x) /\ ~Usable /\ Notice
----------------------------------------------------------------------------
(* The routes.                                                             *)

Free(r) == up /\ route[r] = "idle" /\ wire[r] = Quiet
Goto(r, place) == route' = [route EXCEPT ![r] = place]

\* One attempt of _get or _send.
Request(r, answer) ==
  /\ Free(r) /\ LockFree(r) /\ Usable /\ Signed(r, "request", answer)
  /\ UNCHANGED <<clock, tokens, pending, thread, route, intent, up>>

\* _handle_response: a 401 expires the row that is current by now.
RequestAnswered(r) ==
  /\ wire[r].kind = "request" /\ Answered(r)
  /\ IF wire[r].answer = "expired" /\ Active THEN ExpireRow(Current)
     ELSE UNCHANGED <<tokens, manager>>
  /\ UNCHANGED <<clock, thread, route, intent, up>>

\* A look at status(), a request or a renewal on the day after.
LookAtStatus(r) ==
  /\ Free(r) /\ LockFree(r) /\ Stale /\ Notice
  /\ UNCHANGED <<clock, wire, thread, route, intent, up>>

RenewByHand(r, answer) ==
  /\ Free(r) /\ RenewSent(r, answer)
  /\ UNCHANGED <<clock, thread, route, intent, up>>

RenewedByHand(r) ==
  /\ RenewAnswered(r)
  /\ UNCHANGED <<clock, thread, route, intent, up>>

\* start_auth: a request token, for a person to authorize.
AskAuth(r, answer) ==
  /\ Free(r) /\ LockFree(r)
  /\ answer \in {"ok"} \cup Unsure("ask")
  /\ wire' = [wire EXCEPT ![r] = [kind |-> "ask", token |-> 0, row |-> 0, answer |-> answer]]
  /\ UNCHANGED <<clock, tokens, manager, thread, route, intent, up>>

AskAnswered(r) ==
  /\ wire[r].kind = "ask" /\ Answered(r)
  /\ pending' = (pending \/ wire[r].answer = "ok")
  /\ UNCHANGED <<clock, tokens, session, thread, route, intent, up>>

\* submit_verifier: E*TRADE issues an access token, whose answer may be lost.
Verify(r, answer) ==
  /\ Free(r) /\ LockFree(r) /\ pending
  /\ answer \in {"ok"} \cup Unsure("verify")
  /\ \/ /\ answer \in {"ok", "raised"} /\ issued < MaxToken
        /\ issued' = issued + 1 /\ broker' = [broker EXCEPT ![issued'] = "live"]
     \/ answer # "ok" /\ UNCHANGED <<issued, broker>>
  /\ wire' = [wire EXCEPT ![r] = [kind |-> "verify", token |-> issued', row |-> 0,
                                  answer |-> answer]]
  /\ UNCHANGED <<clock, life, since, manager, thread, route, intent, up>>

\* Mutant of VerifyAnswered: only the active row is superseded.
VerifyKeepsExpired(r) ==
  LET t == wire[r].token IN
  /\ wire[r].kind = "verify" /\ Answered(r)
  /\ IF wire[r].answer = "ok"
     THEN /\ life' = [u \in Tokens |-> IF u = t THEN "active"
                                       ELSE IF life[u] = "active" THEN "disconnected" ELSE life[u]]
          /\ since' = [since EXCEPT ![t] = today]
          /\ pending' = FALSE /\ session' = 0 /\ Goto(r, "connected")
     ELSE UNCHANGED <<life, since, manager, route>>
  /\ UNCHANGED <<clock, issued, broker, thread, intent, up>>

\* The new row supersedes all others.  Its date is the client's, on the answer.
\* When the audit row fails the route fails, and does not start the loop.
VerifyAnswered(r) ==
  LET t == wire[r].token IN
  /\ wire[r].kind = "verify" /\ Answered(r)
  /\ IF wire[r].answer = "ok"
     THEN /\ life' = [u \in Tokens |-> IF u = t THEN "active"
                                       ELSE IF u \in Held THEN "disconnected" ELSE life[u]]
          /\ since' = [since EXCEPT ![t] = today]
          /\ pending' = FALSE /\ session' = 0
          /\ Goto(r, "connected") \/ (Fails("audit") /\ Goto(r, "idle"))
     ELSE UNCHANGED <<life, since, manager, route>>
  /\ UNCHANGED <<clock, issued, broker, thread, intent, up>>

\* Mutant of Disconnect: the cached session is kept.
DisconnectKeepsSession(r) ==
  /\ Free(r) /\ LockFree(r)
  /\ life' = IF Current = 0 THEN life ELSE [life EXCEPT ![Current] = "disconnected"]
  /\ pending' = FALSE /\ Goto(r, "leaving")
  /\ UNCHANGED <<clock, issued, broker, since, session, wire, thread, intent, up>>

\* disconnect(), after the execution context is shut down.
Disconnect(r) ==
  /\ Free(r) /\ LockFree(r)
  /\ life' = IF Current = 0 THEN life ELSE [life EXCEPT ![Current] = "disconnected"]
  /\ pending' = FALSE /\ session' = 0
  /\ Goto(r, "leaving") \/ (Fails("audit") /\ Goto(r, "idle"))
  /\ UNCHANGED <<clock, issued, broker, since, wire, thread, intent, up>>
----------------------------------------------------------------------------
(* start() and stop() of the loop, by the connect and disconnect routes or *)
(* on demand.                                                              *)

Alive == loop \notin {"none", "dead"}

\* A new thread; whoever still waits for the old one is overtaken.
Launch ==
  /\ loop' = "top" /\ stop' = FALSE /\ running' = TRUE /\ reason' = "none" /\ failures' = 0

Overtake(places) ==
  [q \in Routes |-> IF places[q] = "joining" THEN "overtaken" ELSE places[q]]

StartLoop(r) ==
  /\ up /\ route[r] \in {"idle", "connected"} /\ wire[r] = Quiet
  /\ IF Alive
     THEN Goto(r, "idle") /\ UNCHANGED thread
     ELSE Launch /\ route' = Overtake([route EXCEPT ![r] = "started"])
  /\ UNCHANGED <<clock, tokens, manager, wire, intent, up>>

Started(r) ==
  /\ route[r] = "started" /\ Goto(r, "idle")
  /\ intent' = "start" \/ (Fails("audit") /\ UNCHANGED intent)
  /\ UNCHANGED <<clock, tokens, manager, wire, thread, up>>

StopLoop(r) ==
  /\ up /\ route[r] \in {"idle", "leaving"} /\ wire[r] = Quiet
  /\ IF Alive
     THEN stop' = TRUE /\ Goto(r, "joining")
     ELSE Goto(r, "idle") /\ UNCHANGED stop
  /\ UNCHANGED <<clock, tokens, manager, wire, loop, running, reason, failures, intent, up>>

\* Mutant of Joined: running is cleared, whichever loop runs by now.
JoinedBlindly(r) ==
  /\ route[r] \in {"joining", "overtaken"} /\ (~Alive \/ route[r] = "overtaken") /\ running' = FALSE
  /\ Goto(r, "stopped")
  /\ UNCHANGED <<clock, tokens, manager, wire, loop, stop, reason, failures, intent, up>>

\* The join has ended, and running is cleared if no newer loop is installed.
Joined(r) ==
  /\ \/ route[r] = "joining" /\ (~Alive \/ Fails("late")) /\ running' = FALSE
     \/ route[r] = "overtaken" /\ UNCHANGED running
  /\ Goto(r, "stopped")
  /\ UNCHANGED <<clock, tokens, manager, wire, loop, stop, reason, failures, intent, up>>

Stopped(r) ==
  /\ route[r] = "stopped" /\ Goto(r, "idle")
  /\ intent' = "stop" \/ (Fails("audit") /\ UNCHANGED intent)
  /\ UNCHANGED <<clock, tokens, manager, wire, thread, up>>
----------------------------------------------------------------------------
(* The keep-alive thread.                                                  *)

LoopGoes(from, to) == loop = from /\ loop' = to
LoopOnly == UNCHANGED <<clock, stop, running, reason, route, intent, up>>

\* The head of the loop; while the market is closed it sleeps here.
LoopTop ==
  /\ \/ LoopGoes("top", "look") /\ ~stop /\ open
     \/ LoopGoes("top", "ending") /\ stop
     \/ LoopGoes("top", "loop_error") /\ ~stop /\ Fails("calendar")
  /\ LoopOnly /\ UNCHANGED <<tokens, manager, wire, failures>>

Expired == Current # 0 /\ ~Usable

\* The first status() of _renew_cycle; anything but connected or expired idles.
LoopLooks ==
  /\ loop = "look" /\ LockFree(Loop)
  /\ \/ pending /\ loop' = "wait" /\ UNCHANGED <<tokens, manager>>
     \/ /\ ~pending /\ Notice
        /\ loop' = IF Current = 0 THEN "wait" ELSE IF Expired THEN "token_expired" ELSE "renew"
     \/ ~pending /\ NoticeRaises /\ loop' = "wait"
  /\ LoopOnly /\ UNCHANGED <<wire, failures>>

StatusRaises ==
  /\ loop = "look" /\ LockFree(Loop) /\ Fails("status") /\ loop' = "wait"
  /\ LoopOnly /\ UNCHANGED <<tokens, manager, wire, failures>>

\* Mutant of CountFailure: a storm ends the thread without _pause.
StormEndsQuietly ==
  /\ failures' = failures + 1
  /\ loop' = IF failures' >= FailureLimit THEN "ending" ELSE "wait"

\* _note_failure and _storm_reason.
CountFailure ==
  /\ failures' = failures + 1
  /\ loop' = IF failures' >= FailureLimit THEN "renew_failure_storm" ELSE "wait"

LoopRenews(answer) ==
  /\ loop = "renew" /\ wire[Loop] = Quiet /\ RenewSent(Loop, answer)
  /\ LoopOnly /\ UNCHANGED <<loop, failures>>

LoopDeclined ==
  /\ loop = "renew" /\ wire[Loop] = Quiet /\ RenewDeclined(Loop)
  /\ \/ loop' = "declined" /\ UNCHANGED failures
     \/ NoticeRaises /\ CountFailure
  /\ LoopOnly /\ UNCHANGED wire

\* True, raised, or False.
LoopHears ==
  /\ RenewAnswered(Loop)
  /\ \/ wire[Loop].answer = "ok" /\ loop' = "wait" /\ failures' = 0
     \/ wire[Loop].answer \in {"expired", "refused"} /\ loop' = "declined" /\ UNCHANGED failures
     \/ (wire[Loop].answer = "raised" \/ Fails("audit")) /\ CountFailure
  /\ LoopOnly

\* The second status(): an expired token pauses, anything else is a failure.
LoopLooksAgain ==
  /\ loop = "declined" /\ LockFree(Loop)
  /\ \/ ~pending /\ Notice /\ Expired /\ loop' = "token_expired" /\ UNCHANGED failures
     \/ ~pending /\ ~Expired /\ CountFailure /\ UNCHANGED <<tokens, manager>>
     \/ ~pending /\ NoticeRaises /\ CountFailure
     \/ (pending \/ Fails("status")) /\ CountFailure /\ UNCHANGED <<tokens, manager>>
  /\ LoopOnly /\ UNCHANGED wire

\* _wait_interval: time passes, or the stop event ends the wait.
LoopWakes ==
  /\ LoopGoes("wait", "top")
  /\ LoopOnly /\ UNCHANGED <<tokens, manager, wire, failures>>

Pause ==
  /\ loop \in PauseReasons /\ reason' = loop /\ running' = FALSE /\ loop' = "ending"
  /\ UNCHANGED <<clock, tokens, manager, wire, stop, failures, route, intent, up>>

LoopEnds ==
  /\ LoopGoes("ending", "dead") /\ running' = FALSE
  /\ UNCHANGED <<clock, tokens, manager, wire, stop, reason, failures, route, intent, up>>
----------------------------------------------------------------------------
(* Time, E*TRADE, and the process.                                         *)

MarketOpens ==
  /\ ~open /\ open' = TRUE
  /\ UNCHANGED <<today, tokens, manager, wire, thread, route, intent, up>>

MarketCloses ==
  /\ open /\ open' = FALSE
  /\ UNCHANGED <<today, tokens, manager, wire, thread, route, intent, up>>

\* Every token dies at midnight in New York.
Midnight ==
  /\ ~open /\ today < LastDay /\ today' = today + 1
  /\ broker' = [t \in Tokens |-> IF t <= issued THEN "dead" ELSE broker[t]]
  /\ UNCHANGED <<open, issued, life, since, manager, wire, thread, route, intent, up>>

\* Two hours without a use.
GoesIdle(t) ==
  /\ broker[t] = "live" /\ broker' = [broker EXCEPT ![t] = "idle"]
  /\ UNCHANGED <<clock, issued, life, since, manager, wire, thread, route, intent, up>>

Crash ==
  /\ Fails("crash") /\ up /\ up' = FALSE
  /\ pending' = FALSE /\ session' = 0 /\ wire' = [x \in Threads |-> Quiet]
  /\ loop' = "none" /\ stop' = FALSE /\ running' = FALSE /\ reason' = "none" /\ failures' = 0
  /\ route' = [r \in Routes |-> "idle"]
  /\ UNCHANGED <<clock, tokens, intent>>

\* resume_keepalive_if_desired: only for the wish to run and a token that lives.
Resume ==
  /\ ~up /\ up' = TRUE /\ intent = "start" /\ Usable /\ Launch
  /\ UNCHANGED <<clock, tokens, manager, wire, route, intent>>

StayStopped ==
  /\ ~up /\ up' = TRUE
  /\ \/ intent = "start" /\ ~Usable /\ Notice
     \/ (intent # "start" \/ Fails("status")) /\ UNCHANGED <<tokens, manager>>
  /\ UNCHANGED <<clock, wire, thread, route, intent>>
----------------------------------------------------------------------------
RouteStep(r) ==
  \/ \E a \in {"ok", "expired", "refused", "raised"} :
       Request(r, a) \/ RenewByHand(r, a) \/ AskAuth(r, a) \/ Verify(r, a)
  \/ RequestAnswered(r) \/ RenewedByHand(r) \/ AskAnswered(r) \/ VerifyAnswered(r)
  \/ LookAtStatus(r) \/ Disconnect(r)
  \/ StartLoop(r) \/ Started(r) \/ StopLoop(r) \/ Joined(r) \/ Stopped(r)

LoopLocks == LoopLooks \/ LoopDeclined \/ LoopLooksAgain
               \/ \E a \in {"ok", "expired", "refused", "raised"} : LoopRenews(a)

LoopStep == LoopTop \/ LoopLocks \/ StatusRaises \/ LoopHears \/ LoopWakes \/ Pause \/ LoopEnds

World == MarketOpens \/ MarketCloses \/ Midnight \/ Crash \/ Resume \/ StayStopped
           \/ \E t \in Tokens : GoesIdle(t)

Next == (\E r \in Routes : RouteStep(r)) \/ LoopStep \/ World

Spec == Init /\ [][Next]_vars
----------------------------------------------------------------------------
(* Safety.                                                                 *)

\* At most one row of the table is active or expired: an older row cannot come
\* back as the current one when disconnect gives up the latest (submit_verifier
\* supersedes what it finds, disconnect only touches the current row).
OneCurrentRow == \A t, u \in Held : t = u

\* The cached signing session is the current active row's: reconnects,
\* disconnects and expiries leave no session of an older token behind
\* (_build_session reuses _session without looking at its row).
SessionIsCurrent == session # 0 => session \in Held /\ life[session] = "active"

\* As long as a request or a renewal is on the wire, the token it is signed with
\* stays the active one: nobody disconnects, reconnects or expires under it (the
\* transport lock of EtradeClient and the manager).
CallsOwnTheToken == \A x \in Threads :
  wire[x].kind \in {"request", "renew"} =>
    wire[x].token \in Held /\ life[wire[x].token] = "active" /\ wire[x].row = wire[x].token

\* A row is marked expired only when E*TRADE no longer takes calls with its
\* token: a 401 on one call never throws away what a renewal or a reconnection
\* has just made good (mark_expired acts on whatever row is current).
ExpiredForCause == \A t \in Tokens : life[t] = "expired" => broker[t] \in {"idle", "dead"}

\* The keep-alive thread never ends silently: it was told to stop, or it says
\* why it paused (_run: "never a silent thread death").
EndsLoudly == loop \in {"ending", "dead"} => stop \/ reason # "none"

\* running is what status() shows of the loop: true while it goes on, false once
\* it has ended, also when a start overtakes a stop that is still joining.
RunningIsTrue ==
  /\ loop \in {"top", "look", "renew", "declined", "wait"} /\ ~stop => running
  /\ running => Alive

\* The token table implements TokenLife: a token is connected once and never
\* comes back to life, whoever renews, expires and disconnects at that time
\* (the keep-alive "can never resurrect or mutate a token").
Life == INSTANCE TokenLife
LivesOnce == Life!LifeSpec
=============================================================================
