------------------------------ MODULE TokenLife ------------------------------
(***************************************************************************)
(* What the authorization manager promises of access tokens, abstractly:   *)
(* a token becomes active once, when a person connects it; it may then     *)
(* expire; whatever comes after it supersedes it, and a token that expired *)
(* or was given up is never used again.                                    *)
(***************************************************************************)
CONSTANT Tokens

VARIABLE life  \* life[t]: "none" before t is connected

Lives == {"none", "active", "expired", "disconnected"}
Held  == {t \in Tokens : life[t] \in {"active", "expired"}}

LifeInit == life = [t \in Tokens |-> "none"]

\* Whoever held the place before t gives it up.
Connect(t) ==
  /\ life[t] = "none"
  /\ life' = [u \in Tokens |-> IF u = t THEN "active"
                               ELSE IF u \in Held THEN "disconnected" ELSE life[u]]

Expire(t) == life[t] = "active" /\ life' = [life EXCEPT ![t] = "expired"]

GiveUp(t) == t \in Held /\ life' = [life EXCEPT ![t] = "disconnected"]

LifeNext == \E t \in Tokens : Connect(t) \/ Expire(t) \/ GiveUp(t)

LifeSpec == LifeInit /\ [][LifeNext]_life
=============================================================================
