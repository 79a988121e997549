----------------------------- MODULE RateLimiter -----------------------------
(***************************************************************************)
(* The limiter of requests (RateLimitMiddleware of app/core/middleware.py):*)
(* a count for every client and minute, kept in a table that is swept when *)
(* it has grown too large.  A request is counted in one step: nothing is   *)
(* awaited between reading the table and writing it.                       *)
(***************************************************************************)
EXTENDS Naturals, FiniteSets, Functions

CONSTANTS
    Clients,
    Limits,       \* what RATE_LIMIT_PER_MINUTE may be: 0 switches the limiter off
    TableLimit,   \* 4096
    MaxWindows,   \* bound: minutes
    MaxRequests   \* bound: requests of a client in a minute

LimitsAssumption == IsFiniteSet(Clients) /\ Limits \subseteq Nat /\ TableLimit \in Nat

VARIABLES
    allowed,     \* _limit
    window,    \* the minute
    hits,      \* _hits
    asked,     \* each client's requests of this minute: history
    admitted   \* those of them that went through: history

limiterVars == <<allowed, window, hits, asked, admitted>>

Nobody == [c \in Clients |-> 0]
Empty == [k \in {} |-> 0]

Init == allowed \in Limits /\ window = 0 /\ hits = Empty /\ asked = Nobody /\ admitted = Nobody

\* The minute that runs is swept away with the others.
SweptTooFar == IF Cardinality(DOMAIN hits) > TableLimit
               THEN Restrict(hits, {k \in DOMAIN hits : k.window > window}) ELSE hits

Swept == IF Cardinality(DOMAIN hits) > TableLimit
         THEN Restrict(hits, {k \in DOMAIN hits : k.window >= window}) ELSE hits

Request(c) ==
    /\ allowed # 0 /\ asked[c] < MaxRequests
    /\ LET key == [client |-> c, window |-> window]
           count == IF key \in DOMAIN Swept THEN Swept[key] + 1 ELSE 1
       IN  /\ hits' = [k \in DOMAIN Swept \cup {key} |-> IF k = key THEN count ELSE Swept[k]]
           /\ asked' = [asked EXCEPT ![c] = @ + 1]
           /\ admitted' = IF count > allowed THEN admitted ELSE [admitted EXCEPT ![c] = @ + 1]
    /\ UNCHANGED <<allowed, window>>

\* Without a limit nothing is counted.
Unlimited(c) ==
    /\ allowed = 0 /\ asked[c] < MaxRequests
    /\ asked' = [asked EXCEPT ![c] = @ + 1] /\ admitted' = [admitted EXCEPT ![c] = @ + 1]
    /\ UNCHANGED <<allowed, window, hits>>

MinutePasses ==
    /\ window < MaxWindows
    /\ window' = window + 1
    /\ asked' = Nobody /\ admitted' = Nobody
    /\ UNCHANGED <<allowed, hits>>

Next == MinutePasses \/ \E c \in Clients : Request(c) \/ Unlimited(c)

Spec == Init /\ [][Next]_limiterVars

-----------------------------------------------------------------------------
(* Properties.                                                             *)

\* Sweeping the table takes nothing from a count that runs: in every minute each client gets
\* through exactly as often as it asks and the limit allows, if there is one, whoever else fills the
\* table; and the table never outgrows its limit by more than one, unless so many clients are there in one minute.
LimitIsExact ==
    /\ \A c \in Clients : admitted[c] = IF allowed = 0 \/ asked[c] < allowed THEN asked[c] ELSE allowed
    /\ Cardinality(DOMAIN hits) <= TableLimit + 1 \/ Cardinality(DOMAIN hits) <= Cardinality(Clients)
=============================================================================
