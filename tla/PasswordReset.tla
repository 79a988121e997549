--------------------------- MODULE PasswordReset ---------------------------
(***************************************************************************)
(* "Forgot my password" (app/auth/reset.py, app/auth/reset_router.py): the *)
(* resets table, the throttle, the one-time links and what using one does  *)
(* to the account in app/auth/store.py.                                    *)
(*                                                                         *)
(* No handler here awaits, so handlers do not interleave.  But each makes  *)
(* several commits, and sends mail between two of them: stage is what the  *)
(* running handler has still to do, and the process may die before it.     *)
(***************************************************************************)
EXTENDS Naturals, Sequences, FiniteSets

CONSTANTS
    Users,             \* usernames
    Addresses,         \* client addresses, as X-Forwarded-For gives them
    NoAddress,         \* '' for an address: a header whose first element is empty
    Nobody,            \* '' for a username: an identifier that is no account's
    TTL,               \* reset_ttl_minutes
    Hour,              \* the rolling hour of the throttle, in the same unit
    MaxPerAccountHour,
    MaxPerIpHour,
    MaxRows,           \* bound: requests in a behaviour
    MaxTime,           \* bound: how long it lasts
    MaxCrashes         \* bound: how often the process dies in a handler

ASSUME LimitsAssumption == /\ Nobody \notin Users
                           /\ NoAddress \notin Addresses
                           /\ {TTL, Hour, MaxPerAccountHour, MaxPerIpHour} \subseteq Nat
                           /\ {MaxRows, MaxTime, MaxCrashes} \subseteq Nat

VARIABLES
    now,        \* time.time()
    account,    \* store.py's users: "active", "disabled" or "absent"
    rows,       \* the resets table, by id
    held,       \* the links whose token reached a person
    stage,      \* what the running handler has still to do
    sets,       \* history: how often each link has set a password
    crashes

vars == <<now, account, rows, held, stage, sets, crashes>>

Idle == [todo |-> "nothing", row |-> 0]
Ids == 1 .. Len(rows)

Init ==
    /\ now = 0
    /\ account = [u \in Users |-> "active"]
    /\ rows = <<>>
    /\ held = {}
    /\ stage = Idle
    /\ sets = <<>>
    /\ crashes = 0

-----------------------------------------------------------------------------
(* Links.                                                                  *)

\* Not used, not cancelled: what `check` selects, before it looks at the time.
Open(i) == rows[i].token /\ ~rows[i].used /\ ~rows[i].cancelled

\* `check`: the link behind a token still works.
Live(i) == Open(i) /\ now <= rows[i].made + TTL

\* Mutant: a new link leaves the older ones alone.
RetireNothing(user) == rows
\* The UPDATE of `record`: every open link of the account dies.
Retire(user) ==
    [i \in Ids |-> IF rows[i].user = user /\ Open(i)
                   THEN [rows[i] EXCEPT !.cancelled = TRUE] ELSE rows[i]]

\* The second UPDATE of `consume`: it asks neither for the system nor for a token,
\* so the account's requests for other systems are put away with its links.
PutAway(user) ==
    [i \in Ids |-> IF rows[i].user = user /\ ~rows[i].used /\ ~rows[i].cancelled
                   THEN [rows[i] EXCEPT !.cancelled = TRUE] ELSE rows[i]]

Row(user, ip, token, asked) ==
    [user |-> user, ip |-> ip, token |-> token, asked |-> asked, made |-> now,
     used |-> FALSE, cancelled |-> FALSE]

Record(row) ==
    /\ Len(rows) < MaxRows
    /\ rows' = Append(IF row.token THEN Retire(row.user) ELSE rows, row)
    /\ sets' = Append(sets, 0)

-----------------------------------------------------------------------------
(* POST /auth/forgot.                                                      *)

\* What `_ip` makes of a request.
From == Addresses \cup {NoAddress}

Recent(S) == Cardinality({i \in S : rows[i].made + Hour > now})

\* Mutant: one more than the limit gets through.
ThrottledLate(user, ip) ==
    \/ user # Nobody /\ Recent({i \in Ids : rows[i].user = user}) > MaxPerAccountHour
    \/ ip # NoAddress /\ Recent({i \in Ids : rows[i].ip = ip}) > MaxPerIpHour
Throttled(user, ip) ==
    \/ user # Nobody /\ Recent({i \in Ids : rows[i].user = user}) >= MaxPerAccountHour
    \/ ip # NoAddress /\ Recent({i \in Ids : rows[i].ip = ip}) >= MaxPerIpHour

\* Whom an identifier resolves to: find_user knows active accounts only.
Found == {Nobody} \cup {u \in Users : account[u] = "active"}

\* The hub's own reset: a link is recorded, and its mail is next.
ForgotHub(user, ip) ==
    /\ stage = Idle
    /\ user \in Found \ {Nobody}
    /\ ~Throttled(user, ip)
    /\ Record(Row(user, ip, TRUE, TRUE))
    /\ stage' = [todo |-> "mail", row |-> Len(rows) + 1]
    /\ UNCHANGED <<now, account, held, crashes>>

\* Another system, or nobody we know: a row, and no link.
ForgotElsewhere(user, ip) ==
    /\ stage = Idle
    /\ user \in Found
    /\ ~Throttled(user, ip)
    /\ Record(Row(user, ip, FALSE, TRUE))
    /\ UNCHANGED <<now, account, held, stage, crashes>>

\* The mail leaves or fails, or the account has no address: then nobody holds the
\* link.  mark_delivery says which on the admin screen, and nothing depends on it.
Deliver ==
    /\ stage.todo = "mail"
    /\ held' \in {held, held \cup {stage.row}}
    /\ stage' = Idle
    /\ UNCHANGED <<now, account, rows, sets, crashes>>

-----------------------------------------------------------------------------
(* POST /auth/reset.                                                       *)

\* Mutant: the link is burnt before the password is accepted.
BurnFirst(i) ==
    /\ stage = Idle
    /\ i \in held /\ Live(i)
    /\ rows' = [rows EXCEPT ![i].used = TRUE]
    /\ UNCHANGED <<now, account, held, stage, sets, crashes>>

\* `consume` up to the commit of set_password.  A password that is too short, or an
\* account that is gone, ends it with nothing changed.
SetPassword(i) ==
    /\ stage = Idle
    /\ i \in held /\ Live(i)
    /\ account[rows[i].user] # "absent"
    /\ sets' = [sets EXCEPT ![i] = @ + 1]
    /\ stage' = [todo |-> "burn", row |-> i]
    /\ UNCHANGED <<now, account, rows, held, crashes>>

\* Mutant: the other links die, the used one is forgotten.
BurnOthers ==
    /\ stage.todo = "burn"
    /\ rows' = [i \in Ids |-> IF i = stage.row THEN rows[i] ELSE PutAway(rows[stage.row].user)[i]]
    /\ stage' = Idle
    /\ UNCHANGED <<now, account, held, sets, crashes>>

\* The second half of `consume`: this link is used, the account's others die.
Burn ==
    /\ stage.todo = "burn"
    /\ rows' = [i \in Ids |-> IF i = stage.row THEN [rows[i] EXCEPT !.used = TRUE]
                              ELSE PutAway(rows[stage.row].user)[i]]
    /\ stage' = Idle
    /\ UNCHANGED <<now, account, held, sets, crashes>>

-----------------------------------------------------------------------------
(* The admin screen.                                                       *)

\* admin_issue_link: any account that exists, and no throttle.
IssueLink(user, ip) ==
    /\ stage = Idle
    /\ account[user] # "absent"
    /\ Record(Row(user, ip, TRUE, FALSE))
    /\ stage' = [todo |-> "hand over", row |-> Len(rows) + 1]
    /\ UNCHANGED <<now, account, held, crashes>>

HandOver ==
    /\ stage.todo = "hand over"
    /\ held' = held \cup {stage.row}
    /\ stage' = Idle
    /\ UNCHANGED <<now, account, rows, sets, crashes>>

\* Mutant: cancelling twice is changing one's mind.
CancelToggles(i) ==
    /\ stage = Idle
    /\ ~rows[i].used
    /\ rows' = [rows EXCEPT ![i].cancelled = ~@]
    /\ UNCHANGED <<now, account, held, stage, sets, crashes>>

Cancel(i) ==
    /\ stage = Idle
    /\ ~rows[i].used
    /\ rows' = [rows EXCEPT ![i].cancelled = TRUE]
    /\ UNCHANGED <<now, account, held, stage, sets, crashes>>

\* update_user, delete_user and create_user, as far as a link can tell: none of
\* them touches the resets table.
AccountChanges(user) ==
    /\ stage = Idle
    /\ account' \in {[account EXCEPT ![user] = s] :
                        s \in {"active", "disabled", "absent"} \ {account[user]}}
    /\ account[user] = "absent" => account'[user] = "active"
    /\ UNCHANGED <<now, rows, held, stage, sets, crashes>>

-----------------------------------------------------------------------------
Tick ==
    /\ now < MaxTime
    /\ now' = now + 1
    /\ UNCHANGED <<account, rows, held, stage, sets, crashes>>

\* The process dies in a handler and comes back: a mail that was to be sent may
\* have left or not, and nobody says so.
Crash ==
    /\ stage # Idle
    /\ crashes < MaxCrashes
    /\ crashes' = crashes + 1
    /\ held' \in {held, IF stage.todo = "mail" THEN held \cup {stage.row} ELSE held}
    /\ stage' = Idle
    /\ UNCHANGED <<now, account, rows, sets>>

Next ==
    \/ \E user \in Users \cup {Nobody}, ip \in From :
          ForgotHub(user, ip) \/ ForgotElsewhere(user, ip)
    \/ \E user \in Users : AccountChanges(user) \/ \E ip \in From : IssueLink(user, ip)
    \/ \E i \in Ids : SetPassword(i) \/ Cancel(i)
    \/ Deliver \/ Burn \/ HandOver
    \/ Tick \/ Crash

Spec == Init /\ [][Next]_vars

-----------------------------------------------------------------------------
(* Properties.                                                             *)

RowType == [user : Users \cup {Nobody}, ip : From, token : BOOLEAN, asked : BOOLEAN,
            made : 0 .. MaxTime, used : BOOLEAN, cancelled : BOOLEAN]

TypeOK ==
    /\ now \in 0 .. MaxTime
    /\ account \in [Users -> {"active", "disabled", "absent"}]
    /\ rows \in Seq(RowType)
    /\ held \subseteq Ids
    /\ stage \in [todo : {"nothing", "mail", "burn", "hand over"}, row : Nat]
    /\ sets \in Seq(Nat) /\ Len(sets) = Len(rows)
    /\ crashes \in 0 .. MaxCrashes

\* "Two live links for one account means an old mail still works after the person
\* got a newer one" (reset.py:223): whoever asked for them, and wherever a handler
\* was cut short, an account has one live link at most.
AtMostOneLive == \A i, j \in Ids : Live(i) /\ Live(j) /\ rows[i].user = rows[j].user => i = j

\* A link that stopped working, whichever of the four ways, never works again.
DeadStaysDead == [][\A i \in Ids : ~Live(i) => ~Live(i)']_vars

\* What the code keeps of "thirty minutes, single use" (reset.py:8): a link sets one password, and one more only for a
\* crash that cut `consume` short before the burn.
SingleUseButForCrashes == \A i \in Ids : sets[i] <= 1 + crashes

\* "Burning first would turn a rejected password into a dead link": a link is used
\* up only by a password it really set.
BurntOnlyWhenSet == \A i \in Ids : rows[i].used => sets[i] >= 1

\* In no hour do more of the requests people make, for one account or from one
\* address, get through than the limits say, whatever an admin issues beside them.
\* A request that came with no address counts against its account only: that no
\* address is an address is what EveryRequestCounts, below, would say.
ThrottleHolds ==
    \A i \in Ids :
        LET hour == {j \in 1 .. i : rows[j].asked /\ rows[j].made + Hour > rows[i].made}
        IN  rows[i].asked =>
              /\ rows[i].user # Nobody =>
                   Cardinality({j \in hour : rows[j].user = rows[i].user}) <= MaxPerAccountHour
              /\ rows[i].ip # NoAddress =>
                   Cardinality({j \in hour : rows[j].ip = rows[i].ip}) <= MaxPerIpHour

-----------------------------------------------------------------------------
(* Said of the code and not kept by it (README, section 6).  No run checks *)
(* what follows: named in the module's run, TLC answers with a trace.      *)

\* "Thirty minutes, single use" (reset.py:8).
SingleUse == \A i \in Ids : sets[i] <= 1

\* "Rate limiting" by address (reset_router.py:37) of requests whose X-Forwarded-For
\* begins with a comma: reset.py:203 counts addresses only `if ip`.
EveryRequestCounts ==
    \A i \in Ids :
        rows[i].asked =>
            Cardinality({j \in 1 .. i : /\ rows[j].asked /\ rows[j].made + Hour > rows[i].made
                                        /\ rows[j].ip = rows[i].ip}) <= MaxPerIpHour
=============================================================================
