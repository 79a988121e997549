----------------------------- MODULE AuthStore -----------------------------
(***************************************************************************)
(* Accounts, roles, overrides and sessions (app/auth/store.py, service.py, *)
(* sessions.py, middleware.py, router.py).                                 *)
(*                                                                         *)
(* A request is let through by the middleware and handled later: its body  *)
(* is awaited in between, and nobody asks again.  A handler itself awaits  *)
(* nothing.  All of them share one SQLite connection, so a call that is    *)
(* refused half way leaves its first statements in an open transaction:    *)
(* view is what the connection reads, saved what the disk holds, and the   *)
(* next commit, whoever makes it, makes them equal.                        *)
(***************************************************************************)
EXTENDS Naturals, Sequences, FiniteSets, Functions

CONSTANTS
    Names,          \* usernames
    Boot,           \* auth_bootstrap_user
    ApiKey,         \* the actor of a request that carries an API key
    RoleKeys,       \* keys of roles that exist or are only asked for
    Builtin,        \* DEFAULT_ROLES
    Admin,          \* its "admin"
    NonAscii,       \* role keys that json.dumps escapes
    Perms,          \* pairs of a resource and an action
    Manage,         \* "admin" on "users"
    Everything,     \* an override on "*"
    Passwords,
    GrantChoices,   \* the permission sets PUT /roles is asked to store
    OverrideLists,  \* the lists PUT /overrides is asked to store
    Reusable,       \* bound: names that may be created again once deleted
    MaxVersion,     \* bound: session_version
    MaxCookies,     \* bound: cookies in the world
    MaxInflight     \* bound: requests between middleware and handler

ASSUME NamesAssumption == /\ Boot \in Names /\ ApiKey \notin Names
                          /\ Admin \in Builtin /\ Builtin \subseteq RoleKeys
                          /\ Manage \in Perms /\ Everything \notin Perms
                          /\ GrantChoices \subseteq SUBSET Perms
                          /\ MaxVersion \in Nat \ {0}

VARIABLES
    view,       \* the tables as the connection sees them
    saved,      \* the tables as last committed
    cookies,    \* the session cookies people hold
    inflight,   \* who has a request between the middleware and its handler
    gone        \* history: names that were deleted

vars == <<view, saved, cookies, inflight, gone>>

\* users and roles hold a row for each name in their domain.
Account(password, roles) ==
    [active |-> TRUE, roles |-> roles, password |-> password, version |-> 1]

Seeded == [k \in Builtin |-> IF k = Admin THEN Perms ELSE Perms \ {Manage}]

NoRows == [u \in Names |-> {}]

\* _ensure_bootstrap: the first admin, when there is no user at all.
Bootstrapped(db, password) ==
    IF DOMAIN db.users # {} THEN db
    ELSE [db EXCEPT !.users = [u \in {Boot} |-> Account(password, {Admin})]]

Init ==
    /\ \E p \in Passwords :
          view = Bootstrapped([users |-> <<>>, roles |-> Seeded, overrides |-> NoRows], p)
    /\ saved = view
    /\ cookies = {}
    /\ inflight = {}
    /\ gone = {}

Bounded(db) == \A u \in DOMAIN db.users : db.users[u].version <= MaxVersion

Commit(db) == Bounded(db) /\ view' = db /\ saved' = db
Pend(db)   == Bounded(db) /\ view' = db /\ UNCHANGED saved

-----------------------------------------------------------------------------
(* What an account may do, and when a cookie counts.                       *)

Covers(row) == IF row.on = Everything THEN Perms ELSE {row.on}
Overridden(db, u, effect) == UNION {Covers(row) : row \in {o \in db.overrides[u] : o.effect = effect}}

\* effective: the union of the roles, then what is allowed, less what is denied.
Effective(db, u) ==
    IF u \notin DOMAIN db.users \/ ~db.users[u].active THEN {}
    ELSE ((UNION {db.roles[k] : k \in db.users[u].roles \cap DOMAIN db.roles})
            \cup Overridden(db, u, "allow")) \ Overridden(db, u, "deny")

Admins(db) == {u \in DOMAIN db.users : Manage \in Effective(db, u)}

\* current_user: the account is there, active, and still at the cookie's version.
Good(db, c) ==
    /\ c.user \in DOMAIN db.users
    /\ db.users[c.user].active
    /\ db.users[c.user].version = c.version

\* authenticate, which commits the audit row of the attempt and whatever else waits.
Login(u) ==
    /\ u \in DOMAIN view.users /\ view.users[u].active
    /\ Cardinality(cookies) < MaxCookies
    /\ cookies' = cookies \cup {[user |-> u, version |-> view.users[u].version,
                                 rights |-> Effective(view, u),
                                 password |-> view.users[u].password]}
    /\ Commit(view)
    /\ UNCHANGED <<inflight, gone>>

\* A failed login, or a note for the audit trail.
AuditOnly ==
    /\ Commit(view)
    /\ UNCHANGED <<cookies, inflight, gone>>

Logout(c) ==
    /\ cookies' = cookies \ {c}
    /\ UNCHANGED <<view, saved, inflight, gone>>

\* The middleware, for the paths of the admin screen.
Authorise(c) ==
    /\ Cardinality(inflight) < MaxInflight
    /\ Good(view, c) /\ Manage \in Effective(view, c.user)
    /\ inflight' = inflight \cup {c.user}
    /\ UNCHANGED <<view, saved, cookies, gone>>

AuthoriseKey ==
    /\ Cardinality(inflight) < MaxInflight
    /\ inflight' = inflight \cup {ApiKey}
    /\ UNCHANGED <<view, saved, cookies, gone>>

-----------------------------------------------------------------------------
(* The handlers of the admin screen.                                       *)

Handled(actor) == actor \in inflight /\ inflight' = inflight \ {actor}

\* session_version + 1.
Bumped(account) == [account EXCEPT !.version = @ + 1]
BumpedIn(db, S) ==
    [db EXCEPT !.users = [u \in DOMAIN @ |-> IF u \in S THEN Bumped(@[u]) ELSE @[u]]]

CreateUser(actor, u, roles, password) ==
    /\ Handled(actor)
    /\ u \notin DOMAIN view.users
    /\ u \in gone => u \in Reusable
    /\ roles \subseteq DOMAIN view.roles
    /\ Commit([view EXCEPT !.users =
                 [n \in DOMAIN @ \cup {u} |-> IF n = u THEN Account(password, roles) ELSE @[n]]])
    /\ UNCHANGED <<cookies, gone>>

\* Mutant: an account that is disabled is out anyway, so why bump.
WithActiveUnbumped(db, u, active) ==
    IF active = {} THEN db ELSE [db EXCEPT !.users[u].active = TRUE \in active]
\* What a caller may leave out is a set with the value, or with nothing.
WithActive(db, u, active) ==
    IF active = {} THEN db
    ELSE [db EXCEPT !.users[u] = Bumped([@ EXCEPT !.active = TRUE \in active])]
WithRoles(db, u, roles) ==
    IF roles = {} THEN db
    ELSE [db EXCEPT !.users[u] = Bumped([@ EXCEPT !.roles = UNION roles])]

\* update_user meets an unknown role after it has written the active flag: the
\* caller is refused, and the flag waits for the next commit.
UpdateUser(actor, u, active, roles) ==
    /\ Handled(actor)
    /\ u \in DOMAIN view.users
    /\ ~(u = actor /\ active = {FALSE})
    /\ IF UNION roles \subseteq DOMAIN view.roles
       THEN Commit(WithRoles(WithActive(view, u, active), u, roles))
       ELSE Pend(WithActive(view, u, active))
    /\ UNCHANGED <<cookies, gone>>

WithPassword(db, u, password) ==
    [db EXCEPT !.users[u] = Bumped([@ EXCEPT !.password = password])]

SetPassword(actor, u, password) ==
    /\ Handled(actor)
    /\ u \in DOMAIN view.users
    /\ Commit(WithPassword(view, u, password))
    /\ UNCHANGED <<cookies, gone>>

\* change_own_password: the session was good a moment ago, the account still is.
ChangeOwnPassword(c, password) ==
    /\ c.user \in DOMAIN view.users /\ view.users[c.user].active
    /\ Commit(WithPassword(view, c.user, password))
    /\ UNCHANGED <<cookies, inflight, gone>>

\* Mutant: nobody deletes himself, so an admin is always left.
DeleteAnyoneElse(actor, u) ==
    /\ Handled(actor)
    /\ u \in DOMAIN view.users
    /\ u # actor
    /\ Commit([view EXCEPT !.users = Restrict(@, DOMAIN @ \ {u}), !.overrides[u] = {}])
    /\ gone' = gone \cup {u}
    /\ UNCHANGED cookies
\* delete_user, behind the two guards of admin_delete_user.
DeleteUser(actor, u) ==
    /\ Handled(actor)
    /\ u \in DOMAIN view.users
    /\ u # actor
    /\ Admins(view) # {u}
    /\ Commit([view EXCEPT !.users = Restrict(@, DOMAIN @ \ {u}), !.overrides[u] = {}])
    /\ gone' = gone \cup {u}
    /\ UNCHANGED cookies

\* A request that reads, or is refused before its first statement.
Answer(actor) ==
    /\ Handled(actor)
    /\ UNCHANGED <<view, saved, cookies, gone>>

-----------------------------------------------------------------------------
Holders(db, k) == {u \in DOMAIN db.users : k \in db.users[u].roles}

WithRole(db, k, perms) ==
    [db EXCEPT !.roles = [r \in DOMAIN @ \cup {k} |-> IF r = k THEN perms ELSE @[r]]]

\* save_role looks for its holders by LIKE in the JSON of users.roles, which spells
\* a key outside ASCII with escapes: it is not found there.
SaveRole(actor, k, perms) ==
    /\ Handled(actor)
    /\ Commit(BumpedIn(WithRole(view, k, perms), IF k \in NonAscii THEN {} ELSE Holders(view, k)))
    /\ UNCHANGED <<cookies, gone>>

Without(account, k) == [account EXCEPT !.roles = @ \ {k}]

\* Mutant: the role is taken off by a plain UPDATE.
StrippedQuietly(db, k, S) ==
    [db EXCEPT !.users = [u \in DOMAIN @ |-> IF u \in S THEN Without(@[u], k) ELSE @[u]]]
Stripped(db, k, S) ==
    BumpedIn([db EXCEPT !.users = [u \in DOMAIN @ |-> IF u \in S THEN Without(@[u], k) ELSE @[u]]], S)

\* delete_role: one commit for each holder, and one for the role.
DeleteRole(actor, k) ==
    /\ Handled(actor)
    /\ k \in DOMAIN view.roles \ Builtin
    /\ LET bare == Stripped(view, k, Holders(view, k))
       IN  Commit([bare EXCEPT !.roles = Restrict(@, DOMAIN @ \ {k})])
    /\ UNCHANGED <<cookies, gone>>

OverrideRows == [on : Perms \cup {Everything}, effect : {"allow", "deny"}]
ASSUME ListsAssumption == OverrideLists \subseteq Seq(OverrideRows)

\* executemany stops at the first row whose key is there already.
Repeats(list, i) == \E j \in 1 .. i - 1 : list[j].on = list[i].on
Stored(list) == {list[i] : i \in {n \in DOMAIN list : \A j \in 1 .. n : ~Repeats(list, j)}}

\* set_overrides deletes, inserts, bumps and commits; a row that repeats another
\* ends it after the insert of those before it.
SetOverrides(actor, u, list) ==
    /\ Handled(actor)
    /\ u \in DOMAIN view.users
    /\ LET stored == [view EXCEPT !.overrides[u] = Stored(list)]
       IN  IF \E i \in DOMAIN list : Repeats(list, i)
           THEN Pend(stored)
           ELSE Commit(BumpedIn(stored, {u}))
    /\ UNCHANGED <<cookies, gone>>

-----------------------------------------------------------------------------
(* The process dies: what was not committed is gone, and so are the requests. *)

Reopen(db) ==
    /\ DOMAIN db.users = {} /\ Boot \in gone => Boot \in Reusable
    /\ \E p \in Passwords : Commit(Bootstrapped(db, p))
    /\ inflight' = {}
    /\ UNCHANGED <<cookies, gone>>

Restart == Reopen(saved)

\* Mutant: the role goes first, and its holders lose it after.
RoleGoesFirst(actor, k) ==
    /\ actor \in inflight
    /\ k \in DOMAIN view.roles \ Builtin
    /\ \E S \in SUBSET Holders(view, k) :
          Reopen([Stripped(view, k, S) EXCEPT !.roles = Restrict(@, DOMAIN @ \ {k})])
\* It dies in delete_role, after some of the holders lost the role.
DeleteRoleDies(actor, k) ==
    /\ actor \in inflight
    /\ k \in DOMAIN view.roles \ Builtin
    /\ \E S \in SUBSET Holders(view, k) \ {{}} : Reopen(Stripped(view, k, S))

-----------------------------------------------------------------------------
Handle(actor) ==
    \/ \E u \in Names, roles \in SUBSET RoleKeys, p \in Passwords : CreateUser(actor, u, roles, p)
    \/ \E u \in Names, active \in {{}, {TRUE}, {FALSE}},
          roles \in {{}} \cup {{R} : R \in SUBSET RoleKeys} : UpdateUser(actor, u, active, roles)
    \/ \E u \in Names, p \in Passwords : SetPassword(actor, u, p)
    \/ \E u \in Names : DeleteUser(actor, u)
    \/ \E u \in Names, list \in OverrideLists : SetOverrides(actor, u, list)
    \/ \E k \in RoleKeys, perms \in GrantChoices : SaveRole(actor, k, perms)
    \/ \E k \in RoleKeys : DeleteRole(actor, k) \/ DeleteRoleDies(actor, k)

Next ==
    \/ \E u \in Names : Login(u)
    \/ \E c \in cookies : Logout(c) \/ Authorise(c) \/ \E p \in Passwords : ChangeOwnPassword(c, p)
    \/ AuditOnly \/ AuthoriseKey \/ Restart
    \/ \E actor \in inflight : Handle(actor) \/ Answer(actor)

Spec == Init /\ [][Next]_vars

-----------------------------------------------------------------------------
(* Properties.                                                             *)

Accounts == [active : BOOLEAN, roles : SUBSET RoleKeys, password : Passwords, version : Nat]
Tables(db) ==
    /\ DOMAIN db = {"users", "roles", "overrides"}
    /\ DOMAIN db.users \subseteq Names /\ db.users \in [DOMAIN db.users -> Accounts]
    /\ DOMAIN db.roles \subseteq RoleKeys /\ db.roles \in [DOMAIN db.roles -> SUBSET Perms]
    /\ db.overrides \in [Names -> SUBSET OverrideRows]

TypeOK ==
    /\ Tables(view) /\ Tables(saved)
    /\ cookies \subseteq [user : Names, version : Nat, rights : SUBSET Perms, password : Passwords]
    /\ inflight \subseteq Names \cup {ApiKey}
    /\ gone \subseteq Names

\* No account, in memory or on disk, holds a role that is not there, wherever a
\* role's deletion was cut short; nor do overrides outlive their account, to be
\* found by the next one of that name.
NothingDangles ==
    \A db \in {view, saved} :
        /\ \A u \in DOMAIN db.users : db.users[u].roles \subseteq DOMAIN db.roles
        /\ \A u \in Names \ DOMAIN db.users : db.overrides[u] = {}

\* "A role change must reach every holder" (store.py:294), and so must a password, an
\* override, a disabled account: a session that still counts has the rights, and
\* was opened with the password, that its account has now.
SessionKeepsItsRights ==
    \A c \in cookies : Good(view, c) => /\ c.rights = Effective(view, c.user)
                                        /\ c.password = view.users[c.user].password

\* Bumping session_version "is how a cookie is revoked without a session table"
\* (sessions.py:4): what the committed tables refuse once is refused for good, also
\* after a crash that takes back a change still waiting.
RevokedStaysRevoked == [][\A c \in cookies : ~Good(saved, c) => ~Good(view, c)' /\ ~Good(saved, c)']_vars

\* admin_delete_user never takes the last admin away, whoever else was being
\* handled when it was let through.
DeleteKeepsAnAdmin ==
    [][DOMAIN view.users \ DOMAIN view'.users # {} /\ Admins(view) # {} => Admins(view') # {}]_vars
=============================================================================
