--------------------------- MODULE AuthStoreProofs ---------------------------
(***************************************************************************)
(* Theorems about AuthStore, for any names, roles, permissions, override   *)
(* lists and bounds.  What depends on a limitation of the code (a name     *)
(* created twice, a role key outside ASCII, a list that repeats a row)     *)
(* assumes the constant that rules it out.                                 *)
(***************************************************************************)
EXTENDS AuthStore, TLAPS

-----------------------------------------------------------------------------
(* What replacing one table leaves of the others.                          *)

LEMMA UsersReplaced ==
  ASSUME NEW db, DOMAIN db = {"users", "roles", "overrides"}, NEW us
  PROVE  LET new == [db EXCEPT !.users = us]
         IN  /\ DOMAIN new = {"users", "roles", "overrides"}
             /\ new.users = us /\ new.roles = db.roles /\ new.overrides = db.overrides
  OBVIOUS

LEMMA RolesReplaced ==
  ASSUME NEW db, DOMAIN db = {"users", "roles", "overrides"}, NEW rs
  PROVE  LET new == [db EXCEPT !.roles = rs]
         IN  /\ DOMAIN new = {"users", "roles", "overrides"}
             /\ new.users = db.users /\ new.roles = rs /\ new.overrides = db.overrides
  OBVIOUS

LEMMA OverridesReplaced ==
  ASSUME NEW db, DOMAIN db = {"users", "roles", "overrides"}, NEW os
  PROVE  LET new == [db EXCEPT !.overrides = os]
         IN  /\ DOMAIN new = {"users", "roles", "overrides"}
             /\ new.users = db.users /\ new.roles = db.roles /\ new.overrides = os
  OBVIOUS

\* Bumping a session version changes nothing else of an account.
LEMMA BumpedAccount ==
  ASSUME NEW a \in Accounts
  PROVE  /\ Bumped(a) \in Accounts
         /\ Bumped(a).version = a.version + 1 /\ Bumped(a).version > a.version
         /\ Bumped(a).roles = a.roles
  BY DEF Accounts, Bumped

LEMMA AccountsExcept ==
  ASSUME NEW a \in Accounts
  PROVE  /\ \A b \in BOOLEAN : [a EXCEPT !.active = b] \in Accounts
                               /\ [a EXCEPT !.active = b].version = a.version
                               /\ [a EXCEPT !.active = b].roles = a.roles
         /\ \A R \in SUBSET RoleKeys : [a EXCEPT !.roles = R] \in Accounts
                               /\ [a EXCEPT !.roles = R].version = a.version
                               /\ [a EXCEPT !.roles = R].roles = R
         /\ \A p \in Passwords : [a EXCEPT !.password = p] \in Accounts
                               /\ [a EXCEPT !.password = p].version = a.version
                               /\ [a EXCEPT !.password = p].roles = a.roles
  BY DEF Accounts

-----------------------------------------------------------------------------
(* What every operation on the tables keeps, and how it may change an      *)
(* account.                                                                *)

\* No role is missing, and no override is left of a deleted account.
Whole(db) ==
    /\ Builtin \subseteq DOMAIN db.roles
    /\ \A u \in DOMAIN db.users : db.users[u].roles \subseteq DOMAIN db.roles
    /\ \A u \in Names \ DOMAIN db.users : db.overrides[u] = {}

Sound(db) == Tables(db) /\ Whole(db)

\* An account changes only together with its version.
Ages(db, new) ==
    \A u \in DOMAIN db.users \cap DOMAIN new.users :
        new.users[u] = db.users[u] \/ db.users[u].version < new.users[u].version

\* An account that did not change may do what it might.
KeepsRights(db, new) ==
    \A u \in DOMAIN db.users \cap DOMAIN new.users :
        new.users[u] = db.users[u] => Effective(new, u) = Effective(db, u)

LEMMA SameRights ==
  ASSUME NEW db, NEW new, NEW u, u \in DOMAIN db.users, u \in DOMAIN new.users,
         new.users[u] = db.users[u], new.overrides[u] = db.overrides[u],
         \A k \in db.users[u].roles : /\ k \in DOMAIN db.roles <=> k \in DOMAIN new.roles
                                      /\ new.roles[k] = db.roles[k]
  PROVE  Effective(new, u) = Effective(db, u)
<1>1. \A e : Overridden(new, u, e) = Overridden(db, u, e)
  BY DEF Overridden
<1>2. {new.roles[k] : k \in new.users[u].roles \cap DOMAIN new.roles}
        = {db.roles[k] : k \in db.users[u].roles \cap DOMAIN db.roles}
  OBVIOUS
<1>3. UNION {new.roles[k] : k \in new.users[u].roles \cap DOMAIN new.roles}
        = UNION {db.roles[k] : k \in db.users[u].roles \cap DOMAIN db.roles}
  BY <1>2
<1>4. /\ Overridden(new, u, "allow") = Overridden(db, u, "allow")
      /\ Overridden(new, u, "deny") = Overridden(db, u, "deny")
  BY <1>1
<1> QED
  BY <1>3, <1>4, Zenon DEF Effective

\* _ensure_bootstrap on tables that are in order.
LEMMA BootstrappedSound ==
  ASSUME NEW db, Sound(db), NEW p \in Passwords
  PROVE  LET new == Bootstrapped(db, p)
         IN  /\ Sound(new) /\ Ages(db, new) /\ KeepsRights(db, new)
             /\ DOMAIN db.users \subseteq DOMAIN new.users
             /\ DOMAIN new.users \subseteq DOMAIN db.users \cup {Boot}
             /\ DOMAIN db.users # {} => new = db
<1> DEFINE us == [u \in {Boot} |-> Account(p, {Admin})]
           new == [db EXCEPT !.users = us]
<1>1. CASE DOMAIN db.users # {}
  BY <1>1 DEF Bootstrapped, Ages, KeepsRights
<1>2. CASE DOMAIN db.users = {}
  <2>1. Bootstrapped(db, p) = new
    BY <1>2 DEF Bootstrapped
  <2>2. /\ DOMAIN new = {"users", "roles", "overrides"}
        /\ new.users = us /\ new.roles = db.roles /\ new.overrides = db.overrides
    BY UsersReplaced DEF Sound, Tables
  <2>3. Account(p, {Admin}) \in Accounts /\ Account(p, {Admin}).roles = {Admin}
    BY NamesAssumption DEF Account, Accounts
  <2>4. DOMAIN us = {Boot} /\ us[Boot] = Account(p, {Admin}) /\ us \in [{Boot} -> Accounts]
    BY <2>3
  <2> HIDE DEF new, us
  <2>5. Tables(new)
    BY <2>2, <2>4, NamesAssumption DEF Sound, Tables
  <2>6. Whole(new)
    <3>1. Builtin \subseteq DOMAIN db.roles /\ Admin \in DOMAIN db.roles
      BY NamesAssumption DEF Sound, Whole
    <3>2. \A n \in Names : db.overrides[n] = {}
      BY <1>2 DEF Sound, Whole
    <3>3. \A n \in DOMAIN new.users : new.users[n].roles \subseteq DOMAIN new.roles
      BY <2>2, <2>3, <2>4, <3>1
    <3> QED
      BY <2>2, <3>1, <3>2, <3>3 DEF Whole
  <2>7. DOMAIN db.users \cap DOMAIN new.users = {}
    BY <1>2
  <2> QED
    BY <1>2, <2>1, <2>2, <2>4, <2>5, <2>6, <2>7 DEF Sound, Ages, KeepsRights
<1> QED
  BY <1>1, <1>2

\* create_user.
LEMMA CreatedSound ==
  ASSUME NEW db, Sound(db), NEW u \in Names, u \notin DOMAIN db.users,
         NEW a \in Accounts, a.roles \subseteq DOMAIN db.roles
  PROVE  LET new == [db EXCEPT !.users = [n \in DOMAIN @ \cup {u} |-> IF n = u THEN a ELSE @[n]]]
         IN  /\ Sound(new) /\ Ages(db, new) /\ KeepsRights(db, new)
             /\ DOMAIN new.users = DOMAIN db.users \cup {u}
<1> DEFINE us == [n \in DOMAIN db.users \cup {u} |-> IF n = u THEN a ELSE db.users[n]]
           new == [db EXCEPT !.users = us]
<1>1. /\ DOMAIN new = {"users", "roles", "overrides"}
      /\ new.users = us /\ new.roles = db.roles /\ new.overrides = db.overrides
  BY UsersReplaced DEF Sound, Tables
<1>2. /\ DOMAIN us = DOMAIN db.users \cup {u} /\ us[u] = a
      /\ \A n \in DOMAIN db.users : us[n] = db.users[n]
  OBVIOUS
<1>3. us \in [DOMAIN db.users \cup {u} -> Accounts]
  BY DEF Sound, Tables
<1>4. new = [db EXCEPT !.users = [n \in DOMAIN @ \cup {u} |-> IF n = u THEN a ELSE @[n]]]
  OBVIOUS
<1> HIDE DEF new, us
<1>5. Tables(new)
  BY <1>1, <1>2, <1>3 DEF Sound, Tables
<1>6. Whole(new)
  BY <1>1, <1>2 DEF Sound, Whole
<1>7. Ages(db, new)
  BY <1>1, <1>2 DEF Ages
<1>8. KeepsRights(db, new)
  BY <1>1, <1>2, SameRights DEF KeepsRights
<1> QED
  BY <1>1, <1>2, <1>4, <1>5, <1>6, <1>7, <1>8 DEF Sound

\* One account rewritten under a higher version: update_user and set_password.
LEMMA RewrittenSound ==
  ASSUME NEW db, Sound(db), NEW u \in DOMAIN db.users,
         NEW a \in Accounts, a.roles \subseteq DOMAIN db.roles, db.users[u].version < a.version
  PROVE  LET new == [db EXCEPT !.users[u] = a]
         IN  /\ Sound(new) /\ Ages(db, new) /\ KeepsRights(db, new)
             /\ DOMAIN new.users = DOMAIN db.users
             /\ new.users[u] = a /\ new.roles = db.roles
<1> DEFINE us == [db.users EXCEPT ![u] = a]
           new == [db EXCEPT !.users = us]
<1>1. /\ DOMAIN new = {"users", "roles", "overrides"}
      /\ new.users = us /\ new.roles = db.roles /\ new.overrides = db.overrides
  BY UsersReplaced DEF Sound, Tables
<1>2. /\ DOMAIN us = DOMAIN db.users /\ us[u] = a
      /\ \A n \in DOMAIN db.users \ {u} : us[n] = db.users[n]
  BY DEF Sound, Tables
<1>3. us \in [DOMAIN db.users -> Accounts]
  BY DEF Sound, Tables
<1>4. new = [db EXCEPT !.users[u] = a]
  OBVIOUS
<1> HIDE DEF new, us
<1>5. Tables(new)
  BY <1>1, <1>2, <1>3 DEF Sound, Tables
<1>6. Whole(new)
  BY <1>1, <1>2 DEF Sound, Whole
<1>7. Ages(db, new)
  BY <1>1, <1>2 DEF Ages
<1>8. KeepsRights(db, new)
  <2> SUFFICES ASSUME NEW n \in DOMAIN db.users, new.users[n] = db.users[n]
               PROVE  Effective(new, n) = Effective(db, n)
    BY <1>1, <1>2 DEF KeepsRights
  <2> QED
    BY <1>1, <1>2, SameRights
<1> QED
  BY <1>1, <1>2, <1>4, <1>5, <1>6, <1>7, <1>8 DEF Sound

\* delete_user.
LEMMA DeletedSound ==
  ASSUME NEW db, Sound(db), NEW u \in DOMAIN db.users
  PROVE  LET new == [db EXCEPT !.users = Restrict(@, DOMAIN @ \ {u}), !.overrides[u] = {}]
         IN  /\ Sound(new) /\ Ages(db, new) /\ KeepsRights(db, new)
             /\ DOMAIN new.users = DOMAIN db.users \ {u}
             /\ \A n \in DOMAIN new.users : new.users[n] = db.users[n]
<1> DEFINE us == Restrict(db.users, DOMAIN db.users \ {u})
           os == [db.overrides EXCEPT ![u] = {}]
           mid == [db EXCEPT !.users = us]
           new == [mid EXCEPT !.overrides = os]
<1>1. /\ DOMAIN mid = {"users", "roles", "overrides"}
      /\ mid.users = us /\ mid.roles = db.roles /\ mid.overrides = db.overrides
  BY UsersReplaced DEF Sound, Tables
<1>2. /\ DOMAIN new = {"users", "roles", "overrides"}
      /\ new.users = us /\ new.roles = db.roles /\ new.overrides = os
  <2> HIDE DEF mid, us, os
  <2> QED
    BY <1>1, OverridesReplaced
<1>3. /\ DOMAIN us = DOMAIN db.users \ {u}
      /\ \A n \in DOMAIN us : us[n] = db.users[n]
      /\ us \in [DOMAIN us -> Accounts]
  BY DEF Restrict, Sound, Tables
<1>4. /\ os \in [Names -> SUBSET OverrideRows]
      /\ u \in Names /\ os[u] = {} /\ \A n \in Names \ {u} : os[n] = db.overrides[n]
  BY DEF Sound, Tables
<1>5. new = [db EXCEPT !.users = Restrict(@, DOMAIN @ \ {u}), !.overrides[u] = {}]
  BY <1>1 DEF Sound, Tables
<1> HIDE DEF new, mid, us, os
<1>6. Tables(new)
  BY <1>2, <1>3, <1>4 DEF Sound, Tables
<1>7. Whole(new)
  BY <1>2, <1>3, <1>4 DEF Sound, Whole
<1>8. \A n \in DOMAIN new.users : n # u /\ n \in Names /\ n \in DOMAIN db.users
                                  /\ new.users[n] = db.users[n]
                                  /\ new.overrides[n] = db.overrides[n]
  BY <1>2, <1>3, <1>4 DEF Sound, Tables
<1>9. Ages(db, new)
  BY <1>8 DEF Ages
<1>10. KeepsRights(db, new)
  BY <1>2, <1>8, SameRights DEF KeepsRights
<1> QED
  BY <1>2, <1>3, <1>5, <1>6, <1>7, <1>8, <1>9, <1>10 DEF Sound

\* The UPDATE that bumps the versions of a set of accounts.
LEMMA BumpedTables ==
  ASSUME NEW db, Tables(db), NEW S
  PROVE  LET new == BumpedIn(db, S)
         IN  /\ Tables(new)
             /\ DOMAIN new.users = DOMAIN db.users
             /\ new.roles = db.roles /\ new.overrides = db.overrides
             /\ \A u \in DOMAIN db.users \ S : new.users[u] = db.users[u]
             /\ \A u \in DOMAIN db.users \cap S : db.users[u].version < new.users[u].version
             /\ \A u \in DOMAIN db.users : new.users[u].roles = db.users[u].roles
<1> DEFINE us == [u \in DOMAIN db.users |-> IF u \in S THEN Bumped(db.users[u]) ELSE db.users[u]]
           new == [db EXCEPT !.users = us]
<1>1. /\ DOMAIN new = {"users", "roles", "overrides"}
      /\ new.users = us /\ new.roles = db.roles /\ new.overrides = db.overrides
  BY UsersReplaced DEF Tables
<1>2. BumpedIn(db, S) = new
  BY DEF BumpedIn
<1>3. \A u \in DOMAIN db.users :
         /\ db.users[u] \in Accounts /\ Bumped(db.users[u]) \in Accounts
         /\ db.users[u].version < Bumped(db.users[u]).version
         /\ Bumped(db.users[u]).roles = db.users[u].roles
  BY BumpedAccount DEF Tables
<1>4. DOMAIN us = DOMAIN db.users /\ us \in [DOMAIN db.users -> Accounts]
  BY <1>3
<1>5. /\ \A u \in DOMAIN db.users \ S : us[u] = db.users[u]
      /\ \A u \in DOMAIN db.users \cap S : us[u] = Bumped(db.users[u])
  OBVIOUS
<1> HIDE DEF new, us
<1>6. Tables(new)
  BY <1>1, <1>4 DEF Tables
<1> QED
  BY <1>1, <1>2, <1>3, <1>4, <1>5, <1>6

\* save_role, whichever sessions it bumps.
LEMMA RoleSavedSound ==
  ASSUME NEW db, Sound(db), NEW k \in RoleKeys, NEW perms \in SUBSET Perms, NEW S
  PROVE  LET new == BumpedIn(WithRole(db, k, perms), S)
         IN  /\ Sound(new) /\ Ages(db, new) /\ DOMAIN new.users = DOMAIN db.users
             /\ S = Holders(db, k) => KeepsRights(db, new)
<1> DEFINE rs == [r \in DOMAIN db.roles \cup {k} |-> IF r = k THEN perms ELSE db.roles[r]]
           stored == [db EXCEPT !.roles = rs]
           new == BumpedIn(stored, S)
<1>1. /\ DOMAIN stored = {"users", "roles", "overrides"}
      /\ stored.users = db.users /\ stored.roles = rs /\ stored.overrides = db.overrides
  BY RolesReplaced DEF Sound, Tables
<1>2. /\ DOMAIN rs = DOMAIN db.roles \cup {k}
      /\ \A r \in DOMAIN db.roles \ {k} : rs[r] = db.roles[r]
      /\ rs \in [DOMAIN db.roles \cup {k} -> SUBSET Perms]
  BY DEF Sound, Tables
<1>3. stored = WithRole(db, k, perms)
  BY DEF WithRole
<1> HIDE DEF stored, rs
<1>4. Tables(stored)
  BY <1>1, <1>2 DEF Sound, Tables
<1>5. /\ Tables(new)
      /\ DOMAIN new.users = DOMAIN db.users
      /\ new.roles = rs /\ new.overrides = db.overrides
      /\ \A u \in DOMAIN db.users \ S : new.users[u] = db.users[u]
      /\ \A u \in DOMAIN db.users \cap S : db.users[u].version < new.users[u].version
      /\ \A u \in DOMAIN db.users : new.users[u].roles = db.users[u].roles
  BY <1>1, <1>4, BumpedTables
<1> HIDE DEF new
<1>6. Whole(new)
  BY <1>2, <1>5 DEF Sound, Whole
<1>7. Ages(db, new)
  BY <1>5 DEF Ages
<1>8. ASSUME S = Holders(db, k) PROVE KeepsRights(db, new)
  <2> SUFFICES ASSUME NEW u \in DOMAIN db.users, new.users[u] = db.users[u]
               PROVE  Effective(new, u) = Effective(db, u)
    BY <1>5 DEF KeepsRights
  <2>1. db.users[u].version \in Nat
    BY DEF Sound, Tables, Accounts
  <2>2. k \notin db.users[u].roles
    BY <1>5, <1>8, <2>1 DEF Holders
  <2>3. db.users[u].roles \subseteq DOMAIN db.roles
    BY DEF Sound, Whole
  <2> QED
    BY <1>2, <1>5, <2>2, <2>3, SameRights
<1> QED
  BY <1>3, <1>5, <1>6, <1>7, <1>8 DEF new, Sound

LEMMA WithoutRole ==
  ASSUME NEW a \in Accounts, NEW k
  PROVE  /\ Without(a, k) \in Accounts
         /\ Without(a, k).version = a.version /\ Without(a, k).roles = a.roles \ {k}
<1> DEFINE R == a.roles \ {k}
<1>1. R \in SUBSET RoleKeys
  BY DEF Accounts
<1>2. Without(a, k) = [a EXCEPT !.roles = R]
  BY DEF Without
<1> HIDE DEF R
<1>3. /\ [a EXCEPT !.roles = R] \in Accounts
      /\ [a EXCEPT !.roles = R].version = a.version
      /\ [a EXCEPT !.roles = R].roles = R
  BY <1>1, AccountsExcept
<1> QED
  BY <1>2, <1>3 DEF R

\* A role taken off some of its holders.
LEMMA StrippedSound ==
  ASSUME NEW db, Sound(db), NEW k, NEW S \in SUBSET Holders(db, k)
  PROVE  LET new == Stripped(db, k, S)
         IN  /\ Sound(new) /\ Ages(db, new) /\ KeepsRights(db, new)
             /\ DOMAIN new.users = DOMAIN db.users
             /\ new.roles = db.roles /\ new.overrides = db.overrides
             /\ S = Holders(db, k) => Holders(new, k) = {}
<1> DEFINE us == [u \in DOMAIN db.users |->
                   IF u \in S THEN Without(db.users[u], k) ELSE db.users[u]]
           mid == [db EXCEPT !.users = us]
           new == BumpedIn(mid, S)
<1>1. /\ DOMAIN mid = {"users", "roles", "overrides"}
      /\ mid.users = us /\ mid.roles = db.roles /\ mid.overrides = db.overrides
  BY UsersReplaced DEF Sound, Tables
<1>2. Stripped(db, k, S) = new
  BY DEF Stripped
<1>3. \A u \in DOMAIN db.users :
         /\ db.users[u] \in Accounts /\ Without(db.users[u], k) \in Accounts
         /\ Without(db.users[u], k).version = db.users[u].version
         /\ Without(db.users[u], k).roles = db.users[u].roles \ {k}
  BY WithoutRole DEF Sound, Tables
<1>4. /\ DOMAIN us = DOMAIN db.users /\ us \in [DOMAIN db.users -> Accounts]
      /\ \A u \in DOMAIN db.users \ S : us[u] = db.users[u]
      /\ \A u \in DOMAIN db.users \cap S : /\ us[u].version = db.users[u].version
                                          /\ us[u].roles = db.users[u].roles \ {k}
  BY <1>3
<1> HIDE DEF mid, us
<1>5. Tables(mid)
  BY <1>1, <1>4 DEF Sound, Tables
<1>6. /\ Tables(new)
      /\ DOMAIN new.users = DOMAIN mid.users
      /\ new.roles = mid.roles /\ new.overrides = mid.overrides
      /\ \A u \in DOMAIN mid.users \ S : new.users[u] = mid.users[u]
      /\ \A u \in DOMAIN mid.users \cap S : mid.users[u].version < new.users[u].version
      /\ \A u \in DOMAIN mid.users : new.users[u].roles = mid.users[u].roles
  BY <1>5, BumpedTables
<1> HIDE DEF new
<1>7. /\ \A u \in DOMAIN db.users \ S : new.users[u] = db.users[u]
      /\ \A u \in DOMAIN db.users \cap S : /\ db.users[u].version < new.users[u].version
                                          /\ new.users[u].roles = db.users[u].roles \ {k}
  BY <1>1, <1>4, <1>6
<1>8. Whole(new)
  BY <1>1, <1>4, <1>6, <1>7 DEF Sound, Whole
<1>9. Ages(db, new)
  BY <1>7 DEF Ages
<1>10. KeepsRights(db, new)
  <2> SUFFICES ASSUME NEW u \in DOMAIN db.users, new.users[u] = db.users[u], u \in DOMAIN new.users
               PROVE  Effective(new, u) = Effective(db, u)
    BY DEF KeepsRights
  <2> QED
    BY <1>1, <1>6, SameRights
<1>11. S = Holders(db, k) => Holders(new, k) = {}
  BY <1>1, <1>4, <1>6, <1>7 DEF Holders
<1> QED
  BY <1>1, <1>2, <1>4, <1>6, <1>8, <1>9, <1>10, <1>11 DEF Sound

\* delete_role, when it runs to its end.
LEMMA RoleDeletedSound ==
  ASSUME NEW db, Sound(db), NEW k \in DOMAIN db.roles \ Builtin
  PROVE  LET bare == Stripped(db, k, Holders(db, k))
             new == [bare EXCEPT !.roles = Restrict(@, DOMAIN @ \ {k})]
         IN  /\ Sound(new) /\ Ages(db, new) /\ KeepsRights(db, new)
             /\ DOMAIN new.users = DOMAIN db.users
<1> DEFINE bare == Stripped(db, k, Holders(db, k))
           rs == Restrict(bare.roles, DOMAIN bare.roles \ {k})
           new == [bare EXCEPT !.roles = rs]
<1>1. /\ Sound(bare) /\ Ages(db, bare) /\ KeepsRights(db, bare)
      /\ DOMAIN bare.users = DOMAIN db.users
      /\ bare.roles = db.roles /\ Holders(bare, k) = {}
  BY StrippedSound
<1> HIDE DEF bare
<1>2. /\ DOMAIN new = {"users", "roles", "overrides"}
      /\ new.users = bare.users /\ new.roles = rs /\ new.overrides = bare.overrides
  BY <1>1, RolesReplaced DEF Sound, Tables
<1>3. /\ DOMAIN rs = DOMAIN bare.roles \ {k}
      /\ \A r \in DOMAIN rs : rs[r] = bare.roles[r]
      /\ rs \in [DOMAIN rs -> SUBSET Perms]
  BY <1>1 DEF Restrict, Sound, Tables
<1>4. \A u \in DOMAIN bare.users : k \notin bare.users[u].roles
  BY <1>1 DEF Holders
<1> HIDE DEF new, rs
<1>5. Tables(new)
  BY <1>1, <1>2, <1>3 DEF Sound, Tables
<1>6. Whole(new)
  BY <1>1, <1>2, <1>3, <1>4 DEF Sound, Whole
<1>7. Ages(db, new)
  BY <1>1, <1>2 DEF Ages
<1>8. KeepsRights(db, new)
  <2> SUFFICES ASSUME NEW u \in DOMAIN db.users, new.users[u] = db.users[u]
               PROVE  Effective(new, u) = Effective(db, u)
    BY <1>1, <1>2 DEF KeepsRights
  <2>1. Effective(bare, u) = Effective(db, u)
    BY <1>1, <1>2 DEF KeepsRights
  <2>2. \A r \in bare.users[u].roles : /\ r \in DOMAIN bare.roles /\ r \in DOMAIN new.roles
                                       /\ new.roles[r] = bare.roles[r]
    BY <1>1, <1>2, <1>3, <1>4 DEF Sound, Whole
  <2>3. Effective(new, u) = Effective(bare, u)
    BY <1>1, <1>2, <2>2, SameRights
  <2> QED
    BY <2>1, <2>3
<1> QED
  BY <1>1, <1>2, <1>5, <1>6, <1>7, <1>8 DEF new, rs, bare, Sound

\* set_overrides: what a refused list leaves behind, and what an accepted one does.
LEMMA OverridesSound ==
  ASSUME NEW db, Sound(db), NEW u \in DOMAIN db.users, NEW list \in OverrideLists
  PROVE  LET stored == [db EXCEPT !.overrides[u] = Stored(list)]
             new == BumpedIn(stored, {u})
         IN  /\ Sound(stored) /\ Ages(db, stored) /\ DOMAIN stored.users = DOMAIN db.users
             /\ Sound(new) /\ Ages(db, new) /\ KeepsRights(db, new)
             /\ DOMAIN new.users = DOMAIN db.users
<1> DEFINE os == [db.overrides EXCEPT ![u] = Stored(list)]
           stored == [db EXCEPT !.overrides = os]
           new == BumpedIn(stored, {u})
<1>1. /\ DOMAIN stored = {"users", "roles", "overrides"}
      /\ stored.users = db.users /\ stored.roles = db.roles /\ stored.overrides = os
  BY OverridesReplaced DEF Sound, Tables
<1>2. Stored(list) \in SUBSET OverrideRows
  <2>1. list \in Seq(OverrideRows)
    BY ListsAssumption
  <2> QED
    BY <2>1 DEF Stored
<1>3. /\ os \in [Names -> SUBSET OverrideRows] /\ u \in Names
      /\ \A n \in Names \ {u} : os[n] = db.overrides[n]
  BY <1>2 DEF Sound, Tables
<1>4. stored = [db EXCEPT !.overrides[u] = Stored(list)]
  OBVIOUS
<1> HIDE DEF stored, os
<1>5. Tables(stored)
  BY <1>1, <1>3 DEF Sound, Tables
<1>6. /\ Tables(new)
      /\ DOMAIN new.users = DOMAIN db.users
      /\ new.roles = db.roles /\ new.overrides = os
      /\ \A n \in DOMAIN db.users \ {u} : new.users[n] = db.users[n]
      /\ \A n \in DOMAIN db.users \cap {u} : db.users[n].version < new.users[n].version
      /\ \A n \in DOMAIN db.users : new.users[n].roles = db.users[n].roles
  BY <1>1, <1>5, BumpedTables
<1> HIDE DEF new
<1>7. Sound(stored) /\ Ages(db, stored)
  BY <1>1, <1>3, <1>5 DEF Sound, Whole, Ages
<1>8. Sound(new) /\ Ages(db, new)
  BY <1>3, <1>6 DEF Sound, Whole, Ages
<1>9. KeepsRights(db, new)
  <2> SUFFICES ASSUME NEW n \in DOMAIN db.users, new.users[n] = db.users[n]
               PROVE  Effective(new, n) = Effective(db, n)
    BY <1>6 DEF KeepsRights
  <2>1. n # u /\ n \in Names
    BY <1>6 DEF Sound, Tables, Accounts
  <2> QED
    BY <1>3, <1>6, <2>1, SameRights
<1> QED
  BY <1>1, <1>4, <1>6, <1>7, <1>8, <1>9 DEF new

\* update_user changes the flag, then the roles: each step is a version.
LEMMA WithActiveSound ==
  ASSUME NEW db, Sound(db), NEW u \in DOMAIN db.users, NEW active \in {{}, {TRUE}, {FALSE}}
  PROVE  LET new == WithActive(db, u, active)
         IN  /\ Sound(new) /\ Ages(db, new) /\ KeepsRights(db, new)
             /\ DOMAIN new.users = DOMAIN db.users /\ new.roles = db.roles
<1>1. CASE active = {}
  BY <1>1 DEF WithActive, Ages, KeepsRights
<1>2. CASE active # {}
  <2> DEFINE b == TRUE \in active
             flagged == [db.users[u] EXCEPT !.active = b]
             a == Bumped(flagged)
  <2>1. b \in BOOLEAN
    OBVIOUS
  <2>2. WithActive(db, u, active) = [db EXCEPT !.users[u] = a]
    BY <1>2 DEF WithActive
  <2>3. db.users[u] \in Accounts
    BY DEF Sound, Tables
  <2> HIDE DEF b
  <2>4. /\ flagged \in Accounts /\ flagged.version = db.users[u].version
        /\ flagged.roles = db.users[u].roles
    BY <2>1, <2>3, AccountsExcept
  <2> HIDE DEF flagged
  <2>5. a \in Accounts /\ db.users[u].version < a.version /\ a.roles = db.users[u].roles
    BY <2>4, BumpedAccount
  <2> HIDE DEF a
  <2>6. a.roles \subseteq DOMAIN db.roles
    BY <2>5 DEF Sound, Whole
  <2> QED
    BY <2>2, <2>5, <2>6, RewrittenSound
<1> QED
  BY <1>1, <1>2

LEMMA WithRolesSound ==
  ASSUME NEW db, Sound(db), NEW u \in DOMAIN db.users,
         NEW roles \in {{}} \cup {{R} : R \in SUBSET RoleKeys},
         UNION roles \subseteq DOMAIN db.roles
  PROVE  LET new == WithRoles(db, u, roles)
         IN  /\ Sound(new) /\ Ages(db, new) /\ KeepsRights(db, new)
             /\ DOMAIN new.users = DOMAIN db.users
<1>1. CASE roles = {}
  BY <1>1 DEF WithRoles, Ages, KeepsRights
<1>2. CASE roles # {}
  <2> DEFINE R == UNION roles
             given == [db.users[u] EXCEPT !.roles = R]
             a == Bumped(given)
  <2>1. R \in SUBSET RoleKeys
    OBVIOUS
  <2>2. WithRoles(db, u, roles) = [db EXCEPT !.users[u] = a]
    BY <1>2 DEF WithRoles
  <2>3. db.users[u] \in Accounts
    BY DEF Sound, Tables
  <2>4. R \subseteq DOMAIN db.roles
    OBVIOUS
  <2> HIDE DEF R
  <2>5. given \in Accounts /\ given.version = db.users[u].version /\ given.roles = R
    BY <2>1, <2>3, AccountsExcept
  <2> HIDE DEF given
  <2>6. a \in Accounts /\ db.users[u].version < a.version /\ a.roles = R
    BY <2>5, BumpedAccount
  <2> HIDE DEF a
  <2> QED
    BY <2>2, <2>4, <2>6, RewrittenSound
<1> QED
  BY <1>1, <1>2

LEMMA WithPasswordSound ==
  ASSUME NEW db, Sound(db), NEW u \in DOMAIN db.users, NEW p \in Passwords
  PROVE  LET new == WithPassword(db, u, p)
         IN  /\ Sound(new) /\ Ages(db, new) /\ KeepsRights(db, new)
             /\ DOMAIN new.users = DOMAIN db.users
<1> DEFINE kept == [db.users[u] EXCEPT !.password = p]
           a == Bumped(kept)
<1>1. WithPassword(db, u, p) = [db EXCEPT !.users[u] = a]
  BY DEF WithPassword
<1>2. db.users[u] \in Accounts
  BY DEF Sound, Tables
<1>3. /\ kept \in Accounts /\ kept.version = db.users[u].version
      /\ kept.roles = db.users[u].roles
  BY <1>2, AccountsExcept
<1> HIDE DEF kept
<1>4. a \in Accounts /\ db.users[u].version < a.version /\ a.roles = db.users[u].roles
  BY <1>3, BumpedAccount
<1> HIDE DEF a
<1>5. a.roles \subseteq DOMAIN db.roles
  BY <1>4 DEF Sound, Whole
<1> QED
  BY <1>1, <1>4, <1>5, RewrittenSound

\* Two changes one after the other are one.
LEMMA Composed ==
  ASSUME NEW db, NEW mid, NEW new, Sound(db), Sound(mid), Sound(new),
         DOMAIN mid.users = DOMAIN db.users, Ages(db, mid), Ages(mid, new)
  PROVE  /\ Ages(db, new)
         /\ KeepsRights(db, mid) /\ KeepsRights(mid, new) => KeepsRights(db, new)
<1>1. \A u \in DOMAIN db.users \cap DOMAIN new.users :
         /\ u \in DOMAIN mid.users
         /\ db.users[u].version \in Nat /\ mid.users[u].version \in Nat
         /\ new.users[u].version \in Nat
  BY DEF Sound, Tables, Accounts
<1>2. Ages(db, new)
  BY <1>1 DEF Ages
<1>3. \A u \in DOMAIN db.users \cap DOMAIN new.users :
         new.users[u] = db.users[u] => mid.users[u] = db.users[u]
  BY <1>1 DEF Ages
<1> QED
  BY <1>1, <1>2, <1>3 DEF KeepsRights

-----------------------------------------------------------------------------
(* What a step does to the tables: it commits a continuation of what the   *)
(* connection sees, or, after a restart, of what the disk held; or it      *)
(* leaves a continuation uncommitted.                                      *)

Base ==
    /\ Sound(view) /\ Sound(saved)
    /\ DOMAIN saved.users = DOMAIN view.users
    /\ Ages(saved, view)

\* Neither a role key that LIKE cannot find, nor a list that repeats a row.
Plain == /\ NonAscii = {}
         /\ \A list \in OverrideLists : \A i \in DOMAIN list : ~Repeats(list, i)

Continues(db) ==
    /\ Sound(view')
    /\ Ages(db, view')
    /\ Plain => KeepsRights(db, view')
    /\ gone' = gone \cup (DOMAIN db.users \ DOMAIN view'.users)
    /\ DOMAIN db.users \subseteq DOMAIN view'.users \/ \E actor, u : DeleteUser(actor, u)
    /\ \A u \in DOMAIN view'.users \ DOMAIN db.users : u \in gone => u \in Reusable

Moves ==
    \/ saved' = view' /\ (Continues(view) \/ Continues(saved))
    \/ /\ saved' = saved /\ Continues(view)
       /\ DOMAIN view'.users = DOMAIN view.users

\* A change of accounts that are there, committed or left pending.
LEMMA Changed ==
  ASSUME NEW new, view' = new, saved' \in {saved, new}, gone' = gone,
         Sound(new), Ages(view, new), Plain => KeepsRights(view, new),
         DOMAIN new.users = DOMAIN view.users
  PROVE  Moves
<1>1. Continues(view)
  BY DEF Continues
<1> QED
  BY <1>1 DEF Moves

LEMMA Unchanged ==
  ASSUME Base, UNCHANGED <<view, gone>>, saved' \in {saved, view}
  PROVE  Moves
<1>1. Ages(view, view) /\ KeepsRights(view, view)
  BY DEF Ages, KeepsRights
<1> QED
  BY <1>1, Changed DEF Base

LEMMA ReopenMoves ==
  ASSUME NEW db, Sound(db), Reopen(db)
  PROVE  /\ Continues(db) /\ saved' = view' /\ gone' = gone
         /\ DOMAIN db.users # {} => view' = db
         /\ DOMAIN db.users \subseteq DOMAIN view'.users
<1>1. PICK p \in Passwords : Commit(Bootstrapped(db, p))
  BY DEF Reopen
<1>2. view' = Bootstrapped(db, p) /\ saved' = view'
  BY <1>1 DEF Commit
<1>3. /\ Sound(view') /\ Ages(db, view') /\ KeepsRights(db, view')
      /\ DOMAIN db.users \subseteq DOMAIN view'.users
      /\ DOMAIN view'.users \subseteq DOMAIN db.users \cup {Boot}
      /\ DOMAIN db.users # {} => view' = db
  BY <1>2, BootstrappedSound
<1>4. DOMAIN db.users = {} /\ Boot \in gone => Boot \in Reusable
  BY DEF Reopen
<1>5. gone' = gone
  BY DEF Reopen
<1>6. \A u \in DOMAIN view'.users \ DOMAIN db.users : u \in gone => u \in Reusable
  BY <1>3, <1>4
<1> QED
  BY <1>2, <1>3, <1>5, <1>6 DEF Continues

LEMMA CreateMoves ==
  ASSUME Base, NEW actor, NEW u \in Names, NEW roles, NEW p \in Passwords,
         CreateUser(actor, u, roles, p)
  PROVE  Moves
<1> DEFINE a == Account(p, roles)
           new == [view EXCEPT !.users = [n \in DOMAIN @ \cup {u} |-> IF n = u THEN a ELSE @[n]]]
<1>1. /\ u \notin DOMAIN view.users /\ roles \subseteq DOMAIN view.roles
      /\ u \in gone => u \in Reusable
      /\ view' = new /\ saved' = new /\ gone' = gone
  BY DEF CreateUser, Commit
<1>2. a \in Accounts /\ a.roles \subseteq DOMAIN view.roles
  BY <1>1 DEF Base, Sound, Tables, Account, Accounts
<1> HIDE DEF a
<1>3. /\ Sound(new) /\ Ages(view, new) /\ KeepsRights(view, new)
      /\ DOMAIN new.users = DOMAIN view.users \cup {u}
  BY <1>1, <1>2, CreatedSound DEF Base
<1> HIDE DEF new
<1>4. Continues(view)
  BY <1>1, <1>3 DEF Continues
<1> QED
  BY <1>1, <1>4 DEF Moves

LEMMA UpdateMoves ==
  ASSUME Base, NEW actor, NEW u, NEW active \in {{}, {TRUE}, {FALSE}},
         NEW roles \in {{}} \cup {{R} : R \in SUBSET RoleKeys},
         UpdateUser(actor, u, active, roles)
  PROVE  Moves
<1>1. u \in DOMAIN view.users /\ gone' = gone
  BY DEF UpdateUser
<1>2. CASE UNION roles \subseteq DOMAIN view.roles
  <2> DEFINE new == WithRoles(WithActive(view, u, active), u, roles)
  <2>1. view' = new /\ saved' = new
    BY <1>2 DEF UpdateUser, Commit
  <2>2. /\ Sound(new) /\ Ages(view, new) /\ KeepsRights(view, new)
        /\ DOMAIN new.users = DOMAIN view.users
    <3> DEFINE mid == WithActive(view, u, active)
    <3>1. Sound(view)
      BY DEF Base
    <3>2. /\ Sound(mid) /\ Ages(view, mid) /\ KeepsRights(view, mid)
          /\ DOMAIN mid.users = DOMAIN view.users /\ mid.roles = view.roles
      BY <1>1, <3>1, WithActiveSound
    <3> HIDE DEF mid
    <3>3. LET result == WithRoles(mid, u, roles)
          IN  /\ Sound(result) /\ Ages(mid, result) /\ KeepsRights(mid, result)
              /\ DOMAIN result.users = DOMAIN mid.users
      BY <1>1, <1>2, <3>2, WithRolesSound
    <3>4. new = WithRoles(mid, u, roles)
      BY DEF mid
    <3> HIDE DEF new
    <3> QED
      BY <3>1, <3>2, <3>3, <3>4, Composed
  <2> HIDE DEF new
  <2> QED
    BY <1>1, <2>1, <2>2, Changed
<1>3. CASE ~(UNION roles \subseteq DOMAIN view.roles)
  <2> DEFINE new == WithActive(view, u, active)
  <2>1. view' = new /\ saved' = saved
    BY <1>3 DEF UpdateUser, Pend
  <2>2. /\ Sound(new) /\ Ages(view, new) /\ KeepsRights(view, new)
        /\ DOMAIN new.users = DOMAIN view.users
    BY <1>1, WithActiveSound DEF Base
  <2> HIDE DEF new
  <2> QED
    BY <1>1, <2>1, <2>2, Changed
<1> QED
  BY <1>2, <1>3

LEMMA PasswordMoves ==
  ASSUME Base, NEW u \in DOMAIN view.users, NEW p \in Passwords,
         Commit(WithPassword(view, u, p)), gone' = gone
  PROVE  Moves
<1> DEFINE new == WithPassword(view, u, p)
<1>1. view' = new /\ saved' = new
  BY DEF Commit
<1>2. /\ Sound(new) /\ Ages(view, new) /\ KeepsRights(view, new)
      /\ DOMAIN new.users = DOMAIN view.users
  BY WithPasswordSound DEF Base
<1> HIDE DEF new
<1> QED
  BY <1>1, <1>2, Changed

LEMMA DeleteMoves ==
  ASSUME Base, NEW actor, NEW u, DeleteUser(actor, u)
  PROVE  /\ Moves
         /\ DOMAIN view'.users = DOMAIN view.users \ {u}
         /\ KeepsRights(view, view')
         /\ \A n \in DOMAIN view'.users : view'.users[n] = view.users[n]
<1> DEFINE new == [view EXCEPT !.users = Restrict(@, DOMAIN @ \ {u}), !.overrides[u] = {}]
<1>1. /\ u \in DOMAIN view.users /\ view' = new /\ saved' = new /\ gone' = gone \cup {u}
  BY DEF DeleteUser, Commit
<1>2. /\ Sound(new) /\ Ages(view, new) /\ KeepsRights(view, new)
      /\ DOMAIN new.users = DOMAIN view.users \ {u}
      /\ \A n \in DOMAIN new.users : new.users[n] = view.users[n]
  BY <1>1, DeletedSound DEF Base
<1> HIDE DEF new
<1>3. Continues(view)
  BY <1>1, <1>2 DEF Continues
<1> QED
  BY <1>1, <1>2, <1>3 DEF Moves

LEMMA OverridesMoves ==
  ASSUME Base, NEW actor, NEW u, NEW list \in OverrideLists, SetOverrides(actor, u, list)
  PROVE  Moves
<1> DEFINE stored == [view EXCEPT !.overrides[u] = Stored(list)]
           new == BumpedIn(stored, {u})
<1>1. u \in DOMAIN view.users /\ gone' = gone
  BY DEF SetOverrides
<1>2. /\ Sound(stored) /\ Ages(view, stored) /\ DOMAIN stored.users = DOMAIN view.users
      /\ Sound(new) /\ Ages(view, new) /\ KeepsRights(view, new)
      /\ DOMAIN new.users = DOMAIN view.users
  BY <1>1, OverridesSound DEF Base
<1>3. CASE \E i \in DOMAIN list : Repeats(list, i)
  <2>1. view' = stored /\ saved' = saved
    BY <1>3 DEF SetOverrides, Pend
  <2>2. ~Plain
    BY <1>3 DEF Plain
  <2> HIDE DEF stored
  <2> QED
    BY <1>1, <1>2, <2>1, <2>2, Changed
<1>4. CASE ~(\E i \in DOMAIN list : Repeats(list, i))
  <2>1. view' = new /\ saved' = new
    BY <1>4 DEF SetOverrides, Commit
  <2> HIDE DEF new
  <2> QED
    BY <1>1, <1>2, <2>1, Changed
<1> QED
  BY <1>3, <1>4

LEMMA SaveRoleMoves ==
  ASSUME Base, NEW actor, NEW k \in RoleKeys, NEW perms \in GrantChoices,
         SaveRole(actor, k, perms)
  PROVE  Moves
<1> DEFINE S == IF k \in NonAscii THEN {} ELSE Holders(view, k)
           new == BumpedIn(WithRole(view, k, perms), S)
<1>1. view' = new /\ saved' = new /\ gone' = gone
  BY DEF SaveRole, Commit
<1>2. perms \in SUBSET Perms
  BY NamesAssumption
<1>4. Plain => S = Holders(view, k)
  BY DEF Plain
<1> HIDE DEF S
<1>3. /\ Sound(new) /\ Ages(view, new) /\ DOMAIN new.users = DOMAIN view.users
      /\ S = Holders(view, k) => KeepsRights(view, new)
  <2>1. Sound(view)
    BY DEF Base
  <2> QED
    BY <1>2, <2>1, RoleSavedSound
<1> HIDE DEF new
<1> QED
  BY <1>1, <1>3, <1>4, Changed

LEMMA DeleteRoleMoves ==
  ASSUME Base, NEW actor, NEW k, DeleteRole(actor, k)
  PROVE  Moves
<1> DEFINE bare == Stripped(view, k, Holders(view, k))
           new == [bare EXCEPT !.roles = Restrict(@, DOMAIN @ \ {k})]
<1>1. k \in DOMAIN view.roles \ Builtin /\ view' = new /\ saved' = new /\ gone' = gone
  BY DEF DeleteRole, Commit
<1>2. /\ Sound(new) /\ Ages(view, new) /\ KeepsRights(view, new)
      /\ DOMAIN new.users = DOMAIN view.users
  BY <1>1, RoleDeletedSound DEF Base
<1> HIDE DEF new, bare
<1> QED
  BY <1>1, <1>2, Changed

LEMMA DeleteRoleDiesMoves ==
  ASSUME Base, NEW actor, NEW k, DeleteRoleDies(actor, k)
  PROVE  Moves /\ DOMAIN view.users \subseteq DOMAIN view'.users
<1>1. PICK S \in SUBSET Holders(view, k) : Reopen(Stripped(view, k, S))
  BY DEF DeleteRoleDies
<1> DEFINE mid == Stripped(view, k, S)
<1>2. /\ Sound(mid) /\ Ages(view, mid) /\ KeepsRights(view, mid)
      /\ DOMAIN mid.users = DOMAIN view.users
  BY StrippedSound DEF Base
<1>3. Reopen(mid)
  BY <1>1
<1> HIDE DEF mid
<1>4. /\ Continues(mid) /\ saved' = view' /\ gone' = gone
      /\ DOMAIN mid.users # {} => view' = mid
      /\ DOMAIN mid.users \subseteq DOMAIN view'.users
  BY <1>2, <1>3, ReopenMoves
<1>5. Ages(view, view') /\ KeepsRights(view, view')
  <2>1. CASE DOMAIN view.users = {}
    BY <2>1 DEF Ages, KeepsRights
  <2>2. CASE DOMAIN view.users # {}
    BY <1>2, <1>4, <2>2
  <2> QED
    BY <2>1, <2>2
<1>6. Continues(view)
  BY <1>2, <1>4, <1>5 DEF Continues
<1> QED
  BY <1>2, <1>4, <1>6 DEF Moves

\* Every step moves the tables in one of the three ways.
LEMMA StepMoves ==
  ASSUME Base, [Next]_vars
  PROVE  Moves
<1>1. CASE UNCHANGED vars
  BY <1>1, Unchanged DEF vars
<1>2. ASSUME NEW u \in Names, Login(u) PROVE Moves
  BY <1>2, Unchanged DEF Login, Commit
<1>3. CASE AuditOnly
  BY <1>3, Unchanged DEF AuditOnly, Commit
<1>4. CASE AuthoriseKey
  BY <1>4, Unchanged DEF AuthoriseKey
<1>5. CASE Restart
  <2>1. Continues(saved) /\ saved' = view'
    BY <1>5, ReopenMoves DEF Restart, Base
  <2> QED
    BY <2>1 DEF Moves
<1>6. ASSUME NEW c \in cookies, Logout(c) \/ Authorise(c) PROVE Moves
  BY <1>6, Unchanged DEF Logout, Authorise
<1>7. ASSUME NEW c \in cookies, NEW p \in Passwords, ChangeOwnPassword(c, p) PROVE Moves
  BY <1>7, PasswordMoves DEF ChangeOwnPassword
<1>8. ASSUME NEW actor \in inflight, Answer(actor) PROVE Moves
  BY <1>8, Unchanged DEF Answer
<1>9. ASSUME NEW actor \in inflight, Handle(actor) PROVE Moves
  <2>1. ASSUME NEW u \in Names, NEW p \in Passwords, SetPassword(actor, u, p) PROVE Moves
    BY <2>1, PasswordMoves DEF SetPassword
  <2> QED
    BY <1>9, <2>1, CreateMoves, UpdateMoves, DeleteMoves, OverridesMoves, SaveRoleMoves,
       DeleteRoleMoves, DeleteRoleDiesMoves DEF Handle
<1> QED
  BY <1>1, <1>2, <1>3, <1>4, <1>5, <1>6, <1>7, <1>8, <1>9 DEF Next

-----------------------------------------------------------------------------
(* The inductive invariant: the tables are in order, on disk and in memory, *)
(* name the same accounts, and what is pending is newer than what is saved. *)

IInv == Base /\ TypeOK

LEMMA EffectiveType ==
  ASSUME NEW db, Tables(db), NEW u \in Names
  PROVE  Effective(db, u) \in SUBSET Perms
<1>1. \A e : Overridden(db, u, e) \subseteq Perms
  BY DEF Tables, Overridden, Covers, OverrideRows
<1>2. UNION {db.roles[k] : k \in db.users[u].roles \cap DOMAIN db.roles} \subseteq Perms
  BY DEF Tables
<1> DEFINE held == UNION {db.roles[k] : k \in db.users[u].roles \cap DOMAIN db.roles}
<1>3. Effective(db, u) \subseteq held \cup Overridden(db, u, "allow")
  BY DEF Effective
<1> HIDE DEF held
<1>4. held \subseteq Perms /\ Overridden(db, u, "allow") \subseteq Perms
  BY <1>1, <1>2 DEF held
<1> QED
  BY <1>3, <1>4

LEMMA MovesAge ==
  ASSUME Base, Moves
  PROVE  Base' /\ Ages(saved, view') /\ Ages(saved, saved')
<1>1. \A db : Sound(db) => Ages(db, db)
  BY DEF Ages
<1>2. Continues(view) => Ages(saved, view')
  BY Composed DEF Base, Continues
<1>3. CASE saved' = view' /\ (Continues(view) \/ Continues(saved))
  BY <1>1, <1>2, <1>3 DEF Base, Continues
<1>4. CASE /\ saved' = saved /\ Continues(view)
           /\ DOMAIN view'.users = DOMAIN view.users
  BY <1>1, <1>2, <1>4 DEF Base, Continues
<1> QED
  BY <1>3, <1>4 DEF Moves

\* Only a login adds a cookie, and it commits what the connection sees.
LEMMA CookieStep ==
  ASSUME [Next]_vars
  PROVE  \/ cookies' \subseteq cookies
         \/ \E u \in DOMAIN view.users :
               /\ view' = view /\ saved' = view
               /\ cookies' = cookies \cup {[user |-> u, version |-> view.users[u].version,
                                           rights |-> Effective(view, u),
                                           password |-> view.users[u].password]}
<1>1. ASSUME NEW u \in Names, Login(u)
      PROVE  \E n \in DOMAIN view.users :
               /\ view' = view /\ saved' = view
               /\ cookies' = cookies \cup {[user |-> n, version |-> view.users[n].version,
                                           rights |-> Effective(view, n),
                                           password |-> view.users[n].password]}
  BY <1>1 DEF Login, Commit
<1>2. CASE UNCHANGED vars \/ AuditOnly \/ AuthoriseKey \/ Restart
  BY <1>2 DEF vars, AuditOnly, AuthoriseKey, Restart, Reopen
<1>3. ASSUME NEW c \in cookies,
             Logout(c) \/ Authorise(c) \/ \E p \in Passwords : ChangeOwnPassword(c, p)
      PROVE  cookies' \subseteq cookies
  BY <1>3 DEF Logout, Authorise, ChangeOwnPassword
<1>4. ASSUME NEW actor \in inflight, Handle(actor) \/ Answer(actor)
      PROVE  cookies' \subseteq cookies
  BY <1>4 DEF Handle, Answer, CreateUser, UpdateUser, SetPassword, DeleteUser, SetOverrides,
              SaveRole, DeleteRole, DeleteRoleDies, Reopen
<1> QED
  BY <1>1, <1>2, <1>3, <1>4 DEF Next

LEMMA InflightStep ==
  ASSUME TypeOK, [Next]_vars
  PROVE  inflight' \subseteq Names \cup {ApiKey}
<1>1. CASE UNCHANGED vars \/ AuditOnly \/ AuthoriseKey \/ Restart
  BY <1>1 DEF TypeOK, vars, AuditOnly, AuthoriseKey, Restart, Reopen
<1>2. ASSUME NEW u \in Names, Login(u) PROVE inflight' \subseteq Names \cup {ApiKey}
  BY <1>2 DEF TypeOK, Login
<1>3. ASSUME NEW c \in cookies,
             Logout(c) \/ Authorise(c) \/ \E p \in Passwords : ChangeOwnPassword(c, p)
      PROVE  inflight' \subseteq Names \cup {ApiKey}
  BY <1>3 DEF TypeOK, Logout, Authorise, ChangeOwnPassword
<1>4. ASSUME NEW actor \in inflight, Handle(actor) \/ Answer(actor)
      PROVE  inflight' \subseteq Names \cup {ApiKey}
  BY <1>4 DEF TypeOK, Handle, Answer, Handled, CreateUser, UpdateUser, SetPassword, DeleteUser,
              SetOverrides, SaveRole, DeleteRole, DeleteRoleDies, Reopen
<1> QED
  BY <1>1, <1>2, <1>3, <1>4 DEF Next

LEMMA InitInv == Init => IInv
<1> SUFFICES ASSUME Init PROVE IInv
  OBVIOUS
<1> DEFINE empty == [users |-> <<>>, roles |-> Seeded, overrides |-> NoRows]
<1>1. PICK p \in Passwords : view = Bootstrapped(empty, p)
  BY DEF Init
<1>2. Sound(empty)
  <2>1. Seeded \in [Builtin -> SUBSET Perms] /\ DOMAIN Seeded = Builtin
    BY DEF Seeded
  <2>2. NoRows \in [Names -> SUBSET OverrideRows] /\ \A u \in Names : NoRows[u] = {}
    BY DEF NoRows
  <2>3. DOMAIN empty.users = {} /\ empty.users \in [{} -> Accounts]
    OBVIOUS
  <2>4. /\ DOMAIN empty = {"users", "roles", "overrides"}
        /\ empty.roles = Seeded /\ empty.overrides = NoRows
    OBVIOUS
  <2> HIDE DEF empty
  <2> QED
    BY <2>1, <2>2, <2>3, <2>4, NamesAssumption DEF Sound, Tables, Whole
<1> HIDE DEF empty
<1>3. Sound(view) /\ saved = view
  BY <1>1, <1>2, BootstrappedSound DEF Init
<1>4. Base
  BY <1>3 DEF Base, Ages
<1>5. TypeOK
  BY <1>3 DEF Init, TypeOK, Sound
<1> QED
  BY <1>4, <1>5 DEF IInv

LEMMA NextInv == IInv /\ [Next]_vars => IInv'
<1> SUFFICES ASSUME IInv, [Next]_vars PROVE IInv'
  OBVIOUS
<1>1. Moves
  BY StepMoves DEF IInv
<1>2. Base'
  BY <1>1, MovesAge DEF IInv
<1>3. (Tables(view) /\ Tables(saved))'
  BY <1>2 DEF Base, Sound
<1>4. (cookies \subseteq [user : Names, version : Nat, rights : SUBSET Perms, password : Passwords])'
  <2>1. CASE cookies' \subseteq cookies
    BY <2>1 DEF IInv, TypeOK
  <2>2. ASSUME NEW u \in DOMAIN view.users
        PROVE  [user |-> u, version |-> view.users[u].version, rights |-> Effective(view, u),
                password |-> view.users[u].password]
                 \in [user : Names, version : Nat, rights : SUBSET Perms, password : Passwords]
    <3>1. u \in Names /\ view.users[u] \in Accounts
      BY DEF IInv, Base, Sound, Tables
    <3>2. Effective(view, u) \in SUBSET Perms
      BY <3>1, EffectiveType DEF IInv, Base, Sound
    <3> QED
      BY <3>1, <3>2 DEF Accounts
  <2> QED
    BY <2>1, <2>2, CookieStep DEF IInv, TypeOK
<1>5. (inflight \subseteq Names \cup {ApiKey})'
  BY InflightStep DEF IInv
<1>6. (gone \subseteq Names)'
  BY <1>1 DEF IInv, TypeOK, Moves, Continues, Base, Sound, Tables
<1> QED
  BY <1>2, <1>3, <1>4, <1>5, <1>6 DEF IInv, TypeOK

\* The tables, on disk and behind the connection, are in order and agree on who has
\* an account, at every step of every behaviour.
THEOREM Inductive == Spec => []IInv
  BY InitInv, NextInv, PTL DEF Spec

\* Type correctness.
THEOREM TypeCorrect == Spec => []TypeOK
<1>1. IInv => TypeOK
  BY DEF IInv
<1> QED
  BY <1>1, Inductive, PTL

\* No account holds a role that is gone and no override outlives its account, in
\* memory or on disk, also when the process dies half way through delete_role.
THEOREM NothingLeftBehind == Spec => []NothingDangles
<1>1. IInv => NothingDangles
  BY DEF IInv, Base, Sound, Whole, NothingDangles
<1> QED
  BY <1>1, Inductive, PTL

-----------------------------------------------------------------------------
(* Sessions.  A name that is never created twice gives its cookies one     *)
(* count of versions, and a cookie never runs ahead of the disk.           *)

Fresh ==
    /\ gone \cap DOMAIN view.users = {}
    /\ \A c \in cookies :
          /\ c.user \in DOMAIN saved.users \/ c.user \in gone
          /\ c.user \in DOMAIN saved.users => c.version <= saved.users[c.user].version

LEMMA Versions ==
  ASSUME NEW db, Sound(db)
  PROVE  \A u \in DOMAIN db.users : db.users[u].version \in Nat
  BY DEF Sound, Tables, Accounts

LEMMA InitFresh == Init => Fresh
  BY DEF Init, Fresh

LEMMA NextFresh ==
  ASSUME Reusable = {}, IInv, Fresh, [Next]_vars
  PROVE  Fresh'
<1>1. Moves /\ Base /\ Base' /\ Ages(saved, saved') /\ TypeOK
  BY StepMoves, MovesAge DEF IInv
<1>2. /\ gone \subseteq gone' /\ DOMAIN saved'.users = DOMAIN view'.users
      /\ DOMAIN saved.users \subseteq DOMAIN saved'.users \cup gone'
  BY <1>1 DEF Moves, Continues, Base
<1>3. (gone \cap DOMAIN view.users = {})'
  BY <1>1 DEF Moves, Continues, Base, Fresh
<1>4. ASSUME NEW c \in cookies
      PROVE  /\ c.user \in DOMAIN saved'.users \/ c.user \in gone'
             /\ c.user \in DOMAIN saved'.users => c.version <= saved'.users[c.user].version
  <2>1. c.user \in DOMAIN saved'.users => c.user \in DOMAIN saved.users
    BY <1>2, <1>3 DEF Fresh
  <2>2. c.version \in Nat
    BY <1>1 DEF TypeOK
  <2>3. /\ c.user \in DOMAIN saved.users => saved.users[c.user].version \in Nat
        /\ c.user \in DOMAIN saved'.users => saved'.users[c.user].version \in Nat
    BY <1>1, Versions DEF Base
  <2> QED
    BY <1>1, <1>2, <2>1, <2>2, <2>3 DEF Fresh, Ages
<1>5. CASE cookies' \subseteq cookies
  BY <1>3, <1>4, <1>5 DEF Fresh
<1>6. ASSUME NEW u \in DOMAIN view.users, view' = view, saved' = view,
             cookies' = cookies \cup {[user |-> u, version |-> view.users[u].version,
                                      rights |-> Effective(view, u),
                                      password |-> view.users[u].password]}
      PROVE  Fresh'
  <2>1. view.users[u].version \in Nat
    BY <1>1, Versions DEF Base
  <2> QED
    BY <1>3, <1>4, <1>6, <2>1 DEF Fresh
<1> QED
  BY <1>5, <1>6, CookieStep

\* A cookie that newer tables accept was accepted by the older ones, for the very
\* same account.
LEMMA GoodBefore ==
  ASSUME NEW db, NEW new, Sound(db), Sound(new), Ages(db, new),
         NEW c, c.version \in Nat, Good(new, c),
         c.user \in DOMAIN db.users, c.version <= db.users[c.user].version
  PROVE  Good(db, c) /\ new.users[c.user] = db.users[c.user]
<1>1. /\ c.user \in DOMAIN new.users /\ new.users[c.user].version = c.version
      /\ new.users[c.user].active
  BY DEF Good
<1>2. db.users[c.user].version \in Nat /\ new.users[c.user].version \in Nat
  BY <1>1, Versions
<1>3. new.users[c.user] = db.users[c.user]
  BY <1>1, <1>2 DEF Ages
<1> QED
  BY <1>1, <1>3 DEF Good

\* What the committed tables refuse once is refused for good, crashes included, when
\* no name is created twice.
THEOREM Revoked ==
  ASSUME Reusable = {}
  PROVE  Spec => RevokedStaysRevoked
<1>1. Init => IInv /\ Fresh
  BY InitInv, InitFresh
<1>2. IInv /\ Fresh /\ [Next]_vars => (IInv /\ Fresh)'
  BY NextInv, NextFresh
<1>3. IInv /\ Fresh /\ [Next]_vars
        => [\A c \in cookies : ~Good(saved, c) => ~Good(view, c)' /\ ~Good(saved, c)']_vars
  <2> SUFFICES ASSUME IInv, Fresh, [Next]_vars, NEW c \in cookies,
                      Good(view', c) \/ Good(saved', c)
               PROVE  Good(saved, c)
    BY DEF Good
  <2>1. Moves /\ Base /\ Base' /\ Ages(saved, view') /\ Ages(saved, saved') /\ Fresh'
    BY StepMoves, MovesAge, NextFresh DEF IInv
  <2>2. c.user \in DOMAIN view'.users /\ DOMAIN view'.users = DOMAIN saved'.users
    BY <2>1 DEF Good, Base
  <2>3. gone \subseteq gone'
    BY <2>1 DEF Moves, Continues
  <2>4. c.user \in DOMAIN saved.users
    BY <2>1, <2>2, <2>3 DEF Fresh
  <2>5. c.version \in Nat /\ c.version <= saved.users[c.user].version
    BY <2>4 DEF IInv, TypeOK, Fresh
  <2> QED
    BY <2>1, <2>4, <2>5, GoodBefore DEF Base
<1> QED
  BY <1>1, <1>2, <1>3, PTL DEF Spec, RevokedStaysRevoked

-----------------------------------------------------------------------------
(* Rights.                                                                 *)

Faithful(db, c) == /\ c.rights = Effective(db, c.user)
                   /\ c.password = db.users[c.user].password

RightsInv == \A c \in cookies : /\ Good(view, c) => Faithful(view, c)
                                /\ Good(saved, c) => Faithful(saved, c)

LEMMA NextRights ==
  ASSUME Reusable = {}, Plain, IInv, Fresh, RightsInv, [Next]_vars
  PROVE  RightsInv'
<1>1. Moves /\ Base /\ Base' /\ Ages(saved, view') /\ TypeOK /\ Fresh'
  BY StepMoves, MovesAge, NextFresh DEF IInv
<1>2. ASSUME NEW c \in cookies, Good(view', c) PROVE Faithful(view', c)
  <2>1. /\ c.user \in DOMAIN view'.users /\ c.user \in DOMAIN saved'.users
        /\ gone \subseteq gone'
    BY <1>1, <1>2 DEF Good, Base, Moves, Continues
  <2>2. c.user \in DOMAIN saved.users /\ c.user \in DOMAIN view.users
    BY <1>1, <2>1 DEF Fresh, Base
  <2>3. c.version \in Nat /\ c.version <= saved.users[c.user].version
    BY <1>1, <2>2 DEF TypeOK, Fresh
  <2>4. CASE Continues(saved)
    <3>1. Good(saved, c) /\ view'.users[c.user] = saved.users[c.user]
      BY <1>1, <1>2, <2>2, <2>3, GoodBefore DEF Base
    <3> QED
      BY <2>1, <2>2, <2>4, <3>1 DEF Continues, KeepsRights, RightsInv, Faithful
  <2>5. CASE Continues(view)
    <3>1. c.version <= view.users[c.user].version
      <4>1. saved.users[c.user].version \in Nat /\ view.users[c.user].version \in Nat
        BY <1>1, <2>2, Versions DEF Base
      <4> QED
        BY <1>1, <2>2, <2>3, <4>1 DEF Base, Ages
    <3>2. Good(view, c) /\ view'.users[c.user] = view.users[c.user]
      BY <1>1, <1>2, <2>2, <2>3, <2>5, <3>1, GoodBefore DEF Base, Continues
    <3> QED
      BY <2>1, <2>2, <2>5, <3>2 DEF Continues, KeepsRights, RightsInv, Faithful
  <2> QED
    BY <1>1, <2>4, <2>5 DEF Moves
<1>3. ASSUME NEW c \in cookies, Good(saved', c) PROVE Faithful(saved', c)
  <2>1. CASE saved' = view'
    BY <1>2, <1>3, <2>1
  <2>2. CASE saved' = saved
    BY <1>3, <2>2 DEF RightsInv
  <2> QED
    BY <1>1, <2>1, <2>2 DEF Moves
<1>4. CASE cookies' \subseteq cookies
  BY <1>2, <1>3, <1>4 DEF RightsInv
<1>5. ASSUME NEW u \in DOMAIN view.users, view' = view, saved' = view,
             cookies' = cookies \cup {[user |-> u, version |-> view.users[u].version,
                                      rights |-> Effective(view, u),
                                      password |-> view.users[u].password]}
      PROVE  RightsInv'
  <2> DEFINE new == [user |-> u, version |-> view.users[u].version,
                     rights |-> Effective(view, u), password |-> view.users[u].password]
  <2>1. Faithful(view', new) /\ Faithful(saved', new)
    BY <1>5 DEF Faithful
  <2> HIDE DEF new
  <2>2. cookies' = cookies \cup {new}
    BY <1>5 DEF new
  <2> QED
    BY <1>2, <1>3, <2>1, <2>2 DEF RightsInv
<1> QED
  BY <1>4, <1>5, CookieStep

\* A session that counts has its account's present rights and password, when no name
\* is created twice, no role key escapes LIKE and no list repeats a row.
THEOREM RightsFollow ==
  ASSUME Reusable = {}, Plain
  PROVE  Spec => []SessionKeepsItsRights
<1>1. Init => IInv /\ Fresh /\ RightsInv
  BY InitInv, InitFresh DEF Init, RightsInv
<1>2. IInv /\ Fresh /\ RightsInv /\ [Next]_vars => (IInv /\ Fresh /\ RightsInv)'
  BY NextInv, NextFresh, NextRights
<1>3. RightsInv => SessionKeepsItsRights
  BY DEF RightsInv, Faithful, SessionKeepsItsRights
<1> QED
  BY <1>1, <1>2, <1>3, PTL DEF Spec

-----------------------------------------------------------------------------
(* Deletion.                                                               *)

LEMMA OnlyDeleteUserDeletes ==
  ASSUME Base, [Next]_vars, DOMAIN view.users \ DOMAIN view'.users # {}
  PROVE  \E actor, u : DeleteUser(actor, u)
<1>1. Moves
  BY StepMoves
<1> QED
  BY <1>1 DEF Moves, Continues, Base

\* Deleting an account leaves an admin where there was one, whoever deletes, and
\* whatever happened since the request was let through.
THEOREM AdminRemains == Spec => DeleteKeepsAnAdmin
<1>1. IInv /\ [Next]_vars
        => [DOMAIN view.users \ DOMAIN view'.users # {} /\ Admins(view) # {}
              => Admins(view') # {}]_vars
  <2> SUFFICES ASSUME IInv, [Next]_vars, DOMAIN view.users \ DOMAIN view'.users # {},
                      Admins(view) # {}
               PROVE  Admins(view') # {}
    OBVIOUS
  <2>1. PICK actor, u : DeleteUser(actor, u)
    BY OnlyDeleteUserDeletes DEF IInv
  <2>2. PICK a \in Admins(view) : a # u
    BY <2>1 DEF DeleteUser
  <2>3. /\ DOMAIN view'.users = DOMAIN view.users \ {u}
        /\ KeepsRights(view, view')
        /\ \A n \in DOMAIN view'.users : view'.users[n] = view.users[n]
    BY <2>1, DeleteMoves DEF IInv
  <2>4. a \in DOMAIN view'.users /\ Effective(view', a) = Effective(view, a)
    BY <2>2, <2>3 DEF Admins, KeepsRights
  <2> QED
    BY <2>2, <2>4 DEF Admins
<1> QED
  BY <1>1, Inductive, PTL DEF Spec, DeleteKeepsAnAdmin
=============================================================================
