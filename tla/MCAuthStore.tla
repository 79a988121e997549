---------------------------- MODULE MCAuthStore ----------------------------
(* AuthStore on two accounts, a builtin role and another, two permissions. *)
EXTENDS AuthStore, TLC

CONSTANTS ann, bob, admin, clerk, manage, work, all

Rights == {{manage, work}, {work}}
Lists == {<<>>, <<[on |-> all, effect |-> "allow"], [on |-> manage, effect |-> "deny"]>>}
Repeating == {<<[on |-> work, effect |-> "deny"], [on |-> work, effect |-> "deny"]>>}

\* Where Manage and the other permissions are asked for.
Paths == INSTANCE Permissions

\* A card, its page and its paths hang on one permission, and none of them is public.
ASSUME CardsLeadWhereTheyShow == Paths!ListsAgree
\* No page or API of the gateway is left to the gateway's own resource by mistake.
ASSUME RoutesAreClaimed == Paths!EveryRouteIsClaimed
\* Changing one's own password asks for "edit" on the gateway.
ASSUME PasswordIsUnclaimed == Paths!OwnPasswordFallsToTheGateway

\* No step prefers a password to another.
Secrets == Permutations(Passwords)
=============================================================================
