-------------------------- MODULE MCPasswordReset --------------------------
(* PasswordReset on two accounts.                                          *)
EXTENDS PasswordReset, TLC

Interchangeable == Permutations(Users) \cup Permutations(Addresses)

\* Bound: those who ask all have an address, or none of them has one; the admins,
\* whose links the throttle counts too, have one.
OneOrigin ==
    /\ \A i, j \in Ids : rows[i].asked /\ rows[j].asked => rows[i].ip = rows[j].ip
    /\ \A i \in Ids : rows[i].asked \/ rows[i].ip # NoAddress
=============================================================================
