------------------------ MODULE PasswordResetProofs ------------------------
(***************************************************************************)
(* Proofs about PasswordReset.  The argument has two parts.  First, what a *)
(* step may do to a row of the resets table that is there already: its     *)
(* account, its time and its token stay, and used and cancelled only ever  *)
(* come on (RowsOnlyAge).  Second, the invariant: an account has one open  *)
(* link at most, because record retires the others in the statement before *)
(* the insert, and a handler that still has to burn a link has set a       *)
(* password by it.                                                         *)
(***************************************************************************)
EXTENDS PasswordReset, SequenceTheorems, FiniteSetTheorems, TLAPS

RowAges(old, new) ==
    /\ new.user = old.user
    /\ new.ip = old.ip
    /\ new.asked = old.asked
    /\ new.made = old.made
    /\ new.token = old.token
    /\ old.used => new.used
    /\ old.cancelled => new.cancelled

Ages(table) == /\ Len(rows) <= Len(table)
               /\ \A i \in Ids : RowAges(rows[i], table[i])

StageType == [todo : {"nothing", "mail", "burn", "hand over"}, row : Nat]

\* What the running handler has still to do is about a row that exists.
StageNamesRow == stage # Idle => stage.row \in Ids

\* The handler that is about to burn a link has set a password by it.
BurnFollowsSet == stage.todo = "burn" => sets[stage.row] >= 1

\* AtMostOneLive without the time.
OneOpen == \A i, j \in Ids : Open(i) /\ Open(j) /\ rows[i].user = rows[j].user => i = j

IInv == TypeOK /\ StageNamesRow /\ BurnFollowsSet /\ OneOpen /\ BurntOnlyWhenSet

-----------------------------------------------------------------------------
\* The bounds are numbers.
LEMMA Numbers == /\ TTL \in Nat /\ Hour \in Nat
                 /\ MaxTime \in Nat /\ MaxCrashes \in Nat
  BY LimitsAssumption

\* The conjuncts of the type invariant, one by one.
LEMMA Types ==
    ASSUME TypeOK
    PROVE  /\ now \in 0 .. MaxTime /\ now \in Nat
           /\ rows \in Seq(RowType) /\ Len(rows) \in Nat
           /\ sets \in Seq(Nat) /\ Len(sets) = Len(rows)
           /\ crashes \in 0 .. MaxCrashes /\ crashes \in Nat
           /\ held \subseteq Ids
<1>1. now \in 0 .. MaxTime /\ crashes \in 0 .. MaxCrashes
  BY DEF TypeOK
<1>2. rows \in Seq(RowType) /\ sets \in Seq(Nat) /\ Len(sets) = Len(rows) /\ held \subseteq Ids
  BY DEF TypeOK
<1>3. Len(rows) \in Nat
  BY <1>2, LenProperties
<1> QED BY <1>1, <1>2, <1>3, Numbers

-----------------------------------------------------------------------------
(* The tables the actions write.                                           *)

\* Retire keeps the table a table, ages its rows, and closes the account's links.
LEMMA RetireShape ==
    ASSUME rows \in Seq(RowType), NEW user
    PROVE  /\ Retire(user) \in Seq(RowType)
           /\ Len(Retire(user)) = Len(rows)
           /\ Ages(Retire(user))
           /\ \A i \in Ids : /\ Retire(user)[i].used = rows[i].used
                             /\ Retire(user)[i].user = user =>
                                  ~(/\ Retire(user)[i].token
                                    /\ ~Retire(user)[i].used
                                    /\ ~Retire(user)[i].cancelled)
<1> DEFINE new == Retire(user)
<1>0. Len(rows) \in Nat /\ \A i \in Ids : rows[i] \in RowType
  BY DEF Ids
<1>1. \A i \in Ids : /\ new[i] \in RowType
                     /\ RowAges(rows[i], new[i])
                     /\ new[i].used = rows[i].used
                     /\ new[i].user = user => ~(new[i].token /\ ~new[i].used /\ ~new[i].cancelled)
  <2> TAKE i \in Ids
  <2>1. CASE rows[i].user = user /\ Open(i)
    <3>1. new[i] = [rows[i] EXCEPT !.cancelled = TRUE]
      BY <2>1 DEF Retire
    <3> QED BY <3>1, <1>0 DEF RowType, RowAges
  <2>2. CASE ~(rows[i].user = user /\ Open(i))
    <3>1. new[i] = rows[i]
      BY <2>2 DEF Retire
    <3> QED BY <3>1, <2>2, <1>0 DEF RowType, RowAges, Open
  <2> QED BY <2>1, <2>2
<1>2. new \in [1 .. Len(rows) -> RowType]
  BY <1>1 DEF Retire, Ids
<1>3. new \in Seq(RowType) /\ Len(new) = Len(rows)
  BY <1>0, <1>2, SeqDef, LenProperties
<1> QED BY <1>0, <1>1, <1>3 DEF Ages

\* PutAway keeps the table a table, ages its rows, and uses none of them up.
LEMMA PutAwayShape ==
    ASSUME rows \in Seq(RowType), NEW user
    PROVE  /\ PutAway(user) \in Seq(RowType)
           /\ Len(PutAway(user)) = Len(rows)
           /\ Ages(PutAway(user))
           /\ \A i \in Ids : PutAway(user)[i].used = rows[i].used
<1> DEFINE new == PutAway(user)
           hit(i) == rows[i].user = user /\ ~rows[i].used /\ ~rows[i].cancelled
<1>0. Len(rows) \in Nat /\ \A i \in Ids : rows[i] \in RowType
  BY DEF Ids
<1>1. \A i \in Ids : /\ new[i] \in RowType
                     /\ RowAges(rows[i], new[i])
                     /\ new[i].used = rows[i].used
  <2> TAKE i \in Ids
  <2>1. CASE hit(i)
    <3>1. new[i] = [rows[i] EXCEPT !.cancelled = TRUE]
      BY <2>1 DEF PutAway
    <3> QED BY <3>1, <1>0 DEF RowType, RowAges
  <2>2. CASE ~hit(i)
    <3>1. new[i] = rows[i]
      BY <2>2 DEF PutAway
    <3> QED BY <3>1, <1>0 DEF RowType, RowAges
  <2> QED BY <2>1, <2>2
<1>2. new \in [1 .. Len(rows) -> RowType]
  BY <1>1 DEF PutAway, Ids
<1>3. new \in Seq(RowType) /\ Len(new) = Len(rows)
  BY <1>0, <1>2, SeqDef, LenProperties
<1> QED BY <1>0, <1>1, <1>3 DEF Ages

\* record: the table grows by a row, and if that row carries a link, it is the
\* only open one of its account.
LEMMA RecordShape ==
    ASSUME rows \in Seq(RowType), sets \in Seq(Nat), Len(sets) = Len(rows),
           NEW row \in RowType, Record(row)
    PROVE  /\ rows' \in Seq(RowType) /\ sets' \in Seq(Nat)
           /\ Len(rows') = Len(rows) + 1 /\ Len(sets') = Len(rows')
           /\ Ages(rows')
           /\ rows'[Len(rows) + 1] = row /\ sets'[Len(rows) + 1] = 0
           /\ \A i \in Ids : /\ sets'[i] = sets[i]
                             /\ rows'[i].used = rows[i].used
                             /\ row.token /\ rows'[i].user = row.user =>
                                  ~(/\ rows'[i].token
                                    /\ ~rows'[i].used
                                    /\ ~rows'[i].cancelled)
<1> DEFINE old == IF row.token THEN Retire(row.user) ELSE rows
<1>1. /\ old \in Seq(RowType) /\ Len(old) = Len(rows) /\ Len(rows) \in Nat
      /\ Ages(old)
      /\ \A i \in Ids : /\ old[i].used = rows[i].used
                        /\ row.token /\ old[i].user = row.user =>
                             ~(old[i].token /\ ~old[i].used /\ ~old[i].cancelled)
  <2>1. CASE row.token
    BY <2>1, RetireShape
  <2>2. CASE ~row.token
    BY <2>2 DEF Ages, RowAges, Ids
  <2> QED BY <2>1, <2>2
<1>2. rows' = Append(old, row) /\ sets' = Append(sets, 0)
  BY DEF Record
<1> HIDE DEF old
<1>3. /\ rows' \in Seq(RowType) /\ Len(rows') = Len(rows) + 1
      /\ rows'[Len(rows) + 1] = row
      /\ \A i \in Ids : rows'[i] = old[i]
  BY <1>1, <1>2, AppendProperties DEF Ids
<1>4. /\ sets' \in Seq(Nat) /\ Len(sets') = Len(rows) + 1
      /\ sets'[Len(rows) + 1] = 0
      /\ \A i \in Ids : sets'[i] = sets[i]
  BY <1>1, <1>2, AppendProperties DEF Ids
<1>5. Ages(rows')
  BY <1>1, <1>3 DEF Ages, Ids
<1> QED BY <1>1, <1>3, <1>4, <1>5

\* cancel.
LEMMA CancelShape ==
    ASSUME rows \in Seq(RowType), NEW i \in Ids, Cancel(i)
    PROVE  /\ rows' \in Seq(RowType) /\ Len(rows') = Len(rows)
           /\ Ages(rows')
           /\ \A k \in Ids : rows'[k].used = rows[k].used
<1>0. Len(rows) \in Nat /\ \A k \in Ids : rows[k] \in RowType
  BY DEF Ids
<1>1. rows' = [rows EXCEPT ![i] = [rows[i] EXCEPT !.cancelled = TRUE]]
  BY DEF Cancel
<1>2. [rows[i] EXCEPT !.cancelled = TRUE] \in RowType
  BY <1>0 DEF RowType
<1>3. rows' \in Seq(RowType) /\ Len(rows') = Len(rows)
  BY <1>1, <1>2, ExceptSeq DEF Ids
<1>4. \A k \in Ids : RowAges(rows[k], rows'[k]) /\ rows'[k].used = rows[k].used
  <2> TAKE k \in Ids
  <2>1. CASE k = i
    <3> DEFINE new == [rows[i] EXCEPT !.cancelled = TRUE]
    <3>1. rows' = [rows EXCEPT ![i] = new] /\ new \in RowType
      BY <1>1, <1>2
    <3>2. rows'[k] = new
      <4> HIDE DEF new
      <4> QED BY <3>1, <2>1, ExceptSeq DEF Ids
    <3>3. RowAges(rows[i], new) /\ new.used = rows[i].used
      BY <1>0 DEF RowType, RowAges
    <3> QED BY <3>2, <3>3, <2>1
  <2>2. CASE k # i
    BY <1>0, <1>1, <2>2, ExceptSeq DEF Ids, RowAges
  <2> QED BY <2>1, <2>2
<1> QED BY <1>0, <1>3, <1>4 DEF Ages

\* The second half of consume.
LEMMA BurnShape ==
    ASSUME rows \in Seq(RowType), Burn
    PROVE  /\ rows' \in Seq(RowType) /\ Len(rows') = Len(rows)
           /\ Ages(rows')
           /\ \A k \in Ids : /\ k # stage.row => rows'[k].used = rows[k].used
                             /\ k = stage.row => rows'[k].used
<1> DEFINE rest == PutAway(rows[stage.row].user)
<1>0. Len(rows) \in Nat /\ \A k \in Ids : rows[k] \in RowType
  BY DEF Ids
<1>1. /\ rest \in Seq(RowType) /\ Len(rest) = Len(rows) /\ Ages(rest)
      /\ \A k \in Ids : rest[k].used = rows[k].used
  BY PutAwayShape
<1>2. rows' = [k \in Ids |-> IF k = stage.row THEN [rows[k] EXCEPT !.used = TRUE] ELSE rest[k]]
  BY DEF Burn
<1> HIDE DEF rest
<1>3. \A k \in Ids : /\ rows'[k] \in RowType
                     /\ RowAges(rows[k], rows'[k])
                     /\ k # stage.row => rows'[k].used = rows[k].used
                     /\ k = stage.row => rows'[k].used
  <2> TAKE k \in Ids
  <2>1. CASE k = stage.row
    <3>1. rows'[k] = [rows[k] EXCEPT !.used = TRUE]
      BY <1>2, <2>1
    <3> QED BY <3>1, <2>1, <1>0 DEF RowType, RowAges
  <2>2. CASE k # stage.row
    <3>1. rows'[k] = rest[k]
      BY <1>2, <2>2
    <3>2. rest[k] \in RowType
      BY <1>0, <1>1 DEF Ids
    <3> QED BY <3>1, <3>2, <2>2, <1>1 DEF Ages
  <2> QED BY <2>1, <2>2
<1>4. rows' \in [1 .. Len(rows) -> RowType]
  BY <1>2, <1>3 DEF Ids
<1>5. rows' \in Seq(RowType) /\ Len(rows') = Len(rows)
  BY <1>0, <1>4, SeqDef, LenProperties
<1> QED BY <1>0, <1>3, <1>5 DEF Ages

-----------------------------------------------------------------------------
(* Every step.                                                             *)

\* What each step leaves alone or does to the tables: the rows of the resets table
\* stay a table, and only age.
LEMMA RowsOnlyAge ==
    ASSUME TypeOK, [Next]_vars
    PROVE  rows' \in Seq(RowType) /\ Ages(rows')
<1>0. rows \in Seq(RowType) /\ sets \in Seq(Nat) /\ Len(sets) = Len(rows)
  BY DEF TypeOK
<1>1. ASSUME UNCHANGED rows PROVE rows' \in Seq(RowType) /\ Ages(rows')
  BY <1>0, <1>1 DEF Ages, RowAges, Ids
<1>2. ASSUME NEW user \in Users \cup {Nobody}, NEW ip \in From, NEW token \in BOOLEAN,
             NEW asked \in BOOLEAN, Record(Row(user, ip, token, asked))
      PROVE  rows' \in Seq(RowType) /\ Ages(rows')
  <2>1. Row(user, ip, token, asked) \in RowType
    BY <1>2 DEF Row, RowType, TypeOK
  <2> QED BY <1>0, <1>2, <2>1, RecordShape
<1>3. ASSUME NEW user \in Users \cup {Nobody}, NEW ip \in From,
             ForgotHub(user, ip) \/ ForgotElsewhere(user, ip)
      PROVE  rows' \in Seq(RowType) /\ Ages(rows')
  BY <1>2, <1>3 DEF ForgotHub, ForgotElsewhere
<1>4. ASSUME NEW user \in Users, NEW ip \in From, IssueLink(user, ip)
      PROVE  rows' \in Seq(RowType) /\ Ages(rows')
  BY <1>2, <1>4 DEF IssueLink
<1>5. ASSUME NEW i \in Ids, Cancel(i) PROVE rows' \in Seq(RowType) /\ Ages(rows')
  BY <1>0, <1>5, CancelShape
<1>6. ASSUME Burn PROVE rows' \in Seq(RowType) /\ Ages(rows')
  BY <1>0, <1>6, BurnShape
<1>7. ASSUME \/ \E user \in Users : AccountChanges(user)
             \/ \E i \in Ids : SetPassword(i)
             \/ Deliver \/ HandOver \/ Tick \/ Crash
             \/ UNCHANGED vars
      PROVE  rows' \in Seq(RowType) /\ Ages(rows')
  BY <1>1, <1>7 DEF AccountChanges, SetPassword, Deliver, HandOver, Tick, Crash, vars
<1> QED BY <1>3, <1>4, <1>5, <1>6, <1>7 DEF Next

\* A link that does not work stays so: its time and its token stay, used and
\* cancelled only come on, and the clock only advances.
THEOREM DeadLinks == TypeOK /\ [Next]_vars => (\A i \in Ids : ~Live(i) => ~Live(i)')
<1> SUFFICES ASSUME TypeOK, [Next]_vars, NEW i \in Ids, ~Live(i)
             PROVE  ~Live(i)'
  OBVIOUS
<1>1. /\ now \in Nat /\ now' \in Nat /\ now <= now'
  <2>1. now \in Nat
    BY Types
  <2>2. now' = now \/ now' = now + 1
    BY DEF Next, vars, ForgotHub, ForgotElsewhere, Deliver, SetPassword, Burn, IssueLink,
       HandOver, Cancel, AccountChanges, Tick, Crash
  <2> QED BY <2>1, <2>2
<1>2. rows[i] \in RowType
  <2>1. rows \in Seq(RowType)
    BY DEF TypeOK
  <2> QED BY <2>1 DEF Ids
<1>3. RowAges(rows[i], rows'[i])
  BY RowsOnlyAge DEF Ages
<1>4. rows[i].made + TTL \in Nat
  BY <1>2, LimitsAssumption DEF RowType
<1> QED BY <1>1, <1>3, <1>4 DEF Live, Open, RowAges

-----------------------------------------------------------------------------
(* The invariant.                                                          *)

\* Where no row is added, the open links can only become fewer.
LEMMA NoNewLink ==
    ASSUME TypeOK, OneOpen, [Next]_vars, Len(rows') = Len(rows)
    PROVE  OneOpen'
<1>1. Ages(rows')
  BY RowsOnlyAge
<1>2. SUFFICES ASSUME NEW i \in Ids, NEW j \in Ids,
                      Open(i)', Open(j)', rows'[i].user = rows'[j].user
               PROVE  i = j
  BY DEF OneOpen, Ids
<1>3. RowAges(rows[i], rows'[i]) /\ RowAges(rows[j], rows'[j])
  BY <1>1 DEF Ages
<1>4. Open(i) /\ Open(j) /\ rows[i].user = rows[j].user
  BY <1>2, <1>3 DEF Open, RowAges
<1> QED BY <1>4 DEF OneOpen

\* Where one is, it is the only open one of its account.
LEMMA NewLinkAlone ==
    ASSUME TypeOK, OneOpen, BurntOnlyWhenSet, [Next]_vars,
           NEW user \in Users \cup {Nobody}, NEW ip \in From,
           NEW token \in BOOLEAN, NEW asked \in BOOLEAN,
           Record(Row(user, ip, token, asked))
    PROVE  /\ OneOpen' /\ BurntOnlyWhenSet'
           /\ Len(rows) \in Nat /\ Len(rows') = Len(rows) + 1
           /\ sets' \in Seq(Nat) /\ Len(sets') = Len(rows')
           /\ \A i \in Ids : sets'[i] = sets[i]
<1> DEFINE row == Row(user, ip, token, asked)
           n == Len(rows) + 1
<1>1. row \in RowType /\ row.token = token /\ row.user = user /\ ~row.used
  BY DEF Row, RowType, TypeOK
<1> HIDE DEF row
<1>2. rows \in Seq(RowType) /\ sets \in Seq(Nat) /\ Len(sets) = Len(rows) /\ Len(rows) \in Nat
  BY Types
<1>3. Record(row)
  BY DEF row
<1>4. /\ sets' \in Seq(Nat) /\ Len(rows') = Len(rows) + 1 /\ Len(sets') = Len(rows')
      /\ rows'[n] = row /\ Ages(rows')
      /\ \A i \in Ids : /\ sets'[i] = sets[i]
                        /\ rows'[i].used = rows[i].used
                        /\ row.token /\ rows'[i].user = row.user =>
                             ~(rows'[i].token /\ ~rows'[i].used /\ ~rows'[i].cancelled)
  BY <1>1, <1>2, <1>3, RecordShape
<1>5. Ids' = Ids \cup {n}
  BY <1>2, <1>4 DEF Ids
<1>6. \A i \in Ids : Open(i)' => Open(i) /\ rows'[i].user = rows[i].user
  BY <1>4 DEF Ages, RowAges, Open
<1> DEFINE OpenNext(k) == rows'[k].token /\ ~rows'[k].used /\ ~rows'[k].cancelled
<1>7. OpenNext(n) => \A i \in Ids : ~(OpenNext(i) /\ rows'[i].user = rows'[n].user)
  BY <1>4
<1>8. OneOpen'
  <2> SUFFICES ASSUME NEW i \in Ids', NEW j \in Ids',
                      OpenNext(i), OpenNext(j), rows'[i].user = rows'[j].user
               PROVE  i = j
    BY DEF OneOpen, Open
  <2>1. CASE i \in Ids /\ j \in Ids
    BY <2>1, <1>6 DEF OneOpen, Open
  <2>2. CASE i = n \/ j = n
    BY <2>2, <1>5, <1>7
  <2> QED BY <2>1, <2>2, <1>5
<1>9. BurntOnlyWhenSet'
  BY <1>1, <1>4, <1>5 DEF BurntOnlyWhenSet
<1> QED BY <1>2, <1>4, <1>8, <1>9

\* Every step keeps the invariant.
LEMMA StepKeeps == IInv /\ [Next]_vars => IInv'
<1> SUFFICES ASSUME IInv, [Next]_vars PROVE IInv'
  OBVIOUS
<1>0. /\ TypeOK /\ StageNamesRow /\ BurnFollowsSet /\ OneOpen /\ BurntOnlyWhenSet
      /\ rows \in Seq(RowType) /\ sets \in Seq(Nat) /\ Len(sets) = Len(rows) /\ Len(rows) \in Nat
      /\ rows' \in Seq(RowType) /\ Ages(rows')
      /\ now \in 0 .. MaxTime /\ crashes \in 0 .. MaxCrashes /\ held \subseteq Ids
      /\ account \in [Users -> {"active", "disabled", "absent"}] /\ stage \in StageType
  BY RowsOnlyAge, Types DEF IInv, TypeOK, StageType
<1>i. Idle.todo = "nothing" /\ Idle \in StageType
  BY DEF Idle, StageType
<1>t. ASSUME now' \in 0 .. MaxTime, account' \in [Users -> {"active", "disabled", "absent"}],
             held' \subseteq Ids', stage' \in StageType, sets' \in Seq(Nat),
             Len(sets') = Len(rows'), crashes' \in 0 .. MaxCrashes
      PROVE  TypeOK'
  BY <1>0, <1>t DEF TypeOK, StageType
<1>1. ASSUME NEW user \in Users \cup {Nobody}, NEW ip \in From, ForgotHub(user, ip)
      PROVE  IInv'
  <2>1. Record(Row(user, ip, TRUE, TRUE))
    BY <1>1 DEF ForgotHub
  <2>2. /\ OneOpen' /\ BurntOnlyWhenSet' /\ Len(rows') = Len(rows) + 1
        /\ sets' \in Seq(Nat) /\ Len(sets') = Len(rows')
    BY <2>1, <1>0, NewLinkAlone
  <2>3. /\ stage' = [todo |-> "mail", row |-> Len(rows) + 1]
        /\ UNCHANGED <<now, account, held, crashes>>
    BY <1>1 DEF ForgotHub
  <2>4. stage' \in StageType /\ stage'.todo # "burn" /\ stage'.row \in Ids'
    <3>1. Len(rows) + 1 \in Nat /\ Len(rows) + 1 \in 1 .. Len(rows')
      BY <2>2, <1>0
    <3> QED BY <3>1, <2>3 DEF StageType, Ids
  <2>5. held' \subseteq Ids'
    <3>1. Ids \subseteq Ids'
      BY <2>2, <1>0 DEF Ids
    <3> QED BY <3>1, <2>3, <1>0
  <2>6. TypeOK'
    BY <2>2, <2>3, <2>4, <2>5, <1>0, <1>t
  <2>7. StageNamesRow' /\ BurnFollowsSet'
    BY <2>4 DEF StageNamesRow, BurnFollowsSet
  <2> QED BY <2>2, <2>6, <2>7 DEF IInv
<1>2. ASSUME NEW user \in Users \cup {Nobody}, NEW ip \in From, ForgotElsewhere(user, ip)
      PROVE  IInv'
  <2>1. Record(Row(user, ip, FALSE, TRUE))
    BY <1>2 DEF ForgotElsewhere
  <2>2. /\ OneOpen' /\ BurntOnlyWhenSet' /\ Len(rows') = Len(rows) + 1
        /\ sets' \in Seq(Nat) /\ Len(sets') = Len(rows')
    BY <2>1, <1>0, NewLinkAlone
  <2>3. stage = Idle /\ UNCHANGED <<now, account, held, stage, crashes>>
    BY <1>2 DEF ForgotElsewhere
  <2>4. held' \subseteq Ids'
    BY <2>2, <2>3, <1>0 DEF Ids
  <2>5. TypeOK'
    BY <2>2, <2>3, <2>4, <1>0, <1>t
  <2>6. StageNamesRow' /\ BurnFollowsSet'
    BY <2>3, <1>i DEF StageNamesRow, BurnFollowsSet
  <2> QED BY <2>2, <2>5, <2>6 DEF IInv
<1>3. ASSUME NEW user \in Users, NEW ip \in From, IssueLink(user, ip)
      PROVE  IInv'
  <2>1. Record(Row(user, ip, TRUE, FALSE))
    BY <1>3 DEF IssueLink
  <2>2. /\ OneOpen' /\ BurntOnlyWhenSet' /\ Len(rows') = Len(rows) + 1
        /\ sets' \in Seq(Nat) /\ Len(sets') = Len(rows')
    BY <2>1, <1>0, NewLinkAlone
  <2>3. /\ stage' = [todo |-> "hand over", row |-> Len(rows) + 1]
        /\ UNCHANGED <<now, account, held, crashes>>
    BY <1>3 DEF IssueLink
  <2>4. stage' \in StageType /\ stage'.todo # "burn" /\ stage'.row \in Ids'
    <3>1. Len(rows) + 1 \in Nat /\ Len(rows) + 1 \in 1 .. Len(rows')
      BY <2>2, <1>0
    <3> QED BY <3>1, <2>3 DEF StageType, Ids
  <2>5. held' \subseteq Ids'
    <3>1. Ids \subseteq Ids'
      BY <2>2, <1>0 DEF Ids
    <3> QED BY <3>1, <2>3, <1>0
  <2>6. TypeOK'
    BY <2>2, <2>3, <2>4, <2>5, <1>0, <1>t
  <2>7. StageNamesRow' /\ BurnFollowsSet'
    BY <2>4 DEF StageNamesRow, BurnFollowsSet
  <2> QED BY <2>2, <2>6, <2>7 DEF IInv
<1>4. ASSUME Deliver \/ HandOver \/ Crash PROVE IInv'
  <2>1. /\ UNCHANGED <<now, account, rows, sets>> /\ stage' = Idle
        /\ crashes' = crashes \/ (crashes < MaxCrashes /\ crashes' = crashes + 1)
    BY <1>4 DEF Deliver, HandOver, Crash
  <2>2. held' \in {held, held \cup {stage.row}} /\ stage # Idle
    BY <1>4, <1>i DEF Deliver, HandOver, Crash
  <2>3. held' \subseteq Ids'
    BY <2>1, <2>2, <1>0 DEF StageNamesRow, Ids
  <2>4. TypeOK'
    <3>1. crashes' \in 0 .. MaxCrashes
      BY <2>1, <1>0, Numbers
    <3> QED BY <3>1, <2>1, <2>3, <1>0, <1>i, <1>t
  <2>5. StageNamesRow' /\ BurnFollowsSet'
    BY <2>1, <1>i DEF StageNamesRow, BurnFollowsSet
  <2>6. OneOpen' /\ BurntOnlyWhenSet'
    BY <2>1, <1>0, NoNewLink DEF BurntOnlyWhenSet, Ids
  <2> QED BY <2>4, <2>5, <2>6 DEF IInv
<1>5. ASSUME NEW i \in Ids, SetPassword(i) PROVE IInv'
  <2>1. /\ UNCHANGED <<now, account, rows, held, crashes>>
        /\ stage' = [todo |-> "burn", row |-> i]
        /\ sets' = [sets EXCEPT ![i] = sets[i] + 1]
    BY <1>5 DEF SetPassword
  <2>2. i \in 1 .. Len(sets) /\ sets[i] + 1 \in Nat
    BY <1>0 DEF Ids
  <2>3. /\ sets' \in Seq(Nat) /\ Len(sets') = Len(rows')
        /\ \A k \in Ids : sets'[k] = IF k = i THEN sets[i] + 1 ELSE sets[k]
    BY <2>1, <2>2, <1>0, ExceptSeq DEF Ids
  <2>4. TypeOK'
    <3>1. i \in Nat
      BY <1>0 DEF Ids
    <3>2. stage' \in StageType
      BY <3>1, <2>1 DEF StageType
    <3>3. held' \subseteq Ids'
      BY <2>1, <1>0 DEF Ids
    <3> QED BY <3>2, <3>3, <2>1, <2>3, <1>0, <1>t
  <2>5. StageNamesRow' /\ BurnFollowsSet'
    BY <2>1, <2>2, <2>3, <1>0 DEF StageNamesRow, BurnFollowsSet, Ids
  <2>6. BurntOnlyWhenSet'
    BY <2>1, <2>2, <2>3, <1>0 DEF BurntOnlyWhenSet, Ids
  <2>7. OneOpen'
    BY <2>1, <1>0, NoNewLink
  <2> QED BY <2>4, <2>5, <2>6, <2>7 DEF IInv
<1>6. ASSUME Burn PROVE IInv'
  <2>1. UNCHANGED <<now, account, held, sets, crashes>> /\ stage' = Idle /\ stage.todo = "burn"
    BY <1>6 DEF Burn
  <2>2. /\ Len(rows') = Len(rows)
        /\ \A k \in Ids : k # stage.row => rows'[k].used = rows[k].used
    BY <1>0, <1>6, BurnShape
  <2>3. TypeOK'
    BY <2>1, <2>2, <1>0, <1>i, <1>t DEF Ids
  <2>4. StageNamesRow' /\ BurnFollowsSet'
    BY <2>1, <1>i DEF StageNamesRow, BurnFollowsSet
  <2>5. BurntOnlyWhenSet'
    BY <2>1, <2>2, <1>0 DEF BurntOnlyWhenSet, BurnFollowsSet, Ids
  <2>6. OneOpen'
    BY <2>2, <1>0, NoNewLink
  <2> QED BY <2>3, <2>4, <2>5, <2>6 DEF IInv
<1>7. ASSUME NEW i \in Ids, Cancel(i) PROVE IInv'
  <2>1. UNCHANGED <<now, account, held, stage, sets, crashes>> /\ stage = Idle
    BY <1>7 DEF Cancel
  <2>2. Len(rows') = Len(rows) /\ \A k \in Ids : rows'[k].used = rows[k].used
    BY <1>0, <1>7, CancelShape
  <2>3. TypeOK'
    BY <2>1, <2>2, <1>0, <1>t DEF Ids
  <2>4. StageNamesRow' /\ BurnFollowsSet'
    BY <2>1, <1>i DEF StageNamesRow, BurnFollowsSet
  <2>5. BurntOnlyWhenSet'
    BY <2>1, <2>2, <1>0 DEF BurntOnlyWhenSet, Ids
  <2>6. OneOpen'
    BY <2>2, <1>0, NoNewLink
  <2> QED BY <2>3, <2>4, <2>5, <2>6 DEF IInv
<1>8. ASSUME (\E user \in Users : AccountChanges(user)) \/ Tick \/ UNCHANGED vars PROVE IInv'
  <2>1. UNCHANGED <<rows, held, stage, sets, crashes>>
    BY <1>8 DEF AccountChanges, Tick, vars
  <2>2. now' \in 0 .. MaxTime
    <3>1. now' = now \/ (now < MaxTime /\ now' = now + 1)
      BY <1>8 DEF AccountChanges, Tick, vars
    <3> QED BY <3>1, <1>0, Numbers
  <2>3. account' \in [Users -> {"active", "disabled", "absent"}]
    BY <1>8, <1>0 DEF AccountChanges, Tick, vars
  <2>4. TypeOK'
    BY <2>1, <2>2, <2>3, <1>0, <1>t DEF Ids
  <2>5. StageNamesRow' /\ BurnFollowsSet' /\ OneOpen' /\ BurntOnlyWhenSet'
    BY <2>1, <1>0, NoNewLink DEF StageNamesRow, BurnFollowsSet, BurntOnlyWhenSet, Ids
  <2> QED BY <2>4, <2>5 DEF IInv
<1> QED BY <1>1, <1>2, <1>3, <1>4, <1>5, <1>6, <1>7, <1>8 DEF Next

\* The inductive invariant of the specification.
THEOREM Inductive == Spec => []IInv
<1>1. Init => IInv
  BY LimitsAssumption DEF Init, IInv, TypeOK, StageNamesRow, BurnFollowsSet, OneOpen,
     BurntOnlyWhenSet, Ids, Idle
<1> QED BY <1>1, StepKeeps, PTL DEF Spec

\* Type correctness, for every set of accounts and addresses and every limit.
THEOREM TypeCorrect == Spec => []TypeOK
<1>1. IInv => TypeOK
  BY DEF IInv
<1> QED BY <1>1, Inductive, PTL

\* "Two live links for one account means an old mail still works" (reset.py:223):
\* it never happens, wherever a handler is cut short.
THEOREM OneLiveLink == Spec => []AtMostOneLive
<1>1. IInv => AtMostOneLive
  BY DEF IInv, OneOpen, AtMostOneLive, Live
<1> QED BY <1>1, Inductive, PTL

\* A link is used up only by a password it set.
THEOREM BurntOnlyBySetting == Spec => []BurntOnlyWhenSet
<1>1. IInv => BurntOnlyWhenSet
  BY DEF IInv
<1> QED BY <1>1, Inductive, PTL

\* A link that stopped working never works again.
THEOREM DeadForGood == Spec => DeadStaysDead
<1>1. TypeOK /\ [Next]_vars => [\A i \in Ids : ~Live(i) => ~Live(i)']_vars
  BY DeadLinks
<1> QED BY <1>1, TypeCorrect, PTL DEF Spec, DeadStaysDead

-----------------------------------------------------------------------------
(* Single use, but for the handlers that were cut short.                   *)

\* The link is used up, or the running handler is about to.
Spent(i) == rows[i].used \/ (stage.todo = "burn" /\ stage.row = i)

Once == \A i \in Ids : sets[i] <= 1 + crashes /\ (~Spent(i) => sets[i] <= crashes)

\* A password more than there were crashes needs a link that is spent, and a spent
\* one that is not used becomes free again only by a crash.
LEMMA StepKeepsOnce ==
    ASSUME IInv, Once, [Next]_vars
    PROVE  Once'
<1>0. /\ rows \in Seq(RowType) /\ sets \in Seq(Nat) /\ Len(sets) = Len(rows) /\ Len(rows) \in Nat
      /\ TypeOK /\ OneOpen /\ BurntOnlyWhenSet /\ Ages(rows')
      /\ crashes \in Nat /\ \A i \in Ids : sets[i] \in Nat
  <2>1. /\ rows \in Seq(RowType) /\ sets \in Seq(Nat) /\ Len(sets) = Len(rows)
        /\ Len(rows) \in Nat /\ crashes \in Nat
    BY Types DEF IInv
  <2> QED BY <2>1, RowsOnlyAge DEF IInv, Ids
<1>i. Idle.todo = "nothing"
  BY DEF Idle
<1>1. ASSUME NEW user \in Users \cup {Nobody}, NEW ip \in From,
             NEW token \in BOOLEAN, NEW asked \in BOOLEAN,
             Record(Row(user, ip, token, asked)), stage = Idle, UNCHANGED crashes
      PROVE  Once'
  <2>1. Row(user, ip, token, asked) \in RowType
    BY <1>0 DEF Row, RowType, TypeOK
  <2>2. /\ Len(rows') = Len(rows) + 1
        /\ sets'[Len(rows) + 1] = 0
        /\ \A i \in Ids : sets'[i] = sets[i] /\ rows'[i].used = rows[i].used
    BY <1>0, <1>1, <2>1, RecordShape
  <2>3. Ids' = Ids \cup {Len(rows) + 1}
    BY <1>0, <2>2 DEF Ids
  <2>4. \A i \in Ids : sets'[i] <= 1 + crashes' /\ (~rows'[i].used => sets'[i] <= crashes')
    BY <1>1, <1>i, <2>2 DEF Once, Spent
  <2>5. 0 <= 1 + crashes' /\ 0 <= crashes'
    BY <1>0, <1>1
  <2> QED BY <2>2, <2>3, <2>4, <2>5 DEF Once, Spent
<1>2. ASSUME NEW user \in Users \cup {Nobody}, NEW ip \in From,
             ForgotHub(user, ip) \/ ForgotElsewhere(user, ip)
      PROVE  Once'
  BY <1>1, <1>2 DEF ForgotHub, ForgotElsewhere
<1>3. ASSUME NEW user \in Users, NEW ip \in From, IssueLink(user, ip) PROVE Once'
  BY <1>1, <1>3 DEF IssueLink
<1>4. ASSUME NEW i \in Ids, SetPassword(i) PROVE Once'
  <2>1. /\ stage = Idle /\ UNCHANGED <<rows, crashes>> /\ ~rows[i].used
        /\ stage' = [todo |-> "burn", row |-> i]
        /\ sets' = [sets EXCEPT ![i] = sets[i] + 1]
    BY <1>4 DEF SetPassword, Live, Open
  <2>2. \A k \in Ids : sets'[k] = IF k = i THEN sets[i] + 1 ELSE sets[k]
    BY <2>1, <1>0, ExceptSeq DEF Ids
  <2>3. \A k \in Ids : ~rows[k].used => sets[k] <= crashes
    BY <2>1, <1>i DEF Once, Spent
  <2>4. Spent(i)'
    BY <2>1 DEF Spent
  <2>5. sets'[i] <= 1 + crashes'
    BY <2>1, <2>2, <2>3, <1>0
  <2>6. ASSUME NEW k \in Ids, k # i
        PROVE  sets'[k] <= 1 + crashes' /\ (~Spent(k)' => sets'[k] <= crashes')
    BY <2>1, <2>2, <2>3, <2>6 DEF Once, Spent
  <2> QED BY <2>1, <2>4, <2>5, <2>6 DEF Once, Ids
<1>5. ASSUME Burn PROVE Once'
  <2>1. /\ UNCHANGED <<sets, crashes>> /\ Len(rows') = Len(rows) /\ stage' = Idle
        /\ \A k \in Ids : IF k = stage.row THEN rows'[k].used ELSE rows'[k].used = rows[k].used
    BY <1>0, <1>5, BurnShape DEF Burn
  <2>2. Ids' = Ids /\ \A k \in Ids : Spent(k) => Spent(k)'
    BY <2>1 DEF Ids, Spent
  <2> QED BY <2>1, <2>2 DEF Once
<1>6. ASSUME NEW i \in Ids, Cancel(i) PROVE Once'
  <2>1. UNCHANGED <<sets, stage, crashes>> /\ Len(rows') = Len(rows)
        /\ \A k \in Ids : rows'[k].used = rows[k].used
    BY <1>0, <1>6, CancelShape DEF Cancel
  <2> QED BY <2>1 DEF Once, Spent, Ids
<1>7. ASSUME Deliver \/ HandOver PROVE Once'
  <2>1. UNCHANGED <<rows, sets, crashes>> /\ stage.todo # "burn"
    BY <1>7 DEF Deliver, HandOver
  <2> QED BY <2>1 DEF Once, Spent, Ids
<1>8. ASSUME (\E user \in Users : AccountChanges(user)) \/ Tick \/ UNCHANGED vars PROVE Once'
  <2>1. UNCHANGED <<rows, sets, stage, crashes>>
    BY <1>8 DEF AccountChanges, Tick, vars
  <2> QED BY <2>1 DEF Once, Spent, Ids
<1>9. ASSUME Crash PROVE Once'
  <2>1. UNCHANGED <<rows, sets>> /\ crashes' = crashes + 1
    BY <1>9 DEF Crash
  <2>2. \A i \in Ids : sets'[i] <= crashes'
    BY <2>1, <1>0 DEF Once
  <2>3. \A i \in Ids : sets'[i] <= 1 + crashes'
    BY <2>1, <2>2, <1>0
  <2> QED BY <2>1, <2>2, <2>3 DEF Once, Ids
<1> QED BY <1>2, <1>3, <1>4, <1>5, <1>6, <1>7, <1>8, <1>9 DEF Next

\* "Single use" (reset.py:8), up to the crashes that cut a handler short.
THEOREM OneUse == Spec => []SingleUseButForCrashes
<1>1. Init => Once
  BY DEF Init, Once, Ids
<1>2. Once => SingleUseButForCrashes
  BY DEF Once, SingleUseButForCrashes
<1>3. IInv /\ Once /\ [Next]_vars => Once'
  BY StepKeepsOnce
<1> QED BY <1>1, <1>2, <1>3, Inductive, PTL DEF Spec
-----------------------------------------------------------------------------
(* The throttle.  It needs no more than the types: a row keeps its account,*)
(* its address, its time and who asked for it, so an hour that held still  *)
(* does; and the hour of a row just added is what Throttled counted, and   *)
(* that row.                                                               *)

\* The requests of people in the hour before row i, from those that `whose` picks.
HourOf(i, whose) ==
    {j \in {k \in 1 .. i : rows[k].asked /\ rows[k].made + Hour > rows[i].made} : j \in whose}

OfUser(user) == {i \in Ids : rows[i].user = user}
FromIp(ip) == {i \in Ids : rows[i].ip = ip}

\* What ThrottleHolds says of one row.
HourHolds(i) ==
    rows[i].asked =>
      /\ rows[i].user # Nobody =>
           Cardinality(HourOf(i, OfUser(rows[i].user))) <= MaxPerAccountHour
      /\ rows[i].ip # NoAddress =>
           Cardinality(HourOf(i, FromIp(rows[i].ip))) <= MaxPerIpHour

\* ThrottleHolds, row by row.
LEMMA RowByRow == TypeOK => (ThrottleHolds <=> \A i \in Ids : HourHolds(i))
<1> SUFFICES ASSUME TypeOK PROVE ThrottleHolds <=> \A i \in Ids : HourHolds(i)
  OBVIOUS
<1>1. ASSUME NEW i \in Ids
      PROVE  LET hour == {j \in 1 .. i : rows[j].asked /\ rows[j].made + Hour > rows[i].made}
             IN  /\ {j \in hour : rows[j].user = rows[i].user} = HourOf(i, OfUser(rows[i].user))
                 /\ {j \in hour : rows[j].ip = rows[i].ip} = HourOf(i, FromIp(rows[i].ip))
  <2>1. 1 .. i \subseteq Ids
    BY <1>1, Types DEF Ids
  <2> QED BY <2>1 DEF HourOf, OfUser, FromIp
<1> QED BY <1>1 DEF ThrottleHolds, HourHolds

\* A count below the limit is at the limit at most when one row is added to it.
LEMMA OneMore ==
    ASSUME NEW Before \in SUBSET Ids, NEW After, NEW n, NEW limit \in Nat,
           After \subseteq Before \cup {n}, ~(Cardinality(Before) >= limit), Len(rows) \in Nat
    PROVE  Cardinality(After) <= limit
<1>1. IsFiniteSet(Ids)
  BY FS_Interval DEF Ids
<1>2. IsFiniteSet(Before) /\ Cardinality(Before) \in Nat
  BY <1>1, FS_Subset, FS_CardinalityType
<1>3. IsFiniteSet(Before \cup {n}) /\ Cardinality(Before \cup {n}) <= Cardinality(Before) + 1
  <2>1. /\ IsFiniteSet(Before \cup {n})
        /\ Cardinality(Before \cup {n}) =
             IF n \in Before THEN Cardinality(Before) ELSE Cardinality(Before) + 1
    BY <1>2, FS_AddElement, Zenon
  <2> QED BY <1>2, <2>1
<1>4. Cardinality(Before \cup {n}) \in Nat
  BY <1>3, FS_CardinalityType
<1>5. IsFiniteSet(After) /\ Cardinality(After) <= Cardinality(Before \cup {n})
  BY <1>3, FS_Subset
<1>6. Cardinality(After) \in Nat
  BY <1>5, FS_CardinalityType
<1> QED BY <1>2, <1>3, <1>4, <1>5, <1>6

\* A row that is there keeps its hour.
LEMMA HoursStay ==
    ASSUME TypeOK, [Next]_vars, NEW i \in Ids, HourHolds(i)
    PROVE  HourHolds(i)'
<1>1. Ages(rows') /\ Len(rows) \in Nat /\ rows' \in Seq(RowType)
  BY RowsOnlyAge, Types
<1>2. Len(rows') \in Nat /\ Len(rows) <= Len(rows')
  BY <1>1, LenProperties DEF Ages
<1>3. i \in Nat /\ 1 .. i \subseteq Ids /\ Ids \subseteq Ids'
  BY <1>1, <1>2 DEF Ids
<1>4. \A k \in Ids : /\ rows'[k].user = rows[k].user
                     /\ rows'[k].ip = rows[k].ip
                     /\ rows'[k].asked = rows[k].asked
                     /\ rows'[k].made = rows[k].made
  BY <1>1 DEF Ages, RowAges
<1>5. /\ HourOf(i, OfUser(rows[i].user))' = HourOf(i, OfUser(rows[i].user))
      /\ HourOf(i, FromIp(rows[i].ip))' = HourOf(i, FromIp(rows[i].ip))
  BY <1>3, <1>4 DEF HourOf, OfUser, FromIp
<1> QED BY <1>4, <1>5 DEF HourHolds

\* A request that gets through leaves its account and its address within the limits.
LEMMA LetThrough ==
    ASSUME TypeOK, NEW user \in Users \cup {Nobody}, NEW ip \in From, NEW token \in BOOLEAN,
           ~Throttled(user, ip), Record(Row(user, ip, token, TRUE)), Ages(rows'),
           NEW n, n = Len(rows) + 1
    PROVE  HourHolds(n)'
<1> DEFINE row == Row(user, ip, token, TRUE)
           RecentOf(S) == {i \in S : rows[i].made + Hour > now}
<1>1. row \in RowType /\ row.user = user /\ row.ip = ip /\ row.made = now
  BY DEF Row, RowType, TypeOK
<1>2. rows \in Seq(RowType) /\ sets \in Seq(Nat) /\ Len(sets) = Len(rows) /\ Len(rows) \in Nat
  BY Types
<1>3. Record(row)
  OBVIOUS
<1> HIDE DEF row
<1>4. Len(rows') = n /\ rows'[n] = row
  BY <1>1, <1>2, <1>3, RecordShape
<1>5. 1 .. n = Ids \cup {n} /\ Ids' = 1 .. n
  BY <1>2, <1>4 DEF Ids
<1>6. \A k \in Ids : /\ rows'[k].user = rows[k].user
                     /\ rows'[k].ip = rows[k].ip
                     /\ rows'[k].made = rows[k].made
  BY DEF Ages, RowAges
<1>7. MaxPerAccountHour \in Nat /\ MaxPerIpHour \in Nat
  BY LimitsAssumption
<1>8. /\ user # Nobody => ~(Cardinality(RecentOf(OfUser(user))) >= MaxPerAccountHour)
      /\ ip # NoAddress => ~(Cardinality(RecentOf(FromIp(ip))) >= MaxPerIpHour)
  BY DEF Throttled, Recent, OfUser, FromIp
<1>9. /\ HourOf(n, OfUser(user))' \subseteq RecentOf(OfUser(user)) \cup {n}
      /\ HourOf(n, FromIp(ip))' \subseteq RecentOf(FromIp(ip)) \cup {n}
  BY <1>1, <1>4, <1>5, <1>6 DEF HourOf, OfUser, FromIp
<1>10. RecentOf(OfUser(user)) \subseteq Ids /\ RecentOf(FromIp(ip)) \subseteq Ids
  BY DEF OfUser, FromIp
<1> HIDE DEF RecentOf
<1>11. /\ user # Nobody => Cardinality(HourOf(n, OfUser(user))') <= MaxPerAccountHour
       /\ ip # NoAddress => Cardinality(HourOf(n, FromIp(ip))') <= MaxPerIpHour
  BY <1>2, <1>7, <1>8, <1>9, <1>10, OneMore
<1>12. rows'[n].user = user /\ rows'[n].ip = ip
  BY <1>1, <1>4
<1> QED BY <1>11, <1>12 DEF HourHolds, HourOf, OfUser, FromIp

\* Every step keeps the throttle: a link an admin issues is nobody's request.
LEMMA StepKeepsThrottle == TypeOK /\ TypeOK' /\ ThrottleHolds /\ [Next]_vars => ThrottleHolds'
<1> SUFFICES ASSUME TypeOK, TypeOK', ThrottleHolds, [Next]_vars PROVE ThrottleHolds'
  OBVIOUS
<1>1. \A i \in Ids : HourHolds(i)'
  BY RowByRow, HoursStay
<1>2. Len(rows) \in Nat /\ rows \in Seq(RowType) /\ sets \in Seq(Nat) /\ Len(sets) = Len(rows)
  BY Types
<1>3. Ages(rows')
  BY RowsOnlyAge
<1> DEFINE Kept == \A i \in Ids' : HourHolds(i)'
<1>4. ASSUME Len(rows') = Len(rows) PROVE Kept
  BY <1>1, <1>4 DEF Ids
<1>5. ASSUME NEW user \in Users \cup {Nobody}, NEW ip \in From, NEW token \in BOOLEAN,
             NEW asked \in BOOLEAN, Record(Row(user, ip, token, asked)),
             NEW n, n = Len(rows) + 1, HourHolds(n)'
      PROVE  Kept
  <2>1. Row(user, ip, token, asked) \in RowType
    BY DEF Row, RowType, TypeOK
  <2>2. Len(rows') = Len(rows) + 1
    BY <1>2, <1>5, <2>1, RecordShape
  <2>3. Ids' = Ids \cup {n}
    BY <1>2, <1>5, <2>2 DEF Ids
  <2> QED BY <1>1, <1>5, <2>3
<1>6. ASSUME NEW user \in Users \cup {Nobody}, NEW ip \in From,
             ForgotHub(user, ip) \/ ForgotElsewhere(user, ip)
      PROVE  Kept
  <2>1. PICK token \in BOOLEAN : ~Throttled(user, ip) /\ Record(Row(user, ip, token, TRUE))
    BY <1>6 DEF ForgotHub, ForgotElsewhere
  <2>2. PICK n : n = Len(rows) + 1
    OBVIOUS
  <2>3. HourHolds(n)'
    BY <2>1, <2>2, <1>3, LetThrough
  <2> QED BY <2>1, <2>2, <2>3, <1>5
<1>7. ASSUME NEW user \in Users, NEW ip \in From, IssueLink(user, ip) PROVE Kept
  <2> DEFINE row == Row(user, ip, TRUE, FALSE)
  <2>1. Record(row)
    BY <1>7 DEF IssueLink
  <2>2. row \in RowType /\ ~row.asked
    BY DEF Row, RowType, TypeOK
  <2> HIDE DEF row
  <2>3. PICK n : n = Len(rows) + 1
    OBVIOUS
  <2>4. rows'[n] = row
    BY <2>1, <2>2, <2>3, <1>2, RecordShape
  <2>5. HourHolds(n)'
    BY <2>2, <2>4 DEF HourHolds
  <2>6. Record(Row(user, ip, TRUE, FALSE))
    BY <1>7 DEF IssueLink
  <2> QED BY <2>3, <2>5, <2>6, <1>5
<1>8. ASSUME NEW i \in Ids, Cancel(i) PROVE Kept
  BY <1>2, <1>4, <1>8, CancelShape
<1>9. ASSUME Burn PROVE Kept
  BY <1>2, <1>4, <1>9, BurnShape
<1>10. ASSUME \/ \E user \in Users : AccountChanges(user)
              \/ \E i \in Ids : SetPassword(i)
              \/ Deliver \/ HandOver \/ Tick \/ Crash
              \/ UNCHANGED vars
       PROVE  Kept
  BY <1>4, <1>10 DEF AccountChanges, SetPassword, Deliver, HandOver, Tick, Crash, vars
<1>11. Kept
  BY <1>6, <1>7, <1>8, <1>9, <1>10 DEF Next
<1>12. RowByRow'
  BY RowByRow, PTL
<1> QED BY <1>11, <1>12

\* In no hour do more requests get through, for an account or from an address, than
\* `throttled` allows; those without an address count against their account alone.
THEOREM ThrottleStands == Spec => []ThrottleHolds
<1>1. Init => ThrottleHolds
  BY DEF Init, ThrottleHolds, Ids
<1>2. IInv => TypeOK
  BY DEF IInv
<1> QED BY <1>1, <1>2, StepKeepsThrottle, Inductive, PTL DEF Spec
=============================================================================
