--------------------------- MODULE VatMonthProofs ---------------------------
(***************************************************************************)
(* That the credit is carried and that a due return is chased, in any      *)
(* calendar and after any number of saves and sweeps.  The watcher writes  *)
(* no row, so that for the credit its steps need one fact; a person writes *)
(* one row at a time, and every save but one leaves what the month hands   *)
(* on: that lemma serves each kind of save.  For the chase a sweep is      *)
(* followed from its first month to its last: what it has yet to look at,  *)
(* and what it has filed, is the debt it began with.                       *)
(***************************************************************************)
EXTENDS VatMonth, TLAPS

\* The rows are rows.
RowsTyped == rows \in [Months -> Row \cup {None}]

IInv == RowsTyped /\ CreditIsCarried

\* A save begins with the month's row, or with a new one that is given the carried credit.
LEMMA InsertedIsARow ==
  ASSUME RowsTyped, NEW m \in Months
  PROVE  /\ Inserted(m) \in Row
         /\ rows[m] # None => Inserted(m) = rows[m]
         /\ rows[m] = None => Inserted(m).in = Carried(m) /\ Inserted(m).out = None
<1>1. Carried(m) \in Credits
  <2>1. CASE m > 1 /\ rows[m - 1] # None /\ rows[m - 1].out # None
    <3>1. m - 1 \in Months
      BY <2>1, CalendarAssumption DEF Months
    <3>2. rows[m - 1] \in Row
      BY <2>1, <3>1 DEF RowsTyped
    <3> QED BY <2>1, <3>2 DEF Carried, Row
  <2>2. CASE ~(m > 1 /\ rows[m - 1] # None /\ rows[m - 1].out # None)
    BY <2>2, FiguresAssumption DEF Carried
  <2> QED BY <2>1, <2>2
<1>2. CASE rows[m] # None
  BY <1>2 DEF Inserted, MonthRow, RowsTyped
<1>3. CASE rows[m] = None
  BY <1>1, <1>3 DEF Inserted, MonthRow, Row, States
<1> QED BY <1>2, <1>3

\* A save keeps the credit in order if the month keeps the credit it began with, or is excepted
\* from now on, and hands on what it handed on, or is excepted as revised.
LEMMA SaveKeepsTheCredit ==
  ASSUME IInv, NEW m \in Months, NEW row \in Row, rows' = [rows EXCEPT ![m] = row],
         handmade \subseteq handmade', revised \subseteq revised',
         row.in = Inserted(m).in \/ m \in handmade',
         row.out = Inserted(m).out \/ (m + 1 \in Months /\ rows[m + 1] # None => m \in revised')
  PROVE  IInv'
<1>1. RowsTyped'
  BY DEF IInv, RowsTyped
<1>2. ASSUME NEW n \in Months \ {1}, rows'[n] # None, n \notin handmade', n - 1 \notin revised'
      PROVE  rows'[n].in = Carried(n)'
  <2>1. n \in Months /\ n - 1 \in Months /\ n > 1 /\ n - 1 # n /\ n - 1 + 1 = n
    BY CalendarAssumption DEF Months
  <2>2. \A k \in Months : k # m => rows'[k] = rows[k]
    BY DEF IInv, RowsTyped
  <2>3. rows'[m] = row /\ row # None
    BY RowsAssumption DEF IInv, RowsTyped
  <2>4. n \notin handmade /\ n - 1 \notin revised
    BY <1>2
  <2>5. rows[n] # None => rows[n].in = Carried(n)
    BY <2>1, <2>4 DEF IInv, CreditIsCarried
  <2>6. Inserted(m) \in Row /\ (rows[m] # None => Inserted(m) = rows[m])
        /\ (rows[m] = None => Inserted(m).in = Carried(m) /\ Inserted(m).out = None)
    BY InsertedIsARow DEF IInv
  \* The month that is saved begins with what it is given.
  <2>7. CASE n = m
    <3>1. Carried(n)' = Carried(n)
      BY <2>1, <2>2, <2>7 DEF Carried
    <3>2. rows'[n].in = Inserted(m).in
      BY <1>2, <2>3, <2>7
    <3> QED BY <2>5, <2>6, <2>7, <3>1, <3>2
  \* The month after the one that is saved had a row already.
  <2>8. CASE n = m + 1
    <3>1. n - 1 = m
      BY <2>8 DEF Months
    <3>2. rows'[n] = rows[n] /\ rows[n] # None /\ m \notin revised'
      BY <1>2, <2>1, <2>2, <3>1
    <3>3. row.out = Inserted(m).out
      BY <2>1, <2>8, <3>2
    <3>4. Carried(n)' = IF row.out # None THEN row.out ELSE 0
      BY <2>1, <2>3, <3>1 DEF Carried
    <3>5. Carried(n) = IF Inserted(m).out # None THEN Inserted(m).out ELSE 0
      BY <2>1, <2>6, <3>1 DEF Carried
    <3> QED BY <2>5, <3>2, <3>3, <3>4, <3>5
  <2>9. CASE n # m /\ n # m + 1
    <3>1. n - 1 # m
      BY <2>9 DEF Months
    <3>2. rows'[n] = rows[n] /\ rows'[n - 1] = rows[n - 1]
      BY <2>1, <2>2, <2>9, <3>1
    <3>3. Carried(n)' = Carried(n)
      BY <3>2 DEF Carried
    <3> QED BY <1>2, <2>5, <3>2, <3>3
  <2> QED BY <2>7, <2>8, <2>9
<1> QED BY <1>1, <1>2 DEF IInv, CreditIsCarried

\* Each save of a person is one of these, and the rest touches neither rows nor history.
LEMMA StepsKeepTheCredit == IInv /\ [Next]_vars => IInv'
<1> SUFFICES ASSUME IInv, [Next]_vars PROVE IInv'
  OBVIOUS
<1>1. ASSUME NEW m \in Months PROVE Inserted(m) \in Row
  BY InsertedIsARow DEF IInv
<1>2. ASSUME NEW m \in Months, SetStatus(m) PROVE IInv'
  <2>1. PICK s \in Patched : SaveMonth(m, [Inserted(m) EXCEPT !.status = s])
    BY <1>2 DEF SetStatus
  <2>2. [Inserted(m) EXCEPT !.status = s] \in Row
    BY <1>1, RowsAssumption DEF Row
  <2>3. /\ [Inserted(m) EXCEPT !.status = s].in = Inserted(m).in
        /\ [Inserted(m) EXCEPT !.status = s].out = Inserted(m).out
    BY <1>1 DEF Row
  <2> QED BY <1>2, <2>1, <2>2, <2>3, SaveKeepsTheCredit DEF SaveMonth, SetStatus
<1>3. ASSUME NEW m \in Months, SetCreditIn(m) PROVE IInv'
  <2>1. PICK c \in Credits : SaveMonth(m, [Inserted(m) EXCEPT !.in = c])
    BY <1>3 DEF SetCreditIn
  <2>2. [Inserted(m) EXCEPT !.in = c] \in Row
    BY <1>1 DEF Row
  <2>3. [Inserted(m) EXCEPT !.in = c].out = Inserted(m).out
    BY <1>1 DEF Row
  <2>4. handmade' = handmade \cup {m} /\ revised' = revised
    BY <1>3 DEF SetCreditIn
  <2> QED BY <2>1, <2>2, <2>3, <2>4, SaveKeepsTheCredit DEF SaveMonth
<1>4. ASSUME NEW m \in Months, SetCreditOut(m) PROVE IInv'
  <2>1. PICK c \in Credits : SaveMonth(m, [Inserted(m) EXCEPT !.out = c])
    BY <1>4 DEF SetCreditOut
  <2>2. [Inserted(m) EXCEPT !.out = c] \in Row
    BY <1>1 DEF Row
  <2>3. [Inserted(m) EXCEPT !.out = c].in = Inserted(m).in
    BY <1>1 DEF Row
  <2>4. /\ handmade' = handmade /\ revised \subseteq revised'
        /\ (m + 1 \in Months /\ rows[m + 1] # None) => m \in revised'
    BY <1>4, CalendarAssumption DEF SetCreditOut, Months
  <2> QED BY <2>1, <2>2, <2>3, <2>4, SaveKeepsTheCredit DEF SaveMonth
<1>5. ASSUME NEW m \in Months, SetNotes(m) PROVE IInv'
  BY <1>1, <1>5, SaveKeepsTheCredit DEF SetNotes, SaveMonth
<1>6. ASSUME NEW m \in Months, PostDraft(m) PROVE IInv'
  <2>1. PICK s \in {"ready_to_pay", "draft_review"} : SaveMonth(m, [Inserted(m) EXCEPT !.status = s])
    BY <1>6 DEF PostDraft
  <2>2. [Inserted(m) EXCEPT !.status = s] \in Row
    BY <1>1 DEF Row, States
  <2>3. /\ [Inserted(m) EXCEPT !.status = s].in = Inserted(m).in
        /\ [Inserted(m) EXCEPT !.status = s].out = Inserted(m).out
    BY <1>1 DEF Row
  <2> QED BY <1>6, <2>1, <2>2, <2>3, SaveKeepsTheCredit DEF SaveMonth, PostDraft
<1>7. ASSUME UNCHANGED <<rows, handmade, revised>> PROVE IInv'
  BY <1>7 DEF IInv, RowsTyped, CreditIsCarried, Carried
<1>8. ASSUME NEW t \in Tasks, StartSweep(t) \/ ReviewMonth(t) \/ SweepFails(t) PROVE IInv'
  BY <1>7, <1>8 DEF StartSweep, ReviewMonth, SweepFails
<1>9. CASE DayPasses \/ UNCHANGED vars
  BY <1>7, <1>9 DEF DayPasses, vars
<1> QED BY <1>2, <1>3, <1>4, <1>5, <1>6, <1>8, <1>9 DEF Next

\* Whatever a month's first row was written for (a status, a note, a draft), it begins with the
\* credit of the month before, and keeps it unless a person or a revision takes it (month_row).
THEOREM CreditCarried == Spec => []CreditIsCarried
<1>1. Init => IInv
  BY DEF Init, IInv, RowsTyped, CreditIsCarried
<1>2. IInv => CreditIsCarried
  BY DEF IInv
<1> QED BY <1>1, <1>2, StepsKeepTheCredit, PTL DEF Spec

-----------------------------------------------------------------------------
(* That a return that is due is chased.  Only the month before this one    *)
(* can be due, so that a sweep owes one alert at most: it has filed it, or *)
(* the month is still before it, or the month is quiet.                    *)

LEMMA Multiples ==
  ASSUME NEW k \in Nat \ {0}, NEW a \in Nat, NEW b \in Nat, a < b
  PROVE  a * k + k <= b * k
<1>1. b * k = a * k + (b - a) * k
  OBVIOUS
<1>2. (b - a) * k >= k
  OBVIOUS
<1> QED BY <1>1, <1>2

\* The month of a day is the one the day lies in.
LEMMA MonthHoldsItsDay ==
  ASSUME NEW day \in Nat \ {0}
  PROVE  /\ MonthOf(day) \in Nat \ {0}
         /\ LastDay(MonthOf(day) - 1) < day /\ day <= LastDay(MonthOf(day))
<1> DEFINE q == (day - 1) \div MonthDays
<1>1. MonthDays \in Nat \ {0} /\ day - 1 \in Nat
  BY CalendarAssumption
<1>2. q \in Nat /\ q * MonthDays <= day - 1 /\ day - 1 < q * MonthDays + MonthDays
  BY <1>1
<1>3. MonthOf(day) = q + 1
  BY DEF MonthOf
<1>4. (q + 1) * MonthDays = q * MonthDays + MonthDays /\ (q + 1) - 1 = q
  BY <1>1, <1>2
<1> QED BY <1>1, <1>2, <1>3, <1>4 DEF LastDay

\* The days before a deadline are days of the month before it: the month after the return's own.
LEMMA DueMonthIsTheLast ==
  ASSUME NEW day \in Nat \ {0}, NEW m \in Nat \ {0},
         day + WARNING_DAYS >= Deadline(m), day <= Deadline(m)
  PROVE  MonthOf(day) = m + 1
<1> DEFINE n == MonthOf(day)
<1>1. MonthDays \in Nat \ {0} /\ WARNING_DAYS \in Nat /\ WARNING_DAYS < MonthDays
  BY CalendarAssumption
<1>2. n \in Nat \ {0} /\ (n - 1) * MonthDays < day /\ day <= n * MonthDays
  BY MonthHoldsItsDay DEF LastDay
<1>3. day + WARNING_DAYS >= (m + 1) * MonthDays /\ day <= (m + 1) * MonthDays
  BY DEF Deadline, LastDay
<1>4. (m + 1) * MonthDays \in Nat /\ n * MonthDays \in Nat /\ (n - 1) * MonthDays \in Nat
  BY <1>1, <1>2
<1> HIDE DEF n
<1>5. ~(m + 1 < n)
  <2>1. ASSUME m + 1 < n - 1 PROVE FALSE
    BY <1>1, <1>2, <1>3, <1>4, <2>1, Multiples
  <2>2. ASSUME m + 1 = n - 1 PROVE FALSE
    BY <1>1, <1>2, <1>3, <1>4, <2>2
  <2> QED BY <1>2, <2>1, <2>2
<1>6. ~(n < m + 1)
  <2>1. ASSUME n < m + 1 PROVE n * MonthDays + MonthDays <= (m + 1) * MonthDays
    BY <1>1, <1>2, <2>1, Multiples
  <2> QED BY <1>1, <1>2, <1>3, <1>4, <2>1
<1>7. n = m + 1
  BY <1>2, <1>5, <1>6
<1> QED BY <1>7 DEF n

KindsOfAlert == {"not_synced", "gap", "slot_missed", "surplus", "problems", "month_over", "recheck", "deadline"}

\* What the types and the calendar give every step; a sweep has two months at most to review.
Typed ==
    /\ TypeOK
    /\ today > MonthDays
    /\ \A t \in Tasks : /\ sweep[t].day <= today
                        /\ sweep[t].todo # <<>> => Tail(sweep[t].todo) = <<>>

LEMMA ThisMonthIsThere ==
  ASSUME Typed
  PROVE  MonthOf(today) \in Months /\ MonthOf(today) - 1 \in Months
<1> DEFINE n == MonthOf(today)
<1>1. MonthDays \in Nat \ {0} /\ LastMonth \in Nat \ {0, 1}
  BY CalendarAssumption
<1>2. today \in Nat \ {0} /\ today > MonthDays /\ today <= LastMonth * MonthDays
  BY <1>1 DEF Typed, TypeOK, LastDay
<1>3. n \in Nat \ {0} /\ (n - 1) * MonthDays < today /\ today <= n * MonthDays
  BY <1>2, MonthHoldsItsDay DEF LastDay
<1> HIDE DEF n
<1>4. n # 1
  <2>1. 1 * MonthDays = MonthDays
    BY <1>1
  <2> QED BY <1>1, <1>2, <1>3, <2>1
<1>5. n <= LastMonth
  <2>1. ASSUME LastMonth < n - 1 PROVE FALSE
    BY <1>1, <1>2, <1>3, <2>1, Multiples
  <2>2. ASSUME LastMonth = n - 1 PROVE FALSE
    BY <1>1, <1>2, <1>3, <2>2
  <2> QED BY <1>1, <1>3, <2>1, <2>2
<1>6. n \in Months /\ n - 1 \in Months
  BY <1>1, <1>3, <1>4, <1>5 DEF Months
<1> QED BY <1>6 DEF n

\* A sweep begins with this month and has at most the last one to follow.
LEMMA PlayIsTwoMonths ==
  ASSUME Typed
  PROVE  /\ Head(MonthsInPlay) = MonthOf(today)
         /\ Tail(MonthsInPlay) = IF MonthRow(MonthOf(today) - 1).status # "closed" THEN <<MonthOf(today) - 1>> ELSE <<>>
BY DEF MonthsInPlay

\* Whatever a person does to a month writes one row of it.
LEMMA SavesWriteRows ==
  ASSUME Typed, NEW m \in Months,
         SetStatus(m) \/ SetCreditIn(m) \/ SetCreditOut(m) \/ SetNotes(m) \/ PostDraft(m)
  PROVE  \E row \in Row : SaveMonth(m, row)
<1>1. Inserted(m) \in Row
  BY InsertedIsARow DEF RowsTyped, Typed, TypeOK
<1>2. /\ \A s \in States : [Inserted(m) EXCEPT !.status = s] \in Row
      /\ \A c \in Credits : [Inserted(m) EXCEPT !.in = c] \in Row /\ [Inserted(m) EXCEPT !.out = c] \in Row
  BY <1>1 DEF Row
<1>3. CASE SetStatus(m)
  BY <1>2, <1>3, RowsAssumption DEF SetStatus
<1>4. CASE SetCreditIn(m)
  BY <1>2, <1>4 DEF SetCreditIn
<1>5. CASE SetCreditOut(m)
  BY <1>2, <1>5 DEF SetCreditOut
<1>6. CASE SetNotes(m)
  BY <1>1, <1>6 DEF SetNotes
<1>7. CASE PostDraft(m)
  BY <1>2, <1>7 DEF PostDraft, States
<1> QED BY <1>3, <1>4, <1>5, <1>6, <1>7

LEMMA StepsKeepTheTypes == Typed /\ [Next]_vars => Typed'
<1> SUFFICES ASSUME Typed, [Next]_vars PROVE Typed'
  OBVIOUS
<1> DEFINE Sweep == [month : 0 .. LastMonth, todo : Seq(Months), day : Nat, ok : BOOLEAN]
<1>1. /\ today \in Nat /\ today \in 1 .. LastDay(LastMonth) /\ rows \in [Months -> Row \cup {None}]
      /\ saves \in 0 .. MaxSaves /\ sweep \in [Tasks -> Sweep]
      /\ alerts \subseteq [month : Months, kind : KindsOfAlert] /\ MaxSaves \in Nat
      /\ AtRest \in Sweep
  BY CalendarAssumption DEF Typed, TypeOK, KindsOfAlert, AtRest
<1>2. ASSUME NEW m \in Months, NEW row \in Row, SaveMonth(m, row) PROVE Typed'
  BY <1>1, <1>2 DEF SaveMonth, Typed, TypeOK
<1>3. ASSUME NEW m \in Months, SetStatus(m) \/ SetCreditIn(m) \/ SetCreditOut(m) \/ SetNotes(m) \/ PostDraft(m)
      PROVE  Typed'
  BY <1>2, <1>3, SavesWriteRows
\* A sweeping task goes on with a record of its own.
<1>5. ASSUME NEW t \in Tasks, NEW s \in Sweep, sweep' = [sweep EXCEPT ![t] = s],
             s.day <= today, s.todo # <<>> => Tail(s.todo) = <<>>,
             UNCHANGED <<today, rows, saves>>, alerts' \subseteq [month : Months, kind : KindsOfAlert]
      PROVE  Typed'
  <2>1. TypeOK'
    BY <1>1, <1>5 DEF TypeOK, KindsOfAlert
  <2>2. \A u \in Tasks : sweep'[u] = IF u = t THEN s ELSE sweep[u]
    BY <1>1, <1>5
  <2> QED BY <1>5, <2>1, <2>2 DEF Typed
<1>6. ASSUME NEW t \in Tasks, StartSweep(t) PROVE Typed'
  <2> DEFINE s == [month |-> Head(MonthsInPlay), todo |-> Tail(MonthsInPlay), day |-> today, ok |-> TRUE]
  <2>1. MonthOf(today) \in Months /\ MonthOf(today) - 1 \in Months
    BY ThisMonthIsThere
  <2>2. s \in Sweep /\ (s.todo # <<>> => Tail(s.todo) = <<>>) /\ s.day <= today
    <3> DEFINE k == MonthOf(today) - 1
    <3>1. s.todo = <<k>> \/ s.todo = <<>>
      BY PlayIsTwoMonths
    <3>2. s.month \in 0 .. LastMonth /\ k \in Months
      BY <2>1, PlayIsTwoMonths DEF Months
    <3> HIDE DEF k
    <3>3. <<k>> \in Seq(Months) /\ Tail(<<k>>) = <<>> /\ <<>> \in Seq(Months)
      BY <3>2
    <3>4. s.todo \in Seq(Months) /\ (s.todo # <<>> => Tail(s.todo) = <<>>)
      BY <3>1, <3>3, Zenon
    <3> QED BY <1>1, <3>2, <3>4
  <2>3. sweep' = [sweep EXCEPT ![t] = s] /\ UNCHANGED <<today, rows, saves, alerts>>
    BY <1>6 DEF StartSweep
  <2> HIDE DEF s
  <2> QED BY <1>1, <1>5, <2>2, <2>3
<1>7. ASSUME NEW t \in Tasks, ReviewMonth(t) PROVE Typed'
  <2> DEFINE s == sweep[t]
  <2>1. s \in Sweep /\ s.month # 0 /\ s.month \in Months /\ s.day <= today
        /\ (s.todo # <<>> => Tail(s.todo) = <<>>)
    BY <1>1, <1>7 DEF ReviewMonth, Months, Typed
  <2>2. PICK ok \in BOOLEAN, f \in Figures :
              /\ alerts' = Raised(s.month, Kinds(s.month, f, ok, s.day), s.day)
              /\ IF s.todo = <<>> THEN sweep' = [sweep EXCEPT ![t] = AtRest]
                 ELSE sweep' = [sweep EXCEPT ![t] = [month |-> Head(s.todo), todo |-> Tail(s.todo),
                                                     day |-> s.day, ok |-> s.ok /\ ok]]
    BY <1>7 DEF ReviewMonth
  <2>3. Kinds(s.month, f, ok, s.day) \subseteq KindsOfAlert
    BY DEF Kinds, KindsOfAlert
  <2>4. alerts' \subseteq [month : Months, kind : KindsOfAlert]
    BY <1>1, <2>1, <2>2, <2>3 DEF Raised
  <2>5. UNCHANGED <<today, rows, saves>>
    BY <1>7 DEF ReviewMonth
  <2>6. CASE s.todo = <<>>
    <3>1. AtRest.day <= today /\ AtRest.todo = <<>>
      BY <1>1 DEF AtRest
    <3> QED BY <1>1, <1>5, <2>2, <2>4, <2>5, <2>6, <3>1
  <2>7. CASE s.todo # <<>>
    <3> DEFINE n == [month |-> Head(s.todo), todo |-> Tail(s.todo), day |-> s.day, ok |-> s.ok /\ ok]
    <3>1. Head(s.todo) \in Months /\ Tail(s.todo) \in Seq(Months)
      BY <2>1, <2>7
    <3>2. n \in Sweep /\ n.day <= today /\ n.todo = <<>>
      BY <2>1, <2>7, <3>1 DEF Months
    <3>3. sweep' = [sweep EXCEPT ![t] = n]
      BY <2>2, <2>7
    <3> HIDE DEF n
    <3> QED BY <1>5, <2>4, <2>5, <3>2, <3>3
  <2> QED BY <2>6, <2>7
<1>8. ASSUME NEW t \in Tasks, SweepFails(t) PROVE Typed'
  <2>1. AtRest.day <= today /\ AtRest.todo = <<>>
    BY <1>1 DEF AtRest
  <2> QED BY <1>1, <1>5, <1>8, <2>1 DEF SweepFails
<1>9. CASE DayPasses
  <2>1. today + 1 \in 1 .. LastDay(LastMonth) /\ today + 1 > MonthDays
    BY <1>1, <1>9, CalendarAssumption DEF DayPasses, Typed, LastDay
  <2>2. \A t \in Tasks : sweep[t].day <= today + 1
    BY <1>1 DEF Typed
  <2> QED BY <1>1, <1>9, <2>1, <2>2 DEF DayPasses, Typed, TypeOK
<1>10. CASE UNCHANGED vars
  BY <1>10 DEF vars, Typed, TypeOK
<1> QED BY <1>3, <1>6, <1>7, <1>8, <1>9, <1>10 DEF Next

-----------------------------------------------------------------------------

Chased(m) == [month |-> m, kind |-> "deadline"] \in alerts

\* The day is one of those before the deadline of a return that is not settled.
Due(m) == today + WARNING_DAYS >= Deadline(m) /\ today <= Deadline(m) /\ m \notin quiet

\* What is paid or closed now was so at some time of this day.
SettledIsQuiet == \A m \in Months : MonthRow(m).status \in {"paid", "closed"} => m \in quiet

\* A sweep of this day with every month synced so far has chased what is due, or has it before it.
SweepsOwe ==
    \A t \in Tasks : sweep[t].month # 0 /\ sweep[t].day = today /\ sweep[t].ok =>
        \A m \in Months : Due(m) => Chased(m) \/ m = sweep[t].month \/ sweep[t].todo = <<m>>

SweptHasChased == swept => \A m \in Months : Due(m) => Chased(m)

ChaseInv == Typed /\ SettledIsQuiet /\ SweepsOwe /\ SweptHasChased

\* Of the months only the last one can be due; a sweep that begins leaves it out if it is closed.
LEMMA SweepBeginsWithTheDebt ==
  ASSUME ChaseInv, NEW m \in Months, Due(m)
  PROVE  Tail(MonthsInPlay) = <<m>>
<1>1. today \in Nat \ {0}
  BY CalendarAssumption DEF ChaseInv, Typed, TypeOK
<1>2. m \in Nat \ {0}
  BY DEF Months
<1>3. MonthOf(today) = m + 1
  BY <1>1, <1>2, DueMonthIsTheLast DEF Due
<1>4. MonthOf(today) - 1 = m
  BY <1>2, <1>3
<1>5. MonthRow(m).status # "closed"
  BY DEF ChaseInv, SettledIsQuiet, Due
<1> QED BY <1>4, <1>5, PlayIsTwoMonths DEF ChaseInv

\* A review of a synced month that is due files the alert.
LEMMA ReviewChases ==
  ASSUME ChaseInv, NEW m \in Months, Due(m), NEW f \in Figures,
         alerts' = Raised(m, Kinds(m, f, TRUE, today), today)
  PROVE  Chased(m)'
<1>1. MonthRow(m).status \notin {"paid", "closed"}
  BY DEF ChaseInv, SettledIsQuiet, Due
<1>2. "deadline" \in Kinds(m, f, TRUE, today)
  BY <1>1 DEF Kinds, Due
<1> QED BY <1>2 DEF Raised, Chased

LEMMA StepsChase == ChaseInv /\ [Next]_vars => ChaseInv'
<1> SUFFICES ASSUME ChaseInv, [Next]_vars PROVE ChaseInv'
  OBVIOUS
<1>1. Typed'
  BY StepsKeepTheTypes DEF ChaseInv
<1>2. sweep \in [Tasks -> [month : 0 .. LastMonth, todo : Seq(Months), day : Nat, ok : BOOLEAN]]
      /\ rows \in [Months -> Row \cup {None}] /\ today \in Nat
  BY DEF ChaseInv, Typed, TypeOK
\* A save may settle a month, which is then quiet; what is due afterwards was due before.
<1>3. ASSUME NEW m \in Months, NEW row \in Row, SaveMonth(m, row) PROVE ChaseInv'
  <2>1. quiet \subseteq quiet' /\ UNCHANGED <<today, sweep, alerts, swept>> /\ rows' = [rows EXCEPT ![m] = row]
    BY <1>3 DEF SaveMonth
  <2>2. \A n \in Months : (Due(n)' => Due(n)) /\ (Chased(n)' <=> Chased(n))
    BY <2>1 DEF Due, Deadline, LastDay, Chased
  <2>3. ASSUME NEW n \in Months, MonthRow(n)'.status \in {"paid", "closed"} PROVE n \in quiet'
    <3>1. CASE n = m
      <4>1. rows'[n] = row /\ rows'[n] # None
        BY <1>2, <2>1, <3>1, RowsAssumption
      <4> QED BY <1>3, <2>3, <3>1, <4>1 DEF MonthRow, SaveMonth
    <3>2. CASE n # m
      <4>1. rows'[n] = rows[n]
        BY <1>2, <2>1, <3>2
      <4>2. MonthRow(n).status \in {"paid", "closed"}
        BY <2>3, <4>1 DEF MonthRow
      <4> QED BY <2>1, <4>2 DEF ChaseInv, SettledIsQuiet
    <3> QED BY <3>1, <3>2
  <2>4. SweepsOwe'
    BY <2>1, <2>2 DEF ChaseInv, SweepsOwe
  <2>5. SweptHasChased'
    BY <2>1, <2>2 DEF ChaseInv, SweptHasChased
  <2> QED BY <1>1, <2>3, <2>4, <2>5 DEF ChaseInv, SettledIsQuiet
<1>4. ASSUME UNCHANGED <<today, rows, quiet>>
      PROVE  SettledIsQuiet' /\ \A m \in Months : Due(m)' <=> Due(m)
  BY <1>4 DEF ChaseInv, SettledIsQuiet, MonthRow, Carried, Due, Deadline, LastDay
<1>5. ASSUME NEW t \in Tasks, StartSweep(t) PROVE ChaseInv'
  <2>1. UNCHANGED <<today, rows, quiet, alerts, swept>>
    BY <1>5 DEF StartSweep
  <2>2. sweep'[t].todo = Tail(MonthsInPlay) /\ \A u \in Tasks \ {t} : sweep'[u] = sweep[u]
    BY <1>2, <1>5 DEF StartSweep
  <2>3. \A m \in Months : Due(m) => sweep'[t].todo = <<m>>
    BY <2>2, SweepBeginsWithTheDebt
  <2>4. SweepsOwe'
    BY <1>4, <2>1, <2>2, <2>3 DEF ChaseInv, SweepsOwe, Chased
  <2>5. SweptHasChased'
    BY <1>4, <2>1 DEF ChaseInv, SweptHasChased, Chased
  <2> QED BY <1>1, <1>4, <2>1, <2>4, <2>5 DEF ChaseInv
<1>6. ASSUME NEW t \in Tasks, ReviewMonth(t) PROVE ChaseInv'
  <2> DEFINE s == sweep[t]
  <2>1. /\ UNCHANGED <<today, rows, quiet>> /\ s.month # 0 /\ s.month \in Months
        /\ s.todo \in Seq(Months)
    BY <1>2, <1>6 DEF ReviewMonth, Months
  <2>2. PICK ok \in BOOLEAN, f \in Figures :
              /\ alerts' = Raised(s.month, Kinds(s.month, f, ok, s.day), s.day)
              /\ IF s.todo = <<>>
                 THEN /\ sweep' = [sweep EXCEPT ![t] = AtRest]
                      /\ swept' = (swept \/ (s.ok /\ ok /\ s.day = today))
                 ELSE /\ sweep' = [sweep EXCEPT ![t] = [month |-> Head(s.todo), todo |-> Tail(s.todo),
                                                        day |-> s.day, ok |-> s.ok /\ ok]]
                      /\ swept' = swept
    BY <1>6 DEF ReviewMonth
  <2>3. \A m \in Months : Chased(m) => Chased(m)'
    BY <2>2 DEF Raised, Chased
  \* What this sweep owed and has just reviewed is chased.
  <2>4. ASSUME NEW m \in Months, Due(m), ok, s.ok, s.day = today, s.todo # <<m>> PROVE Chased(m)'
    <3>1. Chased(m) \/ m = s.month
      BY <2>1, <2>4 DEF ChaseInv, SweepsOwe
    <3>2. ASSUME m = s.month PROVE Chased(m)'
      BY <2>2, <2>4, <3>2, ReviewChases
    <3> QED BY <2>3, <3>1, <3>2
  <2>5. \A u \in Tasks \ {t} : sweep'[u] = sweep[u]
    BY <1>2, <2>2
  <2>6. CASE s.todo = <<>>
    <3>1. sweep'[t].month = 0
      BY <1>2, <2>2, <2>6 DEF AtRest
    <3>2. SweepsOwe'
      BY <1>4, <2>1, <2>3, <2>5, <3>1 DEF ChaseInv, SweepsOwe
    <3>3. SweptHasChased'
      <4>1. ASSUME NEW m \in Months, swept', Due(m) PROVE Chased(m)'
        <5>1. s.todo # <<m>>
          BY <2>6
        <5>2. swept \/ (s.ok /\ ok /\ s.day = today)
          BY <2>2, <2>6, <4>1
        <5> QED BY <2>3, <2>4, <4>1, <5>1, <5>2 DEF ChaseInv, SweptHasChased
      <4> QED BY <1>4, <2>1, <4>1 DEF SweptHasChased
    <3> QED BY <1>1, <1>4, <2>1, <3>2, <3>3 DEF ChaseInv
  <2>7. CASE s.todo # <<>>
    <3>1. /\ sweep'[t].month = Head(s.todo) /\ sweep'[t].day = s.day
          /\ sweep'[t].ok = (s.ok /\ ok) /\ swept' = swept
      BY <1>2, <2>2, <2>7
    <3>2. ASSUME NEW m \in Months, Due(m), sweep'[t].month # 0, sweep'[t].day = today, sweep'[t].ok
          PROVE  Chased(m)' \/ m = sweep'[t].month
      <4>1. CASE s.todo = <<m>>
        BY <3>1, <4>1
      <4>2. CASE s.todo # <<m>>
        BY <2>4, <3>1, <3>2, <4>2
      <4> QED BY <4>1, <4>2
    <3>3. SweepsOwe'
      BY <1>4, <2>1, <2>3, <2>5, <3>2 DEF ChaseInv, SweepsOwe
    <3>4. SweptHasChased'
      BY <1>4, <2>1, <2>3, <3>1 DEF ChaseInv, SweptHasChased
    <3> QED BY <1>1, <1>4, <2>1, <3>3, <3>4 DEF ChaseInv
  <2> QED BY <2>6, <2>7
<1>7. ASSUME NEW t \in Tasks, SweepFails(t) PROVE ChaseInv'
  <2>1. UNCHANGED <<today, rows, quiet, alerts, swept>>
    BY <1>7 DEF SweepFails
  <2>2. sweep'[t].month = 0 /\ \A u \in Tasks \ {t} : sweep'[u] = sweep[u]
    BY <1>2, <1>7 DEF SweepFails, AtRest
  <2>3. SweepsOwe'
    BY <1>4, <2>1, <2>2 DEF ChaseInv, SweepsOwe, Chased
  <2>4. SweptHasChased'
    BY <1>4, <2>1 DEF ChaseInv, SweptHasChased, Chased
  <2> QED BY <1>1, <1>4, <2>1, <2>3, <2>4 DEF ChaseInv
\* A new day: whatever sweeps is of a day before, and nothing is swept yet.
<1>8. CASE DayPasses
  <2>1. today' = today + 1 /\ UNCHANGED <<rows, sweep>> /\ ~swept'
        /\ quiet' = {m \in Months : MonthRow(m).status \in {"paid", "closed"}}
    BY <1>8 DEF DayPasses
  <2>2. SettledIsQuiet'
    BY <2>1 DEF SettledIsQuiet, MonthRow, Carried
  <2>3. \A t \in Tasks : sweep'[t].day # today'
    BY <1>2, <2>1 DEF ChaseInv, Typed
  <2> QED BY <1>1, <2>1, <2>2, <2>3 DEF ChaseInv, SweepsOwe, SweptHasChased
<1>9. CASE UNCHANGED vars
  BY <1>1, <1>4, <1>9 DEF vars, ChaseInv, SweepsOwe, SweptHasChased, Chased
<1>10. ASSUME NEW m \in Months, SetStatus(m) \/ SetCreditIn(m) \/ SetCreditOut(m) \/ SetNotes(m) \/ PostDraft(m)
       PROVE  ChaseInv'
  <2>1. \E row \in Row : SaveMonth(m, row)
    BY <1>10, SavesWriteRows DEF ChaseInv
  <2> QED BY <1>3, <2>1
<1> QED BY <1>5, <1>6, <1>7, <1>8, <1>9, <1>10 DEF Next

LEMMA ChaseBegins == Init => ChaseInv
<1> SUFFICES ASSUME Init PROVE ChaseInv
  OBVIOUS
<1>1. MonthDays + 1 \in 1 .. LastDay(LastMonth)
  <2>1. LastMonth * MonthDays >= 1 * MonthDays + MonthDays
    BY CalendarAssumption, Multiples
  <2> QED BY <2>1, CalendarAssumption DEF LastDay
<1>2. Typed
  BY <1>1, CalendarAssumption DEF Init, Typed, TypeOK, AtRest
<1>3. SettledIsQuiet
  BY DEF Init, SettledIsQuiet, MonthRow
<1> QED BY <1>2, <1>3 DEF Init, ChaseInv, SweepsOwe, SweptHasChased, AtRest

\* Rows are rows, sweeps have months of the calendar before them, alerts are of the kinds there
\* are: whatever a person saves and whenever a sweep fails (save_month, sweep, add_alert).
THEOREM TypeCorrect == Spec => []TypeOK
<1>1. Init => Typed
  BY ChaseBegins DEF ChaseInv
<1>2. Typed => TypeOK
  BY DEF Typed
<1> QED BY <1>1, <1>2, StepsKeepTheTypes, PTL DEF Spec

\* When a day before a deadline ends on which some sweep began and ended with every month synced,
\* the return that is due was chased, unless it was settled that day (months_in_play, review).
THEOREM DueReturnsChased == Spec => DueReturnIsChased
<1>1. ChaseInv /\ [Next]_vars => [today' # today /\ swept =>
          \A m \in Months : /\ m <= MonthOf(today) /\ today \in Deadline(m) - WARNING_DAYS .. Deadline(m)
                            /\ m \notin quiet
                            => [month |-> m, kind |-> "deadline"] \in alerts]_today
  <2> SUFFICES ASSUME ChaseInv, swept, NEW m \in Months, m \notin quiet,
                      today \in Deadline(m) - WARNING_DAYS .. Deadline(m)
               PROVE  [month |-> m, kind |-> "deadline"] \in alerts
    OBVIOUS
  <2>1. Deadline(m) \in Nat /\ WARNING_DAYS \in Nat /\ today \in Nat
    BY CalendarAssumption DEF Deadline, LastDay, Months, ChaseInv, Typed, TypeOK
  <2>2. Due(m)
    BY <2>1 DEF Due
  <2> QED BY <2>2 DEF ChaseInv, SweptHasChased, Chased
<1> QED BY <1>1, ChaseBegins, StepsChase, PTL DEF Spec, DueReturnIsChased
=============================================================================
