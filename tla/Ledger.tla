------------------------------- MODULE Ledger -------------------------------
(***************************************************************************)
(* The invoices of one kind in three places: Nama's books, what its API    *)
(* hands over of them, and the database restored from a backup.  From the  *)
(* second the live figures are summed up (summarise of finance/live.py);   *)
(* the second and the third are compared document by document              *)
(* (finance/reconcile.py, for the guard and for the script that allows a   *)
(* release).                                                               *)
(*                                                                         *)
(* A month is counted from the year 0.  What the API hands over may be off *)
(* by the rounding of lines.                                               *)
(***************************************************************************)
EXTENDS Integers, Sequences, FiniteSets, Functions, FiniteSetsExt, SequencesExt

CONSTANTS
    Ids,           \* the documents, in the order in which the API lists them
    Heads,         \* what never changes of them: [code, day, month, type, party]
    Prices,        \* what a document may be worth: [gross, net]
    Payments,      \* what may have been paid of it
    Rounding,      \* how far each document's lines are from its total
    TOLERANCE,
    PartyType,     \* whose balance is kept: customers
    GuardMonth,    \* the closed month that is compared
    MaxEdits     \* bound: changes of the books and of what the API shows

AmountsAssumption == /\ Ids \subseteq Nat /\ IsFiniteSet(Ids) /\ TOLERANCE \in Nat /\ MaxEdits \in Nat
                     /\ Payments \subseteq Nat /\ Prices \subseteq [gross : Int, net : Int]
                     /\ \A i \in Ids : Rounding[i] \in 0 .. TOLERANCE

VARIABLES
    books,     \* Nama: each document's [state, gross, net, paid]
    veil,      \* what the API hands over: the whole, an empty shell, or a refusal
    backup,    \* the books as they were restored
    newest,    \* whether the database lists the newest of two equal rows first
    reviewed,  \* FINANCE_GUARD_ALLOWED_REVERSALS: the codes somebody has looked at
    edits

ledgerVars == <<books, veil, backup, newest, reviewed, edits>>

Absent == [state |-> "absent", gross |-> 0, net |-> 0, paid |-> 0]
Document(state, price) == [state |-> state, gross |-> price.gross, net |-> price.net, paid |-> 0]

Init ==
    /\ books \in [Ids -> {Absent} \cup {Document("posted", p) : p \in Prices}]
    /\ veil = [i \in Ids |-> "whole"]
    /\ backup = books
    /\ newest \in BOOLEAN
    /\ reviewed \in {{}, {Heads[i].code : i \in Ids}}
    /\ edits = 0

-----------------------------------------------------------------------------
(* The accountants, and the backup.                                        *)

Change == edits < MaxEdits /\ edits' = edits + 1 /\ UNCHANGED <<newest, reviewed>>
Written(i, document) == Change /\ books' = [books EXCEPT ![i] = document] /\ UNCHANGED <<veil, backup>>

Enter(i) == books[i] = Absent /\ \E p \in Prices : Written(i, Document("draft", p))
Post(i) == books[i].state = "draft" /\ Written(i, [books[i] EXCEPT !.state = "posted"])
Reprice(i) == /\ books[i].state = "posted"
              /\ \E p \in Prices : /\ p.gross # books[i].gross \/ p.net # books[i].net
                                   /\ Written(i, [books[i] EXCEPT !.gross = p.gross, !.net = p.net])

\* A voucher comes or is cancelled.
Settle(i) == books[i].state = "posted" /\ \E p \in Payments \ {books[i].paid} : Written(i, [books[i] EXCEPT !.paid = p])
Withdraw(i) == books[i] # Absent /\ Written(i, Absent)

\* The credential is narrowed or widened, or the document comes without its lines.
VeilFalls(i) ==
    /\ Change
    /\ \E v \in {"whole", "empty", "refused"} \ {veil[i]} : veil' = [veil EXCEPT ![i] = v]
    /\ UNCHANGED <<books, backup>>

Restore == backup # books /\ backup' = books /\ UNCHANGED <<books, veil, newest, reviewed, edits>>

Next == \/ Restore
        \/ \E i \in Ids : Enter(i) \/ Post(i) \/ Reprice(i) \/ Settle(i) \/ Withdraw(i) \/ VeilFalls(i)

-----------------------------------------------------------------------------
(* The window.                                                             *)

\* A month that is months_back whole months behind, as [year, month].
ClosedPeriod(year, month, months_back) ==
    LET m == month - months_back
        back == IF m < 1 THEN (12 - m) \div 12 ELSE 0
    IN  [year |-> year - back, month |-> m + 12 * back]

\* The first day of the period, and the first one after it.
PeriodBounds(year, month) ==
    [start |-> [year |-> year, month |-> month],
     end |-> [year |-> IF month = 12 THEN year + 1 ELSE year, month |-> IF month = 12 THEN 1 ELSE month + 1]]

InPeriod(i) == Heads[i].month = GuardMonth

-----------------------------------------------------------------------------
(* Both sides, document by document.                                       *)

Listed == {i \in Ids : books[i] # Absent /\ veil[i] # "refused"}
Inaccessible == {i \in Ids : books[i] # Absent /\ veil[i] = "refused"}
Posted == {i \in Listed : books[i].state = "posted"}
Invalid == {i \in Posted : veil[i] = "empty"}
Identified == Posted \ Invalid

\* document_money: the lines are summed, the payments are what they are.
RestMoney == [i \in Ids |-> [gross |-> books[i].gross + Rounding[i], net |-> books[i].net + Rounding[i],
                             paid |-> books[i].paid]]
SqlMoney == [i \in Ids |-> [gross |-> backup[i].gross, net |-> backup[i].net, paid |-> backup[i].paid]]

RestRows == {i \in Identified : InPeriod(i)}
SqlRows == {i \in Ids : backup[i].state = "posted" /\ InPeriod(i)}

SameHead(i, j) == Heads[i].code = Heads[j].code /\ Heads[i].day = Heads[j].day /\ Heads[i].month = Heads[j].month

\* i stands before j among the rows of one code and day: worth less, or equal and listed before.
Before(money, latestFirst, i, j) ==
    \/ money[i].gross < money[j].gross
    \/ money[i].gross = money[j].gross /\ money[i].net < money[j].net
    \/ /\ money[i].gross = money[j].gross /\ money[i].net = money[j].net
       /\ IF latestFirst THEN j < i ELSE i < j

Key(i, ordinal) == [code |-> Heads[i].code, day |-> Heads[i].day, month |-> Heads[i].month, ordinal |-> ordinal]

\* The code alone, and the row that comes last.
KeyedByCode(rows, money, latestFirst) ==
    LET Latest(i) == CHOOSE j \in rows : SameHead(i, j) /\ \A k \in rows : SameHead(i, k) => k <= j
    IN  [k \in {Key(i, 1) : i \in rows} |-> CHOOSE i \in rows : Key(i, 1) = k /\ Latest(i) = i]

\* _keyed.
Keyed(rows, money, latestFirst) ==
    LET KeyOf(i) == Key(i, 1 + Cardinality({j \in rows : SameHead(i, j) /\ Before(money, latestFirst, j, i)}))
    IN  [k \in {KeyOf(i) : i \in rows} |-> CHOOSE i \in rows : KeyOf(i) = k]

Near(a, b) == a - b <= TOLERANCE /\ b - a <= TOLERANCE
SamePrice(s, r) == Near(s.gross, r.gross) /\ Near(s.net, r.net)
Fine(s, r) == SamePrice(s, r) /\ Near(s.paid, r.paid)

\* Of another age of the same document: settled since the backup, or a reversal that was reviewed.
Explained(code, s, r) ==
    /\ SamePrice(s, r)
    /\ r.paid > s.paid + TOLERANCE \/ (r.paid < s.paid - TOLERANCE /\ code \in reviewed)

Compare(strict) ==
    LET sql == Keyed(SqlRows, SqlMoney, newest)
        rest == Keyed(RestRows, RestMoney, FALSE)
        Differs(k) == LET s == SqlMoney[sql[k]]
                          r == RestMoney[rest[k]]
                      IN  ~Fine(s, r) /\ (strict \/ ~Explained(k.code, s, r))
    IN  [unexplained |-> {k \in DOMAIN sql \cap DOMAIN rest : Differs(k)},
         onlyInSql |-> DOMAIN sql \ DOMAIN rest,
         onlyInRest |-> DOMAIN rest \ DOMAIN sql]

Verdict(result) == result.unexplained = {} /\ result.onlyInSql = {} /\ result.onlyInRest = {}

Unreadable == {i \in Inaccessible : InPeriod(i)}

\* The guard says "pass"; the script says "reconciled", where strict is for a Nama that reads the
\* database itself.
GuardPasses == Verdict(Compare(FALSE)) /\ Unreadable = {}
Reconciled(strict) == Verdict(Compare(strict)) /\ Unreadable = {} /\ {i \in Invalid : InPeriod(i)} = {}

-----------------------------------------------------------------------------
(* The figures.                                                            *)

Sum(rows, amount(_)) == MapThenSumSet(amount, rows)
Outstanding(i) == RestMoney[i].net - RestMoney[i].paid
Gross(i) == RestMoney[i].gross
Debtors(rows) == {Heads[i].party : i \in rows}
Scoped == {i \in Identified : Heads[i].type = PartyType}

Summarise ==
    [totals |-> [gross |-> Sum(Identified, Gross), open |-> Sum(Identified, Outstanding),
                 count |-> Cardinality(Identified)],
     scoped |-> Sum(Scoped, Outstanding),
     parties |-> [p \in Debtors(Scoped) |-> Sum({i \in Scoped : Heads[i].party = p}, Outstanding)]]

\* A snapshot says of itself that it is complete.
Complete == Inaccessible = {} /\ Invalid = {}

\* customer_balances, supplier_balances: the largest first, as many as are asked for.
Balances(limit) ==
    LET parties == Summarise.parties
        rows == CHOOSE rows \in SetToSeqs(DOMAIN parties) :
                   \A i, j \in DOMAIN rows : i < j => parties[rows[i]] >= parties[rows[j]]
    IN  SubSeq(rows, 1, IF limit < Len(rows) THEN limit ELSE Len(rows))

-----------------------------------------------------------------------------
(* Properties.                                                             *)

InBooks == {i \in Ids : books[i].state = "posted" /\ InPeriod(i)}

\* The same worth, to the tolerance and the rounding of lines.
Alike(a, b) == a - b <= 2 * TOLERANCE /\ b - a <= 2 * TOLERANCE

\* Every document of the backup is one of these in the books, of the same number, day and worth,
\* and has not been unpaid unless its number was reviewed; nothing is left over on either side.
SameDocuments(rows, strict) ==
    \E f \in Bijection(SqlRows, rows) : \A i \in SqlRows :
        /\ SameHead(i, f[i])
        /\ Alike(backup[i].gross, books[f[i]].gross) /\ Alike(backup[i].net, books[f[i]].net)
        /\ \/ Near(backup[i].paid, books[f[i]].paid)
           \/ ~strict /\ (backup[i].paid < books[f[i]].paid \/ Heads[i].code \in reviewed)

\* A release is let through only when books and backup hold the same documents, numbers that two
\* companies share included; the guard passes on the same terms, of the documents it can value.
NoFalsePass ==
    /\ \A strict \in BOOLEAN : Reconciled(strict) => SameDocuments(InBooks, strict)
    /\ GuardPasses => SameDocuments(InBooks \ Invalid, FALSE)

\* Where every document is as it was or further paid, all are shown, and no two of one number and
\* day are worth the same to the tolerance, the guard raises no alarm.
NoFalseAlarm ==
    LET unchanged == \A i \in Ids : InPeriod(i) =>
            /\ veil[i] = "whole" /\ (books[i].state = "posted") = (backup[i].state = "posted")
            /\ i \in InBooks => /\ books[i].gross = backup[i].gross /\ books[i].net = backup[i].net
                                /\ books[i].paid >= backup[i].paid
        twins == \E i \in InBooks : \E j \in InBooks \ {i} : SameHead(i, j) /\ Near(books[i].gross, books[j].gross)
    IN  unchanged /\ ~twins => GuardPasses

\* A snapshot that says it is complete is the posted books, to the rounding of each document: no
\* draft, no document of another kind of party among the balances, and nobody with a larger debt
\* below the line where a list of balances ends.
CompleteIsTheBooks ==
    Complete =>
        LET posted == {i \in Ids : books[i].state = "posted"}
            Due(i) == books[i].net - books[i].paid
            owed == [p \in {Heads[i].party : i \in {j \in posted : Heads[j].type = PartyType}} |->
                        Sum({i \in posted : Heads[i].type = PartyType /\ Heads[i].party = p}, Due)]
            slack == TOLERANCE * Cardinality(posted)
            s == Summarise
        IN  /\ s.totals.count = Cardinality(posted)
            /\ s.totals.open - Sum(posted, Due) \in 0 .. slack
            /\ DOMAIN s.parties = DOMAIN owed
            /\ \A p \in DOMAIN owed : s.parties[p] - owed[p] \in 0 .. slack
            /\ \A limit \in 0 .. 2 : LET top == Range(Balances(limit))
                                     IN  \A p \in top : \A q \in DOMAIN owed \ top : owed[q] <= owed[p] + slack

\* What is told of the books is so: the comparison neither lets a difference through nor makes one
\* up (but of near-twins), and a snapshot that says it is complete is the posted books.
LedgerTellsTheTruth == NoFalsePass /\ NoFalseAlarm /\ CompleteIsTheBooks
=============================================================================
