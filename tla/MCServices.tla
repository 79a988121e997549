----------------------------- MODULE MCServices -----------------------------
(* Seven parts that share nothing, each run by itself: the walks of the    *)
(* portal's browser, the live board, the limiter, the file of keys, the    *)
(* invoices in their three places, the workflow of supplier invoices and   *)
(* the legal counsel.                                                      *)
EXTENDS Integers, Sequences, SequencesExt

CONSTANTS Running,   \* the parts a run looks at
          Walks, Lists, Requested, MOST_PAGES, MaxMoves,
          Listeners, Lookers, Numbers, MaxLooks, MaxFailures,
          Clients, Limits, TableLimit, MaxWindows, MaxRequests,
          Keys, Comment, KeepBackups, MaxSaves, MaxCrashes, MaxSeconds,
          Ids, Heads, Prices, Payments, Rounding, TOLERANCE, PartyType, GuardMonth, MaxEdits,
          Users, Invoices, Requests, MaxRows, MaxDeaths,
          Slots, Files, Locked, Missing, Aliases, Texts, Questions, AHEAD, BEHIND, TopK, PerSection,
          NotLoaded, MaxFileChanges

VARIABLES
    part,
    control, shown, coming, walk, moves,
    data, lock, probing, loop, listener, queue, seen, looks, failures,
    allowed, window, hits, asked, admitted,
    env, tmp, backups, environ, contained, created, save, second, saves, crashes, blind, latest, changed,
    books, veil, backup, newest, reviewed, edits,
    row, trail, call, erp, made, deaths,
    disk, corpus, index, ask, failed, refiled

Browser == INSTANCE PortalBrowser
Hub == INSTANCE HubLive
Limiter == INSTANCE RateLimiter
KeyAdmin == INSTANCE KeyFile
Finance == INSTANCE Ledger
Workflow == INSTANCE InvoiceFlow
Legal == INSTANCE Counsel

-----------------------------------------------------------------------------
(* The instances.                                                          *)

TheLists == [sent |-> 3, received |-> 1]

\* Two companies that share a number, and a supplier who is invoiced like a customer.
HeadOf(code, type, party) == [code |-> code, day |-> 1, month |-> 5, type |-> type, party |-> party]
TheHeads == <<HeadOf("S1", "Customer", "c1"), HeadOf("S1", "Customer", "c2"), HeadOf("S2", "Supplier", "c1")>>
ThePrices == {[gross |-> 10, net |-> 5], [gross |-> 20, net |-> 15]}
TheRounding == <<1, 0, 1>>

\* One vendor's number given twice, for different amounts.
TheUsers == [adam |-> "ADMIN", cleo |-> "AP_CLERK"]
TheInvoices == <<[key |-> "v1-7", amount |-> 1], [key |-> "v1-7", amount |-> 2]>>

\* Two statutes, a contract that goes by the name of a law, and a file that does not say what it is.
File(slug, tier, articles) == [slug |-> slug, tier |-> tier, articles |-> articles]
Civil == File("madani", "statute", {5, 147})
Labour == File("amal", "statute", {9})
Contract == File("madani", "precedent", {5, 9})
Loose == File("amal", "agreement", {5})
TheFiles == {Civil, Labour, Contract, Loose}
TheSlots == <<"a", "b">>
TheAliases == <<[alias |-> "chinese civil code", law |-> "cn-civil-code"], [alias |-> "civil code", law |-> "madani"],
                [alias |-> "labour law", law |-> "amal"]>>
\* Tokens are written as Counsel writes them: the values of its constants do not call it.
Token(kind, number, names) == [kind |-> kind, number |-> number, names |-> names]
Marks == Token("marks", 0, {})
ArticleOf(n) == Token("article", n, {})
ChineseCode == Token("law", 0, {"chinese civil code", "civil code"})
CivilCode == Token("law", 0, {"civil code"})
LabourLaw == Token("law", 0, {"labour law"})
TheTexts == {<<ArticleOf(5), CivilCode>>, <<LabourLaw, ArticleOf(9), ArticleOf(5)>>,
             <<CivilCode, Marks, ArticleOf(147), LabourLaw>>, <<ArticleOf(5), LabourLaw, ArticleOf(147), CivilCode>>}

-----------------------------------------------------------------------------
(* Pure definitions over bounded inputs.                                   *)

ASSUME BoundsAssumption == /\ Browser!PagesAssumption /\ Hub!BoardAssumption /\ Limiter!LimitsAssumption
                          /\ KeyAdmin!FileAssumption /\ Finance!AmountsAssumption /\ Legal!TextsAssumption

\* The month that is compared is a whole number of months back, across the turns of years, and its
\* bounds are that month and no other.
ASSUME ClosedMonthIsBack ==
    \A year \in 2024 .. 2025 : \A month \in 1 .. 12 : \A back \in 1 .. 14 :
        LET c == Finance!ClosedPeriod(year, month, back)
            b == Finance!PeriodBounds(c.year, c.month)
        IN  /\ c.month \in 1 .. 12 /\ 12 * c.year + c.month = 12 * year + month - back
            /\ b.start = c
            /\ b.end.month \in 1 .. 12 /\ 12 * b.end.year + b.end.month = 12 * c.year + c.month + 1

\* The guard judges every text of up to four words by what it names, whatever is loaded.
ASSUME GuardIsFaithful ==
    \A files \in {<<Civil, Labour>>, <<Contract, Labour>>, <<Loose>>, <<>>} :
        \A raw \in SeqOf({ArticleOf(5), ArticleOf(147), CivilCode, ChineseCode, LabourLaw, Marks}, 4) :
            Legal!Faithful(files, raw, Legal!redact(files, raw))

-----------------------------------------------------------------------------
window_ == <<control, shown, coming, walk, moves>>
board_ == <<data, lock, probing, loop, listener, queue, seen, looks, failures>>
table_ == <<allowed, window, hits, asked, admitted>>
file_ == <<env, tmp, backups, environ, contained, created, save, second, saves, crashes, blind, latest, changed>>
ledger_ == <<books, veil, backup, newest, reviewed, edits>>
workflow_ == <<row, trail, call, erp, made, deaths>>
counsel_ == <<disk, corpus, index, ask, failed, refiled>>
allVars == <<part, window_, board_, table_, file_, ledger_, workflow_, counsel_>>

\* The others stand where they began; the window shows the longer list at first.
Init ==
    /\ part \in Running
    /\ Browser!Init /\ Hub!Init /\ Limiter!Init /\ KeyAdmin!Init /\ Finance!Init /\ Workflow!Init /\ Legal!Init
    /\ shown.list = "sent" /\ (part # "browser" => ~control)
    /\ part # "limiter" => allowed = 2
    /\ part # "keys" => Len(env.lines) = 1 /\ ~contained
    /\ part # "ledger" => (\A i \in Ids : books[i] = Finance!Absent) /\ ~newest /\ reviewed = {}
    /\ part # "counsel" => \A s \in DOMAIN Slots : disk[s] = Missing

Others(running) ==
    /\ part' = part
    /\ IF running = "browser" THEN TRUE ELSE UNCHANGED window_
    /\ IF running = "hub" THEN TRUE ELSE UNCHANGED board_
    /\ IF running = "limiter" THEN TRUE ELSE UNCHANGED table_
    /\ IF running = "keys" THEN TRUE ELSE UNCHANGED file_
    /\ IF running = "ledger" THEN TRUE ELSE UNCHANGED ledger_
    /\ IF running = "workflow" THEN TRUE ELSE UNCHANGED workflow_
    /\ IF running = "counsel" THEN TRUE ELSE UNCHANGED counsel_

Next ==
    \/ part = "browser" /\ Browser!Next /\ Others(part)
    \/ part = "hub" /\ Hub!Next /\ Others(part)
    \/ part = "limiter" /\ Limiter!Next /\ Others(part)
    \/ part = "keys" /\ KeyAdmin!Next /\ Others(part)
    \/ part = "ledger" /\ Finance!Next /\ Others(part)
    \/ part = "workflow" /\ Workflow!Next /\ Others(part)
    \/ part = "counsel" /\ Legal!Next /\ Others(part)

Spec == Init /\ [][Next]_allVars

\* Only the live board's loop and its probes are promised to go on; the other parts may stop.
FairSpec == Spec /\ (part = "hub" => Hub!Fairness)

-----------------------------------------------------------------------------
(* Properties.                                                             *)

\* A walk of the portal's pages that nobody disturbs hands over every page once and in order.
QuietWalkIsComplete == part = "browser" => Browser!QuietWalkIsComplete

\* However slowly a listener of the live board reads, it ends up with the newest snapshot.
NewestComesLast == part = "hub" => Hub!NewestComesLast

\* However many find the snapshot of the board too old at once, the systems are probed once.
BurstCostsOneProbe == Hub!BurstCostsOneProbe

\* The board's loop outlives snapshots that fail, and serves whoever listens.
LoopServesListeners == Hub!LoopServesListeners

\* Sweeping the limiter's table takes nothing from a count that runs.
LimitIsExact == part = "limiter" => Limiter!LimitIsExact

\* A process that dies while it writes .env costs the key it was writing at most.
KeysSurviveCrashes == part = "keys" => KeyAdmin!KeysSurviveCrashes

\* The comparison of the live figures with the database lets no difference through and makes none
\* up (but of near-twins, NoFalseAlarm), and a snapshot that says it is complete is the posted books.
LedgerTellsTheTruth == part = "ledger" => Finance!LedgerTellsTheTruth

\* Every document given to the ERP is one that somebody else than its creator approved, and one per
\* invoice; the audit trail ends with what the invoice is.
TrailAccountsForTheErp == part = "workflow" => Workflow!TrailAccountsForTheErp

\* An article that stands in an answer is in a statute loaded when the answer was handed over.
GuardJudgesByTheText == part = "counsel" => Legal!GuardJudgesByTheText

\* An article followed at once by the name of a law is judged by that law.
ExplicitFormWins == Legal!ExplicitFormWins
=============================================================================
