------------------------------ MODULE VatMonth ------------------------------
(***************************************************************************)
(* The monthly VAT returns of one entity (app/integrations/vat): the rows  *)
(* of vat/store.py with the credit carried from month to month, and the    *)
(* watcher that pulls the live months and files alerts (vat/watcher.py).   *)
(*                                                                         *)
(* Months are numbered, and all are MonthDays long; day 1 is the first of  *)
(* month 1.  What vat/engine.py computes of a month is one of Figures: its *)
(* arithmetic is in VatPlan, the documents it reads are in EtaDocuments.   *)
(***************************************************************************)
EXTENDS Naturals, FiniteSets, Sequences

CONSTANTS
    Loop,             \* the background task, as one that sweeps
    Posted,           \* the calls of POST /vat/sweep
    Figures,          \* what plan may find: see Figure
    LastMonth,        \* bound: the calendar ends with it
    MonthDays,
    RECHECK_DAY,      \* of the next month
    WARNING_DAYS,     \* before the deadline
    None,             \* NULL
    Credits,          \* bound: the amounts of credit that occur
    Patched,          \* bound: the states a person sets by hand
    MaxSaves          \* bound: how often a row is saved

ASSUME CalendarAssumption == /\ MonthDays \in Nat \ {0} /\ LastMonth \in Nat \ {0, 1} /\ MaxSaves \in Nat
                             /\ RECHECK_DAY \in 1 .. MonthDays /\ WARNING_DAYS \in 0 .. MonthDays - 1
                             /\ Loop \notin Posted
Figure == [action : {"buy", "surplus", "ok", "none"}, missed : BOOLEAN, problems : BOOLEAN]
ASSUME FiguresAssumption == Figures \subseteq Figure /\ Figures # {} /\ 0 \in Credits /\ Credits \subseteq Nat

Months == 1 .. LastMonth
States == {"open", "closing", "packaged", "draft_review", "ready_to_pay", "paid", "closed"}
Row == [status : States, in : Credits, out : Credits \cup {None}]
Tasks == {Loop} \cup Posted

ASSUME RowsAssumption == None \notin Row /\ Patched \subseteq States

VARIABLES
    today,     \* days since the calendar began
    rows,      \* months: the row of each month, or none
    sweep,     \* what each sweeping task has still to do
    saves,     \* how often a row was saved
    alerts,    \* alerts of this day; the days before no longer matter
    handmade,  \* history: months whose credit_in a person set
    revised,   \* history: months whose credit_out was set again after the next month had a row
    quiet,     \* history: months that were paid or closed at some time of this day
    swept      \* history: a sweep begun today has ended, with every month synced

vars == <<today, rows, saves, sweep, alerts, handmade, revised, quiet, swept>>

MonthOf(day) == (day - 1) \div MonthDays + 1
LastDay(m) == m * MonthDays
Deadline(m) == LastDay(m + 1)
Recheck(m) == LastDay(m) + RECHECK_DAY

\* The credit of the month before, for a month that has no row yet.
Carried(m) == IF m > 1 /\ rows[m - 1] # None /\ rows[m - 1].out # None THEN rows[m - 1].out ELSE 0
MonthRow(m) == IF rows[m] # None THEN rows[m]
               ELSE [status |-> "open", in |-> Carried(m), out |-> None]

AtRest == [month |-> 0, todo |-> <<>>, day |-> 0, ok |-> FALSE]

Init ==
    /\ today = MonthDays + 1
    /\ rows = [m \in Months |-> None]
    /\ saves = 0
    /\ sweep = [t \in Tasks |-> AtRest]
    /\ alerts = {}
    /\ handmade = {} /\ revised = {} /\ quiet = {}
    /\ swept = FALSE

-----------------------------------------------------------------------------
(* The months.                                                             *)

\* The defaults of the table instead of the row as it is read.
InsertedPlainly(m) == IF rows[m] # None THEN rows[m] ELSE [status |-> "open", in |-> 0, out |-> None]

\* A save writes the row as it is read, then the fields.
Inserted(m) == MonthRow(m)

SaveMonth(m, row) ==
    /\ rows' = [rows EXCEPT ![m] = row]
    /\ quiet' = IF row.status \in {"paid", "closed"} THEN quiet \cup {m} ELSE quiet
    /\ saves < MaxSaves /\ saves' = saves + 1
    /\ UNCHANGED <<today, sweep, alerts, swept>>

\* PATCH: any state, in any order.
SetStatus(m) ==
    /\ \E s \in Patched : SaveMonth(m, [Inserted(m) EXCEPT !.status = s])
    /\ UNCHANGED <<handmade, revised>>

SetCreditIn(m) ==
    /\ \E c \in Credits : SaveMonth(m, [Inserted(m) EXCEPT !.in = c])
    /\ handmade' = handmade \cup {m}
    /\ UNCHANGED revised

SetCreditOut(m) ==
    /\ \E c \in Credits : SaveMonth(m, [Inserted(m) EXCEPT !.out = c])
    /\ revised' = IF m < LastMonth /\ rows[m + 1] # None THEN revised \cup {m} ELSE revised
    /\ UNCHANGED handmade

\* A note, a payment, a receipt, or the trace of a state change of EtaDocuments.
SetNotes(m) ==
    /\ rows[m] = None
    /\ SaveMonth(m, Inserted(m))
    /\ UNCHANGED <<handmade, revised>>

\* The accountant's draft: a full match makes the month ready.
PostDraft(m) ==
    /\ \E match \in BOOLEAN :
          SaveMonth(m, [Inserted(m) EXCEPT !.status = IF match THEN "ready_to_pay" ELSE "draft_review"])
    /\ UNCHANGED <<handmade, revised>>

-----------------------------------------------------------------------------
(* The watcher.                                                            *)

\* The last month counts only once it was worked on.
MonthsTouched == LET this == MonthOf(today)
                 IN  IF rows[this - 1] # None /\ rows[this - 1].status # "closed"
                     THEN <<this, this - 1>> ELSE <<this>>

\* This month, and the last one until its return is closed.
MonthsInPlay == LET this == MonthOf(today)
                IN  IF MonthRow(this - 1).status # "closed" THEN <<this, this - 1>> ELSE <<this>>

\* What is worth saying of a month on a day.
Kinds(m, f, ok, day) ==
    LET st == MonthRow(m).status
    IN  IF ~ok THEN {"not_synced"}
        ELSE {k \in {"gap", "slot_missed", "surplus", "problems", "month_over", "recheck", "deadline"} :
                \/ k = "gap" /\ f.action = "buy"
                \/ k = "slot_missed" /\ f.action = "buy" /\ f.missed
                \/ k = "surplus" /\ f.action = "surplus"
                \/ k = "problems" /\ f.problems
                \/ k = "month_over" /\ day > LastDay(m) /\ st = "open"
                \/ k = "recheck" /\ day >= Recheck(m) /\ st \in {"open", "closing"}
                \/ k = "deadline" /\ st \notin {"paid", "closed"} /\ day + WARNING_DAYS >= Deadline(m)}

\* Inserted or ignored: one alert for each month, kind and day.
Raised(m, kinds, day) == IF day = today THEN alerts \cup {[month |-> m, kind |-> k] : k \in kinds}
                         ELSE alerts

StartSweep(t) ==
    /\ sweep[t] = AtRest
    /\ sweep' = [sweep EXCEPT ![t] = [month |-> Head(MonthsInPlay), todo |-> Tail(MonthsInPlay),
                                      day |-> today, ok |-> TRUE]]
    /\ UNCHANGED <<today, rows, saves, alerts, handmade, revised, quiet, swept>>

\* The pull of a month ends, well or not; its plan (of documents and imports others change)
\* is made and reviewed, and the alerts are filed at once.
ReviewMonth(t) ==
    LET s == sweep[t]
    IN  /\ s.month # 0
        /\ \E ok \in BOOLEAN, f \in Figures :
              /\ alerts' = Raised(s.month, Kinds(s.month, f, ok, s.day), s.day)
              /\ IF s.todo = <<>>
                 THEN /\ sweep' = [sweep EXCEPT ![t] = AtRest]
                      /\ swept' = (swept \/ (s.ok /\ ok /\ s.day = today))
                 ELSE /\ sweep' = [sweep EXCEPT ![t] = [month |-> Head(s.todo), todo |-> Tail(s.todo),
                                                        day |-> s.day, ok |-> s.ok /\ ok]]
                      /\ UNCHANGED swept
        /\ UNCHANGED <<today, rows, saves, handmade, revised, quiet>>

\* The loop without its except: the task is gone.
SweepKillsTheTask(t) ==
    /\ sweep[t].month # 0
    /\ sweep' = [sweep EXCEPT ![t] = [AtRest EXCEPT !.ok = TRUE]]
    /\ UNCHANGED <<today, rows, saves, alerts, handmade, revised, quiet, swept>>

\* Anything but an error of the portal ends the sweep; the loop sleeps and starts again.
SweepFails(t) ==
    /\ sweep[t].month # 0
    /\ sweep' = [sweep EXCEPT ![t] = AtRest]
    /\ UNCHANGED <<today, rows, saves, alerts, handmade, revised, quiet, swept>>

\* Bound: no sweep takes more than a day.
DayPasses ==
    /\ today < LastDay(LastMonth)
    /\ \A t \in Tasks : sweep[t].month = 0 \/ sweep[t].day = today
    /\ today' = today + 1
    /\ alerts' = {}
    /\ quiet' = {m \in Months : MonthRow(m).status \in {"paid", "closed"}}
    /\ swept' = FALSE
    /\ UNCHANGED <<rows, saves, sweep, handmade, revised>>

Next ==
    \/ \E m \in Months : SetStatus(m) \/ SetCreditIn(m) \/ SetCreditOut(m) \/ SetNotes(m)
                         \/ PostDraft(m)
    \/ \E t \in Tasks : StartSweep(t) \/ ReviewMonth(t) \/ SweepFails(t)
    \/ DayPasses

\* The loop wakes after its interval, and a pull ends by its time-out.
Fairness == WF_vars(StartSweep(Loop)) /\ WF_vars(ReviewMonth(Loop) \/ SweepFails(Loop))

Spec == Init /\ [][Next]_vars
FairSpec == Spec /\ Fairness

-----------------------------------------------------------------------------
(* Properties.                                                             *)

TypeOK ==
    /\ today \in 1 .. LastDay(LastMonth)
    /\ rows \in [Months -> Row \cup {None}]
    /\ saves \in 0 .. MaxSaves
    /\ sweep \in [Tasks -> [month : 0 .. LastMonth, todo : Seq(Months), day : Nat, ok : BOOLEAN]]
    /\ alerts \subseteq [month : Months,
                         kind : {"not_synced", "gap", "slot_missed", "surplus", "problems",
                                 "month_over", "recheck", "deadline"}]

\* The credit a month begins with is the one the month before ends with, however the month came
\* to its first row (a status, a note, a draft, the trace of a cancelled document), unless a
\* person set it or the month before was revised afterwards (month_row, save_month).
CreditIsCarried == \A m \in Months \ {1} : rows[m] # None /\ m \notin handmade /\ m - 1 \notin revised
                                            => rows[m].in = Carried(m)

\* On the days before a deadline, a return that was neither paid nor closed that day is chased
\* that day, by whichever sweep began and ended on it with every month synced.
DueReturnIsChased == [][today' # today /\ swept =>
    \A m \in Months : /\ m <= MonthOf(today) /\ today \in Deadline(m) - WARNING_DAYS .. Deadline(m)
                      /\ m \notin quiet
                      => [month |-> m, kind |-> "deadline"] \in alerts]_today

\* The watcher goes on sweeping, whatever fails in a sweep (loop).
WatcherKeepsGoing == []<>(sweep[Loop] = AtRest) /\ []<>(sweep[Loop].day # 0)
=============================================================================
