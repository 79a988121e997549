------------------------------ MODULE ImportFile ------------------------------
(***************************************************************************)
(* One shipment file (app/integrations/imports): opened by hand or from a  *)
(* shipment of Nama, edited through the router, and pulled from Nama by    *)
(* syncs that wait for its answer while the file goes on changing.  Each   *)
(* handler of the store is one transaction under one lock; what the screen *)
(* shows is ShipmentPlan's Plan of the file as it stands.                  *)
(***************************************************************************)
EXTENDS ShipmentPlan

CONSTANTS
    Syncs,          \* the calls of POST /sync and of POST /nama/{code}/open
    Codes,          \* shipments of Nama
    NamaFields,     \* the fields Nama owns, of those that the plan reads
    NamaRecords,    \* what Nama may hold of a shipment: NamaFields to values or None
    Openings,       \* the first rows people open a file with
    Edits,          \* the changes people make: [field, value]
    Papers,         \* the documents they record: [kind, received, acid_on_doc]
    Costs,          \* the costs they enter: [amount, currency, invoiced]
    Boxes,          \* the containers they enter
    BoxEdits,       \* the changes they make to one: [field, value]
    StepEdits,      \* the steps they move: [no, state]
    Checks,         \* the checklist entries they make: [key, state]
    LastDay,        \* bound on the calendar
    MaxEdits        \* bound on what people do to the file

Days == 0 .. LastDay

\* A row of the table, every field as CREATE TABLE leaves it.
Blank == [acid |-> None, payment_term |-> None, bl_type |-> None, eta |-> None, ata |-> None, etd |-> None,
          free_days |-> None, free_time_start |-> None, released_at |-> None, demurrage_tariff |-> <<>>,
          containers |-> 0, currency |-> "EGP", fx_rate |-> None, value_fob |-> None, freight |-> None,
          insurance |-> None, qty_ton |-> 0, est_landed_per_ton |-> None, endorsed |-> FALSE,
          telex_verified |-> FALSE, filled |-> {}, nama_code |-> None]
Fields == DOMAIN Blank

\* What each field may hold: a rate of a tariff, a deposit and a number of containers are never negative.
Currencies == {"EGP"} \cup (STRING \ {"EGP"})
Tiers == [from : Int, to : Int, rate : Nat]
Dates == Int \cup {None, Unread}
Values == [acid |-> Acids \cup {None}, payment_term |-> PaymentTerms \cup {None}, bl_type |-> BlTypes \cup {None},
           eta |-> Dates, ata |-> Dates, etd |-> Dates,
           free_days |-> Int \cup {None}, free_time_start |-> Dates, released_at |-> Dates,
           demurrage_tariff |-> Seq(Tiers), containers |-> Nat, currency |-> Currencies, fx_rate |-> Int \cup {None},
           value_fob |-> Int \cup {None}, freight |-> Int \cup {None}, insurance |-> Int \cup {None},
           qty_ton |-> Int, est_landed_per_ton |-> Int \cup {None}, endorsed |-> BOOLEAN,
           telex_verified |-> BOOLEAN, filled |-> SUBSET STRING, nama_code |-> Codes \cup {None}]
IsRow(row) == row = [f \in Fields |-> row[f]] /\ \A f \in Fields : row[f] \in Values[f]
Cost == [amount : Int, currency : Currencies, invoiced : BOOLEAN]
BoxValues == [out_at |-> Dates, returned_at |-> Dates, free_return_days |-> Nat, deposit |-> Nat,
              deposit_back |-> BOOLEAN]
Box == [out_at : Dates, returned_at : Dates, free_return_days : Nat, deposit : Nat, deposit_back : BOOLEAN]

\* The fields of Nama's that are numbers.
Amounts == {"value_fob"}

\* None is neither a number nor a row, and a text that is no date is neither a day nor nothing.
ASSUME NoneAssumption == None \notin Int /\ Unread \notin Int \cup {None} /\ None \notin [Fields -> UNION {Values[f] : f \in Fields}]
ASSUME FieldsAssumption ==
    /\ NamaFields \subseteq Fields
    /\ \A rec \in NamaRecords : \A f \in NamaFields : rec[f] \in Values[f] \cup {None}
    /\ \A row \in Openings : IsRow(row)
    /\ \A e \in Edits : e.field \in Fields /\ e.value \in Values[e.field]
    /\ Costs \subseteq Cost /\ Boxes \subseteq Box
    /\ \A e \in BoxEdits : e.field \in DOMAIN BoxValues /\ e.value \in BoxValues[e.field]
ASSUME BoundsAssumption == LastDay \in Nat /\ MaxEdits \in Nat

VARIABLES
    today,
    file,       \* the row, or None before the file is opened
    docs,       \* kinds of documents recorded: each as [received, acid_on_doc]
    costs, boxes,
    saved,      \* steps moved by hand: their state
    checklist,
    synced,     \* nama_synced_at is set
    nama,       \* what Nama holds of each shipment now
    sync,       \* the calls that wait for Nama
    edits       \* bound: how often people touched the file

vars == <<today, file, docs, costs, boxes, saved, checklist, synced, nama, sync, edits>>
contents == <<docs, costs, boxes, saved, checklist>>

\* touched: whether a person changed, since the call read the file, what Nama owns or the link to it.
AtRest == [at |-> "rest", code |-> None, seen |-> None, rec |-> None, touched |-> FALSE]

Init ==
    /\ today = 0
    /\ file = None
    /\ docs = <<>> /\ costs = <<>> /\ boxes = <<>> /\ saved = <<>> /\ checklist = <<>>
    /\ synced = FALSE
    /\ nama \in [Codes -> NamaRecords]
    /\ sync = [s \in Syncs |-> AtRest]
    /\ edits = 0

-----------------------------------------------------------------------------
(* People.                                                                 *)

Touch == edits < MaxEdits /\ edits' = edits + 1

Create ==
    /\ file = None /\ Touch
    /\ \E row \in Openings : file' = row
    /\ UNCHANGED <<today, contents, synced, nama, sync>>

\* NAMA_FIELDS are refused only as far as they are not editable too, and those here all are.
Update ==
    /\ file # None /\ Touch
    /\ \E e \in Edits :
          /\ file' = [file EXCEPT ![e.field] = IF e.field = "filled" THEN @ \cup e.value ELSE e.value]
          /\ sync' = [s \in Syncs |-> [sync[s] EXCEPT !.touched =
                         @ \/ (sync[s].at # "rest" /\ e.field \in NamaFields \cup {"nama_code"})]]
    /\ UNCHANGED <<today, contents, synced, nama>>

SetStep ==
    /\ Touch
    /\ \E e \in StepEdits : saved' = (e.no :> e.state) @@ saved
    /\ UNCHANGED <<today, file, docs, costs, boxes, checklist, synced, nama, sync>>

SetDoc ==
    /\ Touch
    /\ \E p \in Papers : docs' = (p.kind :> [received |-> p.received, acid_on_doc |-> p.acid_on_doc]) @@ docs
    /\ UNCHANGED <<today, file, costs, boxes, saved, checklist, synced, nama, sync>>

SetCheck ==
    /\ Touch
    /\ \E c \in Checks : checklist' = (c.key :> c.state) @@ checklist
    /\ UNCHANGED <<today, file, docs, costs, boxes, saved, synced, nama, sync>>

AddCost ==
    /\ Touch
    /\ \E c \in Costs : costs' = Append(costs, c)
    /\ UNCHANGED <<today, file, docs, boxes, saved, checklist, synced, nama, sync>>

DeleteCost ==
    /\ Touch
    /\ \E n \in DOMAIN costs : costs' = RemoveAt(costs, n)
    /\ UNCHANGED <<today, file, docs, boxes, saved, checklist, synced, nama, sync>>

AddBox ==
    /\ Touch
    /\ \E b \in Boxes : boxes' = Append(boxes, b)
    /\ UNCHANGED <<today, file, docs, costs, saved, checklist, synced, nama, sync>>

\* Any field of a container, in any order: an empty one comes back, its deposit does.
UpdateBox ==
    /\ Touch
    /\ \E n \in DOMAIN boxes, e \in BoxEdits : boxes' = [boxes EXCEPT ![n][e.field] = e.value]
    /\ UNCHANGED <<today, file, docs, costs, saved, checklist, synced, nama, sync>>

DeleteBox ==
    /\ Touch
    /\ \E n \in DOMAIN boxes : boxes' = RemoveAt(boxes, n)
    /\ UNCHANGED <<today, file, docs, costs, saved, checklist, synced, nama, sync>>

-----------------------------------------------------------------------------
(* Nama.                                                                   *)

\* The fields it holds something in; the others are left alone.
Mapped(rec) == {f \in NamaFields : Set(rec[f])}
Owned(row) == [f \in NamaFields |-> row[f]]
\* What Nama leaves empty is wiped.
OverwriteAll(row, rec) == [f \in DOMAIN row |-> IF f \in NamaFields THEN rec[f] ELSE row[f]]

Overwrite(row, rec) == [f \in DOMAIN row |-> IF f \in NamaFields /\ Set(rec[f]) THEN rec[f] ELSE row[f]]

\* A number of Nama's that is nothing: the comparison has `stored or ""` on the other side, so no
\* stored value is equal to it.
Zero(f, value) == f \in Amounts /\ value = 0

\* What the answer says has changed: against the file as it was read before the wait.
Changed(seen, rec) == {f \in Mapped(rec) : seen[f] # rec[f] \/ Zero(f, rec[f])}

\* A file without a link is told so at once.
StartSync(s) ==
    /\ sync[s] = AtRest /\ file # None /\ file.nama_code # None
    /\ sync' = [sync EXCEPT ![s] = [at |-> "asked", code |-> file.nama_code, seen |-> Owned(file),
                                    rec |-> None, touched |-> FALSE]]
    /\ UNCHANGED <<today, file, contents, synced, nama, edits>>

\* Opening a file from Nama waits for it too.
StartOpening(s) ==
    /\ sync[s] = AtRest /\ file = None
    /\ \E c \in Codes : sync' = [sync EXCEPT ![s] = [AtRest EXCEPT !.at = "asked", !.code = c]]
    /\ UNCHANGED <<today, file, contents, synced, nama, edits>>

NamaAnswers(s) ==
    /\ sync[s].at = "asked"
    /\ sync' = [sync EXCEPT ![s].at = "answered", ![s].rec = nama[sync[s].code]]
    /\ UNCHANGED <<today, file, contents, synced, nama, edits>>

\* No such shipment, or an error on the way: the file stays.
NamaFails(s) ==
    /\ sync[s].at = "asked"
    /\ sync' = [sync EXCEPT ![s] = AtRest]
    /\ UNCHANGED <<today, file, contents, synced, nama, edits>>

\* Every mapped field is written when any of them changed, and none when none did.
Written(row, seen, rec) == IF Changed(seen, rec) # {} THEN Overwrite(row, rec) ELSE row

EndSync(s) ==
    /\ sync[s].at = "answered" /\ sync[s].seen # None
    /\ file' = Written(file, sync[s].seen, sync[s].rec)
    /\ synced' = TRUE
    /\ sync' = [r \in Syncs |-> IF r = s THEN AtRest
                                ELSE [sync[r] EXCEPT !.touched = @ \/ (sync[r].at # "rest" /\ file' # file)]]
    /\ UNCHANGED <<today, contents, nama, edits>>

\* The reference is issued when the row is written, so two openings make two files; this one is
\* the first of them.
EndOpening(s) ==
    /\ sync[s].at = "answered" /\ sync[s].seen = None
    /\ file' = IF file = None THEN [Overwrite(Blank, sync[s].rec) EXCEPT !.nama_code = sync[s].code] ELSE file
    /\ sync' = [sync EXCEPT ![s] = AtRest]
    /\ UNCHANGED <<today, contents, synced, nama, edits>>

NamaMoves ==
    /\ \E c \in Codes, rec \in NamaRecords : nama[c] # rec /\ nama' = [nama EXCEPT ![c] = rec]
    /\ UNCHANGED <<today, file, contents, synced, sync, edits>>

DayPasses ==
    /\ today < LastDay /\ today' = today + 1
    /\ UNCHANGED <<file, contents, synced, nama, sync, edits>>

Next ==
    \/ Create \/ DayPasses \/ NamaMoves
    \/ file # None /\ (Update \/ SetStep \/ SetDoc \/ SetCheck \/ AddCost \/ DeleteCost \/ AddBox \/ UpdateBox
                       \/ DeleteBox)
    \/ \E s \in Syncs : StartSync(s) \/ StartOpening(s) \/ NamaAnswers(s) \/ NamaFails(s) \/ EndSync(s)
                        \/ EndOpening(s)

Spec == Init /\ [][Next]_vars

-----------------------------------------------------------------------------
(* Properties.                                                             *)

Screen == Plan(file, docs, costs, boxes, checklist, saved, today)

TypeOK ==
    /\ today \in Days /\ edits \in 0 .. MaxEdits /\ synced \in BOOLEAN
    /\ file # None => IsRow(file)
    /\ costs \in Seq(Cost) /\ boxes \in Seq(Box)
    /\ DOMAIN docs \subseteq DocKinds /\ DOMAIN checklist \subseteq BlChecklist
    /\ DOMAIN saved \subseteq DOMAIN ALL_STEPS
    /\ nama \in [Codes -> NamaRecords]
    /\ \A s \in Syncs : /\ sync[s].at \in {"rest", "asked", "answered"}
                        /\ sync[s].code \in Codes <=> sync[s].at # "rest"
                        /\ sync[s].rec \in NamaRecords <=> sync[s].at = "answered"

\* The countdown runs by days until the goods are out, and then stands still: each day takes one
\* from what is left, free time that is over is a debt that grows by one day a day and never gets
\* cheaper, its estimate does not come back once the tariff has no answer, and nobody is late who
\* was not warned the day before (clock, _demurrage).
CountdownRuns == [][today' = today + 1 /\ file # None =>
    LET now == Clock(file, boxes, today)  then == Clock(file', boxes', today')
    IN  IF now.released \/ ~Set(now.end) THEN then.overdue = now.overdue /\ then.estimate = now.estimate
        ELSE /\ then.left = now.left - 1
             /\ then.overdue = (IF then.left < 0 THEN -then.left ELSE 0)
             /\ Set(then.estimate) => Set(now.estimate) /\ now.estimate <= then.estimate
             /\ then.state = "overdue" => now.state \in {"warn", "overdue"}]_vars

\* What was paid is what the landed cost says: a file whose amounts all convert has its goods and
\* every one of its costs in the total, in whatever order they were entered, deleted or converted
\* by a rate or a currency that came later, from a person or from Nama (landed).
LandedIsWhatWasPaid ==
    file # None /\ Set(Landed(file, costs).total) /\ ~Landed(file, costs).unconverted =>
        LET rate(currency) == IF currency = "EGP" THEN 1 ELSE OrZero(file.fx_rate)
            paid[n \in 0 .. Len(costs)] == IF n = 0 THEN 0
                                           ELSE paid[n - 1] + costs[n].amount * rate(costs[n].currency)
        IN  Landed(file, costs).total = (file.value_fob + OrZero(file.freight) + OrZero(file.insurance))
                                     * rate(file.currency) + paid[Len(costs)]

\* The rules that tick steps, and the alerts that say the contrary of what they say.
Contrary ==
    {<<"acid_valid", "acid_format">>, <<"acid_match", "acid_mismatch">>, <<"acid_match", "acid_format">>,
     <<"nafeza_accepted", "aci_late">>, <<"nafeza_accepted", "aci_soon">>, <<"release_matrix", "bl_type">>,
     <<"endorsed_if_lc", "not_endorsed">>, <<"telex_verified", "telex">>,
     <<"released_before_freetime", "overdue">>, <<"released_before_freetime", "free_time">>,
     <<"containers_returned", "late_boxes">>, <<"deposits_back", "deposit">>,
     <<"costs_documented", "undocumented">>, <<"landed_ready", "undocumented">>}

\* The same of two rules that take any text for a date, where the alerts go by what `_d` reads.
ContraryByDate ==
    {<<"eta+free_days", "no_clock">>, <<"released_at", "no_clock">>,
     <<"released_at", "overdue">>, <<"released_at", "free_time">>}

\* The rules of the steps that ticked themselves, each beside every alert of the same screen.
SideBySide(screen) ==
    LET ticked == {n \in DOMAIN ALL_STEPS \ DOMAIN saved : screen.steps[n] = "done"}
    IN  {ALL_STEPS[n].auto : n \in ticked} \X screen.alerts

\* The checklist and the alerts of one screen agree (resolve_steps and alerts each decide for
\* themselves): a step that ticked itself never stands beside an alert that says the contrary.
\* Two rules are not among these, and AcidOnBlIsRight and ReadyIsComplete, below, say of them what
\* the code does not keep; two more are so only while the dates can be read (DatesAreRead).
TicksAgreeWithAlerts ==
    file # None =>
        LET shown == SideBySide(Screen)
        IN  /\ shown \cap Contrary = {}
            /\ Unread \notin {file.eta, file.released_at} => shown \cap ContraryByDate = {}

SyncEnds(s) == sync[s].at = "answered" /\ sync[s].seen # None /\ sync'[s] = AtRest

\* The fields of the file that a step changes.
Moved == {f \in Fields : file'[f] # file[f]}

\* A sync during which nobody touched what Nama owns leaves the file as Nama answered, has told of
\* every field it moved, and of no other but a number that Nama has as zero, which it reports each
\* time (sync).
QuietSyncIsExact == [][\A s \in Syncs : SyncEnds(s) /\ ~sync[s].touched =>
    /\ \A f \in Mapped(sync[s].rec) : file'[f] = sync[s].rec[f]
    /\ Moved \subseteq Changed(sync[s].seen, sync[s].rec)
    /\ \A f \in Changed(sync[s].seen, sync[s].rec) \ Moved : Zero(f, sync[s].rec[f])]_vars

-----------------------------------------------------------------------------
(* Said of the code and not kept by it (README, section 6).  No run checks *)
(* what follows: named in the module's run, TLC answers with a trace.      *)

\* No sync moves a field that its answer does not name: "a sync that silently rewrites the ETA
\* under a countdown somebody is watching is worse than no sync".
SyncNeverSilent == [][\A s \in Syncs : SyncEnds(s) =>
                        Moved \subseteq Changed(sync[s].seen, sync[s].rec)]_vars

\* "Returns what changed rather than just ok" (nama_link.py:109): what a quiet sync reports did change.
QuietSyncReportsChanges == [][\A s \in Syncs : SyncEnds(s) /\ ~sync[s].touched =>
                                Changed(sync[s].seen, sync[s].rec) \subseteq Moved]_vars

\* The gate "the ACID is on the bill of lading" goes by the draft alone (engine.py:328), and by the
\* file's number whether it has the form of an ACID or not: it ticks beside a final bill with another.
AcidOnBlIsRight ==
    file # None => SideBySide(Screen) \cap ({"acid_on_bl"} \X {"acid_mismatch", "acid_format"}) = {}

\* A date that cannot be read counts as written for a step and as missing for an alert.
DatesAreRead == file # None => SideBySide(Screen) \cap ContraryByDate = {}

\* A file whose landed cost counts as ready has every cost in it: "a wrong landed cost is worse
\* than no landed cost: nobody re-checks a figure that looks finished".
ReadyIsComplete == file # None /\ Landed(file, costs).ready => ~Landed(file, costs).unconverted
=============================================================================
