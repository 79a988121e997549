---------------------------- MODULE EtaDocuments ----------------------------
(***************************************************************************)
(* The cache of tax documents of one entity (app/integrations/eta): pulls  *)
(* through the portal's API (store.sync, client.search), rows a browser    *)
(* read off the portal's list (ingest.py), and the two state changes       *)
(* (router.set_state).  Both doors write the same rows with different      *)
(* knowledge of them, and each wrote down what it saw some time ago.       *)
(*                                                                         *)
(* The portal is external.  A document is issued once, with fixed figures; *)
(* its status only moves forward.  Amounts are left out: a row keeps       *)
(* whether its VAT, its net and its lines are the portal's or unknown.     *)
(***************************************************************************)
EXTENDS Naturals, FiniteSets

CONSTANTS
    Docs,
    Direction,   \* of each document, seen from the entity: "Sent" or "Received"
    Day,         \* the day of the month it was issued
    Issued,      \* the month it was issued in
    Received,    \* the month the portal received it in
    Months,
    InPlay,      \* the months that are pulled
    Lifecycle,   \* the moves of a status on the portal: pairs of from and to
    Loop,        \* the watcher, as a task that pulls
    Posted,      \* the calls of POST /vat/{entity}/{month}/sync
    DaysInMonth, WINDOW_DAYS,
    Shapes,      \* what a list on the screen may show: see Shape
    RinKnown,    \* the entity's registration number is configured
    MaxReads     \* bound: how often the browser reads a list

Shape == [uuid : BOOLEAN, vat : BOOLEAN, net : BOOLEAN, status : BOOLEAN, parties : BOOLEAN]
ASSUME ShapesAssumption == Shapes \subseteq Shape /\ RinKnown \in BOOLEAN
ASSUME DocsAssumption == /\ Direction \in [Docs -> {"Sent", "Received"}]
                         /\ Day \in [Docs -> 1 .. DaysInMonth]
                         /\ Issued \in [Docs -> Months] /\ Received \in [Docs -> Months]
                         /\ InPlay \subseteq Months
ASSUME BoundsAssumption == /\ DaysInMonth \in Nat \ {0} /\ WINDOW_DAYS \in Nat \ {0}
                           /\ MaxReads \in Nat /\ Loop \notin Posted

Statuses == {"submitted", "valid", "invalid", "cancelled", "rejected"}
Absent == "absent"
Rank == [s \in Statuses \cup {Absent} |->
            IF s = Absent THEN 0 ELSE IF s = "submitted" THEN 1
            ELSE IF s \in {"valid", "invalid"} THEN 2 ELSE 3]
ASSUME LifecycleAssumption == \A move \in Lifecycle :
                                /\ move \in (Statuses \cup {Absent}) \X Statuses
                                /\ Rank[move[1]] < Rank[move[2]]

\* A row's primary key: the portal's uuid, or a hash of what a list showed, the direction included.
Keys == Docs \X {"portal", "Sent", "Received"}
Row == [direction : {"Sent", "Received"}, status : Statuses, month : Months,
        vatKnown : BOOLEAN, net : BOOLEAN, lines : BOOLEAN]
NoRow == [status |-> Absent]
Tasks == {Loop} \cup Posted

VARIABLES
    portal,   \* the status of each document on the portal
    link,     \* the portal answers
    cache,    \* documents: a row, or none, for each key
    mark,     \* syncs: what the last pull or ingest said of each month
    pull,     \* what each task that pulls has read so far
    pushes,   \* lists read off the screen and not yet at the gateway
    reads,    \* how many lists were read
    asked,    \* state changes sent to the portal and not answered yet
    noted     \* documents whose state change is in the VAT log

vars == <<portal, link, cache, mark, pull, pushes, reads, asked, noted>>

Unread == [d \in Docs |-> Absent]
Resting(m) == [month |-> m, next |-> 0, listed |-> Unread, todo |-> {}, detailed |-> {}, began |-> Unread]

Init ==
    /\ portal = Unread
    /\ link = TRUE
    /\ cache = [k \in Keys |-> NoRow]
    /\ mark = [m \in Months |-> "none"]
    /\ \E m \in InPlay : pull = [t \in Tasks |-> Resting(m)]
    /\ pushes = {}
    /\ reads = 0
    /\ asked = {}
    /\ noted = {}

-----------------------------------------------------------------------------
(* The portal, its link and its people.                                    *)

Moves(from, to) == <<from, to>> \in Lifecycle

PortalChanges ==
    /\ \E d \in Docs, s \in Statuses : Moves(portal[d], s) /\ portal' = [portal EXCEPT ![d] = s]
    /\ UNCHANGED <<link, cache, mark, pull, pushes, reads, asked, noted>>

LinkChanges ==
    /\ link' = ~link
    /\ UNCHANGED <<portal, cache, mark, pull, pushes, reads, asked, noted>>

-----------------------------------------------------------------------------
(* The table.                                                              *)

\* Without the CASE of vat and vat_known: what the newcomer lacks is lost.
UpsertedPlainly(old, new) == IF old = NoRow THEN new ELSE [new EXCEPT !.month = old.month]

\* A new row as it comes; on conflict the status and the money of the newcomer, the month of
\* the old row, and the VAT, the lines and the direction of whichever has them.
Upserted(old, new) ==
    IF old = NoRow THEN new
    ELSE [new EXCEPT !.month = old.month,
                     !.vatKnown = old.vatKnown \/ new.vatKnown,
                     !.lines = old.lines \/ new.lines]

\* rows is a function from keys to rows: all of them in one transaction.
Upsert(rows) ==
    cache' = [k \in Keys |-> IF k \in DOMAIN rows THEN Upserted(cache[k], rows[k]) ELSE cache[k]]

-----------------------------------------------------------------------------
(* Pulls.  search asks window by window, direction by direction; then every *)
(* document whose status is news has its details read; one upsert ends it. *)

\* The days behind the last full window are not asked for.
WindowsRoundedDown == IF DaysInMonth < WINDOW_DAYS THEN 1 ELSE DaysInMonth \div WINDOW_DAYS

Windows == (DaysInMonth - 1) \div WINDOW_DAYS + 1
WindowOf(d) == (Day[d] - 1) \div WINDOW_DAYS + 1

Answer(n, m) == {d \in Docs : /\ portal[d] # Absent /\ Issued[d] = m
                              /\ Direction[d] = IF n <= Windows THEN "Sent" ELSE "Received"
                              /\ WindowOf(d) = ((n - 1) % Windows) + 1}

\* Its VAT is there for this very status: the details are not asked for again.
Known(d, status) == LET row == cache[<<d, "portal">>]
                    IN  row # NoRow /\ row.vatKnown /\ row.status = status

PulledRow(d, rec) == [direction |-> Direction[d], status |-> rec.listed[d], month |-> Issued[d],
                      vatKnown |-> d \in rec.detailed, net |-> TRUE, lines |-> d \in rec.detailed]
\* A document whose details could not be read is skipped.
ListedWithDetails(rec) == {d \in Docs : rec.listed[d] # Absent /\ (d \in rec.detailed \/ Known(d, rec.listed[d]))}
Listed(rec) == {d \in Docs : rec.listed[d] # Absent}

StartPull(t, m) ==
    /\ pull[t].next = 0
    /\ t = Loop => InPlay = {m} \/ m # pull[t].month   \* its months in turn
    /\ pull' = [pull EXCEPT ![t] = [Resting(m) EXCEPT !.next = 1, !.began = portal]]
    /\ UNCHANGED <<portal, link, cache, mark, pushes, reads, asked, noted>>

\* Nothing is awaited between the last answer and the upsert.
GoOn(t, rec) ==
    IF rec.next > 2 * Windows /\ rec.todo = {}
    THEN /\ Upsert([k \in {<<d, "portal">> : d \in Listed(rec)} |-> PulledRow(k[1], rec)])
         /\ mark' = [mark EXCEPT ![rec.month] = "ok"]
         /\ pull' = [pull EXCEPT ![t] = Resting(rec.month)]
    ELSE /\ pull' = [pull EXCEPT ![t] = rec]
         /\ UNCHANGED <<cache, mark>>

ListWindow(t) ==
    LET rec    == pull[t]
        answer == Answer(rec.next, rec.month)
        listed == [d \in Docs |-> IF d \in answer THEN portal[d] ELSE rec.listed[d]]
        news   == {d \in Docs : listed[d] # Absent /\ ~Known(d, listed[d])}
    IN  /\ rec.next \in 1 .. 2 * Windows /\ link
        /\ GoOn(t, [rec EXCEPT !.next = @ + 1, !.listed = listed,
                               !.todo = IF rec.next = 2 * Windows THEN news ELSE {}])
        /\ UNCHANGED <<portal, link, pushes, reads, asked, noted>>

\* The details of one document; EtaError leaves it without.
ReadDetails(t, d) ==
    /\ d \in pull[t].todo /\ link
    /\ \E got \in {{}, {d}} :
          GoOn(t, [pull[t] EXCEPT !.todo = @ \ {d}, !.detailed = @ \cup got])
    /\ UNCHANGED <<portal, link, pushes, reads, asked, noted>>

\* A time-out, a token refused, an error in the list: nothing is stored.
PullFails(t) ==
    /\ pull[t].next > 0 /\ ~link
    /\ pull' = [pull EXCEPT ![t] = Resting(pull[t].month)]
    /\ mark' = [mark EXCEPT ![pull[t].month] = "failed"]
    /\ UNCHANGED <<portal, link, cache, pushes, reads, asked, noted>>

-----------------------------------------------------------------------------
(* The browser's door.                                                     *)

\* map_grid: the parties of the row tell the direction, if we know who we are ...
GridDirection(d, shape) == IF RinKnown /\ shape.parties THEN Direction[d] ELSE ""
\* ... and normalise takes what is not a sale for a purchase.
DirectionOf(d, shape) == IF GridDirection(d, shape) = "Sent" THEN "Sent" ELSE "Received"

\* A cell without a word counts as valid.
StatusOf(cell) == IF cell = "" THEN "valid" ELSE cell

Uuid(d, shape) == <<d, IF shape.uuid THEN "portal" ELSE DirectionOf(d, shape)>>

\* A grid dates by receipt; a net that is not shown is the total without the VAT that is.
Normalised(d, cell, shape) ==
    [direction |-> DirectionOf(d, shape), status |-> StatusOf(cell), month |-> Received[d],
     vatKnown |-> shape.vat, net |-> shape.net \/ shape.vat, lines |-> FALSE]

ReadList(ds, shape) ==
    /\ reads < MaxReads
    /\ ds # {} /\ \A d \in ds : portal[d] # Absent
    /\ reads' = reads + 1
    /\ pushes' = pushes \cup {[shape |-> shape,
                               cells |-> [d \in ds |-> IF shape.status THEN portal[d] ELSE ""]]}
    /\ UNCHANGED <<portal, link, cache, mark, pull, asked, noted>>

\* Every month of the list is marked, whatever the list was a part of.
Ingest(push) ==
    LET ds == DOMAIN push.cells
    IN  /\ push \in pushes
        /\ Upsert([k \in {Uuid(d, push.shape) : d \in ds} |-> Normalised(k[1], push.cells[k[1]], push.shape)])
        /\ mark' = [m \in Months |-> IF \E d \in ds : Received[d] = m THEN "ok" ELSE mark[m]]
        /\ pushes' = pushes \ {push}
        /\ UNCHANGED <<portal, link, pull, reads, asked, noted>>

PushLost(push) ==
    /\ push \in pushes
    /\ pushes' = pushes \ {push}
    /\ UNCHANGED <<portal, link, cache, mark, pull, reads, asked, noted>>

-----------------------------------------------------------------------------
(* Cancelling our own document, rejecting one sent to us.                  *)

ChangeOf(d) == IF Direction[d] = "Sent" THEN "cancelled" ELSE "rejected"

SetState(d) ==
    /\ link /\ d \notin asked
    /\ Moves(portal[d], ChangeOf(d))
    /\ portal' = [portal EXCEPT ![d] = ChangeOf(d)]
    /\ asked' = asked \cup {d}
    /\ UNCHANGED <<link, cache, mark, pull, pushes, reads, noted>>

\* The portal's answer came, and the change is logged; the cache waits for the next pull.
StateAnswered(d) ==
    /\ d \in asked
    /\ asked' = asked \ {d}
    /\ noted' = noted \cup {d}
    /\ UNCHANGED <<portal, link, cache, mark, pull, pushes, reads>>

\* A time-out: httpx's own error is not an EtaError, and the handler ends before its log.
StateAnswerLost(d) ==
    /\ d \in asked
    /\ asked' = asked \ {d}
    /\ UNCHANGED <<portal, link, cache, mark, pull, pushes, reads, noted>>

PullStep(t) == ListWindow(t) \/ PullFails(t) \/ \E d \in Docs : ReadDetails(t, d)

Next ==
    \/ PortalChanges \/ LinkChanges
    \/ \E t \in Tasks, m \in InPlay : StartPull(t, m)
    \/ \E t \in Tasks : PullStep(t)
    \/ \E ds \in SUBSET Docs, shape \in Shapes : ReadList(ds, shape)
    \/ \E push \in pushes : Ingest(push) \/ PushLost(push)
    \/ \E d \in Docs : SetState(d) \/ StateAnswered(d) \/ StateAnswerLost(d)

\* asyncio runs every ready task and every call ends by its time-out; the watcher's loop goes on.
Fairness ==
    /\ \A t \in Tasks : WF_vars(PullStep(t))
    /\ WF_vars(\E m \in InPlay : StartPull(Loop, m))
    /\ WF_vars(\E push \in pushes : Ingest(push) \/ PushLost(push))

Spec == Init /\ [][Next]_vars
FairSpec == Spec /\ Fairness

-----------------------------------------------------------------------------
(* Properties.                                                             *)

TypeOK ==
    /\ portal \in [Docs -> Statuses \cup {Absent}]
    /\ link \in BOOLEAN
    /\ cache \in [Keys -> Row \cup {NoRow}]
    /\ mark \in [Months -> {"none", "ok", "failed"}]
    /\ pull \in [Tasks -> [month : Months, next : 0 .. 2 * Windows + 1,
                           listed : [Docs -> Statuses \cup {Absent}], todo : SUBSET Docs,
                           detailed : SUBSET Docs, began : [Docs -> Statuses \cup {Absent}]]]
    /\ reads \in 0 .. MaxReads
    /\ asked \subseteq Docs /\ noted \subseteq Docs

\* What is known of a document is never forgotten: whichever door it came through, its VAT and
\* its lines outlive every later row that lacks them (the ON CONFLICT of upsert), and its month
\* does not move between two returns.
KnownStaysKnown == [][\A k \in Keys : cache[k] # NoRow =>
                        /\ cache'[k] # NoRow /\ cache'[k].month = cache[k].month
                        /\ cache[k].vatKnown => cache'[k].vatKnown
                        /\ cache[k].lines => cache'[k].lines]_cache

\* A pull that ends well leaves no document of its month behind what the portal said when the
\* pull began: issued, cancelled or rejected before, each shows up (sync, upsert).
PullIsFresh == [][\A t \in Tasks : pull[t].next > 0 /\ pull'[t].next = 0 /\ mark'[pull[t].month] = "ok"
                     => \A d \in Docs : Issued[d] = pull[t].month =>
                            Rank[cache'[<<d, "portal">>].status] >= Rank[pull[t].began[d]]]_pull

\* Once the portal can be reached for good, the cache ends up with every document and its
\* status, whatever stale pulls and lists were still on their way.
CacheConverges == <>[]link => \A d \in {d \in Docs : Issued[d] \in InPlay} : <>[](cache[<<d, "portal">>].status = portal[d])

-----------------------------------------------------------------------------
(* Said of the code and not kept by it (README, section 6).  No run checks *)
(* what follows: named in the module's run, TLC answers with a trace.      *)

\* Every state change made through the gateway is in the log once its call is over.
ChangesAreLogged == \A d \in Docs : portal[d] \in {"cancelled", "rejected"} => d \in asked \cup noted
=============================================================================
