------------------------- MODULE EtaDocumentsProofs -------------------------
(***************************************************************************)
(* What the cache of tax documents keeps, for any documents, calendar,     *)
(* tasks and lists on the screen: that an upsert forgets nothing, and that *)
(* a pull that ends well is not behind what the portal said as it began.   *)
(***************************************************************************)
EXTENDS EtaDocuments, TLAPS

-----------------------------------------------------------------------------
(* Types.                                                                  *)

Words == Statuses \cup {Absent}

\* A list read off the screen has cells of documents the portal has.
PushesTyped ==
    \A push \in pushes : /\ push.shape \in Shape
                         /\ DOMAIN push.cells \subseteq Docs
                         /\ \A d \in DOMAIN push.cells : push.cells[d] \in Statuses \cup {""}

Typed == TypeOK /\ PushesTyped

Pull == [month : Months, next : 0 .. 2 * Windows + 1, listed : [Docs -> Words], todo : SUBSET Docs,
         detailed : SUBSET Docs, began : [Docs -> Words]]

LEMMA WindowsAreThere == Windows \in Nat \ {0}
<1>1. DaysInMonth - 1 \in Nat /\ WINDOW_DAYS \in Nat \ {0}
  BY BoundsAssumption
<1>2. (DaysInMonth - 1) \div WINDOW_DAYS \in Nat
  BY <1>1
<1> QED BY <1>2 DEF Windows

LEMMA AbsentIsNoStatus == Absent \notin Statuses /\ NoRow \notin Row
BY DEF Absent, Statuses, NoRow, Row

LEMMA RankIsANumber ==
  /\ \A s \in Words : Rank[s] \in Nat
  /\ Rank[Absent] = 0
  /\ \A s, u \in Words : Moves(s, u) => Rank[s] < Rank[u] /\ u # Absent
<1>1. \A s \in Words : Rank[s] \in Nat
  BY DEF Rank, Words
<1>2. Rank[Absent] = 0
  BY DEF Rank
<1>3. ASSUME NEW s \in Words, NEW u \in Words, Moves(s, u) PROVE Rank[s] < Rank[u] /\ u # Absent
  <2>1. <<s, u>> \in Lifecycle
    BY <1>3 DEF Moves
  <2>2. <<s, u>> \in Words \X Statuses /\ Rank[<<s, u>>[1]] < Rank[<<s, u>>[2]]
    BY <2>1, LifecycleAssumption DEF Words
  <2> QED BY <2>2, AbsentIsNoStatus
<1> QED BY <1>1, <1>2, <1>3

\* The upsert of one row: a row comes out of it, with the newcomer's status, and nothing that
\* was known of the document is gone.
LEMMA UpsertForgetsNothing ==
  ASSUME NEW old \in Row \cup {NoRow}, NEW new \in Row
  PROVE  /\ Upserted(old, new) \in Row
         /\ Upserted(old, new).status = new.status
         /\ old # NoRow => /\ Upserted(old, new).month = old.month
                           /\ old.vatKnown => Upserted(old, new).vatKnown
                           /\ old.lines => Upserted(old, new).lines
<1>1. CASE old = NoRow
  BY <1>1 DEF Upserted
<1>2. CASE old # NoRow
  <2>1. old \in Row
    BY <1>2
  <2> QED BY <1>2, <2>1 DEF Upserted, Row
<1> QED BY <1>1, <1>2

\* What every change of the cache does to the row of a key.
RowKept(k) ==
    \/ cache'[k] = cache[k]
    \/ \E new \in Row : cache'[k] = Upserted(cache[k], new)

LEMMA UpsertOfRows ==
  ASSUME cache \in [Keys -> Row \cup {NoRow}], NEW rows,
         \A k \in Keys \cap DOMAIN rows : rows[k] \in Row, Upsert(rows)
  PROVE  /\ cache' \in [Keys -> Row \cup {NoRow}]
         /\ \A k \in Keys : RowKept(k)
         /\ \A k \in Keys \cap DOMAIN rows : cache'[k] = Upserted(cache[k], rows[k])
<1>1. \A k \in Keys : cache'[k] = IF k \in DOMAIN rows THEN Upserted(cache[k], rows[k]) ELSE cache[k]
  BY DEF Upsert
<1>2. ASSUME NEW k \in Keys PROVE cache'[k] \in Row \cup {NoRow} /\ RowKept(k)
  <2>1. CASE k \in DOMAIN rows
    <3>1. rows[k] \in Row /\ cache[k] \in Row \cup {NoRow}
      BY <2>1
    <3>2. cache'[k] = Upserted(cache[k], rows[k])
      BY <1>1, <2>1
    <3> QED BY <3>1, <3>2, UpsertForgetsNothing DEF RowKept
  <2>2. CASE k \notin DOMAIN rows
    BY <1>1, <2>2 DEF RowKept
  <2> QED BY <2>1, <2>2
<1>3. cache' \in [Keys -> Row \cup {NoRow}]
  BY <1>2 DEF Upsert
<1> QED BY <1>1, <1>2, <1>3

\* The rows a pull ends with.
LEMMA PulledRowsAreRows ==
  ASSUME NEW rec \in Pull, NEW d \in Listed(rec)
  PROVE  PulledRow(d, rec) \in Row /\ PulledRow(d, rec).status = rec.listed[d]
<1>1. d \in Docs /\ rec.listed[d] \in Statuses
  BY DEF Listed, Pull, Words
<1> QED BY <1>1, DocsAssumption DEF PulledRow, Row

\* The rows of a list.
LEMMA ListedRowsAreRows ==
  ASSUME NEW d \in Docs, NEW cell \in Statuses \cup {""}, NEW shape \in Shape
  PROVE  Normalised(d, cell, shape) \in Row /\ Uuid(d, shape) \in Keys /\ Uuid(d, shape)[1] = d
<1>1. DirectionOf(d, shape) \in {"Sent", "Received"}
  BY DEF DirectionOf
<1>2. StatusOf(cell) \in Statuses
  BY DEF StatusOf, Statuses
<1>3. shape.vat \in BOOLEAN /\ (shape.net \/ shape.vat) \in BOOLEAN
  BY DEF Shape
<1>4. Normalised(d, cell, shape) \in Row
  BY <1>1, <1>2, <1>3, DocsAssumption DEF Normalised, Row
<1> QED BY <1>1, <1>4 DEF Uuid, Keys

-----------------------------------------------------------------------------
(* The steps of a pull.  Each but the failing one makes a record out of    *)
(* the task's and goes on with it.                                         *)

\* The record after one more window was asked for.
ListedBy(t) ==
    LET answer == Answer(pull[t].next, pull[t].month)
    IN  [d \in Docs |-> IF d \in answer THEN portal[d] ELSE pull[t].listed[d]]

GoesOn(t, rec) ==
    /\ rec \in Pull /\ GoOn(t, rec)
    /\ rec.month = pull[t].month /\ rec.began = pull[t].began
    /\ UNCHANGED <<portal, link, pushes, reads, asked, noted>>
    /\ \/ pull[t].next \in 1 .. 2 * Windows /\ rec.next = pull[t].next + 1 /\ rec.listed = ListedBy(t)
       \/ rec.next = pull[t].next /\ rec.listed = pull[t].listed

LEMMA WindowGoesOn ==
  ASSUME Typed, NEW t \in Tasks, ListWindow(t)
  PROVE  \E rec \in Pull : GoesOn(t, rec)
<1> DEFINE old == pull[t]
           news == {d \in Docs : ListedBy(t)[d] # Absent /\ ~Known(d, ListedBy(t)[d])}
           rec == [old EXCEPT !.next = old.next + 1, !.listed = ListedBy(t),
                              !.todo = IF old.next = 2 * Windows THEN news ELSE {}]
<1>1. old \in Pull /\ portal \in [Docs -> Words] /\ Windows \in Nat
  BY WindowsAreThere DEF Typed, TypeOK, Pull, Words
<1>2. ListedBy(t) \in [Docs -> Words]
  BY <1>1 DEF ListedBy, Pull
<1>3. old.next \in 1 .. 2 * Windows /\ UNCHANGED <<portal, link, pushes, reads, asked, noted>>
  BY DEF ListWindow
<1>4. GoOn(t, rec)
  BY DEF ListWindow, ListedBy
<1>5. news \subseteq Docs
  OBVIOUS
<1>6. /\ rec \in Pull /\ rec.month = old.month /\ rec.began = old.began
      /\ rec.next = old.next + 1 /\ rec.listed = ListedBy(t)
  <2> DEFINE todo == IF old.next = 2 * Windows THEN news ELSE {}
  <2>1. todo \in SUBSET Docs /\ old.next + 1 \in 0 .. 2 * Windows + 1
    BY <1>1, <1>3, <1>5
  <2>2. rec = [old EXCEPT !.next = old.next + 1, !.listed = ListedBy(t), !.todo = todo]
    OBVIOUS
  <2> HIDE DEF news, old, todo, rec
  <2> QED BY <1>1, <1>2, <2>1, <2>2 DEF Pull
<1> HIDE DEF rec
<1> QED BY <1>3, <1>4, <1>6 DEF GoesOn

LEMMA DetailsGoOn ==
  ASSUME Typed, NEW t \in Tasks, NEW d \in Docs, ReadDetails(t, d)
  PROVE  \E rec \in Pull : GoesOn(t, rec)
<1>1. pull[t] \in Pull
  BY DEF Typed, TypeOK, Pull, Words
<1>2. PICK got \in {{}, {d}} : GoOn(t, [pull[t] EXCEPT !.todo = @ \ {d}, !.detailed = @ \cup got])
  BY DEF ReadDetails
<1> DEFINE rec == [pull[t] EXCEPT !.todo = @ \ {d}, !.detailed = @ \cup got]
<1>3. /\ rec \in Pull /\ rec.month = pull[t].month /\ rec.began = pull[t].began
      /\ rec.next = pull[t].next /\ rec.listed = pull[t].listed
  BY <1>1 DEF Pull
<1>4. UNCHANGED <<portal, link, pushes, reads, asked, noted>>
  BY DEF ReadDetails
<1>5. GoOn(t, rec)
  BY <1>2
<1> HIDE DEF rec
<1> QED BY <1>3, <1>4, <1>5 DEF GoesOn

\* A pull either ends, with a row for every document it has listed, or is read further.
LEMMA GoingOn ==
  ASSUME Typed, NEW t \in Tasks, NEW rec \in Pull, GoOn(t, rec)
  PROVE  \/ /\ rec.next > 2 * Windows
            /\ cache' \in [Keys -> Row \cup {NoRow}] /\ \A k \in Keys : RowKept(k)
            /\ \A d \in Listed(rec) : cache'[<<d, "portal">>].status = rec.listed[d]
            /\ mark' = [mark EXCEPT ![rec.month] = "ok"]
            /\ pull' = [pull EXCEPT ![t] = Resting(rec.month)]
         \/ pull' = [pull EXCEPT ![t] = rec] /\ UNCHANGED <<cache, mark>>
<1>1. CASE rec.next > 2 * Windows /\ rec.todo = {}
  <2> DEFINE rows == [k \in {<<d, "portal">> : d \in Listed(rec)} |-> PulledRow(k[1], rec)]
  <2>1. Upsert(rows) /\ mark' = [mark EXCEPT ![rec.month] = "ok"] /\ pull' = [pull EXCEPT ![t] = Resting(rec.month)]
    BY <1>1 DEF GoOn
  <2>2. \A d \in Listed(rec) : <<d, "portal">> \in Keys \cap DOMAIN rows /\ rows[<<d, "portal">>] = PulledRow(d, rec)
    BY DEF Listed, Keys
  <2>3. \A k \in Keys \cap DOMAIN rows : rows[k] \in Row
    BY PulledRowsAreRows
  <2>4. cache \in [Keys -> Row \cup {NoRow}]
    BY DEF Typed, TypeOK
  <2> HIDE DEF rows
  <2>5. /\ cache' \in [Keys -> Row \cup {NoRow}] /\ \A k \in Keys : RowKept(k)
        /\ \A k \in Keys \cap DOMAIN rows : cache'[k] = Upserted(cache[k], rows[k])
    BY <2>1, <2>3, <2>4, UpsertOfRows
  <2>6. ASSUME NEW d \in Listed(rec) PROVE cache'[<<d, "portal">>].status = rec.listed[d]
    <3>1. <<d, "portal">> \in Keys /\ cache'[<<d, "portal">>] = Upserted(cache[<<d, "portal">>], PulledRow(d, rec))
      BY <2>2, <2>5
    <3>2. PulledRow(d, rec) \in Row /\ PulledRow(d, rec).status = rec.listed[d]
      BY PulledRowsAreRows
    <3>3. cache[<<d, "portal">>] \in Row \cup {NoRow}
      BY <2>4, <3>1
    <3> QED BY <3>1, <3>2, <3>3, UpsertForgetsNothing
  <2> QED BY <1>1, <2>1, <2>5, <2>6
<1>2. CASE ~(rec.next > 2 * Windows /\ rec.todo = {})
  BY <1>2 DEF GoOn
<1> QED BY <1>1, <1>2

-----------------------------------------------------------------------------
(* Types, and that nothing known is forgotten: both follow from what each  *)
(* door does to the cache.                                                 *)

CacheKept == cache' \in [Keys -> Row \cup {NoRow}] /\ \A k \in Keys : RowKept(k)

LEMMA PullKeepsTheTypes ==
  ASSUME Typed, NEW t \in Tasks, NEW rec \in Pull, GoesOn(t, rec)
  PROVE  Typed' /\ CacheKept
<1>1. rec.month \in Months /\ Resting(rec.month) \in Pull
  BY WindowsAreThere DEF Pull, Resting, Unread, Words
<1>2. pull \in [Tasks -> Pull] /\ mark \in [Months -> {"none", "ok", "failed"}]
      /\ cache \in [Keys -> Row \cup {NoRow}]
  BY DEF Typed, TypeOK, Pull, Words
<1>3. CacheKept /\ mark' \in [Months -> {"none", "ok", "failed"}] /\ pull' \in [Tasks -> Pull]
  BY <1>1, <1>2, GoingOn DEF GoesOn, CacheKept, RowKept
<1> QED BY <1>3 DEF Typed, TypeOK, PushesTyped, Pull, Words, CacheKept, GoesOn

LEMMA IngestKeepsTheTypes ==
  ASSUME Typed, NEW push \in pushes, Ingest(push)
  PROVE  Typed' /\ CacheKept
<1> DEFINE ds == DOMAIN push.cells
           rows == [k \in {Uuid(d, push.shape) : d \in ds} |-> Normalised(k[1], push.cells[k[1]], push.shape)]
<1>1. push.shape \in Shape /\ \A d \in ds : d \in Docs /\ push.cells[d] \in Statuses \cup {""}
  BY DEF Typed, PushesTyped
<1>2. ASSUME NEW k \in Keys \cap DOMAIN rows PROVE rows[k] \in Row
  <2>1. PICK d \in ds : k = Uuid(d, push.shape)
    OBVIOUS
  <2>2. rows[k] = Normalised(d, push.cells[d], push.shape)
    BY <1>1, <2>1, ListedRowsAreRows
  <2> QED BY <1>1, <2>2, ListedRowsAreRows
<1>3. Upsert(rows) /\ mark' = [m \in Months |-> IF \E d \in ds : Received[d] = m THEN "ok" ELSE mark[m]]
      /\ pushes' = pushes \ {push} /\ UNCHANGED <<portal, link, pull, reads, asked, noted>>
  BY DEF Ingest
<1>4. cache \in [Keys -> Row \cup {NoRow}] /\ mark \in [Months -> {"none", "ok", "failed"}]
  BY DEF Typed, TypeOK
<1>5. mark' \in [Months -> {"none", "ok", "failed"}]
  BY <1>3, <1>4
<1> HIDE DEF rows
<1>6. CacheKept
  BY <1>2, <1>3, <1>4, UpsertOfRows DEF CacheKept
<1> QED BY <1>3, <1>5, <1>6 DEF Typed, TypeOK, PushesTyped, CacheKept

LEMMA StepsKeepTheTypes == Typed /\ [Next]_vars => Typed' /\ CacheKept
<1> SUFFICES ASSUME Typed, [Next]_vars PROVE Typed' /\ CacheKept
  OBVIOUS
<1>1. /\ portal \in [Docs -> Words] /\ pull \in [Tasks -> Pull] /\ asked \subseteq Docs /\ noted \subseteq Docs
      /\ mark \in [Months -> {"none", "ok", "failed"}] /\ reads \in 0 .. MaxReads /\ MaxReads \in Nat
      /\ InPlay \subseteq Months /\ Windows \in Nat /\ cache \in [Keys -> Row \cup {NoRow}]
  BY WindowsAreThere, BoundsAssumption, DocsAssumption DEF Typed, TypeOK, Pull, Words
<1>2. ASSUME UNCHANGED cache PROVE CacheKept
  BY <1>1, <1>2 DEF CacheKept, RowKept
<1>3. CASE PortalChanges
  <2>1. PICK d \in Docs, s \in Statuses : portal' = [portal EXCEPT ![d] = s]
    BY <1>3 DEF PortalChanges
  <2>2. portal' \in [Docs -> Words]
    BY <1>1, <2>1 DEF Words
  <2> QED BY <1>2, <1>3, <2>2 DEF PortalChanges, Typed, TypeOK, PushesTyped, Words
<1>4. CASE LinkChanges
  BY <1>2, <1>4 DEF LinkChanges, Typed, TypeOK, PushesTyped
<1>5. ASSUME NEW t \in Tasks, NEW m \in InPlay, StartPull(t, m) PROVE Typed' /\ CacheKept
  <2>1. [Resting(m) EXCEPT !.next = 1, !.began = portal] \in Pull
    <3>1. Resting(m) \in Pull
      BY <1>1 DEF Pull, Resting, Unread, Words
    <3>2. 1 \in 0 .. 2 * Windows + 1
      BY <1>1
    <3> QED BY <1>1, <3>1, <3>2 DEF Pull
  <2>2. pull' \in [Tasks -> Pull]
    BY <1>1, <1>5, <2>1 DEF StartPull
  <2> QED BY <1>2, <1>5, <2>2 DEF StartPull, Typed, TypeOK, PushesTyped, Pull, Words
<1>6. ASSUME NEW t \in Tasks, PullFails(t) PROVE Typed' /\ CacheKept
  <2>1. pull[t].month \in Months /\ Resting(pull[t].month) \in Pull
    BY <1>1 DEF Pull, Resting, Unread, Words
  <2>2. pull' \in [Tasks -> Pull] /\ mark' \in [Months -> {"none", "ok", "failed"}]
    BY <1>1, <1>6, <2>1 DEF PullFails
  <2> QED BY <1>2, <1>6, <2>2 DEF PullFails, Typed, TypeOK, PushesTyped, Pull, Words
<1>7. ASSUME NEW t \in Tasks, PullStep(t) PROVE Typed' /\ CacheKept
  BY <1>6, <1>7, WindowGoesOn, DetailsGoOn, PullKeepsTheTypes DEF PullStep
<1>8. ASSUME NEW ds \in SUBSET Docs, NEW shape \in Shapes, ReadList(ds, shape) PROVE Typed' /\ CacheKept
  <2> DEFINE new == [shape |-> shape, cells |-> [d \in ds |-> IF shape.status THEN portal[d] ELSE ""]]
  <2>1. new.shape \in Shape /\ DOMAIN new.cells = ds
        /\ \A d \in ds : new.cells[d] = IF shape.status THEN portal[d] ELSE ""
    BY ShapesAssumption
  <2>2. \A d \in ds : portal[d] \in Statuses
    BY <1>1, <1>8 DEF ReadList, Words
  <2>3. pushes' = pushes \cup {new} /\ reads' = reads + 1 /\ reads < MaxReads
        /\ UNCHANGED <<portal, link, cache, mark, pull, asked, noted>>
    BY <1>8 DEF ReadList
  <2> HIDE DEF new
  <2>4. PushesTyped'
    BY <2>1, <2>2, <2>3 DEF Typed, PushesTyped
  <2> QED BY <1>1, <1>2, <2>3, <2>4 DEF Typed, TypeOK
<1>9. ASSUME NEW push \in pushes, Ingest(push) \/ PushLost(push) PROVE Typed' /\ CacheKept
  <2>1. CASE PushLost(push)
    BY <1>2, <2>1 DEF PushLost, Typed, TypeOK, PushesTyped
  <2> QED BY <1>9, <2>1, IngestKeepsTheTypes
<1>10. ASSUME NEW d \in Docs, SetState(d) \/ StateAnswered(d) \/ StateAnswerLost(d) PROVE Typed' /\ CacheKept
  <2>1. ChangeOf(d) \in Words
    BY DEF ChangeOf, Words, Statuses
  <2>2. CASE SetState(d)
    <3>1. portal' \in [Docs -> Words]
      BY <1>1, <2>1, <2>2 DEF SetState
    <3> QED BY <1>1, <1>2, <2>2, <3>1 DEF SetState, Typed, TypeOK, PushesTyped, Words
  <2>3. CASE StateAnswered(d)
    BY <1>1, <1>2, <2>3 DEF StateAnswered, Typed, TypeOK, PushesTyped
  <2>4. CASE StateAnswerLost(d)
    BY <1>1, <1>2, <2>4 DEF StateAnswerLost, Typed, TypeOK, PushesTyped
  <2> QED BY <1>10, <2>2, <2>3, <2>4
<1>11. CASE UNCHANGED vars
  BY <1>2, <1>11 DEF vars, Typed, TypeOK, PushesTyped
<1> QED BY <1>3, <1>4, <1>5, <1>7, <1>8, <1>9, <1>10, <1>11 DEF Next

LEMMA TypesBegin == Init => Typed
BY WindowsAreThere, DocsAssumption, BoundsAssumption
   DEF Init, Typed, TypeOK, PushesTyped, Resting, Unread

\* Rows are rows of known documents with one of the portal's statuses, whichever door they came
\* through, and a pull reads what there is to read (upsert, normalise, map_grid, search).
THEOREM TypeCorrect == Spec => []TypeOK
<1>1. Typed => TypeOK
  BY DEF Typed
<1>2. Typed /\ [Next]_vars => Typed'
  BY StepsKeepTheTypes
<1> QED BY <1>1, <1>2, TypesBegin, PTL DEF Spec

\* The VAT and the lines of a document outlive every later row that lacks them, and its month
\* does not move: whoever writes, and in whatever order (the ON CONFLICT of upsert).
THEOREM NothingIsForgotten == Spec => KnownStaysKnown
<1>1. Typed /\ [Next]_vars => [\A k \in Keys : cache[k] # NoRow =>
                        /\ cache'[k] # NoRow /\ cache'[k].month = cache[k].month
                        /\ cache[k].vatKnown => cache'[k].vatKnown
                        /\ cache[k].lines => cache'[k].lines]_cache
  <2> SUFFICES ASSUME Typed, [Next]_vars, NEW k \in Keys, cache[k] # NoRow
               PROVE  /\ cache'[k] # NoRow /\ cache'[k].month = cache[k].month
                      /\ cache[k].vatKnown => cache'[k].vatKnown
                      /\ cache[k].lines => cache'[k].lines
    OBVIOUS
  <2>1. RowKept(k) /\ cache[k] \in Row \cup {NoRow}
    BY StepsKeepTheTypes DEF CacheKept, Typed, TypeOK
  <2>2. CASE cache'[k] = cache[k]
    BY <2>2
  <2>3. ASSUME NEW new \in Row, cache'[k] = Upserted(cache[k], new)
        PROVE  /\ cache'[k] # NoRow /\ cache'[k].month = cache[k].month
               /\ cache[k].vatKnown => cache'[k].vatKnown
               /\ cache[k].lines => cache'[k].lines
    BY <2>1, <2>3, UpsertForgetsNothing, AbsentIsNoStatus
  <2> QED BY <2>1, <2>2, <2>3 DEF RowKept
<1>2. Typed /\ [Next]_vars => Typed'
  BY StepsKeepTheTypes
<1> QED BY <1>1, <1>2, TypesBegin, PTL DEF Spec, KnownStaysKnown

-----------------------------------------------------------------------------
(* That a pull is fresh.  A status only moves forward, so that what the    *)
(* portal says when a window is asked for is no older than what it said    *)
(* when the pull began; and every document of the month is in one window.  *)

\* The number of the window a document is in, of those of both directions.
WindowNo(d) == IF Direction[d] = "Sent" THEN WindowOf(d) ELSE Windows + WindowOf(d)

\* Of the windows asked for so far, what the pull has of their documents is no older than its begin.
Caught(rec) ==
    \A d \in Docs : Issued[d] = rec.month /\ WindowNo(d) < rec.next => Rank[rec.listed[d]] >= Rank[rec.began[d]]

PullsAreFresh ==
    \A t \in Tasks : pull[t].next > 0 => /\ \A d \in Docs : Rank[portal[d]] >= Rank[pull[t].began[d]]
                                         /\ Caught(pull[t])

FreshInv == Typed /\ PullsAreFresh

\* No day of the month is behind the last window.
LEMMA WindowOfADay ==
  ASSUME NEW d \in Docs
  PROVE  WindowOf(d) \in 1 .. Windows /\ WindowNo(d) \in 1 .. 2 * Windows
<1>1. Day[d] - 1 \in Nat /\ DaysInMonth - 1 \in Nat /\ Day[d] - 1 <= DaysInMonth - 1 /\ WINDOW_DAYS \in Nat \ {0}
  BY DocsAssumption, BoundsAssumption
<1> DEFINE x == Day[d] - 1
           y == DaysInMonth - 1
           a == x \div WINDOW_DAYS
           b == y \div WINDOW_DAYS
<1>2. a \in Nat /\ b \in Nat /\ a * WINDOW_DAYS <= x /\ y < b * WINDOW_DAYS + WINDOW_DAYS
  <2>1. x \in Nat /\ y \in Nat
    BY <1>1
  <2> HIDE DEF x, y
  <2> QED BY <1>1, <2>1
<1>3. a <= b
  <2>1. ASSUME b < a PROVE FALSE
    <3> HIDE DEF a, b
    <3>1. a * WINDOW_DAYS = b * WINDOW_DAYS + (a - b) * WINDOW_DAYS
      BY <1>1, <1>2
    <3>2. (a - b) * WINDOW_DAYS >= WINDOW_DAYS
      BY <1>1, <1>2, <2>1
    <3>3. b * WINDOW_DAYS \in Nat /\ (a - b) * WINDOW_DAYS \in Nat
      BY <1>1, <1>2, <2>1
    <3> QED BY <1>1, <1>2, <3>1, <3>2, <3>3
  <2> HIDE DEF a, b
  <2> QED BY <1>2, <2>1
<1>4. WindowOf(d) = a + 1 /\ Windows = b + 1
  BY DEF WindowOf, Windows
<1> HIDE DEF a, b
<1> QED BY <1>2, <1>3, <1>4 DEF WindowNo

\* A document the portal has is in the answer for its window.
LEMMA AnswerHasItsDocuments ==
  ASSUME NEW d \in Docs, portal[d] # Absent
  PROVE  d \in Answer(WindowNo(d), Issued[d])
<1>1. Windows \in Nat \ {0} /\ WindowOf(d) \in 1 .. Windows
  BY WindowsAreThere, WindowOfADay
<1>2. Direction[d] \in {"Sent", "Received"}
  BY DocsAssumption
<1>3. Direction[d] = IF WindowNo(d) <= Windows THEN "Sent" ELSE "Received"
  BY <1>1, <1>2 DEF WindowNo
<1>4. WindowOf(d) = ((WindowNo(d) - 1) % Windows) + 1
  <2>1. CASE Direction[d] = "Sent"
    <3>1. (WindowOf(d) - 1) % Windows = WindowOf(d) - 1
      BY <1>1
    <3> QED BY <1>1, <2>1, <3>1 DEF WindowNo
  <2>2. CASE Direction[d] # "Sent"
    <3>1. (Windows + WindowOf(d) - 1) % Windows = WindowOf(d) - 1
      BY <1>1
    <3> QED BY <1>1, <2>2, <3>1 DEF WindowNo
  <2> QED BY <2>1, <2>2
<1> QED BY <1>3, <1>4 DEF Answer

\* What goes on is as fresh as what was there.
LEMMA GoingOnIsCaught ==
  ASSUME FreshInv, NEW t \in Tasks, NEW rec \in Pull, GoesOn(t, rec), pull[t].next > 0
  PROVE  Caught(rec)
<1>1. pull[t] \in Pull /\ portal \in [Docs -> Words] /\ Windows \in Nat
  BY WindowsAreThere DEF FreshInv, Typed, TypeOK, Pull, Words
<1>2. Caught(pull[t]) /\ \A d \in Docs : Rank[portal[d]] >= Rank[pull[t].began[d]]
  BY DEF FreshInv, PullsAreFresh
<1>3. CASE rec.next = pull[t].next /\ rec.listed = pull[t].listed
  BY <1>2, <1>3 DEF Caught, GoesOn
<1>4. CASE pull[t].next \in 1 .. 2 * Windows /\ rec.next = pull[t].next + 1 /\ rec.listed = ListedBy(t)
  <2> SUFFICES ASSUME NEW d \in Docs, Issued[d] = rec.month, WindowNo(d) < rec.next
               PROVE  Rank[rec.listed[d]] >= Rank[rec.began[d]]
    BY DEF Caught
  <2>1. WindowNo(d) \in 1 .. 2 * Windows
    BY WindowOfADay
  <2>2. rec.listed[d] = portal[d] \/ rec.listed[d] = pull[t].listed[d]
    BY <1>4 DEF ListedBy
  <2>3. /\ portal[d] \in Words /\ pull[t].listed[d] \in Words /\ pull[t].began[d] \in Words
        /\ rec.month = pull[t].month /\ rec.began = pull[t].began
    BY <1>1 DEF Pull, GoesOn
  <2>4. CASE WindowNo(d) < pull[t].next
    <3>1. Rank[pull[t].listed[d]] >= Rank[pull[t].began[d]]
      BY <1>2, <2>3, <2>4 DEF Caught
    <3> QED BY <1>2, <2>2, <2>3, <3>1
  <2>5. CASE WindowNo(d) = pull[t].next
    <3>1. CASE portal[d] # Absent
      <4>1. d \in Answer(pull[t].next, pull[t].month)
        BY <2>3, <2>5, <3>1, AnswerHasItsDocuments
      <4>2. rec.listed[d] = portal[d]
        BY <1>4, <4>1 DEF ListedBy
      <4> QED BY <1>2, <2>3, <4>2
    <3>2. CASE portal[d] = Absent
      <4>1. Rank[pull[t].began[d]] = 0
        BY <1>2, <2>3, <3>2, RankIsANumber
      <4>2. Rank[rec.listed[d]] \in Nat
        BY <2>2, <2>3, RankIsANumber
      <4> QED BY <2>3, <4>1, <4>2
    <3> QED BY <3>1, <3>2
  <2> QED BY <1>1, <1>4, <2>1, <2>4, <2>5 DEF Pull
<1> QED BY <1>3, <1>4 DEF GoesOn

\* The portal moves, and a pull that does not.
LEMMA PortalMovesForward ==
  ASSUME Typed, NEW d \in Docs, NEW s \in Words, Moves(portal[d], s), portal' = [portal EXCEPT ![d] = s]
  PROVE  \A e \in Docs : Rank[portal'[e]] >= Rank[portal[e]]
<1>1. portal \in [Docs -> Words]
  BY DEF Typed, TypeOK, Words
<1>2. Rank[s] \in Nat /\ Rank[portal[d]] \in Nat /\ Rank[portal[d]] < Rank[s]
  BY <1>1, RankIsANumber
<1>3. \A e \in Docs : portal'[e] = IF e = d THEN s ELSE portal[e]
  BY <1>1
<1>4. \A e \in Docs : Rank[portal[e]] \in Nat
  BY <1>1, RankIsANumber
<1> QED BY <1>2, <1>3, <1>4

LEMMA StepsStayFresh == FreshInv /\ [Next]_vars => FreshInv'
<1> SUFFICES ASSUME FreshInv, [Next]_vars PROVE FreshInv'
  OBVIOUS
<1>1. Typed'
  BY StepsKeepTheTypes DEF FreshInv
<1>2. /\ pull \in [Tasks -> Pull] /\ portal \in [Docs -> Words]
      /\ \A d \in Docs : Rank[portal[d]] \in Nat
      /\ \A t \in Tasks : \A d \in Docs : Rank[pull[t].began[d]] \in Nat
  BY RankIsANumber DEF FreshInv, Typed, TypeOK, Pull, Words
<1>3. ASSUME UNCHANGED pull, \A d \in Docs : Rank[portal'[d]] \in Nat /\ Rank[portal'[d]] >= Rank[portal[d]]
      PROVE  FreshInv'
  <2>1. PullsAreFresh'
    BY <1>2, <1>3 DEF FreshInv, PullsAreFresh, Caught
  <2> QED BY <1>1, <2>1 DEF FreshInv
<1>4. ASSUME UNCHANGED <<pull, portal>> PROVE FreshInv'
  BY <1>2, <1>3, <1>4
<1>5. ASSUME NEW t \in Tasks, NEW rec, pull' = [pull EXCEPT ![t] = rec], UNCHANGED portal,
             rec.next > 0 => Caught(rec) /\ \A d \in Docs : Rank[portal[d]] >= Rank[rec.began[d]]
      PROVE  FreshInv'
  <2>1. \A u \in Tasks : pull'[u] = IF u = t THEN rec ELSE pull[u]
    BY <1>2, <1>5
  <2>2. PullsAreFresh'
    BY <1>5, <2>1 DEF FreshInv, PullsAreFresh, Caught
  <2> QED BY <1>1, <2>2 DEF FreshInv
<1>6. ASSUME NEW d \in Docs, NEW s \in Words, Moves(portal[d], s), portal' = [portal EXCEPT ![d] = s], UNCHANGED pull
      PROVE  FreshInv'
  <2>1. \A e \in Docs : Rank[portal'[e]] >= Rank[portal[e]] /\ Rank[portal'[e]] \in Nat
    BY <1>1, <1>6, PortalMovesForward, RankIsANumber DEF FreshInv, Typed, TypeOK, Words
  <2> QED BY <1>3, <1>6, <2>1
<1>7. CASE PortalChanges
  BY <1>6, <1>7 DEF PortalChanges, Words
<1>8. ASSUME NEW t \in Tasks, NEW m \in InPlay, StartPull(t, m) PROVE FreshInv'
  <2> DEFINE rec == [Resting(m) EXCEPT !.next = 1, !.began = portal]
  <2>1. rec.next = 1 /\ rec.began = portal
    BY DEF Resting
  <2>2. pull' = [pull EXCEPT ![t] = rec] /\ UNCHANGED portal
    BY <1>8 DEF StartPull
  <2> HIDE DEF rec
  <2>3. Caught(rec)
    BY <2>1, WindowOfADay DEF Caught
  <2>4. \A d \in Docs : Rank[portal[d]] >= Rank[rec.began[d]]
    BY <1>2, <2>1
  <2> QED BY <1>5, <2>2, <2>3, <2>4
<1>9. ASSUME NEW t \in Tasks, NEW m, pull' = [pull EXCEPT ![t] = Resting(m)], UNCHANGED portal
      PROVE  FreshInv'
  <2> DEFINE rec == Resting(m)
  <2>1. ~(rec.next > 0)
    BY DEF Resting
  <2> HIDE DEF rec
  <2>2. pull' = [pull EXCEPT ![t] = rec]
    BY <1>9 DEF rec
  <2> QED BY <1>5, <1>9, <2>1, <2>2
<1>10. ASSUME NEW t \in Tasks, PullStep(t) PROVE FreshInv'
  <2>1. CASE PullFails(t)
    BY <1>9, <2>1 DEF PullFails
  <2>2. ASSUME NEW rec \in Pull, GoesOn(t, rec) PROVE FreshInv'
    <3>1. pull' = [pull EXCEPT ![t] = Resting(rec.month)] \/ pull' = [pull EXCEPT ![t] = rec]
      BY <2>2, GoingOn DEF GoesOn, FreshInv
    <3>2. UNCHANGED portal /\ rec.began = pull[t].began
      BY <2>2 DEF GoesOn
    <3>3. ASSUME rec.next > 0 PROVE Caught(rec) /\ \A d \in Docs : Rank[portal[d]] >= Rank[rec.began[d]]
      <4>1. pull[t].next > 0
        BY <1>2, <2>2, <3>3 DEF GoesOn, Pull
      <4>2. Caught(rec)
        BY <2>2, <4>1, GoingOnIsCaught
      <4>3. \A d \in Docs : Rank[portal[d]] >= Rank[rec.began[d]]
        BY <3>2, <4>1 DEF FreshInv, PullsAreFresh
      <4> QED BY <4>2, <4>3
    <3>4. CASE pull' = [pull EXCEPT ![t] = Resting(rec.month)]
      BY <1>9, <3>2, <3>4
    <3>5. CASE pull' = [pull EXCEPT ![t] = rec]
      BY <1>5, <3>2, <3>3, <3>5
    <3> QED BY <3>1, <3>4, <3>5
  <2> QED BY <1>10, <2>1, <2>2, WindowGoesOn, DetailsGoOn DEF PullStep, FreshInv
<1>11. ASSUME NEW d \in Docs, SetState(d) \/ StateAnswered(d) \/ StateAnswerLost(d) PROVE FreshInv'
  <2>1. ChangeOf(d) \in Words
    BY DEF ChangeOf, Words, Statuses
  <2> QED BY <1>4, <1>6, <1>11, <2>1 DEF SetState, StateAnswered, StateAnswerLost
<1>12. CASE LinkChanges \/ UNCHANGED vars
  BY <1>4, <1>12 DEF LinkChanges, vars
<1>13. ASSUME NEW ds \in SUBSET Docs, NEW shape \in Shapes, ReadList(ds, shape) PROVE FreshInv'
  BY <1>4, <1>13 DEF ReadList
<1>14. ASSUME NEW push \in pushes, Ingest(push) \/ PushLost(push) PROVE FreshInv'
  BY <1>4, <1>14 DEF Ingest, PushLost
<1> QED BY <1>7, <1>8, <1>10, <1>11, <1>12, <1>13, <1>14 DEF Next

\* The end of a pull: nothing of its month is behind what the portal said when it began.
LEMMA EndIsFresh ==
  ASSUME FreshInv, NEW t \in Tasks, NEW rec \in Pull, GoesOn(t, rec),
         pull[t].next > 0, pull'[t].next = 0, NEW d \in Docs, Issued[d] = pull[t].month
  PROVE  Rank[cache'[<<d, "portal">>].status] >= Rank[pull[t].began[d]]
<1>1. pull \in [Tasks -> Pull] /\ Windows \in Nat /\ rec.month = pull[t].month /\ rec.began = pull[t].began
  BY WindowsAreThere DEF FreshInv, Typed, TypeOK, Pull, Words, GoesOn
<1>2. rec.next # 0
  BY <1>1 DEF GoesOn, Pull
<1>3. /\ rec.next > 2 * Windows
      /\ cache' \in [Keys -> Row \cup {NoRow}]
      /\ \A e \in Listed(rec) : cache'[<<e, "portal">>].status = rec.listed[e]
  <2>1. pull' # [pull EXCEPT ![t] = rec]
    BY <1>1, <1>2
  <2> QED BY <2>1, GoingOn DEF GoesOn, FreshInv
<1>4. Rank[rec.listed[d]] >= Rank[rec.began[d]]
  <2>1. WindowNo(d) < rec.next
    BY <1>1, <1>3, WindowOfADay DEF Pull
  <2> QED BY <1>1, <2>1, GoingOnIsCaught DEF Caught
<1>5. CASE d \in Listed(rec)
  BY <1>1, <1>3, <1>4, <1>5
<1>6. CASE d \notin Listed(rec)
  <2>1. rec.listed[d] = Absent /\ rec.began[d] \in Words
    BY <1>6 DEF Listed, Pull
  <2>2. Rank[rec.began[d]] = 0
    BY <1>4, <2>1, RankIsANumber
  <2>3. cache'[<<d, "portal">>].status \in Words
    BY <1>3 DEF Keys, Row, NoRow, Words
  <2>4. Rank[cache'[<<d, "portal">>].status] \in Nat
    BY <2>3, RankIsANumber
  <2> QED BY <1>1, <2>2, <2>4
<1> QED BY <1>5, <1>6

\* A pull that ends well has every document of its month as far as the portal had it when the
\* pull began, whatever the portal, other pulls and lists did meanwhile (search, sync).
THEOREM PullsEndFresh == Spec => PullIsFresh
<1>1. FreshInv /\ [Next]_vars =>
         [\A t \in Tasks : pull[t].next > 0 /\ pull'[t].next = 0 /\ mark'[pull[t].month] = "ok"
              => \A d \in Docs : Issued[d] = pull[t].month =>
                     Rank[cache'[<<d, "portal">>].status] >= Rank[pull[t].began[d]]]_pull
  <2> SUFFICES ASSUME FreshInv, Next, NEW t \in Tasks,
                      pull[t].next > 0, pull'[t].next = 0, mark'[pull[t].month] = "ok",
                      NEW d \in Docs, Issued[d] = pull[t].month
               PROVE  Rank[cache'[<<d, "portal">>].status] >= Rank[pull[t].began[d]]
    BY DEF vars
  <2>1. /\ pull \in [Tasks -> Pull] /\ mark \in [Months -> {"none", "ok", "failed"}]
        /\ pull[t].month \in Months
    BY DEF FreshInv, Typed, TypeOK, Pull, Words
  <2>2. pull' # pull
    BY <2>1
  <2>3. ASSUME NEW u \in Tasks, NEW m \in InPlay, StartPull(u, m) PROVE FALSE
    <3>1. pull[u].next = 0 /\ u # t
      BY <2>3 DEF StartPull, Pull
    <3> QED BY <2>1, <2>3, <3>1 DEF StartPull
  <2>4. PICK u \in Tasks : PullStep(u)
    <3>1. ~PortalChanges /\ ~LinkChanges
      BY <2>2 DEF PortalChanges, LinkChanges
    <3>2. \A ds \in SUBSET Docs, shape \in Shapes : ~ReadList(ds, shape)
      BY <2>2 DEF ReadList
    <3>3. \A push \in pushes : ~Ingest(push) /\ ~PushLost(push)
      BY <2>2 DEF Ingest, PushLost
    <3>4. \A e \in Docs : ~SetState(e) /\ ~StateAnswered(e) /\ ~StateAnswerLost(e)
      BY <2>2 DEF SetState, StateAnswered, StateAnswerLost
    <3> QED BY <2>3, <3>1, <3>2, <3>3, <3>4 DEF Next
  <2>5. ~PullFails(t)
    BY <2>1 DEF PullFails
  <2>6. u = t
    <3>1. CASE PullFails(u)
      BY <2>1, <3>1 DEF PullFails
    <3>2. ASSUME NEW rec \in Pull, GoesOn(u, rec) PROVE u = t
      <4>1. \E new : pull' = [pull EXCEPT ![u] = new]
        BY <3>2, GoingOn DEF GoesOn, FreshInv
      <4> QED BY <2>1, <4>1
    <3> QED BY <2>4, <3>1, <3>2, WindowGoesOn, DetailsGoOn DEF PullStep, FreshInv
  <2>7. \E rec \in Pull : GoesOn(t, rec)
    BY <2>4, <2>5, <2>6, WindowGoesOn, DetailsGoOn DEF PullStep, FreshInv
  <2> QED BY <2>7, EndIsFresh
<1>2. ASSUME Init PROVE FreshInv
  <2>1. PICK m \in InPlay : pull = [t \in Tasks |-> Resting(m)]
    BY <1>2 DEF Init
  <2>2. PullsAreFresh
    BY <2>1 DEF PullsAreFresh, Resting
  <2> QED BY <1>2, <2>2, TypesBegin DEF FreshInv
<1> QED BY <1>1, <1>2, StepsStayFresh, PTL DEF Spec, PullIsFresh
=============================================================================
