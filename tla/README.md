# Stlix gateway: a verification development

TLA+ models of `AbdelrhmanAbdelkafy/stlix-gateway`, the FastAPI process that stands between a
factory's people and its systems: Nama ERP (REST and a restored SQL copy), the Egyptian tax
portal (ETA), cameras, banks, CRM.  Paths below are relative to the repository.

To check a model: `tlc -config <run>.cfg <MC module>`.  To check the proofs: `tlapm <Module>Proofs.tla`.
`PROJECT.json` maps every definition to the lines it models, names for every property a mutation of
the model that breaks it, and lists the hazards the properties are about.

## 1. The system

One uvicorn process, one asyncio event loop.  Most handlers contain no `await` between reading
their state and writing it, so they are atomic; interleaving happens at the awaits (HTTP calls,
`asyncio.Lock`, `sleep`, thread pool) and between the authentication middleware and the handler
behind it.  State is kept in memory (snapshots, verdicts, caches), in SQLite files (accounts,
resets, VAT months, ETA documents, import files), in plain files (`.env`, the cameras' state and
events) and in Nama, which others change.  Two agents run elsewhere: one in the plant's network for the
cameras, one with the browser the accountants sign in to the tax portal with.  `reference/finance-mvp` is a program of its
own, threaded, on SQLAlchemy.

| component | state | operations | what is hard | what makes it correct |
|---|---|---|---|---|
| live finance (`finance/live.py`, `router.py`) | snapshot, `_building`, lock | hourly sweep, manual sweep, reads | sweeps overlap page by page, fail half way | one sweep at a time; a newer snapshot never holds older readings; the loop survives |
| drift guard (`finance/guard.py`) | verdict, lock | check after each sweep or on request; consulted by readers | checks overlap, connections fail, verdict and snapshot age apart | a verdict rests on what was compared; no default reader gets a live figure labelled drift |
| Nama client (`nama/client.py`) | none | paged listing with retries | the collection changes between two pages | nothing lost or counted twice, as far as offset paging can promise |
| reconciliation (`finance/reconcile.py`, `live.py`) | none | keyed comparison of two lists, sums | duplicates, rounding, unreadable rows | a pass means equal documents; a difference is a difference |
| password reset (`auth/reset.py`) | resets table | ask, mail, use, cancel, admin link | crashes between two commits; rolling throttle | one live link, burnt only by a password really set |
| accounts (`auth/store.py`, `service.py`, `router.py`) | users, roles, overrides, signed cookies | login, admin screen | permissions read before an await; half-failed calls on a shared connection; crashes in multi-commit calls | sessions follow rights; revoked stays revoked; an admin remains |
| permissions (`auth/resources.py`, `middleware.py`) | none | path to permission | one list drives cards, guards and screen | no page or API unclaimed; a card is guarded as the page behind it |
| ETA cache (`eta/*`) | documents, month marks, log | API pull, browser's rows, state changes | two writers with different knowledge, both late | nothing known is forgotten; the cache becomes true |
| VAT (`vat/*`) | month rows, imports, alerts | plan, saves, drafts, watcher | carried credit, overlapping sweeps | figures add up; the credit is carried; a due return is chased |
| import files (`imports/*`) | file, steps, documents, costs, containers | edit, sync from Nama | syncs overlap with people; clocks; landed cost | what ticks agrees with what alarms; costs add up |
| cameras (`cctv/*`, `agents/cctv-agent`) | last report, log of events, tails of streams | poll, listen, push, show | lost answers, crashes between two files, threads | each event once at most and in order; the wall is true or stale |
| browser agent (`agents/eta-browser`) | one browser window | walks of a list's pages, commands | two callers drive one window | an undisturbed walk hands over every page once |
| hub (`hub/live.py`) | last snapshot, lock, queues | look, listen, loop | everybody finds the snapshot too old at once; slow listeners | one probe for a burst; a listener ends with the newest |
| rate limiter (`core/middleware.py`) | a count per client and minute | admit or refuse | the table is swept while it counts | exactly the limit |
| keys (`admin/keys.py`) | `.env`, backups, environment | save | a crash while a file is rewritten in place | one key lost at most |
| legal counsel (`legal/*` on `expert/*`) | corpus, index | ask, reindex, guard | files change while the model answers | no article that stands is from nowhere |
| finance MVP (`reference/finance-mvp`) | invoices, audit trail, ERP | submit, approve, reject, post | requests read before others commit; crash after the ERP | one ERP document an invoice, approved by another than its creator |
| rep, workspace, ideas, catalogue, expert, crm, banks, inventory, attendance, MCP servers, mail | little or none | mostly stateless readers | - | see section 7 |

How they interact: readers of finance figures call `_source`, which asks the guard's verdict
whether the live snapshot may be served; the loop sweeps and then checks; a sweep is made of four
`list_all` calls of the Nama client, and a check compares with `reconcile`; password reset calls
`AuthStore.set_password`, on another connection to the same database; every request passes the
limiter and then the middleware, which asks `resources` for a permission and `AuthStore` whether the
account has it; the VAT watcher pulls months into the ETA cache, makes their plan from it and files
alerts; the browser agent's rows enter the same cache through `ingest`.

## 2. Modules

| module | models | checked by |
|---|---|---|
| `LiveFinance` | sweep + guard + router + background loop; one `list_all` is one step | `MCLiveFinance`, `LiveFinanceProofs` |
| `NamaPaging` | that step: `list_all` page by page, with Nama changing | `MCNamaPaging`, `NamaProofs` |
| `PasswordReset` | resets table, links, throttle, crashes; an account is active, disabled or absent | `MCPasswordReset`, `PasswordResetProofs` |
| `AuthStore` | accounts, roles, overrides, cookies, requests in flight, the open transaction, restarts | `MCAuthStore`, `AuthStoreProofs` |
| `Permissions` | the table of paths and what a request needs (no state) | assumptions of `MCAuthStore` |
| `EtaDocuments` | pulls, the browser's rows, state changes on one table | `MCEtaDocuments`, `EtaDocumentsProofs` |
| `VatMonth` | month rows, saves, the watcher's sweeps and alerts | `MCVatMonth`, `VatMonthProofs` |
| `VatPlan` | the arithmetic of a month (no state) | an assumption of `MCVatMonth` |
| `ImportFile` | the file, its papers, costs and containers, syncs | `MCImportFile`, `NamaProofs` |
| `ShipmentPlan` | what the screen decides of a file (no state); used by `ImportFile` | through it |
| `EventRelay` | what the hub promises of events: the abstract specification | implemented by `CctvFeed` |
| `CctvFeed` | agent, tails, push, store, crash | `MCCctvFeed`, `CctvFeedProofs` |
| `PortalBrowser`, `HubLive`, `RateLimiter`, `KeyFile`, `Ledger`, `InvoiceFlow`, `Counsel` | the smaller services, one module each | `MCServices`, `ServicesProofs` |

The `MC*` modules give values for TLC: symmetry, small sequences and sets.

### LiveFinance
A step is the code between two awaits.  `pc[p]` says where task `p` is; `liveQueue` and
`guardQueue` are the FIFO queues of the two class-level `asyncio.Lock`s, whose head holds the
lock.  `rev` counts the changes of the books, and a reading of a collection is the revision it
was read at: this is all the properties tell apart, so amounts are left out.  `StartSweep`,
`ReadCollection`, `PublishSnapshot`, `SweepFails` and `LeaveSweep` are `LiveFinance.refresh`;
`EnterCheck`, `CompareEntity`, `PublishVerdict`, `CheckFails` and `LeaveCheck` are
`DriftGuard.check`; `PostRefresh` and `RunTask` are `POST /live/refresh`, which answers first and
sweeps in a background task; `Get` and `SqlAnswers` are the readers, who may be diverted to SQL.

### NamaPaging
`books` is the collection in code order, a page is a slice of it.  `Insert` and `Delete` are other
people's work in Nama (external).  `PageArrives` is the body of the loop of `list_all`,
`RequestFails` a time-out with its retries in `_request`, `AnswerIsError` an answer `_handle`
refuses.  `records` and `inaccessible` count how often each document was put in each list.
Its specification is `PagingSpec`, so that one module can speak of it and of `ImportFile`.

### PasswordReset
Handlers do not interleave (none awaits), but each commits several times: `stage` is what the
running handler has still to do, and `Crash` may come in between.  Time is a counter; a row keeps
when it was made.  `held` is the set of links whose token reached a person.  The mailer is
reduced to whether the link arrived.  A request has one of `Addresses` or none (`NoAddress`: an `X-Forwarded-For` that begins
with a comma), and one without counts against its account only.

### AuthStore and Permissions
`view` is what the one shared SQLite connection reads, `saved` what was committed.  `Commit`
makes both equal, `Pend` is a call that raised after its first statement: what it wrote stays in
the open transaction until anyone commits (a failed login does) or the process dies
(`Restart`).  A request is `Authorise`d by the middleware and handled later by an actor in
`inflight`; the handler trusts what the middleware saw.  A cookie keeps the version it was
signed with and, as history, the rights and the password it was opened with.  A password is a
model value, a permission an element of `Perms`; `"*"` covers them all.  A cookie that expires
is a logout.  LIKE's wildcards, which can only bump too many sessions, are left out.
`Permissions` is where the permission of a request comes from: the table of `resources.py` path by
path, the longest prefix, the public paths and what the middleware asks for a method.  Its three statements
(cards and guards agree, every page and API is claimed, changing one's own password is not) are
evaluated as assumptions of `MCAuthStore`.

### EtaDocuments
`portal` is the truth, which only moves forward (external); `cache` has a row for each document and
each name it is known by: the portal's uuid, or the one `ingest` makes up when the list hides it.  A pull
(`StartPull`, then `PullStep` window by window of `WINDOW_DAYS`, first the list and then the details)
is `store.sync` over `client.search`, and writes what it read some time ago; `ReadList`, `Ingest` and
`PushLost` are a list read off the screen and handed over later.  `upsert` is one operator for both: a row keeps
whether its VAT, net and lines are known, not how much they are.  `SetState`, `StateAnswered` and
`StateAnswerLost` are the call to the portal, which may be applied and yet time out.

### VatMonth and VatPlan
`rows` has a record or none for each month; `MonthRow` is the row as it is read, which for a month that has none takes
the credit of the month before, and a save writes it (`Inserted`).  `SetStatus`, `SetCreditIn`, `SetCreditOut`,
`SetNotes` and `PostDraft` are the doors by which people come to a row.  A sweep reviews one
month a step: between `StartSweep` and its end anybody may save.  `alerts` are those of the day, for a
kind is filed once for a month and a day.  What a month's documents say is one of `Figures`; how they say it is `VatPlan`:
signs, the estimate of a missing VAT, what the lines of a document say of each activity (their own sums, whatever the document's
amounts are), K by activity, slots, the draft against the plan.  Five
statements of `VatPlan` (the figures add up, and the two activities make up the sales where the lines make up their documents; a credit note cancels its invoice; an estimate is what
would have been printed; a purchase fills one slot; a draft is held to each figure) are
evaluated in `MCVatMonth` over every pile of two documents of a small set, in both modes of K.

### ImportFile and ShipmentPlan
`file` is the row, `docs`, `costs`, `boxes`, `checklist` and `saved` its tables; each action is a handler of
the store with its checks.  A sync is split at its one await: `StartSync` reads the file, `NamaAnswers` takes the
record as it is at that moment, `EndSync` writes.  `ShipmentPlan` has the procedure (46 steps, from
which the phase follows), the ACID gate, the clock with its tiers, the landed cost, the alerts; `Screen` is all of it at once.
`Values` says what each field may hold: a rate of a tariff, a deposit and a number of containers are never negative,
everything else is as free as the columns are: a day, an amount and the bounds of a tier may be any number, and a date may be
`Unread`, text that no rule can read.  `Changed` is what a sync reports, which is not quite what it moves: a stored zero is not the zero
Nama sends (`Zero`).  `Contrary` has the pairs of a rule that ticks a step and an alert that denies it which go by the same paper or
figure, `ContraryByDate` those that agree as long as the dates they go by can be read; the pairs the code lets stand side by side are
in section 6.

### CctvFeed and EventRelay
The agent's round asks a device, drains its tail, pushes and sleeps; each tail is a thread that fills a
buffer of `TailLimit`.  A push may be lost before or after the hub stored it, and the hub may die
between `state.json` and `events.jsonl`.  A round drains the tails one after the other (`Drain`), and their threads go on meanwhile.  `Relay == INSTANCE EventRelay WITH Kept <- MAX_EVENTS` is the
refinement: `happened`, `log` and `told` are the detailed module's own, and every step of agent, line
and hub is a step of the relay or none.  So that an event may be lost but is never told twice or out of order.

### The services of MCServices
Seven modules that share nothing, run one at a time by the variable `part`, with the others standing where they began;
`Running` names those a run looks at.  Each names what it needs of its constants, and `BoundsAssumption` of `MCServices` is all of it.

* `PortalBrowser`: what is in the window (`shown`) and what is being loaded (`coming`) differ for a while after
  each click; a walk is `Read`, `Click`, `Waited` in turn, `WindowMoves` is whoever takes the window elsewhere.
  `control` says whether the portal draws a "next"; without one, and where it is disabled on the last page, the script takes the link whose
  number follows the pages read (`NextByCount`).
* `HubLive`: the lock's queue, the probe inside it, the queues of two, the loop that starts with the first listener
  and ends after the last.  Loop, streams and calls are different tasks.
* `RateLimiter`: one action a request; the sweep of the table is part of it.  A limit of 0 switches it off (`Unlimited`).
* `KeyFile`: a save is backup, staged copy, rewriting in place, environment; a crash cuts off what is open anywhere.
  There are finitely many keys, and at least one backup is kept.  In a container (`contained`) a process is started again with the environment
  of the container's creation (`created`), which pydantic prefers to `.env`; a new deployment creates it again.
* `Ledger`: three versions of the same invoices; what the API hides (`veil`) and what the backup has not yet
  seen; `summarise`, `rest_rows`, `compare`, `verdict` and the lists of balances
  as operators.  Amounts are any whole steps; what two sides call the same is the same to `TOLERANCE` and the rounding of lines.
* `InvoiceFlow`: a request is read, perhaps sent to the ERP, and committed: three steps, with other requests between.
* `Counsel`: files, corpus and index age apart; a question is retrieved, answered and judged in three steps.
  A text is tokens: a law is written by one of its names and nothing else is (`WellWritten`), which is what the
  expressions of `citations.py` see of it; `normalize` drops the marks.

## 3. Runs

| run | bounds | shows |
|---|---|---|
| `LiveFinance` | loop, 1 manual sweep, 1 requested check, 1 revision, one type may differ, one collection lose documents, fairness | snapshots and verdicts only advance; a verdict is what was looked at; snapshot and verdict become true |
| `LiveFinanceReaders` | loop, 1 requested check, 1 reader, 2 revisions | a reader who left the source open never gets a live figure labelled drift, and is diverted only on evidence |
| `NamaPaging` | 7 documents, pages of 2, 3 pages, 1 retry, 2 inserts, 2 deletes, fairness | what a sweep can lose or repeat, and when it cannot; it ends |
| `PasswordReset` | 2 accounts, 1 address or none (those who ask all have one, or none has; admins do), 3 rows, 2 ticks, 1 crash; 1 per account and 2 per address an hour of 2 ticks | one live link, burnt only by a password set, dead links stay dead, one password a link and one more a crash, limits of the throttle |
| `AuthStore` | 2 accounts, 2 roles, 2 permissions, 2 passwords, 3 versions, 1 cookie, 2 requests in flight | sessions have their account's rights; what is refused stays refused; nothing dangles; deletion leaves an admin |
| `AuthRepeated` (violation) | a list that repeats a row | rights change without the session noticing |
| `EtaDocuments` | 1 sale of 31 July received in August, 2 pulling tasks, windows of 30 days, 2 shapes of a list, 1 read of it, fairness | nothing known is forgotten; a finished pull is no older than its beginning; the cache becomes true |
| `VatMonth` | 3 months of 2 days (and `VatPlan` on every pile of 2 documents, with no, one or two lines, which make up their document or not), 2 saves, loop and 1 posted sweep, fairness | the credit is carried however a month came to its row; a due return is chased each day; the watcher goes on |
| `ImportFile` | 2 syncs, 1 shipment with 2 records (the value is 10 or 0), 2 days, 3 edits, a date that cannot be read among them, a number that is no ACID on the file and on the draft | the countdown runs by days and stops; landed cost is what was paid; ticks agree with the alerts that go by the same papers and dates; an undisturbed sync writes what Nama answered, and nothing unreported |
| `CctvFeed` | 2 recorders (1 analog), pictures every 2nd round, stale after 3, tails of 2, pushes of 3, log of 3, 2 events a device, 2 changes of the world, fairness | the feed implements the relay; the wall becomes true, is never stale and shows every camera |
| `Services` | browser: 2 walks, lists of 3 and 1 pages, with and without a "next", 2 pages a walk, 1 move. board: 2 listeners, 1 caller, 3 numbers of snapshots, 1 failure, fairness. limiter: 3 clients, limit 2 or none, table of 1, 2 more minutes. keys: 2, in and out of a container, 3 saves, 2 crashes. ledger: 3 invoices, two of one number, 2 edits. workflow: 2 invoices of one number, 2 requests, 7 rows of trail, 1 death. counsel: 2 slots, 4 files, 4 answers, 2 changes | what each of the seven parts promises; of the board: one probe for a burst, a listener ends with the newest, the loop goes on as long as anybody listens |
| `CounselAlias` (violation) | the counsel of `Services` | the law that follows an article at once does not always judge it |

Why the bounds are enough.  *LiveFinance*: the loop's sweep and a manual one meet in every order, and so do
its check and a requested one; one revision tells an old reading from a new one, and where a
reader keeps an answer two let a verdict turn and turn back.  *NamaPaging*: three pages give one before,
one at and one behind the boundary; a page of two can be partly refused; the books begin empty,
below, at and above a multiple of the page size.  *PasswordReset*: two rows interact at most, the
third is the newcomer; in an hour of two ticks a row of the first tick is counted at the second
and not at the third; addresses are mixed with none only between those who ask and admins (`OneOrigin`), for a row without an address
counts for no address.  *AuthStore*:
two accounts can delete or demote each other; three versions allow two changes after a login, or
a pending one, a crash and another.  *EtaDocuments*: documents meet only in the lists they are read with, so
one is enough; the 31st is in the second window and August's receipts; two tasks give a stale pull against a fresh one,
two shapes a row that knows more and one that knows less.  *VatMonth*: a month, its
predecessor and its successor; two days make a last day and one before it, so that both warning days exist; two saves
are a revision after the next month has its row.  *ImportFile*: two syncs are one that was overtaken; free time of one
day is used up in two; three edits are a cost, a paper and the field that contradicts them; a value of zero is
what the comparison of a sync reports though it did not change.  *CctvFeed*: a tail,
a push and a log that each overflow; an analog camera between two pictures; a recorder that goes and comes back.
*Services*: a walk in the middle of a list and a second one behind it; a listener's queue of two that overflows, and
a listener beside a probe that fails; a table that overflows in
the minute that counts; a crash in each of two saves; two invoices of one number and a third; each pair of requests on one invoice;
one file replaced under a question.  The properties of the modules with proofs do not depend on
the bounds where section 5 proves them.

`CHECK_DEADLOCK FALSE` is said of the modules that stop: a sweep that ended, a bounded clock, a
bound on versions, edits or changes.

What a run leaves out by a constant.  `AuthStore`: no name is created twice
(`Reusable = {}`), every role key is ASCII (`NonAscii = {}`), no list of overrides repeats a row
(`Lists`); section 6 says what happens then, and the theorems that need these say so.  `LiveFinance`: a host without
the guard (`GuardReady = FALSE`), whose check publishes `unknown` at once; the proofs hold for both.
`EtaDocuments`: `RinKnown = FALSE`, where the direction of a row is guessed.

Type invariants are theorems (`TypeCorrect`) of the modules that have proofs of their own, and conjuncts of the inductive
invariants of the services and of the import file.

## 4. Fairness

Weak fairness, of the program's own steps only; none of people, of Nama, of the portal's documents or of lines.

* `LiveFinance`: the steps of the loop, the sweeps and the checks, for asyncio runs every ready
  task, awaited HTTP calls end by their time-out and a lock's waiters are woken in order.
  Convergence is conditional on both sides staying reachable from some point on.  One of these steps has no time-out in the code: the
  guard's SQL query, whose connection has 15 s (`finance/connector.py:114`) but which may then take as long as it likes.  That it ends is assumed.
* `NamaPaging`: an outstanding request is answered, refused or timed out.
* `EtaDocuments`: a pull goes on (each call has a time-out), the loop starts pulls of the months in play again
  and again, and a list that was read is handed over or lost.  `CacheConverges` needs the portal to be reachable for good.
* `VatMonth`: the loop wakes after its sleep, and a review ends one way or the other.
* `CctvFeed`: the agent's endless round, and each tail's reconnecting.  `WallConverges` needs the line to hold for good.
* `HubLive`: the head of the lock enters, a probe ends (its calls have time-outs), the loop's round and the clock.  Only `FairSpec` of
  `MCServices`, which its runs check, assumes this, and only of the hub; the theorems are about `Spec`, `Init /\ [][Next]_allVars`.

## 5. What is proved

For every value of the constants, with no assumption but the named ones of the modules, which TLC evaluates for the runs.

* `LiveFinanceProofs`: `Inductive` (each lock's queue holds exactly the tasks that wait for or hold
  it, without repetition, and the head alone is inside), from which `TypeCorrect`, `OneSweeper`,
  `SnapshotsAdvance`, `VerdictsAdvance` and `EvidenceBacked`; the last, with what `Source` does,
  gives the readers' `NoDriftByDefault` and `DivertedOnEvidence`.  The queue invariant is needed because
  that `_building` is on says nothing of *who* sweeps: exclusion follows from being the head.
* `NamaProofs`, of what is read from Nama.  *Paging*: `Inductive` is about positions: left of the page boundary everything has been
  seen unless something was deleted, right of it nothing unless something was inserted; the
  boundary moves by a page and a page that arrives counts what lies between.  From it
  `NoLoss`, `NoDouble`, `StillExact`, `TypeCorrect`.  *Import file*: `ImportInv` says, besides types, that a
  call which nobody disturbed has read what the file still holds of Nama's (`SyncsReadWell`); without that nothing is known of
  what `EndSync` writes.  From it `SyncsAreExact` (what is written is what Nama answered, and is told; what is told and did not change is a zero) and, with what the screen computes, `TicksAgree` (of the pairs in `Contrary`, and in `ContraryByDate` while dates can be read), `LandedIsPaid` (the screen's
  sum and the property's are one: at the least cost where two such sums parted they would be equal) and `TheCountdownRuns` (a
  tier that is charged is charged more a day later, and a clock that has stopped stands still).
* `PasswordResetProofs`: `RowsOnlyAge` (what a step may do to a row that is there) gives
  `DeadForGood`; the invariant that an account has one *open* link (without the time) gives
  `OneLiveLink`; that a handler about to burn a link has set a password by it gives
  `BurntOnlyBySetting`.  `OneUse` counts: what has set a password is used or about to be, but for
  one crash each, so a link sets one password and one more a crash.
  `ThrottleStands`, of accounts and of addresses there are, needs types only: an hour that held still does, for rows keep what they are counted by, and the hour of a new row is
  what `throttled` counted, and that row.
* `AuthStoreProofs`: one lemma for each operation on the tables (`...Sound`) says that they stay in order
  and that an account changes only together with its version; `StepMoves` reduces every step to three
  shapes: a continuation of what the connection sees, committed or pending, or of what the disk
  held.  From these `TypeCorrect`, `NothingLeftBehind` and `AdminRemains` hold outright.  `Revoked` adds that a
  cookie's version never runs ahead of the disk and needs `Reusable = {}`; `RightsFollow` adds that an account that
  did not change may do what it might, and needs the two other assumptions as well (`Plain`).
* `VatMonthProofs`: `CreditCarried`, in any calendar and after any number of saves.  The property is inductive once rows are
  rows: a save of a month touches what that month begins with and what the next one was given, and `SaveKeepsTheCredit` says when
  it may; the five doors to a row are cases of it.  `DueReturnsChased` follows a sweep from its first month to its last (`ChaseInv`):
  what is due has been chased or is before the sweep (`SweepsOwe`), whoever else sweeps or saves (`SweptHasChased`), and what is
  settled now was so at some time of the day (`SettledIsQuiet`).
* `EtaDocumentsProofs`: `NothingIsForgotten`, an action property: whichever door a row comes by, `upsert` keeps the VAT, the lines and
  the month that were known.  `PullsEndFresh`: of the windows asked for so far, what a pull has listed is no older than what the portal said as the
  pull began (`PullsAreFresh`), since a status only moves forward and every document of the month is in one window.
* `CctvFeedProofs`: `FeedImplementsRelay`, the refinement step by step.  An event is in one place, the buffer of its tail, the batch of a round,
  or told or lost; what is buffered or in the batch is in order and newer than what was told (`TailsAreNews`, `BatchIsNews`), and what was told has
  happened (`ToldHappened`).  Agent and line stutter, a push that is stored is the relay's, and a crash between the files is its loss.
* `ServicesProofs`, of the seven services, which share nothing, so that a step of one is a stutter of the others:
  `QuietWalksAreComplete` (`WindowInv`: while nobody moves it, the window is where the walk thinks, and what was read are the
  pages before; begun on a later page it is so with a "next" and as far as the last page); `NewestReaches` and `OneProbe` (`BoardInv`: the head of the lock's queue probes, and a stream's queue runs on from what it
  sent last to the newest, in order); `LimitHolds` (`TableInv`: with a limit, the table has the minute's requests of each client, and
  no entry of a minute to come, which is what makes a swept table small); `KeysOutliveCrashes` (`FileInv`: the live file is what a save read or
  writes, or else the staged copy and the newest backup are whole; what is live is the container's or the file's); `LedgerTells` (`LedgerInv` is only types, the rest is of operators:
  no two rows have one key, so that a comparison without findings is a bijection; rows as they were are ordered
  as they were unless they are within the tolerance of each other; sums of amounts a rounding apart are that many roundings apart);
  `ErpAccountedFor` (`WorkflowInv`: what a request has read still holds when it commits, whoever commits first);
  `GuardJudges` (`CounselInv`, and of the operators that what the guard confirms is an article of a law the text names).

Induction over data is not to be had from the library here, but over numbers it is: a set of numbers that is not empty has a
least one (`LeastOf`, from the well-foundedness of `<`), and a least counterexample contradicts itself.  So functions defined by recursion
are shown to exist and to be what they should be (sums, normalised texts, sorted lists).

Only model-checked: liveness (`SnapshotConverges`, `VerdictConverges`, `Terminates`, `CacheConverges`, `WatcherKeepsGoing`,
`WallConverges`, `LoopServesListeners`), which is out of the prover's reach; and the statements about `Permissions`, `VatPlan` and
the guard's texts that TLC evaluates as assumptions.  Every invariant and every action property of the runs is a theorem.

## 6. Disagreements and observations

Two have a violation run; `PROJECT.json` quotes both sides.  Repeated overrides are half stored
(`AuthRepeated`): the old list is deleted, the insert refused, and the open transaction stays.  In an answer that names two laws after an article, the law
that is earlier in the list of aliases judges it, not the one that follows at once (`CounselAlias`).

Statements of the docs that the code does not keep are written in the modules, at their ends, as properties no run checks;
each, named in the module's run, gives a trace:

* `LiveFinance!CheckedAfterEverySweep`: a manual refresh is never checked.
* `LiveFinance!DivertNeverSilent`: what is served instead of the live figure does not carry the guard's status.
* `NamaPaging!CompleteIsComplete`: `complete` does not cover changes between pages.
* `PasswordReset!SingleUse`: a crash in `consume` makes a link usable twice.
* `ImportFile!SyncNeverSilent`: a value corrected while a sync waits is put back, unreported, with the next field that differs.
* `ImportFile!ReadyIsComplete`: a landed cost is `ready` though a cost had no rate, so that the step stands ticked beside the alert.
* `ImportFile!QuietSyncReportsChanges`: a stored 0.0 against Nama's 0.0 is reported as changed at each sync, for `nama_link.py:127` compares
  the text of `stored or ""`.
* `ImportFile!AcidOnBlIsRight`: the step "ACID on the bill of lading" is ticked from the draft alone (`engine.py:328`), beside the critical
  alert that the final bill has another number, and by a number that is no ACID.
* `ImportFile!DatesAreRead`: a date that cannot be read is there for a step's rule and missing for an alert's.
* `PasswordReset!EveryRequestCounts`: requests without an address pass the address's limit, for `reset.py:203` counts `if ip`.
* `PortalBrowser!QuietWalkEndsWithTheList`: on the last page, where the portal's "next" is disabled, the script clicks the link whose number
  follows the pages read (`agents/eta-browser/agent.py:272-278`), so that a walk begun on a later page goes back to an earlier one.
* `KeyFile!SavedIsLiveAfterRestart`: "changes land in `.env` (so they survive a restart)" (`keys.py:23-24`); a container restarted does
  not see them: `env_file` of `docker-compose.yml` gives the process the values of the container's creation.
* `EtaDocuments!ChangesAreLogged`: a state change that the portal applied but that timed out is in no log.

Seen while modelling, without a statement of its own:

* *Accounts.* A name deleted and created again revives its cookies; a role with a non-ASCII key is not
  found by LIKE, so that its holders keep their sessions.  The last admin can be disabled by another's request or lose
  `users:admin` by a role edit, for only deletion is guarded.  A link issued before an account was
  disabled, or by an admin at any time, sets a disabled account's password (it stays disabled).
  `POST /api/v1/auth/password` is claimed by no resource and so asks for "edit" on the gateway, which of the
  built-in roles only admin and it have, though `auth/router.py:117` says that users change their own.
  A refused call's open transaction holds SQLite's write lock against `reset.py`'s own connection.
  `is_public` does not look at the method, though `resources.py` says of the agents' posts "writes only".
* *Nama SQL and REST.* The guard leaves out the rows that cannot be read, the script fails on them, though
  `reconcile.py:1-6` claims one implementation.  The branch for a missing code cannot be reached.  Two invoices of one key with equal
worth in one figure and not in the other may be paired crosswise and give a false drift: that the comparison "makes none up" is of books without such near-twins.
* *ETA.* A list without a status counts as valid, one without parties as received; a row under a made-up uuid counts
  beside the API's; an upsert overwrites a net with NULL; a month is frozen at its first insert; `ingest` marks a month as synced of
  which one page was read.
* *VAT.* Returns fall out of play after a month, paid or not.  A failed pull silences the deadline's alert, for `review`
  answers `not_synced` alone.  `watcher.py` says an alert is repeated when the gap changed materially; nothing compares gaps.
  `vat/store.py:15` speaks of an `advance` that does not exist.  The carried credit is frozen at the first save.
* *Import files.* The engine's comment asks for the invoice, the packing list and the bill of lading in draft; any three papers pass.  `free_days = 0` counts as
  not filled.  A cost in foreign currency without a document is not flagged when there is no rate.  `NAMA_FIELDS` are "shown, never edited" and nearly all editable.
* *Agents.* The browser is never launched again after it crashed; a slow page ends a walk early; without a "next" control a walk begun on a
  later page goes to the second; headers are the first page's; `scrape_loop` only logs.  `events[:500]` drops the newest; an analog
  camera is `unknown` between two rounds of pictures.
* *Hub, keys.* A stream whose generator never starts, or `?once` whose snapshot fails, leaves its queue behind, and the loop never
  rests.  After a crash in mid-copy the next save starts from the truncated file; of a repeated line the first is rewritten and the last read.
* *Finance MVP.* A commit of a status read earlier overwrites a newer one, POSTED included.  A second invoice with the same
  vendor and number is answered with the first's ERP document, whatever its amount; vendors without a reference share the key `NA`.
* *Counsel.* Positions found in the raw text are used in the normalised one, which diacritics shift; a file without a tier counts as a
  statute; a precedent with a law's slug makes that law "loaded"; a failed reindex leaves an old index beside a newer corpus; `/draft` reports
  citations and strikes out none.

## 7. Not modelled

Rendering, mail transport, logging, metrics, HTML front ends, scripts and deployment (I/O and
layout).  The expert's answers without a guard and the scoring of passages; the legal templates (texts).
CRM, banks, inventory, attendance, representatives, workspace,
catalogue, registry, graph and ideas read other systems or files and keep no state; the Nama router passes requests on; MCP servers
wrap single calls; the ETA callback and console check a key and relay bytes.  The queries of the SQL connector are what
`LiveFinance` and `Ledger` say they answer.  Balances and ageing are sums over a snapshot.

## 8. Plan

1. The address book of the reset (`set_email`), the listing of import files with its KPIs, the expert's retrieval.
2. A composition of `VatMonth` with `EtaDocuments`, in which a month's figures are those of the cache.
