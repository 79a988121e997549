---------------------------- MODULE LiveFinance ----------------------------
(***************************************************************************)
(* The live finance figure: the sweep that rebuilds it from Nama's REST    *)
(* documents (app/integrations/finance/live.py), the drift guard that      *)
(* reconciles one closed month against the restored database (guard.py)    *)
(* and the endpoints that start a sweep, start a check or read a figure    *)
(* (router.py).                                                            *)
(*                                                                         *)
(* The gateway is one asyncio process: a step of this module is the code   *)
(* between two awaits.  A task waiting for one of the two class-level      *)
(* asyncio.Locks is in that lock's FIFO queue, whose head holds the lock   *)
(* (or has just been woken to take it).                                    *)
(*                                                                         *)
(* rev counts the changes of the books in Nama.  A collection is read in   *)
(* one step here; NamaPaging models the pages that step stands for.        *)
(***************************************************************************)
EXTENDS Naturals, Sequences

CONSTANTS
    Loop,           \* the background task refresh_loop
    Posts,          \* POST /finance/live/refresh requests
    Checks,         \* POST /finance/live/guard requests
    Readers,        \* GET /finance/kpis, /customers and /suppliers requests
    DefaultSource,  \* settings.finance_default_source
    GuardReady,     \* the guard is enabled, and Nama REST and SQL configured
    MayDiffer,      \* bound: the invoice types that may stop agreeing with SQL
    MayRefuse,      \* bound: the collections the credential may lose documents of
    MaxRev          \* bound: how often the books change during a behaviour

ASSUME ProcsAssumption == Loop \notin Posts \cup Checks /\ Posts \cap Checks = {}
ASSUME SettingsAssumption == /\ DefaultSource \in {"sql", "live"}
                             /\ GuardReady \in BOOLEAN
                             /\ MaxRev \in Nat
ASSUME BooksAssumption == /\ MayDiffer \subseteq {"SalesInvoice", "PurchaseInvoice"}
                          /\ MayRefuse \subseteq {"SalesInvoice", "PurchaseInvoice",
                                                  "Customer", "Supplier"}

VARIABLES
    rev, differs, refused,  \* Nama: its revision, the invoice types whose closed
                            \* month disagrees with SQL, the collections with
                            \* documents the credential is refused
    namaUp, sqlUp,          \* whether a call to Nama, to SQL succeeds
    pc,                     \* where each task is
    liveQueue, building,    \* LiveFinance._lock and ._building
    read,                   \* what each sweep has read so far
    snapshot,               \* LiveFinance._snapshot, <<>> for None
    guardQueue,             \* DriftGuard._lock
    looks,                  \* what each check has compared so far
    verdict,                \* DriftGuard._state
    reply,                  \* the last answer of each reader
    checked                 \* history: a verdict was published since the snapshot

nama == <<rev, differs, refused, namaUp, sqlUp>>
sweep == <<liveQueue, building, read, snapshot>>
guard == <<guardQueue, looks, verdict>>
vars == <<nama, sweep, guard, pc, reply, checked>>

Sweepers == {Loop} \cup Posts
Guards == {Loop} \cup Checks
Procs == Sweepers \cup Checks

Entities == <<"SalesInvoice", "PurchaseInvoice">>
Collections == Entities \o <<"Customer", "Supplier">>

Statuses == {"pass", "drift", "unknown"}
Unknown == [status |-> "unknown", looks |-> <<>>]
NoReply == [source |-> "none", asked |-> "default", status |-> "absent"]

Init ==
    /\ rev = 0
    /\ differs = {}
    /\ refused = {}
    /\ namaUp = TRUE
    /\ sqlUp = TRUE
    /\ pc = [p \in Procs |-> "idle"]
    /\ liveQueue = <<>>
    /\ building = FALSE
    /\ read = [p \in Sweepers |-> <<>>]
    /\ snapshot = <<>>
    /\ guardQueue = <<>>
    /\ looks = [p \in Guards |-> <<>>]
    /\ verdict = Unknown
    /\ reply = [r \in Readers |-> NoReply]
    /\ checked = TRUE

-----------------------------------------------------------------------------
(* The world outside: the books, and the two connections.                  *)

Toggle(S, x) == IF x \in S THEN S \ {x} ELSE S \cup {x}

NamaChanges ==
    /\ rev < MaxRev
    /\ rev' = rev + 1
    /\ \/ UNCHANGED <<differs, refused>>
       \/ \E e \in MayDiffer : differs' = Toggle(differs, e) /\ UNCHANGED refused
       \/ \E c \in MayRefuse : refused' = Toggle(refused, c) /\ UNCHANGED differs
    /\ UNCHANGED <<namaUp, sqlUp, sweep, guard, pc, reply, checked>>

LinkChanges ==
    /\ \/ namaUp' = ~namaUp /\ UNCHANGED sqlUp
       \/ sqlUp' = ~sqlUp /\ UNCHANGED namaUp
    /\ UNCHANGED <<rev, differs, refused, sweep, guard, pc, reply, checked>>

-----------------------------------------------------------------------------
(* DriftGuard.                                                             *)

Publish(status, evidence) ==
    /\ verdict' = [status |-> status, looks |-> evidence]
    /\ checked' = TRUE

\* guard.check up to its first await: without configuration it publishes
\* `unknown` and returns; otherwise it waits for the lock.
EnterCheck(p, seen) ==
    IF GuardReady
    THEN /\ guardQueue' = Append(guardQueue, p)
         /\ pc' = [pc EXCEPT ![p] = "guard"]
         /\ checked' = seen
         /\ UNCHANGED verdict
    ELSE /\ Publish("unknown", <<>>)
         /\ pc' = [pc EXCEPT ![p] = "idle"]
         /\ UNCHANGED guardQueue

PostGuard(p) ==
    /\ p \in Checks
    /\ pc[p] = "idle"
    /\ EnterCheck(p, checked)
    /\ UNCHANGED <<nama, sweep, looks, reply>>

\* Mutant: the check does not take its lock.
GuardingUnlocked(p) == pc[p] = "guard"
Guarding(p) == pc[p] = "guard" /\ Head(guardQueue) = p

LeaveCheck(p) ==
    /\ guardQueue' = Tail(guardQueue)
    /\ looks' = [looks EXCEPT ![p] = <<>>]
    /\ pc' = [pc EXCEPT ![p] = "idle"]

\* Mutant: documents that could not be read are not judged.
AgreesByValue(e) == e \notin differs
\* compare, verdict, and the rule that a document the credential may not read
\* makes the entity unclean whatever the comparison says.
Agrees(e) == e \notin differs \cup refused

\* One entity of _run: SQL rows, REST rows, and their comparison.
CompareEntity(p) ==
    /\ Guarding(p)
    /\ Len(looks[p]) < Len(Entities)
    /\ namaUp /\ sqlUp
    /\ LET e == Entities[Len(looks[p]) + 1]
       IN  looks' = [looks EXCEPT ![p] =
                       Append(@, [rev |-> rev, ok |-> Agrees(e)])]
    /\ UNCHANGED <<nama, sweep, guardQueue, verdict, pc, reply, checked>>

PublishVerdict(p) ==
    /\ Guarding(p)
    /\ Len(looks[p]) = Len(Entities)
    /\ Publish(IF \A i \in DOMAIN looks[p] : looks[p][i].ok THEN "pass" ELSE "drift",
               looks[p])
    /\ LeaveCheck(p)
    /\ UNCHANGED <<nama, sweep, reply>>

\* Mutant: an errored check publishes what it had concluded so far.
CheckFailsHalfway(p) ==
    /\ Guarding(p) /\ ~(namaUp /\ sqlUp) /\ Len(looks[p]) < Len(Entities)
    /\ Publish("pass", looks[p])
    /\ LeaveCheck(p)
    /\ UNCHANGED <<nama, sweep, reply>>

CheckFails(p) ==
    /\ Guarding(p)
    /\ Len(looks[p]) < Len(Entities)
    /\ ~(namaUp /\ sqlUp)
    /\ Publish("unknown", <<>>)
    /\ LeaveCheck(p)
    /\ UNCHANGED <<nama, sweep, reply>>

-----------------------------------------------------------------------------
(* The sweep.                                                              *)

\* Mutant: the sweep runs without the lock.
AcquireNothing(p) ==
    /\ liveQueue' = Append(liveQueue, p)
    /\ building' = TRUE
    /\ pc' = [pc EXCEPT ![p] = "sweep"]

\* `async with self._lock`, and `_building = True` when nobody is before us.
Acquire(p) ==
    /\ liveQueue' = Append(liveQueue, p)
    /\ building' = (building \/ liveQueue = <<>>)
    /\ pc' = [pc EXCEPT ![p] = IF liveQueue = <<>> THEN "sweep" ELSE "queued"]

\* Mutant: the loop only fills an empty cache.
LoopWakesOnce ==
    /\ snapshot = <<>> /\ pc[Loop] = "idle"
    /\ Acquire(Loop)
    /\ UNCHANGED <<nama, read, snapshot, guard, reply, checked>>

LoopWakes ==
    /\ pc[Loop] = "idle"
    /\ Acquire(Loop)
    /\ UNCHANGED <<nama, read, snapshot, guard, reply, checked>>

\* The handler looks at _building, not at the lock, and leaves the sweep to a
\* background task.  While a sweep runs the request is refused.
PostRefresh(p) ==
    /\ p \in Posts
    /\ pc[p] = "idle"
    /\ ~building
    /\ pc' = [pc EXCEPT ![p] = "accepted"]
    /\ UNCHANGED <<nama, sweep, guard, reply, checked>>

RunTask(p) ==
    /\ p \in Posts
    /\ pc[p] = "accepted"
    /\ Acquire(p)
    /\ UNCHANGED <<nama, read, snapshot, guard, reply, checked>>

StartSweep(p) ==
    /\ pc[p] = "queued"
    /\ Head(liveQueue) = p
    /\ pc' = [pc EXCEPT ![p] = "sweep"]
    /\ building' = TRUE
    /\ UNCHANGED <<nama, liveQueue, read, snapshot, guard, reply, checked>>

\* One list_all: it also returns what the credential could not read.
ReadCollection(p) ==
    /\ pc[p] = "sweep"
    /\ Len(read[p]) < Len(Collections)
    /\ namaUp
    /\ LET c == Collections[Len(read[p]) + 1]
       IN  read' = [read EXCEPT ![p] =
                      Append(@, [rev |-> rev, whole |-> c \notin refused])]
    /\ UNCHANGED <<nama, liveQueue, building, snapshot, guard, pc, reply, checked>>

\* The `finally`, the release of the lock, and what the caller does next: the
\* loop goes on to guard.check, a background task is over.
LeaveSweep(p, published) ==
    /\ building' = FALSE
    /\ liveQueue' = Tail(liveQueue)
    /\ read' = [read EXCEPT ![p] = <<>>]
    /\ LET seen == checked /\ ~published
       IN  IF p = Loop THEN EnterCheck(p, seen)
           ELSE /\ pc' = [pc EXCEPT ![p] = "idle"]
                /\ checked' = seen
                /\ UNCHANGED <<guardQueue, verdict>>

PublishSnapshot(p) ==
    /\ pc[p] = "sweep"
    /\ Len(read[p]) = Len(Collections)
    /\ snapshot' = read[p]
    /\ LeaveSweep(p, TRUE)
    /\ UNCHANGED <<nama, looks, reply>>

SweepFails(p) ==
    /\ pc[p] = "sweep"
    /\ Len(read[p]) < Len(Collections)
    /\ ~namaUp
    /\ LeaveSweep(p, FALSE)
    /\ UNCHANGED <<nama, snapshot, looks, reply>>

-----------------------------------------------------------------------------
(* The readers.                                                            *)

\* Mutant: the guard's verdict is not consulted.
SourceNoDivert(asked) == IF asked # "default" THEN asked ELSE DefaultSource

\* Mutant: everything but a `pass` diverts.
SourceUnlessPass(asked) ==
    IF asked # "default" THEN asked
    ELSE IF DefaultSource = "live" /\ verdict.status # "pass" THEN "sql"
    ELSE DefaultSource

Source(asked) ==
    IF asked # "default" THEN asked
    ELSE IF DefaultSource = "live" /\ verdict.status = "drift" THEN "sql"
    ELSE DefaultSource

\* A live answer is built without an await, so it carries the verdict it was
\* chosen by.  A SQL answer waits for a thread and carries no verdict.
Get(r, asked) ==
    /\ reply[r].source # "running"
    /\ reply' = [reply EXCEPT ![r] =
           IF Source(asked) = "live"
           THEN [source |-> "live", asked |-> asked, status |-> verdict.status]
           ELSE [source |-> "running", asked |-> asked, status |-> "absent"]]
    /\ UNCHANGED <<nama, sweep, guard, pc, checked>>

SqlAnswers(r) ==
    /\ reply[r].source = "running"
    /\ reply' = [reply EXCEPT ![r].source = IF sqlUp THEN "sql" ELSE "error"]
    /\ UNCHANGED <<nama, sweep, guard, pc, checked>>

-----------------------------------------------------------------------------
SweepStep(p) == \/ RunTask(p) \/ StartSweep(p) \/ ReadCollection(p)
                \/ PublishSnapshot(p) \/ SweepFails(p)
CheckStep(p) == CompareEntity(p) \/ PublishVerdict(p) \/ CheckFails(p)

Next ==
    \/ NamaChanges
    \/ LinkChanges
    \/ LoopWakes
    \/ \E p \in Sweepers : SweepStep(p) \/ PostRefresh(p)
    \/ \E p \in Guards : CheckStep(p) \/ PostGuard(p)
    \/ \E r \in Readers : \/ \E asked \in {"default", "live", "sql"} : Get(r, asked)
                          \/ SqlAnswers(r)

\* Tasks the event loop has started keep running; nobody has to send a request,
\* and neither Nama nor a connection has to change.
Fairness ==
    /\ WF_vars(LoopWakes)
    /\ \A p \in Sweepers : WF_vars(SweepStep(p))
    /\ \A p \in Guards : WF_vars(CheckStep(p))
    /\ \A r \in Readers : WF_vars(SqlAnswers(r))

Spec == Init /\ [][Next]_vars
FairSpec == Spec /\ Fairness

-----------------------------------------------------------------------------
(* Properties.                                                             *)

Revs == 0 .. MaxRev
Reading == [rev : Revs, whole : BOOLEAN]
Look == [rev : Revs, ok : BOOLEAN]
Verdict == [status : Statuses, looks : Seq(Look)]
Answer == [source : {"none", "running", "live", "sql", "error"},
           asked : {"default", "live", "sql"},
           status : Statuses \cup {"absent"}]

TypeOK ==
    /\ rev \in Revs
    /\ differs \subseteq MayDiffer
    /\ refused \subseteq MayRefuse
    /\ namaUp \in BOOLEAN /\ sqlUp \in BOOLEAN
    /\ pc \in [Procs -> {"idle", "accepted", "queued", "sweep", "guard"}]
    /\ liveQueue \in Seq(Sweepers)
    /\ building \in BOOLEAN
    /\ read \in [Sweepers -> Seq(Reading)]
    /\ snapshot \in Seq(Reading)
    /\ guardQueue \in Seq(Guards)
    /\ looks \in [Guards -> Seq(Look)]
    /\ verdict \in Verdict
    /\ reply \in [Readers -> Answer]
    /\ checked \in BOOLEAN

\* _building, which the endpoint reports and refuses on, is TRUE exactly while
\* the task at the head of the lock's queue is inside the sweep, and nobody else
\* is: a failed sweep never leaves it on, a queued one never turns it off.
BuildingIsTheSweep ==
    \A p \in Sweepers : pc[p] = "sweep" <=> (building /\ liveQueue # <<>> /\ Head(liveQueue) = p)

\* Two sweeps never overlap: everything in the snapshot that replaces another was
\* read after the last read of the one it replaces, so a balance cannot go back
\* in time however the hourly loop and manual refreshes interleave.
SnapshotNeverRegresses ==
    [][snapshot # <<>> => snapshot[Len(snapshot)].rev <= snapshot'[1].rev]_snapshot

\* The same for verdicts, hourly or requested: the later verdict looked later.
VerdictNeverRegresses ==
    [][verdict.looks # <<>> /\ verdict'.looks # <<>>
         => verdict.looks[Len(Entities)].rev <= verdict'.looks[1].rev]_verdict

\* "A failure to run the check is reported as unknown, never as pass": `pass`
\* rests on every invoice type having been compared and found clean, `drift` on
\* every one compared and one of them unclean.
VerdictIsEvidence ==
    /\ verdict.status # "unknown" => Len(verdict.looks) = Len(Entities)
    /\ verdict.status = "pass" <=>
         /\ verdict.looks # <<>>
         /\ \A i \in DOMAIN verdict.looks : verdict.looks[i].ok

\* Nobody who left the choice of source to the gateway is given a live figure
\* that is labelled `drift`: the choice and the label are one step.
DefaultLiveNeverDrift ==
    \A r \in Readers : reply[r].source = "live" /\ reply[r].asked = "default"
                         => reply[r].status # "drift"

\* When Nama stays reachable, the served snapshot ends up being the books', and
\* says of every collection whether the credential was refused part of it.
SnapshotConverges ==
    <>[]namaUp =>
        <>[](/\ Len(snapshot) = Len(Collections)
             /\ \A i \in DOMAIN snapshot :
                   snapshot[i] = [rev |-> rev, whole |-> Collections[i] \notin refused])

\* When both sides stay reachable, the verdict ends up being the true one.
VerdictConverges ==
    GuardReady /\ <>[](namaUp /\ sqlUp) =>
        <>[](verdict.status = IF \E i \in DOMAIN Entities : Entities[i] \in differs \cup refused
                              THEN "drift" ELSE "pass")

\* A reader who named no source and is served SQL although `live` is the default.
Diverted(answer) == /\ answer.asked = "default"
                    /\ DefaultSource = "live"
                    /\ answer.source \in {"running", "sql"}

\* Being unable to check is not evidence of a wrong figure: a reader is taken away
\* from the live figure only while every invoice type has been compared and one of
\* them found unclean, never because a check failed, was not run or is not set up.
DivertRestsOnEvidence ==
    [][\A r \in Readers : Diverted(reply[r])' /\ ~Diverted(reply[r])
         => /\ Len(verdict.looks) = Len(Entities)
            /\ \E i \in DOMAIN verdict.looks : ~verdict.looks[i].ok]_vars

-----------------------------------------------------------------------------
(* Said of the code and not kept by it (README, section 6).  No run checks *)
(* what follows: named in the module's run, TLC answers with a trace.      *)

\* guard.py:1 says the figure is checked after every sweep: a snapshot is never
\* replaced before a verdict has been published on it.
CheckedAfterEverySweep ==
    [][\A p \in Sweepers : PublishSnapshot(p) => snapshot = <<>> \/ checked]_vars

\* router.py says of the answer served instead of the live one that it carries the
\* guard's status, so that "the divert is never silent".
DivertNeverSilent ==
    \A r \in Readers : Diverted(reply[r]) /\ reply[r].source = "sql"
                         => reply[r].status # "absent"
=============================================================================
