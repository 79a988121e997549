---------------------------- MODULE NamaPaging ----------------------------
(***************************************************************************)
(* NamaClient.list_all (app/integrations/nama/client.py): one collection   *)
(* read page by page, in code order, to exhaustion.  LiveFinance takes a   *)
(* list_all as one step; this module is what that step is made of, with    *)
(* the books changing between two requests.                                *)
(*                                                                         *)
(* Nama is external: books is its answer in code order at this instant,    *)
(* and a page is a slice of it.  A document saved under another code (a    *)
(* draft that is posted) is one document deleted and one inserted.         *)
(***************************************************************************)
EXTENDS Naturals, Sequences, FiniteSets

CONSTANTS
    Docs,        \* the documents that may ever exist
    Refused,     \* those the credential may not read: they take a slot all the same
    FirstBooks,  \* the books when a sweep finds them at their fullest
    PageSize,    \* PAGE_SIZE_MAX
    MaxPages,    \* max_pages
    Retries,     \* retries of list_page
    MaxInserts,  \* bound: documents that appear during the sweep
    MaxDeletes   \* bound: documents that disappear during it

ASSUME PagesAssumption == /\ PageSize \in Nat \ {0}
                           /\ MaxPages \in Nat \ {0}
                           /\ Retries \in Nat
                           /\ MaxInserts \in Nat /\ MaxDeletes \in Nat
ASSUME BooksAssumption == /\ FirstBooks \in Seq(Docs)
                          /\ \A i, j \in 1 .. Len(FirstBooks) :
                                FirstBooks[i] = FirstBooks[j] => i = j

VARIABLES
    books,              \* Nama: the collection in code order
    start,              \* history: the documents there when list_all was called
    inserted, deleted,  \* history: the documents that came and went since
    page, attempt,      \* the page asked for, the request of it
    records,            \* how often each document is in `records`
    inaccessible,       \* how often each document is in `inaccessible`
    exhausted,
    status              \* "reading", "done" or "failed" (UpstreamError)

collection == <<books, start, inserted, deleted>>
result == <<records, inaccessible, exhausted>>
pagingVars == <<collection, page, attempt, result, status>>

PagingInit ==
    /\ \E n \in 0 .. Len(FirstBooks) : books = SubSeq(FirstBooks, 1, n)
    /\ start = {books[i] : i \in 1 .. Len(books)}
    /\ inserted = {}
    /\ deleted = {}
    /\ page = 1
    /\ attempt = 0
    /\ records = [d \in Docs |-> 0]
    /\ inaccessible = [d \in Docs |-> 0]
    /\ exhausted = FALSE
    /\ status = "reading"

-----------------------------------------------------------------------------
(* The books change while they are read.                                   *)

\* A document appears, anywhere in code order.
Insert ==
    \E d \in Docs \ (start \cup inserted), k \in 1 .. Len(books) + 1 :
        /\ Cardinality(inserted) < MaxInserts
        /\ books' = [i \in 1 .. Len(books) + 1 |->
                        IF i < k THEN books[i] ELSE IF i = k THEN d ELSE books[i - 1]]
        /\ inserted' = inserted \cup {d}
        /\ UNCHANGED <<start, deleted, page, attempt, result, status>>

Delete ==
    \E k \in 1 .. Len(books) :
        /\ Cardinality(deleted) < MaxDeletes
        /\ books' = [i \in 1 .. Len(books) - 1 |-> IF i < k THEN books[i] ELSE books[i + 1]]
        /\ deleted' = deleted \cup {books[k]}
        /\ UNCHANGED <<start, inserted, page, attempt, result, status>>

-----------------------------------------------------------------------------
(* The sweep.                                                              *)

\* The positions of the page asked for.  Readable or not, a document takes one.
Slots == {i \in 1 .. Len(books) : (page - 1) * PageSize < i /\ i <= page * PageSize}
OnPage == {books[i] : i \in Slots}

Count(bag, S) == [d \in Docs |-> bag[d] + IF d \in S THEN 1 ELSE 0]

\* Mutant: failed records are not counted towards a full page.
ShortPageByRecords == Cardinality(OnPage \ Refused) < PageSize
ShortPage == Cardinality(Slots) < PageSize

NextPage == page' = page + 1

\* A page with nothing on it (400 with an empty body) ends the loop without being
\* counted; a short one is counted and ends it; after max_pages it ends undecided.
PageArrives ==
    /\ status = "reading"
    /\ records' = Count(records, OnPage \ Refused)
    /\ inaccessible' = Count(inaccessible, OnPage \cap Refused)
    /\ attempt' = 0
    /\ exhausted' = (Slots = {} \/ ShortPage)
    /\ IF exhausted' THEN status' = "done" /\ UNCHANGED page
       ELSE /\ NextPage
            /\ status' = IF page = MaxPages THEN "done" ELSE "reading"
    /\ UNCHANGED collection

\* Mutant: a request that fails for good is taken for the end of the collection.
RequestFailsQuietly ==
    /\ status = "reading"
    /\ attempt' = attempt + 1
    /\ status' = IF attempt = Retries THEN "done" ELSE status
    /\ exhausted' = (attempt = Retries)
    /\ UNCHANGED <<collection, page, records, inaccessible>>

\* Mutant: the attempts start again instead of ending.
RequestFailsForever ==
    /\ status = "reading"
    /\ attempt' = IF attempt < Retries THEN attempt + 1 ELSE 0
    /\ UNCHANGED <<collection, page, result, status>>

\* httpx.RequestError: the same page again, retries times, then UpstreamError.
RequestFails ==
    /\ status = "reading"
    /\ IF attempt < Retries THEN attempt' = attempt + 1 /\ UNCHANGED status
       ELSE status' = "failed" /\ UNCHANGED attempt
    /\ UNCHANGED <<collection, page, result>>

\* An answer that is an error (401, not JSON, failureOccurred, HTTP >= 400 with
\* no records) is not retried.
AnswerIsError ==
    /\ status = "reading"
    /\ status' = "failed"
    /\ UNCHANGED <<collection, page, attempt, result>>

PagingNext == Insert \/ Delete \/ PageArrives \/ RequestFails \/ AnswerIsError

\* The client waits for every request, and each comes to one of its ends.
Fairness == WF_pagingVars(PageArrives \/ RequestFails \/ AnswerIsError)

PagingSpec == PagingInit /\ [][PagingNext]_pagingVars
FairSpec == PagingSpec /\ Fairness

-----------------------------------------------------------------------------
(* Properties.                                                             *)

PagingTypeOK ==
    /\ books \in Seq(Docs)
    /\ start \subseteq Docs /\ inserted \subseteq Docs /\ deleted \subseteq Docs
    /\ page \in 1 .. MaxPages + 1
    /\ attempt \in 0 .. Retries
    /\ records \in [Docs -> Nat]
    /\ inaccessible \in [Docs -> Nat]
    /\ exhausted \in BOOLEAN
    /\ status \in {"reading", "done", "failed"}

Seen(d) == records[d] + inaccessible[d]

\* `complete` of the answer; `truncated` is ~exhausted.
Complete == status = "done" /\ exhausted /\ \A d \in Docs : inaccessible[d] = 0

\* While nothing is deleted, inserts only push documents to later pages: an
\* exhausted sweep has met every document that was there when it was called.
NoLossWithoutDeletion ==
    status = "done" /\ exhausted /\ deleted = {} => \A d \in start : Seen(d) >= 1

\* While nothing is inserted, deletions only pull documents to earlier pages: no
\* document is met twice, whether the sweep ended, failed or goes on.
NoDoubleWithoutInsertion ==
    inserted = {} => \A d \in Docs : Seen(d) <= 1

\* Over books nobody touches, the answer is the collection: every document once,
\* in `records` exactly if the credential may read it, and `complete` exactly if
\* it may read them all.
StillBooksExact ==
    status = "done" /\ exhausted /\ inserted = {} /\ deleted = {} =>
        /\ \A d \in Docs : records[d] = IF d \in start \ Refused THEN 1 ELSE 0
        /\ Complete <=> start \cap Refused = {}

\* The sweep comes to an end, however Nama answers.
Terminates == <>(status # "reading")

-----------------------------------------------------------------------------
(* Said of the code and not kept by it (README, section 6).  No run checks *)
(* what follows: named in the module's run, TLC answers with a trace.      *)

\* "A sum built from an incomplete set must never be able to pass itself off as a
\* true total" (client.py:181): in an answer that says `complete`, every document
\* that was there all along is counted once.
CompleteIsComplete == Complete => \A d \in start \ deleted : records[d] = 1
=============================================================================
