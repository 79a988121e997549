----------------------------- MODULE NamaProofs -----------------------------
(***************************************************************************)
(* What is read from Nama, for every instance: a collection page by page   *)
(* (NamaPaging), and a shipment into its import file (ImportFile).  They   *)
(* share no state; each has its own specification, PagingSpec and Spec.    *)
(*                                                                         *)
(* Paging is about positions: an insert moves documents to the right, so   *)
(* what lies left of the page boundary has been read; a delete moves them  *)
(* to the left, so what lies right of it has not.                          *)
(*                                                                         *)
(* The import file is about who has read what: a call that nobody          *)
(* disturbed still holds what the file holds of Nama's (ImportInv).  The   *)
(* sums of its screen are compared entry by entry, by the least entry      *)
(* where two of them part (LeastOf).                                       *)
(***************************************************************************)
EXTENDS NamaPaging, ImportFile, SequenceTheorems, FiniteSetTheorems, WellFoundedInduction, TLAPS

\* Where the page asked for begins.
Boundary == (page - 1) * PageSize

Distinct == \A i, j \in 1 .. Len(books) : books[i] = books[j] => i = j
Known == /\ \A i \in 1 .. Len(books) : books[i] \in start \cup inserted
         /\ \A d \in Docs : Seen(d) > 0 => d \in start \cup inserted
         /\ start \cap inserted = {}
         /\ deleted = {} => \A d \in start : \E i \in 1 .. Len(books) : books[i] = d
Sorted == \A d \in Docs : /\ records[d] > 0 => d \notin Refused
                          /\ inaccessible[d] > 0 => d \in Refused
Asked == status = "reading" => page <= MaxPages
Behind == deleted = {} =>
            \A i \in 1 .. Len(books) :
                i <= Boundary /\ books[i] \in start => Seen(books[i]) >= 1
Ahead == inserted = {} /\ status = "reading" =>
            \A i \in 1 .. Len(books) : i > Boundary => Seen(books[i]) = 0

IInv == /\ PagingTypeOK /\ Asked /\ Distinct /\ Known /\ Sorted
        /\ Behind /\ NoLossWithoutDeletion
        /\ Ahead /\ NoDoubleWithoutInsertion

\* The next page begins where this one ends.
LEMMA NextBoundary ==
  ASSUME NEW k \in Nat, k >= 1
  PROVE  /\ (k - 1) * PageSize \in Nat
         /\ k * PageSize = (k - 1) * PageSize + PageSize
         /\ (k + 1 - 1) * PageSize = k * PageSize
<1>1. PageSize \in Nat
  BY PagesAssumption
<1>2. PICK m \in Nat : k = m + 1
  BY SMT
<1>3. m * PageSize \in Nat /\ (m + 1) * PageSize = m * PageSize + PageSize
  BY <1>1, SMT
<1> QED
  BY <1>1, <1>2, <1>3, SMT

\* A page that arrives counts the documents on it once, and no others.
LEMMA PageCounts ==
  ASSUME PagingTypeOK, PageArrives, NEW d \in Docs
  PROVE  /\ Seen(d)' = Seen(d) + (IF d \in OnPage THEN 1 ELSE 0)
         /\ records'[d] = records[d] + (IF d \in OnPage /\ d \notin Refused THEN 1 ELSE 0)
         /\ inaccessible'[d] = inaccessible[d] + (IF d \in OnPage /\ d \in Refused THEN 1 ELSE 0)
         /\ records[d] \in Nat /\ inaccessible[d] \in Nat
<1>1. /\ records'[d] = records[d] + (IF d \in OnPage \ Refused THEN 1 ELSE 0)
      /\ inaccessible'[d] = inaccessible[d] + (IF d \in OnPage \cap Refused THEN 1 ELSE 0)
  BY DEF PageArrives, Count
<1>2. records[d] \in Nat /\ inaccessible[d] \in Nat
  BY DEF PagingTypeOK
<1> QED
  BY <1>1, <1>2 DEF Seen

\* The page is what lies between two boundaries.
LEMMA PageSlots ==
  ASSUME PagingTypeOK, Distinct, NEW i \in 1 .. Len(books)
  PROVE  /\ books[i] \in Docs
         /\ books[i] \in OnPage <=> Boundary < i /\ i <= Boundary + PageSize
<1>1. books \in Seq(Docs) /\ Len(books) \in Nat /\ books[i] \in Docs
  BY DEF PagingTypeOK
<1>2. page \in Nat /\ page >= 1
  BY PagesAssumption DEF PagingTypeOK
<1>3. page * PageSize = Boundary + PageSize
  BY <1>2, NextBoundary DEF Boundary
<1>4. i \in Slots <=> Boundary < i /\ i <= Boundary + PageSize
  BY <1>3 DEF Slots, Boundary
<1>5. books[i] \in OnPage <=> i \in Slots
  <2>1. ASSUME books[i] \in OnPage PROVE i \in Slots
    <3>1. PICK j \in Slots : books[i] = books[j]
      BY <2>1 DEF OnPage
    <3>2. j \in 1 .. Len(books)
      BY DEF Slots
    <3> QED
      BY <3>1, <3>2 DEF Distinct
  <2> QED
    BY <2>1 DEF OnPage
<1> QED
  BY <1>1, <1>4, <1>5

\* A sweep that stops at a short page has the rest of the collection on it.
LEMMA ShortPageIsLast ==
  ASSUME PagingTypeOK, Slots = {} \/ ShortPage
  PROVE  Len(books) <= Boundary + PageSize
<1>1. Len(books) \in Nat /\ PageSize \in Nat \ {0} /\ page \in Nat /\ page >= 1
  BY PagesAssumption DEF PagingTypeOK
<1>2. Boundary \in Nat /\ page * PageSize = Boundary + PageSize
  BY <1>1, NextBoundary DEF Boundary
<1> SUFFICES ASSUME Len(books) > Boundary + PageSize PROVE FALSE
  BY <1>1, <1>2
<1>3. Slots = (Boundary + 1) .. (Boundary + PageSize)
  BY <1>1, <1>2 DEF Slots, Boundary
<1>4. Cardinality(Slots) = PageSize
  BY <1>1, <1>2, <1>3, FS_Interval
<1>5. Boundary + 1 \in Slots
  BY <1>1, <1>2, <1>3
<1> QED
  BY <1>1, <1>4, <1>5 DEF ShortPage

\* list_all begins with nothing read.
LEMMA InitIInv == PagingInit => IInv
<1> SUFFICES ASSUME PagingInit PROVE IInv
  OBVIOUS
<1> USE PagesAssumption, BooksAssumption
<1>1. PICK n \in 0 .. Len(FirstBooks) : books = SubSeq(FirstBooks, 1, n)
  BY DEF PagingInit
<1>2. /\ books \in Seq(Docs) /\ Len(books) = n
      /\ \A i \in 1 .. n : books[i] = FirstBooks[i] /\ books[i] \in Docs
  BY <1>1, SubSeqProperties
<1>3. start = {books[i] : i \in 1 .. Len(books)}
  BY DEF PagingInit
<1>4. /\ start \subseteq Docs
      /\ page \in 1 .. MaxPages + 1 /\ attempt \in 0 .. Retries
      /\ records \in [Docs -> Nat] /\ inaccessible \in [Docs -> Nat]
  BY <1>2, <1>3 DEF PagingInit
<1>11. /\ inserted = {} /\ deleted = {} /\ exhausted = FALSE
       /\ status = "reading" /\ page = 1
  BY DEF PagingInit
<1>12. books \in Seq(Docs)
  BY <1>2
<1>13. PagingTypeOK
  BY <1>4, <1>11, <1>12 DEF PagingTypeOK
<1>14. Asked
  BY <1>11 DEF Asked
<1>5. \A d \in Docs : Seen(d) = 0 /\ records[d] = 0 /\ inaccessible[d] = 0
  BY DEF PagingInit, Seen
<1>6. Distinct
  BY <1>2 DEF Distinct
<1>7. Known /\ Sorted
  BY <1>3, <1>5 DEF Known, Sorted, PagingInit
<1>8. Boundary = 0
  BY DEF Boundary, PagingInit
<1>9. Behind /\ Ahead
  BY <1>2, <1>5, <1>8 DEF Behind, Ahead
<1>10. NoLossWithoutDeletion /\ NoDoubleWithoutInsertion
  BY <1>5 DEF NoLossWithoutDeletion, NoDoubleWithoutInsertion, PagingInit
<1> QED
  BY <1>6, <1>7, <1>9, <1>10, <1>13, <1>14 DEF IInv

\* A document that appears pushes the ones behind it to the right.
LEMMA InsertIInv == IInv /\ Insert => IInv'
<1> SUFFICES ASSUME IInv, Insert PROVE IInv'
  OBVIOUS
<1>1. PICK d \in Docs \ (start \cup inserted), k \in 1 .. Len(books) + 1 :
        /\ books' = [i \in 1 .. Len(books) + 1 |->
                        IF i < k THEN books[i] ELSE IF i = k THEN d ELSE books[i - 1]]
        /\ inserted' = inserted \cup {d}
        /\ UNCHANGED <<start, deleted, page, attempt, result, status>>
  BY DEF Insert
<1>2. books \in Seq(Docs) /\ Len(books) \in Nat /\ \A i \in 1 .. Len(books) : books[i] \in Docs
  BY DEF IInv, PagingTypeOK
<1>3. /\ books' \in Seq(Docs) /\ Len(books') = Len(books) + 1
      /\ \A i \in 1 .. Len(books) + 1 :
            books'[i] = IF i < k THEN books[i] ELSE IF i = k THEN d ELSE books[i - 1]
  BY <1>1, <1>2
<1>4. \A e : Seen(e)' = Seen(e)
  BY <1>1 DEF Seen, result
<1>5. Boundary' = Boundary
  BY <1>1 DEF Boundary
<1>6. page \in Nat /\ Boundary \in Int
  BY PagesAssumption DEF IInv, PagingTypeOK, Boundary
<1>7. PagingTypeOK' /\ Asked' /\ Sorted'
  BY <1>1, <1>3 DEF IInv, PagingTypeOK, Asked, Sorted, result
<1>8. \A i \in 1 .. Len(books) : books[i] # d
  BY <1>1 DEF IInv, Known
<1>9. Distinct'
  <2> SUFFICES ASSUME NEW i \in 1 .. Len(books'), NEW j \in 1 .. Len(books'), books'[i] = books'[j]
               PROVE  i = j
    BY DEF Distinct
  <2> DEFINE at(x) == IF x < k THEN x ELSE x - 1
  <2>1. \A x \in 1 .. Len(books') : x # k => at(x) \in 1 .. Len(books) /\ books'[x] = books[at(x)]
    BY <1>2, <1>3
  <2>2. books'[k] = d
    BY <1>2, <1>3
  <2>3. CASE i = k \/ j = k
    BY <2>1, <2>2, <2>3, <1>8
  <2>4. CASE i # k /\ j # k
    <3>1. books[at(i)] = books[at(j)] /\ at(i) \in 1 .. Len(books) /\ at(j) \in 1 .. Len(books)
      BY <2>1, <2>4
    <3>2. at(i) = at(j)
      BY <3>1 DEF IInv, Distinct
    <3> QED
      BY <3>2, <2>4, <1>2, <1>3
  <2> QED
    BY <2>3, <2>4
<1>10. Known'
  <2>1. \A i \in 1 .. Len(books') : books'[i] \in start' \cup inserted'
    BY <1>1, <1>2, <1>3 DEF IInv, Known
  <2>2. \A e \in Docs : Seen(e)' > 0 => e \in start' \cup inserted'
    BY <1>1, <1>4 DEF IInv, Known
  <2>3. start' \cap inserted' = {}
    BY <1>1 DEF IInv, Known
  <2>4. ASSUME deleted' = {}, NEW e \in start' PROVE \E i \in 1 .. Len(books') : books'[i] = e
    <3>1. PICK i \in 1 .. Len(books) : books[i] = e
      BY <1>1, <2>4 DEF IInv, Known
    <3>2. CASE i < k
      BY <3>1, <3>2, <1>2, <1>3
    <3>3. CASE i >= k
      <4>1. i + 1 \in 1 .. Len(books') /\ books'[i + 1] = books[i]
        BY <3>3, <1>2, <1>3
      <4> QED
        BY <4>1, <3>1
    <3> QED
      BY <3>2, <3>3, <1>2
  <2> QED
    BY <2>1, <2>2, <2>3, <2>4 DEF Known
<1>11. Behind'
  <2> SUFFICES ASSUME deleted' = {}, NEW i \in 1 .. Len(books'),
                      i <= Boundary', books'[i] \in start'
               PROVE  records'[books'[i]] + inaccessible'[books'[i]] >= 1
    BY DEF Behind, Seen
  <2>1. i # k
    BY <1>1, <1>2, <1>3
  <2>2. PICK j \in 1 .. Len(books) : j <= i /\ books'[i] = books[j]
    <3>1. CASE i < k
      BY <3>1, <1>2, <1>3
    <3>2. CASE i > k
      <4>1. i - 1 \in 1 .. Len(books) /\ i - 1 <= i /\ books'[i] = books[i - 1]
        BY <3>2, <1>2, <1>3
      <4> QED
        BY <4>1
    <3> QED
      BY <2>1, <3>1, <3>2, <1>2, <1>3
  <2>3. j <= Boundary /\ books[j] \in start /\ deleted = {}
    BY <2>2, <1>1, <1>3, <1>5, <1>6
  <2> QED
    BY <2>2, <2>3, <1>1 DEF IInv, Behind, Seen, result
<1>12. NoLossWithoutDeletion'
  BY <1>1, <1>4 DEF IInv, NoLossWithoutDeletion, result
<1>13. Ahead' /\ NoDoubleWithoutInsertion'
  BY <1>1 DEF Ahead, NoDoubleWithoutInsertion
<1> QED
  BY <1>7, <1>9, <1>10, <1>11, <1>12, <1>13 DEF IInv

\* A document that disappears pulls the ones behind it to the left.
LEMMA DeleteIInv == IInv /\ Delete => IInv'
<1> SUFFICES ASSUME IInv, Delete PROVE IInv'
  OBVIOUS
<1>1. PICK k \in 1 .. Len(books) :
        /\ books' = [i \in 1 .. Len(books) - 1 |-> IF i < k THEN books[i] ELSE books[i + 1]]
        /\ deleted' = deleted \cup {books[k]}
        /\ UNCHANGED <<start, inserted, page, attempt, result, status>>
  BY DEF Delete
<1>2. books \in Seq(Docs) /\ Len(books) \in Nat /\ \A i \in 1 .. Len(books) : books[i] \in Docs
  BY DEF IInv, PagingTypeOK
<1>3. /\ books' \in Seq(Docs) /\ Len(books') = Len(books) - 1
      /\ \A i \in 1 .. Len(books) - 1 : books'[i] = IF i < k THEN books[i] ELSE books[i + 1]
  BY <1>1, <1>2
<1>4. \A e : Seen(e)' = Seen(e)
  BY <1>1 DEF Seen, result
<1>5. Boundary' = Boundary
  BY <1>1 DEF Boundary
<1>6. page \in Nat /\ Boundary \in Int
  BY PagesAssumption DEF IInv, PagingTypeOK, Boundary
<1>7. PagingTypeOK' /\ Asked' /\ Sorted'
  BY <1>1, <1>2, <1>3 DEF IInv, PagingTypeOK, Asked, Sorted, result
<1> DEFINE at(x) == IF x < k THEN x ELSE x + 1
<1>8. \A x \in 1 .. Len(books') : /\ at(x) \in 1 .. Len(books)
                                  /\ at(x) >= x
                                  /\ books'[x] = books[at(x)]
  BY <1>2, <1>3
<1>9. Distinct'
  <2> SUFFICES ASSUME NEW i \in 1 .. Len(books'), NEW j \in 1 .. Len(books'), books'[i] = books'[j]
               PROVE  i = j
    BY DEF Distinct
  <2>1. at(i) = at(j)
    BY <1>8 DEF IInv, Distinct
  <2> QED
    BY <2>1, <1>2, <1>3
<1>10. deleted' # {}
  BY <1>1
<1>11. Known'
  <2>1. \A i \in 1 .. Len(books') : books'[i] \in start' \cup inserted'
    BY <1>1, <1>8 DEF IInv, Known
  <2>2. \A e \in Docs : Seen(e)' > 0 => e \in start' \cup inserted'
    BY <1>1, <1>4 DEF IInv, Known
  <2>3. start' \cap inserted' = {}
    BY <1>1 DEF IInv, Known
  <2> QED
    BY <2>1, <2>2, <2>3, <1>10 DEF Known
<1>12. Behind' /\ NoLossWithoutDeletion'
  BY <1>10 DEF Behind, NoLossWithoutDeletion
<1>13. Ahead'
  <2> SUFFICES ASSUME inserted' = {}, status' = "reading",
                      NEW i \in 1 .. Len(books'), i > Boundary'
               PROVE  records'[books'[i]] + inaccessible'[books'[i]] = 0
    BY DEF Ahead, Seen
  <2>1. at(i) > Boundary /\ at(i) \in 1 .. Len(books)
    BY <1>5, <1>6, <1>8, <1>2, <1>3
  <2>2. Seen(books[at(i)]) = 0
    BY <2>1, <1>1 DEF IInv, Ahead
  <2> QED
    BY <2>2, <1>1, <1>8 DEF Seen, result
<1>14. NoDoubleWithoutInsertion'
  BY <1>1, <1>4 DEF IInv, NoDoubleWithoutInsertion
<1> QED
  BY <1>7, <1>9, <1>11, <1>12, <1>13, <1>14 DEF IInv

\* A page that arrives reads what lies between this boundary and the next.
LEMMA PageIInv == IInv /\ PageArrives => IInv'
<1> SUFFICES ASSUME IInv, PageArrives PROVE IInv'
  OBVIOUS
<1> USE PagesAssumption
<1>1. PagingTypeOK /\ Distinct /\ UNCHANGED collection
  BY DEF IInv, PageArrives
<1>2. /\ status = "reading" /\ attempt' = 0
      /\ exhausted' = (Slots = {} \/ ShortPage)
      /\ exhausted' => status' = "done" /\ page' = page
      /\ ~exhausted' => page' = page + 1 /\ status' = IF page = MaxPages THEN "done" ELSE "reading"
  BY DEF PageArrives, NextPage
<1>3. page \in Nat /\ page >= 1 /\ page <= MaxPages
  BY <1>2 DEF IInv, PagingTypeOK, Asked
<1>4. Boundary \in Nat /\ (~exhausted' => Boundary' = Boundary + PageSize)
                       /\ (exhausted' => Boundary' = Boundary)
  BY <1>2, <1>3, NextBoundary DEF Boundary
<1>5. PagingTypeOK'
  <2>1. records' \in [Docs -> Nat] /\ inaccessible' \in [Docs -> Nat]
    <3>1. \A d \in Docs : records[d] \in Nat /\ inaccessible[d] \in Nat
      BY <1>1 DEF PagingTypeOK
    <3> QED
      BY <3>1 DEF PageArrives, Count
  <2>2. page' \in 1 .. MaxPages + 1 /\ status' \in {"reading", "done", "failed"} /\ exhausted' \in BOOLEAN
    BY <1>2, <1>3
  <2>3. attempt' \in 0 .. Retries
    BY <1>2
  <2> QED
    BY <1>1, <2>1, <2>2, <2>3 DEF PagingTypeOK, collection
<1>6. Asked'
  BY <1>2, <1>3 DEF Asked
<1>7. Distinct'
  BY <1>1 DEF Distinct, collection
<1>8. \A i \in 1 .. Len(books) :
         /\ books[i] \in Docs
         /\ books[i] \in OnPage <=> Boundary < i /\ i <= Boundary + PageSize
  BY <1>1, PageSlots
<1>9. \A d \in Docs : /\ Seen(d)' = Seen(d) + (IF d \in OnPage THEN 1 ELSE 0)
                      /\ Seen(d) \in Nat
  BY <1>1, PageCounts DEF Seen
<1>10. \A d \in OnPage : \E i \in 1 .. Len(books) : books[i] = d
  BY DEF OnPage, Slots
<1>11. Known'
  <2>1. \A d \in Docs : Seen(d)' > 0 => d \in start \cup inserted
    BY <1>9, <1>10 DEF IInv, Known
  <2> QED
    BY <1>1, <2>1 DEF IInv, Known, collection
<1>12. Sorted'
  BY <1>1, PageCounts DEF IInv, Sorted
<1>13. Behind'
  <2> SUFFICES ASSUME deleted = {}, NEW i \in 1 .. Len(books), i <= Boundary', books[i] \in start
               PROVE  records'[books[i]] + inaccessible'[books[i]] >= 1
    BY <1>1 DEF Behind, Seen, collection
  <2>1. CASE i <= Boundary
    BY <2>1, <1>8, <1>9 DEF IInv, Behind, Seen
  <2>2. CASE i > Boundary
    <3>1. books[i] \in OnPage
      BY <2>2, <1>4, <1>8
    <3> QED
      BY <3>1, <1>8, <1>9 DEF Seen
  <2> QED
    BY <2>1, <2>2, <1>4
<1>14. NoLossWithoutDeletion'
  <2> SUFFICES ASSUME exhausted', deleted = {}, NEW d \in start PROVE Seen(d)' >= 1
    BY <1>1 DEF NoLossWithoutDeletion, collection
  <2>1. PICK i \in 1 .. Len(books) : books[i] = d
    BY DEF IInv, Known
  <2>2. Slots = {} \/ ShortPage
    BY <1>2
  <2>5. Len(books) <= Boundary + PageSize
    BY <1>1, <2>2, ShortPageIsLast
  <2>3. CASE i <= Boundary
    BY <2>1, <2>3, <1>8, <1>9 DEF IInv, Behind
  <2>4. CASE i > Boundary
    <3>1. d \in OnPage
      BY <2>1, <2>5, <2>4, <1>4, <1>8
    <3> QED
      BY <3>1, <2>1, <1>8, <1>9
  <2> QED
    BY <2>3, <2>4, <1>4
<1>15. Ahead'
  <2> SUFFICES ASSUME inserted = {}, status' = "reading", NEW i \in 1 .. Len(books), i > Boundary'
               PROVE  records'[books[i]] + inaccessible'[books[i]] = 0
    BY <1>1 DEF Ahead, Seen, collection
  <2>1. i > Boundary + PageSize
    BY <1>2, <1>4
  <2>2. i > Boundary /\ books[i] \notin OnPage
    BY <2>1, <1>4, <1>8
  <2> QED
    BY <2>2, <1>2, <1>8, <1>9 DEF IInv, Ahead, Seen
<1>16. NoDoubleWithoutInsertion'
  <2> SUFFICES ASSUME inserted = {}, NEW d \in Docs PROVE Seen(d)' <= 1
    BY <1>1 DEF NoDoubleWithoutInsertion, collection
  <2>1. CASE d \in OnPage
    <3>1. PICK i \in 1 .. Len(books) : books[i] = d
      BY <2>1, <1>10
    <3>2. i > Boundary
      BY <2>1, <3>1, <1>8
    <3>3. Seen(d) = 0
      BY <3>1, <3>2, <1>2 DEF IInv, Ahead
    <3> QED
      BY <3>3, <1>9
  <2>2. CASE d \notin OnPage
    BY <2>2, <1>9 DEF IInv, NoDoubleWithoutInsertion
  <2> QED
    BY <2>1, <2>2
<1> QED
  BY <1>5, <1>6, <1>7, <1>11, <1>12, <1>13, <1>14, <1>15, <1>16 DEF IInv

\* A request that fails, for now or for good, changes nothing that was read.
LEMMA FailureIInv ==
  ASSUME IInv, RequestFails \/ AnswerIsError \/ UNCHANGED pagingVars
  PROVE  IInv'
<1> USE PagesAssumption
<1>1. UNCHANGED <<collection, page, result>>
  BY DEF RequestFails, AnswerIsError, pagingVars
<1>2. status' \in {status, "failed"} /\ attempt' \in 0 .. Retries
  BY DEF RequestFails, AnswerIsError, pagingVars, IInv, PagingTypeOK
<1>3. PagingTypeOK' /\ Asked'
  BY <1>1, <1>2 DEF IInv, PagingTypeOK, Asked, collection, result
<1>4. \A d : Seen(d)' = Seen(d)
  BY <1>1 DEF Seen, result
<1>5. Boundary' = Boundary
  BY <1>1 DEF Boundary
<1>6. Distinct' /\ Known' /\ Sorted'
  BY <1>1, <1>4 DEF IInv, Distinct, Known, Sorted, collection, result
<1>7. Behind' /\ Ahead'
  BY <1>1, <1>2, <1>4, <1>5 DEF IInv, Behind, Ahead, collection
<1>8. NoLossWithoutDeletion' /\ NoDoubleWithoutInsertion'
  BY <1>1, <1>2, <1>4 DEF IInv, NoLossWithoutDeletion, NoDoubleWithoutInsertion, collection, result
<1> QED
  BY <1>3, <1>6, <1>7, <1>8 DEF IInv

\* Whatever happens to the books between two requests, left of the boundary is
\* read, right of it is not.
THEOREM Inductive == PagingSpec => []IInv
<1>1. IInv /\ [PagingNext]_pagingVars => IInv'
  BY InsertIInv, DeleteIInv, PageIInv, FailureIInv DEF PagingNext
<1> QED
  BY <1>1, InitIInv, PTL DEF PagingSpec

\* Types hold in every reachable state.
THEOREM TypeCorrect == PagingSpec => []PagingTypeOK
  BY Inductive, PTL DEF IInv

\* An exhausted sweep during which nothing was deleted has met every document.
THEOREM NoLoss == PagingSpec => []NoLossWithoutDeletion
  BY Inductive, PTL DEF IInv

\* A sweep during which nothing was inserted has met no document twice.
THEOREM NoDouble == PagingSpec => []NoDoubleWithoutInsertion
  BY Inductive, PTL DEF IInv

\* Over books nobody touches the answer of list_all is the collection.
THEOREM StillExact == PagingSpec => []StillBooksExact
<1>1. IInv => StillBooksExact
  <2> SUFFICES ASSUME IInv, status = "done", exhausted, inserted = {}, deleted = {}
               PROVE  /\ \A d \in Docs : records[d] = IF d \in start \ Refused THEN 1 ELSE 0
                      /\ Complete <=> start \cap Refused = {}
    BY DEF StillBooksExact
  <2>1. \A d \in Docs : records[d] \in Nat /\ inaccessible[d] \in Nat
    BY DEF IInv, PagingTypeOK
  <2>2. start \subseteq Docs
    BY DEF IInv, PagingTypeOK
  <2>3. \A d \in Docs : Seen(d) = IF d \in start THEN 1 ELSE 0
    BY <2>1 DEF IInv, Known, NoLossWithoutDeletion, NoDoubleWithoutInsertion, Seen
  <2>4. \A d \in Docs : /\ records[d] = IF d \in start \ Refused THEN 1 ELSE 0
                        /\ inaccessible[d] = IF d \in start \cap Refused THEN 1 ELSE 0
    BY <2>1, <2>3 DEF IInv, Sorted, Seen
  <2>5. Complete <=> start \cap Refused = {}
    BY <2>2, <2>4 DEF Complete
  <2> QED
    BY <2>4, <2>5
<1> QED
  BY <1>1, Inductive, PTL

-----------------------------------------------------------------------------
(* The import file.                                                        *)

\* A row is not None.
LEMMA RowIsThere ==
  ASSUME NEW row, IsRow(row)
  PROVE  row # None
<1> DEFINE AnyValue == UNION {Values[f] : f \in Fields}
<1>1. \A f \in Fields : row[f] \in AnyValue
  BY DEF IsRow
<1>2. row = [f \in Fields |-> row[f]]
  BY DEF IsRow
<1>3. None \notin [Fields -> AnyValue]
  BY NoneAssumption
<1> HIDE DEF AnyValue
<1> QED BY <1>1, <1>2, <1>3

\* The fields of a row.
LEMMA RowFields ==
  ASSUME NEW row, IsRow(row)
  PROVE  /\ row.acid \in Acids \cup {None}
         /\ row.payment_term \in PaymentTerms \cup {None}
         /\ row.bl_type \in BlTypes \cup {None}
         /\ row.eta \in Dates /\ row.ata \in Dates /\ row.etd \in Dates
         /\ row.free_days \in Int \cup {None} /\ row.free_time_start \in Dates
         /\ row.released_at \in Dates /\ row.demurrage_tariff \in Seq(Tiers)
         /\ row.containers \in Nat /\ row.fx_rate \in Int \cup {None}
         /\ row.value_fob \in Int \cup {None} /\ row.freight \in Int \cup {None}
         /\ row.insurance \in Int \cup {None} /\ row.filled \in SUBSET STRING
         /\ row.nama_code \in Codes \cup {None}
<1> DEFINE Names == {"acid", "payment_term", "bl_type", "eta", "ata", "etd", "free_days", "free_time_start",
                     "released_at", "demurrage_tariff", "containers", "fx_rate", "value_fob", "freight",
                     "insurance", "filled", "nama_code"}
<1>1. Names \subseteq Fields
  BY DEF Fields, Blank
<1>2. \A f \in Names : row[f] \in Values[f]
  BY <1>1 DEF IsRow
<1> QED BY <1>2 DEF Values

\* The row a file is opened with by Nama.
LEMMA BlankIsRow == IsRow(Blank)
<1>0. <<>> \in Seq(Tiers) /\ {} \in SUBSET STRING
  BY EmptySeq
<1> DEFINE Empty == {"acid", "payment_term", "bl_type", "eta", "ata", "etd", "free_days", "free_time_start",
                     "released_at", "fx_rate", "value_fob", "freight", "insurance", "est_landed_per_ton",
                     "nama_code"}
           Filled == {"demurrage_tariff", "containers", "currency", "qty_ton", "endorsed", "telex_verified",
                      "filled"}
<1>1. \A f \in Fields : Blank[f] \in Values[f]
  <2>1. Fields = Empty \cup Filled
    BY DEF Fields, Blank
  <2>2. \A f \in Empty : Blank[f] = None
    BY DEF Blank
  <2>3. \A f \in Empty : None \in Values[f]
    BY DEF Values, Dates
  <2>4. Blank["demurrage_tariff"] \in Values["demurrage_tariff"]
    BY <1>0 DEF Blank, Values
  <2>5. Blank["filled"] \in Values["filled"]
    BY <1>0 DEF Blank, Values
  <2>6. /\ Blank["containers"] \in Values["containers"]
        /\ Blank["currency"] \in Values["currency"]
        /\ Blank["qty_ton"] \in Values["qty_ton"]
    <3>1. Blank["containers"] = 0 /\ Blank["currency"] = "EGP" /\ Blank["qty_ton"] = 0
      BY DEF Blank
    <3>2. /\ Values["containers"] = Nat
          /\ Values["currency"] = Currencies
          /\ Values["qty_ton"] = Int
      BY DEF Values
    <3>3. "EGP" \in Currencies
      BY DEF Currencies
    <3> QED BY <3>1, <3>2, <3>3
  <2>7. /\ Blank["endorsed"] \in Values["endorsed"]
        /\ Blank["telex_verified"] \in Values["telex_verified"]
    BY DEF Blank, Values
  <2> QED BY <2>1, <2>2, <2>3, <2>4, <2>5, <2>6, <2>7
<1>2. Blank = [f \in Fields |-> Blank[f]]
  BY DEF Fields, Blank
<1> QED BY <1>1, <1>2 DEF IsRow

\* A person's change leaves a row.
LEMMA EditIsRow ==
  ASSUME NEW row, IsRow(row), NEW e \in Edits
  PROVE  IsRow([row EXCEPT ![e.field] = IF e.field = "filled" THEN @ \cup e.value ELSE e.value])
<1> DEFINE v == IF e.field = "filled" THEN row[e.field] \cup e.value ELSE e.value
           new == [row EXCEPT ![e.field] = v]
<1>1. e.field \in Fields /\ e.value \in Values[e.field]
  BY FieldsAssumption
<1>2. v \in Values[e.field]
  <2>1. CASE e.field = "filled"
    <3>1. Values["filled"] = SUBSET STRING /\ row["filled"] \in Values["filled"]
      BY <1>1, <2>1 DEF Values, IsRow
    <3> QED BY <1>1, <2>1, <3>1
  <2> QED BY <1>1, <2>1
<1> HIDE DEF v
<1>3. row = [f \in Fields |-> row[f]] /\ \A f \in Fields : row[f] \in Values[f]
  BY DEF IsRow
<1>4. new = [f \in Fields |-> new[f]] /\ \A f \in Fields : new[f] \in Values[f]
  BY <1>1, <1>2, <1>3
<1> QED BY <1>4 DEF IsRow, v

\* So does Nama's answer, which leaves alone what it holds nothing in.
LEMMA OverwriteIsRow ==
  ASSUME NEW row, IsRow(row), NEW rec \in NamaRecords
  PROVE  /\ IsRow(Overwrite(row, rec))
         /\ \A f \in Fields : Overwrite(row, rec)[f] =
              IF f \in Mapped(rec) THEN rec[f] ELSE row[f]
         /\ Mapped(rec) \subseteq Fields /\ Mapped(rec) \subseteq NamaFields
<1>1. row = [f \in Fields |-> row[f]] /\ \A f \in Fields : row[f] \in Values[f]
  BY DEF IsRow
<1>2. DOMAIN row = Fields
  BY <1>1
<1>3. NamaFields \subseteq Fields /\ \A f \in NamaFields : rec[f] \in Values[f] \cup {None}
  BY FieldsAssumption
<1>4. Mapped(rec) = {f \in NamaFields : rec[f] # None}
  BY DEF Mapped, Set
<1> DEFINE new == [f \in Fields |-> IF f \in Mapped(rec) THEN rec[f] ELSE row[f]]
<1>5. Overwrite(row, rec) = new
  BY <1>2, <1>4 DEF Overwrite, Set
<1>6. new = [f \in Fields |-> new[f]] /\ \A f \in Fields : new[f] \in Values[f]
  BY <1>1, <1>3, <1>4
<1>7. IsRow(new)
  BY <1>6 DEF IsRow
<1> QED BY <1>3, <1>4, <1>5, <1>7

-----------------------------------------------------------------------------
(* The steps.                                                              *)

\* The record of a call.
IsCall(c) == /\ c = [at |-> c.at, code |-> c.code, seen |-> c.seen, rec |-> c.rec, touched |-> c.touched]
             /\ c.touched \in BOOLEAN
             /\ c.at # "rest" => c.code \in Codes
             /\ c.at = "answered" => c.rec \in NamaRecords

\* What a call that nobody disturbed has read is what the file still holds of Nama's.
Undisturbed(c, row) == c.at # "rest" /\ c.seen # None => row # None /\ (~c.touched => c.seen = Owned(row))

SyncTyped == sync = [s \in Syncs |-> sync[s]] /\ \A s \in Syncs : IsCall(sync[s])
SyncsReadWell == \A s \in Syncs : Undisturbed(sync[s], file)
RowTyped == file # None => IsRow(file)
ListsTyped == costs \in Seq(Cost) /\ boxes \in Seq(Box)
WorldTyped == nama \in [Codes -> NamaRecords] /\ today \in Nat

\* The inductive invariant of an import file.
ImportInv == RowTyped /\ ListsTyped /\ WorldTyped /\ SyncTyped /\ SyncsReadWell

\* A list without one of its entries.
LEMMA RemovedIsAList ==
  ASSUME NEW T, NEW q \in Seq(T), NEW n \in DOMAIN q
  PROVE  RemoveAt(q, n) \in Seq(T)
<1>1. DOMAIN q = 1 .. Len(q) /\ Len(q) \in Nat
  BY LenProperties
<1>2. n \in Int /\ n - 1 \in Int /\ n + 1 \in Int
  BY <1>1
<1>3. SubSeq(q, 1, n - 1) \in Seq(T)
  <2>1. \A i \in 1 .. n - 1 : q[i] \in T
    BY <1>1
  <2> QED BY <1>2, <2>1, SubSeqProperties
<1>4. SubSeq(q, n + 1, Len(q)) \in Seq(T)
  <2>1. \A i \in n + 1 .. Len(q) : q[i] \in T
    BY <1>1
  <2> QED BY <1>1, <1>2, <2>1, SubSeqProperties
<1> QED BY <1>3, <1>4, ConcatProperties DEF RemoveAt

\* Costs and containers stay what they are.
LEMMA ListsStay ==
  ASSUME ImportInv, [Next]_vars
  PROVE  ListsTyped'
<1> USE DEF contents
<1>0. costs \in Seq(Cost) /\ boxes \in Seq(Box) /\ today \in Nat
  BY DEF ImportInv, ListsTyped, WorldTyped
<1>1. CASE UNCHANGED <<costs, boxes>>
  BY <1>0, <1>1 DEF ListsTyped
<1>2. CASE AddCost
  <2>1. PICK c \in Costs : costs' = Append(costs, c) /\ boxes' = boxes
    BY <1>2 DEF AddCost
  <2>2. c \in Cost
    BY FieldsAssumption
  <2>3. costs' \in Seq(Cost)
    BY <1>0, <2>1, <2>2, AppendProperties
  <2> QED BY <1>0, <2>1, <2>3 DEF ListsTyped
<1>3. CASE DeleteCost
  <2>1. PICK n \in DOMAIN costs : costs' = RemoveAt(costs, n) /\ boxes' = boxes
    BY <1>3 DEF DeleteCost
  <2>2. costs' \in Seq(Cost)
    BY <1>0, <2>1, RemovedIsAList
  <2> QED BY <1>0, <2>1, <2>2 DEF ListsTyped
<1>4. CASE AddBox
  <2>1. PICK b \in Boxes : boxes' = Append(boxes, b) /\ costs' = costs
    BY <1>4 DEF AddBox
  <2>2. b \in Box
    BY FieldsAssumption
  <2>3. boxes' \in Seq(Box)
    BY <1>0, <2>1, <2>2, AppendProperties
  <2> QED BY <1>0, <2>1, <2>3 DEF ListsTyped
<1>5. CASE UpdateBox
  <2>1. PICK n \in DOMAIN boxes, e \in BoxEdits :
               boxes' = [boxes EXCEPT ![n][e.field] = e.value] /\ costs' = costs
    BY <1>5 DEF UpdateBox
  <2>2. n \in 1 .. Len(boxes) /\ boxes[n] \in Box
    BY <1>0, LenProperties
  <2> DEFINE b == [boxes[n] EXCEPT ![e.field] = e.value]
  <2>3. b \in Box
    <3>1. e.field \in DOMAIN BoxValues /\ e.value \in BoxValues[e.field]
      BY FieldsAssumption
    <3>2. PICK f : f = e.field
      OBVIOUS
    <3>3. f \in {"out_at", "returned_at", "free_return_days", "deposit", "deposit_back"}
      BY <3>1, <3>2 DEF BoxValues
    <3>4. e.value \in BoxValues[f] /\ b = [boxes[n] EXCEPT ![f] = e.value]
      BY <3>1, <3>2
    <3> HIDE DEF b
    <3>5. CASE f = "out_at"
      BY <2>2, <3>4, <3>5 DEF Box, BoxValues
    <3>6. CASE f = "returned_at"
      BY <2>2, <3>4, <3>6 DEF Box, BoxValues
    <3>7. CASE f = "free_return_days"
      BY <2>2, <3>4, <3>7 DEF Box, BoxValues
    <3>8. CASE f = "deposit"
      BY <2>2, <3>4, <3>8 DEF Box, BoxValues
    <3>9. CASE f = "deposit_back"
      BY <2>2, <3>4, <3>9 DEF Box, BoxValues
    <3> QED BY <3>3, <3>5, <3>6, <3>7, <3>8, <3>9
  <2>4. boxes' = [boxes EXCEPT ![n] = b]
    BY <2>1
  <2> HIDE DEF b
  <2>5. boxes' \in Seq(Box)
    BY <1>0, <2>2, <2>3, <2>4, ExceptSeq
  <2> QED BY <1>0, <2>1, <2>5 DEF ListsTyped
<1>6. CASE DeleteBox
  <2>1. PICK n \in DOMAIN boxes : boxes' = RemoveAt(boxes, n) /\ costs' = costs
    BY <1>6 DEF DeleteBox
  <2>2. boxes' \in Seq(Box)
    BY <1>0, <2>1, RemovedIsAList
  <2> QED BY <1>0, <2>1, <2>2 DEF ListsTyped
<1>7. CASE \/ Create \/ DayPasses \/ NamaMoves
           \/ Update \/ SetStep \/ SetDoc \/ SetCheck
           \/ UNCHANGED vars
  BY <1>1, <1>7 DEF Create, DayPasses, NamaMoves, Update, SetStep,
     SetDoc, SetCheck, vars
<1>8. ASSUME NEW s \in Syncs, \/ StartSync(s) \/ StartOpening(s) \/ NamaAnswers(s)
                              \/ NamaFails(s) \/ EndSync(s) \/ EndOpening(s)
      PROVE  ListsTyped'
  BY <1>1, <1>8 DEF StartSync, StartOpening, NamaAnswers, NamaFails,
     EndSync, EndOpening
<1> QED BY <1>2, <1>3, <1>4, <1>5, <1>6, <1>7, <1>8 DEF Next

\* Nama and the calendar move by themselves.
LEMMA WorldStays ==
  ASSUME ImportInv, [Next]_vars
  PROVE  WorldTyped'
<1> USE DEF contents
<1>0. nama \in [Codes -> NamaRecords] /\ today \in Nat
  BY DEF ImportInv, WorldTyped
<1>1. nama' \in [Codes -> NamaRecords]
  <2>1. CASE NamaMoves
    BY <1>0, <2>1 DEF NamaMoves
  <2>2. CASE ~NamaMoves
    <3>1. nama' = nama
      BY <2>2 DEF Next, Create, DayPasses, Update, SetStep, SetDoc,
         SetCheck, AddCost, DeleteCost, AddBox, UpdateBox, DeleteBox,
         StartSync, StartOpening, NamaAnswers, NamaFails, EndSync,
         EndOpening, vars
    <3> QED BY <1>0, <3>1
  <2> QED BY <2>1, <2>2
<1>2. today' = today \/ today' = today + 1
  BY DEF Next, Create, DayPasses, NamaMoves, Update, SetStep, SetDoc,
     SetCheck, AddCost, DeleteCost, AddBox, UpdateBox, DeleteBox,
     StartSync, StartOpening, NamaAnswers, NamaFails, EndSync,
     EndOpening, vars
<1> QED BY <1>0, <1>1, <1>2 DEF WorldTyped

\* What reads no file and answers no call leaves the calls as they are.
LEMMA OthersStay ==
  ASSUME ImportInv, UNCHANGED <<file, sync>>
  PROVE  RowTyped' /\ SyncTyped' /\ SyncsReadWell'
BY DEF ImportInv, RowTyped, SyncTyped, SyncsReadWell, IsCall, Undisturbed, Owned

\* A file is opened by hand when nobody has read one.
LEMMA CreateKeeps ==
  ASSUME ImportInv, Create
  PROVE  RowTyped' /\ SyncTyped' /\ SyncsReadWell'
<1>1. PICK row \in Openings : file' = row /\ file = None /\ sync' = sync
  BY DEF Create
<1>2. IsRow(row)
  BY FieldsAssumption
<1>3. \A s \in Syncs : Undisturbed(sync[s], None)
  BY <1>1 DEF ImportInv, SyncsReadWell
<1>4. \A s \in Syncs : ~(sync[s].at # "rest" /\ sync[s].seen # None)
  BY <1>3 DEF Undisturbed
<1>5. SyncsReadWell'
  BY <1>1, <1>4 DEF SyncsReadWell, Undisturbed
<1>6. SyncTyped'
  BY <1>1 DEF ImportInv, SyncTyped
<1> QED BY <1>1, <1>2, <1>5, <1>6 DEF RowTyped

\* Who changes what Nama owns, touches the calls that wait.
LEMMA UpdateKeeps ==
  ASSUME ImportInv, file # None, Update
  PROVE  RowTyped' /\ SyncTyped' /\ SyncsReadWell'
<1>1. PICK e \in Edits :
        /\ file' = [file EXCEPT ![e.field] = IF e.field = "filled" THEN @ \cup e.value ELSE e.value]
        /\ sync' = [s \in Syncs |-> [sync[s] EXCEPT !.touched =
                     sync[s].touched \/ (sync[s].at # "rest" /\ e.field \in NamaFields \cup {"nama_code"})]]
  BY DEF Update
<1>2. IsRow(file) /\ IsRow(file')
  BY <1>1, EditIsRow DEF ImportInv, RowTyped
<1>3. file' # None
  BY <1>2, RowIsThere
<1>4. ASSUME NEW s \in Syncs
      PROVE  /\ IsCall(sync'[s]) /\ Undisturbed(sync'[s], file')
  <2> DEFINE t == sync[s].touched \/ (sync[s].at # "rest" /\ e.field \in NamaFields \cup {"nama_code"})
  <2>1. sync'[s] = [sync[s] EXCEPT !.touched = t]
    BY <1>1
  <2>2. IsCall(sync[s]) /\ Undisturbed(sync[s], file)
    BY DEF ImportInv, SyncTyped, SyncsReadWell
  <2>3. /\ sync'[s].at = sync[s].at /\ sync'[s].code = sync[s].code /\ sync'[s].seen = sync[s].seen
        /\ sync'[s].rec = sync[s].rec /\ sync'[s].touched = t
        /\ sync'[s] = [at |-> sync[s].at, code |-> sync[s].code, seen |-> sync[s].seen, rec |-> sync[s].rec,
                       touched |-> t]
    BY <2>1, <2>2 DEF IsCall
  <2>4. t \in BOOLEAN
    BY <2>2 DEF IsCall
  <2>5. IsCall(sync'[s])
    BY <2>2, <2>3, <2>4 DEF IsCall
  <2>6. ASSUME sync[s].at # "rest", ~t PROVE Owned(file') = Owned(file)
    <3>1. e.field \notin NamaFields
      BY <2>6
    <3>2. NamaFields \subseteq Fields
      BY FieldsAssumption
    <3>3. file = [f \in Fields |-> file[f]]
      BY <1>2 DEF IsRow
    <3>4. \A f \in NamaFields : file'[f] = file[f]
      BY <1>1, <3>1, <3>2, <3>3
    <3> QED BY <3>4 DEF Owned
  <2>7. sync[s].at # "rest" /\ ~t => ~sync[s].touched
    BY <2>2 DEF IsCall
  <2> HIDE DEF t
  <2> QED BY <1>3, <2>2, <2>3, <2>5, <2>6, <2>7 DEF Undisturbed
<1>5. sync' = [s \in Syncs |-> sync'[s]]
  BY <1>1
<1> QED BY <1>2, <1>4, <1>5 DEF RowTyped, SyncTyped, SyncsReadWell

\* A call that asks has read the file, or found none.
LEMMA AskingKeeps ==
  ASSUME ImportInv, NEW s \in Syncs, StartSync(s) \/ StartOpening(s)
  PROVE  RowTyped' /\ SyncTyped' /\ SyncsReadWell'
<1>1. file' = file
  BY DEF StartSync, StartOpening
<1>2. PICK c, seen :
        /\ c \in Codes
        /\ sync' = [sync EXCEPT ![s] = [at |-> "asked", code |-> c, seen |-> seen, rec |-> None,
                                        touched |-> FALSE]]
        /\ seen # None => file # None /\ seen = Owned(file)
  <2>1. CASE StartSync(s)
    <3>1. file # None /\ file.nama_code \in Codes
      BY <2>1, RowFields DEF StartSync, ImportInv, RowTyped
    <3> QED BY <2>1, <3>1 DEF StartSync
  <2>2. CASE StartOpening(s)
    <3>1. PICK c \in Codes : sync' = [sync EXCEPT ![s] = [AtRest EXCEPT !.at = "asked", !.code = c]]
      BY <2>2 DEF StartOpening
    <3> DEFINE rest == AtRest
               new == [rest EXCEPT !.at = "asked", !.code = c]
    <3>2. rest = [at |-> "rest", code |-> None, seen |-> None, rec |-> None, touched |-> FALSE]
      BY DEF AtRest
    <3> HIDE DEF rest
    <3>3. new = [at |-> "asked", code |-> c, seen |-> None, rec |-> None, touched |-> FALSE]
      <4>1. new = [rest EXCEPT !["at"] = "asked", !["code"] = c]
        OBVIOUS
      <4>2. DOMAIN rest = {"at", "code", "seen", "rec", "touched"} /\ DOMAIN new = DOMAIN rest
        BY <3>2, <4>1
      <4>3. /\ new["at"] = "asked" /\ new["code"] = c /\ new["seen"] = None /\ new["rec"] = None
            /\ new["touched"] = FALSE
        BY <3>2, <4>1
      <4>4. new = [f \in DOMAIN new |-> new[f]]
        BY <4>1
      <4> HIDE DEF new
      <4> QED BY <4>2, <4>3, <4>4
    <3>4. sync' = [sync EXCEPT ![s] = new]
      BY <3>1 DEF rest
    <3> HIDE DEF new
    <3> QED BY <3>3, <3>4
  <2> QED BY <2>1, <2>2
<1>3. sync = [r \in Syncs |-> sync[r]] /\ \A r \in Syncs : IsCall(sync[r]) /\ Undisturbed(sync[r], file)
  BY DEF ImportInv, SyncTyped, SyncsReadWell
<1>4. ASSUME NEW r \in Syncs PROVE IsCall(sync'[r]) /\ Undisturbed(sync'[r], file')
  <2>1. CASE r = s
    <3> DEFINE new == sync'[r]
    <3>1. new = [at |-> "asked", code |-> c, seen |-> seen, rec |-> None, touched |-> FALSE]
      BY <1>2, <1>3, <2>1
    <3> HIDE DEF new
    <3>2. IsCall(new) /\ Undisturbed(new, file')
      BY <1>1, <1>2, <3>1 DEF IsCall, Undisturbed
    <3> QED BY <3>2 DEF new
  <2>2. CASE r # s
    <3>1. sync'[r] = sync[r]
      BY <1>2, <1>3, <2>2
    <3> QED BY <1>1, <1>3, <3>1
  <2> QED BY <2>1, <2>2
<1>5. sync' = [r \in Syncs |-> sync'[r]]
  BY <1>2, <1>3
<1>6. RowTyped'
  BY <1>1 DEF ImportInv, RowTyped
<1> QED BY <1>4, <1>5, <1>6 DEF SyncTyped, SyncsReadWell

\* An answer, or a failure, leaves the file and what the call has read of it.
LEMMA AnswersKeep ==
  ASSUME ImportInv, NEW s \in Syncs, NamaAnswers(s) \/ NamaFails(s)
  PROVE  RowTyped' /\ SyncTyped' /\ SyncsReadWell'
<1>1. file' = file /\ sync[s].at = "asked"
  BY DEF NamaAnswers, NamaFails
<1>2. sync = [r \in Syncs |-> sync[r]] /\ \A r \in Syncs : IsCall(sync[r]) /\ Undisturbed(sync[r], file)
  BY DEF ImportInv, SyncTyped, SyncsReadWell
<1>3. nama[sync[s].code] \in NamaRecords
  BY <1>1, <1>2 DEF ImportInv, WorldTyped, IsCall
<1>4. PICK new : /\ sync' = [sync EXCEPT ![s] = new]
                 /\ \/ new = [sync[s] EXCEPT !.at = "answered", !.rec = nama[sync[s].code]]
                    \/ new = AtRest
  <2>1. CASE NamaAnswers(s)
    <3>1. sync' = [sync EXCEPT ![s] = [sync[s] EXCEPT !.at = "answered", !.rec = nama[sync[s].code]]]
      BY <1>2, <2>1 DEF NamaAnswers
    <3> QED BY <3>1
  <2>2. CASE NamaFails(s)
    BY <2>2 DEF NamaFails
  <2> QED BY <2>1, <2>2
<1>5. IsCall(new) /\ Undisturbed(new, file)
  <2>1. CASE new = [sync[s] EXCEPT !.at = "answered", !.rec = nama[sync[s].code]]
    <3> DEFINE old == sync[s]
               rec == nama[sync[s].code]
    <3>1. IsCall(old) /\ Undisturbed(old, file) /\ old.at = "asked"
      BY <1>1, <1>2
    <3>2. new = [old EXCEPT !.at = "answered", !.rec = rec] /\ rec \in NamaRecords
      BY <1>3, <2>1
    <3> HIDE DEF old, rec
    <3>3. /\ new.at = "answered" /\ new.code = old.code /\ new.seen = old.seen /\ new.rec = rec
          /\ new.touched = old.touched
          /\ new = [at |-> "answered", code |-> old.code, seen |-> old.seen, rec |-> rec,
                    touched |-> old.touched]
      BY <3>1, <3>2 DEF IsCall
    <3> QED BY <3>1, <3>2, <3>3 DEF IsCall, Undisturbed
  <2>2. CASE new = AtRest
    BY <2>2 DEF AtRest, IsCall, Undisturbed
  <2> QED BY <1>4, <2>1, <2>2
<1>6. ASSUME NEW r \in Syncs PROVE IsCall(sync'[r]) /\ Undisturbed(sync'[r], file')
  <2>1. sync'[r] = IF r = s THEN new ELSE sync[r]
    BY <1>2, <1>4
  <2> QED BY <1>1, <1>2, <1>5, <2>1
<1>7. sync' = [r \in Syncs |-> sync'[r]]
  BY <1>2, <1>4
<1>8. RowTyped'
  BY <1>1 DEF ImportInv, RowTyped
<1> QED BY <1>6, <1>7, <1>8 DEF SyncTyped, SyncsReadWell

\* A sync writes what Nama holds, and whoever waits beside it has been disturbed when it moved anything.
LEMMA EndSyncKeeps ==
  ASSUME ImportInv, NEW s \in Syncs, EndSync(s)
  PROVE  RowTyped' /\ SyncTyped' /\ SyncsReadWell'
<1>1. /\ sync[s].at = "answered" /\ sync[s].seen # None
      /\ file' = Written(file, sync[s].seen, sync[s].rec)
      /\ sync' = [r \in Syncs |-> IF r = s THEN AtRest
                                  ELSE [sync[r] EXCEPT !.touched = sync[r].touched \/
                                                          (sync[r].at # "rest" /\ file' # file)]]
  BY DEF EndSync
<1>2. sync = [r \in Syncs |-> sync[r]] /\ \A r \in Syncs : IsCall(sync[r]) /\ Undisturbed(sync[r], file)
  BY DEF ImportInv, SyncTyped, SyncsReadWell
<1>3. file # None /\ IsRow(file) /\ sync[s].rec \in NamaRecords
  BY <1>1, <1>2 DEF IsCall, Undisturbed, ImportInv, RowTyped
<1>4. IsRow(file')
  BY <1>1, <1>3, OverwriteIsRow DEF Written
<1>5. file' # None
  BY <1>4, RowIsThere
<1>6. ASSUME NEW r \in Syncs PROVE IsCall(sync'[r]) /\ Undisturbed(sync'[r], file')
  <2>1. CASE r = s
    <3>1. sync'[r] = AtRest
      BY <1>1, <2>1
    <3> QED BY <3>1 DEF AtRest, IsCall, Undisturbed
  <2>2. CASE r # s
    <3> DEFINE old == sync[r]
               t == sync[r].touched \/ (sync[r].at # "rest" /\ file' # file)
               new == sync'[r]
    <3>1. new = [old EXCEPT !.touched = t]
      BY <1>1, <2>2
    <3>2. IsCall(old) /\ Undisturbed(old, file)
      BY <1>2
    <3>3. t \in BOOLEAN /\ (old.at # "rest" /\ ~t => file' = file /\ ~old.touched)
      BY <3>2 DEF IsCall
    <3> HIDE DEF old, t, new
    <3>4. /\ new.at = old.at /\ new.code = old.code /\ new.seen = old.seen /\ new.rec = old.rec
          /\ new.touched = t
          /\ new = [at |-> old.at, code |-> old.code, seen |-> old.seen, rec |-> old.rec, touched |-> t]
      BY <3>1, <3>2 DEF IsCall
    <3>5. IsCall(new)
      BY <3>2, <3>3, <3>4 DEF IsCall
    <3>6. Undisturbed(new, file')
      BY <1>5, <3>2, <3>3, <3>4 DEF Undisturbed
    <3> QED BY <3>5, <3>6 DEF new
  <2> QED BY <2>1, <2>2
<1>7. sync' = [r \in Syncs |-> sync'[r]]
  BY <1>1
<1> QED BY <1>4, <1>6, <1>7 DEF RowTyped, SyncTyped, SyncsReadWell

\* A file that Nama opens has nobody waiting on it with something read.
LEMMA EndOpeningKeeps ==
  ASSUME ImportInv, NEW s \in Syncs, EndOpening(s)
  PROVE  RowTyped' /\ SyncTyped' /\ SyncsReadWell'
<1>1. /\ sync[s].at = "answered" /\ sync[s].seen = None
      /\ file' = IF file = None
                 THEN [Overwrite(Blank, sync[s].rec) EXCEPT !.nama_code = sync[s].code] ELSE file
      /\ sync' = [sync EXCEPT ![s] = AtRest]
  BY DEF EndOpening
<1>2. sync = [r \in Syncs |-> sync[r]] /\ \A r \in Syncs : IsCall(sync[r]) /\ Undisturbed(sync[r], file)
  BY DEF ImportInv, SyncTyped, SyncsReadWell
<1>3. sync[s].rec \in NamaRecords /\ sync[s].code \in Codes
  BY <1>1, <1>2 DEF IsCall
<1>4. ASSUME file = None PROVE IsRow(file')
  <2> DEFINE row == Overwrite(Blank, sync[s].rec)
  <2>1. IsRow(row)
    BY <1>3, BlankIsRow, OverwriteIsRow
  <2>2. file' = [row EXCEPT !["nama_code"] = sync[s].code]
    BY <1>1, <1>4
  <2>3. "nama_code" \in Fields /\ sync[s].code \in Values["nama_code"]
    <3>1. Values["nama_code"] = Codes \cup {None}
      BY DEF Values
    <3> QED BY <1>3, <3>1 DEF Fields, Blank
  <2> HIDE DEF row
  <2>4. row = [f \in Fields |-> row[f]] /\ \A f \in Fields : row[f] \in Values[f]
    BY <2>1 DEF IsRow
  <2>5. file' = [f \in Fields |-> file'[f]] /\ \A f \in Fields : file'[f] \in Values[f]
    BY <2>2, <2>3, <2>4
  <2> QED BY <2>5 DEF IsRow
<1>5. RowTyped'
  BY <1>1, <1>4 DEF RowTyped, ImportInv
<1>6. ASSUME NEW r \in Syncs PROVE IsCall(sync'[r]) /\ Undisturbed(sync'[r], file')
  <2>1. sync'[r] = IF r = s THEN AtRest ELSE sync[r]
    BY <1>1, <1>2
  <2>2. IsCall(sync'[r])
    <3>1. IsCall(AtRest)
      BY DEF AtRest, IsCall
    <3> QED BY <1>2, <2>1, <3>1
  <2>3. Undisturbed(sync'[r], file')
    <3>1. CASE file # None
      BY <1>1, <1>2, <2>1, <3>1 DEF AtRest, Undisturbed
    <3>2. CASE file = None
      BY <1>2, <2>1, <3>2 DEF AtRest, Undisturbed
    <3> QED BY <3>1, <3>2
  <2> QED BY <2>2, <2>3
<1>7. sync' = [r \in Syncs |-> sync'[r]]
  BY <1>1, <1>2
<1> QED BY <1>5, <1>6, <1>7 DEF SyncTyped, SyncsReadWell

\* The file begins closed, with nobody waiting.
LEMMA ImportBegins ==
  ASSUME Init
  PROVE  ImportInv
<1>1. /\ today = 0 /\ file = None /\ costs = <<>> /\ boxes = <<>>
      /\ nama \in [Codes -> NamaRecords] /\ sync = [s \in Syncs |-> AtRest]
  BY DEF Init
<1>2. ListsTyped
  BY <1>1, EmptySeq DEF ListsTyped
<1>3. \A s \in Syncs : IsCall(sync[s]) /\ Undisturbed(sync[s], file)
  BY <1>1 DEF IsCall, Undisturbed, AtRest
<1> QED BY <1>1, <1>2, <1>3 DEF ImportInv, RowTyped, WorldTyped, SyncTyped, SyncsReadWell

\* Every step of the file keeps it.
LEMMA ImportKeeps ==
  ASSUME ImportInv, [Next]_vars
  PROVE  ImportInv'
<1> USE DEF contents
<1>1. ListsTyped' /\ WorldTyped'
  BY ListsStay, WorldStays
<1>2. RowTyped' /\ SyncTyped' /\ SyncsReadWell'
  <2>1. CASE Create
    BY <2>1, CreateKeeps
  <2>2. CASE file # None /\ Update
    BY <2>2, UpdateKeeps
  <2>3. CASE \/ DayPasses \/ NamaMoves \/ SetStep \/ SetDoc \/ SetCheck
             \/ AddCost \/ DeleteCost \/ AddBox \/ UpdateBox \/ DeleteBox
             \/ UNCHANGED vars
    <3>1. UNCHANGED <<file, sync>>
      BY <2>3 DEF DayPasses, NamaMoves, SetStep, SetDoc, SetCheck,
         AddCost, DeleteCost, AddBox, UpdateBox, DeleteBox, vars
    <3> QED BY <3>1, OthersStay
  <2>4. ASSUME NEW s \in Syncs, \/ StartSync(s) \/ StartOpening(s) \/ NamaAnswers(s)
                                \/ NamaFails(s) \/ EndSync(s) \/ EndOpening(s)
        PROVE  RowTyped' /\ SyncTyped' /\ SyncsReadWell'
    BY <2>4, AskingKeeps, AnswersKeep, EndSyncKeeps, EndOpeningKeeps
  <2> QED BY <2>1, <2>2, <2>3, <2>4 DEF Next
<1> QED BY <1>1, <1>2 DEF ImportInv

\* So it holds throughout.
LEMMA ImportInvariant == Spec => []ImportInv
<1>1. Init => ImportInv
  BY ImportBegins
<1>2. ImportInv /\ [Next]_vars => ImportInv'
  BY ImportKeeps
<1> QED BY <1>1, <1>2, PTL DEF Spec

\* Nothing else ends a sync.
LEMMA OnlyEndSyncEnds ==
  ASSUME ImportInv, [Next]_vars, NEW s \in Syncs, SyncEnds(s)
  PROVE  EndSync(s)
<1>1. sync[s].at = "answered" /\ sync[s].seen # None /\ sync'[s].at = "rest"
  BY DEF SyncEnds, AtRest
<1>2. sync = [r \in Syncs |-> sync[r]] /\ \A r \in Syncs : IsCall(sync[r])
  BY DEF ImportInv, SyncTyped
<1>3. ASSUME sync'[s] = sync[s] PROVE FALSE
  BY <1>1, <1>3
<1>4. ASSUME NEW t, sync'[s] = [sync[s] EXCEPT !.touched = t] PROVE FALSE
  <2> DEFINE old == sync[s]
  <2>1. IsCall(old) /\ old.at = "answered"
    BY <1>1, <1>2
  <2> HIDE DEF old
  <2>2. [old EXCEPT !.touched = t].at = "answered"
    BY <2>1 DEF IsCall
  <2> QED BY <1>1, <1>4, <2>2 DEF old
<1>5. CASE file # None /\ Update
  BY <1>4, <1>5 DEF Update
<1>6. CASE \/ Create \/ DayPasses \/ NamaMoves \/ SetStep \/ SetDoc
           \/ SetCheck \/ AddCost \/ DeleteCost \/ AddBox \/ UpdateBox
           \/ DeleteBox \/ UNCHANGED vars
  BY <1>3, <1>6 DEF Create, DayPasses, NamaMoves, SetStep, SetDoc, SetCheck,
         AddCost, DeleteCost, AddBox, UpdateBox, DeleteBox, vars
<1>7. ASSUME NEW r \in Syncs, \/ StartSync(r) \/ StartOpening(r) \/ NamaAnswers(r)
                              \/ NamaFails(r) \/ EndOpening(r)
      PROVE  FALSE
  <2>1. r # s
    <3>1. sync[r] = AtRest => sync[r].at = "rest"
      BY DEF AtRest
    <3>2. sync[r] = AtRest \/ sync[r].at = "asked" \/ sync[r].seen = None
      BY <1>7 DEF StartSync, StartOpening, NamaAnswers, NamaFails, EndOpening
    <3> QED BY <1>1, <3>1, <3>2
  <2>2. PICK new : sync' = [sync EXCEPT ![r] = new]
    <3>1. CASE NamaAnswers(r)
      <4>1. sync' = [sync EXCEPT ![r] = [sync[r] EXCEPT !.at = "answered", !.rec = nama[sync[r].code]]]
        BY <1>2, <3>1 DEF NamaAnswers
      <4> QED BY <4>1
    <3>2. CASE StartSync(r)
      BY <3>2 DEF StartSync
    <3>3. CASE StartOpening(r)
      BY <3>3 DEF StartOpening
    <3>4. CASE NamaFails(r) \/ EndOpening(r)
      BY <3>4 DEF NamaFails, EndOpening
    <3> QED BY <1>7, <3>1, <3>2, <3>3, <3>4
  <2>3. sync'[s] = sync[s]
    BY <1>2, <2>1, <2>2
  <2> QED BY <1>3, <2>3
<1>8. ASSUME NEW r \in Syncs, EndSync(r), r # s PROVE FALSE
  BY <1>4, <1>8 DEF EndSync
<1> QED BY <1>5, <1>6, <1>7, <1>8 DEF Next

\* A sync that nobody disturbed leaves in the file what Nama answered, has told of each field it moved, and
\* of no other but the zeros, for every number of calls and every set of fields that Nama owns (sync, map_record).
THEOREM SyncsAreExact == Spec => QuietSyncIsExact
<1>1. ASSUME ImportInv, [Next]_vars,
             NEW s \in Syncs, SyncEnds(s), ~sync[s].touched
      PROVE  /\ \A f \in Mapped(sync[s].rec) : file'[f] = sync[s].rec[f]
             /\ Moved \subseteq Changed(sync[s].seen, sync[s].rec)
             /\ \A f \in Changed(sync[s].seen, sync[s].rec) \ Moved : Zero(f, sync[s].rec[f])
  <2> DEFINE seen == sync[s].seen
             rec == sync[s].rec
  <2>1. EndSync(s)
    BY <1>1, OnlyEndSyncEnds
  <2>2. sync[s].at = "answered" /\ seen # None /\ file' = Written(file, seen, rec)
    BY <2>1 DEF EndSync
  <2>3. rec \in NamaRecords /\ file # None /\ seen = Owned(file) /\ IsRow(file)
    BY <1>1, <2>2 DEF ImportInv, SyncTyped, SyncsReadWell, IsCall, Undisturbed, RowTyped
  <2> HIDE DEF seen, rec
  <2>4. /\ \A f \in Fields : Overwrite(file, rec)[f] =
              IF f \in Mapped(rec) THEN rec[f] ELSE file[f]
        /\ Mapped(rec) \subseteq Fields /\ Mapped(rec) \subseteq NamaFields
    BY <2>3, OverwriteIsRow
  <2>5. \A f \in Mapped(rec) : seen[f] = file[f]
    BY <2>3, <2>4 DEF Owned
  <2>6. Changed(seen, rec) = {f \in Mapped(rec) : file[f] # rec[f] \/ Zero(f, rec[f])}
    BY <2>5 DEF Changed
  <2>7. \A f \in Fields : file'[f] = IF f \in Mapped(rec) THEN rec[f] ELSE file[f]
    <3>1. CASE Changed(seen, rec) # {}
      BY <2>2, <2>4, <3>1 DEF Written
    <3>2. CASE Changed(seen, rec) = {}
      BY <2>2, <2>6, <3>2 DEF Written
    <3> QED BY <3>1, <3>2
  <2>8. Moved = {f \in Mapped(rec) : file[f] # rec[f]}
    BY <2>4, <2>7 DEF Moved
  <2> QED BY <2>4, <2>6, <2>7, <2>8 DEF seen, rec
<1>2. ImportInv /\ [Next]_vars =>
        [\A s \in Syncs : SyncEnds(s) /\ ~sync[s].touched =>
            /\ \A f \in Mapped(sync[s].rec) : file'[f] = sync[s].rec[f]
            /\ Moved \subseteq Changed(sync[s].seen, sync[s].rec)
            /\ \A f \in Changed(sync[s].seen, sync[s].rec) \ Moved : Zero(f, sync[s].rec[f])]_vars
  BY <1>1
<1> QED BY <1>2, ImportInvariant, PTL DEF Spec, QuietSyncIsExact

-----------------------------------------------------------------------------
(* The screen.                                                             *)

\* When an alert that may contradict a tick is on the screen.
LEMMA AlertsSay ==
  ASSUME NEW row, NEW steps, NEW ck, NEW cl, NEW lc, NEW day
  PROVE  LET shown == Alerts(row, steps, ck, cl, lc, day)
         IN  /\ "acid_mismatch" \in shown => ck.mismatches # {}
             /\ "acid_format" \in shown => ck.mismatches = {} /\ row.acid \notin ValidAcids
             /\ "overdue" \in shown => cl.state = "overdue"
             /\ "free_time" \in shown => cl.state = "warn"
             /\ "undocumented" \in shown => lc.undocumented
             /\ "late_boxes" \in shown => cl.detention.late # {}
             /\ "deposit" \in shown => cl.detention.held > 0
             /\ "no_clock" \in shown => /\ cl.state = "unset"
                                        /\ \/ ~Set(Read(row.eta)) /\ ~Set(Read(row.ata))
                                           \/ row.free_days \in {None, 0}
             /\ "aci_late" \in shown \/ "aci_soon" \in shown => "nafeza_accepted" \notin row.filled
             /\ "bl_type" \in shown => Set(row.payment_term) /\ row.bl_type \notin BlOf(row.payment_term)
             /\ "not_endorsed" \in shown => /\ Set(row.payment_term)
                                            /\ NeedsEndorsement(row.payment_term) /\ ~row.endorsed
             /\ "telex" \in shown => row.bl_type = "telex" /\ ~row.telex_verified
BY DEF Alerts

\* The rules that an alert may contradict.
Judged == {pair[1] : pair \in Contrary \cup ContraryByDate}

\* What a tick without a hand stands for.
LEMMA TicksSay ==
  ASSUME NEW row, NEW papers, NEW paid, NEW list, NEW ck, NEW cl, NEW lc, NEW rule \in Judged,
         AutoDone(rule, row, papers, paid, list, ck, cl, lc) = "yes"
  PROVE  /\ rule = "acid_valid" => row.acid \in ValidAcids
         /\ rule = "acid_match" => ck.ok
         /\ rule = "nafeza_accepted" => "nafeza_accepted" \in row.filled
         /\ rule = "release_matrix" => Set(row.payment_term) /\ row.bl_type \in BlOf(row.payment_term)
         /\ rule = "endorsed_if_lc" => /\ Set(row.payment_term)
                                       /\ NeedsEndorsement(row.payment_term) => row.endorsed
         /\ rule = "telex_verified" => (row.bl_type = "telex" => row.telex_verified)
         /\ rule = "released_before_freetime" => cl.released /\ cl.overdue = 0
         /\ rule = "containers_returned" => cl.detention.outstanding = 0
         /\ rule = "deposits_back" => cl.detention.held = 0
         /\ rule = "costs_documented" => ~lc.undocumented
         /\ rule = "landed_ready" => lc.ready
         /\ rule = "eta+free_days" => Set(row.eta) /\ row.free_days \notin {None, 0}
         /\ rule = "released_at" => Set(row.released_at)
<1>1. rule \in {"acid_valid", "acid_match", "nafeza_accepted", "release_matrix", "endorsed_if_lc",
               "telex_verified", "released_before_freetime", "containers_returned", "deposits_back",
               "costs_documented", "landed_ready", "eta+free_days", "released_at"}
  BY DEF Judged, Contrary, ContraryByDate
<1>2. rule # "" /\ rule \notin DocKinds
  BY <1>1 DEF DocKinds, AcidDocs, DocPack
<1> QED BY <1>1, <1>2 DEF AutoDone, Said, DepositsBack

\* What the parts of the screen tie together.
LEMMA PartsAgree ==
  ASSUME ListsTyped, file # None
  PROVE  LET ck == AcidCheck(file, docs)
             cl == Clock(file, boxes, today)
             lc == Landed(file, costs)
         IN  /\ ck.ok => ck.mismatches = {} /\ file.acid \in ValidAcids
             /\ cl.released => cl.state = "released"
             /\ cl.detention.outstanding = 0 => cl.detention.late = {}
             /\ lc.ready => ~lc.undocumented
             /\ cl.released <=> Set(Read(file.released_at))
<1>1. AcidCheck(file, docs).ok => /\ AcidCheck(file, docs).mismatches = {}
                                         /\ file.acid \in ValidAcids
  BY DEF AcidCheck
<1>2. Clock(file, boxes, today).released => Clock(file, boxes, today).state = "released"
  BY DEF Clock
<1>3. Detention(boxes, today).outstanding = 0 => Detention(boxes, today).late = {}
  <2> DEFINE out == {b \in DOMAIN boxes : ~Set(boxes[b].returned_at)}
  <2>1. DOMAIN boxes = 1 .. Len(boxes) /\ Len(boxes) \in Nat
    BY LenProperties DEF ListsTyped
  <2>2. IsFiniteSet(DOMAIN boxes)
    BY <2>1, FS_Interval
  <2>3. IsFiniteSet(out)
    BY <2>2, FS_Subset
  <2>4. Cardinality(out) = 0 => out = {}
    BY <2>3, FS_EmptySet
  <2>5. Detention(boxes, today).outstanding = Cardinality(out)
    BY DEF Detention
  <2>6. Detention(boxes, today).late \subseteq out
    BY DEF Detention
  <2> QED BY <2>4, <2>5, <2>6
<1>4. Clock(file, boxes, today).detention = Detention(boxes, today)
  BY DEF Clock
<1>5. Landed(file, costs).ready => ~Landed(file, costs).undocumented
  BY DEF Landed
<1>6. Clock(file, boxes, today).released = Set(Read(file.released_at))
  BY DEF Clock
<1> QED BY <1>1, <1>2, <1>3, <1>4, <1>5, <1>6

\* No step ticks itself beside an alert that says the contrary.
LEMMA ScreenAgrees ==
  ASSUME ImportInv
  PROVE  TicksAgreeWithAlerts
<1> SUFFICES ASSUME file # None, NEW n \in DOMAIN ALL_STEPS \ DOMAIN saved, NEW alert \in Screen.alerts,
                    Screen.steps[n] = "done"
             PROVE  LET pair == <<ALL_STEPS[n].auto, alert>>
                    IN  /\ pair \notin Contrary
                        /\ Unread \notin {file.eta, file.released_at} => pair \notin ContraryByDate
  BY DEF TicksAgreeWithAlerts, SideBySide
<1> DEFINE rule == ALL_STEPS[n].auto
           ck == AcidCheck(file, docs)
           cl == Clock(file, boxes, today)
           lc == Landed(file, costs)
           steps == Steps(file, docs, costs, checklist, saved, ck, cl, lc)
           shown == Alerts(file, steps, ck, cl, lc, today)
<1>1. Screen.steps = steps /\ Screen.alerts = shown
  BY DEF Screen, Plan
<1>2. AutoDone(rule, file, docs, costs, checklist, ck, cl, lc) = "yes"
  <2>1. steps[n] = Resolve("", AutoDone(rule, file, docs, costs, checklist, ck, cl, lc))
    BY DEF Steps
  <2> QED BY <1>1, <2>1 DEF Resolve
<1>3. /\ ck.ok => ck.mismatches = {} /\ file.acid \in ValidAcids
      /\ cl.released => cl.state = "released"
      /\ cl.detention.outstanding = 0 => cl.detention.late = {}
      /\ lc.ready => ~lc.undocumented
      /\ cl.released <=> Set(Read(file.released_at))
  BY PartsAgree DEF ImportInv
<1>4. alert \in shown
  BY <1>1
<1> HIDE DEF ck, cl, lc, steps, shown, rule
<1>5. ASSUME <<rule, alert>> \in Contrary PROVE FALSE
  <2>1. rule \in Judged
    BY <1>5 DEF Judged
  <2>2. CASE rule \in {"acid_valid", "acid_match"}
    <3>1. alert \in {"acid_format", "acid_mismatch"} /\ (rule = "acid_valid" => alert = "acid_format")
      BY <1>5, <2>2 DEF Contrary
    <3> QED BY <1>2, <1>3, <1>4, <2>1, <2>2, <3>1, TicksSay, AlertsSay DEF shown
  <2>3. CASE rule \in {"nafeza_accepted", "release_matrix"}
    <3>1. IF rule = "nafeza_accepted" THEN alert \in {"aci_late", "aci_soon"} ELSE alert = "bl_type"
      BY <1>5, <2>3 DEF Contrary
    <3> QED BY <1>2, <1>4, <2>1, <2>3, <3>1, TicksSay, AlertsSay DEF shown
  <2>4. CASE rule \in {"endorsed_if_lc", "telex_verified"}
    <3>1. alert = IF rule = "endorsed_if_lc" THEN "not_endorsed" ELSE "telex"
      BY <1>5, <2>4 DEF Contrary
    <3> QED BY <1>2, <1>4, <2>1, <2>4, <3>1, TicksSay, AlertsSay DEF shown
  <2>5. CASE rule = "released_before_freetime"
    <3>1. alert \in {"overdue", "free_time"}
      BY <1>5, <2>5 DEF Contrary
    <3>2. cl.state = "released"
      BY <1>2, <1>3, <2>1, <2>5, TicksSay
    <3> QED BY <1>4, <3>1, <3>2, AlertsSay DEF shown
  <2>6. CASE rule = "containers_returned"
    <3>1. alert = "late_boxes"
      BY <1>5, <2>6 DEF Contrary
    <3> QED BY <1>2, <1>3, <1>4, <2>1, <2>6, <3>1, TicksSay, AlertsSay DEF shown
  <2>7. CASE rule = "deposits_back"
    <3>1. alert = "deposit"
      BY <1>5, <2>7 DEF Contrary
    <3>2. cl.detention.held = 0
      BY <1>2, <2>1, <2>7, TicksSay
    <3> QED BY <1>4, <3>1, <3>2, AlertsSay DEF shown
  <2>8. CASE rule \in {"costs_documented", "landed_ready"}
    <3>1. alert = "undocumented"
      BY <1>5, <2>8 DEF Contrary
    <3>2. ~lc.undocumented
      BY <1>2, <1>3, <2>1, <2>8, TicksSay
    <3> QED BY <1>4, <3>1, <3>2, AlertsSay DEF shown
  <2> QED BY <1>5, <2>2, <2>3, <2>4, <2>5, <2>6, <2>7, <2>8 DEF Contrary
<1>6. ASSUME <<rule, alert>> \in ContraryByDate, Unread \notin {file.eta, file.released_at} PROVE FALSE
  <2>1. rule \in Judged
    BY <1>6 DEF Judged
  <2>2. Read(file.eta) = file.eta /\ Read(file.released_at) = file.released_at
    BY <1>6 DEF Read
  <2>3. CASE rule = "eta+free_days"
    <3>1. alert = "no_clock"
      BY <1>6, <2>3 DEF ContraryByDate
    <3> QED BY <1>2, <1>4, <2>1, <2>2, <2>3, <3>1, TicksSay, AlertsSay DEF shown
  <2>4. CASE rule = "released_at"
    <3>1. alert \in {"no_clock", "overdue", "free_time"}
      BY <1>6, <2>4 DEF ContraryByDate
    <3>2. cl.state = "released"
      BY <1>2, <1>3, <2>1, <2>2, <2>4, TicksSay
    <3> QED BY <1>4, <3>1, <3>2, AlertsSay DEF shown
  <2> QED BY <1>6, <2>3, <2>4 DEF ContraryByDate
<1> QED BY <1>5, <1>6 DEF rule

\* No ticked step stands beside an alert that denies it, the pairs of Contrary for every file, papers, costs, containers
\* and day, and those of ContraryByDate while the two dates they go by can be read (resolve_steps, alerts).
THEOREM TicksAgree == Spec => []TicksAgreeWithAlerts
<1>1. ImportInv => TicksAgreeWithAlerts
  BY ScreenAgrees
<1> QED BY <1>1, ImportInvariant, PTL

-----------------------------------------------------------------------------
(* The landed cost.                                                        *)

\* A set of numbers that is not empty has a least one.
LEMMA LeastOf ==
  ASSUME NEW T \in SUBSET Nat, T # {}
  PROVE  \E x \in T : \A y \in T : x <= y
<1>1. PICK x \in T : \A y \in T : <<y, x>> \notin OpToRel(<, Nat)
  BY NatLessThanWellFounded, WFMin
<1>2. ASSUME NEW y \in T PROVE x <= y
  <2>1. ~(y < x)
    BY <1>1 DEF OpToRel
  <2> QED BY <2>1
<1> QED BY <1>2

\* The sums of a list of amounts, one amount after the other.
Summing(f, amounts, n) == f = [i \in 0 .. n |-> IF i = 0 THEN 0 ELSE f[i - 1] + amounts[i]]

LEMMA SumsExist ==
  ASSUME NEW amounts, NEW N \in Nat
  PROVE  \E f : Summing(f, amounts, N)
<1> DEFINE Without == {n \in Nat : ~\E f : Summing(f, amounts, n)}
<1>1. Without \in SUBSET Nat
  OBVIOUS
<1>2. Without = {}
  <2> SUFFICES ASSUME Without # {} PROVE FALSE
    OBVIOUS
  <2>1. PICK n \in Without : \A m \in Without : n <= m
    BY <1>1, LeastOf
  <2>2. n # 0
    <3>1. Summing([i \in 0 .. 0 |-> 0], amounts, 0)
      BY DEF Summing
    <3> QED BY <2>1, <3>1
  <2>3. PICK f : Summing(f, amounts, n - 1)
    <3>1. n - 1 \in Nat /\ n - 1 \notin Without
      BY <2>1, <2>2
    <3> QED BY <3>1
  <2> DEFINE g == [i \in 0 .. n |-> IF i = n THEN f[n - 1] + amounts[n] ELSE f[i]]
  <2>4. \A i \in 0 .. n : g[i] = IF i = 0 THEN 0 ELSE g[i - 1] + amounts[i]
    <3> TAKE i \in 0 .. n
    <3>1. CASE i = n
      <4>1. g[i] = f[n - 1] + amounts[n] /\ g[i - 1] = f[n - 1]
        BY <2>2, <3>1
      <4> QED BY <2>2, <3>1, <4>1
    <3>2. CASE i # n
      <4>1. f[i] = IF i = 0 THEN 0 ELSE f[i - 1] + amounts[i]
        <5>1. i \in 0 .. n - 1
          BY <2>1, <3>2
        <5> QED BY <2>3, <5>1 DEF Summing
      <4>2. g[i] = f[i] /\ (i # 0 => g[i - 1] = f[i - 1])
        BY <2>2, <3>2
      <4> HIDE DEF g
      <4> QED BY <4>1, <4>2
    <3> QED BY <3>1, <3>2
  <2>5. g = [i \in 0 .. n |-> g[i]]
    OBVIOUS
  <2> HIDE DEF g
  <2>6. Summing(g, amounts, n)
    BY <2>4, <2>5 DEF Summing
  <2> QED BY <2>1, <2>6
<1> QED BY <1>2

\* There is one such list of sums.
LEMMA SumsAreOne ==
  ASSUME NEW amounts, NEW N \in Nat, NEW f, NEW g, Summing(f, amounts, N), Summing(g, amounts, N)
  PROVE  f = g
<1> DEFINE Apart == {n \in 0 .. N : f[n] # g[n]}
<1>1. Apart \in SUBSET Nat
  OBVIOUS
<1>2. Apart = {}
  <2> SUFFICES ASSUME Apart # {} PROVE FALSE
    OBVIOUS
  <2>1. PICK n \in Apart : \A m \in Apart : n <= m
    BY <1>1, LeastOf
  <2>2. f[n] = (IF n = 0 THEN 0 ELSE f[n - 1] + amounts[n]) /\ g[n] = (IF n = 0 THEN 0 ELSE g[n - 1] + amounts[n])
    BY <2>1 DEF Summing
  <2>3. n # 0
    BY <2>1, <2>2
  <2>4. n - 1 \in 0 .. N /\ n - 1 \notin Apart
    BY <2>1, <2>3
  <2> QED BY <2>1, <2>2, <2>3, <2>4
<1>3. f = [n \in 0 .. N |-> f[n]] /\ g = [n \in 0 .. N |-> g[n]]
  BY DEF Summing
<1>4. \A n \in 0 .. N : f[n] = g[n]
  BY <1>2
<1> QED BY <1>3, <1>4

\* What a list of amounts comes to.
Total(amounts, N) == (CHOOSE f : Summing(f, amounts, N))[N]

\* The landed cost of a file adds the amounts its costs convert to.
LEMMA LandedAdds ==
  ASSUME ListsTyped, NEW row, NEW amounts,
         \A n \in 1 .. Len(costs) : amounts[n] = OrZero(ToEgp(costs[n].amount, costs[n].currency, row.fx_rate))
  PROVE  LET cif == ToEgp(IF Set(row.value_fob)
                                 THEN row.value_fob + OrZero(row.freight) + OrZero(row.insurance)
                                 ELSE None, row.currency, row.fx_rate)
         IN  Landed(row, costs).total = IF Set(cif) THEN cif + Total(amounts, Len(costs)) ELSE None
<1> DEFINE egp(c) == ToEgp(c.amount, c.currency, row.fx_rate)
           N == Len(costs)
<1>1. \A f : f = [n \in 0 .. N |-> IF n = 0 THEN 0 ELSE f[n - 1] + OrZero(egp(costs[n]))]
               <=> Summing(f, amounts, N)
  <2> TAKE f
  <2>1. \A n \in 0 .. N : (IF n = 0 THEN 0 ELSE f[n - 1] + OrZero(egp(costs[n]))) =
                          (IF n = 0 THEN 0 ELSE f[n - 1] + amounts[n])
    BY LenProperties DEF ListsTyped
  <2>2. [n \in 0 .. N |-> IF n = 0 THEN 0 ELSE f[n - 1] + OrZero(egp(costs[n]))] =
        [n \in 0 .. N |-> IF n = 0 THEN 0 ELSE f[n - 1] + amounts[n]]
    BY <2>1
  <2> QED BY <2>2 DEF Summing
<1>2. (CHOOSE f : f = [n \in 0 .. N |-> IF n = 0 THEN 0 ELSE f[n - 1] + OrZero(egp(costs[n]))]) =
      (CHOOSE f : Summing(f, amounts, N))
  BY <1>1
<1> DEFINE extras == CHOOSE f : f = [n \in 0 .. N |-> IF n = 0 THEN 0 ELSE f[n - 1] + OrZero(egp(costs[n]))]
           cif == ToEgp(IF Set(row.value_fob)
                               THEN row.value_fob + OrZero(row.freight) + OrZero(row.insurance)
                               ELSE None, row.currency, row.fx_rate)
<1>3. Landed(row, costs).total = IF Set(cif) THEN cif + extras[N] ELSE None
  BY DEF Landed
<1>4. extras[N] = Total(amounts, N)
  BY <1>2 DEF Total
<1> HIDE DEF extras, cif
<1>5. Landed(row, costs).total = IF Set(cif) THEN cif + Total(amounts, N) ELSE None
  BY <1>3, <1>4
<1> QED BY <1>5 DEF cif

\* An amount that converts, converts at the file's rate, and one of the house as it stands.
Rate(currency, fx) == IF currency = "EGP" THEN 1 ELSE OrZero(fx)

LEMMA Converts ==
  ASSUME NEW amount \in Int \cup {None}, NEW currency, NEW fx \in Int \cup {None},
         Set(ToEgp(amount, currency, fx))
  PROVE  /\ amount \in Int /\ Rate(currency, fx) \in Int
         /\ ToEgp(amount, currency, fx) = amount * Rate(currency, fx)
         /\ OrZero(ToEgp(amount, currency, fx)) = amount * Rate(currency, fx)
<1>1. None \notin Int
  BY NoneAssumption
<1>2. amount \in Int
  BY DEF ToEgp, Set
<1>3. Rate(currency, fx) \in Int /\ ToEgp(amount, currency, fx) = amount * Rate(currency, fx)
  <2>1. CASE currency = "EGP"
    BY <1>1, <1>2, <2>1 DEF ToEgp, Set, Rate
  <2>2. CASE currency # "EGP"
    <3>1. fx \notin {None, 0} /\ ToEgp(amount, currency, fx) = amount * fx
      BY <1>1, <1>2, <2>2 DEF ToEgp, Set
    <3>2. Rate(currency, fx) = fx
      BY <2>2, <3>1 DEF Rate, OrZero, Set
    <3> QED BY <3>1, <3>2
  <2> QED BY <2>1, <2>2
<1> QED BY <1>2, <1>3 DEF OrZero

\* A total that says it is complete is what was paid.
LEMMA PaidIsLanded ==
  ASSUME ImportInv
  PROVE  LandedIsWhatWasPaid
<1> DEFINE N == Len(costs)
           fx == file.fx_rate
           goods == IF Set(file.value_fob)
                    THEN file.value_fob + OrZero(file.freight) + OrZero(file.insurance) ELSE None
           cif == ToEgp(goods, file.currency, fx)
           amounts == [n \in 1 .. N |-> costs[n].amount * Rate(costs[n].currency, fx)]
           rate(currency) == IF currency = "EGP" THEN 1 ELSE OrZero(file.fx_rate)
           paid == CHOOSE f : f = [n \in 0 .. N |-> IF n = 0 THEN 0
                                                    ELSE f[n - 1] + costs[n].amount * rate(costs[n].currency)]
<1> SUFFICES ASSUME file # None, Set(Landed(file, costs).total),
                    ~Landed(file, costs).unconverted
             PROVE  Landed(file, costs).total =
                      (file.value_fob + OrZero(file.freight) + OrZero(file.insurance))
                        * rate(file.currency) + paid[N]
  BY DEF LandedIsWhatWasPaid
<1>1. costs \in Seq(Cost) /\ N \in Nat /\ DOMAIN costs = 1 .. N
  BY LenProperties DEF ImportInv, ListsTyped
<1>2. /\ fx \in Int \cup {None} /\ file.value_fob \in Int \cup {None} /\ file.freight \in Int \cup {None}
      /\ file.insurance \in Int \cup {None}
  BY RowFields DEF ImportInv, RowTyped
<1>3. \A n \in 1 .. N : costs[n].amount \in Int
  <2>1. \A n \in 1 .. N : costs[n] \in Cost
    BY <1>1
  <2>2. \A c \in Cost : c.amount \in Int
    BY DEF Cost
  <2> QED BY <2>1, <2>2
<1>4. \A n \in 1 .. N : Set(ToEgp(costs[n].amount, costs[n].currency, fx))
  BY <1>1 DEF Landed
<1>5. \A n \in 1 .. N : amounts[n] = OrZero(ToEgp(costs[n].amount, costs[n].currency, fx))
  <2> TAKE n \in 1 .. N
  <2>1. amounts[n] = costs[n].amount * Rate(costs[n].currency, fx)
    OBVIOUS
  <2>2. costs[n].amount \in Int \cup {None} /\ fx \in Int \cup {None}
        /\ Set(ToEgp(costs[n].amount, costs[n].currency, fx))
    BY <1>2, <1>3, <1>4
  <2> HIDE DEF fx, amounts
  <2> QED BY <2>1, <2>2, Converts
<1>6. Landed(file, costs).total = IF Set(cif) THEN cif + Total(amounts, N) ELSE None
  <2> HIDE DEF amounts
  <2> QED BY <1>5, LandedAdds DEF ImportInv
<1>7. Set(cif)
  BY <1>6 DEF Set
<1>8. cif = (file.value_fob + OrZero(file.freight) + OrZero(file.insurance)) * rate(file.currency)
  <2>1. Set(file.value_fob)
    BY <1>7 DEF ToEgp, Set
  <2>2. goods \in Int /\ goods = file.value_fob + OrZero(file.freight) + OrZero(file.insurance)
    BY <1>2, <2>1 DEF OrZero, Set
  <2> HIDE DEF goods
  <2>3. cif = goods * Rate(file.currency, fx)
    <3>1. fx \in Int \cup {None} /\ goods \in Int \cup {None} /\ Set(ToEgp(goods, file.currency, fx))
      BY <1>2, <1>7, <2>2
    <3> HIDE DEF fx
    <3> QED BY <3>1, Converts
  <2> QED BY <2>2, <2>3 DEF Rate
<1>9. paid[N] = Total(amounts, N)
  <2>1. \A f : f = [n \in 0 .. N |-> IF n = 0 THEN 0 ELSE f[n - 1] + costs[n].amount * rate(costs[n].currency)]
                 <=> Summing(f, amounts, N)
    <3> TAKE f
    <3>1. \A n \in 0 .. N : (IF n = 0 THEN 0 ELSE f[n - 1] + costs[n].amount * rate(costs[n].currency)) =
                            (IF n = 0 THEN 0 ELSE f[n - 1] + amounts[n])
      BY <1>1 DEF Rate
    <3> QED BY <3>1 DEF Summing
  <2>2. paid = CHOOSE f : Summing(f, amounts, N)
    BY <2>1
  <2> QED BY <2>2 DEF Total
<1> HIDE DEF cif, paid, amounts, goods, rate
<1> QED BY <1>6, <1>7, <1>8, <1>9

\* A landed cost that says it is complete is what was paid, for every list of costs, rate and currency (landed).
THEOREM LandedIsPaid == Spec => []LandedIsWhatWasPaid
<1>1. ImportInv => LandedIsWhatWasPaid
  BY PaidIsLanded
<1> QED BY <1>1, ImportInvariant, PTL

-----------------------------------------------------------------------------
(* The countdown.                                                          *)

\* One more entry adds itself to the total.
LEMMA TotalGrows ==
  ASSUME NEW amounts, NEW n \in Nat
  PROVE  Total(amounts, 0) = 0 /\ Total(amounts, n + 1) = Total(amounts, n) + amounts[n + 1]
<1>1. ASSUME NEW m \in Nat PROVE Summing(CHOOSE h : Summing(h, amounts, m), amounts, m)
  BY SumsExist
<1>2. Total(amounts, 0) = 0
  <2> DEFINE f == CHOOSE h : Summing(h, amounts, 0)
  <2>1. Summing(f, amounts, 0)
    BY <1>1
  <2> HIDE DEF f
  <2>2. f[0] = 0
    BY <2>1 DEF Summing
  <2> QED BY <2>2 DEF Total, f
<1>3. Total(amounts, n + 1) = Total(amounts, n) + amounts[n + 1]
  <2> DEFINE m == n + 1
             f == CHOOSE h : Summing(h, amounts, m)
             g == CHOOSE h : Summing(h, amounts, n)
             cut == [i \in 0 .. n |-> f[i]]
  <2>1. m \in Nat /\ n = m - 1 /\ m # 0
    OBVIOUS
  <2>2. Summing(f, amounts, m) /\ Summing(g, amounts, n)
    BY <1>1, <2>1
  <2> HIDE DEF f, g, m
  <2>3. Summing(cut, amounts, n)
    <3>1. \A i \in 0 .. n : i \in 0 .. m /\ (i # 0 => i - 1 \in 0 .. n)
      BY <2>1
    <3>2. \A i \in 0 .. n : cut[i] = IF i = 0 THEN 0 ELSE cut[i - 1] + amounts[i]
      BY <2>2, <3>1 DEF Summing
    <3>3. cut = [i \in 0 .. n |-> cut[i]]
      OBVIOUS
    <3> HIDE DEF cut
    <3> QED BY <3>2, <3>3 DEF Summing
  <2>4. cut = g
    BY <2>2, <2>3, SumsAreOne
  <2>5. f[m] = f[n] + amounts[m]
    BY <2>1, <2>2 DEF Summing
  <2>6. g[n] = f[n]
    BY <2>4
  <2> QED BY <2>5, <2>6 DEF Total, f, g, m
<1> QED BY <1>2, <1>3

\* What adds up is a number.
LEMMA TotalIsANumber ==
  ASSUME NEW amounts, NEW N \in Nat, \A n \in 1 .. N : amounts[n] \in Nat
  PROVE  Total(amounts, N) \in Nat
<1> DEFINE Odd == {n \in 0 .. N : Total(amounts, n) \notin Nat}
<1>1. Odd \in SUBSET Nat
  OBVIOUS
<1>2. Odd = {}
  <2> SUFFICES ASSUME Odd # {} PROVE FALSE
    OBVIOUS
  <2>1. PICK n \in Odd : \A m \in Odd : n <= m
    BY <1>1, LeastOf
  <2>2. n # 0
    BY <2>1, TotalGrows
  <2>3. n - 1 \in Nat /\ n - 1 \in 0 .. N /\ n - 1 \notin Odd
    BY <2>1, <2>2
  <2>4. PICK m \in Nat : m = n - 1
    BY <2>3
  <2>5. Total(amounts, m + 1) = Total(amounts, m) + amounts[m + 1]
    BY TotalGrows
  <2>6. m + 1 = n /\ Total(amounts, m) \in Nat /\ amounts[n] \in Nat
    BY <2>1, <2>2, <2>3, <2>4
  <2> QED BY <2>1, <2>5, <2>6
<1> QED BY <1>2

\* The rate of a day that the tariff covers.
LEMMA TierIsThere ==
  ASSUME NEW tariff \in Seq(Tiers), NEW day \in Nat, TierOf(tariff, day) # 0
  PROVE  tariff[TierOf(tariff, day)].rate \in Nat
<1> DEFINE covers == {i \in 1 .. Len(tariff) : tariff[i].from <= day /\ day <= tariff[i].to}
<1>1. TierOf(tariff, day) = IF covers # {} THEN Min(covers) ELSE 0
  BY DEF TierOf, SelectInSeq
<1>2. covers # {} /\ covers \in SUBSET Nat
  BY <1>1
<1> HIDE DEF covers
<1>3. Min(covers) \in covers
  BY <1>2, LeastOf DEF Min
<1>4. TierOf(tariff, day) \in 1 .. Len(tariff)
  BY <1>1, <1>2, <1>3 DEF covers
<1>5. tariff[TierOf(tariff, day)] \in Tiers
  BY <1>4
<1> QED BY <1>5 DEF Tiers

\* The bill of a delay adds the rates of its days.
LEMMA BillAdds ==
  ASSUME NEW tariff, NEW count, NEW days \in Nat, days # 0,
         NEW rates, \A d \in 1 .. days : rates[d] = tariff[TierOf(tariff, d)].rate
  PROVE  Demurrage(days, count, tariff) =
           IF tariff # <<>> /\ count # 0 /\ \A d \in 1 .. days : TierOf(tariff, d) # 0
           THEN count * Total(rates, days) ELSE None
<1>1. \A f : f = [d \in 0 .. days |-> IF d = 0 THEN 0 ELSE f[d - 1] + tariff[TierOf(tariff, d)].rate]
               <=> Summing(f, rates, days)
  <2> TAKE f
  <2>1. \A d \in 0 .. days : (IF d = 0 THEN 0 ELSE f[d - 1] + tariff[TierOf(tariff, d)].rate) =
                             (IF d = 0 THEN 0 ELSE f[d - 1] + rates[d])
    OBVIOUS
  <2> QED BY <2>1 DEF Summing
<1> DEFINE billed == CHOOSE f : f = [d \in 0 .. days |-> IF d = 0 THEN 0
                                                         ELSE f[d - 1] + tariff[TierOf(tariff, d)].rate]
<1>2. billed[days] = Total(rates, days)
  <2>1. billed = CHOOSE f : Summing(f, rates, days)
    BY <1>1
  <2> QED BY <2>1 DEF Total
<1>3. ~(days <= 0)
  OBVIOUS
<1>4. Demurrage(days, count, tariff) =
        IF tariff = <<>> \/ count = 0 \/ \E d \in 1 .. days : TierOf(tariff, d) = 0 THEN None
        ELSE count * billed[days]
  BY <1>3 DEF Demurrage
<1> HIDE DEF billed
<1> QED BY <1>2, <1>4

\* One more day never makes the bill cheaper, and never brings an answer back.
LEMMA BillGrows ==
  ASSUME NEW tariff \in Seq(Tiers), NEW count \in Nat, NEW days \in Nat,
         NEW later \in {days, days + 1}, Demurrage(later, count, tariff) # None
  PROVE  /\ Demurrage(days, count, tariff) # None
         /\ Demurrage(days, count, tariff) <= Demurrage(later, count, tariff)
<1> DEFINE rates == [d \in 1 .. later |-> tariff[TierOf(tariff, d)].rate]
<1>0. later \in Nat /\ None \notin Int
  BY NoneAssumption
<1>1. CASE later = 0
  <2>1. days = 0 /\ Demurrage(0, count, tariff) = 0
    BY <1>1 DEF Demurrage
  <2> QED BY <1>0, <1>1, <2>1
<1>2. CASE later # 0
  <2>1. /\ Demurrage(later, count, tariff) = count * Total(rates, later)
        /\ tariff # <<>> /\ count # 0 /\ \A d \in 1 .. later : TierOf(tariff, d) # 0
    <3>1. \A d \in 1 .. later : rates[d] = tariff[TierOf(tariff, d)].rate
      OBVIOUS
    <3> HIDE DEF rates
    <3> QED BY <1>0, <1>2, <3>1, BillAdds
  <2>2. \A d \in 1 .. later : rates[d] \in Nat
    BY <2>1, TierIsThere
  <2>3. \A d \in 1 .. days : d \in 1 .. later
    BY <1>0
  <2>4. days # 0 => Demurrage(days, count, tariff) = count * Total(rates, days)
    <3>1. \A d \in 1 .. days : rates[d] = tariff[TierOf(tariff, d)].rate
      BY <2>3
    <3> HIDE DEF rates
    <3> QED BY <2>1, <2>3, <3>1, BillAdds
  <2>5. days = 0 => Demurrage(days, count, tariff) = 0
    BY DEF Demurrage
  <2> HIDE DEF rates
  <2>6. Total(rates, days) \in Nat
    BY <2>2, <2>3, TotalIsANumber
  <2>7. /\ Total(rates, 0) = 0
        /\ later = days + 1 => Total(rates, later) = Total(rates, days) + rates[later] /\ rates[later] \in Nat
    BY <2>2, <1>0, TotalGrows
  <2>8. Total(rates, later) \in Nat /\ Total(rates, days) <= Total(rates, later)
    BY <2>6, <2>7
  <2>9. Demurrage(days, count, tariff) = count * Total(rates, days)
    <3>1. count * 0 = 0
      OBVIOUS
    <3> QED BY <2>4, <2>5, <2>7, <3>1
  <2>10. \A a, b \in Nat : a <= b => count * a <= count * b /\ count * a \in Nat
    OBVIOUS
  <2> QED BY <1>0, <2>1, <2>6, <2>8, <2>9, <2>10
<1> QED BY <1>1, <1>2

\* Only the calendar moves the day.
LEMMA OnlyDaysPass ==
  ASSUME ImportInv, Next, today' = today + 1
  PROVE  UNCHANGED <<file, boxes>>
<1>1. today' # today
  BY DEF ImportInv, WorldTyped
<1>2. DayPasses
  BY <1>1 DEF Next, Create, DayPasses, NamaMoves, Update, SetStep,
     SetDoc, SetCheck, AddCost, DeleteCost, AddBox, UpdateBox,
     DeleteBox, StartSync, StartOpening, NamaAnswers, NamaFails, EndSync,
     EndOpening
<1> QED BY <1>2 DEF DayPasses, contents

\* The clock of a file on two days that follow each other.
LEMMA DaysRun ==
  ASSUME ImportInv, file # None
  PROVE  LET now == Clock(file, boxes, today)
             next == Clock(file, boxes, today + 1)
         IN  IF now.released \/ ~Set(now.end) THEN next.overdue = now.overdue /\ next.estimate = now.estimate
             ELSE /\ next.left = now.left - 1
                  /\ next.overdue = (IF next.left < 0 THEN -next.left ELSE 0)
                  /\ Set(next.estimate) => Set(now.estimate) /\ now.estimate <= next.estimate
                  /\ next.state = "overdue" => now.state \in {"warn", "overdue"}
<1> DEFINE end == EndOfFreeTime(file)
           Over(day) == IF Set(end) /\ Stop(file, day) > end THEN Stop(file, day) - end ELSE 0
           Left(day) == IF Set(end) /\ ~Set(Read(file.released_at)) THEN end - day ELSE None
           count == IF file.containers > 0 THEN file.containers ELSE Len(boxes)
           State(day) == IF Set(Read(file.released_at)) THEN "released" ELSE IF Over(day) > 0 THEN "overdue"
                         ELSE IF ~Set(Left(day)) THEN "unset"
                         ELSE IF Left(day) <= FREE_TIME_WARN_DAYS THEN "warn" ELSE "ok"
<1>0. today \in Nat /\ None \notin Int /\ Unread \notin Int /\ today + 1 \in Nat
  BY NoneAssumption DEF ImportInv, WorldTyped
<1>1. /\ file.eta \in Dates /\ file.ata \in Dates /\ file.free_days \in Int \cup {None}
      /\ file.free_time_start \in Dates /\ file.released_at \in Dates
      /\ file.demurrage_tariff \in Seq(Tiers) /\ file.containers \in Nat
  BY RowFields DEF ImportInv, RowTyped
<1>2. end \in Int \cup {None}
  BY <1>0, <1>1 DEF EndOfFreeTime, Set, Read, Dates
<1>3. count \in Nat
  BY <1>1, LenProperties DEF ImportInv, ListsTyped
<1>4. \A day \in Nat : LET c == Clock(file, boxes, day)
                       IN  /\ c.end = end /\ c.overdue = Over(day) /\ c.left = Left(day)
                           /\ c.released = Set(Read(file.released_at)) /\ c.state = State(day)
                           /\ c.estimate = Demurrage(Over(day), count, file.demurrage_tariff)
  BY DEF Clock
<1> HIDE DEF end, count
<1>5. CASE Set(Read(file.released_at)) \/ ~Set(end)
  <2>1. Over(today) = Over(today + 1)
    BY <1>5 DEF Stop
  <2> HIDE DEF Over, Left, State
  <2> QED BY <1>0, <1>4, <1>5, <2>1
<1>6. CASE ~Set(Read(file.released_at)) /\ Set(end)
  <2>1. end \in Int
    BY <1>2, <1>6 DEF Set
  <2> DEFINE o1 == Over(today)
             o2 == Over(today + 1)
             l1 == Left(today)
             l2 == Left(today + 1)
  <2>2. l1 = end - today /\ l2 = end - (today + 1)
    BY <1>6
  <2>3. ASSUME NEW day \in Nat PROVE Over(day) = IF day > end THEN day - end ELSE 0
    <3>1. Stop(file, day) = day
      BY <1>6 DEF Stop
    <3> QED BY <1>6, <3>1
  <2> HIDE DEF Over
  <2>4. o1 = IF today > end THEN today - end ELSE 0
    BY <1>0, <2>3
  <2>5. o2 = IF today + 1 > end THEN today + 1 - end ELSE 0
    <3>1. PICK day \in Nat : day = today + 1
      BY <1>0
    <3>2. o2 = Over(day)
      BY <3>1
    <3> HIDE DEF o2
    <3>3. o2 = IF day > end THEN day - end ELSE 0
      BY <2>3, <3>2
    <3> QED BY <1>0, <2>1, <3>1, <3>3
  <2> HIDE DEF o1, o2, l1, l2
  <2>6. /\ o1 \in Nat /\ o2 \in {o1, o1 + 1}
        /\ l2 = l1 - 1 /\ l1 \in Int
        /\ o2 = (IF l2 < 0 THEN -l2 ELSE 0)
        /\ o2 > 0 => o1 > 0 \/ l1 = 0
    BY <1>0, <2>1, <2>2, <2>4, <2>5
  <2>7. State(today + 1) = "overdue" => State(today) \in {"warn", "overdue"}
    <3>1. State(today + 1) = "overdue" => o2 > 0
      BY DEF o2
    <3>2. o1 > 0 => State(today) = "overdue"
      BY <1>6 DEF o1
    <3>3. l1 = 0 => State(today) \in {"warn", "overdue"}
      <4>1. (Set(l1) /\ l1 <= FREE_TIME_WARN_DAYS) \/ l1 # 0
        BY <1>0 DEF FREE_TIME_WARN_DAYS, Set
      <4> QED BY <1>6, <4>1 DEF l1
    <3> QED BY <2>6, <3>1, <3>2, <3>3
  <2> HIDE DEF Left, State
  <2>8. Set(Demurrage(Over(today + 1), count, file.demurrage_tariff)) =>
          /\ Set(Demurrage(Over(today), count, file.demurrage_tariff))
          /\ Demurrage(Over(today), count, file.demurrage_tariff) <=
               Demurrage(Over(today + 1), count, file.demurrage_tariff)
    BY <1>1, <1>3, <2>6, BillGrows DEF Set, o1, o2
  <2>9. /\ Left(today + 1) = Left(today) - 1
        /\ Over(today + 1) = (IF Left(today + 1) < 0 THEN -Left(today + 1) ELSE 0)
    BY <2>6 DEF o1, o2, l1, l2
  <2> QED BY <1>0, <1>4, <1>6, <2>7, <2>8, <2>9
<1> QED BY <1>5, <1>6

\* The countdown runs by days until the goods are out, and its estimate never gets cheaper, for every tariff,
\* number of containers and day of arrival (clock, _demurrage).
THEOREM TheCountdownRuns == Spec => CountdownRuns
<1>1. ASSUME ImportInv, Next, today' = today + 1, file # None
      PROVE  LET now == Clock(file, boxes, today)
                 then == Clock(file', boxes', today')
             IN  IF now.released \/ ~Set(now.end)
                 THEN then.overdue = now.overdue /\ then.estimate = now.estimate
                 ELSE /\ then.left = now.left - 1
                      /\ then.overdue = (IF then.left < 0 THEN -then.left ELSE 0)
                      /\ Set(then.estimate) => Set(now.estimate) /\ now.estimate <= then.estimate
                      /\ then.state = "overdue" => now.state \in {"warn", "overdue"}
  <2>1. file' = file /\ boxes' = boxes
    BY <1>1, OnlyDaysPass
  <2> QED BY <1>1, <2>1, DaysRun
<1> QED BY <1>1, ImportInvariant, PTL DEF Spec, CountdownRuns
=============================================================================
