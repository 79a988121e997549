------------------------- MODULE LiveFinanceProofs -------------------------
(***************************************************************************)
(* What LiveFinance promises for every number of manual sweeps, requested  *)
(* checks, readers and changes of the books.                               *)
(***************************************************************************)
EXTENDS LiveFinance, SequenceTheorems, TLAPS

\* Queue q holds exactly the members of S, each once.
Lists(q, S) ==
    /\ \A i \in 1 .. Len(q) : q[i] \in S
    /\ \A x \in S : \E i \in 1 .. Len(q) : q[i] = x
    /\ \A i, j \in 1 .. Len(q) : q[i] = q[j] => i = j

AtSweep == {p \in Sweepers : pc[p] \in {"queued", "sweep"}}
AtGuard == {p \in Guards : pc[p] = "guard"}

\* The tasks that wait for or hold a lock are exactly those in its queue, each
\* once; only the head of the sweep's queue can be inside the sweep.
SweepQueue ==
    /\ Lists(liveQueue, AtSweep)
    /\ \A i \in 2 .. Len(liveQueue) : pc[liveQueue[i]] = "queued"
    /\ building <=> liveQueue # <<>> /\ pc[liveQueue[1]] = "sweep"

GuardQueue == Lists(guardQueue, AtGuard)

IInv == TypeOK /\ SweepQueue /\ GuardQueue

\* Joining the back of a lock's queue adds one task to it, once.
LEMMA ListsAppend ==
  ASSUME NEW T, NEW S, NEW q \in Seq(T), Lists(q, S), NEW x \in T, x \notin S
  PROVE  Lists(Append(q, x), S \cup {x})
<1>1. /\ Len(Append(q, x)) = Len(q) + 1
      /\ \A i \in 1 .. Len(q) : Append(q, x)[i] = q[i]
      /\ Append(q, x)[Len(q) + 1] = x
  BY AppendProperties
<1>2. Len(q) \in Nat
  OBVIOUS
<1>3. \A i \in 1 .. Len(Append(q, x)) : i \in 1 .. Len(q) \/ i = Len(q) + 1
  BY <1>1, <1>2
<1>4. \A i \in 1 .. Len(q) : i \in 1 .. Len(Append(q, x))
  BY <1>1, <1>2
<1>5. Len(q) + 1 \in 1 .. Len(Append(q, x))
  BY <1>1, <1>2
<1> QED
  BY <1>1, <1>3, <1>4, <1>5 DEF Lists

\* Releasing a lock: the queue loses its head and nobody else.
LEMMA ListsTail ==
  ASSUME NEW T, NEW S, NEW q \in Seq(T), Lists(q, S), q # <<>>
  PROVE  Lists(Tail(q), S \ {q[1]})
<1>1. /\ Len(q) \in Nat /\ Len(q) >= 1 /\ Len(Tail(q)) = Len(q) - 1
      /\ \A i \in 1 .. Len(Tail(q)) : Tail(q)[i] = q[i + 1]
  BY HeadTailProperties
<1>2. \A i \in 1 .. Len(Tail(q)) : i + 1 \in 1 .. Len(q) /\ i + 1 # 1
  BY <1>1
<1>3. \A k \in 1 .. Len(q) : k # 1 => k - 1 \in 1 .. Len(Tail(q)) /\ (k - 1) + 1 = k
  BY <1>1
<1>4. 1 \in 1 .. Len(q)
  BY <1>1
<1>5. \A i, j \in 1 .. Len(Tail(q)) : i + 1 = j + 1 => i = j
  OBVIOUS
<1>6. ASSUME NEW i \in 1 .. Len(Tail(q)) PROVE Tail(q)[i] \in S \ {q[1]}
  BY <1>1, <1>2, <1>4, <1>6 DEF Lists
<1>7. ASSUME NEW x \in S \ {q[1]} PROVE \E i \in 1 .. Len(Tail(q)) : Tail(q)[i] = x
  <2>1. PICK k \in 1 .. Len(q) : q[k] = x
    BY DEF Lists
  <2>2. k # 1
    BY <2>1
  <2> QED
    BY <1>1, <1>3, <2>1, <2>2
<1>8. ASSUME NEW i \in 1 .. Len(Tail(q)), NEW j \in 1 .. Len(Tail(q)), Tail(q)[i] = Tail(q)[j]
      PROVE  i = j
  BY <1>1, <1>2, <1>5, <1>8 DEF Lists
<1> QED
  BY <1>6, <1>7, <1>8 DEF Lists

\* The records the sweep and the check append are of their types.
LEMMA Records ==
    /\ \A r \in Revs, b \in BOOLEAN : [rev |-> r, whole |-> b] \in Reading
    /\ \A r \in Revs, b \in BOOLEAN : [rev |-> r, ok |-> b] \in Look
    /\ \A s \in Statuses, l \in Seq(Look) : [status |-> s, looks |-> l] \in Verdict
    /\ \A s \in Statuses : [status |-> s, looks |-> <<>>] \in Verdict
<1>1. <<>> \in Seq(Look)
  OBVIOUS
<1> QED
  BY <1>1 DEF Reading, Look, Verdict

\* Coming to guard.check, whichever way it turns, leaves the types right.
LEMMA EnterCheckType ==
  ASSUME TypeOK, NEW p \in Guards, NEW seen \in BOOLEAN, EnterCheck(p, seen)
  PROVE  /\ verdict' \in Verdict /\ guardQueue' \in Seq(Guards) /\ checked' \in BOOLEAN
         /\ pc' \in [Procs -> {"idle", "accepted", "queued", "sweep", "guard"}]
<1> USE DEF TypeOK
<1>0. p \in Procs
  BY DEF Guards, Procs, Sweepers
<1>1. CASE GuardReady
  <2>1. guardQueue' \in Seq(Guards)
    <3>1. guardQueue' = Append(guardQueue, p)
      BY <1>1 DEF EnterCheck
    <3> QED
      BY <3>1, AppendProperties
  <2>2. pc' \in [Procs -> {"idle", "accepted", "queued", "sweep", "guard"}]
    BY <1>0, <1>1 DEF EnterCheck
  <2> QED
    BY <1>1, <2>1, <2>2 DEF EnterCheck
<1>2. CASE ~GuardReady
  <2>1. verdict' = [status |-> "unknown", looks |-> <<>>]
    BY <1>2 DEF EnterCheck, Publish
  <2>2. verdict' \in Verdict
    BY <2>1, Records DEF Statuses
  <2> QED
    BY <1>0, <1>2, <2>2 DEF EnterCheck, Publish
<1> QED
  BY <1>1, <1>2

\* A task inside the sweep is the head of the lock's queue.
LEMMA SweepHolder ==
  ASSUME IInv, NEW p \in Sweepers, pc[p] = "sweep"
  PROVE  liveQueue # <<>> /\ p = liveQueue[1] /\ building
<1> USE DEF IInv, TypeOK, SweepQueue
<1>1. PICK i \in 1 .. Len(liveQueue) : liveQueue[i] = p
  BY DEF Lists, AtSweep
<1>2. i = 1
  BY <1>1
<1> QED
  BY <1>1, <1>2

\* A task that compares or publishes is the head of the guard's queue.
LEMMA GuardHolder ==
  ASSUME IInv, NEW p \in Guards, Guarding(p)
  PROVE  guardQueue # <<>> /\ p = guardQueue[1]
<1> USE DEF IInv, TypeOK, GuardQueue
<1>1. PICK i \in 1 .. Len(guardQueue) : guardQueue[i] = p
  BY DEF Lists, AtGuard, Guarding
<1> QED
  BY <1>1 DEF Guarding

\* The process starts with an empty cache, an unknown verdict and free locks.
LEMMA InitTypeOK == Init => TypeOK
<1> SUFFICES ASSUME Init PROVE TypeOK
  OBVIOUS
<1>1. <<>> \in Seq(Reading) /\ <<>> \in Seq(Look) /\ <<>> \in Seq(Sweepers) /\ <<>> \in Seq(Guards)
  OBVIOUS
<1>2. verdict \in Verdict
  BY <1>1, Records DEF Init, Unknown, Statuses
<1>3. reply \in [Readers -> Answer]
  BY DEF Init, NoReply, Answer
<1>4. rev \in Revs
  BY SettingsAssumption DEF Init, Revs
<1>5. pc \in [Procs -> {"idle", "accepted", "queued", "sweep", "guard"}]
  BY DEF Init
<1>6. read \in [Sweepers -> Seq(Reading)] /\ looks \in [Guards -> Seq(Look)]
  BY <1>1 DEF Init
<1>7. liveQueue \in Seq(Sweepers) /\ snapshot \in Seq(Reading) /\ guardQueue \in Seq(Guards)
  BY <1>1 DEF Init
<1>8. /\ differs \subseteq MayDiffer /\ refused \subseteq MayRefuse
      /\ namaUp \in BOOLEAN /\ sqlUp \in BOOLEAN /\ building \in BOOLEAN
      /\ checked \in BOOLEAN
  BY DEF Init
<1> QED
  BY <1>2, <1>3, <1>4, <1>5, <1>6, <1>7, <1>8 DEF TypeOK

\* Every step of a sweep, a check, a reader or Nama keeps the types.
LEMMA NextTypeOK == IInv /\ [Next]_vars => TypeOK'
<1> SUFFICES ASSUME IInv, [Next]_vars PROVE TypeOK'
  OBVIOUS
<1> USE DEF IInv, TypeOK
<1>loop. Loop \in Sweepers /\ Loop \in Guards /\ Sweepers \subseteq Procs /\ Guards \subseteq Procs
  BY DEF Sweepers, Guards, Procs
<1>1. CASE NamaChanges
  BY <1>1, SettingsAssumption DEF NamaChanges, Toggle, sweep, guard, Revs
<1>2. CASE LinkChanges
  BY <1>2 DEF LinkChanges, sweep, guard
<1>3. CASE LoopWakes
  BY <1>3, <1>loop DEF LoopWakes, Acquire, nama, guard
<1>4. ASSUME NEW p \in Sweepers, RunTask(p) PROVE TypeOK'
  BY <1>4, <1>loop DEF RunTask, Acquire, nama, guard
<1>5. ASSUME NEW p \in Sweepers, StartSweep(p) PROVE TypeOK'
  BY <1>5, <1>loop DEF StartSweep, nama, guard
<1>6. ASSUME NEW p \in Sweepers, ReadCollection(p) PROVE TypeOK'
  <2> DEFINE r == [rev |-> rev, whole |-> Collections[Len(read[p]) + 1] \notin refused]
  <2>1. r \in Reading
    BY Records
  <2>2. Append(read[p], r) \in Seq(Reading)
    BY <2>1
  <2>3. read' = [read EXCEPT ![p] = Append(@, r)]
    BY <1>6 DEF ReadCollection
  <2> HIDE DEF r
  <2>4. read' \in [Sweepers -> Seq(Reading)]
    BY <2>2, <2>3
  <2> QED
    BY <1>6, <2>4 DEF ReadCollection, nama, guard
<1>7. ASSUME NEW p \in Sweepers, PostRefresh(p) PROVE TypeOK'
  BY <1>7, <1>loop DEF PostRefresh, nama, sweep, guard
<1>8. ASSUME NEW p \in Sweepers, pc[p] = "sweep", NEW published \in BOOLEAN, LeaveSweep(p, published)
      PROVE /\ building' \in BOOLEAN /\ checked' \in BOOLEAN
            /\ liveQueue' \in Seq(Sweepers) /\ read' \in [Sweepers -> Seq(Reading)]
            /\ pc' \in [Procs -> {"idle", "accepted", "queued", "sweep", "guard"}]
            /\ guardQueue' \in Seq(Guards) /\ verdict' \in Verdict
  <2>1. liveQueue # <<>>
    BY <1>8, SweepHolder
  <2>2. read' \in [Sweepers -> Seq(Reading)] /\ liveQueue' \in Seq(Sweepers)
    BY <1>8, <2>1 DEF LeaveSweep
  <2>3. CASE p = Loop
    BY <1>8, <1>loop, <2>2, <2>3, EnterCheckType DEF LeaveSweep
  <2>4. CASE p # Loop
    BY <1>8, <1>loop, <2>2, <2>4 DEF LeaveSweep
  <2> QED
    BY <2>3, <2>4
<1>9. ASSUME NEW p \in Sweepers, PublishSnapshot(p) PROVE TypeOK'
  BY <1>8, <1>9 DEF PublishSnapshot, nama
<1>10. ASSUME NEW p \in Sweepers, SweepFails(p) PROVE TypeOK'
  BY <1>8, <1>10 DEF SweepFails, nama
<1>11. ASSUME NEW p \in Guards, PostGuard(p) PROVE TypeOK'
  BY <1>11, EnterCheckType DEF PostGuard, nama, sweep
<1>12. ASSUME NEW p \in Guards, CompareEntity(p) PROVE TypeOK'
  <2> DEFINE l == [rev |-> rev, ok |-> Agrees(Entities[Len(looks[p]) + 1])]
  <2>1. l \in Look
    BY Records DEF Agrees
  <2>2. looks' = [looks EXCEPT ![p] = Append(@, l)]
    BY <1>12 DEF CompareEntity
  <2> HIDE DEF l
  <2>3. looks' \in [Guards -> Seq(Look)]
    BY <2>1, <2>2
  <2> QED
    BY <1>12, <2>3 DEF CompareEntity, nama, sweep
<1>13. ASSUME NEW p \in Guards, Guarding(p), LeaveCheck(p)
       PROVE /\ guardQueue' \in Seq(Guards) /\ looks' \in [Guards -> Seq(Look)]
             /\ pc' \in [Procs -> {"idle", "accepted", "queued", "sweep", "guard"}]
  <2>1. guardQueue # <<>>
    BY <1>13, GuardHolder
  <2> QED
    BY <1>13, <1>loop, <2>1 DEF LeaveCheck
<1>14. ASSUME NEW p \in Guards, PublishVerdict(p) PROVE TypeOK'
  <2>1. verdict' \in Verdict
    <3> DEFINE st == IF \A i \in DOMAIN looks[p] : looks[p][i].ok THEN "pass" ELSE "drift"
    <3>1. verdict' = [status |-> st, looks |-> looks[p]]
      BY <1>14 DEF PublishVerdict, Publish
    <3>2. st \in Statuses
      BY DEF Statuses
    <3> QED
      BY <3>1, <3>2, Records
  <2> QED
    BY <1>13, <1>14, <2>1 DEF PublishVerdict, Publish, nama, sweep
<1>15. ASSUME NEW p \in Guards, CheckFails(p) PROVE TypeOK'
  <2>1. verdict' \in Verdict
    BY <1>15, Records DEF CheckFails, Publish, Statuses
  <2> QED
    BY <1>13, <1>15, <2>1 DEF CheckFails, Publish, nama, sweep
<1>16. ASSUME NEW r \in Readers, NEW asked \in {"default", "live", "sql"}, Get(r, asked)
       PROVE TypeOK'
  <2>1. verdict.status \in Statuses
    BY DEF Verdict
  <2>2. reply' \in [Readers -> Answer]
    BY <1>16, <2>1 DEF Get, Answer
  <2> QED
    BY <1>16, <2>2 DEF Get, nama, sweep, guard
<1>17. ASSUME NEW r \in Readers, SqlAnswers(r) PROVE TypeOK'
  <2>1. reply' \in [Readers -> Answer]
    BY <1>17 DEF SqlAnswers, Answer
  <2> QED
    BY <1>17, <2>1 DEF SqlAnswers, nama, sweep, guard
<1>18. CASE UNCHANGED vars
  BY <1>18 DEF vars, nama, sweep, guard
<1> QED
  BY <1>1, <1>2, <1>3, <1>4, <1>5, <1>6, <1>7, <1>9, <1>10, <1>11, <1>12, <1>14, <1>15,
     <1>16, <1>17, <1>18 DEF Next, SweepStep, CheckStep

\* EnterCheck joins the guard's queue, or stays out of it.
LEMMA EnterCheckQueue ==
  ASSUME IInv, NEW p \in Guards, pc[p] # "guard", NEW seen, EnterCheck(p, seen)
  PROVE  GuardQueue'
<1> USE DEF IInv, TypeOK, GuardQueue
<1>0. p \in Procs /\ Guards \subseteq Procs
  BY DEF Guards, Procs, Sweepers
<1>1. CASE GuardReady
  <2>1. guardQueue' = Append(guardQueue, p) /\ pc' = [pc EXCEPT ![p] = "guard"]
    BY <1>1 DEF EnterCheck
  <2>2. AtGuard' = AtGuard \cup {p}
    BY <1>0, <2>1 DEF AtGuard
  <2>3. p \notin AtGuard
    BY DEF AtGuard
  <2> QED
    BY <2>1, <2>2, <2>3, ListsAppend
<1>2. CASE ~GuardReady
  <2>1. guardQueue' = guardQueue /\ pc' = [pc EXCEPT ![p] = "idle"]
    BY <1>2 DEF EnterCheck
  <2>2. AtGuard' = AtGuard
    BY <1>0, <2>1 DEF AtGuard
  <2> QED
    BY <2>1, <2>2
<1> QED
  BY <1>1, <1>2

\* Leaving guard.check hands its lock to the next in the queue.
LEMMA LeaveCheckQueue ==
  ASSUME IInv, NEW p \in Guards, Guarding(p), LeaveCheck(p)
  PROVE  GuardQueue'
<1> USE DEF IInv, TypeOK, GuardQueue
<1>1. guardQueue # <<>> /\ p = guardQueue[1]
  BY GuardHolder
<1>2. guardQueue' = Tail(guardQueue) /\ pc' = [pc EXCEPT ![p] = "idle"]
  BY DEF LeaveCheck
<1>3. AtGuard' = AtGuard \ {guardQueue[1]}
  BY <1>1, <1>2 DEF AtGuard, Guards, Procs, Sweepers
<1> QED
  BY <1>1, <1>2, <1>3, ListsTail

\* The guard's queue holds exactly the tasks inside guard.check, each once.
LEMMA NextGuardQueue == IInv /\ [Next]_vars => GuardQueue'
<1> SUFFICES ASSUME IInv, [Next]_vars PROVE GuardQueue'
  OBVIOUS
<1> USE DEF IInv, TypeOK
<1>0. Loop \in Sweepers /\ Loop \in Guards /\ Sweepers \subseteq Procs /\ Guards \subseteq Procs
  BY DEF Sweepers, Guards, Procs
<1>same. ASSUME guardQueue' = guardQueue, AtGuard' = AtGuard PROVE GuardQueue'
  BY <1>same DEF GuardQueue
<1>1. CASE NamaChanges
  BY <1>1, <1>same DEF NamaChanges, guard, AtGuard
<1>2. CASE LinkChanges
  BY <1>2, <1>same DEF LinkChanges, guard, AtGuard
<1>3. ASSUME NEW p \in Sweepers, Acquire(p), pc[p] # "guard", UNCHANGED guardQueue
      PROVE  GuardQueue'
  <2>1. AtGuard' = AtGuard
    BY <1>0, <1>3 DEF Acquire, AtGuard
  <2> QED
    BY <1>3, <1>same, <2>1
<1>4. CASE LoopWakes
  BY <1>0, <1>3, <1>4 DEF LoopWakes, guard
<1>5. ASSUME NEW p \in Sweepers, RunTask(p) PROVE GuardQueue'
  BY <1>3, <1>5 DEF RunTask, guard
<1>6. ASSUME NEW p \in Sweepers, StartSweep(p) PROVE GuardQueue'
  BY <1>0, <1>same, <1>6 DEF StartSweep, guard, AtGuard
<1>7. ASSUME NEW p \in Sweepers, ReadCollection(p) PROVE GuardQueue'
  BY <1>same, <1>7 DEF ReadCollection, guard, AtGuard
<1>8. ASSUME NEW p \in Sweepers, PostRefresh(p) PROVE GuardQueue'
  BY <1>0, <1>same, <1>8 DEF PostRefresh, guard, AtGuard
<1>9. ASSUME NEW p \in Sweepers, NEW published, pc[p] = "sweep", LeaveSweep(p, published)
      PROVE  GuardQueue'
  <2>1. CASE p = Loop
    BY <1>0, <1>9, <2>1, EnterCheckQueue DEF LeaveSweep
  <2>2. CASE p # Loop
    <3>1. AtGuard' = AtGuard /\ guardQueue' = guardQueue
      BY <1>0, <1>9, <2>2 DEF LeaveSweep, AtGuard
    <3> QED
      BY <1>same, <3>1
  <2> QED
    BY <2>1, <2>2
<1>10. ASSUME NEW p \in Sweepers, PublishSnapshot(p) PROVE GuardQueue'
  BY <1>9, <1>10 DEF PublishSnapshot
<1>11. ASSUME NEW p \in Sweepers, SweepFails(p) PROVE GuardQueue'
  BY <1>9, <1>11 DEF SweepFails
<1>12. ASSUME NEW p \in Guards, PostGuard(p) PROVE GuardQueue'
  BY <1>12, EnterCheckQueue DEF PostGuard
<1>13. ASSUME NEW p \in Guards, CompareEntity(p) PROVE GuardQueue'
  BY <1>same, <1>13 DEF CompareEntity, AtGuard
<1>14. ASSUME NEW p \in Guards, PublishVerdict(p) PROVE GuardQueue'
  BY <1>14, LeaveCheckQueue DEF PublishVerdict
<1>15. ASSUME NEW p \in Guards, CheckFails(p) PROVE GuardQueue'
  BY <1>15, LeaveCheckQueue DEF CheckFails
<1>16. ASSUME NEW r \in Readers, NEW asked, Get(r, asked) PROVE GuardQueue'
  BY <1>same, <1>16 DEF Get, guard, AtGuard
<1>17. ASSUME NEW r \in Readers, SqlAnswers(r) PROVE GuardQueue'
  BY <1>same, <1>17 DEF SqlAnswers, guard, AtGuard
<1>18. CASE UNCHANGED vars
  BY <1>same, <1>18 DEF vars, guard, AtGuard
<1> QED
  BY <1>1, <1>2, <1>4, <1>5, <1>6, <1>7, <1>8, <1>10, <1>11, <1>12, <1>13, <1>14, <1>15,
     <1>16, <1>17, <1>18 DEF Next, SweepStep, CheckStep

\* Taking the lock: the task is the sweep at once, or waits behind it.
LEMMA AcquireQueue ==
  ASSUME IInv, NEW p \in Sweepers, pc[p] \notin {"queued", "sweep"}, Acquire(p)
  PROVE  SweepQueue'
<1> USE DEF IInv, TypeOK, SweepQueue
<1>0. p \in Procs /\ Sweepers \subseteq Procs
  BY DEF Procs
<1>1. AtSweep' = AtSweep \cup {p} /\ p \notin AtSweep
  BY <1>0 DEF Acquire, AtSweep
<1>2. Lists(liveQueue', AtSweep')
  BY <1>1, ListsAppend DEF Acquire
<1>3. /\ Len(liveQueue') = Len(liveQueue) + 1
      /\ \A i \in 1 .. Len(liveQueue) : liveQueue'[i] = liveQueue[i]
      /\ liveQueue'[Len(liveQueue) + 1] = p
      /\ Len(liveQueue) \in Nat /\ liveQueue' # <<>>
  BY AppendProperties DEF Acquire
<1>4. \A i \in 1 .. Len(liveQueue) : liveQueue[i] \in AtSweep /\ pc'[liveQueue[i]] = pc[liveQueue[i]]
  BY <1>0, <1>1 DEF Acquire, Lists, AtSweep
<1>5. CASE liveQueue = <<>>
  <2>1. pc' = [pc EXCEPT ![p] = "sweep"] /\ building' = TRUE
    BY <1>5 DEF Acquire
  <2>2. Len(liveQueue) = 0
    BY <1>5
  <2> QED
    BY <1>0, <1>2, <1>3, <2>1, <2>2
<1>6. CASE liveQueue # <<>>
  <2>1. pc' = [pc EXCEPT ![p] = "queued"] /\ building' = building
    BY <1>6 DEF Acquire
  <2>2. Len(liveQueue) >= 1
    BY <1>6, EmptySeq
  <2>3. \A i \in 2 .. Len(liveQueue') : i \in 2 .. Len(liveQueue) \/ i = Len(liveQueue) + 1
    BY <1>3
  <2>4. \A i \in 2 .. Len(liveQueue') : pc'[liveQueue'[i]] = "queued"
    <3> SUFFICES ASSUME NEW i \in 2 .. Len(liveQueue') PROVE pc'[liveQueue'[i]] = "queued"
      OBVIOUS
    <3>1. CASE i \in 2 .. Len(liveQueue)
      <4>1. i \in 1 .. Len(liveQueue)
        BY <1>3, <3>1
      <4>2. liveQueue'[i] = liveQueue[i] /\ pc'[liveQueue[i]] = pc[liveQueue[i]]
        BY <1>3, <1>4, <4>1
      <4> QED
        BY <3>1, <4>2
    <3>2. CASE i = Len(liveQueue) + 1
      BY <1>0, <1>3, <2>1, <3>2
    <3> QED
      BY <2>3, <3>1, <3>2
  <2>5. liveQueue'[1] = liveQueue[1] /\ pc'[liveQueue'[1]] = pc[liveQueue[1]]
    BY <1>3, <1>4, <2>2
  <2> QED
    BY <1>2, <1>3, <1>6, <2>1, <2>4, <2>5
<1> QED
  BY <1>5, <1>6

\* Leaving the sweep, published or failed: the next in the queue is woken, and
\* until it runs nobody is inside.
LEMMA LeaveSweepQueue ==
  ASSUME IInv, NEW p \in Sweepers, pc[p] = "sweep", NEW published, LeaveSweep(p, published)
  PROVE  SweepQueue'
<1> USE DEF IInv, TypeOK, SweepQueue
<1>0. p \in Procs /\ Sweepers \subseteq Procs
  BY DEF Procs
<1>1. liveQueue # <<>> /\ p = liveQueue[1]
  BY SweepHolder
<1>2. liveQueue' = Tail(liveQueue) /\ building' = FALSE
  BY DEF LeaveSweep
<1>3. \/ pc' = [pc EXCEPT ![p] = "idle"]
      \/ pc' = [pc EXCEPT ![p] = "guard"]
  BY DEF LeaveSweep, EnterCheck
<1>4. AtSweep' = AtSweep \ {liveQueue[1]}
  BY <1>0, <1>1, <1>3 DEF AtSweep
<1>5. Lists(liveQueue', AtSweep')
  BY <1>1, <1>2, <1>4, ListsTail
<1>6. /\ Len(liveQueue) \in Nat /\ Len(liveQueue') = Len(liveQueue) - 1
      /\ \A i \in 1 .. Len(liveQueue') : liveQueue'[i] = liveQueue[i + 1]
  BY <1>1, <1>2, HeadTailProperties
<1>7. \A i \in 1 .. Len(liveQueue') : i + 1 \in 2 .. Len(liveQueue)
  BY <1>6
<1>8. \A i \in 1 .. Len(liveQueue') : pc[liveQueue'[i]] = "queued" /\ liveQueue'[i] # p
  <2> SUFFICES ASSUME NEW i \in 1 .. Len(liveQueue')
               PROVE  pc[liveQueue'[i]] = "queued" /\ liveQueue'[i] # p
    OBVIOUS
  <2>1. liveQueue'[i] = liveQueue[i + 1] /\ i + 1 \in 2 .. Len(liveQueue)
    BY <1>6, <1>7
  <2>2. pc[liveQueue[i + 1]] = "queued"
    BY <2>1
  <2> QED
    BY <2>1, <2>2
<1>9. \A i \in 1 .. Len(liveQueue') : liveQueue'[i] \in AtSweep'
  BY <1>5 DEF Lists
<1>10. \A i \in 1 .. Len(liveQueue') : pc'[liveQueue'[i]] = "queued"
  BY <1>0, <1>3, <1>8, <1>9 DEF AtSweep
<1>11. liveQueue' # <<>> => 1 \in 1 .. Len(liveQueue')
  BY <1>2, <1>6, EmptySeq
<1>12. \A i \in 2 .. Len(liveQueue') : i \in 1 .. Len(liveQueue')
  BY <1>6
<1>13. \A i \in 2 .. Len(liveQueue') : pc'[liveQueue'[i]] = "queued"
  BY <1>10, <1>12
<1>14. liveQueue' # <<>> => pc'[liveQueue'[1]] # "sweep"
  BY <1>10, <1>11
<1> QED
  BY <1>2, <1>5, <1>13, <1>14

\* The queue of the sweep's lock holds exactly the tasks that wait or sweep, each
\* once, and _building is TRUE exactly while its head sweeps.
LEMMA NextSweepQueue == IInv /\ [Next]_vars => SweepQueue'
<1> SUFFICES ASSUME IInv, [Next]_vars PROVE SweepQueue'
  OBVIOUS
<1> USE DEF IInv, TypeOK
<1>0. Loop \in Sweepers /\ Sweepers \subseteq Procs /\ Guards \subseteq Procs
  BY DEF Sweepers, Guards, Procs
<1>same. ASSUME liveQueue' = liveQueue, building' = building,
                \A p \in Sweepers : pc'[p] = pc[p] \/ {pc[p], pc'[p]} \cap {"queued", "sweep"} = {}
         PROVE  SweepQueue'
  <2>1. AtSweep' = AtSweep
    BY <1>same DEF AtSweep
  <2>2. \A i \in 1 .. Len(liveQueue) : liveQueue[i] \in AtSweep
    BY DEF SweepQueue, Lists
  <2>3. \A i \in 1 .. Len(liveQueue) : pc'[liveQueue[i]] = pc[liveQueue[i]]
    BY <1>same, <2>2 DEF AtSweep
  <2>4. liveQueue # <<>> => 1 \in 1 .. Len(liveQueue)
    BY EmptySeq
  <2>5. \A i \in 2 .. Len(liveQueue) : pc'[liveQueue[i]] = "queued"
    <3> SUFFICES ASSUME NEW i \in 2 .. Len(liveQueue) PROVE pc'[liveQueue[i]] = "queued"
      OBVIOUS
    <3>1. i \in 1 .. Len(liveQueue)
      OBVIOUS
    <3> QED
      BY <2>3, <3>1 DEF SweepQueue
  <2>6. building <=> liveQueue # <<>> /\ pc'[liveQueue[1]] = "sweep"
    BY <2>3, <2>4 DEF SweepQueue
  <2> QED
    BY <1>same, <2>1, <2>5, <2>6 DEF SweepQueue
<1>1. CASE NamaChanges
  BY <1>1, <1>same DEF NamaChanges, sweep
<1>2. CASE LinkChanges
  BY <1>2, <1>same DEF LinkChanges, sweep
<1>3. CASE LoopWakes
  BY <1>0, <1>3, AcquireQueue DEF LoopWakes
<1>4. ASSUME NEW p \in Sweepers, RunTask(p) PROVE SweepQueue'
  BY <1>4, AcquireQueue DEF RunTask
<1>5. ASSUME NEW p \in Sweepers, StartSweep(p) PROVE SweepQueue'
  <2> USE DEF SweepQueue
  <2>1. PICK k \in 1 .. Len(liveQueue) : liveQueue[k] = p
    BY <1>5 DEF StartSweep, Lists, AtSweep
  <2>2. liveQueue # <<>> /\ p = liveQueue[1] /\ 1 \in 1 .. Len(liveQueue)
    BY <1>5, <2>1 DEF StartSweep
  <2>3. AtSweep' = AtSweep
    BY <1>0, <1>5 DEF StartSweep, AtSweep
  <2>4. \A i \in 2 .. Len(liveQueue) : liveQueue[i] # p
    BY <2>2 DEF Lists
  <2> QED
    BY <1>0, <1>5, <2>2, <2>3, <2>4 DEF StartSweep
<1>6. ASSUME NEW p \in Sweepers, ReadCollection(p) PROVE SweepQueue'
  BY <1>same, <1>6 DEF ReadCollection
<1>7. ASSUME NEW p \in Sweepers, PostRefresh(p) PROVE SweepQueue'
  BY <1>0, <1>same, <1>7 DEF PostRefresh, sweep
<1>8. ASSUME NEW p \in Sweepers, PublishSnapshot(p) PROVE SweepQueue'
  BY <1>8, LeaveSweepQueue DEF PublishSnapshot
<1>9. ASSUME NEW p \in Sweepers, SweepFails(p) PROVE SweepQueue'
  BY <1>9, LeaveSweepQueue DEF SweepFails
<1>10. ASSUME NEW p \in Guards, PostGuard(p) PROVE SweepQueue'
  BY <1>0, <1>same, <1>10 DEF PostGuard, EnterCheck, sweep
<1>11. ASSUME NEW p \in Guards, CompareEntity(p) PROVE SweepQueue'
  BY <1>same, <1>11 DEF CompareEntity, sweep
<1>12. ASSUME NEW p \in Guards, PublishVerdict(p) PROVE SweepQueue'
  BY <1>0, <1>same, <1>12 DEF PublishVerdict, LeaveCheck, Guarding, sweep
<1>13. ASSUME NEW p \in Guards, CheckFails(p) PROVE SweepQueue'
  BY <1>0, <1>same, <1>13 DEF CheckFails, LeaveCheck, Guarding, sweep
<1>14. ASSUME NEW r \in Readers, NEW asked, Get(r, asked) PROVE SweepQueue'
  BY <1>same, <1>14 DEF Get, sweep
<1>15. ASSUME NEW r \in Readers, SqlAnswers(r) PROVE SweepQueue'
  BY <1>same, <1>15 DEF SqlAnswers, sweep
<1>16. CASE UNCHANGED vars
  BY <1>same, <1>16 DEF vars, sweep
<1> QED
  BY <1>1, <1>2, <1>3, <1>4, <1>5, <1>6, <1>7, <1>8, <1>9, <1>10, <1>11, <1>12, <1>13,
     <1>14, <1>15, <1>16 DEF Next, SweepStep, CheckStep

\* Both queues are empty when the process starts.
LEMMA InitQueues == Init => SweepQueue /\ GuardQueue
  BY EmptySeq DEF Init, SweepQueue, GuardQueue, Lists, AtSweep, AtGuard, Sweepers, Guards, Procs

\* Types hold in every reachable state.
THEOREM Inductive == Spec => []IInv
<1>1. Init => IInv
  BY InitTypeOK, InitQueues DEF IInv
<1>2. IInv /\ [Next]_vars => IInv'
  BY NextTypeOK, NextSweepQueue, NextGuardQueue DEF IInv
<1> QED
  BY <1>1, <1>2, PTL DEF Spec

THEOREM TypeCorrect == Spec => []TypeOK
  BY Inductive, PTL DEF IInv

\* _building is TRUE exactly while the head of the lock's queue sweeps.
THEOREM OneSweeper == Spec => []BuildingIsTheSweep
<1>1. IInv => BuildingIsTheSweep
  <2> SUFFICES ASSUME IInv, NEW p \in Sweepers
               PROVE pc[p] = "sweep" <=> (building /\ liveQueue # <<>> /\ Head(liveQueue) = p)
    BY DEF BuildingIsTheSweep
  <2>1. pc[p] = "sweep" => building /\ liveQueue # <<>> /\ liveQueue[1] = p
    BY SweepHolder
  <2>2. building /\ liveQueue[1] = p => pc[p] = "sweep"
    BY DEF IInv, SweepQueue
  <2>3. Head(liveQueue) = liveQueue[1]
    BY DEF IInv, TypeOK
  <2> QED
    BY <2>1, <2>2, <2>3
<1> QED
  BY <1>1, Inductive, PTL

-----------------------------------------------------------------------------
(* Snapshots and verdicts follow each other in time.                       *)

\* Only the task inside the sweep holds readings, all of them at least as late as
\* the last reading of the snapshot being served.
ReadingsInOrder ==
    /\ snapshot # <<>> => snapshot[Len(snapshot)].rev <= rev
    /\ \A p \in Sweepers : read[p] # <<>> => pc[p] = "sweep"
    /\ \A p \in Sweepers : \A i \in 1 .. Len(read[p]) :
          /\ read[p][i].rev <= rev
          /\ snapshot # <<>> => snapshot[Len(snapshot)].rev <= read[p][i].rev

\* A sweep reads four collections, a check compares two of them.
LEMMA CollectionsLen == Len(Collections) = 4 /\ Len(Entities) = 2
<1> DEFINE Names == {"SalesInvoice", "PurchaseInvoice", "Customer", "Supplier"}
<1>1. Entities \in Seq(Names) /\ <<"Customer", "Supplier">> \in Seq(Names)
  BY DEF Entities
<1>2. Len(Entities) = 2 /\ Len(<<"Customer", "Supplier">>) = 2
  BY DEF Entities
<1> HIDE DEF Names
<1>3. Len(Entities \o <<"Customer", "Supplier">>) = Len(Entities) + Len(<<"Customer", "Supplier">>)
  BY <1>1, ConcatProperties
<1> QED
  BY <1>2, <1>3 DEF Collections

\* When a sweep is left nobody has read anything: the only reader was the one leaving.
LEMMA LeaveSweepReads ==
  ASSUME IInv, ReadingsInOrder, NEW p \in Sweepers, pc[p] = "sweep", NEW published,
         LeaveSweep(p, published)
  PROVE  \A q \in Sweepers : read'[q] = <<>>
<1> SUFFICES ASSUME NEW q \in Sweepers PROVE read'[q] = <<>>
  OBVIOUS
<1> USE DEF IInv, TypeOK
<1>1. read' = [read EXCEPT ![p] = <<>>]
  BY DEF LeaveSweep
<1>2. CASE q = p
  BY <1>1, <1>2
<1>3. CASE q # p
  BY <1>1, <1>3, SweepHolder DEF ReadingsInOrder
<1> QED
  BY <1>2, <1>3

\* What a sweep has read is in the order it was read, and none of it is older than
\* the last reading of the snapshot being served.
LEMMA NextReadings == IInv /\ ReadingsInOrder /\ [Next]_vars => ReadingsInOrder'
<1> SUFFICES ASSUME IInv, ReadingsInOrder, [Next]_vars PROVE ReadingsInOrder'
  OBVIOUS
<1> USE DEF IInv, TypeOK
<1>0. /\ Loop \in Sweepers /\ Sweepers \subseteq Procs /\ Guards \subseteq Procs
      /\ \A r \in Revs : r \in Int
      /\ \A x \in Reading : x.rev \in Int
  BY SettingsAssumption DEF Sweepers, Guards, Procs, Revs, Reading
<1>r. /\ \A p \in Sweepers : \A i \in 1 .. Len(read[p]) : read[p][i].rev \in Int
      /\ snapshot # <<>> => snapshot[Len(snapshot)].rev \in Int
  BY <1>0, ElementOfSeq, LenProperties, EmptySeq
<1>same. ASSUME UNCHANGED <<snapshot, read>>, rev' \in Int, rev <= rev',
                \A p \in Sweepers : pc[p] = "sweep" => pc'[p] = "sweep"
         PROVE  ReadingsInOrder'
  BY <1>0, <1>r, <1>same DEF ReadingsInOrder
<1>1. CASE NamaChanges
  BY <1>0, <1>1, <1>same DEF NamaChanges, sweep
<1>2. CASE LinkChanges
  BY <1>0, <1>2, <1>same DEF LinkChanges, sweep
<1>3. CASE LoopWakes
  BY <1>0, <1>3, <1>same DEF LoopWakes, Acquire, nama
<1>4. ASSUME NEW p \in Sweepers, RunTask(p) PROVE ReadingsInOrder'
  BY <1>0, <1>4, <1>same DEF RunTask, Acquire, nama
<1>5. ASSUME NEW p \in Sweepers, StartSweep(p) PROVE ReadingsInOrder'
  BY <1>0, <1>5, <1>same DEF StartSweep, nama
<1>6. ASSUME NEW p \in Sweepers, ReadCollection(p) PROVE ReadingsInOrder'
  <2> DEFINE r == [rev |-> rev, whole |-> Collections[Len(read[p]) + 1] \notin refused]
  <2>1. read' = [read EXCEPT ![p] = Append(@, r)] /\ UNCHANGED <<snapshot, pc, rev>>
    BY <1>6 DEF ReadCollection, nama
  <2>2. r \in Reading /\ r.rev = rev
    BY Records
  <2> HIDE DEF r
  <2>3. \A q \in Sweepers : q # p => read'[q] = read[q]
    BY <2>1
  <2>4. /\ Len(read'[p]) = Len(read[p]) + 1 /\ Len(read[p]) \in Nat
        /\ \A i \in 1 .. Len(read[p]) : read'[p][i] = read[p][i]
        /\ read'[p][Len(read[p]) + 1] = r
    BY <2>1, <2>2, AppendProperties
  <2>5. \A i \in 1 .. Len(read'[p]) : i \in 1 .. Len(read[p]) \/ i = Len(read[p]) + 1
    BY <2>4
  <2>6. \A i \in 1 .. Len(read'[p]) :
          /\ read'[p][i].rev <= rev
          /\ snapshot # <<>> => snapshot[Len(snapshot)].rev <= read'[p][i].rev
    <3> SUFFICES ASSUME NEW i \in 1 .. Len(read'[p])
                 PROVE  /\ read'[p][i].rev <= rev
                        /\ snapshot # <<>> => snapshot[Len(snapshot)].rev <= read'[p][i].rev
      OBVIOUS
    <3>1. CASE i \in 1 .. Len(read[p])
      BY <2>4, <3>1 DEF ReadingsInOrder
    <3>2. CASE i = Len(read[p]) + 1
      BY <1>0, <2>2, <2>4, <3>2 DEF ReadingsInOrder
    <3> QED
      BY <2>5, <3>1, <3>2
  <2>7. \A q \in Sweepers : read'[q] # <<>> => pc[q] = "sweep"
    BY <1>6, <2>3 DEF ReadingsInOrder, ReadCollection
  <2>8. \A q \in Sweepers : \A i \in 1 .. Len(read'[q]) :
          /\ read'[q][i].rev <= rev
          /\ snapshot # <<>> => snapshot[Len(snapshot)].rev <= read'[q][i].rev
    BY <2>3, <2>6 DEF ReadingsInOrder
  <2> QED
    BY <2>1, <2>7, <2>8 DEF ReadingsInOrder
<1>7. ASSUME NEW p \in Sweepers, PostRefresh(p) PROVE ReadingsInOrder'
  BY <1>0, <1>7, <1>same DEF PostRefresh, nama, sweep
<1>8. ASSUME NEW p \in Sweepers, PublishSnapshot(p) PROVE ReadingsInOrder'
  <2>1. \A q \in Sweepers : read'[q] = <<>>
    BY <1>8, LeaveSweepReads DEF PublishSnapshot
  <2>2. snapshot' = read[p] /\ rev' = rev
    BY <1>8 DEF PublishSnapshot, nama
  <2>3. snapshot' # <<>> => Len(read[p]) \in 1 .. Len(read[p])
    BY <2>2, EmptySeq, LenProperties
  <2>4. snapshot' # <<>> => snapshot'[Len(snapshot')].rev <= rev'
    BY <2>2, <2>3 DEF ReadingsInOrder
  <2> QED
    BY <2>1, <2>4 DEF ReadingsInOrder
<1>9. ASSUME NEW p \in Sweepers, SweepFails(p) PROVE ReadingsInOrder'
  <2>1. \A q \in Sweepers : read'[q] = <<>>
    BY <1>9, LeaveSweepReads DEF SweepFails
  <2> QED
    BY <1>9, <2>1 DEF SweepFails, ReadingsInOrder, nama
<1>10. ASSUME NEW p \in Guards, PostGuard(p) PROVE ReadingsInOrder'
  BY <1>0, <1>10, <1>same DEF PostGuard, EnterCheck, nama, sweep
<1>11. ASSUME NEW p \in Guards, CompareEntity(p) PROVE ReadingsInOrder'
  BY <1>0, <1>11, <1>same DEF CompareEntity, nama, sweep
<1>12. ASSUME NEW p \in Guards, PublishVerdict(p) PROVE ReadingsInOrder'
  BY <1>0, <1>12, <1>same DEF PublishVerdict, LeaveCheck, Guarding, nama, sweep
<1>13. ASSUME NEW p \in Guards, CheckFails(p) PROVE ReadingsInOrder'
  BY <1>0, <1>13, <1>same DEF CheckFails, LeaveCheck, Guarding, nama, sweep
<1>14. ASSUME NEW r \in Readers, NEW asked, Get(r, asked) PROVE ReadingsInOrder'
  BY <1>0, <1>14, <1>same DEF Get, nama, sweep
<1>15. ASSUME NEW r \in Readers, SqlAnswers(r) PROVE ReadingsInOrder'
  BY <1>0, <1>15, <1>same DEF SqlAnswers, nama, sweep
<1>16. CASE UNCHANGED vars
  BY <1>0, <1>16, <1>same DEF vars, nama, sweep
<1> QED
  BY <1>1, <1>2, <1>3, <1>4, <1>5, <1>6, <1>7, <1>8, <1>9, <1>10, <1>11, <1>12, <1>13,
     <1>14, <1>15, <1>16 DEF Next, SweepStep, CheckStep

\* A snapshot that replaces another was read entirely after it.
THEOREM SnapshotsAdvance == Spec => SnapshotNeverRegresses
<1>1. Init => ReadingsInOrder
  BY DEF Init, ReadingsInOrder
<1>2. IInv /\ ReadingsInOrder /\ [Next]_vars
        => [snapshot # <<>> => snapshot[Len(snapshot)].rev <= snapshot'[1].rev]_snapshot
  <2> SUFFICES ASSUME IInv, ReadingsInOrder, [Next]_vars, snapshot' # snapshot, snapshot # <<>>
               PROVE  snapshot[Len(snapshot)].rev <= snapshot'[1].rev
    OBVIOUS
  <2>1. PICK p \in Sweepers : PublishSnapshot(p)
    BY DEF Next, SweepStep, CheckStep, NamaChanges, LinkChanges, LoopWakes, RunTask, StartSweep,
       ReadCollection, SweepFails, PostRefresh, PostGuard, CompareEntity, PublishVerdict, CheckFails,
       Get, SqlAnswers, vars, sweep
  <2>2. snapshot' = read[p] /\ Len(read[p]) = 4
    BY <2>1, CollectionsLen DEF PublishSnapshot
  <2>3. 1 \in 1 .. Len(read[p])
    BY <2>2
  <2> QED
    BY <2>2, <2>3 DEF ReadingsInOrder
<1> QED
  BY <1>1, <1>2, Inductive, NextReadings, PTL DEF Spec, SnapshotNeverRegresses

\* The same for the guard: only the holder of its lock holds looks, none of them
\* earlier than the last look of the verdict being served.
LooksInOrder ==
    /\ verdict.looks # <<>> => /\ Len(verdict.looks) = Len(Entities)
                               /\ verdict.looks[Len(Entities)].rev <= rev
    /\ \A p \in Guards : looks[p] # <<>> => Guarding(p)
    /\ \A p \in Guards : \A i \in 1 .. Len(looks[p]) :
          /\ looks[p][i].rev <= rev
          /\ verdict.looks # <<>> => verdict.looks[Len(Entities)].rev <= looks[p][i].rev

\* Leaving guard.check forgets what this task had compared, and only this task's.
LEMMA LeaveCheckLooks ==
  ASSUME IInv, LooksInOrder, NEW p \in Guards, Guarding(p), LeaveCheck(p)
  PROVE  \A q \in Guards : looks'[q] = <<>>
<1> SUFFICES ASSUME NEW q \in Guards PROVE looks'[q] = <<>>
  OBVIOUS
<1> USE DEF IInv, TypeOK
<1>1. looks' = [looks EXCEPT ![p] = <<>>]
  BY DEF LeaveCheck
<1>2. CASE q = p
  BY <1>1, <1>2
<1>3. CASE q # p
  BY <1>1, <1>3 DEF LooksInOrder, Guarding
<1> QED
  BY <1>2, <1>3

\* Joining the back of the queue leaves the head what it was.
LEMMA EnterCheckHolder ==
  ASSUME IInv, NEW p \in Guards, pc[p] # "guard", NEW seen, EnterCheck(p, seen),
         NEW q \in Guards, Guarding(q)
  PROVE  Guarding(q)'
<1> USE DEF IInv, TypeOK
<1>1. guardQueue # <<>> /\ q = guardQueue[1] /\ q # p
  BY GuardHolder DEF Guarding
<1>2. pc'[q] = pc[q]
  <2>1. p \in Procs /\ q \in Procs
    BY DEF Guards, Procs, Sweepers
  <2>2. pc' = [pc EXCEPT ![p] = "guard"] \/ pc' = [pc EXCEPT ![p] = "idle"]
    BY DEF EnterCheck
  <2> QED
    BY <1>1, <2>1, <2>2
<1>3. guardQueue' # <<>> /\ guardQueue'[1] = guardQueue[1] /\ guardQueue' \in Seq(Guards)
  <2>1. CASE guardQueue' = guardQueue
    BY <1>1, <2>1
  <2>2. CASE guardQueue' = Append(guardQueue, p)
    <3>1. 1 \in 1 .. Len(guardQueue)
      BY <1>1, EmptySeq
    <3>2. /\ Append(guardQueue, p) \in Seq(Guards) /\ Append(guardQueue, p) # <<>>
          /\ \A i \in 1 .. Len(guardQueue) : Append(guardQueue, p)[i] = guardQueue[i]
      BY AppendProperties
    <3> QED
      BY <2>2, <3>1, <3>2
  <2> QED
    BY <2>1, <2>2 DEF EnterCheck
<1> QED
  BY <1>1, <1>2, <1>3 DEF Guarding

\* What a check has compared is in the order it was looked at, and none of it is
\* older than the last look of the verdict being served.
LEMMA NextLooks == IInv /\ LooksInOrder /\ [Next]_vars => LooksInOrder'
<1> SUFFICES ASSUME IInv, LooksInOrder, [Next]_vars PROVE LooksInOrder'
  OBVIOUS
<1> USE DEF IInv, TypeOK
<1>0. /\ Loop \in Sweepers /\ Loop \in Guards /\ Sweepers \subseteq Procs /\ Guards \subseteq Procs
      /\ \A r \in Revs : r \in Int
      /\ \A x \in Look : x.rev \in Int
      /\ Len(Entities) = 2
  BY SettingsAssumption, CollectionsLen DEF Sweepers, Guards, Procs, Revs, Look
<1>r. /\ \A p \in Guards : \A i \in 1 .. Len(looks[p]) : looks[p][i].rev \in Int
      /\ verdict.looks # <<>> => verdict.looks[Len(Entities)].rev \in Int
  <2>1. \A p \in Guards : \A i \in 1 .. Len(looks[p]) : looks[p][i] \in Look
    BY ElementOfSeq
  <2>2. verdict.looks # <<>> => verdict.looks[Len(Entities)] \in Look
    <3>1. verdict.looks \in Seq(Look)
      BY DEF Verdict
    <3> QED
      BY <1>0, <3>1 DEF LooksInOrder
  <2> QED
    BY <1>0, <2>1, <2>2
<1>same. ASSUME looks' = looks, rev' \in Int, rev <= rev', \A q \in Guards : Guarding(q) => Guarding(q)',
                verdict' = verdict \/ verdict'.looks = <<>>
         PROVE  LooksInOrder'
  <2>1. \A p \in Guards : looks'[p] # <<>> => Guarding(p)'
    BY <1>same DEF LooksInOrder
  <2>2. \A p \in Guards : \A i \in 1 .. Len(looks'[p]) : looks'[p][i].rev <= rev'
    BY <1>0, <1>r, <1>same DEF LooksInOrder
  <2> QED
    BY <1>0, <1>r, <1>same, <2>1, <2>2 DEF LooksInOrder
<1>1. CASE NamaChanges
  BY <1>0, <1>1, <1>same DEF NamaChanges, guard, Guarding
<1>2. CASE LinkChanges
  BY <1>0, <1>2, <1>same DEF LinkChanges, guard, Guarding
<1>3. CASE LoopWakes
  BY <1>0, <1>3, <1>same DEF LoopWakes, Acquire, nama, guard, Guarding
<1>4. ASSUME NEW p \in Sweepers, RunTask(p) PROVE LooksInOrder'
  BY <1>0, <1>4, <1>same DEF RunTask, Acquire, nama, guard, Guarding
<1>5. ASSUME NEW p \in Sweepers, StartSweep(p) PROVE LooksInOrder'
  BY <1>0, <1>5, <1>same DEF StartSweep, nama, guard, Guarding
<1>6. ASSUME NEW p \in Sweepers, ReadCollection(p) PROVE LooksInOrder'
  BY <1>0, <1>6, <1>same DEF ReadCollection, nama, guard, Guarding
<1>7. ASSUME NEW p \in Sweepers, PostRefresh(p) PROVE LooksInOrder'
  BY <1>0, <1>7, <1>same DEF PostRefresh, nama, guard, Guarding
<1>enter. ASSUME NEW p \in Guards, pc[p] # "guard", NEW seen, EnterCheck(p, seen), rev' = rev, looks' = looks
          PROVE  LooksInOrder'
  <2>1. \A q \in Guards : Guarding(q) => Guarding(q)'
    BY <1>enter, EnterCheckHolder
  <2>2. verdict' = verdict \/ verdict'.looks = <<>>
    BY <1>enter DEF EnterCheck, Publish
  <2> QED
    BY <1>0, <1>enter, <1>same, <2>1, <2>2
<1>8. ASSUME NEW p \in Sweepers, pc[p] = "sweep", NEW published, LeaveSweep(p, published), rev' = rev,
             looks' = looks
      PROVE  LooksInOrder'
  <2>1. CASE p = Loop
    BY <1>0, <1>8, <1>enter, <2>1 DEF LeaveSweep
  <2>2. CASE p # Loop
    BY <1>0, <1>8, <1>same, <2>2 DEF LeaveSweep, Guarding
  <2> QED
    BY <2>1, <2>2
<1>9. ASSUME NEW p \in Sweepers, PublishSnapshot(p) PROVE LooksInOrder'
  BY <1>8, <1>9 DEF PublishSnapshot, nama
<1>10. ASSUME NEW p \in Sweepers, SweepFails(p) PROVE LooksInOrder'
  BY <1>8, <1>10 DEF SweepFails, nama
<1>11. ASSUME NEW p \in Guards, PostGuard(p) PROVE LooksInOrder'
  BY <1>11, <1>enter DEF PostGuard, nama
<1>12. ASSUME NEW p \in Guards, CompareEntity(p) PROVE LooksInOrder'
  <2> DEFINE l == [rev |-> rev, ok |-> Agrees(Entities[Len(looks[p]) + 1])]
  <2>1. looks' = [looks EXCEPT ![p] = Append(@, l)] /\ UNCHANGED <<verdict, pc, guardQueue, rev>>
    BY <1>12 DEF CompareEntity, nama
  <2>2. l \in Look /\ l.rev = rev
    BY Records DEF Agrees
  <2> HIDE DEF l
  <2>3. \A q \in Guards : q # p => looks'[q] = looks[q]
    BY <2>1
  <2>4. /\ Len(looks'[p]) = Len(looks[p]) + 1 /\ Len(looks[p]) \in Nat
        /\ \A i \in 1 .. Len(looks[p]) : looks'[p][i] = looks[p][i]
        /\ looks'[p][Len(looks[p]) + 1] = l
    BY <2>1, <2>2, AppendProperties
  <2>5. \A i \in 1 .. Len(looks'[p]) : i \in 1 .. Len(looks[p]) \/ i = Len(looks[p]) + 1
    BY <2>4
  <2>6. ASSUME NEW i \in 1 .. Len(looks'[p])
        PROVE  /\ looks'[p][i].rev <= rev
               /\ verdict.looks # <<>> => verdict.looks[Len(Entities)].rev <= looks'[p][i].rev
    <3>1. CASE i \in 1 .. Len(looks[p])
      BY <2>4, <3>1 DEF LooksInOrder
    <3>2. CASE i = Len(looks[p]) + 1
      BY <1>0, <2>2, <2>4, <3>2 DEF LooksInOrder
    <3> QED
      BY <2>5, <3>1, <3>2
  <2>7. \A q \in Guards : looks'[q] # <<>> => Guarding(q)'
    BY <1>12, <2>1, <2>3 DEF LooksInOrder, CompareEntity, Guarding
  <2>8. \A q \in Guards : \A i \in 1 .. Len(looks'[q]) :
          /\ looks'[q][i].rev <= rev
          /\ verdict.looks # <<>> => verdict.looks[Len(Entities)].rev <= looks'[q][i].rev
    BY <2>3, <2>6 DEF LooksInOrder
  <2> QED
    BY <2>1, <2>7, <2>8 DEF LooksInOrder
<1>13. ASSUME NEW p \in Guards, PublishVerdict(p) PROVE LooksInOrder'
  <2>1. \A q \in Guards : looks'[q] = <<>>
    BY <1>13, LeaveCheckLooks DEF PublishVerdict
  <2>2. verdict'.looks = looks[p] /\ rev' = rev /\ Len(looks[p]) = Len(Entities)
    BY <1>13 DEF PublishVerdict, Publish, nama
  <2>3. verdict'.looks[Len(Entities)].rev <= rev'
    BY <1>0, <2>2 DEF LooksInOrder
  <2> QED
    BY <2>1, <2>2, <2>3 DEF LooksInOrder
<1>14. ASSUME NEW p \in Guards, CheckFails(p) PROVE LooksInOrder'
  <2>1. \A q \in Guards : looks'[q] = <<>>
    BY <1>14, LeaveCheckLooks DEF CheckFails
  <2>2. verdict'.looks = <<>>
    BY <1>14 DEF CheckFails, Publish
  <2> QED
    BY <2>1, <2>2 DEF LooksInOrder
<1>15. ASSUME NEW r \in Readers, NEW asked, Get(r, asked) PROVE LooksInOrder'
  BY <1>0, <1>15, <1>same DEF Get, nama, guard, Guarding
<1>16. ASSUME NEW r \in Readers, SqlAnswers(r) PROVE LooksInOrder'
  BY <1>0, <1>16, <1>same DEF SqlAnswers, nama, guard, Guarding
<1>17. CASE UNCHANGED vars
  BY <1>0, <1>17, <1>same DEF vars, nama, guard, Guarding
<1> QED
  BY <1>1, <1>2, <1>3, <1>4, <1>5, <1>6, <1>7, <1>9, <1>10, <1>11, <1>12, <1>13,
     <1>14, <1>15, <1>16, <1>17 DEF Next, SweepStep, CheckStep

\* Of two verdicts in a row that rest on evidence, the later looked later.
THEOREM VerdictsAdvance == Spec => VerdictNeverRegresses
<1>1. Init => LooksInOrder
  BY DEF Init, LooksInOrder, Unknown
<1>2. IInv /\ LooksInOrder /\ [Next]_vars
        => [verdict.looks # <<>> /\ verdict'.looks # <<>>
              => verdict.looks[Len(Entities)].rev <= verdict'.looks[1].rev]_verdict
  <2> SUFFICES ASSUME IInv, LooksInOrder, [Next]_vars, verdict' # verdict,
                      verdict.looks # <<>>, verdict'.looks # <<>>
               PROVE  verdict.looks[Len(Entities)].rev <= verdict'.looks[1].rev
    OBVIOUS
  <2>1. PICK p \in Guards : PublishVerdict(p)
    <3>1. \A p \in Procs : \A seen : EnterCheck(p, seen) => verdict' = verdict \/ verdict'.looks = <<>>
      BY DEF EnterCheck, Publish
    <3>2. \A p \in Guards : CheckFails(p) => verdict'.looks = <<>>
      BY DEF CheckFails, Publish
    <3>3. \A p \in Sweepers : \A b : LeaveSweep(p, b) => verdict' = verdict \/ verdict'.looks = <<>>
      BY <3>1 DEF LeaveSweep, Procs
    <3>4. Guards \subseteq Procs
      BY DEF Guards, Procs, Sweepers
    <3> QED
      BY <3>1, <3>2, <3>3, <3>4 DEF Next, SweepStep, CheckStep, NamaChanges, LinkChanges, LoopWakes,
         RunTask, StartSweep, ReadCollection, PublishSnapshot, SweepFails, PostRefresh, PostGuard,
         CompareEntity, Get, SqlAnswers, vars, guard
  <2>2. verdict'.looks = looks[p] /\ Len(looks[p]) = 2
    BY <2>1, CollectionsLen DEF PublishVerdict, Publish
  <2>3. 1 \in 1 .. Len(looks[p])
    BY <2>2
  <2> QED
    BY <2>2, <2>3 DEF LooksInOrder
<1> QED
  BY <1>1, <1>2, Inductive, NextLooks, PTL DEF Spec, VerdictNeverRegresses

\* `pass` and `drift` rest on every entity compared; `pass` on every one clean.
THEOREM EvidenceBacked == Spec => []VerdictIsEvidence
<1>1. Init => VerdictIsEvidence
  BY DEF Init, VerdictIsEvidence, Unknown
<1>2. VerdictIsEvidence /\ [Next]_vars => VerdictIsEvidence'
  <2> SUFFICES ASSUME VerdictIsEvidence, [Next]_vars PROVE VerdictIsEvidence'
    OBVIOUS
  <2>same. ASSUME verdict' = verdict PROVE VerdictIsEvidence'
    BY <2>same DEF VerdictIsEvidence
  <2>unknown. ASSUME verdict' = Unknown PROVE VerdictIsEvidence'
    BY <2>unknown DEF VerdictIsEvidence, Unknown
  <2>1. ASSUME NEW p, NEW seen, EnterCheck(p, seen) PROVE VerdictIsEvidence'
    BY <2>1, <2>same, <2>unknown DEF EnterCheck, Publish, Unknown
  <2>2. ASSUME NEW p, NEW b, LeaveSweep(p, b) PROVE VerdictIsEvidence'
    BY <2>1, <2>2, <2>same DEF LeaveSweep
  <2>3. ASSUME NEW p, CheckFails(p) PROVE VerdictIsEvidence'
    BY <2>3, <2>unknown DEF CheckFails, Publish, Unknown
  <2>4. ASSUME NEW p, PublishVerdict(p) PROVE VerdictIsEvidence'
    <3> DEFINE clean == \A i \in DOMAIN looks[p] : looks[p][i].ok
    <3>1. verdict' = [status |-> IF clean THEN "pass" ELSE "drift", looks |-> looks[p]]
      BY <2>4 DEF PublishVerdict, Publish
    <3>2. Len(looks[p]) = 2 /\ Len(Entities) = 2
      BY <2>4, CollectionsLen DEF PublishVerdict
    <3>3. looks[p] # <<>>
      BY <3>2
    <3> QED
      BY <3>1, <3>2, <3>3 DEF VerdictIsEvidence
  <2> QED
    BY <2>same, <2>1, <2>2, <2>3, <2>4 DEF Next, SweepStep, CheckStep, NamaChanges, LinkChanges,
       LoopWakes, RunTask, StartSweep, ReadCollection, PublishSnapshot, SweepFails, PostRefresh,
       PostGuard, CompareEntity, Get, SqlAnswers, vars, guard
<1> QED
  BY <1>1, <1>2, PTL DEF Spec

-----------------------------------------------------------------------------
(* The readers.                                                            *)

\* A step leaves the replies alone, answers a new request or finishes one in SQL.
LEMMA ReplyStep ==
  ASSUME [Next]_vars, reply' # reply
  PROVE  \E r \in Readers : \/ \E asked \in {"default", "live", "sql"} : Get(r, asked)
                            \/ SqlAnswers(r)
  BY DEF Next, SweepStep, CheckStep, NamaChanges, LinkChanges, LoopWakes, RunTask, StartSweep,
     ReadCollection, PublishSnapshot, SweepFails, PostRefresh, PostGuard, CompareEntity,
     PublishVerdict, CheckFails, vars

\* The answer a request gets at once.
LEMMA GetReply ==
  ASSUME TypeOK, NEW r \in Readers, NEW asked \in {"default", "live", "sql"}, Get(r, asked)
  PROVE  /\ \A q \in Readers \ {r} : reply'[q] = reply[q]
         /\ reply'[r] = IF Source(asked) = "live"
                        THEN [source |-> "live", asked |-> asked, status |-> verdict.status]
                        ELSE [source |-> "running", asked |-> asked, status |-> "absent"]
         /\ verdict' = verdict
  BY DEF TypeOK, Get, guard

LEMMA SqlReply ==
  ASSUME TypeOK, NEW r \in Readers, SqlAnswers(r)
  PROVE  /\ \A q \in Readers \ {r} : reply'[q] = reply[q]
         /\ reply[r].source = "running" /\ reply'[r].source \in {"sql", "error"}
         /\ reply'[r].asked = reply[r].asked
<1> DEFINE how == IF sqlUp THEN "sql" ELSE "error"
<1>1. reply' = [reply EXCEPT ![r] = [reply[r] EXCEPT !.source = how]] /\ reply[r].source = "running"
  BY DEF SqlAnswers
<1>2. reply[r] \in Answer /\ reply \in [Readers -> Answer]
  BY DEF TypeOK
<1>3. how \in {"sql", "error"}
  OBVIOUS
<1> HIDE DEF how
<1>4. [reply[r] EXCEPT !.source = how].source = how /\ [reply[r] EXCEPT !.source = how].asked = reply[r].asked
  BY <1>2 DEF Answer
<1> QED
  BY <1>1, <1>2, <1>3, <1>4

\* Nobody who left the source open holds a live figure labelled drift: _source answers from
\* SQL while the gate has failed, and the label is read in the same step as the figure.
THEOREM NoDriftByDefault == Spec => []DefaultLiveNeverDrift
<1>1. Init => DefaultLiveNeverDrift
  BY DEF Init, NoReply, DefaultLiveNeverDrift
<1>2. IInv /\ DefaultLiveNeverDrift /\ [Next]_vars => DefaultLiveNeverDrift'
  <2> SUFFICES ASSUME TypeOK, DefaultLiveNeverDrift, [Next]_vars PROVE DefaultLiveNeverDrift'
    BY DEF IInv
  <2>1. CASE reply' = reply
    BY <2>1 DEF DefaultLiveNeverDrift
  <2>2. ASSUME NEW r \in Readers, NEW asked \in {"default", "live", "sql"}, Get(r, asked)
        PROVE  DefaultLiveNeverDrift'
    <3>1. Source("default") = "live" => verdict.status # "drift"
      BY DEF Source
    <3>2. reply'[r].source = "live" /\ reply'[r].asked = "default" => reply'[r].status # "drift"
      BY <2>2, <3>1, GetReply
    <3> QED
      BY <2>2, <3>2, GetReply DEF DefaultLiveNeverDrift
  <2>3. ASSUME NEW r \in Readers, SqlAnswers(r) PROVE DefaultLiveNeverDrift'
    BY <2>3, SqlReply DEF DefaultLiveNeverDrift
  <2> QED
    BY <2>1, <2>2, <2>3, ReplyStep
<1> QED
  BY <1>1, <1>2, Inductive, PTL DEF Spec

\* A reader is diverted (_source answers "sql" though live is the default) only by a
\* comparison that covered every invoice type and was not clean.
THEOREM DivertedOnEvidence == Spec => DivertRestsOnEvidence
<1>1. IInv /\ VerdictIsEvidence /\ [Next]_vars
        => [\A r \in Readers : Diverted(reply[r])' /\ ~Diverted(reply[r])
             => /\ Len(verdict.looks) = Len(Entities)
                /\ \E i \in DOMAIN verdict.looks : ~verdict.looks[i].ok]_vars
  <2> SUFFICES ASSUME TypeOK, VerdictIsEvidence, [Next]_vars, NEW q \in Readers,
                      Diverted(reply'[q]), ~Diverted(reply[q])
               PROVE  /\ Len(verdict.looks) = Len(Entities)
                      /\ \E i \in DOMAIN verdict.looks : ~verdict.looks[i].ok
    BY DEF IInv, Diverted
  <2>1. ASSUME NEW r \in Readers, SqlAnswers(r) PROVE FALSE
    BY <2>1, SqlReply DEF Diverted
  <2>2. PICK r \in Readers, asked \in {"default", "live", "sql"} : Get(r, asked)
    BY <2>1, ReplyStep
  <2>3. q = r
    BY <2>2, GetReply
  <2>4. asked = "default" /\ Source(asked) # "live" /\ DefaultSource = "live"
    BY <2>2, <2>3, GetReply DEF Diverted
  <2>5. verdict.status = "drift"
    BY <2>4 DEF Source
  <2>6. Len(verdict.looks) = Len(Entities) /\ Len(Entities) = 2
    BY <2>5, CollectionsLen DEF VerdictIsEvidence
  <2>7. verdict.looks # <<>>
    BY <2>6
  <2> QED
    BY <2>5, <2>6, <2>7 DEF VerdictIsEvidence
<1> QED
  BY <1>1, Inductive, EvidenceBacked, PTL DEF Spec, DivertRestsOnEvidence
=============================================================================
