--------------------------- MODULE CctvFeedProofs ---------------------------
(***************************************************************************)
(* That the feed of the cameras implements EventRelay, for any recorders   *)
(* and limits.  An event is told once because it is in one place only: in  *)
(* the buffer of its tail, then in the batch of a round, then told or      *)
(* lost; and in order because what is in the batch is older than what the  *)
(* tail has buffered since.                                                *)
(***************************************************************************)
EXTENDS CctvFeed, SequenceTheorems, WellFoundedInduction, TLAPS

-----------------------------------------------------------------------------
(* Numbers and sequences.                                                  *)

LEMMA LeastOf ==
  ASSUME NEW T \in SUBSET Nat, T # {}
  PROVE  \E x \in T : \A y \in T : x <= y
<1>1. PICK x \in T : \A y \in T : <<y, x>> \notin OpToRel(<, Nat)
  BY NatLessThanWellFounded, WFMin
<1>2. ASSUME NEW y \in T PROVE x <= y
  <2>1. ~(y < x)
    BY <1>1 DEF OpToRel
  <2> QED BY <2>1
<1> QED BY <1>2

LEMMA GreatestOf ==
  ASSUME NEW n \in Nat, NEW S \in SUBSET (1 .. n), S # {}
  PROVE  \E x \in S : \A y \in S : y <= x
<1> DEFINE T == {n - i : i \in S}
<1>1. T \in SUBSET Nat
  OBVIOUS
<1>2. T # {}
  <2>1. PICK i \in S : TRUE
    OBVIOUS
  <2>2. n - i \in T
    BY <2>1
  <2> QED BY <2>2
<1> HIDE DEF T
<1>3. PICK k \in T : \A y \in T : k <= y
  BY <1>1, <1>2, LeastOf
<1>4. PICK x \in S : k = n - x
  BY DEF T
<1>5. \A y \in S : n - x <= n - y
  BY <1>3, <1>4 DEF T
<1> QED BY <1>5

Happening == [device : Devices, no : Nat]

\* Each device's events in their order.
Ordered(seq) == \A i, j \in 1 .. Len(seq) : i < j /\ seq[i].device = seq[j].device => seq[i].no < seq[j].no

\* Each device's events of seq are after low and not after high.
Between(seq, low, high) ==
    \A i \in 1 .. Len(seq) : seq[i].no > low[seq[i].device] /\ seq[i].no <= high[seq[i].device]

Before(one, other) ==
    \A i \in 1 .. Len(one), j \in 1 .. Len(other) : one[i].device = other[j].device => one[i].no < other[j].no

AllOf(seq, d) == \A i \in 1 .. Len(seq) : seq[i].device = d

\* What a buffer, a push and the log keep of what there was: consecutive elements.
PartOf(part, seq) ==
    /\ part \in Seq(Happening) /\ Len(part) \in Nat
    /\ \E k \in Nat : /\ k + Len(part) <= Len(seq)
                      /\ \A i \in 1 .. Len(part) : part[i] = seq[k + i]

LEMMA LastOfIsAPart ==
  ASSUME NEW seq \in Seq(Happening), NEW n \in Nat \ {0}
  PROVE  PartOf(LastOf(seq, n), seq) /\ Len(LastOf(seq, n)) <= n
<1> DEFINE k == IF Len(seq) > n THEN Len(seq) - n ELSE 0
<1>1. Len(seq) \in Nat /\ k \in Nat /\ k <= Len(seq)
  BY LenProperties
<1>2. LastOf(seq, n) = SubSeq(seq, k + 1, Len(seq))
  BY <1>1 DEF LastOf
<1>3. \A i \in k + 1 .. Len(seq) : seq[i] \in Happening
  BY <1>1, ElementOfSeq
<1> DEFINE part == SubSeq(seq, k + 1, Len(seq))
<1>4. /\ part \in Seq(Happening) /\ Len(part) = Len(seq) - k
      /\ \A i \in 1 .. Len(seq) - k : part[i] = seq[k + i]
  <2> HIDE DEF k
  <2>1. /\ part \in Seq(Happening)
        /\ Len(part) = IF k + 1 <= Len(seq) THEN Len(seq) - (k + 1) + 1 ELSE 0
        /\ \A i \in 1 .. Len(seq) - (k + 1) + 1 : part[i] = seq[k + 1 + i - 1]
    BY <1>1, <1>3, SubSeqProperties
  <2> QED BY <1>1, <2>1
<1>5. Len(seq) - k <= n
  BY <1>1
<1> HIDE DEF k, part
<1>6. PartOf(part, seq)
  BY <1>1, <1>4 DEF PartOf
<1> QED BY <1>2, <1>4, <1>5, <1>6 DEF part

LEMMA UptoIsAPart ==
  ASSUME NEW seq \in Seq(Happening), NEW n \in Nat
  PROVE  PartOf(Upto(seq, n), seq) /\ Len(Upto(seq, n)) <= n
<1> DEFINE k == IF Len(seq) > n THEN n ELSE Len(seq)
<1>1. Len(seq) \in Nat /\ k \in Nat /\ k <= Len(seq) /\ k <= n
  BY LenProperties
<1>2. \A i \in 1 .. k : seq[i] \in Happening
  BY <1>1, ElementOfSeq
<1> DEFINE part == SubSeq(seq, 1, k)
<1>3. Upto(seq, n) = part
  BY DEF Upto
<1>4. /\ part \in Seq(Happening) /\ Len(part) = k
      /\ \A i \in 1 .. k : part[i] = seq[i]
  <2> HIDE DEF k
  <2>1. /\ part \in Seq(Happening)
        /\ Len(part) = IF 1 <= k THEN k - 1 + 1 ELSE 0
        /\ \A i \in 1 .. k - 1 + 1 : part[i] = seq[1 + i - 1]
    BY <1>1, <1>2, SubSeqProperties
  <2> QED BY <1>1, <2>1
<1> HIDE DEF k, part
<1>5. PartOf(part, seq)
  <2>1. 0 + Len(part) <= Len(seq) /\ \A i \in 1 .. Len(part) : part[i] = seq[0 + i]
    BY <1>1, <1>4
  <2> QED BY <1>1, <1>4, <2>1 DEF PartOf
<1> QED BY <1>1, <1>3, <1>4, <1>5

LEMMA PartsKeep ==
  ASSUME NEW seq \in Seq(Happening), NEW part, PartOf(part, seq)
  PROVE  /\ Ordered(seq) => Ordered(part)
         /\ \A low, high : Between(seq, low, high) => Between(part, low, high)
         /\ \A other \in Seq(Happening) : /\ Before(other, seq) => Before(other, part)
                                          /\ Before(seq, other) => Before(part, other)
         /\ \A d : AllOf(seq, d) => AllOf(part, d)
<1>1. PICK k \in Nat : /\ k + Len(part) <= Len(seq)
                       /\ \A i \in 1 .. Len(part) : part[i] = seq[k + i]
  BY DEF PartOf
<1>2. Len(part) \in Nat /\ Len(seq) \in Nat
  BY LenProperties DEF PartOf
<1>3. \A i \in 1 .. Len(part) : k + i \in 1 .. Len(seq) /\ part[i] = seq[k + i]
  BY <1>1, <1>2
<1>4. \A i, j \in 1 .. Len(part) : i < j => k + i < k + j
  BY <1>2
<1>5. Ordered(seq) => Ordered(part)
  BY <1>3, <1>4 DEF Ordered
<1>6. \A low, high : Between(seq, low, high) => Between(part, low, high)
  BY <1>3 DEF Between
<1>7. \A other \in Seq(Happening) : /\ Before(other, seq) => Before(other, part)
                                    /\ Before(seq, other) => Before(part, other)
  BY <1>3 DEF Before
<1>8. \A d : AllOf(seq, d) => AllOf(part, d)
  BY <1>3 DEF AllOf
<1> QED BY <1>5, <1>6, <1>7, <1>8

LEMMA ConcatKeeps ==
  ASSUME NEW one \in Seq(Happening), NEW two \in Seq(Happening)
  PROVE  /\ one \o two \in Seq(Happening)
         /\ Ordered(one) /\ Ordered(two) /\ Before(one, two) => Ordered(one \o two)
         /\ \A low, high : Between(one, low, high) /\ Between(two, low, high) => Between(one \o two, low, high)
         /\ \A other \in Seq(Happening) : /\ Before(one, other) /\ Before(two, other) => Before(one \o two, other)
                                          /\ Before(other, one) /\ Before(other, two) => Before(other, one \o two)
         /\ \A d : AllOf(one, d) /\ AllOf(two, d) => AllOf(one \o two, d)
<1> DEFINE both == one \o two
<1>1. /\ both \in Seq(Happening) /\ Len(both) = Len(one) + Len(two)
      /\ Len(one) \in Nat /\ Len(two) \in Nat
      /\ \A i \in 1 .. Len(both) : both[i] = IF i <= Len(one) THEN one[i] ELSE two[i - Len(one)]
  BY ConcatProperties, LenProperties
<1> HIDE DEF both
<1>2. \A i \in 1 .. Len(both) : \/ i \in 1 .. Len(one) /\ both[i] = one[i]
                                \/ i - Len(one) \in 1 .. Len(two) /\ both[i] = two[i - Len(one)]
  BY <1>1
<1>3. Ordered(one) /\ Ordered(two) /\ Before(one, two) => Ordered(both)
  <2> SUFFICES ASSUME Ordered(one), Ordered(two), Before(one, two),
                      NEW i \in 1 .. Len(both), NEW j \in 1 .. Len(both), i < j, both[i].device = both[j].device
               PROVE  both[i].no < both[j].no
    BY DEF Ordered
  <2>1. CASE j <= Len(one)
    BY <1>1, <2>1 DEF Ordered
  <2>2. CASE i > Len(one)
    <3>1. i - Len(one) \in 1 .. Len(two) /\ j - Len(one) \in 1 .. Len(two) /\ i - Len(one) < j - Len(one)
      BY <1>1, <2>2
    <3>2. both[i] = two[i - Len(one)] /\ both[j] = two[j - Len(one)]
      BY <1>1, <2>2
    <3> QED BY <3>1, <3>2 DEF Ordered
  <2>3. CASE i <= Len(one) /\ j > Len(one)
    <3>1. i \in 1 .. Len(one) /\ j - Len(one) \in 1 .. Len(two) /\ both[i] = one[i] /\ both[j] = two[j - Len(one)]
      BY <1>1, <2>3
    <3> QED BY <3>1 DEF Before
  <2> QED BY <1>1, <2>1, <2>2, <2>3
<1>4. \A low, high : Between(one, low, high) /\ Between(two, low, high) => Between(both, low, high)
  BY <1>2 DEF Between
<1>5. \A other \in Seq(Happening) : /\ Before(one, other) /\ Before(two, other) => Before(both, other)
                                    /\ Before(other, one) /\ Before(other, two) => Before(other, both)
  BY <1>2 DEF Before
<1>6. \A d : AllOf(one, d) /\ AllOf(two, d) => AllOf(both, d)
  BY <1>2 DEF AllOf
<1> QED BY <1>1, <1>3, <1>4, <1>5, <1>6 DEF both

\* Nothing is said by no events.
LEMMA EmptyKeeps ==
  /\ <<>> \in Seq(Happening) /\ Ordered(<<>>)
  /\ \A low, high : Between(<<>>, low, high)
  /\ \A other : Before(<<>>, other) /\ Before(other, <<>>)
  /\ \A d : AllOf(<<>>, d)
BY DEF Ordered, Between, Before, AllOf

\* The last number of a device is one of the news of that device, if there are any.
LEMMA LastIsOne ==
  ASSUME NEW news \in Seq(Happening), NEW d \in Devices, NEW before
  PROVE  \/ Relay!Last(news, d, before) = before
         \/ \E i \in 1 .. Len(news) : news[i].device = d /\ Relay!Last(news, d, before) = news[i].no
<1> DEFINE mine == {i \in DOMAIN news : news[i].device = d}
           last == CHOOSE i \in mine : \A j \in mine : j <= i
<1>1. Relay!Last(news, d, before) = IF mine = {} THEN before ELSE news[last].no
  BY DEF Relay!Last
<1>2. Len(news) \in Nat /\ mine \in SUBSET (1 .. Len(news))
  BY LenProperties
<1>3. CASE mine # {}
  <2> HIDE DEF mine
  <2>1. \E i \in mine : \A j \in mine : j <= i
    BY <1>2, <1>3, GreatestOf
  <2>2. last \in mine
    BY <2>1
  <2> HIDE DEF last
  <2>3. last \in 1 .. Len(news) /\ news[last].device = d
    BY <1>2, <2>2 DEF mine
  <2> QED BY <1>1, <1>3, <2>3
<1> QED BY <1>1, <1>3

-----------------------------------------------------------------------------
(* Types.                                                                  *)

Places == {"collect", "drain", "push", "answer", "sleep"}
Round_ == [at : Places, next : 1 .. Len(Recorders), tick : 0 .. SnapEvery - 1, slow : 0 .. SlowTicks]
Report == [Devices -> [online : BOOLEAN, camera : {"absent", "unknown", "on", "off"}]]

AgentTyped == agent \in Round_
HubTyped == report \in Report /\ hub \in [age : 0 .. StaleAfter + 1, report : Report]
EventsTyped ==
    /\ happened \in [Devices -> Nat] /\ told \in [Devices -> Nat]
    /\ tail \in [Devices -> Seq(Happening)] /\ \A d \in Devices : Len(tail[d]) <= TailLimit
    /\ batch \in Seq(Happening)
    /\ log \in Seq(Happening) /\ Len(log) <= MAX_EVENTS

Typed == AgentTyped /\ HubTyped /\ EventsTyped

LEMMA LimitsAreThere ==
  /\ SnapEvery \in Nat \ {0} /\ StaleAfter \in Nat /\ SlowTicks \in Nat /\ TailLimit \in Nat \ {0}
  /\ PushLimit \in Nat \ {0} /\ MAX_EVENTS \in Nat \ {0} /\ PushLimit <= MAX_EVENTS
  /\ Len(Recorders) \in Nat \ {0}
  /\ \A i \in 1 .. Len(Recorders) : Recorders[i] \in Devices
BY LimitsAssumption, RecordersAssumption, LenProperties, EmptySeq, ElementOfSeq

LEMMA AgentStaysTyped ==
  ASSUME AgentTyped
  PROVE  /\ Asleep \in Round_ /\ Asleep.at = "sleep"
         /\ \A p \in Places : [agent EXCEPT !.at = p] \in Round_ /\ [agent EXCEPT !.at = p].at = p
         /\ \A p \in Places : Proceed(p) => agent' \in Round_ /\ agent'.at \in {agent.at, p}
<1>1. (agent.tick + 1) % SnapEvery \in 0 .. SnapEvery - 1
  BY LimitsAreThere DEF AgentTyped, Round_
<1>2. Asleep \in Round_ /\ Asleep.at = "sleep"
  <2> DEFINE t == (agent.tick + 1) % SnapEvery
  <2>1. Asleep = [agent EXCEPT !.at = "sleep", !.next = 1, !.tick = t]
    BY DEF Asleep
  <2>2. t \in 0 .. SnapEvery - 1 /\ 1 \in 1 .. Len(Recorders)
    BY <1>1, LimitsAreThere
  <2> HIDE DEF t
  <2> QED BY <2>1, <2>2 DEF AgentTyped, Round_, Places
<1>3. \A p \in Places : [agent EXCEPT !.at = p] \in Round_ /\ [agent EXCEPT !.at = p].at = p
  BY DEF AgentTyped, Round_
<1>4. ASSUME NEW p \in Places, Proceed(p) PROVE agent' \in Round_ /\ agent'.at \in {agent.at, p}
  <2>1. CASE agent.next = Len(Recorders)
    <3>1. 1 \in 1 .. Len(Recorders)
      BY LimitsAreThere
    <3>2. agent' = [agent EXCEPT !.at = p, !.next = 1]
      BY <1>4, <2>1 DEF Proceed
    <3> QED BY <3>1, <3>2 DEF AgentTyped, Round_
  <2>2. CASE agent.next # Len(Recorders)
    <3>1. agent.next + 1 \in 1 .. Len(Recorders)
      BY <2>2, LimitsAreThere DEF AgentTyped, Round_
    <3> QED BY <1>4, <2>2, <3>1 DEF Proceed, AgentTyped, Round_
  <2> QED BY <2>1, <2>2
<1> QED BY <1>2, <1>3, <1>4

LEMMA AgesStayTyped ==
  ASSUME HubTyped, hub' = [hub EXCEPT !.age = Older(@)], UNCHANGED report
  PROVE  HubTyped'
<1>1. Older(hub.age) \in 0 .. StaleAfter + 1
  BY LimitsAreThere DEF HubTyped, Older
<1> QED BY <1>1 DEF HubTyped

LEMMA StepsKeepTheAgent == Typed /\ [Next]_vars => AgentTyped'
<1> SUFFICES ASSUME AgentTyped, [Next]_vars PROVE AgentTyped'
  BY DEF Typed
<1>1. ASSUME UNCHANGED agent PROVE AgentTyped'
  BY <1>1 DEF AgentTyped
<1>2. ASSUME NEW d \in Devices, RecorderChanges(d) \/ CameraChanges(d) \/ EventHappens(d) \/ TailConnects(d)
      PROVE  AgentTyped'
  BY <1>1, <1>2 DEF RecorderChanges, CameraChanges, EventHappens, TailConnects
<1>3. CASE LinkChanges \/ UNCHANGED vars
  BY <1>1, <1>3 DEF LinkChanges, vars
<1>4. CASE Collect \/ Drain
  BY <1>4, AgentStaysTyped DEF Collect, Asked, Drain, AgentTyped, Places
<1>5. CASE PushFails \/ PushAnswered
  BY <1>5, AgentStaysTyped DEF PushFails, PushAnswered, AgentTyped
<1>6. CASE PushStored \/ PushHalfStored
  BY <1>6, AgentStaysTyped DEF PushStored, PushHalfStored, AgentTyped, Places
<1>7. CASE Wake
  <2>1. 0 \in 0 .. SlowTicks /\ "collect" \in Places
    BY LimitsAreThere DEF Places
  <2> QED BY <1>7, <2>1 DEF Wake, AgentTyped, Round_
<1>8. CASE Slow
  <2>1. agent.slow + 1 \in 0 .. SlowTicks
    BY <1>8, LimitsAreThere DEF Slow, AgentTyped, Round_
  <2>2. agent' = [agent EXCEPT !.slow = agent.slow + 1]
    BY <1>8 DEF Slow
  <2> QED BY <2>1, <2>2 DEF AgentTyped, Round_
<1> QED BY <1>2, <1>3, <1>4, <1>5, <1>6, <1>7, <1>8 DEF Next, Round

LEMMA StepsKeepTheHub == Typed /\ [Next]_vars => HubTyped'
<1> SUFFICES ASSUME Typed, [Next]_vars PROVE HubTyped'
  OBVIOUS
<1>1. HubTyped
  BY DEF Typed
<1>2. ASSUME UNCHANGED <<hub, report>> PROVE HubTyped'
  BY <1>1, <1>2 DEF HubTyped
<1>3. ASSUME NEW d \in Devices, RecorderChanges(d) \/ CameraChanges(d) \/ EventHappens(d) \/ TailConnects(d)
      PROVE  HubTyped'
  BY <1>2, <1>3 DEF RecorderChanges, CameraChanges, EventHappens, TailConnects
<1>4. CASE LinkChanges \/ UNCHANGED vars \/ Drain \/ PushFails \/ PushAnswered
  BY <1>2, <1>4 DEF LinkChanges, vars, Drain, PushFails, PushAnswered
<1>5. CASE Collect
  <2> DEFINE d == Recorders[agent.next]
  <2>1. Collected(d) \in [online : BOOLEAN, camera : {"absent", "unknown", "on", "off"}]
    <3>1. Seen(d) \in {"unknown", "on", "off"}
      BY DEF Seen
    <3> QED BY <3>1 DEF Collected, Unasked
  <2>2. report' = [report EXCEPT ![d] = Collected(d)] /\ UNCHANGED hub
    BY <1>5 DEF Collect, Asked
  <2> HIDE DEF d
  <2>3. report' \in Report
    BY <1>1, <2>1, <2>2 DEF HubTyped, Report
  <2> QED BY <1>1, <2>2, <2>3 DEF HubTyped
<1>6. CASE PushStored \/ PushHalfStored
  BY <1>1, <1>6, LimitsAreThere DEF PushStored, PushHalfStored, HubTyped
<1>7. CASE Wake \/ Slow
  BY <1>1, <1>7, AgesStayTyped DEF Wake, Slow
<1> QED BY <1>3, <1>4, <1>5, <1>6, <1>7 DEF Next, Round

-----------------------------------------------------------------------------
(* Where an event is: buffered, in the batch of a round that is not pushed *)
(* yet, or told or lost.                                                   *)

TailsAreNews ==
    \A d \in Devices : AllOf(tail[d], d) /\ Ordered(tail[d]) /\ Between(tail[d], told, happened)

BatchIsNews ==
    /\ agent.at \in {"collect", "sleep"} => batch = <<>>
    /\ agent.at \in {"drain", "push"} => /\ Ordered(batch) /\ Between(batch, told, happened)
                                         /\ \A d \in Devices : Before(batch, tail[d])

ToldHappened == \A d \in Devices : told[d] <= happened[d]

FeedInv == Typed /\ TailsAreNews /\ BatchIsNews /\ ToldHappened

\* One more event of a device is news behind all there is.
LEMMA EventIsBuffered ==
  ASSUME FeedInv, NEW d \in Devices, EventHappens(d)
  PROVE  FeedInv'
<1>1. /\ happened \in [Devices -> Nat] /\ told \in [Devices -> Nat]
      /\ tail \in [Devices -> Seq(Happening)] /\ batch \in Seq(Happening)
      /\ TailLimit \in Nat \ {0}
  BY LimitsAreThere DEF FeedInv, Typed, EventsTyped
<1>2. happened' = [happened EXCEPT ![d] = happened[d] + 1]
      /\ UNCHANGED <<agent, report, batch, hub, log, told>>
  BY DEF EventHappens
<1>3. happened' \in [Devices -> Nat] /\ \A e \in Devices : happened[e] <= happened'[e]
  BY <1>1, <1>2
<1>4. AgentTyped' /\ HubTyped'
  BY StepsKeepTheAgent, StepsKeepTheHub DEF FeedInv, Next
<1>5. \A seq \in Seq(Happening) : Between(seq, told, happened) => Between(seq, told, happened')
  <2> SUFFICES ASSUME NEW seq \in Seq(Happening), Between(seq, told, happened), NEW i \in 1 .. Len(seq)
               PROVE  seq[i].no > told[seq[i].device] /\ seq[i].no <= happened'[seq[i].device]
    BY DEF Between
  <2>1. seq[i] \in Happening
    BY ElementOfSeq
  <2>2. seq[i].device \in Devices /\ seq[i].no \in Nat
    BY <2>1 DEF Happening
  <2> QED BY <1>1, <1>3, <2>2 DEF Between
<1> DEFINE e == Event(d, happened[d] + 1)
           one == <<e>>
           grown == tail[d] \o one
           part == LastOf(grown, TailLimit)
<1>6. e \in Happening /\ e.device = d /\ e.no = happened[d] + 1
  BY <1>1 DEF Event, Happening
<1>7. one \in Seq(Happening) /\ Len(one) = 1 /\ one[1] = e
  BY <1>6
<1>8. Append(tail[d], e) = grown
  BY <1>1, <1>6
<1> HIDE DEF one, e
<1>9. AllOf(one, d) /\ Ordered(one) /\ Between(one, told, happened')
  <2> SUFFICES told[d] <= happened[d]
    BY <1>1, <1>2, <1>6, <1>7 DEF AllOf, Ordered, Between
  <2> QED BY DEF FeedInv, ToldHappened
<1>10. \A seq \in Seq(Happening) : Between(seq, told, happened) => Before(seq, one)
  <2> SUFFICES ASSUME NEW seq \in Seq(Happening), Between(seq, told, happened),
                      NEW i \in 1 .. Len(seq), seq[i].device = d
               PROVE  seq[i].no < happened[d] + 1
    BY <1>6, <1>7 DEF Before
  <2>1. seq[i] \in Happening
    BY ElementOfSeq
  <2>2. seq[i].no \in Nat /\ happened[d] \in Nat
    BY <1>1, <2>1 DEF Happening
  <2>3. seq[i].no <= happened[d]
    BY DEF Between
  <2> QED BY <2>2, <2>3
<1>11. /\ grown \in Seq(Happening) /\ AllOf(grown, d) /\ Ordered(grown) /\ Between(grown, told, happened')
       /\ agent.at \in {"drain", "push"} => Before(batch, grown)
  BY <1>1, <1>5, <1>7, <1>9, <1>10, ConcatKeeps DEF FeedInv, TailsAreNews, BatchIsNews
<1> HIDE DEF grown
<1>12. PartOf(part, grown) /\ Len(part) <= TailLimit
  BY <1>1, <1>11, LastOfIsAPart
<1>13. /\ part \in Seq(Happening) /\ AllOf(part, d) /\ Ordered(part) /\ Between(part, told, happened')
       /\ agent.at \in {"drain", "push"} => Before(batch, part)
  BY <1>1, <1>11, <1>12, PartsKeep DEF PartOf
<1> HIDE DEF part
<1>14. \A r \in Devices : tail'[r] = tail[r] \/ (r = d /\ tail'[r] = part)
  BY <1>1, <1>8 DEF EventHappens, part, e
<1>15. tail' \in [Devices -> Seq(Happening)]
  <2>1. DOMAIN tail' = Devices /\ tail' = [r \in Devices |-> tail'[r]]
    BY <1>1 DEF EventHappens
  <2> QED BY <1>1, <1>13, <1>14, <2>1
<1>16. EventsTyped'
  BY <1>2, <1>3, <1>12, <1>14, <1>15 DEF EventsTyped, FeedInv, Typed
<1>17. TailsAreNews'
  BY <1>1, <1>2, <1>5, <1>13, <1>14 DEF FeedInv, TailsAreNews
<1>18. BatchIsNews'
  BY <1>1, <1>2, <1>5, <1>13, <1>14 DEF FeedInv, BatchIsNews
<1>19. ToldHappened'
  BY <1>1, <1>2, <1>3 DEF FeedInv, ToldHappened
<1> QED BY <1>4, <1>16, <1>17, <1>18, <1>19 DEF FeedInv, Typed

\* What is drained goes behind what the batch has, and is older than what is buffered from now on.
LEMMA DrainKeeps ==
  ASSUME FeedInv, Drain
  PROVE  FeedInv'
<1> DEFINE d == Recorders[agent.next]
           grown == batch \o tail[d]
<1>1. /\ tail \in [Devices -> Seq(Happening)] /\ batch \in Seq(Happening) /\ d \in Devices
      /\ TailLimit \in Nat
  BY LimitsAreThere DEF FeedInv, Typed, EventsTyped, AgentTyped, Round_
<1>2. /\ agent.at = "drain" /\ batch' = grown /\ tail' = [tail EXCEPT ![d] = <<>>]
      /\ UNCHANGED <<happened, log, told>> /\ Proceed("push")
  BY DEF Drain
<1>3. AgentTyped' /\ HubTyped'
  BY StepsKeepTheAgent, StepsKeepTheHub DEF FeedInv, Next, Round
<1>4. agent'.at \in {"drain", "push"}
  BY <1>2, AgentStaysTyped DEF Places, FeedInv, Typed
<1> HIDE DEF d
<1>5. /\ tail[d] \in Seq(Happening) /\ AllOf(tail[d], d) /\ Ordered(tail[d]) /\ Between(tail[d], told, happened)
      /\ Ordered(batch) /\ Between(batch, told, happened) /\ \A r \in Devices : Before(batch, tail[r])
  BY <1>1, <1>2 DEF FeedInv, TailsAreNews, BatchIsNews
<1>6. grown \in Seq(Happening) /\ Ordered(grown) /\ Between(grown, told, happened)
  BY <1>1, <1>5, ConcatKeeps
<1>7. \A r \in Devices : tail'[r] = IF r = d THEN <<>> ELSE tail[r]
  BY <1>1, <1>2
<1>8. ASSUME NEW r \in Devices, r # d PROVE Before(grown, tail[r])
  <2>1. Before(tail[d], tail[r])
    BY <1>5, <1>8 DEF Before, AllOf, FeedInv, TailsAreNews
  <2> QED BY <1>1, <1>5, <2>1, ConcatKeeps
<1> HIDE DEF grown
<1>9. tail' \in [Devices -> Seq(Happening)]
  BY <1>1, <1>2, EmptyKeeps
<1>10. EventsTyped'
  BY <1>1, <1>2, <1>6, <1>7, <1>9, EmptySeq DEF FeedInv, Typed, EventsTyped
<1>11. TailsAreNews'
  BY <1>2, <1>7, EmptyKeeps DEF FeedInv, TailsAreNews
<1>12. BatchIsNews'
  BY <1>2, <1>4, <1>6, <1>7, <1>8, EmptyKeeps DEF BatchIsNews
<1>13. ToldHappened'
  BY <1>2 DEF FeedInv, ToldHappened
<1> QED BY <1>3, <1>10, <1>11, <1>12, <1>13 DEF FeedInv, Typed

\* The log after a push: what it kept of the old lines, then all of the push.
LEMMA PushIsNews ==
  ASSUME FeedInv, PushStored
  PROVE  /\ Pushed \in Seq(Happening) /\ Len(Pushed) \in Nat /\ Len(Pushed) <= PushLimit
         /\ Ordered(Pushed) /\ Between(Pushed, told, happened)
         /\ \A d \in Devices : Before(Pushed, tail[d])
<1>1. batch \in Seq(Happening) /\ tail \in [Devices -> Seq(Happening)] /\ PushLimit \in Nat
  BY LimitsAreThere DEF FeedInv, Typed, EventsTyped
<1>2. PartOf(Pushed, batch) /\ Len(Pushed) <= PushLimit
  BY <1>1, UptoIsAPart DEF Pushed
<1>3. Ordered(batch) /\ Between(batch, told, happened) /\ \A d \in Devices : Before(batch, tail[d])
  BY DEF PushStored, FeedInv, BatchIsNews
<1> QED BY <1>1, <1>2, <1>3, PartsKeep DEF PartOf

\* The last event told of a device is one it was told of, and older than what is buffered.
LEMMA ToldGrows ==
  ASSUME FeedInv, PushStored
  PROVE  /\ told' \in [Devices -> Nat]
         /\ \A d \in Devices : told[d] <= told'[d] /\ told'[d] <= happened[d]
         /\ \A d \in Devices : Between(tail[d], told', happened)
<1>1. /\ happened \in [Devices -> Nat] /\ told \in [Devices -> Nat]
      /\ tail \in [Devices -> Seq(Happening)]
  BY DEF FeedInv, Typed, EventsTyped
<1>2. told' = [d \in Devices |-> Relay!Last(Pushed, d, told[d])]
  BY DEF PushStored
<1>3. ASSUME NEW d \in Devices
      PROVE  /\ told'[d] \in Nat /\ told[d] <= told'[d] /\ told'[d] <= happened[d]
             /\ Between(tail[d], told', happened)
  <2>1. told'[d] = Relay!Last(Pushed, d, told[d])
    BY <1>2
  <2>2. /\ Pushed \in Seq(Happening) /\ Between(Pushed, told, happened) /\ Before(Pushed, tail[d])
        /\ AllOf(tail[d], d) /\ Between(tail[d], told, happened) /\ told[d] <= happened[d]
    BY PushIsNews DEF FeedInv, TailsAreNews, ToldHappened
  <2>3. \A j \in 1 .. Len(tail[d]) : tail[d][j] \in Happening
    BY <1>1, ElementOfSeq
  <2>4. CASE told'[d] = told[d]
    BY <1>1, <2>2, <2>4 DEF Between, AllOf
  <2>5. ASSUME NEW i \in 1 .. Len(Pushed), Pushed[i].device = d, told'[d] = Pushed[i].no
        PROVE  /\ told'[d] \in Nat /\ told[d] <= told'[d] /\ told'[d] <= happened[d]
               /\ Between(tail[d], told', happened)
    <3>1. Pushed[i] \in Happening
      BY <2>2, ElementOfSeq
    <3>2. Pushed[i].no \in Nat /\ Pushed[i].no > told[d] /\ Pushed[i].no <= happened[d]
      BY <2>2, <2>5, <3>1 DEF Between, Happening
    <3>3. \A j \in 1 .. Len(tail[d]) : tail[d][j].no > Pushed[i].no
      BY <2>2, <2>3, <2>5, <3>2 DEF Before, AllOf, Happening
    <3> QED BY <1>1, <2>2, <2>5, <3>2, <3>3 DEF Between, AllOf
  <2> QED BY <2>1, <2>2, <2>4, <2>5, LastIsOne
<1>4. told' \in [Devices -> Nat]
  BY <1>2, <1>3
<1> QED BY <1>3, <1>4

LEMMA StepsKeepTheFeed == FeedInv /\ [Next]_vars => FeedInv'
<1> SUFFICES ASSUME FeedInv, [Next]_vars PROVE FeedInv'
  OBVIOUS
<1>1. AgentTyped' /\ HubTyped'
  BY StepsKeepTheAgent, StepsKeepTheHub DEF FeedInv
\* Nothing happens to the events but that the batch of a round may be gone.
<1>2. ASSUME UNCHANGED <<happened, tail, log, told>>,
             batch' = <<>> \/ (batch' = batch /\ agent'.at = agent.at)
      PROVE  FeedInv'
  <2>1. batch' \in Seq(Happening)
    BY <1>2, EmptyKeeps DEF FeedInv, Typed, EventsTyped
  <2>2. EventsTyped' /\ TailsAreNews' /\ ToldHappened'
    BY <1>2, <2>1 DEF FeedInv, Typed, EventsTyped, TailsAreNews, ToldHappened
  <2>3. BatchIsNews'
    BY <1>2, EmptyKeeps DEF FeedInv, BatchIsNews
  <2> QED BY <1>1, <2>2, <2>3 DEF FeedInv, Typed
<1>3. ASSUME NEW d \in Devices, RecorderChanges(d) \/ CameraChanges(d) \/ TailConnects(d) PROVE FeedInv'
  BY <1>2, <1>3 DEF RecorderChanges, CameraChanges, TailConnects, events
<1>4. CASE LinkChanges \/ UNCHANGED vars
  BY <1>2, <1>4 DEF LinkChanges, vars, events
<1>5. CASE Collect
  BY <1>2, <1>5 DEF Collect, Asked, events, FeedInv, BatchIsNews
<1>6. CASE PushFails \/ PushAnswered
  BY <1>2, <1>6 DEF PushFails, PushAnswered, events
<1>7. CASE PushHalfStored
  BY <1>2, <1>7 DEF PushHalfStored, events
<1>8. CASE Wake
  BY <1>2, <1>8 DEF Wake, events, FeedInv, BatchIsNews
<1>9. CASE Slow
  <2>1. agent'.at = agent.at
    BY <1>9 DEF Slow, FeedInv, Typed, AgentTyped, Round_
  <2> QED BY <1>2, <1>9, <2>1 DEF Slow, events
<1>10. CASE PushStored
  <2>1. /\ agent'.at = "answer" /\ log' = Appended /\ UNCHANGED <<happened, tail, batch>>
    BY <1>10, AgentStaysTyped DEF PushStored, events, Places, FeedInv, Typed
  <2>2. log \o Pushed \in Seq(Happening)
    BY <1>10, PushIsNews, ConcatKeeps DEF FeedInv, Typed, EventsTyped
  <2>3. log' \in Seq(Happening) /\ Len(log') <= MAX_EVENTS
    BY <2>1, <2>2, LastOfIsAPart, LimitsAreThere DEF Appended, PartOf
  <2>4. EventsTyped'
    BY <1>10, <2>1, <2>3, ToldGrows DEF FeedInv, Typed, EventsTyped
  <2>5. TailsAreNews' /\ ToldHappened'
    BY <1>10, <2>1, ToldGrows DEF FeedInv, TailsAreNews, ToldHappened
  <2> QED BY <1>1, <2>1, <2>4, <2>5 DEF FeedInv, Typed, BatchIsNews
<1> QED BY <1>3, <1>4, <1>5, <1>6, <1>7, <1>8, <1>9, <1>10, DrainKeeps, EventIsBuffered DEF Next, Round

LEMMA FeedBegins == Init => FeedInv
<1> SUFFICES ASSUME Init PROVE FeedInv
  OBVIOUS
<1>1. AgentTyped
  BY LimitsAreThere DEF Init, Start, AgentTyped, Round_, Places
<1>2. HubTyped
  BY LimitsAreThere DEF Init, NoState, Nothing, Unasked, HubTyped, Report
<1>3. EventsTyped
  BY EmptyKeeps, EmptySeq, LimitsAreThere DEF Init, EventsTyped
<1>4. TailsAreNews /\ BatchIsNews /\ ToldHappened
  BY EmptyKeeps DEF Init, TailsAreNews, BatchIsNews, ToldHappened, Start
<1> QED BY <1>1, <1>2, <1>3, <1>4 DEF FeedInv, Typed

-----------------------------------------------------------------------------
(* The refinement: a stored push tells, an event happens, and every other  *)
(* step changes nothing of the relay.                                      *)

LEMMA StoringTells ==
  ASSUME FeedInv, PushStored
  PROVE  Relay!Tell
<1>1. /\ log \in Seq(Happening) /\ Len(log) \in Nat /\ told \in [Devices -> Nat] /\ happened \in [Devices -> Nat]
      /\ MAX_EVENTS \in Nat \ {0} /\ PushLimit \in Nat /\ PushLimit <= MAX_EVENTS
  BY LimitsAreThere, LenProperties DEF FeedInv, Typed, EventsTyped
<1> DEFINE push == Pushed
           all == log \o push
           gone == IF Len(all) > MAX_EVENTS THEN Len(all) - MAX_EVENTS ELSE 0
           kept == SubSeq(log, gone + 1, Len(log))
           told_ == [d \in Devices |-> Relay!Last(push, d, told[d])]
<1>2. /\ push \in Seq(Happening) /\ Len(push) \in Nat /\ Len(push) <= PushLimit
      /\ Ordered(push) /\ Between(push, told, happened)
  BY PushIsNews
<1> HIDE DEF push
<1>3. /\ all \in Seq(Happening) /\ Len(all) = Len(log) + Len(push)
      /\ \A i \in 1 .. Len(all) : all[i] = IF i <= Len(log) THEN log[i] ELSE push[i - Len(log)]
  BY <1>1, <1>2, ConcatProperties
<1>4. gone \in 0 .. Len(log) /\ gone <= Len(all) /\ (gone > 0 => Len(all) - gone = MAX_EVENTS)
  BY <1>1, <1>2, <1>3
<1>5. log' = SubSeq(all, gone + 1, Len(all))
  <2>1. log' = LastOf(all, MAX_EVENTS)
    BY DEF PushStored, Appended, push
  <2>2. (IF Len(all) > MAX_EVENTS THEN Len(all) - MAX_EVENTS + 1 ELSE 1) = gone + 1
    BY <1>1, <1>3
  <2> QED BY <2>1, <2>2 DEF LastOf
<1> HIDE DEF gone, all
<1>6. /\ log' \in Seq(Happening) /\ Len(log') = Len(all) - gone
      /\ \A i \in 1 .. Len(all) - gone : log'[i] = all[gone + i]
  <2>1. \A i \in gone + 1 .. Len(all) : all[i] \in Happening
    BY <1>3, <1>4, ElementOfSeq
  <2>2. gone + 1 \in Int /\ Len(all) \in Int
    BY <1>1, <1>2, <1>3, <1>4
  <2>3. /\ log' \in Seq(Happening)
        /\ Len(log') = IF gone + 1 <= Len(all) THEN Len(all) - (gone + 1) + 1 ELSE 0
        /\ \A i \in 1 .. Len(all) - (gone + 1) + 1 : log'[i] = all[gone + 1 + i - 1]
    BY <1>5, <2>1, <2>2, SubSeqProperties
  <2> QED BY <1>1, <1>2, <1>3, <1>4, <2>3
<1>7. /\ kept \in Seq(Happening) /\ Len(kept) = Len(log) - gone
      /\ \A i \in 1 .. Len(log) - gone : kept[i] = log[gone + i]
  <2>1. \A i \in gone + 1 .. Len(log) : log[i] \in Happening
    BY <1>1, <1>4, ElementOfSeq
  <2>2. gone + 1 \in Int /\ Len(log) \in Int
    BY <1>1, <1>4
  <2>3. /\ kept \in Seq(Happening)
        /\ Len(kept) = IF gone + 1 <= Len(log) THEN Len(log) - (gone + 1) + 1 ELSE 0
        /\ \A i \in 1 .. Len(log) - (gone + 1) + 1 : kept[i] = log[gone + 1 + i - 1]
    BY <2>1, <2>2, SubSeqProperties
  <2> QED BY <1>1, <1>4, <2>3
<1> HIDE DEF kept
<1>8. Len(kept) <= Len(log') /\ Len(log') = Len(kept) + Len(push) /\ Len(kept) \in Nat
  BY <1>1, <1>2, <1>3, <1>4, <1>6, <1>7
<1>9. SubSeq(log', 1, Len(kept)) = kept
  <2> DEFINE s == SubSeq(log', 1, Len(kept))
  <2>1. \A i \in 1 .. Len(kept) : log'[i] \in Happening
    BY <1>6, <1>8, ElementOfSeq
  <2>2. /\ s \in Seq(Happening) /\ Len(s) = IF 1 <= Len(kept) THEN Len(kept) - 1 + 1 ELSE 0
        /\ \A i \in 1 .. Len(kept) - 1 + 1 : s[i] = log'[1 + i - 1]
    BY <1>8, <2>1, SubSeqProperties
  <2> HIDE DEF s
  <2>3. Len(s) = Len(kept) /\ \A i \in 1 .. Len(s) : s[i] = log'[i]
    BY <1>8, <2>2
  <2>4. ASSUME NEW i \in 1 .. Len(s) PROVE s[i] = kept[i]
    <3>1. /\ i \in 1 .. Len(all) - gone /\ i \in 1 .. Len(log) - gone
          /\ gone + i \in 1 .. Len(all) /\ gone + i <= Len(log)
      BY <1>1, <1>2, <1>3, <1>4, <1>7, <2>3
    <3>2. log'[i] = all[gone + i] /\ kept[i] = log[gone + i] /\ all[gone + i] = log[gone + i]
      BY <1>3, <1>6, <1>7, <3>1
    <3> QED BY <2>3, <3>2
  <2>5. s = kept
    BY <1>7, <2>2, <2>3, <2>4, SeqEqual
  <2> QED BY <2>5 DEF s
<1>10. SubSeq(log', Len(kept) + 1, Len(log')) = push
  <2> DEFINE s == SubSeq(log', Len(kept) + 1, Len(log'))
  <2>1. \A i \in Len(kept) + 1 .. Len(log') : log'[i] \in Happening
    BY <1>6, <1>8, ElementOfSeq
  <2>2. Len(kept) + 1 \in Int /\ Len(log') \in Int
    BY <1>2, <1>8
  <2>3. /\ s \in Seq(Happening)
        /\ Len(s) = IF Len(kept) + 1 <= Len(log') THEN Len(log') - (Len(kept) + 1) + 1 ELSE 0
        /\ \A i \in 1 .. Len(log') - (Len(kept) + 1) + 1 : s[i] = log'[Len(kept) + 1 + i - 1]
    BY <2>1, <2>2, SubSeqProperties
  <2> HIDE DEF s
  <2>4. Len(s) = Len(push) /\ \A i \in 1 .. Len(s) : s[i] = log'[Len(kept) + i]
    <3> DEFINE k == Len(kept)
               n == Len(push)
               m == Len(log')
    <3>1. m = k + n /\ k \in Nat /\ n \in Nat
      BY <1>2, <1>8
    <3>2. /\ Len(s) = IF k + 1 <= m THEN m - (k + 1) + 1 ELSE 0
          /\ \A i \in 1 .. m - (k + 1) + 1 : s[i] = log'[k + 1 + i - 1]
      BY <2>3
    <3> HIDE DEF k, n, m
    <3>3. Len(s) = n /\ \A i \in 1 .. n : k + 1 + i - 1 = k + i /\ i \in 1 .. m - (k + 1) + 1
      BY <3>1, <3>2
    <3>4. Len(s) = n /\ \A i \in 1 .. n : s[i] = log'[k + i]
      BY <3>2, <3>3
    <3> QED BY <3>4 DEF k, n
  <2>5. ASSUME NEW i \in 1 .. Len(s) PROVE s[i] = push[i]
    <3>1. Len(kept) + i \in 1 .. Len(all) - gone /\ gone + (Len(kept) + i) = Len(log) + i
      BY <1>1, <1>2, <1>3, <1>4, <1>7, <2>4
    <3>2. log'[Len(kept) + i] = all[Len(log) + i]
      BY <1>6, <3>1
    <3>3. all[Len(log) + i] = push[i]
      <4>1. /\ Len(log) + i \in 1 .. Len(all) /\ ~(Len(log) + i <= Len(log))
            /\ Len(log) + i - Len(log) = i
        BY <1>1, <1>2, <1>3, <2>4
      <4> QED BY <1>3, <4>1
    <3> QED BY <2>4, <3>2, <3>3
  <2>6. s = push
    BY <1>2, <2>3, <2>4, <2>5, SeqEqual
  <2> QED BY <2>6 DEF s
<1>11. Relay!Fresh(push)
  <2>1. DOMAIN push = 1 .. Len(push) /\ \A i \in 1 .. Len(push) : push[i].device \in Devices /\ push[i].no \in Nat
    <3>1. \A i \in 1 .. Len(push) : push[i] \in Happening
      BY <1>2, ElementOfSeq
    <3> QED BY <1>2, <3>1, LenProperties DEF Happening
  <2>2. \A i \in 1 .. Len(push) : push[i].no \in told[push[i].device] + 1 .. happened[push[i].device]
    BY <1>1, <1>2, <2>1 DEF Between
  <2>3. ASSUME NEW i \in 1 .. Len(push), NEW j \in 1 .. i - 1, push[j].device = push[i].device
        PROVE  push[j].no < push[i].no
    BY <1>2, <2>3 DEF Ordered
  <2> QED BY <2>1, <2>2, <2>3 DEF Relay!Fresh
<1>12. told' = told_ /\ happened' = happened
  BY DEF PushStored, push, events
<1>13. gone > 0 => Len(log') = MAX_EVENTS
  BY <1>4, <1>6
<1> HIDE DEF told_
<1>14. /\ Len(kept) <= Len(log') /\ SubSeq(log', 1, Len(kept)) = kept
       /\ gone > 0 => Len(log') = MAX_EVENTS
       /\ Relay!Fresh(SubSeq(log', Len(kept) + 1, Len(log')))
       /\ told' = [d \in Devices |-> Relay!Last(SubSeq(log', Len(kept) + 1, Len(log')), d, told[d])]
  BY <1>8, <1>9, <1>10, <1>11, <1>12, <1>13 DEF told_
<1> QED BY <1>4, <1>12, <1>14 DEF Relay!Tell, kept

\* The hub tells of every event at most once and in order, and keeps the last of them, whatever
\* fails between a tail and the log and whenever the hub dies between its files (push, drain).
THEOREM FeedImplementsRelay == Spec => Relayed
<1>1. Init => Relay!Init
  BY DEF Init, Relay!Init
<1>2. FeedInv /\ [Next]_vars => [Relay!Next]_(Relay!relay)
  <2> SUFFICES ASSUME FeedInv, [Next]_vars PROVE Relay!Next \/ UNCHANGED <<happened, log, told>>
    BY DEF Relay!relay
  <2>1. ASSUME NEW d \in Devices, RecorderChanges(d) \/ CameraChanges(d) \/ EventHappens(d) \/ TailConnects(d)
        PROVE  Relay!Next \/ UNCHANGED <<happened, log, told>>
    BY <2>1 DEF RecorderChanges, CameraChanges, TailConnects, EventHappens, events, Relay!Next, Relay!Happen
  <2>2. CASE PushStored
    BY <2>2, StoringTells DEF Relay!Next
  <2>3. CASE LinkChanges \/ PushHalfStored \/ Slow \/ UNCHANGED vars
    BY <2>3 DEF LinkChanges, PushHalfStored, Slow, vars, events
  <2>4. CASE Collect \/ Drain \/ PushFails \/ PushAnswered \/ Wake
    BY <2>4 DEF Collect, Asked, Drain, PushFails, PushAnswered, Wake, events
  <2> QED BY <2>1, <2>2, <2>3, <2>4 DEF Next, Round
<1> QED BY <1>1, <1>2, FeedBegins, StepsKeepTheFeed, PTL DEF Spec, Relayed, Relay!Spec

\* The agent's round, the reports and the events are what they should be, and no buffer and no log
\* outgrows its limit (collect, _parse, push, _append_events).
THEOREM TypeCorrect == Spec => []TypeOK
<1>1. FeedInv => TypeOK
  <2> SUFFICES ASSUME FeedInv PROVE TypeOK
    OBVIOUS
  <2>1. DOMAIN Recorders = 1 .. Len(Recorders)
    BY RecordersAssumption, LenProperties
  <2> QED BY <2>1 DEF FeedInv, Typed, AgentTyped, HubTyped, EventsTyped, Round_, Places, TypeOK
<1> QED BY <1>1, FeedBegins, StepsKeepTheFeed, PTL DEF Spec
=============================================================================
