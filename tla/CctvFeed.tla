------------------------------ MODULE CctvFeed ------------------------------
(***************************************************************************)
(* The cameras: an agent in the plant's network (agents/cctv-agent) that   *)
(* asks every recorder in turn, listens to each one's event stream on a    *)
(* thread of its own, and posts what it has to the hub; and the hub's      *)
(* store (app/integrations/cctv), which keeps the last report and the last *)
(* events on disk and says how old they are.                               *)
(*                                                                         *)
(* Time is counted in ticks, of which the agent's interval is one.         *)
(***************************************************************************)
EXTENDS Naturals, Sequences, SequencesExt, FiniteSets

CONSTANTS
    Recorders,       \* a sequence: the devices in the order of the configuration
    Analog,          \* those whose camera says nothing of its being online
    SnapEvery,       \* snapshot_every_n_ticks
    StaleAfter,      \* cctv_stale_seconds
    SlowTicks,       \* bound: how long a round of the agent may take
    TailLimit,       \* of the buffer of a tail
    PushLimit,       \* of the events of a push
    MAX_EVENTS,
    MaxHappen,       \* bound: events of a device
    MaxChanges       \* bound: how often the world changes

ASSUME LimitsAssumption == /\ SnapEvery \in Nat \ {0} /\ StaleAfter \in Nat /\ SlowTicks \in Nat
                           /\ TailLimit \in Nat \ {0} /\ PushLimit \in Nat \ {0} /\ MAX_EVENTS \in Nat \ {0}
                           /\ PushLimit <= MAX_EVENTS
                           /\ MaxHappen \in Nat /\ MaxChanges \in Nat

Devices == Range(Recorders)
ASSUME RecordersAssumption == Recorders \in Seq(Devices) /\ Recorders # <<>>

VARIABLES
    recorder,   \* devices: "up", "down", or "half": it answers the first question only
    camera,     \* devices: whether its camera gives a picture
    link,       \* the line to the hub
    changes,
    happened,   \* events each device has had
    heard,      \* the stream of the device is open
    tail,       \* the events its thread has buffered
    agent,      \* the round: [at, next, tick, slow]
    report,     \* what it has collected of each device
    batch,      \* the events it has drained
    hub,        \* state.json: the last report and its age in ticks, or NoState
    log,        \* events.jsonl
    told        \* history: the last event of each device that was logged

world == <<recorder, camera, link, changes>>
events == <<happened, heard, tail>>
vars == <<world, events, agent, report, batch, hub, log, told>>

\* What the hub promises of the events.
Relay == INSTANCE EventRelay WITH Kept <- MAX_EVENTS

Unasked == [online |-> FALSE, camera |-> "absent"]
Nothing == [d \in Devices |-> Unasked]
NoState == [age |-> StaleAfter + 1, report |-> Nothing]
Start == [at |-> "collect", next |-> 1, tick |-> 0, slow |-> 0]

Init ==
    /\ recorder = [d \in Devices |-> "up"] /\ camera = [d \in Devices |-> TRUE]
    /\ link = TRUE /\ changes = 0
    /\ happened = [d \in Devices |-> 0] /\ heard = [d \in Devices |-> TRUE]
    /\ tail = [d \in Devices |-> <<>>]
    /\ agent = Start /\ report = Nothing /\ batch = <<>>
    /\ hub = NoState /\ log = <<>>
    /\ told = [d \in Devices |-> 0]

-----------------------------------------------------------------------------
(* The plant.                                                              *)

Change == changes < MaxChanges /\ changes' = changes + 1

\* A recorder that goes closes its stream.
RecorderChanges(d) ==
    /\ Change
    /\ \E to \in {"up", "half", "down"} \ {recorder[d]} :
          /\ recorder' = [recorder EXCEPT ![d] = to]
          /\ heard' = [heard EXCEPT ![d] = @ /\ to # "down"]
    /\ UNCHANGED <<camera, link, happened, tail, agent, report, batch, hub, log, told>>

CameraChanges(d) ==
    /\ Change
    /\ camera' = [camera EXCEPT ![d] = ~@]
    /\ UNCHANGED <<recorder, link, events, agent, report, batch, hub, log, told>>

LinkChanges ==
    /\ Change
    /\ link' = ~link
    /\ UNCHANGED <<recorder, camera, events, agent, report, batch, hub, log, told>>

-----------------------------------------------------------------------------
(* The event tails.                                                        *)

Event(d, n) == [device |-> d, no |-> n]
LastOf(seq, n) == SubSeq(seq, IF Len(seq) > n THEN Len(seq) - n + 1 ELSE 1, Len(seq))
Upto(seq, n) == SubSeq(seq, 1, IF Len(seq) > n THEN n ELSE Len(seq))

\* An event nobody listens to is gone; of the others the last TailLimit stay.
EventHappens(d) ==
    /\ happened[d] < MaxHappen
    /\ happened' = [happened EXCEPT ![d] = @ + 1]
    /\ tail' = IF heard[d] THEN [tail EXCEPT ![d] = LastOf(Append(@, Event(d, happened[d] + 1)), TailLimit)]
               ELSE tail
    /\ UNCHANGED <<world, heard, agent, report, batch, hub, log, told>>

\* The stream opens, or ends and is opened again after a while.
TailConnects(d) ==
    /\ ~heard[d] /\ recorder[d] # "down"
    /\ heard' = [heard EXCEPT ![d] = TRUE]
    /\ UNCHANGED <<world, happened, tail, agent, report, batch, hub, log, told>>

-----------------------------------------------------------------------------
(* The agent's round.                                                      *)

\* The camera of a recorder that answers: an analog one is known by its picture only, and a
\* picture is taken every SnapEvery rounds.
Seen(d) ==
    IF d \notin Analog THEN IF camera[d] THEN "on" ELSE "off"
    ELSE IF agent.tick # 0 THEN "unknown"
    ELSE IF camera[d] THEN "on" ELSE "off"

\* A recorder that breaks off after its first answer is online, with no channels.
Collected(d) ==
    CASE recorder[d] = "down" -> Unasked
      [] recorder[d] = "half" -> [online |-> TRUE, camera |-> "absent"]
      [] OTHER -> [online |-> TRUE, camera |-> Seen(d)]

\* One recorder after the other; after the last the round goes on to what comes then.
Proceed(then) == agent' = IF agent.next = Len(Recorders) THEN [agent EXCEPT !.at = then, !.next = 1]
                          ELSE [agent EXCEPT !.next = @ + 1]

Asked(d) ==
    /\ report' = [report EXCEPT ![d] = Collected(d)]
    /\ Proceed("drain")
    /\ UNCHANGED <<world, events, batch, hub, log, told>>

\* What one recorder fails to answer keeps the round waiting for it.
CollectInsists ==
    /\ agent.at = "collect"
    /\ recorder[Recorders[agent.next]] = "up"
    /\ Asked(Recorders[agent.next])

\* Whatever a recorder fails to answer, the next one is asked.
Collect == agent.at = "collect" /\ Asked(Recorders[agent.next])

\* The buffers are emptied one after the other, each under its own lock: the others go on filling.
Drain ==
    /\ agent.at = "drain"
    /\ LET d == Recorders[agent.next]
       IN  batch' = batch \o tail[d] /\ tail' = [tail EXCEPT ![d] = <<>>]
    /\ Proceed("push")
    /\ UNCHANGED <<world, happened, heard, report, hub, log, told>>

Asleep == [agent EXCEPT !.at = "sleep", !.next = 1, !.tick = (@ + 1) % SnapEvery]

\* What could not be pushed goes back to be pushed again.
PushFailsAndRequeues ==
    /\ agent.at \in {"push", "answer"} /\ (agent.at = "push" => ~link)
    /\ agent' = Asleep
    /\ tail' = [d \in Devices |-> LastOf(SelectSeq(batch, LAMBDA e : e.device = d) \o tail[d], TailLimit)]
    /\ batch' = <<>>
    /\ UNCHANGED <<world, happened, heard, report, hub, log, told>>

\* The push did not reach the hub, or its answer did not come back: what was drained is dropped.
PushFails ==
    /\ agent.at \in {"push", "answer"} /\ (agent.at = "push" => ~link)
    /\ agent' = Asleep
    /\ batch' = <<>>
    /\ UNCHANGED <<world, events, report, hub, log, told>>

\* The answer came: the pictures are sent up one by one, and whatever becomes of them the round ends.
PushAnswered ==
    /\ agent.at = "answer"
    /\ agent' = Asleep
    /\ batch' = <<>>
    /\ UNCHANGED <<world, events, report, hub, log, told>>

-----------------------------------------------------------------------------
(* The hub.                                                                *)

\* The whole state is replaced; then the events are appended, the first PushLimit of them.
Pushed == Upto(batch, PushLimit)
Appended == LastOf(log \o Pushed, MAX_EVENTS)

\* Stored, with the answer on its way.
PushStored ==
    /\ agent.at = "push" /\ link
    /\ hub' = [age |-> 0, report |-> report]
    /\ log' = Appended
    /\ told' = [d \in Devices |-> Relay!Last(Pushed, d, told[d])]
    /\ agent' = [agent EXCEPT !.at = "answer"]
    /\ UNCHANGED <<world, events, report, batch>>

\* The hub dies between its two files.
PushHalfStored ==
    /\ agent.at = "push" /\ link /\ Change
    /\ hub' = [age |-> 0, report |-> report]
    /\ agent' = [agent EXCEPT !.at = "answer"]
    /\ batch' = <<>>
    /\ UNCHANGED <<recorder, camera, link, events, report, log, told>>

Stale(age) == age > StaleAfter

-----------------------------------------------------------------------------
(* Time: it passes while the agent sleeps, and SlowTicks of it at most while the agent works. *)

Older(age) == IF age > StaleAfter THEN age ELSE age + 1

\* The agent sleeps for what is left of its interval.
Wake ==
    /\ agent.at = "sleep"
    /\ agent' = [agent EXCEPT !.at = "collect", !.slow = 0]
    /\ hub' = [hub EXCEPT !.age = Older(@)]
    /\ UNCHANGED <<world, events, report, batch, log, told>>

Slow ==
    /\ agent.at \in {"collect", "push", "answer"} /\ agent.slow < SlowTicks
    /\ agent' = [agent EXCEPT !.slow = @ + 1]
    /\ hub' = [hub EXCEPT !.age = Older(@)]
    /\ UNCHANGED <<world, events, report, batch, log, told>>

Round == Collect \/ Drain \/ PushFails \/ PushAnswered \/ PushStored \/ Wake

Next ==
    \/ \E d \in Devices : RecorderChanges(d) \/ CameraChanges(d) \/ EventHappens(d) \/ TailConnects(d)
    \/ LinkChanges \/ Round \/ PushHalfStored \/ Slow

\* Every call of the agent has a time-out, its loop catches what a push raises, and it sleeps a
\* bounded time; a tail tries again every fifteen seconds.
Fairness == WF_vars(Round) /\ \A d \in Devices : WF_vars(TailConnects(d))

Spec == Init /\ [][Next]_vars
FairSpec == Spec /\ Fairness

-----------------------------------------------------------------------------
(* Properties.                                                             *)

TypeOK ==
    /\ agent.at \in {"collect", "drain", "push", "answer", "sleep"}
    /\ agent.next \in DOMAIN Recorders /\ agent.tick \in 0 .. SnapEvery - 1
    /\ hub.age \in 0 .. StaleAfter + 1
    /\ \A d \in Devices : Len(tail[d]) <= TailLimit
    /\ Len(log) <= MAX_EVENTS

\* Whatever is lost on the way, the hub tells of each event once at most and in order: the feed
\* implements EventRelay.
Relayed == Relay!Spec

\* What the wall should say of a device, and of an analog camera at least at some time.
True(d) == /\ hub.report[d].online = (recorder[d] # "down")
           /\ recorder[d] = "up" => hub.report[d].camera \in {"unknown", IF camera[d] THEN "on" ELSE "off"}
           /\ recorder[d] # "up" => hub.report[d].camera = "absent"

\* Once the plant stands still and the line holds, the wall is true and stays so, is never stale,
\* and shows every camera of a recorder that answers, again and again.
WallConverges ==
    <>[]link => /\ <>[](~Stale(hub.age) /\ \A d \in Devices : True(d))
                /\ \A d \in Devices : []<>(recorder[d] = "up" => hub.report[d].camera # "unknown")
=============================================================================
