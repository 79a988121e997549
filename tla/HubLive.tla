------------------------------- MODULE HubLive -------------------------------
(***************************************************************************)
(* The live board of the hub (app/hub/live.py, with /live and /events of   *)
(* app/hub/router.py): one snapshot of every system for all who look, made *)
(* by whoever finds the last one too old, under one asyncio lock, and put  *)
(* into the queue of every listener.  A loop makes snapshots for as long   *)
(* as anybody listens.                                                     *)
(*                                                                         *)
(* Snapshots are numbered modulo Numbers, of which a queue holds two.      *)
(* Time is in ticks of half an interval and passes during a probe as well. *)
(***************************************************************************)
EXTENDS Naturals, Sequences, SequencesExt

CONSTANTS
    Listeners,     \* streams of /events
    Lookers,       \* calls of /live
    Numbers,       \* bound: snapshots are told apart modulo this, more than two
    MaxLooks,      \* bound: calls of /live
    MaxFailures    \* bound: snapshots that fail

None == Numbers    \* no snapshot
Loop == "loop"
Interval == 2      \* HUB_LIVE_INTERVAL
Held == 2          \* the size of a queue

BoardAssumption == Numbers \in Nat \ {0} /\ Loop \notin Listeners /\ Listeners \cap Lookers = {}

VARIABLES
    data,       \* the number of the last snapshot and its age
    lock,       \* the tasks that wait for the lock, the head inside
    probing,    \* the head makes a snapshot
    loop,       \* "none", "get" or "sleep", and the ticks it still sleeps
    listener,   \* "away", "asking" (for one event), "once", "on", "left" or "leaked"
    queue,      \* of each stream
    seen,       \* the last snapshot each stream sent
    looks, failures

hubVars == <<data, lock, probing, loop, listener, queue, seen, looks, failures>>

Init ==
    /\ data = [no |-> None, age |-> 0]
    /\ lock = <<>> /\ probing = FALSE
    /\ loop = [at |-> "none", left |-> 0]
    /\ listener = [l \in Listeners |-> "away"]
    /\ queue = [l \in Listeners |-> <<>>] /\ seen = [l \in Listeners |-> None]
    /\ looks = 0 /\ failures = 0

\* _subs: a stream that broke off before it sent a byte is never taken out.
Subscribed == {l \in Listeners : listener[l] \in {"asking", "once", "on", "leaked"}}

MaxAge(t) == IF t = Loop THEN Interval \div 2 ELSE Interval
Fresh(t) == data.no # None /\ data.age < MaxAge(t)

-----------------------------------------------------------------------------
(* get.                                                                    *)

\* The loop ends when nobody listens, and sleeps otherwise.
LoopGoesOn == loop' = IF Subscribed = {} THEN [at |-> "none", left |-> 0] ELSE [at |-> "sleep", left |-> Interval]

\* The caller has its snapshot; a stream of one event begins.
Returns(t) == /\ IF t = Loop THEN LoopGoesOn ELSE UNCHANGED loop
              /\ listener' = IF t \in Listeners THEN [listener EXCEPT ![t] = "once"] ELSE listener

\* An error ends the loop.
RaisesThrough(t) ==
    /\ loop' = IF t = Loop THEN [at |-> "none", left |-> 0] ELSE loop
    /\ listener' = IF t \in Listeners THEN [listener EXCEPT ![t] = "leaked"] ELSE listener

\* The loop swallows an error; a stream of one event never begins, with its queue subscribed.
Raises(t) == /\ IF t = Loop THEN LoopGoesOn ELSE UNCHANGED loop
             /\ listener' = IF t \in Listeners THEN [listener EXCEPT ![t] = "leaked"] ELSE listener

\* What t does at once when it calls get: back with a snapshot that is new enough, or to the lock.
Get(t) == IF Fresh(t) THEN Returns(t) /\ UNCHANGED lock
          ELSE lock' = Append(lock, t) /\ UNCHANGED <<loop, listener>>

Look(k) ==
    /\ looks < MaxLooks /\ looks' = looks + 1
    /\ k \notin Range(lock)
    /\ Get(k)
    /\ UNCHANGED <<data, probing, queue, seen, failures>>

\* Whoever has the lock probes, whatever the one before it brought.
EnterAtOnce ==
    /\ lock # <<>> /\ ~probing
    /\ probing' = TRUE
    /\ UNCHANGED <<data, lock, loop, listener, queue, seen, looks, failures>>

\* Inside the lock the age is looked at again.
Enter ==
    /\ lock # <<>> /\ ~probing
    /\ IF Fresh(Head(lock)) THEN lock' = Tail(lock) /\ Returns(Head(lock)) /\ UNCHANGED probing
       ELSE probing' = TRUE /\ UNCHANGED <<lock, loop, listener>>
    /\ UNCHANGED <<data, queue, seen, looks, failures>>

\* A full queue keeps what it has.
PublishedIfRoom(q, no) == IF Len(q) = Held THEN q ELSE Append(q, no)

\* A full queue loses its oldest.
Published(q, no) == Append(IF Len(q) = Held THEN Tail(q) ELSE q, no)

\* The snapshot that is made now.
Snapshot == IF data.no = None THEN 0 ELSE (data.no + 1) % Numbers

\* Every probe has a time-out, and what one system fails to answer does not fail the snapshot.
ProbeEnds ==
    /\ probing
    /\ probing' = FALSE /\ lock' = Tail(lock)
    /\ data' = [no |-> Snapshot, age |-> 0]
    /\ queue' = [l \in Listeners |-> IF l \in Subscribed THEN Published(queue[l], Snapshot) ELSE queue[l]]
    /\ Returns(Head(lock))
    /\ UNCHANGED <<seen, looks, failures>>

\* The snapshot itself fails: the last one stays.
ProbeFails ==
    /\ probing /\ failures < MaxFailures /\ failures' = failures + 1
    /\ probing' = FALSE /\ lock' = Tail(lock)
    /\ Raises(Head(lock))
    /\ UNCHANGED <<data, queue, seen, looks>>

-----------------------------------------------------------------------------
(* The streams.                                                            *)

\* subscribe: the last snapshot comes first.
Begins(l) == /\ listener[l] = "away"
             /\ queue' = [queue EXCEPT ![l] = IF data.no = None THEN <<>> ELSE <<data.no>>]

\* ensure_loop.
Events(l) ==
    /\ Begins(l)
    /\ listener' = [listener EXCEPT ![l] = "on"]
    /\ loop' = IF loop.at = "none" THEN [at |-> "sleep", left |-> 0] ELSE loop
    /\ UNCHANGED <<data, lock, probing, seen, looks, failures>>

\* ?once: it waits for a snapshot in place of starting the loop.
EventsOnce(l) ==
    /\ Begins(l)
    /\ IF Fresh(l) THEN listener' = [listener EXCEPT ![l] = "once"] /\ UNCHANGED lock
       ELSE listener' = [listener EXCEPT ![l] = "asking"] /\ lock' = Append(lock, l)
    /\ UNCHANGED <<data, probing, loop, seen, looks, failures>>

Send(l) ==
    /\ listener[l] \in {"on", "once"} /\ queue[l] # <<>>
    /\ seen' = [seen EXCEPT ![l] = Head(queue[l])]
    /\ queue' = [queue EXCEPT ![l] = Tail(@)]
    /\ listener' = [listener EXCEPT ![l] = IF @ = "once" THEN "left" ELSE @]
    /\ UNCHANGED <<data, lock, probing, loop, looks, failures>>

\* The person goes: the stream finds out and unsubscribes, unless it had not begun to run.
Leave(l) ==
    /\ listener[l] \in {"on", "once"}
    /\ \/ listener' = [listener EXCEPT ![l] = "left"]
       \/ seen[l] = None /\ listener' = [listener EXCEPT ![l] = "leaked"]
    /\ UNCHANGED <<data, lock, probing, loop, queue, seen, looks, failures>>

-----------------------------------------------------------------------------
(* The loop, and time.                                                     *)

Round ==
    /\ loop.at = "sleep" /\ loop.left = 0
    /\ IF Fresh(Loop) THEN LoopGoesOn /\ UNCHANGED lock
       ELSE loop' = [loop EXCEPT !.at = "get"] /\ lock' = Append(lock, Loop)
    /\ UNCHANGED <<data, probing, listener, queue, seen, looks, failures>>

Tick ==
    /\ data.age < Interval \/ loop.left > 0
    /\ data' = [data EXCEPT !.age = IF @ < Interval THEN @ + 1 ELSE @]
    /\ loop' = [loop EXCEPT !.left = IF @ > 0 THEN @ - 1 ELSE 0]
    /\ UNCHANGED <<lock, probing, listener, queue, seen, looks, failures>>

Next ==
    \/ Enter \/ ProbeEnds \/ ProbeFails \/ Round \/ Tick
    \/ \E k \in Lookers : Look(k)
    \/ \E l \in Listeners : Events(l) \/ EventsOnce(l) \/ Send(l) \/ Leave(l)

\* The event loop runs what is ready, and a probe is bounded by its time-outs.
Fairness == WF_hubVars(Enter) /\ WF_hubVars(ProbeEnds) /\ WF_hubVars(Round) /\ WF_hubVars(Tick)

-----------------------------------------------------------------------------
(* Properties.                                                             *)

\* Every stream ends up with the snapshot everybody else has: the last in its queue is the hub's
\* last, those in it follow each other without a gap, and if there is none it was sent
\* (_publish, subscribe).
NewestComesLast ==
    data.no # None =>
        \A l \in Subscribed :
            IF queue[l] = <<>> THEN seen[l] = data.no
            ELSE /\ Last(queue[l]) = data.no
                 /\ Len(queue[l]) = Held => (queue[l][1] + 1) % Numbers = data.no

\* However many find the snapshot too old at once, the systems are probed once: a probe begins
\* only when the last good one is half an interval old (get).
BurstCostsOneProbe ==
    [][probing' /\ ~probing => data.no = None \/ data.age >= Interval \div 2]_hubVars

\* Whoever listens gets the next snapshot, whatever a snapshot failed on, and the loop rests when
\* nobody listens any more (_loop, ensure_loop).
LoopServesListeners ==
    /\ \A l \in Listeners : listener[l] = "on" ~> (queue[l] # <<>> \/ listener[l] # "on")
    /\ Subscribed = {} ~> (loop.at = "none" \/ Subscribed # {})
=============================================================================
