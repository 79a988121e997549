----------------------------- MODULE EventRelay -----------------------------
(***************************************************************************)
(* What the hub promises of the events of its cameras: of what happened at *)
(* a device each event is told at most once, in the order it happened, and *)
(* the log keeps the last Kept of them.  Nothing is promised to arrive.    *)
(***************************************************************************)
EXTENDS Naturals, Sequences

CONSTANTS Devices, Kept

VARIABLES
    happened,   \* how many events each device has had
    log,        \* what the hub tells, oldest first: [device, no]
    told        \* the number of each device's last event that was told

relay == <<happened, log, told>>

Init ==
    /\ happened = [d \in Devices |-> 0]
    /\ log = <<>>
    /\ told = [d \in Devices |-> 0]

Happen(d) == happened' = [happened EXCEPT ![d] = @ + 1] /\ UNCHANGED <<log, told>>

\* The number of the last of the news of a device.
Last(news, d, before) ==
    LET mine == {i \in DOMAIN news : news[i].device = d}
    IN  IF mine = {} THEN before ELSE news[CHOOSE i \in mine : \A j \in mine : j <= i].no

\* News of events that were not told yet, each device's in their order.
Fresh(news) ==
    \A i \in DOMAIN news :
        /\ news[i].no \in told[news[i].device] + 1 .. happened[news[i].device]
        /\ \A j \in 1 .. i - 1 : news[j].device = news[i].device => news[j].no < news[i].no

\* The oldest make room, and only when there is none.
Tell ==
    /\ \E gone \in 0 .. Len(log) :
          LET kept == SubSeq(log, gone + 1, Len(log))
              news == SubSeq(log', Len(kept) + 1, Len(log'))
          IN  /\ Len(kept) <= Len(log') /\ SubSeq(log', 1, Len(kept)) = kept
              /\ gone > 0 => Len(log') = Kept
              /\ Fresh(news)
              /\ told' = [d \in Devices |-> Last(news, d, told[d])]
    /\ UNCHANGED happened

Next == Tell \/ \E d \in Devices : Happen(d)

Spec == Init /\ [][Next]_relay
=============================================================================
