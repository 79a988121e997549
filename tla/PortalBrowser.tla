---------------------------- MODULE PortalBrowser ----------------------------
(***************************************************************************)
(* The browser that the accountants sign in to the tax portal with         *)
(* (agents/eta-browser): one Chromium window for all, in which GET         *)
(* /collect and POST /ingest walk the pages of the list on screen, while   *)
(* /goto, /click and the person at the window may take it elsewhere.       *)
(* What the rows handed over become is in EtaDocuments.                    *)
(*                                                                         *)
(* A list is a number of pages and a page one row, [list, page]; what the  *)
(* window shows changes some time after the click.                         *)
(***************************************************************************)
EXTENDS Naturals, Sequences, SequencesExt

CONSTANTS
    Walks,        \* the calls that walk the pages
    Lists,        \* lists of the portal, each with its number of pages
    Requested,    \* the pages a caller may ask for
    MOST_PAGES,   \* however many it asks for
    MaxMoves      \* bound: how often somebody takes the window elsewhere

PagesAssumption ==
    /\ \A l \in DOMAIN Lists : Lists[l] \in Nat \ {0}
    /\ Requested \subseteq Nat /\ MOST_PAGES \in Nat \ {0} /\ MaxMoves \in Nat

VARIABLES
    control,  \* whether the portal draws a "next" beside the numbers of the pages
    shown,    \* the page in the window
    coming,   \* the page that is being loaded, or the one shown
    walk,     \* each call's walk
    moves     \* bound

browserVars == <<control, shown, coming, walk, moves>>

\* first, and quiet while nobody else moves the window and every page comes in time: history.
AtRest == [at |-> "rest", n |-> 0, limit |-> 0, out |-> <<>>, first |-> <<>>, quiet |-> FALSE]

Init ==
    /\ control \in BOOLEAN
    /\ shown \in {[list |-> l, page |-> 1] : l \in DOMAIN Lists} /\ coming = shown
    /\ walk = [w \in Walks |-> AtRest]
    /\ moves = 0

Loading == coming # shown

\* The window moves under every walk but one.
Disturb(but) == [w \in Walks |-> IF w = but THEN walk[w] ELSE [walk[w] EXCEPT !.quiet = FALSE]]

-----------------------------------------------------------------------------
(* The portal and the people.                                              *)

PageLoads ==
    /\ Loading
    /\ shown' = coming
    /\ UNCHANGED <<control, coming, walk, moves>>

\* /goto, /click and the person at the window: another page, or another list.
WindowMoves ==
    /\ moves < MaxMoves /\ moves' = moves + 1
    /\ \E l \in DOMAIN Lists : \E p \in 1 .. Lists[l] :
          /\ coming' = [list |-> l, page |-> p] /\ coming' # coming
    /\ walk' = [w \in Walks |-> [walk[w] EXCEPT !.quiet = FALSE]]
    /\ UNCHANGED <<control, shown>>

-----------------------------------------------------------------------------
(* A walk.                                                                 *)

Smaller(a, b) == IF a < b THEN a ELSE b

Start(w) ==
    /\ walk[w] = AtRest
    /\ \E pages \in Requested :
          walk' = [walk EXCEPT ![w] = [at |-> "read", n |-> 1, out |-> <<>>, first |-> shown, quiet |-> ~Loading,
                                       limit |-> IF Smaller(pages, MOST_PAGES) > 1
                                                 THEN Smaller(pages, MOST_PAGES) ELSE 1]]
    /\ UNCHANGED <<control, shown, coming, moves>>

\* The rows that the script reads off the window, whichever of its ways finds them: those of the
\* page that is shown, also while another is being loaded.
Row == shown

Fresh(s) == Row \notin Range(s.out)
WithPage(s) == IF Fresh(s) THEN Append(s.out, Row) ELSE s.out

End(w, s) == walk' = [walk EXCEPT ![w] = [s EXCEPT !.at = "done"]]

\* A page without a fresh row is the end, except for the first.
Read(w) ==
    /\ walk[w].at = "read"
    /\ LET s == walk[w]
           t == [s EXCEPT !.out = WithPage(s)]
       IN  IF ~Fresh(s) /\ s.n > 1 THEN End(w, t)
           ELSE walk' = [walk EXCEPT ![w] = [t EXCEPT !.at = "next"]]
    /\ UNCHANGED <<control, shown, coming, moves>>

\* The link of the page after n, where n counts the pages read.
NextByCount(n) == IF n + 1 <= Lists[shown.list] THEN n + 1 ELSE 0

\* The "next" of the page on screen; without one, and on the last page where it is disabled, the
\* link whose number follows the pages read.  0 when there is nothing to click.
NextPage(n) == IF control /\ shown.page < Lists[shown.list] THEN shown.page + 1 ELSE NextByCount(n)

Click(w) ==
    /\ walk[w].at = "next"
    /\ LET s == walk[w]
           p == NextPage(s.n)
       IN  IF p = 0 THEN End(w, s) /\ UNCHANGED coming
           ELSE /\ coming' = [shown EXCEPT !.page = p]
                /\ walk' = [Disturb(w) EXCEPT ![w].at = "wait"]
    /\ UNCHANGED <<control, shown, moves>>

\* The range of n runs one short.
WaitedOff(w) ==
    /\ walk[w].at = "wait"
    /\ LET s == [walk[w] EXCEPT !.quiet = @ /\ ~Loading]
       IN  IF s.n + 1 >= s.limit THEN End(w, s)
           ELSE walk' = [walk EXCEPT ![w] = [s EXCEPT !.at = "read", !.n = @ + 1]]
    /\ UNCHANGED <<control, shown, coming, moves>>

\* Two and a half seconds, whether the page came or not.
Waited(w) ==
    /\ walk[w].at = "wait"
    /\ LET s == [walk[w] EXCEPT !.quiet = @ /\ ~Loading]
       IN  IF s.n >= s.limit THEN End(w, s)
           ELSE walk' = [walk EXCEPT ![w] = [s EXCEPT !.at = "read", !.n = @ + 1]]
    /\ UNCHANGED <<control, shown, coming, moves>>

\* The rows are handed over.
Return(w) ==
    /\ walk[w].at = "done"
    /\ walk' = [walk EXCEPT ![w] = AtRest]
    /\ UNCHANGED <<control, shown, coming, moves>>

Next == PageLoads \/ WindowMoves \/ \E w \in Walks : Start(w) \/ Read(w) \/ Click(w) \/ Waited(w) \/ Return(w)

Spec == Init /\ [][Next]_browserVars

-----------------------------------------------------------------------------
(* Properties.                                                             *)

\* The pages of a list from one of them on, as many as a caller gets.
From(first, limit) == [i \in 1 .. Smaller(limit, Lists[first.list] - first.page + 1)
                         |-> [first EXCEPT !.page = first.page + i - 1]]

\* A walk that nobody disturbed, whose pages all came in time, has every page of the list once and
\* in order, up to the limit, if it began on the first.  If it began on a later page, and the
\* portal draws a "next", it has the pages from there on, and may go back to earlier ones after
\* the last.  No walk hands anything in twice (collect).
QuietWalkIsComplete ==
    \A w \in Walks :
        LET s == walk[w]
        IN  /\ IsInjective(s.out)
            /\ s.at = "done" /\ s.quiet =>
                  /\ s.first.page = 1 => s.out = From(s.first, s.limit)
                  /\ control => IsPrefix(From(s.first, s.limit), s.out)

-----------------------------------------------------------------------------
(* What the walks do not keep.                                             *)

\* Not kept: a walk that began on a later page ends with the last one.  There the script takes the
\* link whose number follows the pages read, which is an earlier page (_NEXT_JS).
QuietWalkEndsWithTheList ==
    \A w \in Walks :
        LET s == walk[w] IN s.at = "done" /\ s.quiet /\ control => s.out = From(s.first, s.limit)
=============================================================================
