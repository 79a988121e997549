--------------------------- MODULE ServicesProofs ---------------------------
(***************************************************************************)
(* What holds of the seven services at every size: the walks of the        *)
(* portal's browser, the live board, the limiter, the file of keys, the    *)
(* comparison and the figures of the ledger, the workflow of supplier      *)
(* invoices and the guard of the legal counsel.                            *)
(*                                                                         *)
(* Each has an inductive invariant of its own (WindowInv, BoardInv,        *)
(* TableInv, FileInv, LedgerInv, WorkflowInv, CounselInv), one lemma a     *)
(* step, and a theorem at the end.  The services share nothing, so a step  *)
(* of one is a stutter of the others (WindowSteps and those like it).      *)
(* What a definition by recursion or CHOOSE returns is shown by a least    *)
(* counterexample (LeastOf).                                               *)
(***************************************************************************)
EXTENDS MCServices, FiniteSetTheorems, SequenceTheorems, WellFoundedInduction, TLAPS

\* A set of numbers that is not empty has a least one.
LEMMA LeastOf ==
  ASSUME NEW T \in SUBSET Nat, T # {}
  PROVE  \E x \in T : \A y \in T : x <= y
<1>1. PICK x \in T : \A y \in T : <<y, x>> \notin OpToRel(<, Nat)
  BY NatLessThanWellFounded, WFMin
<1>2. ASSUME NEW y \in T PROVE x <= y
  <2>1. ~(y < x)
    BY <1>1 DEF OpToRel
  <2> QED BY <2>1
<1> QED BY <1>2

\* A set of places of a sequence that is not empty has a last one.
LEMMA GreatestOf ==
  ASSUME NEW n \in Nat, NEW S \in SUBSET (1 .. n), S # {}
  PROVE  \E x \in S : \A y \in S : y <= x
<1> DEFINE T == {n - i : i \in S}
<1>1. T \in SUBSET Nat
  OBVIOUS
<1>2. T # {}
  <2>1. PICK i \in S : TRUE
    OBVIOUS
  <2>2. n - i \in T
    BY <2>1
  <2> QED BY <2>2
<1> HIDE DEF T
<1>3. PICK k \in T : \A y \in T : k <= y
  BY <1>1, <1>2, LeastOf
<1>4. PICK x \in S : k = n - x
  BY DEF T
<1>5. \A y \in S : n - x <= n - y
  BY <1>3, <1>4 DEF T
<1> QED BY <1>5

-----------------------------------------------------------------------------
(* The walks of the portal's pages.                                        *)

\* A step of the seven is one of the browser or leaves it alone; so of each of the others below.
LEMMA WindowSteps == [Next]_allVars => [Browser!Next]_window_
<1>1. Next /\ part = "browser" => Browser!Next
  BY DEF Next
<1>2. Next /\ part # "browser" => UNCHANGED window_
  BY DEF Next, Others
<1>3. UNCHANGED allVars => UNCHANGED window_
  BY DEF allVars, window_
<1> QED BY <1>1, <1>2, <1>3

\* What is assumed of the lists.
LEMMA WindowBounds == /\ \A l \in DOMAIN Lists : Lists[l] \in Nat \ {0}
                      /\ Requested \subseteq Nat /\ MOST_PAGES \in Nat \ {0}
<1>1. Browser!PagesAssumption
  BY BoundsAssumption
<1>2. (\A l \in DOMAIN Lists : Lists[l] \in Nat \ {0}) /\ Requested \subseteq Nat
  BY <1>1 DEF Browser!PagesAssumption
<1>3. MOST_PAGES \in Nat \ {0}
  BY <1>1 DEF Browser!PagesAssumption
<1> QED BY <1>2, <1>3

\* The pages there are, and the states of a walk.
Pages == {p \in [list : DOMAIN Lists, page : Nat \ {0}] : p.page <= Lists[p.list]}
WalkStates == [at : {"rest", "read", "next", "wait", "done"}, n : Nat, limit : Nat, out : Seq(Pages),
               first : Pages \cup {<<>>}, quiet : BOOLEAN]

\* The page that is so many after one of its list, and the pages from that one on.
After(first, i) == [list |-> first.list, page |-> first.page + i]
Upto(first, n) == [i \in 1 .. n |-> After(first, i - 1)]

\* A walk that has gone past the last page has the list from where it began.
Past(s) == s.first \in Pages /\ \E n \in Nat : /\ Browser!From(s.first, s.limit) = Upto(s.first, n)
                                              /\ n <= Len(s.out) /\ \A i \in 1 .. n : s.out[i] = After(s.first, i - 1)

\* A quiet walk whose way is known: it has not gone past the last page.
OnItsWay(drawn, s) == s.quiet /\ (drawn \/ s.first.page = 1) /\ ~(s.first.page # 1 /\ Past(s))

\* What a walk that is on its way has read, and where the window is.
Going(drawn, here, next, s) ==
    OnItsWay(drawn, s) =>
        /\ s.first \in Pages /\ s.n \in 1 .. s.limit /\ s.first.page + s.n - 1 <= Lists[s.first.list]
        /\ s.at # "rest"
        /\ s.at \in {"read", "next"} => here = After(s.first, s.n - 1) /\ next = here
        /\ s.at = "wait" => next = After(s.first, s.n) /\ s.first.page + s.n <= Lists[s.first.list]
        /\ s.at = "read" => s.out = Upto(s.first, s.n - 1)
        /\ s.at \in {"next", "wait"} => s.out = Upto(s.first, s.n)
        /\ s.at = "done" => s.out = Browser!From(s.first, s.limit)

\* No page twice.
Once(out) == \A i, j \in DOMAIN out : out[i] = out[j] => i = j

\* The inductive invariant of the browser.
WindowInv ==
    /\ control \in BOOLEAN /\ shown \in Pages /\ coming \in Pages /\ walk \in [Walks -> WalkStates]
    /\ \A w \in Walks : Going(control, shown, coming, walk[w]) /\ Once(walk[w].out)

\* The list of pages a caller gets ends with the limit or with the last page.
LEMMA FromIsUpto ==
  ASSUME NEW first \in Pages, NEW limit \in Nat, NEW n \in Nat,
         \/ n = limit /\ first.page + n - 1 <= Lists[first.list]
         \/ n <= limit /\ first.page + n - 1 = Lists[first.list]
  PROVE  Browser!From(first, limit) = Upto(first, n)
<1>1. first.page \in Nat \ {0} /\ first.list \in DOMAIN Lists /\ Lists[first.list] \in Nat
  BY WindowBounds DEF Pages
<1>2. Browser!Smaller(limit, Lists[first.list] - first.page + 1) = n
  BY <1>1 DEF Browser!Smaller
<1>3. \A i \in 1 .. n : [first EXCEPT !.page = first.page + i - 1] = After(first, i - 1)
  BY <1>1 DEF Pages, After
<1> QED BY <1>2, <1>3 DEF Browser!From, Upto

\* The page after those read is another one.
LEMMA OneMorePage ==
  ASSUME NEW first \in Pages, NEW n \in Nat \ {0}, first.page + n - 1 <= Lists[first.list]
  PROVE  /\ Append(Upto(first, n - 1), After(first, n - 1)) = Upto(first, n)
         /\ After(first, n - 1) \in Pages
         /\ After(first, n - 1) \notin Browser!Range(Upto(first, n - 1))
<1>1. first.page \in Nat \ {0} /\ first.list \in DOMAIN Lists /\ Lists[first.list] \in Nat
  BY WindowBounds DEF Pages
<1>2. \A i \in 0 .. n - 1 : After(first, i) \in Pages
  BY <1>1 DEF After, Pages
<1>3. Upto(first, n - 1) \in Seq(Pages) /\ Len(Upto(first, n - 1)) = n - 1
  <2>1. Upto(first, n - 1) \in [1 .. n - 1 -> Pages]
    BY <1>2 DEF Upto
  <2> QED BY <2>1
<1>4. \A i \in 1 .. n - 1 : Upto(first, n - 1)[i] = After(first, i - 1)
  BY DEF Upto
<1>5. Append(Upto(first, n - 1), After(first, n - 1)) = Upto(first, n)
  <2>1. Append(Upto(first, n - 1), After(first, n - 1))
          = [i \in 1 .. n |-> IF i \in 1 .. n - 1 THEN Upto(first, n - 1)[i] ELSE After(first, n - 1)]
    BY <1>3
  <2>2. \A i \in 1 .. n : (IF i \in 1 .. n - 1 THEN Upto(first, n - 1)[i] ELSE After(first, n - 1)) = After(first, i - 1)
    BY <1>4
  <2> QED BY <2>1, <2>2 DEF Upto
<1>6. After(first, n - 1) \notin Browser!Range(Upto(first, n - 1))
  <2>1. \A i \in 1 .. n - 1 : After(first, i - 1) # After(first, n - 1)
    BY <1>1 DEF After
  <2>2. DOMAIN Upto(first, n - 1) = 1 .. n - 1
    BY DEF Upto
  <2> QED BY <1>4, <2>1, <2>2 DEF Browser!Range
<1> QED BY <1>2, <1>5, <1>6

\* A walk that has gone past the last page stays there, whatever it adds.
LEMMA PastStays ==
  ASSUME NEW s \in WalkStates, NEW t \in WalkStates, t.first = s.first, t.limit = s.limit, t.quiet => s.quiet,
         Len(s.out) <= Len(t.out), \A i \in 1 .. Len(s.out) : t.out[i] = s.out[i]
  PROVE  (Past(s) => Past(t)) /\ \A drawn : OnItsWay(drawn, t) => OnItsWay(drawn, s)
<1>1. Past(s) => Past(t)
  <2> SUFFICES ASSUME Past(s) PROVE Past(t)
    OBVIOUS
  <2>1. PICK n \in Nat : /\ Browser!From(s.first, s.limit) = Upto(s.first, n)
                        /\ n <= Len(s.out) /\ \A i \in 1 .. n : s.out[i] = After(s.first, i - 1)
    BY DEF Past
  <2>2. Len(s.out) \in Nat /\ Len(t.out) \in Nat
    BY DEF WalkStates
  <2>3. n <= Len(t.out) /\ \A i \in 1 .. n : t.out[i] = After(t.first, i - 1)
    BY <2>1, <2>2
  <2>4. Browser!From(t.first, t.limit) = Upto(t.first, n)
    BY <2>1
  <2>5. t.first \in Pages
    BY DEF Past
  <2> QED BY <2>3, <2>4, <2>5 DEF Past
<1> QED BY <1>1 DEF OnItsWay

\* One walk goes on, the window stands.
LEMMA WalkStepKeeps ==
  ASSUME WindowInv, NEW w \in Walks, NEW t \in WalkStates, walk' = [walk EXCEPT ![w] = t],
         UNCHANGED <<control, shown, coming>>, Going(control, shown, coming, t), Once(t.out)
  PROVE  WindowInv'
<1>1. walk' \in [Walks -> WalkStates] /\ walk'[w] = t /\ \A v \in Walks \ {w} : walk'[v] = walk[v]
  BY DEF WindowInv
<1>2. \A v \in Walks : Going(control, shown, coming, walk'[v]) /\ Once(walk'[v].out)
  <2> TAKE v \in Walks
  <2>1. CASE v = w
    BY <1>1, <2>1
  <2>2. CASE v # w
    BY <1>1, <2>2 DEF WindowInv
  <2> QED BY <2>1, <2>2
<1>3. \A v \in Walks : Going(control', shown', coming', walk'[v]) /\ Once(walk'[v].out)
  BY <1>2
<1> QED BY <1>1, <1>3 DEF WindowInv

\* Start: the walk begins with the page that is shown.
LEMMA StartKeeps ==
  ASSUME WindowInv, NEW w \in Walks, Browser!Start(w)
  PROVE  WindowInv'
<1>1. UNCHANGED <<control, shown, coming>>
  BY DEF Browser!Start
<1>2. PICK pages \in Requested :
        walk' = [walk EXCEPT ![w] = [at |-> "read", n |-> 1, out |-> <<>>, first |-> shown, quiet |-> ~Browser!Loading,
                                     limit |-> IF Browser!Smaller(pages, MOST_PAGES) > 1
                                               THEN Browser!Smaller(pages, MOST_PAGES) ELSE 1]]
  BY DEF Browser!Start
<1> DEFINE limit == IF Browser!Smaller(pages, MOST_PAGES) > 1 THEN Browser!Smaller(pages, MOST_PAGES) ELSE 1
           t == [at |-> "read", n |-> 1, out |-> <<>>, first |-> shown, quiet |-> ~Browser!Loading, limit |-> limit]
<1>3. limit \in Nat \ {0}
  <2>1. pages \in Nat /\ MOST_PAGES \in Nat
    BY WindowBounds
  <2> QED BY <2>1 DEF Browser!Smaller
<1>4. walk' = [walk EXCEPT ![w] = t]
  BY <1>2
<1> HIDE DEF limit
<1>5. t \in WalkStates /\ Once(t.out)
  BY <1>3, EmptySeq DEF WindowInv, WalkStates, Once
<1>6. Going(control, shown, coming, t)
  <2>1. shown = After(shown, 0) /\ Upto(shown, 0) = <<>> /\ shown.page <= Lists[shown.list] /\ shown.page \in Nat
    BY DEF WindowInv, Pages, After, Upto
  <2>2. t.at = "read" /\ t.n = 1 /\ t.out = <<>> /\ t.first = shown /\ t.limit = limit
    OBVIOUS
  <2>3. t.quiet => coming = shown
    BY DEF Browser!Loading
  <2> HIDE DEF t
  <2> QED BY <1>3, <2>1, <2>2, <2>3 DEF WindowInv, Going, OnItsWay
<1> HIDE DEF t
<1> QED BY <1>1, <1>4, <1>5, <1>6, WalkStepKeeps

\* Read: the page is handed in unless it was before.
LEMMA ReadKeeps ==
  ASSUME WindowInv, NEW w \in Walks, Browser!Read(w)
  PROVE  WindowInv'
<1>1. UNCHANGED <<control, shown, coming>> /\ walk[w].at = "read"
  BY DEF Browser!Read
<1>2. PICK s \in WalkStates : s = walk[w] /\ Going(control, shown, coming, s) /\ Once(s.out)
  BY DEF WindowInv
<1> DEFINE t == [s EXCEPT !.out = Browser!WithPage(s)]
           u == IF ~Browser!Fresh(s) /\ s.n > 1 THEN [t EXCEPT !.at = "done"] ELSE [t EXCEPT !.at = "next"]
<1>3. walk' = [walk EXCEPT ![w] = u]
  BY <1>2 DEF Browser!Read, Browser!End
<1>4. shown \in Pages /\ s.out \in Seq(Pages) /\ s.at = "read"
  BY <1>1, <1>2 DEF WindowInv, WalkStates
<1>5. Browser!WithPage(s) \in Seq(Pages) /\ Once(Browser!WithPage(s))
  <2>1. CASE Browser!Fresh(s)
    <3>1. Browser!WithPage(s) = Append(s.out, shown)
      BY <2>1 DEF Browser!WithPage, Browser!Row
    <3>2. \A i \in DOMAIN s.out : s.out[i] # shown
      BY <2>1 DEF Browser!Fresh, Browser!Range, Browser!Row
    <3>3. /\ DOMAIN s.out = 1 .. Len(s.out) /\ Len(s.out) \in Nat
          /\ DOMAIN Append(s.out, shown) = 1 .. Len(s.out) + 1
          /\ Append(s.out, shown)[Len(s.out) + 1] = shown
          /\ \A i \in 1 .. Len(s.out) : Append(s.out, shown)[i] = s.out[i]
      BY <1>4, LenProperties
    <3>4. Once(Append(s.out, shown))
      BY <1>2, <3>2, <3>3 DEF Once
    <3> QED BY <1>4, <3>1, <3>4, AppendProperties
  <2>2. CASE ~Browser!Fresh(s)
    BY <1>2, <1>4, <2>2 DEF Browser!WithPage, Browser!Row
  <2> QED BY <2>1, <2>2
<1>6. /\ u \in WalkStates /\ u.out = Browser!WithPage(s) /\ u.n = s.n /\ u.limit = s.limit /\ u.first = s.first
      /\ u.quiet = s.quiet
      /\ ~(~Browser!Fresh(s) /\ s.n > 1) => u.at = "next"
  BY <1>2, <1>5 DEF WalkStates
<1>7. Going(control, shown, coming, u)
  <2>a. Len(s.out) <= Len(u.out) /\ \A i \in 1 .. Len(s.out) : u.out[i] = s.out[i]
    BY <1>4, <1>6, AppendProperties DEF Browser!WithPage, Browser!Row
  <2> SUFFICES ASSUME OnItsWay(control, s)
               PROVE  Going(control, shown, coming, u)
    <3> HIDE DEF u
    <3> QED BY <1>6, <2>a, PastStays DEF Going
  <2>1. /\ s.first \in Pages /\ s.n \in 1 .. s.limit /\ s.first.page + s.n - 1 <= Lists[s.first.list]
        /\ shown = After(s.first, s.n - 1) /\ coming = shown /\ s.out = Upto(s.first, s.n - 1)
    BY <1>2, <1>4 DEF Going
  <2>2. s.n \in Nat \ {0}
    BY <2>1, <1>2 DEF WalkStates
  <2>3. Browser!Fresh(s) /\ Append(s.out, shown) = Upto(s.first, s.n)
    BY <2>1, <2>2, OneMorePage DEF Browser!Fresh, Browser!Row
  <2>4. u.at = "next" /\ u.out = Upto(s.first, s.n)
    BY <1>6, <2>3 DEF Browser!WithPage, Browser!Row
  <2> QED BY <1>6, <2>1, <2>4 DEF Going
<1> HIDE DEF u
<1> QED BY <1>1, <1>3, <1>5, <1>6, <1>7, WalkStepKeeps

\* Click: the window goes to the page after the one on screen, or the walk is over.
LEMMA ClickKeeps ==
  ASSUME WindowInv, NEW w \in Walks, Browser!Click(w)
  PROVE  WindowInv'
<1>1. UNCHANGED <<control, shown>> /\ walk[w].at = "next"
  BY DEF Browser!Click
<1>2. PICK s \in WalkStates : s = walk[w] /\ Going(control, shown, coming, s) /\ Once(s.out)
  BY DEF WindowInv
<1> DEFINE p == Browser!NextPage(s.n)
<1>3. IF p = 0 THEN walk' = [walk EXCEPT ![w] = [s EXCEPT !.at = "done"]] /\ UNCHANGED coming
      ELSE coming' = [shown EXCEPT !.page = p] /\ walk' = [Browser!Disturb(w) EXCEPT ![w].at = "wait"]
  BY <1>2 DEF Browser!Click, Browser!End
<1>4. /\ shown.page \in Nat \ {0} /\ shown.list \in DOMAIN Lists /\ Lists[shown.list] \in Nat \ {0}
      /\ shown = [list |-> shown.list, page |-> shown.page] /\ shown.page <= Lists[shown.list] /\ s.n \in Nat
      /\ s.at = "next" /\ control \in BOOLEAN
  BY <1>1, <1>2, WindowBounds DEF WindowInv, Pages, WalkStates
<1>5. p = IF control /\ shown.page < Lists[shown.list] THEN shown.page + 1
          ELSE IF s.n + 1 <= Lists[shown.list] THEN s.n + 1 ELSE 0
  BY DEF Browser!NextPage, Browser!NextByCount
<1> HIDE DEF p
<1>6. OnItsWay(control, s) =>
        /\ s.first \in Pages /\ s.n \in 1 .. s.limit /\ s.limit \in Nat /\ s.n <= s.limit
        /\ s.first.page \in Nat /\ s.first.list = shown.list
        /\ s.first.page + s.n - 1 <= Lists[s.first.list] /\ shown.page = s.first.page + s.n - 1
        /\ s.out = Upto(s.first, s.n)
        /\ p # 0 => \/ p = s.first.page + s.n /\ s.first.page + s.n <= Lists[s.first.list]
                    \/ s.first.page # 1 /\ s.first.page + s.n - 1 = Lists[s.first.list]
        /\ p = 0 => s.first.page + s.n - 1 = Lists[s.first.list]
  <2> SUFFICES ASSUME OnItsWay(control, s)
               PROVE  /\ s.first \in Pages /\ s.n \in 1 .. s.limit /\ s.limit \in Nat /\ s.n <= s.limit
                      /\ s.first.page \in Nat /\ s.first.list = shown.list
                      /\ s.first.page + s.n - 1 <= Lists[s.first.list] /\ shown.page = s.first.page + s.n - 1
                      /\ s.out = Upto(s.first, s.n)
                      /\ p # 0 => \/ p = s.first.page + s.n /\ s.first.page + s.n <= Lists[s.first.list]
                                  \/ s.first.page # 1 /\ s.first.page + s.n - 1 = Lists[s.first.list]
                      /\ p = 0 => s.first.page + s.n - 1 = Lists[s.first.list]
    OBVIOUS
  <2>1. /\ s.first \in Pages /\ s.n \in 1 .. s.limit /\ s.first.page + s.n - 1 <= Lists[s.first.list]
        /\ shown = After(s.first, s.n - 1) /\ s.out = Upto(s.first, s.n)
    BY <1>2, <1>4 DEF Going
  <2>2. s.limit \in Nat /\ s.first.page \in Nat
    BY <2>1 DEF WalkStates, Pages
  <2>3. shown.list = s.first.list /\ shown.page = s.first.page + s.n - 1
    BY <1>4, <2>1, <2>2 DEF After
  <2>4. control \/ s.first.page = 1
    BY DEF OnItsWay
  <2> QED BY <1>4, <1>5, <2>1, <2>2, <2>3, <2>4
<1>7. CASE p = 0
  <2> DEFINE t == [s EXCEPT !.at = "done"]
  <2>1. /\ t \in WalkStates /\ t.at = "done" /\ t.out = s.out /\ t.first = s.first /\ t.n = s.n /\ t.limit = s.limit
        /\ t.quiet = s.quiet
    BY <1>2 DEF WalkStates
  <2>2. Once(t.out)
    BY <1>2, <2>1
  <2>3. Going(control, shown, coming, t)
    <3> SUFFICES ASSUME OnItsWay(control, s)
                 PROVE  Going(control, shown, coming, t)
      <4>1. OnItsWay(control, t) => OnItsWay(control, s)
        BY <2>1 DEF OnItsWay, Past
      <4> QED BY <4>1 DEF Going
    <3>1. Browser!From(s.first, s.limit) = Upto(s.first, s.n)
      BY <1>4, <1>6, <1>7, FromIsUpto
    <3> QED BY <1>6, <2>1, <3>1 DEF Going
  <2> HIDE DEF t
  <2>4. walk' = [walk EXCEPT ![w] = t] /\ UNCHANGED coming
    BY <1>3, <1>7 DEF t
  <2> QED BY <1>1, <2>1, <2>2, <2>3, <2>4, WalkStepKeeps
<1>8. CASE p # 0
  <2> DEFINE t == [s EXCEPT !.at = "wait"]
  <2>1. /\ t \in WalkStates /\ t.at = "wait" /\ t.out = s.out /\ t.first = s.first /\ t.n = s.n /\ t.limit = s.limit
        /\ t.quiet = s.quiet
    BY <1>2 DEF WalkStates
  <2>2. Browser!Disturb(w) \in [Walks -> WalkStates] /\ Browser!Disturb(w)[w] = s
        /\ \A v \in Walks \ {w} : Browser!Disturb(w)[v] = [walk[v] EXCEPT !.quiet = FALSE]
    BY <1>2 DEF Browser!Disturb, WindowInv, WalkStates
  <2>3. walk' = [Browser!Disturb(w) EXCEPT ![w] = t]
    BY <1>3, <1>8, <2>2
  <2>4. walk' \in [Walks -> WalkStates] /\ walk'[w] = t
        /\ \A v \in Walks \ {w} : walk'[v] = [walk[v] EXCEPT !.quiet = FALSE]
    <3> HIDE DEF t
    <3> QED BY <2>1, <2>2, <2>3
  <2>5. coming' = [list |-> shown.list, page |-> p] /\ coming' \in Pages
    <3>1. p \in Nat \ {0} /\ p <= Lists[shown.list]
      BY <1>4, <1>5, <1>8
    <3>2. coming' = [list |-> shown.list, page |-> p]
      BY <1>3, <1>4, <1>8
    <3> QED BY <1>4, <3>1, <3>2 DEF Pages
  <2>6. Going(control', shown', coming', t)
    <3> SUFFICES ASSUME OnItsWay(control, s), ~(s.first.page # 1 /\ Past(t))
                 PROVE  Going(control', shown', coming', t)
      <4>1. OnItsWay(control, t) => OnItsWay(control, s) /\ ~(s.first.page # 1 /\ Past(t))
        BY <2>1 DEF OnItsWay, Past
      <4> QED BY <1>1, <4>1 DEF Going
    <3>1. ~(s.first.page # 1 /\ s.first.page + s.n - 1 = Lists[s.first.list])
      <4> SUFFICES ASSUME s.first.page # 1, s.first.page + s.n - 1 = Lists[s.first.list]
                   PROVE  Past(t)
        OBVIOUS
      <4>1. Browser!From(s.first, s.limit) = Upto(s.first, s.n)
        BY <1>4, <1>6, FromIsUpto
      <4>2. s.n <= Len(s.out) /\ \A i \in 1 .. s.n : s.out[i] = After(s.first, i - 1)
        <5>1. s.out = Upto(s.first, s.n)
          BY <1>6
        <5>2. DOMAIN s.out = 1 .. Len(s.out) /\ Len(s.out) \in Nat
          BY <1>2, LenProperties DEF WalkStates
        <5>3. DOMAIN s.out = 1 .. s.n /\ \A i \in 1 .. s.n : s.out[i] = After(s.first, i - 1)
          BY <5>1 DEF Upto
        <5> QED BY <1>4, <5>2, <5>3
      <4>3. s.first \in Pages
        BY <1>6
      <4> QED BY <1>4, <2>1, <4>1, <4>2, <4>3 DEF Past
    <3>2. coming' = After(s.first, s.n) /\ s.first.page + s.n <= Lists[s.first.list]
      BY <1>6, <1>8, <2>5, <3>1 DEF After
    <3> QED BY <1>6, <1>8, <2>1, <3>2 DEF Going
  <2> HIDE DEF t
  <2>7. \A v \in Walks : Going(control', shown', coming', walk'[v]) /\ Once(walk'[v].out)
    <3> TAKE v \in Walks
    <3>1. CASE v = w
      BY <1>2, <2>1, <2>4, <2>6, <3>1
    <3>2. CASE v # w
      <4>1. walk[v] \in WalkStates /\ Once(walk[v].out)
        BY DEF WindowInv
      <4>2. ~walk'[v].quiet /\ walk'[v].out = walk[v].out
        <5>1. PICK r \in WalkStates : r = walk[v]
          BY <4>1
        <5>2. walk'[v] = [r EXCEPT !.quiet = FALSE]
          BY <2>4, <3>2, <5>1
        <5>3. ~[r EXCEPT !.quiet = FALSE].quiet /\ [r EXCEPT !.quiet = FALSE].out = r.out
          BY DEF WalkStates
        <5> QED BY <5>1, <5>2, <5>3
      <4> QED BY <4>1, <4>2 DEF Going, OnItsWay
    <3> QED BY <3>1, <3>2
  <2> QED BY <1>1, <2>4, <2>5, <2>7 DEF WindowInv
<1> QED BY <1>7, <1>8

\* Waited: the page has come, or the walk is no longer quiet.
LEMMA WaitedKeeps ==
  ASSUME WindowInv, NEW w \in Walks, Browser!Waited(w)
  PROVE  WindowInv'
<1>1. UNCHANGED <<control, shown, coming>> /\ walk[w].at = "wait"
  BY DEF Browser!Waited
<1>2. PICK old \in WalkStates : old = walk[w] /\ Going(control, shown, coming, old) /\ Once(old.out)
  BY DEF WindowInv
<1> DEFINE s == [old EXCEPT !.quiet = old.quiet /\ ~Browser!Loading]
           t == IF s.n >= s.limit THEN [s EXCEPT !.at = "done"] ELSE [s EXCEPT !.at = "read", !.n = s.n + 1]
<1>3. walk' = [walk EXCEPT ![w] = t]
  BY <1>2 DEF Browser!Waited, Browser!End
<1>4. /\ s \in WalkStates /\ s.at = "wait" /\ s.n = old.n /\ s.limit = old.limit /\ s.out = old.out /\ s.first = old.first
      /\ s.quiet => old.quiet /\ coming = shown
  BY <1>1, <1>2 DEF WalkStates, Browser!Loading
<1> HIDE DEF s
<1>5. /\ t \in WalkStates /\ t.limit = s.limit /\ t.out = s.out /\ t.first = s.first /\ t.quiet = s.quiet
      /\ IF s.n >= s.limit THEN t.at = "done" /\ t.n = s.n ELSE t.at = "read" /\ t.n = s.n + 1
  <2>1. s.n + 1 \in Nat
    BY <1>4 DEF WalkStates
  <2>2. CASE s.n >= s.limit
    <3>1. t = [s EXCEPT !.at = "done"]
      BY <2>2
    <3> HIDE DEF t
    <3> QED BY <1>4, <2>2, <3>1 DEF WalkStates
  <2>3. CASE ~(s.n >= s.limit)
    <3>1. t = [s EXCEPT !.at = "read", !.n = s.n + 1]
      BY <2>3
    <3> HIDE DEF t
    <3> QED BY <1>4, <2>1, <2>3, <3>1 DEF WalkStates
  <2> QED BY <2>2, <2>3
<1> HIDE DEF t
<1>6. Going(control, shown, coming, t)
  <2> SUFFICES ASSUME OnItsWay(control, s)
               PROVE  Going(control, shown, coming, t)
    <3>1. OnItsWay(control, t) => OnItsWay(control, s)
      BY <1>5 DEF OnItsWay, Past
    <3> QED BY <3>1 DEF Going
  <2>a. OnItsWay(control, old) /\ coming = shown
    BY <1>4 DEF OnItsWay, Past
  <2>1. /\ s.first \in Pages /\ s.n \in 1 .. s.limit /\ s.first.page + s.n <= Lists[s.first.list]
        /\ shown = After(s.first, s.n) /\ coming = shown /\ s.out = Upto(s.first, s.n)
    BY <1>1, <1>2, <1>4, <2>a DEF Going
  <2>2. /\ s.limit \in Nat /\ s.n \in Nat /\ s.first.page \in Nat /\ s.first.list \in DOMAIN Lists
        /\ Lists[s.first.list] \in Nat
    BY <1>4, <2>1, WindowBounds DEF WalkStates, Pages
  <2>3. CASE s.n >= s.limit
    <3>1. s.n = s.limit /\ s.first.page + s.n - 1 <= Lists[s.first.list]
      BY <2>1, <2>2, <2>3
    <3>2. Browser!From(s.first, s.limit) = Upto(s.first, s.n)
      <4>1. s.first \in Pages /\ s.limit \in Nat /\ s.n \in Nat
        BY <2>1, <2>2
      <4> QED BY <3>1, <4>1, FromIsUpto
    <3> QED BY <1>5, <2>1, <2>3, <3>1, <3>2 DEF Going
  <2>4. CASE ~(s.n >= s.limit)
    <3>1. t.n \in 1 .. t.limit /\ t.first.page + t.n - 1 <= Lists[t.first.list] /\ t.n - 1 = s.n
      BY <1>5, <2>1, <2>2, <2>4
    <3> QED BY <1>5, <2>1, <2>4, <3>1 DEF Going
  <2> QED BY <2>3, <2>4
<1>7. Once(t.out)
  BY <1>2, <1>4, <1>5
<1> QED BY <1>1, <1>3, <1>5, <1>6, <1>7, WalkStepKeeps

\* Return: the walk is at rest.
LEMMA ReturnKeeps ==
  ASSUME WindowInv, NEW w \in Walks, Browser!Return(w)
  PROVE  WindowInv'
<1>1. walk' = [walk EXCEPT ![w] = Browser!AtRest] /\ UNCHANGED <<control, shown, coming>>
  BY DEF Browser!Return
<1>2. /\ Browser!AtRest \in WalkStates /\ Once(Browser!AtRest.out) /\ Going(control, shown, coming, Browser!AtRest)
  BY EmptySeq DEF Browser!AtRest, WalkStates, Once, Going, OnItsWay
<1> QED BY <1>1, <1>2, WalkStepKeeps

\* PageLoads: no quiet walk reads or clicks while a page comes.
LEMMA PageLoadsKeeps ==
  ASSUME WindowInv, Browser!PageLoads
  PROVE  WindowInv'
<1>1. coming # shown /\ shown' = coming /\ UNCHANGED <<control, coming, walk>>
  BY DEF Browser!PageLoads, Browser!Loading
<1>2. ASSUME NEW w \in Walks PROVE Going(control, coming, coming, walk[w]) /\ Once(walk[w].out)
  <2>1. PICK s : s = walk[w] /\ Going(control, shown, coming, s) /\ Once(s.out)
    BY DEF WindowInv
  <2>2. Going(control, coming, coming, s)
    BY <1>1, <2>1 DEF Going
  <2> QED BY <2>1, <2>2
<1>3. \A w \in Walks : Going(control', shown', coming', walk'[w]) /\ Once(walk'[w].out)
  BY <1>1, <1>2
<1> QED BY <1>1, <1>3 DEF WindowInv

\* WindowMoves: no walk is quiet then.
LEMMA WindowMovesKeeps ==
  ASSUME WindowInv, Browser!WindowMoves
  PROVE  WindowInv'
<1>1. /\ walk' = [w \in Walks |-> [walk[w] EXCEPT !.quiet = FALSE]] /\ UNCHANGED <<control, shown>>
      /\ \E l \in DOMAIN Lists : \E p \in 1 .. Lists[l] : coming' = [list |-> l, page |-> p]
  BY DEF Browser!WindowMoves
<1>2. coming' \in Pages
  <2>1. PICK l \in DOMAIN Lists : \E p \in 1 .. Lists[l] : coming' = [list |-> l, page |-> p]
    BY <1>1
  <2>2. PICK p \in 1 .. Lists[l] : coming' = [list |-> l, page |-> p]
    BY <2>1
  <2>3. Lists[l] \in Nat
    BY WindowBounds
  <2> QED BY <2>2, <2>3 DEF Pages
<1>3. ASSUME NEW w \in Walks
      PROVE  walk'[w] \in WalkStates /\ Going(control', shown', coming', walk'[w]) /\ Once(walk'[w].out)
  <2>1. PICK s \in WalkStates : s = walk[w] /\ Once(s.out)
    BY DEF WindowInv
  <2> DEFINE t == [s EXCEPT !.quiet = FALSE]
  <2>2. t \in WalkStates /\ ~t.quiet /\ t.out = s.out
    BY <2>1 DEF WalkStates
  <2>3. walk'[w] = t
    BY <1>1, <2>1
  <2> HIDE DEF t
  <2>4. Going(control', shown', coming', t) /\ Once(t.out)
    BY <2>1, <2>2 DEF Going, OnItsWay
  <2> QED BY <2>2, <2>3, <2>4
<1>4. walk' \in [Walks -> WalkStates]
  BY <1>1, <1>3
<1> QED BY <1>1, <1>2, <1>3, <1>4 DEF WindowInv

\* A walk of the portal's pages that nobody disturbs hands over every page from the first once and in
\* order, one that begins on a later page of a portal with a "next" has those from there on before any
\* other, and no walk hands anything in twice (collect of the browser agent), for any lists, limits and
\* number of walks.
THEOREM QuietWalksAreComplete == Spec => []QuietWalkIsComplete
<1>1. Init => WindowInv
  <2> SUFFICES ASSUME Browser!Init PROVE WindowInv
    BY DEF Init
  <2>1. control \in BOOLEAN /\ coming = shown /\ walk = [w \in Walks |-> Browser!AtRest]
    BY DEF Browser!Init
  <2>2. shown \in Pages
    BY WindowBounds DEF Browser!Init, Pages
  <2>3. /\ Browser!AtRest \in WalkStates /\ Once(Browser!AtRest.out) /\ Going(control, shown, coming, Browser!AtRest)
    BY EmptySeq DEF Browser!AtRest, WalkStates, Once, Going, OnItsWay
  <2> QED BY <2>1, <2>2, <2>3 DEF WindowInv
<1>2. WindowInv /\ [Next]_allVars => WindowInv'
  <2> SUFFICES ASSUME WindowInv, [Browser!Next]_window_ PROVE WindowInv'
    BY WindowSteps
  <2>1. CASE Browser!Next
    BY <2>1, PageLoadsKeeps, WindowMovesKeeps, StartKeeps, ReadKeeps, ClickKeeps, WaitedKeeps, ReturnKeeps DEF Browser!Next
  <2>2. CASE UNCHANGED window_
    BY <2>2 DEF window_, WindowInv
  <2> QED BY <2>1, <2>2
<1>3. WindowInv => QuietWalkIsComplete
  <2> SUFFICES ASSUME WindowInv, NEW w \in Walks
               PROVE  LET s == walk[w]
                      IN  /\ Browser!IsInjective(s.out)
                          /\ s.at = "done" /\ s.quiet =>
                                /\ s.first.page = 1 => s.out = Browser!From(s.first, s.limit)
                                /\ control => Browser!IsPrefix(Browser!From(s.first, s.limit), s.out)
    BY DEF QuietWalkIsComplete, Browser!QuietWalkIsComplete
  <2>1. PICK s \in WalkStates : s = walk[w] /\ Going(control, shown, coming, s) /\ Once(s.out)
    BY DEF WindowInv
  <2>2. s.at = "done" /\ s.quiet /\ s.first.page = 1 => s.out = Browser!From(s.first, s.limit)
    BY <2>1 DEF Going, OnItsWay
  <2>3. ASSUME s.at = "done", s.quiet, control
        PROVE  Browser!IsPrefix(Browser!From(s.first, s.limit), s.out)
    <3>1. CASE Past(s)
      <4>1. PICK n \in Nat : /\ Browser!From(s.first, s.limit) = Upto(s.first, n)
                            /\ n <= Len(s.out) /\ \A i \in 1 .. n : s.out[i] = After(s.first, i - 1)
        BY <3>1 DEF Past
      <4>2. Len(Upto(s.first, n)) = n /\ \A i \in 1 .. n : Upto(s.first, n)[i] = After(s.first, i - 1)
        BY DEF Upto
      <4>3. SubSeq(Upto(s.first, n), 1, n) = SubSeq(s.out, 1, n)
        <5>1. [i \in 1 .. n |-> Upto(s.first, n)[i]] = [i \in 1 .. n |-> s.out[i]]
          BY <4>1, <4>2
        <5> QED BY <5>1
      <4> QED BY <4>1, <4>2, <4>3 DEF Browser!IsPrefix
    <3>2. CASE ~Past(s)
      <4>1. s.out = Browser!From(s.first, s.limit)
        BY <2>1, <2>3, <3>2 DEF Going, OnItsWay
      <4>2. Len(s.out) \in Nat
        BY DEF WalkStates
      <4> QED BY <4>1, <4>2 DEF Browser!IsPrefix
    <3> QED BY <3>1, <3>2
  <2> QED BY <2>1, <2>2, <2>3 DEF Once, Browser!IsInjective
<1> QED BY <1>1, <1>2, <1>3, PTL DEF Spec

-----------------------------------------------------------------------------
(* The live board.                                                         *)

\* As WindowSteps, of the board.
LEMMA BoardSteps == [Next]_allVars => [Hub!Next]_board_
<1>1. Next /\ part = "hub" => Hub!Next
  BY DEF Next
<1>2. Next /\ part # "hub" => UNCHANGED board_
  BY DEF Next, Others
<1>3. UNCHANGED allVars => UNCHANGED board_
  BY DEF allVars, board_
<1> QED BY <1>1, <1>2, <1>3

\* What is assumed of the board.
LEMMA BoardBounds == Numbers \in Nat \ {0} /\ Hub!Loop \notin Listeners /\ Listeners \cap Lookers = {}
  BY BoundsAssumption DEF Hub!BoardAssumption

\* Who looks at the board: the streams, the readers and the loop; and the snapshots.
People == Listeners \cup Lookers \cup {Hub!Loop}
Snapshots == 0 .. Numbers - 1

\* The types of the board.
BoardTyped ==
    /\ data \in [no : 0 .. Numbers, age : Nat]
    /\ lock \in Seq(People) /\ probing \in BOOLEAN
    /\ listener \in [Listeners -> {"away", "asking", "once", "on", "left", "leaked"}]
    /\ queue \in [Listeners -> Seq(Snapshots)] /\ \A l \in Listeners : Len(queue[l]) <= 2
    /\ seen \in [Listeners -> 0 .. Numbers]

\* Who probes is there, and a stream that waits for its one event stands in the queue of the lock once.
LockInOrder ==
    /\ probing => lock # <<>>
    /\ \A i \in 1 .. Len(lock) : lock[i] \in Listeners => listener[lock[i]] = "asking"
    /\ \A i, j \in 1 .. Len(lock) : lock[i] = lock[j] /\ lock[i] \in Listeners => i = j

\* A stream's queue ends with the snapshot no, after the one before.
Follows(q, s, no) ==
    IF q = <<>> THEN s = no
    ELSE q[Len(q)] = no /\ (Len(q) = 2 => (q[1] + 1) % Numbers = no)

\* Every stream that is subscribed is on its way to the newest snapshot.
QueuesFollow == \A l \in Hub!Subscribed : IF data.no = Numbers THEN queue[l] = <<>> ELSE Follows(queue[l], seen[l], data.no)

\* The inductive invariant of the board.
BoardInv == BoardTyped /\ LockInOrder /\ QueuesFollow

\* A queue holds two at most.
LEMMA UpToTwo == ASSUME NEW n \in Nat, n <= 2 PROVE n = 0 \/ n = 1 \/ n = 2
  OBVIOUS

\* Such a queue, written out.
LEMMA ShortSequence ==
  ASSUME NEW S, NEW q \in Seq(S), Len(q) <= 2
  PROVE  \/ q = <<>> /\ Len(q) = 0
         \/ q # <<>> /\ Len(q) = 1 /\ Head(q) = q[1] /\ q[1] \in S /\ Tail(q) = <<>>
         \/ /\ q # <<>> /\ Len(q) = 2 /\ Head(q) = q[1] /\ q[1] \in S
            /\ Tail(q) # <<>> /\ Tail(q) \in Seq(S) /\ Len(Tail(q)) = 1 /\ Tail(q)[1] = q[2]
<1>1. Len(q) \in Nat
  BY LenProperties
<1>2. Len(q) = 0 \/ Len(q) = 1 \/ Len(q) = 2
  BY <1>1, UpToTwo
<1>3. Len(q) = 0 <=> q = <<>>
  BY EmptySeq
<1>4. CASE Len(q) = 0
  BY <1>3, <1>4
<1>5. ASSUME q # <<>>
      PROVE  /\ Head(q) = q[1] /\ Tail(q) \in Seq(S) /\ Len(Tail(q)) = Len(q) - 1
             /\ \A i \in 1 .. Len(Tail(q)) : Tail(q)[i] = q[i + 1]
  BY <1>5, HeadTailProperties
<1>6. \A i \in 1 .. Len(q) : q[i] \in S
  BY ElementOfSeq
<1>7. \A t \in Seq(S) : Len(t) = 0 <=> t = <<>>
  BY EmptySeq
<1>8. CASE Len(q) = 1
  <2>1. q # <<>> /\ 1 \in 1 .. Len(q)
    BY <1>3, <1>8
  <2>2. Len(Tail(q)) = 0 /\ Tail(q) \in Seq(S)
    BY <1>5, <1>8, <2>1
  <2> QED BY <1>5, <1>6, <1>7, <1>8, <2>1, <2>2
<1>9. CASE Len(q) = 2
  <2>1. q # <<>> /\ 1 \in 1 .. Len(q)
    BY <1>3, <1>9
  <2>2. Len(Tail(q)) = 1 /\ Tail(q) \in Seq(S) /\ 1 \in 1 .. Len(Tail(q))
    BY <1>5, <1>9, <2>1
  <2>3. Tail(q)[1] = q[2]
    <3>1. \A i \in 1 .. 1 : Tail(q)[i] = q[i + 1]
      BY <1>5, <2>1, <2>2
    <3>2. 1 \in 1 .. 1 /\ 1 + 1 = 2
      OBVIOUS
    <3> QED BY <3>1, <3>2
  <2>4. Tail(q) # <<>>
    <3>1. Len(Tail(q)) # 0
      BY <2>2
    <3> QED BY <1>7, <2>2, <3>1
  <2> QED BY <1>5, <1>6, <1>9, <2>1, <2>2, <2>3, <2>4
<1> QED BY <1>2, <1>4, <1>8, <1>9

\* publish: what a stream's queue is when one more snapshot comes.
LEMMA PublishedFollows ==
  ASSUME NEW q \in Seq(Snapshots), Len(q) <= 2, NEW no \in Snapshots, NEW s,
         NEW last \in 0 .. Numbers,
         IF last = Numbers THEN q = <<>> ELSE Follows(q, s, last) /\ no = (last + 1) % Numbers,
         NEW r
  PROVE  LET p == Hub!Published(q, no)
         IN  p \in Seq(Snapshots) /\ Len(p) <= 2 /\ Follows(p, r, no)
<1> DEFINE kept == IF Len(q) = 2 THEN Tail(q) ELSE q
           p == Append(kept, no)
<1>1. \/ q = <<>> /\ Len(q) = 0
      \/ q # <<>> /\ Len(q) = 1 /\ q[1] \in Snapshots
      \/ q # <<>> /\ Len(q) = 2 /\ Tail(q) \in Seq(Snapshots) /\ Len(Tail(q)) = 1 /\ Tail(q)[1] = q[2]
  BY ShortSequence
<1>2. /\ kept \in Seq(Snapshots) /\ (Len(kept) = 0 \/ Len(kept) = 1)
      /\ Len(kept) = 1 => kept[1] = last /\ last # Numbers
  <2>1. CASE q = <<>> /\ Len(q) = 0
    BY <2>1
  <2>2. CASE q # <<>> /\ Len(q) = 1
    BY <2>2 DEF Follows
  <2>3. CASE q # <<>> /\ Len(q) = 2 /\ Tail(q) \in Seq(Snapshots) /\ Len(Tail(q)) = 1 /\ Tail(q)[1] = q[2]
    BY <2>3 DEF Follows
  <2> QED BY <1>1, <2>1, <2>2, <2>3
<1> HIDE DEF kept
<1>3. /\ p \in Seq(Snapshots) /\ Len(p) = Len(kept) + 1 /\ p[Len(kept) + 1] = no
      /\ Len(kept) = 1 => p[1] = kept[1]
  BY <1>2, AppendProperties
<1>4. p # <<>>
  BY <1>2, <1>3, EmptySeq
<1>5. Follows(p, r, no)
  BY <1>2, <1>3, <1>4 DEF Follows
<1>6. Hub!Published(q, no) = p
  BY DEF Hub!Published, Hub!Held, kept
<1> QED BY <1>2, <1>3, <1>5, <1>6

\* The head of the lock leaves it.
LEMMA LockRest ==
  ASSUME BoardTyped, LockInOrder, lock # <<>>
  PROVE  /\ Head(lock) = lock[1] /\ Head(lock) \in People
         /\ Head(lock) \in Listeners => listener[Head(lock)] = "asking"
         /\ Tail(lock) \in Seq(People) /\ Len(lock) \in Nat \ {0} /\ Len(Tail(lock)) = Len(lock) - 1
         /\ \A i \in 1 .. Len(Tail(lock)) : /\ i + 1 \in 1 .. Len(lock) /\ Tail(lock)[i] = lock[i + 1]
                                            /\ lock[i + 1] \in Listeners => Tail(lock)[i] # Head(lock)
<1>1. lock \in Seq(People)
  BY DEF BoardTyped
<1>2. /\ Head(lock) = lock[1] /\ Len(lock) \in Nat \ {0} 
      /\ Tail(lock) \in Seq(People) /\ Len(Tail(lock)) = Len(lock) - 1
      /\ \A i \in 1 .. Len(Tail(lock)) : Tail(lock)[i] = lock[i + 1]
  BY <1>1, HeadTailProperties, EmptySeq, LenProperties
<1>3. 1 \in 1 .. Len(lock) /\ lock[1] \in People
  BY <1>1, <1>2, ElementOfSeq
<1> QED BY <1>2, <1>3 DEF LockInOrder

\* The head of the lock is gone, its stream begun or leaked; nobody else is served.
LEMMA HeadServed ==
  ASSUME BoardTyped, LockInOrder, lock # <<>>, lock' = Tail(lock), probing' = FALSE,
         NEW to \in {"once", "leaked"},
         listener' = IF Head(lock) \in Listeners THEN [listener EXCEPT ![Head(lock)] = to] ELSE listener
  PROVE  /\ lock' \in Seq(People) /\ probing' \in BOOLEAN
         /\ listener' \in [Listeners -> {"away", "asking", "once", "on", "left", "leaked"}]
         /\ LockInOrder' /\ Hub!Subscribed' = Hub!Subscribed
<1>1. listener' \in [Listeners -> {"away", "asking", "once", "on", "left", "leaked"}]
  BY DEF BoardTyped
<1>2. \A l \in Listeners : l # Head(lock) => listener'[l] = listener[l]
  BY DEF BoardTyped
<1>3. Hub!Subscribed' = Hub!Subscribed
  <2>1. \A l \in Listeners : listener'[l] = listener[l] \/ (listener'[l] \in {"once", "leaked"} /\ listener[l] = "asking")
    BY LockRest DEF BoardTyped
  <2> QED BY <2>1 DEF Hub!Subscribed
<1>4. LockInOrder'
  <2>1. \A i \in 1 .. Len(lock') : lock'[i] \in Listeners => listener'[lock'[i]] = "asking"
    BY <1>2, LockRest DEF LockInOrder
  <2>2. \A i, j \in 1 .. Len(lock') : lock'[i] = lock'[j] /\ lock'[i] \in Listeners => i = j
    <3> SUFFICES ASSUME NEW i \in 1 .. Len(lock'), NEW j \in 1 .. Len(lock'), lock'[i] = lock'[j], lock'[i] \in Listeners
                 PROVE  i = j
      OBVIOUS
    <3>1. /\ i + 1 \in 1 .. Len(lock) /\ j + 1 \in 1 .. Len(lock) /\ lock[i + 1] = lock[j + 1]
          /\ lock[i + 1] \in Listeners
      BY LockRest
    <3>2. i + 1 = j + 1
      BY <3>1 DEF LockInOrder
    <3> QED BY <3>2, LockRest
  <2> QED BY <2>1, <2>2 DEF LockInOrder
<1> QED BY <1>1, <1>3, <1>4, LockRest

\* Somebody comes to the lock who is not in it, or whose place in it does not matter.
LEMMA Queued ==
  ASSUME BoardTyped, LockInOrder, NEW t \in People, lock' = Append(lock, t), probing' = probing,
         t \in Listeners => listener[t] = "away" /\ listener' = [listener EXCEPT ![t] = "asking"],
         t \notin Listeners => listener' = listener
  PROVE  lock' \in Seq(People) /\ LockInOrder'
<1>1. lock \in Seq(People) /\ Len(lock) \in Nat
  BY LenProperties DEF BoardTyped
<1>2. /\ lock' \in Seq(People) /\ Len(lock') = Len(lock) + 1
      /\ \A i \in 1 .. Len(lock) : lock'[i] = lock[i]
      /\ lock'[Len(lock) + 1] = t
  BY <1>1, AppendProperties
<1>3. \A i \in 1 .. Len(lock) : lock[i] \in Listeners => lock[i] # t
  BY DEF LockInOrder
<1>4. \A l \in Listeners : listener'[l] = IF l = t THEN "asking" ELSE listener[l]
  BY DEF BoardTyped
<1>5. \A i \in 1 .. Len(lock') : i \in 1 .. Len(lock) \/ i = Len(lock) + 1
  BY <1>1, <1>2
<1>6. \A i \in 1 .. Len(lock') : lock'[i] \in Listeners => listener'[lock'[i]] = "asking"
  BY <1>2, <1>3, <1>4, <1>5 DEF LockInOrder
<1>7. \A i, j \in 1 .. Len(lock') : lock'[i] = lock'[j] /\ lock'[i] \in Listeners => i = j
  BY <1>2, <1>3, <1>5 DEF LockInOrder
<1>8. lock' # <<>>
  BY <1>1, <1>2, EmptySeq
<1> QED BY <1>2, <1>6, <1>7, <1>8 DEF LockInOrder

\* Nobody but streams that come changes who is subscribed; the rest of the board stands.
LEMMA BoardQuiet ==
  ASSUME BoardInv, UNCHANGED <<data, lock, probing, listener, queue, seen>>
  PROVE  BoardInv'
<1>1. BoardTyped'
  BY DEF BoardInv, BoardTyped
<1>2. LockInOrder'
  BY DEF BoardInv, LockInOrder
<1>3. QueuesFollow'
  BY DEF BoardInv, QueuesFollow, Hub!Subscribed
<1> QED BY <1>1, <1>2, <1>3 DEF BoardInv

\* Enter: who has the lock looks at the age of the snapshot, or begins to probe.
LEMMA EnterKeeps == ASSUME BoardInv, Hub!Enter PROVE BoardInv'
<1>1. /\ lock # <<>> /\ ~probing
      /\ UNCHANGED <<data, queue, seen>>
  BY DEF Hub!Enter
<1>2. CASE Hub!Fresh(Head(lock))
  <2>1. /\ lock' = Tail(lock) /\ probing' = FALSE
        /\ listener' = IF Head(lock) \in Listeners THEN [listener EXCEPT ![Head(lock)] = "once"] ELSE listener
    BY <1>1, <1>2 DEF Hub!Enter, Hub!Returns, BoardInv, BoardTyped
  <2>2. /\ lock' \in Seq(People) /\ probing' \in BOOLEAN
        /\ listener' \in [Listeners -> {"away", "asking", "once", "on", "left", "leaked"}]
        /\ LockInOrder' /\ Hub!Subscribed' = Hub!Subscribed
    BY <1>1, <2>1, HeadServed DEF BoardInv
  <2> QED BY <1>1, <2>2 DEF BoardInv, BoardTyped, QueuesFollow
<1>3. CASE ~Hub!Fresh(Head(lock))
  <2>1. probing' = TRUE /\ UNCHANGED <<lock, listener>>
    BY <1>3 DEF Hub!Enter
  <2>2. LockInOrder'
    BY <1>1, <2>1 DEF BoardInv, LockInOrder
  <2>3. QueuesFollow'
    BY <1>1, <2>1 DEF BoardInv, QueuesFollow, Hub!Subscribed
  <2> QED BY <1>1, <2>1, <2>2, <2>3 DEF BoardInv, BoardTyped
<1> QED BY <1>2, <1>3

\* ProbeEnds: the snapshot is replaced and goes to all queues at once.
LEMMA ProbeEndsKeeps == ASSUME BoardInv, Hub!ProbeEnds PROVE BoardInv'
<1> DEFINE no == IF data.no = Numbers THEN 0 ELSE (data.no + 1) % Numbers
<1>1. /\ probing /\ lock # <<>> /\ probing' = FALSE /\ lock' = Tail(lock)
      /\ data' = [no |-> no, age |-> 0]
      /\ queue' = [l \in Listeners |-> IF l \in Hub!Subscribed THEN Hub!Published(queue[l], no) ELSE queue[l]]
      /\ listener' = IF Head(lock) \in Listeners THEN [listener EXCEPT ![Head(lock)] = "once"] ELSE listener
      /\ seen' = seen
  BY DEF Hub!ProbeEnds, Hub!Snapshot, Hub!Returns, Hub!None, BoardInv, LockInOrder
<1>2. no \in Snapshots /\ no # Numbers /\ (data.no # Numbers => no = (data.no + 1) % Numbers)
  BY BoardBounds DEF Snapshots, BoardInv, BoardTyped
<1>3. data'.no = no /\ data'.age = 0
  BY <1>1
<1> HIDE DEF no
<1>4. /\ lock' \in Seq(People) /\ probing' \in BOOLEAN
      /\ listener' \in [Listeners -> {"away", "asking", "once", "on", "left", "leaked"}]
      /\ LockInOrder' /\ Hub!Subscribed' = Hub!Subscribed
  BY <1>1, HeadServed DEF BoardInv
<1>5. ASSUME NEW l \in Listeners
      PROVE  /\ queue'[l] \in Seq(Snapshots) /\ Len(queue'[l]) <= 2
             /\ l \in Hub!Subscribed => Follows(queue'[l], seen[l], no)
  <2>1. queue[l] \in Seq(Snapshots) /\ Len(queue[l]) <= 2 /\ data.no \in 0 .. Numbers
    BY DEF BoardInv, BoardTyped
  <2>2. CASE l \in Hub!Subscribed
    <3>1. IF data.no = Numbers THEN queue[l] = <<>>
          ELSE Follows(queue[l], seen[l], data.no) /\ no = (data.no + 1) % Numbers
      BY <1>2, <2>2 DEF BoardInv, QueuesFollow
    <3>2. queue'[l] = Hub!Published(queue[l], no)
      BY <1>1, <2>2
    <3> QED BY <1>2, <2>1, <3>1, <3>2, PublishedFollows
  <2>3. CASE l \notin Hub!Subscribed
    BY <1>1, <2>1, <2>3
  <2> QED BY <2>2, <2>3
<1>6. queue' \in [Listeners -> Seq(Snapshots)] /\ \A l \in Listeners : Len(queue'[l]) <= 2
  BY <1>1, <1>5
<1>7. BoardTyped'
  <2>1. no \in 0 .. Numbers
    BY <1>2, BoardBounds DEF Snapshots
  <2>2. data' \in [no : 0 .. Numbers, age : Nat]
    BY <1>1, <2>1
  <2> QED BY <1>1, <1>4, <1>6, <2>2 DEF BoardInv, BoardTyped
<1>8. Hub!Subscribed \subseteq Listeners
  BY DEF Hub!Subscribed
<1>9. QueuesFollow'
  BY <1>1, <1>2, <1>3, <1>4, <1>5, <1>8 DEF QueuesFollow
<1> QED BY <1>4, <1>7, <1>9 DEF BoardInv

\* ProbeFails: the lock is given back and nobody is told.
LEMMA ProbeFailsKeeps == ASSUME BoardInv, Hub!ProbeFails PROVE BoardInv'
<1>1. /\ lock # <<>> /\ probing' = FALSE /\ lock' = Tail(lock)
      /\ UNCHANGED <<data, queue, seen>>
      /\ listener' = IF Head(lock) \in Listeners THEN [listener EXCEPT ![Head(lock)] = "leaked"] ELSE listener
  BY DEF Hub!ProbeFails, Hub!Raises, BoardInv, LockInOrder
<1>2. /\ lock' \in Seq(People) /\ probing' \in BOOLEAN
      /\ listener' \in [Listeners -> {"away", "asking", "once", "on", "left", "leaked"}]
      /\ LockInOrder' /\ Hub!Subscribed' = Hub!Subscribed
  BY <1>1, HeadServed DEF BoardInv
<1> QED BY <1>1, <1>2 DEF BoardInv, BoardTyped, QueuesFollow

\* Look: a reader takes the snapshot or waits for the lock.
LEMMA LookKeeps == ASSUME BoardInv, NEW k \in Lookers, Hub!Look(k) PROVE BoardInv'
<1>1. k \in People /\ k \notin Listeners
  BY BoardBounds DEF People
<1>2. listener' = listener /\ UNCHANGED <<data, probing, queue, seen>>
  BY <1>1 DEF Hub!Look, Hub!Get, Hub!Returns
<1>3. lock' = lock \/ lock' = Append(lock, k)
  BY DEF Hub!Look, Hub!Get
<1>4. CASE lock' = lock
  BY <1>2, <1>4, BoardQuiet
<1>5. CASE lock' = Append(lock, k)
  <2>1. lock' \in Seq(People) /\ LockInOrder'
    BY <1>1, <1>2, <1>5, Queued DEF BoardInv
  <2> QED BY <1>2, <2>1 DEF BoardInv, BoardTyped, QueuesFollow, Hub!Subscribed
<1> QED BY <1>3, <1>4, <1>5

\* Round: so does the loop.
LEMMA RoundKeeps == ASSUME BoardInv, Hub!Round PROVE BoardInv'
<1>1. Hub!Loop \in People /\ Hub!Loop \notin Listeners
  BY BoardBounds DEF People
<1>2. UNCHANGED <<data, probing, listener, queue, seen>> /\ (lock' = lock \/ lock' = Append(lock, Hub!Loop))
  BY DEF Hub!Round
<1>3. CASE lock' = lock
  BY <1>2, <1>3, BoardQuiet
<1>4. CASE lock' = Append(lock, Hub!Loop)
  <2>1. lock' \in Seq(People) /\ LockInOrder'
    BY <1>1, <1>2, <1>4, Queued DEF BoardInv
  <2> QED BY <1>2, <2>1 DEF BoardInv, BoardTyped, QueuesFollow, Hub!Subscribed
<1> QED BY <1>2, <1>3, <1>4

\* A stream begins with the last snapshot there is.
LEMMA BeginningFollows ==
  ASSUME BoardInv, NEW l \in Listeners, Hub!Begins(l), NEW to \in {"asking", "once", "on"},
         listener' = [listener EXCEPT ![l] = to], UNCHANGED <<data, seen>>
  PROVE  /\ queue' \in [Listeners -> Seq(Snapshots)] /\ \A k \in Listeners : Len(queue'[k]) <= 2
         /\ listener' \in [Listeners -> {"away", "asking", "once", "on", "left", "leaked"}]
         /\ QueuesFollow'
<1> DEFINE first == IF data.no = Numbers THEN <<>> ELSE <<data.no>>
<1>1. queue' = [queue EXCEPT ![l] = first] /\ listener[l] = "away"
  BY DEF Hub!Begins, Hub!None
<1>2. data.no \in 0 .. Numbers
  BY DEF BoardInv, BoardTyped
<1>3. first \in Seq(Snapshots) /\ Len(first) <= 2
  <2>1. CASE data.no = Numbers
    BY <2>1, EmptySeq
  <2>2. CASE data.no # Numbers
    <3>1. data.no \in Snapshots /\ first = <<data.no>>
      BY <1>2, <2>2, BoardBounds DEF Snapshots
    <3> QED BY <3>1
  <2> QED BY <2>1, <2>2
<1>4. IF data.no = Numbers THEN first = <<>> ELSE Follows(first, seen[l], data.no)
  BY <1>2 DEF Follows
<1> HIDE DEF first
<1>5. \A k \in Listeners : queue'[k] = IF k = l THEN first ELSE queue[k]
  BY <1>1 DEF BoardInv, BoardTyped
<1>6. queue' \in [Listeners -> Seq(Snapshots)]
  BY <1>1, <1>3 DEF BoardInv, BoardTyped
<1>7. \A k \in Listeners : Len(queue'[k]) <= 2
  BY <1>3, <1>5 DEF BoardInv, BoardTyped
<1>8. listener' \in [Listeners -> {"away", "asking", "once", "on", "left", "leaked"}]
  BY DEF BoardInv, BoardTyped
<1>9. \A k \in Hub!Subscribed' : k \in Listeners /\ (k = l \/ k \in Hub!Subscribed)
  BY DEF Hub!Subscribed, BoardInv, BoardTyped
<1>10. QueuesFollow'
  BY <1>4, <1>5, <1>9 DEF QueuesFollow, BoardInv
<1> QED BY <1>6, <1>7, <1>8, <1>10

\* Events, EventsOnce: a stream is opened.
LEMMA EventsKeeps == ASSUME BoardInv, NEW l \in Listeners, Hub!Events(l) \/ Hub!EventsOnce(l) PROVE BoardInv'
<1>1. Hub!Begins(l) /\ listener[l] = "away" /\ UNCHANGED <<data, probing, seen>>
  BY DEF Hub!Events, Hub!EventsOnce, Hub!Begins
<1>2. PICK to \in {"asking", "once", "on"} :
         /\ listener' = [listener EXCEPT ![l] = to]
         /\ IF to = "asking" THEN lock' = Append(lock, l) ELSE lock' = lock
  <2>1. CASE Hub!Events(l)
    BY <2>1 DEF Hub!Events
  <2>2. CASE Hub!EventsOnce(l)
    BY <2>2 DEF Hub!EventsOnce
  <2> QED BY <2>1, <2>2
<1>3. /\ queue' \in [Listeners -> Seq(Snapshots)] /\ \A k \in Listeners : Len(queue'[k]) <= 2
      /\ listener' \in [Listeners -> {"away", "asking", "once", "on", "left", "leaked"}]
      /\ QueuesFollow'
  BY <1>1, <1>2, BeginningFollows
<1>4. lock' \in Seq(People) /\ LockInOrder'
  <2>1. CASE to = "asking"
    <3>1. l \in People
      BY DEF People
    <3> QED BY <1>1, <1>2, <2>1, <3>1, Queued DEF BoardInv
  <2>2. CASE to # "asking"
    <3>1. lock' = lock /\ \A k \in Listeners : listener[k] = "asking" => listener'[k] = "asking"
      BY <1>1, <1>2, <2>2 DEF BoardInv, BoardTyped
    <3> QED BY <1>1, <3>1 DEF BoardInv, BoardTyped, LockInOrder
  <2> QED BY <2>1, <2>2
<1> QED BY <1>1, <1>3, <1>4 DEF BoardInv, BoardTyped

\* Send: a stream takes the first of its queue.
LEMMA SendKeeps == ASSUME BoardInv, NEW l \in Listeners, Hub!Send(l) PROVE BoardInv'
<1>1. /\ listener[l] \in {"on", "once"} /\ queue[l] # <<>>
      /\ seen' = [seen EXCEPT ![l] = Head(queue[l])]
      /\ queue' = [queue EXCEPT ![l] = Tail(queue[l])]
      /\ listener' = [listener EXCEPT ![l] = IF listener[l] = "once" THEN "left" ELSE listener[l]]
      /\ UNCHANGED <<data, lock, probing>>
  BY DEF Hub!Send
<1>2. queue[l] \in Seq(Snapshots) /\ Len(queue[l]) <= 2
  BY DEF BoardInv, BoardTyped
<1>3. /\ Head(queue[l]) = queue[l][1] /\ Head(queue[l]) \in Snapshots /\ Tail(queue[l]) \in Seq(Snapshots)
      /\ \/ Len(queue[l]) = 1 /\ Tail(queue[l]) = <<>> /\ Len(Tail(queue[l])) = 0
         \/ /\ Len(queue[l]) = 2 /\ Tail(queue[l]) # <<>>
            /\ Len(Tail(queue[l])) = 1 /\ Tail(queue[l])[1] = queue[l][2]
  BY <1>1, <1>2, ShortSequence, EmptySeq
<1>4. \A k \in Listeners : /\ queue'[k] = IF k = l THEN Tail(queue[l]) ELSE queue[k]
                           /\ seen'[k] = IF k = l THEN Head(queue[l]) ELSE seen[k]
  BY <1>1 DEF BoardInv, BoardTyped
<1>5. /\ listener' \in [Listeners -> {"away", "asking", "once", "on", "left", "leaked"}]
      /\ \A k \in Listeners : listener[k] = "asking" => listener'[k] = "asking"
  BY <1>1 DEF BoardInv, BoardTyped
<1>6. \A k \in Hub!Subscribed' : k \in Listeners /\ k \in Hub!Subscribed
  BY <1>1 DEF Hub!Subscribed, BoardInv, BoardTyped
<1>7. BoardTyped'
  <2>1. queue' \in [Listeners -> Seq(Snapshots)]
    BY <1>1, <1>3 DEF BoardInv, BoardTyped
  <2>2. \A k \in Listeners : Len(queue'[k]) <= 2
    <3>1. Len(Tail(queue[l])) <= 2 /\ \A k \in Listeners : Len(queue[k]) <= 2
      BY <1>3 DEF BoardInv, BoardTyped
    <3> QED BY <1>4, <3>1
  <2>3. seen' \in [Listeners -> 0 .. Numbers]
    <3>1. Head(queue[l]) \in 0 .. Numbers
      BY <1>3, BoardBounds DEF Snapshots
    <3> QED BY <1>1, <3>1 DEF BoardInv, BoardTyped
  <2> QED BY <1>1, <1>5, <2>1, <2>2, <2>3 DEF BoardInv, BoardTyped
<1>8. LockInOrder'
  BY <1>1, <1>5 DEF BoardInv, BoardTyped, LockInOrder
<1>9. QueuesFollow'
  <2> SUFFICES ASSUME NEW k \in Hub!Subscribed'
               PROVE  IF data.no = Numbers THEN queue'[k] = <<>> ELSE Follows(queue'[k], seen'[k], data.no)
    BY <1>1 DEF QueuesFollow
  <2>1. k \in Listeners /\ IF data.no = Numbers THEN queue[k] = <<>> ELSE Follows(queue[k], seen[k], data.no)
    BY <1>6 DEF BoardInv, QueuesFollow
  <2>2. CASE k # l
    BY <1>4, <2>1, <2>2
  <2>3. CASE k = l
    <3>1. data.no # Numbers /\ Follows(queue[l], seen[l], data.no)
      BY <1>1, <2>1, <2>3
    <3>2. queue[l][Len(queue[l])] = data.no
      BY <1>1, <3>1 DEF Follows
    <3>3. CASE Tail(queue[l]) = <<>> /\ Len(queue[l]) = 1
      BY <1>3, <1>4, <2>3, <3>1, <3>2, <3>3 DEF Follows
    <3>4. CASE /\ Len(queue[l]) = 2 /\ Tail(queue[l]) # <<>>
               /\ Len(Tail(queue[l])) = 1 /\ Tail(queue[l])[1] = queue[l][2]
      <4>1. Follows(Tail(queue[l]), seen'[l], data.no)
        BY <3>2, <3>4 DEF Follows
      <4> QED BY <1>4, <2>3, <3>1, <4>1
    <3> QED BY <1>3, <3>3, <3>4
  <2> QED BY <2>2, <2>3
<1> QED BY <1>7, <1>8, <1>9 DEF BoardInv

\* Leave: a stream is closed.
LEMMA LeaveKeeps == ASSUME BoardInv, NEW l \in Listeners, Hub!Leave(l) PROVE BoardInv'
<1>1. /\ listener[l] \in {"on", "once"} /\ UNCHANGED <<data, lock, probing, queue, seen>>
      /\ \E to \in {"left", "leaked"} : listener' = [listener EXCEPT ![l] = to]
  BY DEF Hub!Leave
<1>2. PICK to \in {"left", "leaked"} : listener' = [listener EXCEPT ![l] = to]
  BY <1>1
<1>3. /\ listener' \in [Listeners -> {"away", "asking", "once", "on", "left", "leaked"}]
      /\ \A k \in Listeners : listener[k] = "asking" => listener'[k] = "asking"
  BY <1>1, <1>2 DEF BoardInv, BoardTyped
<1>4. \A k \in Hub!Subscribed' : k \in Hub!Subscribed
  BY <1>1, <1>2 DEF Hub!Subscribed, BoardInv, BoardTyped
<1>5. LockInOrder'
  BY <1>1, <1>3 DEF BoardInv, BoardTyped, LockInOrder
<1>6. QueuesFollow'
  BY <1>1, <1>4 DEF BoardInv, QueuesFollow
<1> QED BY <1>1, <1>3, <1>5, <1>6 DEF BoardInv, BoardTyped

\* Tick: the snapshot grows old.
LEMMA TickKeeps == ASSUME BoardInv, Hub!Tick PROVE BoardInv'
<1>1. UNCHANGED <<lock, probing, listener, queue, seen>>
  BY DEF Hub!Tick
<1>2. data' = [data EXCEPT !.age = IF data.age < Hub!Interval THEN data.age + 1 ELSE data.age]
  BY DEF Hub!Tick
<1> DEFINE age == IF data.age < Hub!Interval THEN data.age + 1 ELSE data.age
<1>3. age \in Nat /\ data \in [no : 0 .. Numbers, age : Nat]
  BY DEF BoardInv, BoardTyped, Hub!Interval
<1>7. data' = [data EXCEPT !.age = age]
  BY <1>2
<1> HIDE DEF age
<1>4. data' \in [no : 0 .. Numbers, age : Nat] /\ data'.no = data.no
  BY <1>3, <1>7
<1>5. QueuesFollow'
  BY <1>1, <1>4 DEF BoardInv, QueuesFollow, Hub!Subscribed
<1>6. LockInOrder'
  BY <1>1 DEF BoardInv, LockInOrder
<1> QED BY <1>1, <1>4, <1>5, <1>6 DEF BoardInv, BoardTyped

\* The board at its start.
LEMMA BoardBegins == Init => BoardInv
<1> SUFFICES ASSUME Init PROVE BoardInv
  OBVIOUS
<1>1. Hub!Init
  BY DEF Init
<1>2. Len(<<>>) = 0 /\ <<>> \in Seq(Snapshots) /\ <<>> \in Seq(People)
  BY EmptySeq
<1>3. BoardTyped
  <2>1. data \in [no : 0 .. Numbers, age : Nat]
    BY <1>1, BoardBounds DEF Hub!Init, Hub!None
  <2>2. seen \in [Listeners -> 0 .. Numbers]
    BY <1>1, BoardBounds DEF Hub!Init, Hub!None
  <2>3. queue \in [Listeners -> Seq(Snapshots)] /\ \A l \in Listeners : Len(queue[l]) <= 2
    BY <1>1, <1>2 DEF Hub!Init
  <2>4. listener \in [Listeners -> {"away", "asking", "once", "on", "left", "leaked"}]
    BY <1>1 DEF Hub!Init
  <2>5. lock \in Seq(People) /\ probing \in BOOLEAN
    BY <1>1, <1>2 DEF Hub!Init
  <2> QED BY <2>1, <2>2, <2>3, <2>4, <2>5 DEF BoardTyped
<1>4. LockInOrder
  BY <1>1, <1>2 DEF Hub!Init, LockInOrder
<1>5. QueuesFollow
  BY <1>1 DEF Hub!Init, QueuesFollow, Hub!Subscribed
<1> QED BY <1>3, <1>4, <1>5 DEF BoardInv

\* Every step of the board.
LEMMA BoardKeeps == BoardInv /\ [Next]_allVars => BoardInv'
<1> SUFFICES ASSUME BoardInv, [Hub!Next]_board_ PROVE BoardInv'
  BY BoardSteps
<1>1. CASE UNCHANGED board_
  BY <1>1, BoardQuiet DEF board_
<1>2. CASE Hub!Next
  BY <1>2, EnterKeeps, ProbeEndsKeeps, ProbeFailsKeeps, RoundKeeps, TickKeeps, LookKeeps, EventsKeeps, SendKeeps,
     LeaveKeeps DEF Hub!Next
<1> QED BY <1>1, <1>2

\* However slowly a listener of the live board reads, it ends up with the newest snapshot (publish drops the
\* oldest event of a full queue), for any number of listeners and readers.
THEOREM NewestReaches == Spec => []NewestComesLast
<1>1. BoardInv => NewestComesLast
  <2> SUFFICES ASSUME BoardInv PROVE Hub!NewestComesLast
    BY DEF NewestComesLast
  <2> QED BY DEF BoardInv, QueuesFollow, Follows, Last, Hub!None, Hub!Held, Hub!NewestComesLast, Hub!Last
<1>2. Init => BoardInv
  BY BoardBegins
<1>3. BoardInv /\ [Next]_allVars => BoardInv'
  BY BoardKeeps
<1> QED BY <1>1, <1>2, <1>3, PTL DEF Spec

\* However many find the snapshot of the board too old at once, the systems are probed once (snapshot, under
\* its lock).
THEOREM OneProbe == Spec => BurstCostsOneProbe
<1>1. BoardInv /\ [Next]_allVars
      => [probing' /\ ~probing => data.no = Hub!None \/ data.age >= Hub!Interval \div 2]_Hub!hubVars
  <2> SUFFICES ASSUME BoardInv, Hub!Next, probing', ~probing
               PROVE  data.no = Hub!None \/ data.age >= Hub!Interval \div 2
    BY BoardSteps DEF board_, Hub!hubVars
  <2>1. Hub!Enter
    BY DEF Hub!Next, Hub!ProbeEnds, Hub!ProbeFails, Hub!Round, Hub!Tick, Hub!Look, Hub!Events, Hub!EventsOnce,
       Hub!Send, Hub!Leave
  <2>2. ~Hub!Fresh(Head(lock))
    BY <2>1 DEF Hub!Enter
  <2> QED BY <2>2 DEF Hub!Fresh, Hub!MaxAge, Hub!Interval, BoardInv, BoardTyped
<1>2. Init => BoardInv
  BY BoardBegins
<1>3. BoardInv /\ [Next]_allVars => BoardInv'
  BY BoardKeeps
<1> QED BY <1>1, <1>2, <1>3, PTL DEF Spec, BurstCostsOneProbe, Hub!BurstCostsOneProbe

-----------------------------------------------------------------------------
(* The limiter.                                                            *)

\* As WindowSteps, of the limiter.
LEMMA LimiterSteps == [Next]_allVars => [Limiter!Next]_table_
<1>1. Next /\ part = "limiter" => Limiter!Next
  BY DEF Next
<1>2. Next /\ part # "limiter" => UNCHANGED table_
  BY DEF Next, Others
<1>3. UNCHANGED allVars => UNCHANGED table_
  BY DEF allVars, table_
<1> QED BY <1>1, <1>2, <1>3

\* What is assumed of the limiter.
LEMMA LimiterBounds == IsFiniteSet(Clients) /\ Limits \subseteq Nat /\ TableLimit \in Nat
  BY BoundsAssumption DEF Limiter!LimitsAssumption, Limiter!IsFiniteSet, IsFiniteSet

\* The limiter counts as this module does.
LEMMA SameCount == \A S : Limiter!Cardinality(S) = Cardinality(S)
  BY DEF Limiter!Cardinality, Cardinality

\* What may be in the table, and the key of this minute.
Minutes == [client : Clients, window : Nat]
\* The key of this minute.
KeyOf(c) == [client |-> c, window |-> window]

\* The types of the table.
TableTyped ==
    /\ allowed \in Nat /\ window \in Nat
    /\ DOMAIN hits \subseteq Minutes /\ IsFiniteSet(DOMAIN hits)
    /\ hits = [k \in DOMAIN hits |-> hits[k]]
    /\ asked \in [Clients -> Nat] /\ admitted \in [Clients -> Nat]

\* Nothing is counted ahead of its time.
NoneAhead == \A k \in DOMAIN hits : k.window <= window

\* The table has this minute's requests of every client, if anything is counted.
Counted == allowed # 0 => \A c \in Clients :
    IF asked[c] = 0 THEN KeyOf(c) \notin DOMAIN hits
    ELSE KeyOf(c) \in DOMAIN hits /\ hits[KeyOf(c)] = asked[c]

\* The inductive invariant of the limiter.
TableInv == TableTyped /\ NoneAhead /\ Counted /\ Limiter!LimitIsExact

\* A sweep keeps what is of this minute, and if it sweeps, nothing else.
LEMMA SweepKeepsThisMinute ==
  ASSUME TableTyped, NoneAhead
  PROVE  /\ DOMAIN Limiter!Swept \subseteq DOMAIN hits
         /\ \A k \in DOMAIN Limiter!Swept : Limiter!Swept[k] = hits[k]
         /\ \A k \in DOMAIN hits : k.window = window => k \in DOMAIN Limiter!Swept
         /\ \/ Cardinality(DOMAIN Limiter!Swept) <= TableLimit
            \/ \A k \in DOMAIN Limiter!Swept : k.window = window
<1>1. Cardinality(DOMAIN hits) \in Nat
  BY FS_CardinalityType DEF TableTyped
<1>2. \A k \in DOMAIN hits : k.window \in Nat
  BY DEF TableTyped, Minutes
<1>3. CASE Cardinality(DOMAIN hits) > TableLimit
  <2>1. Limiter!Swept = Limiter!Restrict(hits, {k \in DOMAIN hits : k.window >= window})
    BY <1>3, SameCount DEF Limiter!Swept
  <2>2. Limiter!Swept = [k \in {k \in DOMAIN hits : k.window >= window} |-> hits[k]]
    BY <2>1 DEF Limiter!Restrict
  <2>3. DOMAIN Limiter!Swept = {k \in DOMAIN hits : k.window >= window}
    BY <2>2
  <2> QED BY <1>2, <2>2, <2>3 DEF TableTyped, NoneAhead
<1>4. CASE ~(Cardinality(DOMAIN hits) > TableLimit)
  BY <1>1, <1>4, LimiterBounds, SameCount DEF Limiter!Swept
<1> QED BY <1>3, <1>4

\* At any minute there is one key a client.
LEMMA OneKeyAClient ==
  ASSUME NEW w \in Nat, NEW S \in SUBSET [client : Clients, window : {w}]
  PROVE  IsFiniteSet(S) /\ Cardinality(S) <= Cardinality(Clients)
<1> DEFINE f == [k \in S |-> k.client]
<1>1. f \in Injection(S, Clients)
  BY DEF Injection, IsInjective
<1> QED BY <1>1, LimiterBounds, FS_Injection

\* Request: no more than the limit gets through, and the count of everybody else stands.
LEMMA RequestKeepsTheLimit ==
  ASSUME TableInv, NEW c \in Clients, Limiter!Request(c)
  PROVE  TableInv'
<1> DEFINE key == KeyOf(c)
           count == IF key \in DOMAIN Limiter!Swept THEN Limiter!Swept[key] + 1 ELSE 1
<1>1. /\ allowed # 0 /\ allowed' = allowed /\ window' = window
      /\ hits' = [k \in DOMAIN Limiter!Swept \cup {key} |-> IF k = key THEN count ELSE Limiter!Swept[k]]
      /\ asked' = [asked EXCEPT ![c] = @ + 1]
      /\ admitted' = IF count > allowed THEN admitted ELSE [admitted EXCEPT ![c] = @ + 1]
  BY DEF Limiter!Request, KeyOf
<1>2. /\ DOMAIN Limiter!Swept \subseteq DOMAIN hits
      /\ \A k \in DOMAIN Limiter!Swept : Limiter!Swept[k] = hits[k]
      /\ \A k \in DOMAIN hits : k.window = window => k \in DOMAIN Limiter!Swept
      /\ \/ Cardinality(DOMAIN Limiter!Swept) <= TableLimit
         \/ \A k \in DOMAIN Limiter!Swept : k.window = window
  BY SweepKeepsThisMinute DEF TableInv
<1>3. key \in Minutes /\ key.window = window
  BY DEF TableInv, TableTyped, Minutes, KeyOf
<1>4. \A d \in Clients : KeyOf(d).window = window /\ KeyOf(d)' = KeyOf(d) /\ (KeyOf(d) = key <=> d = c)
  BY <1>1 DEF KeyOf
<1>5. asked[c] \in Nat /\ count = asked[c] + 1
  <2>1. asked[c] \in Nat
    BY DEF TableInv, TableTyped
  <2>2. CASE asked[c] = 0
    <3>1. key \notin DOMAIN Limiter!Swept
      BY <1>1, <1>2, <2>2 DEF TableInv, Counted
    <3> QED BY <2>1, <2>2, <3>1
  <2>3. CASE asked[c] # 0
    <3>1. key \in DOMAIN hits /\ hits[key] = asked[c]
      BY <1>1, <2>3 DEF TableInv, Counted
    <3>2. key \in DOMAIN Limiter!Swept /\ Limiter!Swept[key] = asked[c]
      BY <1>2, <1>3, <3>1
    <3> QED BY <2>1, <3>2
  <2> QED BY <2>2, <2>3
<1>6. DOMAIN hits' = DOMAIN Limiter!Swept \cup {key}
  BY <1>1
<1>7. IsFiniteSet(DOMAIN Limiter!Swept)
  BY <1>2, FS_Subset DEF TableInv, TableTyped
<1>8. TableTyped'
  <2>1. IsFiniteSet(DOMAIN hits')
    BY <1>6, <1>7, FS_AddElement
  <2>2. DOMAIN hits' \subseteq Minutes
    BY <1>2, <1>3, <1>6 DEF TableInv, TableTyped
  <2>3. hits' = [k \in DOMAIN hits' |-> hits'[k]]
    BY <1>1
  <2>4. asked' \in [Clients -> Nat]
    BY <1>1 DEF TableInv, TableTyped
  <2>5. admitted' \in [Clients -> Nat]
    BY <1>1 DEF TableInv, TableTyped
  <2> QED BY <1>1, <2>1, <2>2, <2>3, <2>4, <2>5 DEF TableInv, TableTyped
<1>9. NoneAhead'
  BY <1>1, <1>2, <1>3, <1>6 DEF TableInv, NoneAhead, TableTyped
<1> HIDE DEF key, count
<1>10. Counted'
  <2> SUFFICES ASSUME NEW d \in Clients
               PROVE  IF asked'[d] = 0 THEN KeyOf(d)' \notin DOMAIN hits'
                      ELSE KeyOf(d)' \in DOMAIN hits' /\ hits'[KeyOf(d)'] = asked'[d]
    BY DEF Counted
  <2>1. CASE d = c
    <3>1. asked'[d] = count /\ count # 0
      BY <1>1, <1>5, <2>1 DEF TableInv, TableTyped
    <3>2. KeyOf(d)' = key /\ hits'[key] = count /\ key \in DOMAIN hits'
      BY <1>1, <1>4, <2>1, <1>6
    <3> QED BY <3>1, <3>2
  <2>2. CASE d # c
    <3>1. asked'[d] = asked[d]
      BY <1>1, <2>2 DEF TableInv, TableTyped
    <3>2. KeyOf(d)' = KeyOf(d) /\ KeyOf(d) # key /\ KeyOf(d).window = window
      BY <1>4, <2>2
    <3>3. KeyOf(d) \in DOMAIN hits' <=> KeyOf(d) \in DOMAIN hits
      BY <1>2, <1>6, <3>2
    <3>4. KeyOf(d) \in DOMAIN hits => hits'[KeyOf(d)] = hits[KeyOf(d)]
      BY <1>1, <1>2, <3>2
    <3> QED BY <1>1, <3>1, <3>2, <3>3, <3>4 DEF TableInv, Counted
  <2> QED BY <2>1, <2>2
<1>11. \A d \in Clients : admitted'[d] = IF allowed' = 0 \/ asked'[d] < allowed' THEN asked'[d] ELSE allowed'
  <2> SUFFICES ASSUME NEW d \in Clients
               PROVE  admitted'[d] = IF allowed' = 0 \/ asked'[d] < allowed' THEN asked'[d] ELSE allowed'
    OBVIOUS
  <2>1. /\ asked[d] \in Nat /\ allowed \in Nat
        /\ admitted[d] = IF allowed = 0 \/ asked[d] < allowed THEN asked[d] ELSE allowed
    BY LimiterBounds DEF TableInv, TableTyped, Limiter!LimitIsExact
  <2>2. asked'[d] = IF d = c THEN asked[d] + 1 ELSE asked[d]
    BY <1>1 DEF TableInv, TableTyped
  <2>3. admitted'[d] = IF d = c /\ ~(count > allowed) THEN admitted[d] + 1 ELSE admitted[d]
    BY <1>1 DEF TableInv, TableTyped
  <2> QED BY <1>1, <1>5, <2>1, <2>2, <2>3
<1>12. Cardinality(DOMAIN hits') <= TableLimit + 1 \/ Cardinality(DOMAIN hits') <= Cardinality(Clients)
  <2>1. CASE Cardinality(DOMAIN Limiter!Swept) <= TableLimit
    <3>1. Cardinality(DOMAIN hits') <= Cardinality(DOMAIN Limiter!Swept) + 1 /\ Cardinality(DOMAIN Limiter!Swept) \in Nat
      <4>1. Cardinality(DOMAIN hits') = IF key \in DOMAIN Limiter!Swept THEN Cardinality(DOMAIN Limiter!Swept)
                                        ELSE Cardinality(DOMAIN Limiter!Swept) + 1
        BY <1>6, <1>7, FS_AddElement
      <4>2. Cardinality(DOMAIN Limiter!Swept) \in Nat
        BY <1>7, FS_CardinalityType
      <4> QED BY <4>1, <4>2
    <3>2. Cardinality(DOMAIN hits') \in Nat
      BY <1>8, FS_CardinalityType DEF TableTyped
    <3> QED BY <2>1, <3>1, <3>2, LimiterBounds
  <2>2. CASE \A k \in DOMAIN Limiter!Swept : k.window = window
    <3>1. DOMAIN hits' \in SUBSET [client : Clients, window : {window}]
      BY <1>3, <1>6, <1>8, <2>2 DEF TableTyped, Minutes
    <3> QED BY <3>1, OneKeyAClient DEF TableInv, TableTyped
  <2> QED BY <1>2, <2>1, <2>2
<1> QED BY <1>8, <1>9, <1>10, <1>11, <1>12, SameCount DEF TableInv, Limiter!LimitIsExact

\* A new minute asks for keys that no table has.
LEMMA MinuteKeepsTheLimit ==
  ASSUME TableInv, Limiter!MinutePasses
  PROVE  TableInv'
<1>1. /\ window' = window + 1 /\ asked' = Limiter!Nobody /\ admitted' = Limiter!Nobody /\ hits' = hits
      /\ allowed' = allowed /\ window \in Nat
  BY DEF Limiter!MinutePasses, TableInv, TableTyped
<1>2. \A k \in DOMAIN hits : k.window \in Nat /\ k.window <= window
  BY DEF TableInv, TableTyped, NoneAhead, Minutes
<1>3. TableTyped' /\ NoneAhead'
  BY <1>1, <1>2 DEF TableInv, TableTyped, NoneAhead, Limiter!Nobody
<1>4. \A c \in Clients : KeyOf(c)' \notin DOMAIN hits'
  BY <1>1, <1>2 DEF KeyOf
<1>5. Counted'
  BY <1>1, <1>4 DEF Counted, Limiter!Nobody
<1>6. Limiter!LimitIsExact'
  BY <1>1, LimiterBounds DEF TableInv, TableTyped, Limiter!LimitIsExact, Limiter!Nobody
<1> QED BY <1>3, <1>5, <1>6 DEF TableInv

\* Unlimited: everybody gets through.
LEMMA UnlimitedKeepsTheLimit ==
  ASSUME TableInv, NEW c \in Clients, Limiter!Unlimited(c)
  PROVE  TableInv'
<1>1. /\ allowed = 0 /\ UNCHANGED <<allowed, window, hits>>
      /\ asked' = [asked EXCEPT ![c] = @ + 1] /\ admitted' = [admitted EXCEPT ![c] = @ + 1]
  BY DEF Limiter!Unlimited
<1>2. TableTyped'
  BY <1>1 DEF TableInv, TableTyped
<1>3. \A d \in Clients : admitted[d] = asked[d]
  BY <1>1 DEF TableInv, Limiter!LimitIsExact
<1>4. \A d \in Clients : admitted'[d] = asked'[d]
  BY <1>1, <1>3 DEF TableInv, TableTyped
<1>5. Limiter!LimitIsExact'
  BY <1>1, <1>4 DEF TableInv, Limiter!LimitIsExact
<1> QED BY <1>1, <1>2, <1>5 DEF TableInv, NoneAhead, Counted

\* In every minute each client gets through exactly as often as it asks and the limit allows, if there is one,
\* and the table stays small, however many clients there are and whenever it is swept (dispatch).
THEOREM LimitHolds == Spec => []LimitIsExact
<1>1. Init => TableInv
  <2> SUFFICES ASSUME Limiter!Init PROVE TableInv
    BY DEF Init
  <2>1. DOMAIN hits = {} /\ IsFiniteSet({}) /\ Cardinality({}) = 0
    BY FS_EmptySet DEF Limiter!Init, Limiter!Empty
  <2>2. TableTyped /\ NoneAhead /\ Counted
    BY <2>1, LimiterBounds DEF Limiter!Init, TableTyped, NoneAhead, Counted, Limiter!Nobody, Limiter!Empty
  <2>3. Limiter!LimitIsExact
    BY <2>1, LimiterBounds, SameCount DEF Limiter!Init, Limiter!LimitIsExact, Limiter!Nobody
  <2> QED BY <2>2, <2>3 DEF TableInv
<1>2. TableInv /\ [Next]_allVars => TableInv'
  <2> SUFFICES ASSUME TableInv, [Limiter!Next]_table_ PROVE TableInv'
    BY LimiterSteps
  <2>1. CASE Limiter!MinutePasses
    BY <2>1, MinuteKeepsTheLimit
  <2>2. CASE \E c \in Clients : Limiter!Request(c) \/ Limiter!Unlimited(c)
    BY <2>2, RequestKeepsTheLimit, UnlimitedKeepsTheLimit
  <2>3. CASE UNCHANGED table_
    BY <2>3 DEF table_, TableInv, TableTyped, NoneAhead, Counted, KeyOf, Limiter!LimitIsExact
  <2> QED BY <2>1, <2>2, <2>3 DEF Limiter!Next
<1>3. TableInv => LimitIsExact
  BY DEF TableInv, LimitIsExact
<1> QED BY <1>1, <1>2, <1>3, PTL DEF Spec

-----------------------------------------------------------------------------
(* The file of keys.                                                       *)

\* As WindowSteps, of the file of keys.
LEMMA FileSteps == [Next]_allVars => [KeyAdmin!Next]_file_
<1>1. Next /\ part = "keys" => KeyAdmin!Next
  BY DEF Next
<1>2. Next /\ part # "keys" => UNCHANGED file_
  BY DEF Next, Others
<1>3. UNCHANGED allVars => UNCHANGED file_
  BY DEF allVars, file_
<1> QED BY <1>1, <1>2, <1>3

\* What is assumed of the keys.
LEMMA FileBounds == IsFiniteSet(Keys) /\ KeepBackups \in Nat \ {0}
  BY BoundsAssumption DEF KeyAdmin!FileAssumption, KeyAdmin!IsFiniteSet, IsFiniteSet

\* The lines of a file.
Lines == [key : Keys \cup {Comment}, value : Nat]

\* The types of the files.
FileTyped ==
    /\ env = KeyAdmin!File(env.lines) /\ env.lines \in Seq(Lines)
    /\ save \in [at : {"idle", "backup", "stage", "copy", "drop"}, name : Keys \cup {Comment},
                 read : Seq(Lines), text : Seq(Lines)]
    /\ save.at # "idle" => save.name \in Keys
    /\ second \in Nat /\ saves \in Nat /\ DOMAIN backups \subseteq 0 .. second
    /\ environ = [k \in Keys |-> environ[k]] /\ latest = [k \in Keys |-> latest[k]]
    /\ changed \subseteq Keys

\* What is in the newest backup.
Newest == backups[KeyAdmin!Max(DOMAIN backups)]

\* What each step of a save can rely on.
Saving ==
    /\ save.at \in {"backup", "stage", "copy"} => env.lines = save.read
    /\ save.at = "drop" => env.lines = save.text
    /\ save.at \in {"stage", "copy"} => Newest = save.read
    /\ save.at = "copy" => tmp = KeyAdmin!File(save.text)

\* What is live: what the container was created with until it is saved, and what .env holds.
Takes(k) == IF created[k] # 0 /\ k \notin changed THEN created[k] ELSE KeyAdmin!Value(env.lines, k)

Live ==
    /\ save.at # "drop" => \A k \in Keys : environ[k] = Takes(k)
    /\ save.at = "drop" => \A k \in Keys \ {save.name} : environ[k] = Takes(k)
    /\ save.at = "drop" => latest[save.name] = KeyAdmin!Value(env.lines, save.name)

\* .env is whole, or what it should hold is beside it.
Kept == \/ env.lines \in {save.read, save.text}
        \/ save.at = "idle" /\ tmp = KeyAdmin!File(save.text) /\ Newest = save.read

\* No key but the one that is saved is touched, and the last values are all there.
LastValues ==
    /\ \A k \in Keys \ {save.name} : KeyAdmin!Value(save.text, k) = KeyAdmin!Value(save.read, k)
    /\ ~blind => IF KeyAdmin!Whole THEN \A k \in Keys : KeyAdmin!Value(env.lines, k) = latest[k]
                 ELSE \A k \in Keys \ {save.name} : KeyAdmin!Value(save.text, k) = latest[k]

\* The inductive invariant of the file of keys.
FileInv == FileTyped /\ Saving /\ Live /\ Kept /\ LastValues

\* Replacing one key's line leaves every other key's value.
LEMMA ReplacedIsLines ==
  ASSUME NEW lines \in Seq(Lines), NEW k \in Keys, NEW v \in Nat
  PROVE  KeyAdmin!Replaced(lines, k, v) \in Seq(Lines)
<1> DEFINE at == {i \in DOMAIN lines : lines[i].key = k}
<1>1. KeyAdmin!Line(k, v) \in Lines
  BY DEF KeyAdmin!Line, Lines
<1>2. CASE at = {}
  BY <1>1, <1>2, AppendProperties DEF KeyAdmin!Replaced
<1>3. CASE at # {}
  <2>1. KeyAdmin!Replaced(lines, k, v) = [lines EXCEPT ![KeyAdmin!Min(at)] = KeyAdmin!Line(k, v)]
    BY <1>3 DEF KeyAdmin!Replaced
  <2>2. at \in SUBSET Nat
    BY LenProperties
  <2> HIDE DEF at
  <2>3. PICK i \in at : \A y \in at : i <= y
    BY <1>3, <2>2, LeastOf
  <2>4. KeyAdmin!Min(at) \in at
    BY <2>3 DEF KeyAdmin!Min
  <2>5. KeyAdmin!Min(at) \in DOMAIN lines
    BY <2>4 DEF at
  <2> QED BY <1>1, <2>1, <2>5, ExceptSeq
<1> QED BY <1>2, <1>3

\* Replacing one key's line leaves every other key's value.
LEMMA ReplacedKeepsOthers ==
  ASSUME NEW lines \in Seq(Lines), NEW k \in Keys, NEW v, NEW j \in Keys \ {k}
  PROVE  KeyAdmin!Value(KeyAdmin!Replaced(lines, k, v), j) = KeyAdmin!Value(lines, j)
<1> DEFINE at(name) == {i \in DOMAIN lines : lines[i].key = name}
           text == KeyAdmin!Replaced(lines, k, v)
           line == KeyAdmin!Line(k, v)
<1>1. Len(lines) \in Nat /\ DOMAIN lines = 1 .. Len(lines)
  BY LenProperties
<1>2. line.key = k
  BY DEF KeyAdmin!Line
<1>3. {i \in DOMAIN text : text[i].key = j} = at(j) /\ \A i \in at(j) : text[i] = lines[i]
  <2>1. CASE at(k) = {}
    <3>1. text = Append(lines, line)
      BY <2>1 DEF KeyAdmin!Replaced
    <3>2. DOMAIN text = 1 .. Len(lines) + 1 /\ text[Len(lines) + 1] = line
          /\ \A i \in 1 .. Len(lines) : text[i] = lines[i]
      BY <1>1, <3>1
    <3> HIDE DEF line, text
    <3> QED BY <1>1, <1>2, <3>2
  <2>2. CASE at(k) # {}
    <3>1. PICK i \in at(k) : \A y \in at(k) : i <= y
      <4>1. at(k) \in SUBSET Nat
        BY <1>1
      <4> QED BY <2>2, <4>1, LeastOf
    <3>2. KeyAdmin!Min(at(k)) \in at(k)
      BY <3>1 DEF KeyAdmin!Min
    <3>3. text = [lines EXCEPT ![KeyAdmin!Min(at(k))] = line]
      BY <2>2 DEF KeyAdmin!Replaced
    <3>4. PICK least \in at(k) : text = [lines EXCEPT ![least] = line]
      BY <3>2, <3>3
    <3> HIDE DEF line, text
    <3>5. DOMAIN text = DOMAIN lines /\ \A n \in DOMAIN lines : text[n] = IF n = least THEN line ELSE lines[n]
      BY <3>4
    <3> QED BY <1>2, <3>4, <3>5
  <2> QED BY <2>1, <2>2
<1> HIDE DEF text
<1>4. at(j) # {} => KeyAdmin!Max(at(j)) \in at(j)
  <2> SUFFICES ASSUME at(j) # {} PROVE KeyAdmin!Max(at(j)) \in at(j)
    OBVIOUS
  <2>1. PICK i \in at(j) : \A y \in at(j) : y <= i
    <3>1. at(j) \in SUBSET (1 .. Len(lines))
      BY <1>1
    <3> QED BY <1>1, <3>1, GreatestOf
  <2>2. at(j) \subseteq Nat
    BY <1>1
  <2> QED BY <2>1, <2>2 DEF KeyAdmin!Max
<1> DEFINE last == KeyAdmin!Max(at(j))
<1>5. KeyAdmin!Value(text, j) = IF at(j) = {} THEN 0 ELSE text[last].value
  BY <1>3 DEF KeyAdmin!Value
<1>6. KeyAdmin!Value(lines, j) = IF at(j) = {} THEN 0 ELSE lines[last].value
  BY DEF KeyAdmin!Value
<1> HIDE DEF last, at
<1>7. at(j) # {} => text[last] = lines[last]
  BY <1>3, <1>4 DEF last
<1> QED BY <1>5, <1>6, <1>7 DEF text

\* A file kept by hand.
LEMMA FileBegins == Init => FileInv
<1> SUFFICES ASSUME Init PROVE FileInv
  OBVIOUS
<1>1. KeyAdmin!Init
  BY DEF Init
<1>2. PICK some \in SUBSET Keys : env = KeyAdmin!File(<<KeyAdmin!Line(Comment, 0)>> \o KeyAdmin!SetToSeq({KeyAdmin!Line(k, 1) : k \in some}))
  BY <1>1 DEF KeyAdmin!Init
<1> DEFINE S == {KeyAdmin!Line(k, 1) : k \in some}
           rest == KeyAdmin!SetToSeq(S)
<1>3. KeyAdmin!SetToSeq(S) \in Seq(S)
  <2>1. IsFiniteSet(some)
    BY FileBounds, FS_Subset
  <2>2. IsFiniteSet(S)
    <3> DEFINE f == [k \in some |-> KeyAdmin!Line(k, 1)]
    <3>1. f \in Surjection(some, S)
      BY DEF Surjection
    <3> QED BY <2>1, <3>1, FS_Surjection
  <2>3. Cardinality(S) \in Nat /\ ExistsBijection(1 .. Cardinality(S), S)
    BY <2>2, FS_CardinalityType
  <2>4. PICK f \in Bijection(1 .. Cardinality(S), S) : TRUE
    BY <2>3 DEF ExistsBijection
  <2> HIDE DEF S
  <2>5. f \in [1 .. Cardinality(S) -> S] /\ \A a, b \in 1 .. Cardinality(S) : f[a] = f[b] => a = b
    BY <2>4 DEF Bijection, Injection, Surjection, IsInjective
  <2>6. f \in [1 .. KeyAdmin!Cardinality(S) -> S] /\ KeyAdmin!IsInjective(f)
    BY <2>5 DEF KeyAdmin!IsInjective, KeyAdmin!Cardinality, Cardinality
  <2>7. KeyAdmin!SetToSeq(S) \in [1 .. KeyAdmin!Cardinality(S) -> S]
    BY <2>6 DEF KeyAdmin!SetToSeq
  <2>8. KeyAdmin!Cardinality(S) \in Nat
    BY <2>3 DEF KeyAdmin!Cardinality, Cardinality
  <2> QED BY <2>7, <2>8
<1>4. env.lines \in Seq(Lines)
  <2>0. env.lines = <<KeyAdmin!Line(Comment, 0)>> \o rest
    BY <1>2 DEF KeyAdmin!File
  <2>1. S \subseteq Lines
    BY DEF KeyAdmin!Line, Lines
  <2> HIDE DEF S
  <2>2. rest \in Seq(Lines)
    BY <1>3, <2>1, SeqMonotonic
  <2> HIDE DEF rest
  <2>3. <<KeyAdmin!Line(Comment, 0)>> \in Seq(Lines)
    BY DEF KeyAdmin!Line, Lines
  <2>4. <<KeyAdmin!Line(Comment, 0)>> \o rest \in Seq(Lines)
    BY <2>2, <2>3, ConcatProperties
  <2> QED BY <2>0, <2>4
<1>5. FileTyped
  BY <1>1, <1>2, <1>4 DEF KeyAdmin!Init, FileTyped, KeyAdmin!File, KeyAdmin!Loaded
<1>6. Saving /\ Kept
  BY <1>1 DEF KeyAdmin!Init, Saving, Kept
<1>7. \A k \in Keys : environ[k] = KeyAdmin!Value(env.lines, k) /\ latest[k] = KeyAdmin!Value(env.lines, k)
  BY <1>1 DEF KeyAdmin!Init, KeyAdmin!Loaded
<1>8. Live /\ LastValues
  <2>1. \A k \in Keys : created[k] \in {0, KeyAdmin!Value(env.lines, k)}
    BY <1>1 DEF KeyAdmin!Init, KeyAdmin!Loaded, KeyAdmin!NothingGiven
  <2> QED BY <1>1, <1>7, <2>1 DEF KeyAdmin!Init, Live, Takes, LastValues, KeyAdmin!Whole
<1> QED BY <1>5, <1>6, <1>8 DEF FileInv

\* The step takes no file and no value.
LEMMA BeginSaveKeeps ==
  ASSUME FileInv, NEW k \in Keys, KeyAdmin!BeginSave(k)
  PROVE  FileInv'
<1> DEFINE text == KeyAdmin!Replaced(env.lines, k, saves + 2)
<1>1. text \in Seq(Lines)
  <2>1. env.lines \in Seq(Lines) /\ saves + 2 \in Nat
    BY DEF FileInv, FileTyped
  <2> QED BY <2>1, ReplacedIsLines
<1>2. \A j \in Keys \ {k} : KeyAdmin!Value(text, j) = KeyAdmin!Value(env.lines, j)
  BY ReplacedKeepsOthers DEF FileInv, FileTyped
<1>3. /\ save.at = "idle" /\ saves' = saves + 1
      /\ save' = [at |-> "backup", name |-> k, read |-> env.lines, text |-> text]
      /\ UNCHANGED <<env, tmp, backups, environ, created, changed, second, crashes, latest>>
      /\ ~blind' => ~blind /\ KeyAdmin!Whole
  BY DEF KeyAdmin!BeginSave
<1> HIDE DEF text
<1>4. /\ save'.at = "backup" /\ save'.name = k /\ save'.read = env.lines /\ save'.text = text
  BY <1>3
<1>5. FileTyped'
  BY <1>1, <1>3 DEF FileInv, FileTyped
<1>6. Saving' /\ Kept'
  BY <1>3, <1>4 DEF Saving, Kept
<1>7. Live'
  BY <1>3, <1>4 DEF FileInv, Live, Takes
<1>8. LastValues'
  BY <1>2, <1>3, <1>4 DEF FileInv, LastValues, KeyAdmin!Whole
<1> QED BY <1>5, <1>6, <1>7, <1>8 DEF FileInv

\* Backup: the backup of this second is the newest, and stays when the others are pruned.
LEMMA BackupKeeps ==
  ASSUME FileInv, KeyAdmin!Backup
  PROVE  FileInv'
<1>1. /\ save.at = "backup" /\ save' = [save EXCEPT !.at = "stage"]
      /\ backups' = KeyAdmin!Kept(KeyAdmin!WithBackup(env.lines))
      /\ UNCHANGED <<env, tmp, environ, created, changed, second, saves, crashes, blind, latest>>
  BY DEF KeyAdmin!Backup, KeyAdmin!At, FileInv, FileTyped, KeyAdmin!File
<1>2. /\ save'.at = "stage" /\ save'.name = save.name /\ save'.read = save.read /\ save'.text = save.text
  BY <1>1 DEF FileInv, FileTyped
<1> DEFINE files == KeyAdmin!WithBackup(env.lines)
<1>3. DOMAIN files = DOMAIN backups \cup {second} /\ files[second] = env.lines
  BY DEF KeyAdmin!WithBackup
<1>4. DOMAIN files \subseteq 0 .. second /\ second \in Nat
  BY <1>3 DEF FileInv, FileTyped
<1> HIDE DEF files
<1>5. second \in DOMAIN backups' /\ backups'[second] = env.lines /\ DOMAIN backups' \subseteq DOMAIN files
  <2>1. {u \in DOMAIN files : u > second} = {}
    BY <1>4
  <2>2. KeyAdmin!Cardinality({u \in DOMAIN files : u > second}) = 0
    BY <2>1, FS_EmptySet DEF KeyAdmin!Cardinality, Cardinality
  <2>3. backups' = KeyAdmin!Kept(files)
    BY <1>1 DEF files
  <2>4. backups' = [s \in {t \in DOMAIN files : KeyAdmin!Cardinality({u \in DOMAIN files : u > t}) < KeepBackups} |-> files[s]]
    BY <2>3 DEF KeyAdmin!Kept
  <2>5. second \in {t \in DOMAIN files : KeyAdmin!Cardinality({u \in DOMAIN files : u > t}) < KeepBackups}
    BY <1>3, <2>2, FileBounds
  <2> QED BY <1>3, <2>4, <2>5
<1>6. KeyAdmin!Max(DOMAIN backups') = second
  <2>1. second \in DOMAIN backups' /\ \A y \in DOMAIN backups' : second >= y
    BY <1>4, <1>5
  <2>2. \A x \in DOMAIN backups' : (\A y \in DOMAIN backups' : x >= y) => x = second
    BY <1>4, <1>5, <2>1
  <2> QED BY <2>1, <2>2 DEF KeyAdmin!Max
<1>7. Newest' = env.lines
  BY <1>5, <1>6 DEF Newest
<1>8. FileTyped'
  BY <1>1, <1>2, <1>4, <1>5 DEF FileInv, FileTyped
<1>9. Saving' /\ Kept'
  BY <1>1, <1>2, <1>7 DEF FileInv, Saving, Kept
<1>10. Live' /\ LastValues'
  BY <1>1, <1>2 DEF FileInv, Live, Takes, LastValues, KeyAdmin!Whole
<1> QED BY <1>8, <1>9, <1>10 DEF FileInv

\* Stage: the new text is beside the file.
LEMMA StageKeeps ==
  ASSUME FileInv, KeyAdmin!Stage
  PROVE  FileInv'
<1>1. /\ save.at = "stage" /\ save' = [save EXCEPT !.at = "copy"] /\ tmp' = KeyAdmin!File(save.text)
      /\ UNCHANGED <<env, backups, environ, created, changed, second, saves, crashes, blind, latest>>
  BY DEF KeyAdmin!Stage, KeyAdmin!At
<1>2. /\ save'.at = "copy" /\ save'.name = save.name /\ save'.read = save.read /\ save'.text = save.text
  BY <1>1 DEF FileInv, FileTyped
<1>3. FileTyped'
  BY <1>1, <1>2 DEF FileInv, FileTyped
<1>4. Saving' /\ Kept'
  BY <1>1, <1>2 DEF FileInv, Saving, Kept, Newest
<1>5. Live' /\ LastValues'
  BY <1>1, <1>2 DEF FileInv, Live, Takes, LastValues, KeyAdmin!Whole
<1> QED BY <1>3, <1>4, <1>5 DEF FileInv

\* Copy: the new text is the file.
LEMMA CopyKeeps ==
  ASSUME FileInv, KeyAdmin!Copy
  PROVE  FileInv'
<1>1. /\ save.at = "copy" /\ save' = [save EXCEPT !.at = "drop"] /\ env' = KeyAdmin!File(save.text)
      /\ latest' = [latest EXCEPT ![save.name] = KeyAdmin!Value(save.text, save.name)]
      /\ UNCHANGED <<tmp, backups, environ, created, changed, second, saves, crashes, blind>>
  BY DEF KeyAdmin!Copy, KeyAdmin!At
<1>2. /\ save'.at = "drop" /\ save'.name = save.name /\ save'.read = save.read /\ save'.text = save.text
      /\ save.name \in Keys
  BY <1>1 DEF FileInv, FileTyped
<1>3. env'.lines = save.text
  BY <1>1 DEF KeyAdmin!File
<1>4. /\ latest'[save.name] = KeyAdmin!Value(save.text, save.name)
      /\ \A k \in Keys \ {save.name} : latest'[k] = latest[k]
      /\ latest' = [k \in Keys |-> latest'[k]]
  BY <1>1, <1>2 DEF FileInv, FileTyped
<1>5. FileTyped'
  BY <1>1, <1>2, <1>3, <1>4 DEF FileInv, FileTyped
<1>6. Saving' /\ Kept'
  BY <1>2, <1>3 DEF Saving, Kept
<1>7. /\ env.lines = save.read
      /\ \A k \in Keys \ {save.name} : KeyAdmin!Value(save.text, k) = KeyAdmin!Value(save.read, k)
      /\ \A k \in Keys : environ[k] = Takes(k)
      /\ ~blind => \A k \in Keys : KeyAdmin!Value(env.lines, k) = latest[k]
  BY <1>1 DEF FileInv, Saving, Live, Takes, LastValues, KeyAdmin!Whole
<1>8. Live'
  BY <1>1, <1>2, <1>3, <1>4, <1>7 DEF Live, Takes
<1>9. LastValues'
  BY <1>1, <1>2, <1>3, <1>4, <1>7 DEF LastValues, KeyAdmin!Whole
<1> QED BY <1>5, <1>6, <1>8, <1>9 DEF FileInv

\* Drop: the value is live.
LEMMA DropKeeps ==
  ASSUME FileInv, KeyAdmin!Drop
  PROVE  FileInv'
<1>1. /\ save.at = "drop" /\ save' = [save EXCEPT !.at = "idle"]
      /\ environ' = [environ EXCEPT ![save.name] = latest[save.name]]
      /\ changed' = changed \cup {save.name}
      /\ UNCHANGED <<env, backups, created, second, saves, crashes, blind, latest>>
  BY DEF KeyAdmin!Drop, KeyAdmin!At
<1>2. /\ save'.at = "idle" /\ save'.name = save.name /\ save'.read = save.read /\ save'.text = save.text
      /\ save.name \in Keys
  BY <1>1 DEF FileInv, FileTyped
<1>3. /\ environ'[save.name] = latest[save.name]
      /\ \A k \in Keys \ {save.name} : environ'[k] = environ[k]
      /\ environ' = [k \in Keys |-> environ'[k]]
  BY <1>1, <1>2 DEF FileInv, FileTyped
<1>4. FileTyped'
  BY <1>1, <1>2, <1>3 DEF FileInv, FileTyped
<1>5. Saving' /\ Kept'
  BY <1>1, <1>2 DEF FileInv, Saving, Kept
<1>6. Live'
  BY <1>1, <1>2, <1>3 DEF FileInv, Live, Takes
<1>7. LastValues'
  BY <1>1, <1>2 DEF FileInv, LastValues, KeyAdmin!Whole
<1> QED BY <1>4, <1>5, <1>6, <1>7 DEF FileInv

\* What is left of a file that was half written is lines.
LEMMA CutOffIsLines ==
  ASSUME NEW lines \in Seq(Lines), NEW part_ \in KeyAdmin!CutOff(lines)
  PROVE  part_ \in Seq(Lines)
<1>1. PICK n \in 0 .. Len(lines) : part_ = SubSeq(lines, 1, n)
  BY DEF KeyAdmin!CutOff
<1>2. \A i \in 1 .. n : lines[i] \in Lines
  BY LenProperties
<1> QED BY <1>1, <1>2, SubSeqProperties

\* Crash: only the copy may leave .env torn, and by then the text is staged and the backup made.
LEMMA CrashKeeps ==
  ASSUME FileInv, KeyAdmin!Crash
  PROVE  FileInv'
<1>1. /\ save' = [save EXCEPT !.at = "idle"]
      /\ environ' = KeyAdmin!Started(env'.lines, created') /\ changed' = {}
      /\ latest' = IF save.at # "idle" /\ env'.lines = save.text
                   THEN [latest EXCEPT ![save.name] = KeyAdmin!Value(save.text, save.name)] ELSE latest
      /\ UNCHANGED <<second, saves, blind>>
  BY DEF KeyAdmin!Crash, KeyAdmin!At
<1>2. /\ save'.at = "idle" /\ save'.name = save.name /\ save'.read = save.read /\ save'.text = save.text
      /\ save.at # "idle" => save.name \in Keys
  BY <1>1 DEF FileInv, FileTyped
<1>3. /\ env' = KeyAdmin!File(env'.lines) /\ env'.lines \in Seq(Lines)
      /\ save.at # "copy" => env' = env
      /\ save.at \in {"idle", "drop", "copy"} => tmp' = tmp /\ backups' = backups
      /\ DOMAIN backups' \subseteq 0 .. second
  <2>1. CASE save.at = "copy"
    <3>1. PICK part_ \in KeyAdmin!CutOff(save.text) : env' = KeyAdmin!File(part_)
      BY <2>1 DEF KeyAdmin!Crash
    <3>2. part_ \in Seq(Lines)
      BY CutOffIsLines DEF FileInv, FileTyped
    <3>3. tmp' = tmp /\ backups' = backups
      BY <2>1 DEF KeyAdmin!Crash
    <3>4. env' = KeyAdmin!File(env'.lines) /\ env'.lines \in Seq(Lines)
      BY <3>1, <3>2 DEF KeyAdmin!File
    <3>5. DOMAIN backups' \subseteq 0 .. second
      BY <3>3 DEF FileInv, FileTyped
    <3> QED BY <2>1, <3>3, <3>4, <3>5
  <2>2. CASE save.at = "backup"
    <3>1. env' = env /\ \E part_ \in KeyAdmin!CutOff(env.lines) : backups' = KeyAdmin!WithBackup(part_)
      BY <2>2 DEF KeyAdmin!Crash
    <3>2. DOMAIN backups' = DOMAIN backups \cup {second}
      BY <3>1 DEF KeyAdmin!WithBackup
    <3> QED BY <2>2, <3>1, <3>2 DEF FileInv, FileTyped
  <2>3. CASE save.at = "stage"
    <3>1. env' = env /\ backups' = backups
      BY <2>3 DEF KeyAdmin!Crash
    <3> QED BY <2>3, <3>1 DEF FileInv, FileTyped
  <2>4. CASE save.at \in {"idle", "drop"}
    <3>1. env' = env /\ backups' = backups /\ tmp' = tmp
      BY <2>4 DEF KeyAdmin!Crash
    <3> QED BY <2>4, <3>1 DEF FileInv, FileTyped
  <2> QED BY <2>1, <2>2, <2>3, <2>4 DEF FileInv, FileTyped
<1>4. \A k \in Keys : environ'[k] = Takes(k)'
  BY <1>1 DEF KeyAdmin!Started, Takes
<1>5. /\ environ' = [k \in Keys |-> environ'[k]] /\ latest' = [k \in Keys |-> latest'[k]]
      /\ \A k \in Keys \ {save.name} : latest'[k] = latest[k]
      /\ save.at # "idle" /\ env'.lines = save.text => latest'[save.name] = KeyAdmin!Value(env'.lines, save.name)
      /\ save.at = "idle" \/ env'.lines # save.text => latest' = latest
  BY <1>1, <1>2, <1>4 DEF FileInv, FileTyped, KeyAdmin!Started
<1>6. FileTyped'
  BY <1>1, <1>2, <1>3, <1>5 DEF FileInv, FileTyped
<1>7. Saving' /\ Live'
  BY <1>2, <1>4 DEF Saving, Live, Takes
<1>8. Kept'
  BY <1>2, <1>3 DEF FileInv, FileTyped, Kept, Saving, Newest
<1>9. LastValues'
  <2>1. CASE save.at = "idle"
    <3>1. env' = env /\ latest' = latest
      BY <1>3, <1>5, <2>1
    <3> QED BY <1>1, <1>2, <3>1 DEF FileInv, LastValues, KeyAdmin!Whole
  <2>2. CASE save.at # "idle"
    <3>1. /\ env.lines \in {save.read, save.text}
          /\ \A k \in Keys \ {save.name} : KeyAdmin!Value(save.text, k) = KeyAdmin!Value(save.read, k)
          /\ ~blind => \A k \in Keys : KeyAdmin!Value(env.lines, k) = latest[k]
      BY <2>2 DEF FileInv, Kept, LastValues, KeyAdmin!Whole
    <3>2. CASE env'.lines = save.text
      BY <1>1, <1>2, <1>5, <2>2, <3>1, <3>2 DEF LastValues, KeyAdmin!Whole
    <3>3. CASE env'.lines # save.text
      <4>1. latest' = latest
        BY <1>5, <3>3
      <4>2. env.lines = save.read \/ env' = env
        BY <1>3 DEF FileInv, Saving
      <4> QED BY <1>1, <1>2, <3>1, <3>3, <4>1, <4>2 DEF LastValues, KeyAdmin!Whole
    <3> QED BY <3>2, <3>3
  <2> QED BY <2>1, <2>2
<1> QED BY <1>6, <1>7, <1>8, <1>9 DEF FileInv

\* Clock: the backups have the seconds that are over.
LEMMA ClockKeeps ==
  ASSUME FileInv, KeyAdmin!Clock
  PROVE  FileInv'
<1>1. second' = second + 1 /\ UNCHANGED <<env, tmp, backups, environ, created, changed, save, saves, crashes, blind, latest>>
  BY DEF KeyAdmin!Clock
<1>2. FileTyped'
  BY <1>1 DEF FileInv, FileTyped
<1>3. Saving' /\ Live' /\ Kept' /\ LastValues'
  BY <1>1 DEF FileInv, Saving, Live, Takes, Kept, LastValues, Newest, KeyAdmin!Whole
<1> QED BY <1>2, <1>3 DEF FileInv

\* A process that dies while it writes .env costs the key it was writing at most, and what is live is what .env
\* holds, but for keys that a container was created with and that nobody saved since it was started (_write_env,
\* set_value), for any keys, any file kept by hand and any number of saves and crashes.
THEOREM KeysOutliveCrashes == Spec => []KeysSurviveCrashes
<1>1. FileInv /\ [Next]_allVars => FileInv'
  <2> SUFFICES ASSUME FileInv, [Next]_allVars PROVE FileInv'
    OBVIOUS
  <2>1. [KeyAdmin!Next]_file_
    BY FileSteps
  <2>2. CASE UNCHANGED file_
    <3>1. UNCHANGED <<env, tmp, backups, environ, created, changed, save, second, saves, blind, latest>>
      BY <2>2 DEF file_
    <3> QED BY <3>1 DEF FileInv, FileTyped, Saving, Live, Takes, Kept, LastValues, Newest, KeyAdmin!Whole
  <2>3. CASE KeyAdmin!Next
    BY <2>3, BeginSaveKeeps, BackupKeeps, StageKeeps, CopyKeeps, DropKeeps, CrashKeeps, ClockKeeps DEF KeyAdmin!Next
  <2> QED BY <2>1, <2>2, <2>3
<1>2. FileInv => KeysSurviveCrashes
  <2> SUFFICES ASSUME FileInv PROVE KeyAdmin!KeysSurviveCrashes
    BY DEF KeysSurviveCrashes
  <2>1. KeyAdmin!Whole \/ (tmp = KeyAdmin!File(save.text) /\ Newest = save.read)
    BY DEF FileInv, Kept, KeyAdmin!Whole
  <2>2. tmp = KeyAdmin!File(save.text) => tmp.lines = save.text
    BY DEF KeyAdmin!File
  <2>3. ~blind => IF KeyAdmin!Whole THEN \A k \in Keys : KeyAdmin!Value(env.lines, k) = latest[k]
                  ELSE \A k \in Keys \ {save.name} : KeyAdmin!Value(tmp.lines, k) = latest[k]
    BY <2>1, <2>2 DEF FileInv, LastValues
  <2>4. save.at = "idle" => \A k \in Keys : environ[k] = Takes(k)
    BY DEF FileInv, Live
  <2> QED BY <2>1, <2>3, <2>4 DEF KeyAdmin!KeysSurviveCrashes, Newest, Takes
<1> QED BY FileBegins, <1>1, <1>2, PTL DEF Spec

-----------------------------------------------------------------------------
(* The ledger.                                                             *)

LEMMA LedgerSteps == [Next]_allVars => [Finance!Next]_ledger_
<1>1. Next /\ part = "ledger" => Finance!Next
  BY DEF Next
<1>2. Next /\ part # "ledger" => UNCHANGED ledger_
  BY DEF Next, Others
<1>3. UNCHANGED allVars => UNCHANGED ledger_
  BY DEF allVars, ledger_
<1> QED BY <1>1, <1>2, <1>3

\* What the constants are: amounts are whole steps, and lines are off by the tolerance at most.
LEMMA AmountsBounds ==
  /\ Ids \subseteq Nat /\ IsFiniteSet(Ids) /\ TOLERANCE \in Nat /\ Payments \subseteq Nat
  /\ Prices \subseteq [gross : Int, net : Int]
  /\ \A i \in Ids : Rounding[i] \in Int /\ 0 <= Rounding[i] /\ Rounding[i] <= TOLERANCE
<1>1. /\ Ids \subseteq Nat /\ IsFiniteSet(Ids) /\ TOLERANCE \in Nat /\ Payments \subseteq Nat
      /\ Prices \subseteq [gross : Int, net : Int]
      /\ \A i \in Ids : Rounding[i] \in 0 .. TOLERANCE
  BY BoundsAssumption DEF Finance!AmountsAssumption, IsFiniteSet, Finance!IsFiniteSet
<1> QED BY <1>1

\* The instance counts as the library does.
LEMMA LedgerCount == \A S : Finance!Cardinality(S) = Cardinality(S)
BY DEF Finance!Cardinality, Cardinality

Papers == [state : {"absent", "draft", "posted"}, gross : Int, net : Int, paid : Nat]

\* The inductive invariant of the ledger: the books and their backup hold documents with amounts.
LedgerInv == /\ books \in [Ids -> Papers] /\ backup \in [Ids -> Papers]
             /\ veil \in [Ids -> {"whole", "empty", "refused"}] /\ newest \in BOOLEAN

LEMMA PapersAreNumbers == \A d \in Papers : d.gross \in Int /\ d.net \in Int /\ d.paid \in Nat /\ d.paid \in Int
BY DEF Papers

\* The order of the rows of one head, and the ordinal of a row.
Earlier(rows, money, latestFirst, i) == {j \in rows : Finance!SameHead(i, j) /\ Finance!Before(money, latestFirst, j, i)}
KeyIn(rows, money, latestFirst, i) == Finance!Key(i, 1 + Cardinality(Earlier(rows, money, latestFirst, i)))

\* A row that stands before another has a smaller ordinal.
LEMMA EarlierIsLess ==
  ASSUME NEW rows \in SUBSET Ids, NEW money, NEW latestFirst \in BOOLEAN, NEW i \in rows, NEW j \in rows,
         \A k \in rows : money[k].gross \in Int /\ money[k].net \in Int,
         Finance!SameHead(i, j), Finance!Before(money, latestFirst, i, j)
  PROVE  KeyIn(rows, money, latestFirst, i) # KeyIn(rows, money, latestFirst, j)
<1> DEFINE A == Earlier(rows, money, latestFirst, i)
           B == Earlier(rows, money, latestFirst, j)
<1>0. \A k \in rows : k \in Nat /\ money[k].gross \in Int /\ money[k].net \in Int
  BY AmountsBounds
<1>1. i \in B /\ i \notin A
  BY <1>0 DEF Earlier, Finance!Before, Finance!SameHead
<1>2. ASSUME NEW k \in A PROVE k \in B
  <2>1. k \in rows /\ Finance!SameHead(i, k) /\ Finance!Before(money, latestFirst, k, i)
    BY <1>2 DEF Earlier
  <2>2. Finance!SameHead(j, k)
    BY <2>1 DEF Finance!SameHead
  <2>3. Finance!Before(money, latestFirst, k, j)
    BY <1>0, <2>1 DEF Finance!Before
  <2> QED BY <2>1, <2>2, <2>3 DEF Earlier
<1>3. IsFiniteSet(B) /\ A \in SUBSET B
  <2>1. B \in SUBSET Ids
    BY DEF Earlier
  <2> QED BY <1>2, <2>1, AmountsBounds, FS_Subset
<1> HIDE DEF A, B
<1>4. Cardinality(A) \in Nat /\ Cardinality(B) \in Nat /\ Cardinality(A) # Cardinality(B)
  BY <1>1, <1>3, FS_Subset, FS_CardinalityType
<1>5. Finance!Key(i, 1 + Cardinality(A)) # Finance!Key(j, 1 + Cardinality(B))
  <2>1. 1 + Cardinality(A) # 1 + Cardinality(B)
    BY <1>4
  <2>2. \A m, n : Finance!Key(i, m) = Finance!Key(j, n) => m = n
    BY DEF Finance!Key
  <2> QED BY <2>1, <2>2
<1> QED BY <1>5 DEF KeyIn, A, B

\* So no two rows have one key.
LEMMA KeysDiffer ==
  ASSUME NEW rows \in SUBSET Ids, NEW money, NEW latestFirst \in BOOLEAN, NEW i \in rows, NEW j \in rows,
         \A k \in rows : money[k].gross \in Int /\ money[k].net \in Int,
         KeyIn(rows, money, latestFirst, i) = KeyIn(rows, money, latestFirst, j)
  PROVE  i = j
<1>0. \A k \in rows : k \in Nat /\ money[k].gross \in Int /\ money[k].net \in Int
  BY AmountsBounds
<1>1. Finance!SameHead(i, j) /\ Finance!SameHead(j, i)
  BY DEF KeyIn, Finance!Key, Finance!SameHead
<1>2. i = j \/ Finance!Before(money, latestFirst, i, j) \/ Finance!Before(money, latestFirst, j, i)
  BY <1>0 DEF Finance!Before
<1> QED BY <1>1, <1>2, EarlierIsLess

\* The rows by their keys are all of them, each under its own.
LEMMA KeyedIsAll ==
  ASSUME NEW rows \in SUBSET Ids, NEW money, NEW latestFirst \in BOOLEAN,
         \A k \in rows : money[k].gross \in Int /\ money[k].net \in Int
  PROVE  LET keyed == Finance!Keyed(rows, money, latestFirst)
         IN  /\ DOMAIN keyed = {KeyIn(rows, money, latestFirst, i) : i \in rows}
             /\ \A i \in rows : keyed[KeyIn(rows, money, latestFirst, i)] = i
<1> DEFINE keyed == Finance!Keyed(rows, money, latestFirst)
           OwnKey(i) == KeyIn(rows, money, latestFirst, i)
<1>1. keyed = [k \in {OwnKey(i) : i \in rows} |-> CHOOSE i \in rows : OwnKey(i) = k]
  <2> DEFINE Theirs(i) ==
               Finance!Key(i, 1 + Finance!Cardinality({j \in rows : Finance!SameHead(i, j)
                                                                   /\ Finance!Before(money, latestFirst, j, i)}))
  <2>1. keyed = [k \in {Theirs(i) : i \in rows} |-> CHOOSE i \in rows : Theirs(i) = k]
    BY DEF Finance!Keyed
  <2>2. \A i : Theirs(i) = OwnKey(i)
    BY LedgerCount DEF KeyIn, Earlier
  <2> HIDE DEF Theirs, OwnKey, keyed
  <2>3. {Theirs(i) : i \in rows} = {OwnKey(i) : i \in rows}
    BY <2>2
  <2>4. \A k : (CHOOSE i \in rows : Theirs(i) = k) = (CHOOSE i \in rows : OwnKey(i) = k)
    BY <2>2
  <2> QED BY <2>1, <2>3, <2>4
<1>2. ASSUME NEW i \in rows PROVE (CHOOSE j \in rows : OwnKey(j) = OwnKey(i)) = i
  <2>1. \A j \in rows : OwnKey(j) = OwnKey(i) => j = i
    BY KeysDiffer
  <2> HIDE DEF OwnKey
  <2> QED BY <2>1
<1> HIDE DEF keyed, OwnKey
<1>3. DOMAIN keyed = {OwnKey(i) : i \in rows} /\ \A i \in rows : keyed[OwnKey(i)] = i
  BY <1>1, <1>2
<1> QED BY <1>3 DEF keyed, OwnKey

SqlKey(i) == KeyIn(Finance!SqlRows, Finance!SqlMoney, newest, i)
RestKey(i) == KeyIn(Finance!RestRows, Finance!RestMoney, FALSE, i)

\* The two sides of a comparison.
LEMMA SidesAreRows ==
  ASSUME LedgerInv
  PROVE  /\ Finance!SqlRows \in SUBSET Ids /\ Finance!RestRows \in SUBSET Ids
         /\ \A i \in Ids : /\ Finance!SqlMoney[i].gross = backup[i].gross
                           /\ Finance!SqlMoney[i].net = backup[i].net
                           /\ Finance!SqlMoney[i].paid = backup[i].paid
                           /\ backup[i].gross \in Int /\ backup[i].net \in Int /\ backup[i].paid \in Int
         /\ \A i \in Ids : /\ Finance!RestMoney[i].gross = books[i].gross + Rounding[i]
                           /\ Finance!RestMoney[i].net = books[i].net + Rounding[i]
                           /\ Finance!RestMoney[i].paid = books[i].paid
                           /\ books[i].gross \in Int /\ books[i].net \in Int /\ books[i].paid \in Int
                           /\ Rounding[i] \in Int /\ 0 <= Rounding[i] /\ Rounding[i] <= TOLERANCE
<1>1. Finance!SqlRows \in SUBSET Ids /\ Finance!RestRows \in SUBSET Ids
  BY DEF Finance!SqlRows, Finance!RestRows, Finance!Identified, Finance!Posted, Finance!Listed
<1>2. \A i \in Ids : books[i] \in Papers /\ backup[i] \in Papers
  BY DEF LedgerInv
<1>3. \A i \in Ids : /\ Finance!SqlMoney[i].gross = backup[i].gross /\ Finance!SqlMoney[i].net = backup[i].net
                     /\ Finance!SqlMoney[i].paid = backup[i].paid
  BY DEF Finance!SqlMoney
<1>4. \A i \in Ids : /\ Finance!RestMoney[i].gross = books[i].gross + Rounding[i]
                     /\ Finance!RestMoney[i].net = books[i].net + Rounding[i]
                     /\ Finance!RestMoney[i].paid = books[i].paid
  BY DEF Finance!RestMoney
<1>5. \A i \in Ids : /\ books[i].gross \in Int /\ books[i].net \in Int /\ books[i].paid \in Int
                     /\ backup[i].gross \in Int /\ backup[i].net \in Int /\ backup[i].paid \in Int
  BY <1>2, PapersAreNumbers
<1> QED BY <1>1, <1>3, <1>4, <1>5, AmountsBounds

\* Both are keyed, each row under its own key.
LEMMA SidesAreKeyed ==
  ASSUME LedgerInv
  PROVE  LET sql == Finance!Keyed(Finance!SqlRows, Finance!SqlMoney, newest)
             rest == Finance!Keyed(Finance!RestRows, Finance!RestMoney, FALSE)
         IN  /\ DOMAIN sql = {SqlKey(i) : i \in Finance!SqlRows} /\ \A i \in Finance!SqlRows : sql[SqlKey(i)] = i
             /\ DOMAIN rest = {RestKey(i) : i \in Finance!RestRows}
             /\ \A i \in Finance!RestRows : rest[RestKey(i)] = i
<1>1. Finance!SqlRows \in SUBSET Ids /\ Finance!RestRows \in SUBSET Ids /\ newest \in BOOLEAN /\ FALSE \in BOOLEAN
  BY SidesAreRows DEF LedgerInv
<1>2. \A i \in Finance!SqlRows : Finance!SqlMoney[i].gross \in Int /\ Finance!SqlMoney[i].net \in Int
  BY SidesAreRows
<1>3. \A i \in Finance!RestRows : Finance!RestMoney[i].gross \in Int /\ Finance!RestMoney[i].net \in Int
  <2> TAKE i \in Finance!RestRows
  <2>1. /\ Finance!RestMoney[i].gross = books[i].gross + Rounding[i] /\ books[i].gross \in Int
        /\ Finance!RestMoney[i].net = books[i].net + Rounding[i] /\ books[i].net \in Int
        /\ Rounding[i] \in Int
    BY <1>1, SidesAreRows
  <2> QED BY <2>1
<1>4. LET sql == Finance!Keyed(Finance!SqlRows, Finance!SqlMoney, newest)
      IN  DOMAIN sql = {SqlKey(i) : i \in Finance!SqlRows} /\ \A i \in Finance!SqlRows : sql[SqlKey(i)] = i
  BY <1>1, <1>2, KeyedIsAll DEF SqlKey
<1>5. LET rest == Finance!Keyed(Finance!RestRows, Finance!RestMoney, FALSE)
      IN  DOMAIN rest = {RestKey(i) : i \in Finance!RestRows} /\ \A i \in Finance!RestRows : rest[RestKey(i)] = i
  BY <1>1, <1>3, KeyedIsAll DEF RestKey
<1> QED BY <1>4, <1>5

\* What the comparison calls fine, or explains, is the same worth.
LEMMA SameWorth ==
  ASSUME LedgerInv, NEW i \in Ids, NEW j \in Ids, NEW code, NEW strict \in BOOLEAN,
         \/ Finance!Fine(Finance!SqlMoney[i], Finance!RestMoney[j])
         \/ ~strict /\ Finance!Explained(code, Finance!SqlMoney[i], Finance!RestMoney[j])
  PROVE  /\ Finance!Alike(backup[i].gross, books[j].gross) /\ Finance!Alike(backup[i].net, books[j].net)
         /\ \/ Finance!Near(backup[i].paid, books[j].paid)
            \/ ~strict /\ (backup[i].paid < books[j].paid \/ code \in reviewed)
<1> DEFINE s == Finance!SqlMoney[i]
           r == Finance!RestMoney[j]
<1>0. TOLERANCE \in Nat
  BY AmountsBounds
<1>1. /\ s.gross = backup[i].gross /\ s.net = backup[i].net /\ s.paid = backup[i].paid
      /\ backup[i].gross \in Int /\ backup[i].net \in Int /\ backup[i].paid \in Int
  BY SidesAreRows
<1>2. /\ r.gross = books[j].gross + Rounding[j] /\ r.net = books[j].net + Rounding[j] /\ r.paid = books[j].paid
      /\ books[j].gross \in Int /\ books[j].net \in Int /\ books[j].paid \in Int
      /\ Rounding[j] \in Int /\ 0 <= Rounding[j] /\ Rounding[j] <= TOLERANCE
  BY SidesAreRows
<1>4. \/ Finance!Fine(s, r)
      \/ ~strict /\ Finance!Explained(code, s, r)
  OBVIOUS
<1> HIDE DEF s, r
<1>5. Finance!SamePrice(s, r)
  BY <1>4 DEF Finance!Fine, Finance!Explained
<1>6. Finance!Alike(backup[i].gross, books[j].gross)
  <2>1. Finance!Near(backup[i].gross, books[j].gross + Rounding[j])
    BY <1>1, <1>2, <1>5 DEF Finance!SamePrice
  <2> QED BY <1>0, <1>1, <1>2, <2>1 DEF Finance!Near, Finance!Alike
<1>7. Finance!Alike(backup[i].net, books[j].net)
  <2>1. Finance!Near(backup[i].net, books[j].net + Rounding[j])
    BY <1>1, <1>2, <1>5 DEF Finance!SamePrice
  <2> QED BY <1>0, <1>1, <1>2, <2>1 DEF Finance!Near, Finance!Alike
<1>8. Finance!Fine(s, r) => Finance!Near(backup[i].paid, books[j].paid)
  BY <1>1, <1>2 DEF Finance!Fine
<1>9. Finance!Explained(code, s, r) => backup[i].paid < books[j].paid \/ code \in reviewed
  BY <1>0, <1>1, <1>2 DEF Finance!Explained
<1> QED BY <1>4, <1>6, <1>7, <1>8, <1>9

\* A comparison that finds nothing has paired the documents of the backup with those of the books.
LEMMA PassIsAPairing ==
  ASSUME LedgerInv, NEW strict \in BOOLEAN, Finance!Verdict(Finance!Compare(strict))
  PROVE  Finance!SameDocuments(Finance!RestRows, strict)
<1> DEFINE sql == Finance!Keyed(Finance!SqlRows, Finance!SqlMoney, newest)
           rest == Finance!Keyed(Finance!RestRows, Finance!RestMoney, FALSE)
           S == Finance!SqlRows
           R == Finance!RestRows
           f == [i \in S |-> rest[SqlKey(i)]]
<1>1. /\ DOMAIN sql = {SqlKey(i) : i \in S} /\ \A i \in S : sql[SqlKey(i)] = i
      /\ DOMAIN rest = {RestKey(i) : i \in R} /\ \A i \in R : rest[RestKey(i)] = i
  BY SidesAreKeyed
<1>2. /\ DOMAIN sql = DOMAIN rest
      /\ \A k \in DOMAIN sql : \/ Finance!Fine(Finance!SqlMoney[sql[k]], Finance!RestMoney[rest[k]])
                               \/ ~strict /\ Finance!Explained(k.code, Finance!SqlMoney[sql[k]], Finance!RestMoney[rest[k]])
  BY DEF Finance!Verdict, Finance!Compare
<1> HIDE DEF sql, rest, S, R
<1>3. \A k \in DOMAIN rest : rest[k] \in R /\ RestKey(rest[k]) = k
  BY <1>1
<1>4. \A i \in S : SqlKey(i) \in DOMAIN rest /\ f[i] \in R /\ RestKey(f[i]) = SqlKey(i)
  BY <1>1, <1>2, <1>3
<1>5. f \in Finance!Bijection(S, R)
  <2>1. f \in [S -> R]
    BY <1>4
  <2>2. \A i, j \in S : f[i] = f[j] => i = j
    BY <1>1, <1>4
  <2>3. \A j \in R : \E i \in S : f[i] = j
    <3> TAKE j \in R
    <3>1. RestKey(j) \in DOMAIN sql /\ rest[RestKey(j)] = j
      BY <1>1, <1>2
    <3>2. PICK i \in S : SqlKey(i) = RestKey(j)
      BY <1>1, <3>1
    <3> QED BY <3>1, <3>2
  <2> HIDE DEF f
  <2> QED BY <2>1, <2>2, <2>3 DEF Finance!Bijection, Finance!Injection, Finance!Surjection, Finance!IsInjective
<1>6. ASSUME NEW i \in S
      PROVE  /\ Finance!SameHead(i, f[i])
             /\ Finance!Alike(backup[i].gross, books[f[i]].gross) /\ Finance!Alike(backup[i].net, books[f[i]].net)
             /\ \/ Finance!Near(backup[i].paid, books[f[i]].paid)
                \/ ~strict /\ (backup[i].paid < books[f[i]].paid \/ Heads[i].code \in reviewed)
  <2>1. RestKey(f[i]) = SqlKey(i) /\ f[i] \in R /\ f[i] = rest[SqlKey(i)] /\ sql[SqlKey(i)] = i /\ SqlKey(i) \in DOMAIN sql
    BY <1>1, <1>4
  <2>2. SqlKey(i).code = Heads[i].code
    BY DEF SqlKey, KeyIn, Finance!Key
  <2>3. Finance!SameHead(i, f[i])
    BY <2>1 DEF SqlKey, RestKey, KeyIn, Finance!Key, Finance!SameHead
  <2>4. \/ Finance!Fine(Finance!SqlMoney[i], Finance!RestMoney[f[i]])
        \/ ~strict /\ Finance!Explained(Heads[i].code, Finance!SqlMoney[i], Finance!RestMoney[f[i]])
    BY <1>2, <2>1, <2>2
  <2>5. i \in Ids /\ f[i] \in Ids
    BY <2>1, SidesAreRows DEF S, R
  <2> HIDE DEF f
  <2> QED BY <2>3, <2>4, <2>5, SameWorth
<1> HIDE DEF f
<1> QED BY <1>5, <1>6 DEF Finance!SameDocuments, S, R

\* No difference is let through.
LEMMA NothingFalsePasses == ASSUME LedgerInv PROVE Finance!NoFalsePass
<1>1. ASSUME Finance!Unreadable = {} PROVE Finance!RestRows = Finance!InBooks \ Finance!Invalid
  BY <1>1 DEF Finance!Unreadable, Finance!RestRows, Finance!InBooks, Finance!Identified, Finance!Posted,
     Finance!Listed, Finance!Inaccessible, Finance!Invalid, Finance!Absent
<1>2. ASSUME NEW strict \in BOOLEAN, Finance!Reconciled(strict)
      PROVE  Finance!SameDocuments(Finance!InBooks, strict)
  <2>1. Finance!Unreadable = {} /\ {i \in Finance!Invalid : Finance!InPeriod(i)} = {} /\ Finance!Verdict(Finance!Compare(strict))
    BY <1>2 DEF Finance!Reconciled
  <2>2. Finance!InBooks \ Finance!Invalid = Finance!InBooks
    BY <2>1 DEF Finance!InBooks
  <2> QED BY <1>1, <2>1, <2>2, PassIsAPairing
<1>3. Finance!GuardPasses => Finance!SameDocuments(Finance!InBooks \ Finance!Invalid, FALSE)
  BY <1>1, PassIsAPairing DEF Finance!GuardPasses
<1> QED BY <1>2, <1>3 DEF Finance!NoFalsePass

\* Nor is a difference made up: rows that are as they were have the keys they had.
LEMMA NothingFalseAlarms == ASSUME LedgerInv PROVE Finance!NoFalseAlarm
<1> DEFINE Unchanged ==
             \A i \in Ids : Finance!InPeriod(i) =>
               /\ veil[i] = "whole" /\ (books[i].state = "posted") = (backup[i].state = "posted")
               /\ i \in Finance!InBooks => /\ books[i].gross = backup[i].gross /\ books[i].net = backup[i].net
                                           /\ books[i].paid >= backup[i].paid
           Twins == \E i \in Finance!InBooks : \E j \in Finance!InBooks \ {i} :
                      Finance!SameHead(i, j) /\ Finance!Near(books[i].gross, books[j].gross)
           R == Finance!InBooks
<1> SUFFICES ASSUME Unchanged, ~Twins PROVE Finance!GuardPasses
  BY DEF Finance!NoFalseAlarm
<1>0. TOLERANCE \in Nat
  BY AmountsBounds
<1>1. R = Finance!SqlRows /\ R = Finance!RestRows /\ R \in SUBSET Ids /\ Finance!Unreadable = {}
  BY DEF Finance!InBooks, Finance!SqlRows, Finance!RestRows, Finance!Identified, Finance!Posted, Finance!Invalid,
     Finance!Listed, Finance!Unreadable, Finance!Inaccessible, Finance!Absent
<1>2. ASSUME NEW i \in R
      PROVE  /\ i \in Nat /\ backup[i].gross = books[i].gross /\ backup[i].net = books[i].net
             /\ backup[i].paid <= books[i].paid
             /\ Finance!SqlMoney[i].gross = books[i].gross /\ Finance!SqlMoney[i].net = books[i].net
             /\ Finance!SqlMoney[i].paid = backup[i].paid
             /\ Finance!RestMoney[i].gross = books[i].gross + Rounding[i]
             /\ Finance!RestMoney[i].net = books[i].net + Rounding[i] /\ Finance!RestMoney[i].paid = books[i].paid
             /\ books[i].gross \in Int /\ books[i].net \in Int /\ books[i].paid \in Int /\ backup[i].paid \in Int
             /\ Rounding[i] \in Int /\ 0 <= Rounding[i] /\ Rounding[i] <= TOLERANCE
  <2>1. i \in Ids /\ Finance!InPeriod(i)
    BY <1>1 DEF Finance!InBooks
  <2>2. /\ backup[i].gross = books[i].gross /\ backup[i].net = books[i].net /\ books[i].paid >= backup[i].paid
    BY <2>1
  <2>3. i \in Nat
    BY <2>1, AmountsBounds
  <2> QED BY <2>1, <2>2, <2>3, SidesAreRows
<1>3. ASSUME NEW i \in R, NEW j \in R, Finance!SameHead(i, j)
      PROVE  Finance!Before(Finance!SqlMoney, newest, j, i) <=> Finance!Before(Finance!RestMoney, FALSE, j, i)
  <2>1. CASE i = j
    BY <1>2, <2>1 DEF Finance!Before
  <2>2. CASE i # j
    <3>1. ~Finance!Near(books[i].gross, books[j].gross)
      <4>1. j \in R \ {i}
        BY <2>2
      <4> QED BY <1>3, <4>1, Zenon
    <3>2. \/ books[i].gross - books[j].gross > TOLERANCE
          \/ books[j].gross - books[i].gross > TOLERANCE
      BY <1>0, <1>2, <3>1 DEF Finance!Near
    <3>3. CASE books[i].gross - books[j].gross > TOLERANCE
      BY <1>0, <1>2, <3>3 DEF Finance!Before
    <3>4. CASE books[j].gross - books[i].gross > TOLERANCE
      BY <1>0, <1>2, <3>4 DEF Finance!Before
    <3> QED BY <3>2, <3>3, <3>4
  <2> QED BY <2>1, <2>2
<1> HIDE DEF Unchanged, Twins, R
<1>4. ASSUME NEW i \in R PROVE SqlKey(i) = RestKey(i)
  <2>1. Earlier(R, Finance!SqlMoney, newest, i) = Earlier(R, Finance!RestMoney, FALSE, i)
    BY <1>3 DEF Earlier
  <2> QED BY <1>1, <2>1 DEF SqlKey, RestKey, KeyIn
<1> DEFINE sql == Finance!Keyed(Finance!SqlRows, Finance!SqlMoney, newest)
           rest == Finance!Keyed(Finance!RestRows, Finance!RestMoney, FALSE)
<1>5. /\ DOMAIN sql = {SqlKey(i) : i \in R} /\ \A i \in R : sql[SqlKey(i)] = i
      /\ DOMAIN rest = {RestKey(i) : i \in R} /\ \A i \in R : rest[RestKey(i)] = i
  BY <1>1, SidesAreKeyed
<1> HIDE DEF sql, rest
<1>6. DOMAIN sql = DOMAIN rest /\ \A k \in DOMAIN sql : sql[k] \in R /\ rest[k] = sql[k]
  <2>1. {SqlKey(i) : i \in R} = {RestKey(i) : i \in R}
    BY <1>4
  <2>2. ASSUME NEW k \in DOMAIN sql PROVE sql[k] \in R /\ rest[k] = sql[k]
    <3>1. PICK i \in R : k = SqlKey(i)
      BY <1>5
    <3>2. sql[k] = i /\ rest[k] = i
      BY <1>4, <1>5, <3>1
    <3> QED BY <3>2
  <2> QED BY <1>5, <2>1, <2>2
<1>7. ASSUME NEW i \in R, NEW code
      PROVE  \/ Finance!Fine(Finance!SqlMoney[i], Finance!RestMoney[i])
             \/ Finance!Explained(code, Finance!SqlMoney[i], Finance!RestMoney[i])
  <2> DEFINE s == Finance!SqlMoney[i]
             r == Finance!RestMoney[i]
  <2>1. /\ s.gross \in Int /\ s.net \in Int /\ s.paid \in Int /\ r.gross \in Int /\ r.net \in Int /\ r.paid \in Int
        /\ s.gross <= r.gross /\ r.gross <= s.gross + TOLERANCE
        /\ s.net <= r.net /\ r.net <= s.net + TOLERANCE /\ s.paid <= r.paid
    BY <1>0, <1>2
  <2> HIDE DEF s, r
  <2>2. Finance!SamePrice(s, r)
    BY <1>0, <2>1 DEF Finance!SamePrice, Finance!Near
  <2>3. Finance!Near(s.paid, r.paid) \/ r.paid > s.paid + TOLERANCE
    BY <1>0, <2>1 DEF Finance!Near
  <2>4. Finance!Fine(s, r) \/ Finance!Explained(code, s, r)
    BY <2>2, <2>3 DEF Finance!Fine, Finance!Explained
  <2> QED BY <2>4 DEF s, r
<1>8. /\ DOMAIN sql \ DOMAIN rest = {} /\ DOMAIN rest \ DOMAIN sql = {}
      /\ \A k \in DOMAIN sql \cap DOMAIN rest :
           \/ Finance!Fine(Finance!SqlMoney[sql[k]], Finance!RestMoney[rest[k]])
           \/ Finance!Explained(k.code, Finance!SqlMoney[sql[k]], Finance!RestMoney[rest[k]])
  BY <1>6, <1>7
<1>9. Finance!Verdict(Finance!Compare(FALSE))
  BY <1>8 DEF Finance!Verdict, Finance!Compare, sql, rest
<1> QED BY <1>1, <1>9 DEF Finance!GuardPasses

\* Adding up a set of amounts, one element after the other.
Adding(f, S, a) ==
  f = [T \in SUBSET S |-> IF T = {} THEN 0 ELSE LET x == CHOOSE x \in T : TRUE IN a[x] + f[T \ {x}]]

SumOf(S, a) == (CHOOSE f : Adding(f, S, a))[S]

\* A smaller set, of one element less.
LEMMA OneLess ==
  ASSUME NEW S, IsFiniteSet(S), NEW T \in SUBSET S, T # {}
  PROVE  LET x == CHOOSE x \in T : TRUE
         IN  /\ x \in T /\ T \ {x} \in SUBSET S /\ IsFiniteSet(T \ {x})
             /\ Cardinality(T) \in Nat \ {0} /\ Cardinality(T \ {x}) = Cardinality(T) - 1
<1> DEFINE x == CHOOSE x \in T : TRUE
<1>1. x \in T
  OBVIOUS
<1> HIDE DEF x
<1>2. IsFiniteSet(T)
  BY FS_Subset
<1>3. Cardinality(T) \in Nat /\ Cardinality(T) # 0
  BY <1>2, FS_CardinalityType, FS_EmptySet
<1>4. IsFiniteSet(T \ {x}) /\ Cardinality(T \ {x}) = Cardinality(T) - 1
  BY <1>1, <1>2, FS_RemoveElement
<1>5. T \ {x} \in SUBSET S
  OBVIOUS
<1> QED BY <1>1, <1>3, <1>4, <1>5 DEF x

LEMMA AddingExists ==
  ASSUME NEW S, IsFiniteSet(S), NEW a
  PROVE  \E f : Adding(f, S, a)
<1> DEFINE Small(n) == {T \in SUBSET S : Cardinality(T) <= n}
           Added(f, T) == IF T = {} THEN 0 ELSE LET x == CHOOSE x \in T : TRUE IN a[x] + f[T \ {x}]
           Adds(f, n) == f = [T \in Small(n) |-> Added(f, T)]
           Without == {n \in Nat : ~\E f : Adds(f, n)}
<1>0. Cardinality({}) = 0 /\ \A T \in SUBSET S : Cardinality(T) \in Nat /\ (Cardinality(T) = 0 <=> T = {})
  BY FS_Subset, FS_EmptySet, FS_CardinalityType
<1>1. Without = {}
  <2> SUFFICES ASSUME Without # {} PROVE FALSE
    OBVIOUS
  <2>1. PICK n \in Without : \A m \in Without : n <= m
    <3>1. Without \in SUBSET Nat
      OBVIOUS
    <3> HIDE DEF Without
    <3> QED BY <3>1, LeastOf
  <2>2. CASE n = 0
    <3> DEFINE f == [T \in Small(0) |-> 0]
    <3>1. \A T \in Small(0) : T = {}
      BY <1>0
    <3>2. Adds(f, 0)
      <4>1. \A T \in Small(0) : Added(f, T) = 0
        BY <3>1
      <4> HIDE DEF Added
      <4> QED BY <4>1
    <3> HIDE DEF f, Adds
    <3> QED BY <2>1, <2>2, <3>2
  <2>3. CASE n # 0
    <3>1. n - 1 \in Nat /\ n - 1 \notin Without
      <4>1. n \in Nat
        OBVIOUS
      <4> HIDE DEF Without
      <4> QED BY <2>1, <2>3, <4>1
    <3>2. PICK f : Adds(f, n - 1)
      <4> HIDE DEF Adds
      <4> QED BY <3>1
    <3> DEFINE g == [T \in Small(n) |-> Added(f, T)]
    <3>3. \A T \in Small(n - 1) : T \in Small(n) /\ g[T] = f[T]
      <4> TAKE T \in Small(n - 1)
      <4>1. T \in Small(n)
        BY <1>0, <2>1
      <4>2. f[T] = Added(f, T)
        <5> HIDE DEF Added, Small
        <5> QED BY <3>2
      <4> HIDE DEF Added, Small
      <4> QED BY <4>1, <4>2
    <3>4. ASSUME NEW T \in Small(n) PROVE Added(g, T) = Added(f, T)
      <4>1. CASE T = {}
        BY <4>1
      <4>2. CASE T # {}
        <5> DEFINE x == CHOOSE x \in T : TRUE
        <5>1. T \ {x} \in SUBSET S /\ Cardinality(T \ {x}) = Cardinality(T) - 1
          BY <4>2, OneLess
        <5>2. T \ {x} \in Small(n - 1)
          BY <1>0, <2>1, <5>1
        <5>3. g[T \ {x}] = f[T \ {x}]
          BY <3>3, <5>2
        <5>4. Added(g, T) = a[x] + g[T \ {x}] /\ Added(f, T) = a[x] + f[T \ {x}]
          BY <4>2
        <5> HIDE DEF x, g, Added, Small
        <5> QED BY <5>3, <5>4
      <4> QED BY <4>1, <4>2
    <3>5. Adds(g, n)
      <4>1. g = [T \in Small(n) |-> Added(f, T)]
        OBVIOUS
      <4> HIDE DEF g, Added, Small
      <4> QED BY <3>4, <4>1
    <3> HIDE DEF g, Adds
    <3> QED BY <2>1, <3>5
  <2> QED BY <2>2, <2>3
<1>2. Cardinality(S) \in Nat /\ Small(Cardinality(S)) = SUBSET S
  BY FS_Subset, FS_CardinalityType
<1>3. PICK f : Adds(f, Cardinality(S))
  <2> HIDE DEF Adds
  <2> QED BY <1>1, <1>2
<1>4. Adding(f, S, a)
  BY <1>2, <1>3 DEF Adding
<1> QED BY <1>4

\* Sums of amounts that are not far apart are not far apart.
LEMMA SumsCompare ==
  ASSUME NEW S, IsFiniteSet(S), NEW a, NEW b, NEW t \in Nat,
         \A x \in S : a[x] \in Int /\ b[x] \in Int /\ a[x] <= b[x] /\ b[x] <= a[x] + t
  PROVE  /\ SumOf(S, a) \in Int /\ SumOf(S, b) \in Int
         /\ SumOf(S, a) <= SumOf(S, b) /\ SumOf(S, b) <= SumOf(S, a) + t * Cardinality(S)
<1> DEFINE f == CHOOSE h : Adding(h, S, a)
           g == CHOOSE h : Adding(h, S, b)
           Close(T) == /\ f[T] \in Int /\ g[T] \in Int
                       /\ f[T] <= g[T] /\ g[T] <= f[T] + t * Cardinality(T)
           Apart == {n \in Nat : \E T \in SUBSET S : Cardinality(T) = n /\ ~Close(T)}
<1>1. Adding(f, S, a) /\ Adding(g, S, b)
  BY AddingExists
<1> HIDE DEF f, g
<1>2. ASSUME NEW T \in SUBSET S, T # {}
      PROVE  LET x == CHOOSE x \in T : TRUE
             IN  f[T] = a[x] + f[T \ {x}] /\ g[T] = b[x] + g[T \ {x}]
  BY <1>1, <1>2 DEF Adding
<1>3. f[{}] = 0 /\ g[{}] = 0
  BY <1>1 DEF Adding
<1>4. Apart = {}
  <2> SUFFICES ASSUME Apart # {} PROVE FALSE
    OBVIOUS
  <2>1. PICK n \in Apart : \A m \in Apart : n <= m
    <3>1. Apart \in SUBSET Nat
      OBVIOUS
    <3> HIDE DEF Apart
    <3> QED BY <3>1, LeastOf
  <2>2. PICK T \in SUBSET S : Cardinality(T) = n /\ ~Close(T)
    BY <2>1
  <2>3. T # {}
    <3>1. Close({})
      BY <1>3, FS_EmptySet
    <3> QED BY <2>2, <3>1
  <2> DEFINE x == CHOOSE x \in T : TRUE
  <2>4. /\ x \in T /\ T \ {x} \in SUBSET S /\ Cardinality(T) \in Nat \ {0}
        /\ Cardinality(T \ {x}) = Cardinality(T) - 1
    BY <2>3, OneLess
  <2>5. f[T] = a[x] + f[T \ {x}] /\ g[T] = b[x] + g[T \ {x}]
    BY <1>2, <2>3
  <2> HIDE DEF x
  <2>6. n \in Nat \ {0} /\ n - 1 \in Nat /\ n - 1 \notin Apart
    BY <2>1, <2>2, <2>4
  <2>7. Close(T \ {x})
    BY <2>2, <2>4, <2>6
  <2>8. a[x] \in Int /\ b[x] \in Int /\ a[x] <= b[x] /\ b[x] <= a[x] + t
    BY <2>4
  <2>9. t * (n - 1) + t = t * n /\ t * n \in Int /\ t * (n - 1) \in Int
    BY <2>6
  <2> DEFINE u == f[T \ {x}]
             v == g[T \ {x}]
             low == t * (n - 1)
             high == t * n
  <2>10. u \in Int /\ v \in Int /\ u <= v /\ v <= u + low /\ low + t = high /\ low \in Int /\ high \in Int
    BY <2>2, <2>4, <2>7, <2>9
  <2>11. f[T] = a[x] + u /\ g[T] = b[x] + v
    BY <2>5
  <2> HIDE DEF u, v, low, high
  <2>12. f[T] \in Int /\ g[T] \in Int /\ f[T] <= g[T] /\ g[T] <= f[T] + high
    BY <2>8, <2>10, <2>11
  <2> QED BY <2>2, <2>12 DEF high
<1>5. Close(S)
  <2>1. Cardinality(S) \in Nat
    BY FS_CardinalityType
  <2>2. S \in SUBSET S
    OBVIOUS
  <2> HIDE DEF Close
  <2> QED BY <1>4, <2>1, <2>2
<1> QED BY <1>5 DEF SumOf, f, g

\* More elements, more slack.
LEMMA SlackGrows ==
  ASSUME NEW m \in Nat, NEW n \in Nat, m <= n, NEW t \in Nat
  PROVE  t * m \in Nat /\ t * n \in Nat /\ t * m <= t * n
OBVIOUS

\* The figures are such sums.
Owes == [i \in Ids |-> Finance!Outstanding(i)]
Dues == [i \in Ids |-> books[i].net - books[i].paid]

LEMMA OutstandingIsASum ==
  ASSUME NEW S \in SUBSET Ids
  PROVE  Finance!Sum(S, Finance!Outstanding) = SumOf(S, Owes)
<1> DEFINE F(h) == h = [T \in SUBSET S |-> IF T = {} THEN 0
                                          ELSE LET x == CHOOSE x \in T : TRUE IN Finance!Outstanding(x) + h[T \ {x}]]
<1>1. Finance!Sum(S, Finance!Outstanding) = (CHOOSE h : F(h))[S]
  BY DEF Finance!Sum, Finance!MapThenSumSet, Finance!MapThenFoldSet
<1>2. \A h : F(h) <=> Adding(h, S, Owes)
  <2> TAKE h
  <2>1. \A T \in SUBSET S :
          (IF T = {} THEN 0 ELSE LET x == CHOOSE x \in T : TRUE IN Finance!Outstanding(x) + h[T \ {x}]) =
          (IF T = {} THEN 0 ELSE LET x == CHOOSE x \in T : TRUE IN Owes[x] + h[T \ {x}])
    <3> TAKE T \in SUBSET S
    <3>1. ASSUME T # {} PROVE Owes[CHOOSE x \in T : TRUE] = Finance!Outstanding(CHOOSE x \in T : TRUE)
      <4>1. (CHOOSE x \in T : TRUE) \in Ids
        BY <3>1
      <4> QED BY <4>1 DEF Owes
    <3> QED BY <3>1
  <2> QED BY <2>1 DEF Adding
<1> HIDE DEF F
<1>3. (CHOOSE h : F(h)) = (CHOOSE h : Adding(h, S, Owes))
  BY <1>2
<1> QED BY <1>1, <1>3 DEF SumOf

\* The rows that are posted are what a complete snapshot has.
OwedTo(p) == {i \in Ids : books[i].state = "posted" /\ Heads[i].type = PartyType /\ Heads[i].party = p}

LEMMA CompleteShowsAll ==
  ASSUME Finance!Complete
  PROVE  /\ Finance!Identified = {i \in Ids : books[i].state = "posted"}
         /\ Finance!Scoped = {i \in Ids : books[i].state = "posted" /\ Heads[i].type = PartyType}
         /\ \A p : {i \in Finance!Scoped : Heads[i].party = p} = OwedTo(p)
<1>1. Finance!Identified = {i \in Ids : books[i].state = "posted"}
  BY DEF Finance!Complete, Finance!Identified, Finance!Posted, Finance!Invalid, Finance!Inaccessible, Finance!Listed,
     Finance!Absent
<1>2. Finance!Scoped = {i \in Ids : books[i].state = "posted" /\ Heads[i].type = PartyType}
  BY <1>1 DEF Finance!Scoped
<1> QED BY <1>1, <1>2 DEF OwedTo

\* What is outstanding by the lines is what is due, to the rounding of each document.
LEMMA OutstandingIsDue ==
  ASSUME LedgerInv, NEW S \in SUBSET Ids
  PROVE  /\ SumOf(S, Dues) \in Int /\ SumOf(S, Owes) \in Int
         /\ SumOf(S, Dues) <= SumOf(S, Owes) /\ SumOf(S, Owes) <= SumOf(S, Dues) + TOLERANCE * Cardinality(S)
<1>1. IsFiniteSet(S) /\ TOLERANCE \in Nat
  BY AmountsBounds, FS_Subset
<1>2. ASSUME NEW i \in S
      PROVE  Dues[i] \in Int /\ Owes[i] \in Int /\ Dues[i] <= Owes[i] /\ Owes[i] <= Dues[i] + TOLERANCE
  <2>1. /\ Finance!RestMoney[i].net = books[i].net + Rounding[i] /\ Finance!RestMoney[i].paid = books[i].paid
        /\ books[i].net \in Int /\ books[i].paid \in Int
        /\ Rounding[i] \in Int /\ 0 <= Rounding[i] /\ Rounding[i] <= TOLERANCE
    BY SidesAreRows
  <2>2. Owes[i] = Finance!RestMoney[i].net - Finance!RestMoney[i].paid /\ Dues[i] = books[i].net - books[i].paid
    BY DEF Owes, Dues, Finance!Outstanding
  <2> QED BY <1>1, <2>1, <2>2
<1> QED BY <1>1, <1>2, SumsCompare

\* A set of which each element has a worth has one worth the least.
LEMMA LeastWorth ==
  ASSUME NEW S, IsFiniteSet(S), S # {}, NEW v, \A x \in S : v[x] \in Int
  PROVE  \E m \in S : \A x \in S : v[m] <= v[x]
<1> DEFINE Has(T) == \E m \in T : \A x \in T : v[m] <= v[x]
           Without == {n \in Nat : \E T \in SUBSET S : T # {} /\ Cardinality(T) = n /\ ~Has(T)}
<1>1. Without = {}
  <2> SUFFICES ASSUME Without # {} PROVE FALSE
    OBVIOUS
  <2>1. PICK n \in Without : \A k \in Without : n <= k
    <3>1. Without \in SUBSET Nat
      OBVIOUS
    <3> HIDE DEF Without
    <3> QED BY <3>1, LeastOf
  <2>2. PICK T \in SUBSET S : T # {} /\ Cardinality(T) = n /\ ~Has(T)
    BY <2>1
  <2> DEFINE x == CHOOSE x \in T : TRUE
  <2>3. /\ x \in T /\ T \ {x} \in SUBSET S /\ n \in Nat \ {0} /\ Cardinality(T \ {x}) = n - 1
    BY <2>2, OneLess
  <2> HIDE DEF x
  <2>4. CASE T \ {x} = {}
    <3>1. T = {x} /\ v[x] \in Int
      BY <2>3, <2>4
    <3>2. Has(T)
      BY <3>1
    <3> QED BY <2>2, <3>2
  <2>5. CASE T \ {x} # {}
    <3>1. n - 1 \in Nat /\ n - 1 \notin Without
      <4>1. n \in Nat \ {0}
        BY <2>3
      <4> HIDE DEF Without
      <4> QED BY <2>1, <4>1
    <3>2. Has(T \ {x})
      BY <2>3, <2>5, <3>1
    <3>3. PICK m \in T \ {x} : \A y \in T \ {x} : v[m] <= v[y]
      BY <3>2
    <3>4. v[m] \in Int /\ v[x] \in Int /\ \A y \in T : v[y] \in Int
      BY <2>3
    <3>5. CASE v[m] <= v[x]
      BY <2>2, <3>3, <3>5
    <3>6. CASE v[x] <= v[m]
      <4>1. \A y \in T : v[x] <= v[y]
        BY <3>3, <3>4, <3>6
      <4> QED BY <2>2, <2>3, <4>1
    <3> QED BY <3>4, <3>5, <3>6
  <2> QED BY <2>4, <2>5
<1>2. Cardinality(S) \in Nat
  BY FS_CardinalityType
<1> HIDE DEF Has
<1> QED BY <1>1, <1>2 DEF Has

\* A set can be listed, the largest worth first.
Listing(rows, S, v) ==
  /\ rows \in [1 .. Cardinality(S) -> S]
  /\ \A i, j \in 1 .. Cardinality(S) : i # j => rows[i] # rows[j]
  /\ \A i, j \in 1 .. Cardinality(S) : i < j => v[rows[i]] >= v[rows[j]]

LEMMA ListingExists ==
  ASSUME NEW S, IsFiniteSet(S), NEW v, \A x \in S : v[x] \in Int
  PROVE  \E rows : Listing(rows, S, v)
<1> DEFINE Without == {n \in Nat : \E T \in SUBSET S : Cardinality(T) = n /\ ~\E rows : Listing(rows, T, v)}
<1>1. Without = {}
  <2> SUFFICES ASSUME Without # {} PROVE FALSE
    OBVIOUS
  <2>1. PICK n \in Without : \A k \in Without : n <= k
    <3>1. Without \in SUBSET Nat
      OBVIOUS
    <3> HIDE DEF Without
    <3> QED BY <3>1, LeastOf
  <2>2. PICK T \in SUBSET S : Cardinality(T) = n /\ ~\E rows : Listing(rows, T, v)
    BY <2>1
  <2>3. IsFiniteSet(T) /\ n \in Nat
    BY <2>2, FS_Subset, FS_CardinalityType
  <2>4. T # {}
    <3>1. ASSUME T = {} PROVE Listing([i \in 1 .. 0 |-> 0], T, v)
      BY <3>1, FS_EmptySet DEF Listing
    <3> QED BY <2>2, <3>1
  <2>5. PICK m \in T : \A x \in T : v[m] <= v[x]
    BY <2>3, <2>4, LeastWorth
  <2>6. n # 0 /\ Cardinality(T \ {m}) = n - 1 /\ T \ {m} \in SUBSET S
    BY <2>2, <2>3, <2>4, <2>5, FS_RemoveElement, FS_EmptySet
  <2>7. n - 1 \in Nat /\ n - 1 \notin Without
    <3> HIDE DEF Without
    <3> QED BY <2>1, <2>3, <2>6
  <2>8. PICK rows : Listing(rows, T \ {m}, v)
    BY <2>6, <2>7
  <2> DEFINE longer == [i \in 1 .. n |-> IF i = n THEN m ELSE rows[i]]
  <2>9. Listing(longer, T, v)
    <3>1. \A i \in 1 .. n - 1 : rows[i] \in T \ {m}
      BY <2>6, <2>8 DEF Listing
    <3>2. \A i \in 1 .. n : longer[i] = IF i = n THEN m ELSE rows[i]
      OBVIOUS
    <3>3. \A i \in 1 .. n : i = n \/ i \in 1 .. n - 1
      BY <2>3
    <3>4. longer \in [1 .. n -> T]
      <4>1. \A i \in 1 .. n : (IF i = n THEN m ELSE rows[i]) \in T
        BY <2>5, <3>1, <3>3
      <4> QED BY <4>1
    <3> HIDE DEF longer
    <3>5. ASSUME NEW i \in 1 .. n, NEW j \in 1 .. n, i # j PROVE longer[i] # longer[j]
      <4>1. \A k, l \in 1 .. n - 1 : k # l => rows[k] # rows[l]
        BY <2>6, <2>8 DEF Listing
      <4> QED BY <3>1, <3>2, <3>3, <3>5, <4>1
    <3>6. ASSUME NEW i \in 1 .. n, NEW j \in 1 .. n, i < j PROVE v[longer[i]] >= v[longer[j]]
      <4>1. \A k, l \in 1 .. n - 1 : k < l => v[rows[k]] >= v[rows[l]]
        BY <2>6, <2>8 DEF Listing
      <4>2. i \in 1 .. n - 1 /\ i # n
        BY <2>3, <3>6
      <4>3. CASE j = n
        <5>1. longer[i] \in T /\ longer[j] = m
          BY <3>1, <3>2, <4>2, <4>3
        <5>2. v[m] <= v[longer[i]] /\ v[m] \in Int /\ v[longer[i]] \in Int
          BY <2>5, <5>1
        <5> QED BY <5>1, <5>2
      <4>4. CASE j # n
        <5>1. j \in 1 .. n - 1
          BY <3>3, <4>4
        <5> QED BY <3>2, <3>6, <4>1, <4>2, <4>4, <5>1
      <4> QED BY <4>3, <4>4
    <3> QED BY <2>2, <3>4, <3>5, <3>6 DEF Listing
  <2> HIDE DEF longer
  <2> QED BY <2>2, <2>9
<1>2. Cardinality(S) \in Nat
  BY FS_CardinalityType
<1> QED BY <1>1, <1>2

\* Such a list has them all.
LEMMA ListingIsAll ==
  ASSUME NEW S, IsFiniteSet(S), NEW v, NEW rows, Listing(rows, S, v)
  PROVE  \A x \in S : \E i \in 1 .. Cardinality(S) : rows[i] = x
<1> DEFINE n == Cardinality(S)
<1>1. n \in Nat
  BY FS_CardinalityType
<1>2. IsFiniteSet(1 .. n) /\ Cardinality(1 .. n) = n
  BY <1>1, FS_Interval
<1>3. rows \in Injection(1 .. n, S)
  BY DEF Listing, Injection, IsInjective
<1>4. rows \in Surjection(1 .. n, S)
  BY <1>2, <1>3, FS_Injection
<1> QED BY <1>4 DEF Surjection

\* A list of balances ends above nobody with a larger debt, where the figures are near what is owed.
LEMMA BalancesAreLargest ==
  ASSUME NEW P, IsFiniteSet(P), Finance!Summarise.parties = [p \in P |-> Finance!Summarise.parties[p]],
         \A p \in P : Finance!Summarise.parties[p] \in Int, NEW limit \in Nat
  PROVE  \A p \in Finance!Range(Finance!Balances(limit)) : \A q \in P \ Finance!Range(Finance!Balances(limit)) :
           p \in P /\ Finance!Summarise.parties[q] <= Finance!Summarise.parties[p]
<1> DEFINE parties == Finance!Summarise.parties
           n == Cardinality(P)
           rows == CHOOSE rows \in Finance!SetToSeqs(DOMAIN parties) :
                     \A i, j \in DOMAIN rows : i < j => parties[rows[i]] >= parties[rows[j]]
           last == IF limit < Len(rows) THEN limit ELSE Len(rows)
<1>0. DOMAIN parties = P /\ n \in Nat /\ \A p \in P : parties[p] \in Int
  BY FS_CardinalityType
<1>1. Finance!Balances(limit) = SubSeq(rows, 1, last)
  BY DEF Finance!Balances
<1> HIDE DEF parties
<1>2. \A S : Finance!SetToSeqs(S) =
             {f \in [1 .. Cardinality(S) -> S] : \A i, j \in 1 .. Cardinality(S) : i # j => f[i] # f[j]}
  BY LedgerCount DEF Finance!SetToSeqs
<1>3. Listing(rows, P, parties)
  <2>1. PICK l : Listing(l, P, parties)
    BY <1>0, ListingExists
  <2>2. l \in Finance!SetToSeqs(P) /\ DOMAIN l = 1 .. n
    BY <1>2, <2>1 DEF Listing
  <2>3. \A i, j \in DOMAIN l : i < j => parties[l[i]] >= parties[l[j]]
    BY <2>1, <2>2 DEF Listing
  <2>4. rows \in Finance!SetToSeqs(P) /\ \A i, j \in DOMAIN rows : i < j => parties[rows[i]] >= parties[rows[j]]
    BY <1>0, <2>2, <2>3
  <2> HIDE DEF rows
  <2>5. rows \in [1 .. n -> P] /\ \A i, j \in 1 .. n : i # j => rows[i] # rows[j]
    BY <1>2, <2>4
  <2>6. DOMAIN rows = 1 .. n
    BY <2>5
  <2> QED BY <2>4, <2>5, <2>6 DEF Listing
<1> HIDE DEF rows
<1>4. \A p \in P : \E i \in 1 .. n : rows[i] = p
  BY <1>3, ListingIsAll
<1>5. rows \in [1 .. n -> P] /\ \A i, j \in 1 .. n : i < j => parties[rows[i]] >= parties[rows[j]]
  BY <1>3 DEF Listing
<1>6. rows \in Seq(P) /\ Len(rows) = n
  <2>1. rows \in Seq(P)
    BY <1>0, <1>5, SeqDef
  <2>2. DOMAIN rows = 1 .. Len(rows) /\ Len(rows) \in Nat
    BY <2>1, LenProperties
  <2> QED BY <1>0, <1>5, <2>1, <2>2
<1>7. last \in 0 .. n
  BY <1>0, <1>6
<1> HIDE DEF last
<1> DEFINE top == SubSeq(rows, 1, last)
<1>8. DOMAIN top = 1 .. last /\ \A i \in 1 .. last : top[i] = rows[i]
  <2>1. top = [i \in 1 .. last |-> rows[1 + i - 1]]
    BY <1>0, <1>7
  <2>2. \A i \in 1 .. last : 1 + i - 1 = i
    BY <1>7
  <2> HIDE DEF top
  <2> QED BY <2>1, <2>2
<1> HIDE DEF top
<1>9. Finance!Range(top) = {rows[i] : i \in 1 .. last}
  BY <1>8 DEF Finance!Range
<1>10. ASSUME NEW p \in {rows[i] : i \in 1 .. last}, NEW q \in P \ {rows[i] : i \in 1 .. last}
       PROVE  p \in P /\ parties[q] <= parties[p]
  <2>1. PICK i \in 1 .. last : p = rows[i]
    OBVIOUS
  <2>2. PICK j \in 1 .. n : rows[j] = q
    BY <1>4
  <2>3. i \in 1 .. n /\ j \notin 1 .. last
    <3>1. ASSUME j \in 1 .. last PROVE FALSE
      BY <2>2, <3>1
    <3>2. i \in 1 .. n
      BY <1>0, <1>7
    <3> QED BY <3>1, <3>2
  <2>4. i < j
    BY <1>0, <1>7, <2>3
  <2>5. p \in P /\ parties[rows[i]] >= parties[rows[j]]
    BY <1>5, <2>1, <2>3, <2>4
  <2>6. parties[p] \in Int /\ parties[q] \in Int
    BY <1>0, <2>5
  <2> QED BY <2>1, <2>2, <2>5, <2>6
<1> QED BY <1>1, <1>9, <1>10 DEF parties, top

\* A snapshot that says it is complete is the books.
LEMMA CompleteIsBooks == ASSUME LedgerInv PROVE Finance!CompleteIsTheBooks
<1> SUFFICES ASSUME Finance!Complete PROVE Finance!CompleteIsTheBooks
  BY DEF Finance!CompleteIsTheBooks
<1> DEFINE posted == {i \in Ids : books[i].state = "posted"}
           scoped == {i \in posted : Heads[i].type = PartyType}
           Due(i) == books[i].net - books[i].paid
           owed == [p \in {Heads[i].party : i \in scoped} |->
                      Finance!Sum({i \in posted : Heads[i].type = PartyType /\ Heads[i].party = p}, Due)]
           slack == TOLERANCE * Finance!Cardinality(posted)
           s == Finance!Summarise
<1>1. ASSUME NEW S \in SUBSET Ids PROVE Finance!Sum(S, Due) = SumOf(S, Dues)
  <2> DEFINE F(h) == h = [T \in SUBSET S |-> IF T = {} THEN 0
                                            ELSE LET x == CHOOSE x \in T : TRUE IN Due(x) + h[T \ {x}]]
  <2>1. Finance!Sum(S, Due) = (CHOOSE h : F(h))[S]
    BY DEF Finance!Sum, Finance!MapThenSumSet, Finance!MapThenFoldSet
  <2>2. \A h : F(h) <=> Adding(h, S, Dues)
    <3> TAKE h
    <3>1. \A T \in SUBSET S :
            (IF T = {} THEN 0 ELSE LET x == CHOOSE x \in T : TRUE IN Due(x) + h[T \ {x}]) =
            (IF T = {} THEN 0 ELSE LET x == CHOOSE x \in T : TRUE IN Dues[x] + h[T \ {x}])
      <4> TAKE T \in SUBSET S
      <4>1. ASSUME T # {} PROVE Dues[CHOOSE x \in T : TRUE] = Due(CHOOSE x \in T : TRUE)
        <5>1. (CHOOSE x \in T : TRUE) \in Ids
          BY <4>1
        <5> QED BY <5>1 DEF Dues
      <4> QED BY <4>1
    <3> QED BY <3>1 DEF Adding
  <2> HIDE DEF F
  <2>3. (CHOOSE h : F(h)) = (CHOOSE h : Adding(h, S, Dues))
    BY <2>2
  <2> QED BY <2>1, <2>3 DEF SumOf
<1>2. posted \in SUBSET Ids /\ IsFiniteSet(posted) /\ TOLERANCE \in Nat /\ Cardinality(posted) \in Nat
  BY AmountsBounds, FS_Subset, FS_CardinalityType
<1>3. /\ Finance!Identified = posted /\ Finance!Scoped = scoped
      /\ \A p : {i \in Finance!Scoped : Heads[i].party = p} = OwedTo(p)
      /\ \A p : {i \in posted : Heads[i].type = PartyType /\ Heads[i].party = p} = OwedTo(p)
  BY CompleteShowsAll DEF OwedTo
<1>4. slack = TOLERANCE * Cardinality(posted) /\ slack \in Nat
  <2>1. Finance!Cardinality(posted) = Cardinality(posted)
    BY LedgerCount
  <2> HIDE DEF posted
  <2> QED BY <1>2, <2>1, SlackGrows
<1>5. ASSUME NEW S \in SUBSET posted
      PROVE  /\ SumOf(S, Dues) \in Int /\ SumOf(S, Owes) \in Int
             /\ SumOf(S, Dues) <= SumOf(S, Owes) /\ SumOf(S, Owes) <= SumOf(S, Dues) + slack
  <2>1. S \in SUBSET Ids /\ Cardinality(S) \in Nat /\ Cardinality(S) <= Cardinality(posted)
    BY <1>2, FS_Subset, FS_CardinalityType
  <2>2. /\ SumOf(S, Dues) \in Int /\ SumOf(S, Owes) \in Int
        /\ SumOf(S, Dues) <= SumOf(S, Owes) /\ SumOf(S, Owes) <= SumOf(S, Dues) + TOLERANCE * Cardinality(S)
    BY <2>1, OutstandingIsDue
  <2> DEFINE less == TOLERANCE * Cardinality(S)
  <2>3. less \in Nat /\ less <= slack
    BY <1>2, <1>4, <2>1, SlackGrows
  <2> HIDE DEF slack, posted, less
  <2>4. SumOf(S, Owes) <= SumOf(S, Dues) + less
    BY <2>2 DEF less
  <2> QED BY <1>4, <2>2, <2>3, <2>4
<1>6. /\ s.totals.count = Finance!Cardinality(Finance!Identified)
      /\ s.totals.open = Finance!Sum(Finance!Identified, Finance!Outstanding)
      /\ s.parties = [p \in Finance!Debtors(Finance!Scoped) |->
                        Finance!Sum({i \in Finance!Scoped : Heads[i].party = p}, Finance!Outstanding)]
  BY DEF Finance!Summarise
<1>7. \A p : OwedTo(p) \in SUBSET posted
  BY DEF OwedTo
<1>8. s.totals.count = Finance!Cardinality(posted)
  BY <1>3, <1>6
<1>9. s.totals.open - Finance!Sum(posted, Due) \in 0 .. slack
  <2>1. s.totals.open = SumOf(posted, Owes)
    <3>1. Finance!Sum(posted, Finance!Outstanding) = SumOf(posted, Owes)
      BY <1>2, OutstandingIsASum
    <3> HIDE DEF posted, s
    <3> QED BY <1>3, <1>6, <3>1
  <2>2. Finance!Sum(posted, Due) = SumOf(posted, Dues)
    BY <1>1, <1>2
  <2>3. posted \in SUBSET posted
    OBVIOUS
  <2> HIDE DEF posted, s, slack, Due
  <2>4. /\ SumOf(posted, Dues) \in Int /\ SumOf(posted, Owes) \in Int
        /\ SumOf(posted, Dues) <= SumOf(posted, Owes) /\ SumOf(posted, Owes) <= SumOf(posted, Dues) + slack
    BY <1>5, <2>3
  <2> QED BY <1>4, <2>1, <2>2, <2>4
<1> DEFINE P == {Heads[i].party : i \in scoped}
<1>10. DOMAIN s.parties = P /\ DOMAIN owed = P /\ IsFiniteSet(P)
  <2>1. DOMAIN s.parties = Finance!Debtors(Finance!Scoped)
    BY <1>6
  <2>2. Finance!Debtors(Finance!Scoped) = P
    BY <1>3 DEF Finance!Debtors
  <2>3. IsFiniteSet(scoped)
    BY <1>2, FS_Subset
  <2>4. IsFiniteSet(P)
    <3> HIDE DEF scoped
    <3>1. [i \in scoped |-> Heads[i].party] \in Surjection(scoped, P)
      BY DEF Surjection
    <3> QED BY <2>3, <3>1, FS_Surjection
  <2> QED BY <2>1, <2>2, <2>4
<1>11. ASSUME NEW p \in P
       PROVE  s.parties[p] \in Int /\ owed[p] \in Int /\ owed[p] <= s.parties[p] /\ s.parties[p] <= owed[p] + slack
  <2>1. s.parties[p] = Finance!Sum({i \in Finance!Scoped : Heads[i].party = p}, Finance!Outstanding)
    BY <1>6, <1>10
  <2>2. owed[p] = Finance!Sum({i \in posted : Heads[i].type = PartyType /\ Heads[i].party = p}, Due)
    OBVIOUS
  <2>3. OwedTo(p) \in SUBSET posted /\ OwedTo(p) \in SUBSET Ids
    BY <1>2, <1>7
  <2>4. s.parties[p] = SumOf(OwedTo(p), Owes)
    BY <1>3, <2>1, <2>3, OutstandingIsASum
  <2>5. Finance!Sum(OwedTo(p), Due) = SumOf(OwedTo(p), Dues)
    BY <1>1, <2>3
  <2>6. owed[p] = SumOf(OwedTo(p), Dues)
    BY <1>3, <2>2, <2>5
  <2> HIDE DEF owed, s, slack, posted
  <2> QED BY <1>5, <2>3, <2>4, <2>6
<1>12. ASSUME NEW limit \in 0 .. 2
       PROVE  LET top == Finance!Range(Finance!Balances(limit))
              IN  \A p \in top : \A q \in DOMAIN owed \ top : owed[q] <= owed[p] + slack
  <2> DEFINE top == Finance!Range(Finance!Balances(limit))
  <2>1. Finance!Summarise.parties = [p \in P |-> Finance!Summarise.parties[p]]
    BY <1>6, <1>10
  <2>2. \A p \in P : Finance!Summarise.parties[p] \in Int
    BY <1>11
  <2>3. limit \in Nat
    OBVIOUS
  <2>4. \A p \in top : \A q \in P \ top : p \in P /\ Finance!Summarise.parties[q] <= Finance!Summarise.parties[p]
    <3> HIDE DEF P
    <3> QED BY <1>10, <2>1, <2>2, <2>3, BalancesAreLargest
  <2> HIDE DEF top, P, owed, slack
  <2>5. ASSUME NEW p \in top, NEW q \in DOMAIN owed \ top PROVE owed[q] <= owed[p] + slack
    <3>1. q \in P \ top
      BY <1>10
    <3>2. p \in P /\ q \in P /\ s.parties[q] <= s.parties[p]
      BY <2>4, <3>1
    <3>3. owed[q] \in Int /\ s.parties[q] \in Int /\ owed[q] <= s.parties[q]
      BY <1>11, <3>2
    <3>4. owed[p] \in Int /\ s.parties[p] \in Int /\ s.parties[p] <= owed[p] + slack
      BY <1>11, <3>2
    <3> HIDE DEF s
    <3> QED BY <1>4, <3>2, <3>3, <3>4
  <2> QED BY <2>5 DEF top
<1>13. \A p \in DOMAIN owed : s.parties[p] - owed[p] \in 0 .. slack
  <2> TAKE p \in DOMAIN owed
  <2>1. s.parties[p] \in Int /\ owed[p] \in Int /\ owed[p] <= s.parties[p] /\ s.parties[p] <= owed[p] + slack
    BY <1>10, <1>11
  <2> HIDE DEF s, owed, slack
  <2> QED BY <1>4, <2>1
<1>14. /\ s.totals.count = Finance!Cardinality(posted)
       /\ s.totals.open - Finance!Sum(posted, Due) \in 0 .. slack
       /\ DOMAIN s.parties = DOMAIN owed
       /\ \A p \in DOMAIN owed : s.parties[p] - owed[p] \in 0 .. slack
       /\ \A limit \in 0 .. 2 : LET top == Finance!Range(Finance!Balances(limit))
                                IN  \A p \in top : \A q \in DOMAIN owed \ top : owed[q] <= owed[p] + slack
  <2> HIDE DEF s, owed, slack, posted, P, Due
  <2> QED BY <1>8, <1>9, <1>10, <1>12, <1>13
<1> QED BY <1>14 DEF Finance!CompleteIsTheBooks

LEMMA LedgerBegins == Finance!Init => LedgerInv
<1> SUFFICES ASSUME Finance!Init PROVE LedgerInv
  OBVIOUS
<1>1. Finance!Absent \in Papers
  BY DEF Finance!Absent, Papers
<1>2. \A p \in Prices : Finance!Document("posted", p) \in Papers
  <2> TAKE p \in Prices
  <2>1. p.gross \in Int /\ p.net \in Int
    BY AmountsBounds
  <2> QED BY <2>1 DEF Finance!Document, Papers
<1>3. books \in [Ids -> Papers]
  <2>1. {Finance!Absent} \cup {Finance!Document("posted", p) : p \in Prices} \subseteq Papers
    BY <1>1, <1>2
  <2> QED BY <2>1 DEF Finance!Init
<1> QED BY <1>3 DEF LedgerInv, Finance!Init

\* A document that is written has amounts.
LEMMA WrittenKeeps ==
  ASSUME LedgerInv, NEW i \in Ids, NEW d \in Papers, Finance!Written(i, d)
  PROVE  LedgerInv'
BY DEF LedgerInv, Finance!Written, Finance!Change

LEMMA LedgerKeeps == LedgerInv /\ [Finance!Next]_ledger_ => LedgerInv'
<1> SUFFICES ASSUME LedgerInv, [Finance!Next]_ledger_ PROVE LedgerInv'
  OBVIOUS
<1>0. \A i \in Ids : books[i] \in Papers /\ books[i].gross \in Int /\ books[i].net \in Int /\ books[i].paid \in Nat
  BY PapersAreNumbers DEF LedgerInv
<1>1. \A p \in Prices : p.gross \in Int /\ p.net \in Int
  BY AmountsBounds
<1>2. ASSUME NEW i \in Ids, Finance!Enter(i) PROVE LedgerInv'
  <2>1. PICK p \in Prices : Finance!Written(i, Finance!Document("draft", p))
    BY <1>2 DEF Finance!Enter
  <2>2. Finance!Document("draft", p) \in Papers
    BY <1>1 DEF Finance!Document, Papers
  <2> QED BY <2>1, <2>2, WrittenKeeps
<1>3. ASSUME NEW i \in Ids, Finance!Post(i) PROVE LedgerInv'
  <2>1. [books[i] EXCEPT !.state = "posted"] \in Papers
    BY <1>0 DEF Papers
  <2> QED BY <1>3, <2>1, WrittenKeeps DEF Finance!Post
<1>4. ASSUME NEW i \in Ids, Finance!Reprice(i) PROVE LedgerInv'
  <2>1. PICK p \in Prices : Finance!Written(i, [books[i] EXCEPT !.gross = p.gross, !.net = p.net])
    BY <1>4 DEF Finance!Reprice
  <2>2. [books[i] EXCEPT !.gross = p.gross, !.net = p.net] \in Papers
    BY <1>0, <1>1 DEF Papers
  <2> QED BY <2>1, <2>2, WrittenKeeps
<1>5. ASSUME NEW i \in Ids, Finance!Settle(i) PROVE LedgerInv'
  <2>1. PICK p \in Payments : Finance!Written(i, [books[i] EXCEPT !.paid = p])
    BY <1>5 DEF Finance!Settle
  <2>2. [books[i] EXCEPT !.paid = p] \in Papers
    BY <1>0, AmountsBounds DEF Papers
  <2> QED BY <2>1, <2>2, WrittenKeeps
<1>6. ASSUME NEW i \in Ids, Finance!Withdraw(i) PROVE LedgerInv'
  <2>1. Finance!Absent \in Papers
    BY DEF Finance!Absent, Papers
  <2> QED BY <1>6, <2>1, WrittenKeeps DEF Finance!Withdraw
<1>7. ASSUME NEW i \in Ids, Finance!VeilFalls(i) PROVE LedgerInv'
  BY <1>7 DEF LedgerInv, Finance!VeilFalls, Finance!Change
<1>8. ASSUME Finance!Restore PROVE LedgerInv'
  BY <1>8 DEF LedgerInv, Finance!Restore
<1>9. ASSUME UNCHANGED ledger_ PROVE LedgerInv'
  BY <1>9 DEF LedgerInv, ledger_
<1> QED BY <1>2, <1>3, <1>4, <1>5, <1>6, <1>7, <1>8, <1>9 DEF Finance!Next

\* The comparison neither lets a difference through nor makes one up, and a snapshot that says it is complete is
\* the posted books with nobody cut off the top of the balances (_keyed, compare, verdict; summarise, _balances),
\* for any number of documents, any amounts and any tolerance.
THEOREM LedgerTells == Spec => []LedgerTellsTheTruth
<1>1. Init => LedgerInv
  BY LedgerBegins DEF Init
<1>2. LedgerInv /\ [Next]_allVars => LedgerInv'
  BY LedgerSteps, LedgerKeeps
<1>3. LedgerInv => LedgerTellsTheTruth
  BY NothingFalsePasses, NothingFalseAlarms, CompleteIsBooks DEF LedgerTellsTheTruth, Finance!LedgerTellsTheTruth
<1> QED BY <1>1, <1>2, <1>3, PTL DEF Spec

-----------------------------------------------------------------------------
(* The workflow of supplier invoices.                                      *)

\* As WindowSteps, of the workflow.
LEMMA WorkflowSteps == [Next]_allVars => [Workflow!Next]_workflow_
<1>1. Next /\ part = "workflow" => Workflow!Next
  BY DEF Next
<1>2. Next /\ part # "workflow" => UNCHANGED workflow_
  BY DEF Next, Others
<1>3. UNCHANGED allVars => UNCHANGED workflow_
  BY DEF allVars, workflow_
<1> QED BY <1>1, <1>2, <1>3

\* What the ERP is given of an invoice.
DocumentOf(i) == [key |-> Invoices[i].key, amount |-> Invoices[i].amount]
\* The documents there are.
Documents == {DocumentOf(i) : i \in DOMAIN Invoices} \cup {Workflow!NoDocument}
\* Who acts.
Staff == DOMAIN Users \cup {"nobody"}
\* What the trail tells of.
Done == {"create"} \cup Workflow!Actions
\* The rows of the invoices.
InvoiceRows == [status : {"absent", "DRAFT", "SUBMITTED", "APPROVED", "REJECTED", "POSTED"},
                created_by : Staff, document : Documents]
\* What the audit trail has of an invoice.
Trails == [rows : SUBSET [action : Done, actor : Staff], last : Done \cup {"none"}]
\* The states of a request.
Calls == [at : {"idle", "look", "give", "commit"}, action : Workflow!Actions \cup {"none"},
          invoice : DOMAIN Invoices \cup {0}, actor : Staff, document : Documents]

\* The types of the workflow.
WorkflowTyped ==
    /\ row \in [DOMAIN Invoices -> InvoiceRows] /\ trail \in [DOMAIN Invoices -> Trails]
    /\ call \in [Requests -> Calls]
    /\ made \subseteq [invoice : DOMAIN Invoices, document : Documents]

\* Somebody else than its creator approved it.
Approved(i) == \E t \in trail[i].rows : t.action = "approve" /\ t.actor # row[i].created_by

\* The ERP was given the document, which is one of the invoice's vendor and number.
Given(document, i) == \E m \in made : m.document = document /\ m.document.key = Invoices[i].key

\* The trail ends with what the invoice is.
Told(i) == \/ row[i] = Workflow!NoRow /\ trail[i] = Workflow!NoTrail
           \/ /\ trail[i].last \in Done /\ trail[i] # Workflow!NoTrail
              /\ row[i].status = Workflow!To[trail[i].last]

\* Of every invoice: its trail, its approval, its document.
InvoicesTold ==
    \A i \in DOMAIN Invoices : /\ Told(i)
                               /\ row[i].status = "APPROVED" => Approved(i)
                               /\ row[i].status = "POSTED" => Given(row[i].document, i)

\* What a request has read still holds when it commits.
Served(its) ==
    its.at # "idle" =>
        /\ its.invoice \in DOMAIN Invoices /\ row[its.invoice] # Workflow!NoRow /\ its.action \in Workflow!Actions
        /\ its.action = "approve" => its.actor # row[its.invoice].created_by
        /\ its.action = "post" => Approved(its.invoice)
        /\ its.at \in {"look", "give"} => its.action = "post"
        /\ its.at = "commit" /\ its.action = "post" => Given(its.document, its.invoice)

\* Of every request.
CallsServed == \A c \in Requests : Served(call[c])

\* What the ERP holds it was given, for invoices that were approved.
ErpWasGiven ==
    /\ \A k \in DOMAIN erp : erp[k] \in Documents /\ \E m \in made : m.document = erp[k] /\ m.document.key = k
    /\ \A m \in made : Approved(m.invoice) /\ m.document = DocumentOf(m.invoice)

\* The inductive invariant of the workflow.
WorkflowInv == WorkflowTyped /\ InvoicesTold /\ CallsServed /\ ErpWasGiven

\* What is never taken back: who created an invoice, a row of its trail, a document of the ERP.
Grows ==
    /\ \A i \in DOMAIN Invoices :
          row[i] # Workflow!NoRow => /\ row'[i].created_by = row[i].created_by /\ row'[i] # Workflow!NoRow
                                     /\ trail[i].rows \subseteq trail'[i].rows
    /\ made \subseteq made'

\* What was approved was created.
LEMMA ApprovedExists ==
  ASSUME WorkflowInv, NEW i \in DOMAIN Invoices, Approved(i)
  PROVE  row[i] # Workflow!NoRow
<1>1. trail[i].rows # {}
  BY DEF Approved
<1>2. CASE trail[i] = Workflow!NoTrail
  BY <1>1, <1>2 DEF Workflow!NoTrail
<1>3. CASE trail[i].last \in Done /\ row[i].status = Workflow!To[trail[i].last]
  BY <1>3 DEF Done, Workflow!Actions, Workflow!To, Workflow!NoRow
<1> QED BY <1>2, <1>3 DEF WorkflowInv, InvoicesTold, Told

\* What is approved, given or read stays so while nothing is taken back.
LEMMA GrowingKeeps ==
  ASSUME WorkflowInv, Grows
  PROVE  /\ \A i \in DOMAIN Invoices : Approved(i) => Approved(i)'
         /\ \A i \in DOMAIN Invoices : \A d \in Documents : Given(d, i) => Given(d, i)'
         /\ \A its \in Calls : Served(its) => Served(its)'
<1>1. ASSUME NEW i \in DOMAIN Invoices, Approved(i) PROVE Approved(i)'
  <2>1. row[i] # Workflow!NoRow
    BY <1>1, ApprovedExists
  <2> QED BY <1>1, <2>1 DEF Approved, Grows
<1>2. \A i \in DOMAIN Invoices : \A d : Given(d, i) => Given(d, i)'
  BY DEF Given, Grows
<1>3. ASSUME NEW its \in Calls, Served(its) PROVE Served(its)'
  <2>1. CASE its.at = "idle"
    BY <2>1 DEF Served
  <2>2. CASE its.at # "idle"
    <3>1. /\ its.invoice \in DOMAIN Invoices /\ row[its.invoice] # Workflow!NoRow /\ its.action \in Workflow!Actions
          /\ its.action = "approve" => its.actor # row[its.invoice].created_by
          /\ its.action = "post" => Approved(its.invoice)
          /\ its.at \in {"look", "give"} => its.action = "post"
          /\ its.at = "commit" /\ its.action = "post" => Given(its.document, its.invoice)
      BY <1>3, <2>2 DEF Served
    <3>2. row'[its.invoice] # Workflow!NoRow /\ row'[its.invoice].created_by = row[its.invoice].created_by
      BY <3>1 DEF Grows
    <3>3. its.action = "post" => Approved(its.invoice)'
      BY <1>1, <3>1
    <3>4. its.at = "commit" /\ its.action = "post" => Given(its.document, its.invoice)'
      BY <1>2, <3>1
    <3> QED BY <3>1, <3>2, <3>3, <3>4 DEF Served
  <2> QED BY <2>1, <2>2
<1> QED BY <1>1, <1>2, <1>3

\* Create: a row, and the first line of its trail.
LEMMA CreateKeeps ==
  ASSUME WorkflowInv, NEW user \in DOMAIN Users, NEW i \in DOMAIN Invoices, Workflow!Create(user, i)
  PROVE  WorkflowInv'
<1> DEFINE new == [row[i] EXCEPT !.status = "DRAFT", !.created_by = user]
           told == [rows |-> trail[i].rows \cup {[action |-> "create", actor |-> user]}, last |-> "create"]
<1>1. /\ row[i] = Workflow!NoRow /\ row' = [row EXCEPT ![i] = new] /\ trail' = [trail EXCEPT ![i] = told]
      /\ UNCHANGED <<call, erp, made>>
  BY DEF Workflow!Create, Workflow!Audited, Workflow!To
<1>2. new \in InvoiceRows /\ new.status = "DRAFT"
  BY DEF WorkflowInv, WorkflowTyped, InvoiceRows, Staff
<1>3. told \in Trails /\ told.last = "create" /\ told.rows # {} /\ told # Workflow!NoTrail
  <2>1. trail[i] \in Trails /\ [action |-> "create", actor |-> user] \in [action : Done, actor : Staff]
    BY DEF WorkflowInv, WorkflowTyped, Done, Staff
  <2>2. told.rows # {} /\ told.last = "create"
    OBVIOUS
  <2>3. told.rows \in SUBSET [action : Done, actor : Staff] /\ "create" \in Done
    BY <2>1 DEF Trails, Done
  <2> QED BY <2>2, <2>3 DEF Trails, Workflow!NoTrail
<1> HIDE DEF new, told
<1>4. WorkflowTyped'
  BY <1>1, <1>2, <1>3 DEF WorkflowInv, WorkflowTyped
<1>5. \A j \in DOMAIN Invoices : /\ row'[j] = IF j = i THEN new ELSE row[j]
                                 /\ trail'[j] = IF j = i THEN told ELSE trail[j]
  BY <1>1 DEF WorkflowInv, WorkflowTyped
<1>6. Grows
  BY <1>1, <1>5 DEF Grows
<1>7. ASSUME NEW j \in DOMAIN Invoices
      PROVE  /\ Told(j)' /\ (row'[j].status = "APPROVED" => Approved(j)')
             /\ row'[j].status = "POSTED" => Given(row[j].document, j)'
  <2>1. CASE j = i
    BY <1>2, <1>3, <1>5, <2>1 DEF Told, Done, Workflow!To
  <2>2. CASE j # i
    <3>1. row'[j] = row[j] /\ trail'[j] = trail[j] /\ made' = made
      BY <1>1, <1>5, <2>2
    <3>2. /\ Told(j) /\ (row[j].status = "APPROVED" => Approved(j))
          /\ row[j].status = "POSTED" => Given(row[j].document, j)
      BY DEF WorkflowInv, InvoicesTold
    <3> QED BY <3>1, <3>2 DEF Told, Approved, Given
  <2> QED BY <2>1, <2>2
<1>8. CallsServed'
  <2>1. \A its \in Calls : Served(its) => Served(its)'
    BY <1>6, GrowingKeeps
  <2>2. \A c \in Requests : call[c] \in Calls /\ Served(call[c])
    BY DEF WorkflowInv, WorkflowTyped, CallsServed
  <2> SUFFICES ASSUME NEW c \in Requests PROVE Served(call[c])'
    BY DEF CallsServed
  <2>3. PICK its \in Calls : its = call[c]
    BY <2>2
  <2>4. Served(its)'
    BY <2>1, <2>2, <2>3
  <2> QED BY <1>1, <2>3, <2>4 DEF Served
<1>9. ErpWasGiven'
  <2>1. \A m \in made : m.invoice \in DOMAIN Invoices
    BY DEF WorkflowInv, WorkflowTyped
  <2>2. \A m \in made : Approved(m.invoice)'
    BY <1>6, <2>1, GrowingKeeps DEF WorkflowInv, ErpWasGiven
  <2> QED BY <1>1, <2>2 DEF WorkflowInv, ErpWasGiven
<1> QED BY <1>4, <1>7, <1>8, <1>9 DEF WorkflowInv, InvoicesTold

\* A request moves on; the tables stand and the ERP may be given one document more.
LEMMA CallMovesKeeps ==
  ASSUME WorkflowInv, NEW c \in Requests, NEW new \in Calls, call' = [call EXCEPT ![c] = new],
         UNCHANGED <<row, trail>>, made \subseteq made',
         made' \subseteq [invoice : DOMAIN Invoices, document : Documents],
         ErpWasGiven', Served(new)'
  PROVE  WorkflowInv'
<1>1. WorkflowTyped'
  BY DEF WorkflowInv, WorkflowTyped
<1>2. Grows
  BY DEF Grows
<1>3. \A d \in Requests : call'[d] = IF d = c THEN new ELSE call[d]
  BY DEF WorkflowInv, WorkflowTyped
<1>4. \A d \in Requests : Served(call[d])'
  <2>1. \A d \in Requests : Served(call[d])
    BY DEF WorkflowInv, CallsServed
  <2> SUFFICES ASSUME NEW d \in Requests PROVE Served(call[d])'
    OBVIOUS
  <2>2. CASE d = c
    BY <1>3, <2>2 DEF Served
  <2>3. CASE d # c
    <3>1. call[d] \in Calls
      BY DEF WorkflowInv, WorkflowTyped
    <3>2. PICK its \in Calls : its = call[d]
      BY <3>1
    <3>3. Served(its)'
      BY <1>2, <2>1, <3>2, GrowingKeeps
    <3>4. call'[d] = its
      BY <1>3, <2>3, <3>2
    <3> QED BY <3>3, <3>4 DEF Served
  <2> QED BY <2>2, <2>3
<1>5. InvoicesTold'
  BY <1>2, GrowingKeeps DEF WorkflowInv, InvoicesTold, Told, Approved, Given, Grows
<1> QED BY <1>1, <1>4, <1>5 DEF WorkflowInv, CallsServed

\* A request that begins or moves on by itself gives the ERP nothing.
LEMMA ErpStands ==
  ASSUME WorkflowInv, UNCHANGED <<row, trail, erp, made>>
  PROVE  ErpWasGiven' /\ \A i \in DOMAIN Invoices : Approved(i)' = Approved(i)
         /\ \A d : Given(d, i)' = Given(d, i)
  BY DEF WorkflowInv, ErpWasGiven, Approved, Given

\* Begin: the request has read an invoice whose state allows the action.
LEMMA BeginKeeps ==
  ASSUME WorkflowInv, NEW c \in Requests, NEW user \in DOMAIN Users, NEW action \in Workflow!Actions,
         NEW i \in DOMAIN Invoices, Workflow!Begin(c, user, action, i)
  PROVE  WorkflowInv'
<1> DEFINE new == [at |-> IF action = "post" THEN "look" ELSE "commit", action |-> action, invoice |-> i,
                   actor |-> user, document |-> Workflow!NoDocument]
<1>1. /\ call' = [call EXCEPT ![c] = new] /\ UNCHANGED <<row, trail, erp, made>>
      /\ row[i] # Workflow!NoRow /\ row[i].status = Workflow!From[action]
      /\ action = "approve" => row[i].created_by # user
  BY DEF Workflow!Begin, Workflow!Allowed, Workflow!Segregated
<1>2. new \in Calls
  BY DEF Calls, Staff, Documents
<1>3. action = "post" => Approved(i)
  <2>1. action = "post" => row[i].status = "APPROVED"
    BY <1>1 DEF Workflow!From
  <2> QED BY <2>1 DEF WorkflowInv, InvoicesTold
<1>4. Served(new)'
  <2>1. action = "post" => Approved(i)'
    BY <1>1, <1>3 DEF Approved
  <2>2. /\ new.at \in {"look", "commit"} /\ (new.at = "look" <=> action = "post")
        /\ new.action = action /\ new.invoice = i /\ new.actor = user
    OBVIOUS
  <2> HIDE DEF new
  <2> QED BY <1>1, <2>1, <2>2 DEF Served
<1> HIDE DEF new
<1>5. made \subseteq made' /\ made' \subseteq [invoice : DOMAIN Invoices, document : Documents]
  BY <1>1 DEF WorkflowInv, WorkflowTyped
<1>6. ErpWasGiven'
  BY <1>1, ErpStands
<1> QED BY <1>1, <1>2, <1>4, <1>5, <1>6, CallMovesKeeps

\* Look: the ERP has the document already, or must be given it.
LEMMA LookKeepsThem == ASSUME WorkflowInv, NEW c \in Requests, Workflow!Look(c) PROVE WorkflowInv'
<1>1. PICK its \in Calls : its = call[c]
  BY DEF WorkflowInv, WorkflowTyped
<1> DEFINE key == Invoices[its.invoice].key
           found == [its EXCEPT !.at = "commit", !.document = erp[key]]
           missed == [its EXCEPT !.at = "give"]
<1>2. /\ its.at = "look" /\ UNCHANGED <<row, trail, erp, made>>
      /\ call' = [call EXCEPT ![c] = IF key \in DOMAIN erp THEN found ELSE missed]
  BY <1>1 DEF Workflow!Look, Workflow!KeyOf
<1>3. /\ its.invoice \in DOMAIN Invoices /\ row[its.invoice] # Workflow!NoRow
      /\ its.action = "post" /\ Approved(its.invoice)
  BY <1>1, <1>2 DEF WorkflowInv, CallsServed, Served
<1>4. key \in DOMAIN erp => erp[key] \in Documents /\ Given(erp[key], its.invoice)
  BY <1>3 DEF WorkflowInv, ErpWasGiven, Given
<1>5. PICK new \in Calls : /\ new.invoice = its.invoice /\ new.action = its.action /\ new.at \in {"give", "commit"}
                           /\ new.at = "commit" => Given(new.document, its.invoice)
                           /\ call' = [call EXCEPT ![c] = new]
  <2>1. CASE key \in DOMAIN erp
    <3>1. found \in Calls /\ found.invoice = its.invoice /\ found.action = its.action /\ found.at = "commit"
          /\ found.document = erp[key]
      BY <1>4, <2>1 DEF Calls
    <3> HIDE DEF found
    <3> QED BY <1>2, <1>4, <2>1, <3>1
  <2>2. CASE key \notin DOMAIN erp
    <3>1. missed \in Calls /\ missed.invoice = its.invoice /\ missed.action = its.action /\ missed.at = "give"
      BY DEF Calls
    <3> HIDE DEF missed
    <3> QED BY <1>2, <2>2, <3>1
  <2> QED BY <2>1, <2>2
<1> HIDE DEF found, missed, key
<1>6. Served(new)'
  BY <1>2, <1>3, <1>5 DEF Served, Approved, Given, Workflow!Actions
<1>7. made \subseteq made' /\ made' \subseteq [invoice : DOMAIN Invoices, document : Documents]
  BY <1>2 DEF WorkflowInv, WorkflowTyped
<1>8. ErpWasGiven'
  BY <1>2, ErpStands
<1>9. call' = [call EXCEPT ![c] = new] /\ UNCHANGED <<row, trail>>
  BY <1>2, <1>5
<1> QED BY <1>6, <1>7, <1>8, <1>9, CallMovesKeeps

\* Give: the ERP gets a document of the invoice.
LEMMA GiveKeeps == ASSUME WorkflowInv, NEW c \in Requests, Workflow!Give(c) PROVE WorkflowInv'
<1>0. PICK its \in Calls : its = call[c]
  BY DEF WorkflowInv, WorkflowTyped
<1> DEFINE i == its.invoice
           document == DocumentOf(i)
           key == Invoices[i].key
           new == [its EXCEPT !.at = "commit", !.document = document]
<1>1. /\ its.at = "give" /\ call' = [call EXCEPT ![c] = new] /\ UNCHANGED <<row, trail>>
      /\ erp' = [k \in DOMAIN erp \cup {key} |-> IF k = key THEN document ELSE erp[k]]
      /\ made' = made \cup {[invoice |-> i, document |-> document]}
  BY <1>0 DEF Workflow!Give, Workflow!KeyOf, Workflow!DocumentOf, DocumentOf, WorkflowInv, WorkflowTyped
<1>3. i \in DOMAIN Invoices /\ row[i] # Workflow!NoRow /\ its.action = "post" /\ Approved(i)
  BY <1>0, <1>1 DEF WorkflowInv, CallsServed, Served
<1>4. document \in Documents /\ document.key = key
  BY <1>3 DEF Documents, DocumentOf
<1>5. [invoice |-> i, document |-> document] \in [invoice : DOMAIN Invoices, document : Documents]
  BY <1>3, <1>4
<1>6. new \in Calls /\ new.invoice = i /\ new.action = "post" /\ new.at = "commit" /\ new.document = document
  BY <1>3, <1>4 DEF Calls
<1>7. made \subseteq made' /\ made' \subseteq [invoice : DOMAIN Invoices, document : Documents]
  BY <1>1, <1>5 DEF WorkflowInv, WorkflowTyped
<1>8. \E m \in made' : m.document = document /\ m.document.key = key
  <2>1. [invoice |-> i, document |-> document] \in made'
    BY <1>1
  <2> HIDE DEF document, key
  <2>2. [invoice |-> i, document |-> document].document = document
    OBVIOUS
  <2> QED BY <1>4, <2>1, <2>2
<1>9. \A j \in DOMAIN Invoices : Approved(j) => Approved(j)'
  BY <1>1 DEF Approved
<1>10. ErpWasGiven'
  <2>1. \A k \in DOMAIN erp' : erp'[k] \in Documents /\ \E m \in made' : m.document = erp'[k] /\ m.document.key = k
    <3> SUFFICES ASSUME NEW k \in DOMAIN erp'
                 PROVE  erp'[k] \in Documents /\ \E m \in made' : m.document = erp'[k] /\ m.document.key = k
      OBVIOUS
    <3>1. CASE k = key
      <4>1. erp'[k] = document
        BY <1>1, <3>1
      <4> QED BY <1>4, <1>8, <3>1, <4>1
    <3>2. CASE k # key
      <4>1. k \in DOMAIN erp /\ erp'[k] = erp[k]
        BY <1>1, <3>2
      <4> QED BY <1>7, <4>1 DEF WorkflowInv, ErpWasGiven
    <3> QED BY <3>1, <3>2
  <2>2. \A m \in made' : Approved(m.invoice)' /\ m.document = DocumentOf(m.invoice)
    <3>1. \A m \in made : m.invoice \in DOMAIN Invoices /\ Approved(m.invoice) /\ m.document = DocumentOf(m.invoice)
      BY DEF WorkflowInv, WorkflowTyped, ErpWasGiven
    <3>2. Approved(i)'
      BY <1>3, <1>9
    <3> SUFFICES ASSUME NEW m \in made' PROVE Approved(m.invoice)' /\ m.document = DocumentOf(m.invoice)
      OBVIOUS
    <3>3. CASE m \in made
      BY <1>9, <3>1, <3>3
    <3>4. CASE m = [invoice |-> i, document |-> document]
      BY <3>2, <3>4
    <3> QED BY <1>1, <3>3, <3>4
  <2> QED BY <2>1, <2>2 DEF ErpWasGiven
<1>11. Served(new)'
  <2>1. Approved(new.invoice)' /\ Given(new.document, new.invoice)'
    BY <1>3, <1>6, <1>8, <1>9 DEF Given
  <2> QED BY <1>1, <1>3, <1>6, <2>1 DEF Served, Workflow!Actions
<1> HIDE DEF new
<1> QED BY <1>1, <1>6, <1>7, <1>10, <1>11, CallMovesKeeps

\* The tables stand, and every request is what it was or is over.
LEMMA OverKeeps ==
  ASSUME WorkflowInv, UNCHANGED <<row, trail, made>>, call' \in [Requests -> Calls],
         \A c \in Requests : call'[c] = call[c] \/ call'[c] = Workflow!Idle,
         erp' = erp \/ DOMAIN erp' = {}
  PROVE  WorkflowInv'
<1>1. WorkflowTyped'
  BY DEF WorkflowInv, WorkflowTyped
<1>2. InvoicesTold'
  BY DEF WorkflowInv, InvoicesTold, Told, Approved, Given
<1>3. CallsServed'
  <2>1. \A its \in Calls : Served(its) => Served(its)'
    BY DEF Served, Approved, Given
  <2> SUFFICES ASSUME NEW c \in Requests PROVE Served(call[c])'
    BY DEF CallsServed
  <2>2. CASE call'[c] = call[c]
    <3>1. PICK its \in Calls : its = call[c]
      BY DEF WorkflowInv, WorkflowTyped
    <3>2. Served(its)'
      BY <2>1, <3>1 DEF WorkflowInv, CallsServed
    <3> QED BY <2>2, <3>1, <3>2 DEF Served
  <2>3. CASE call'[c] = Workflow!Idle
    BY <2>3 DEF Served, Workflow!Idle
  <2> QED BY <2>2, <2>3
<1>4. ErpWasGiven'
  BY DEF WorkflowInv, ErpWasGiven, Approved
<1> QED BY <1>1, <1>2, <1>3, <1>4 DEF WorkflowInv

\* The state of a request that is over.
LEMMA IdleIsACall == Workflow!Idle \in Calls /\ Workflow!Idle.at = "idle"
  BY DEF Calls, Workflow!Idle, Staff, Documents

\* Commit: the row and its trail move on together.
LEMMA CommitKeeps == ASSUME WorkflowInv, NEW c \in Requests, Workflow!Commit(c) PROVE WorkflowInv'
<1>0. PICK its \in Calls : its = call[c]
  BY DEF WorkflowInv, WorkflowTyped
<1> DEFINE i == its.invoice
           document == IF its.action = "post" THEN its.document ELSE row[i].document
           new == [row[i] EXCEPT !.status = Workflow!To[its.action], !.document = document]
           told == [rows |-> trail[i].rows \cup {[action |-> its.action, actor |-> its.actor]}, last |-> its.action]
<1>1. /\ its.at = "commit" /\ row' = [row EXCEPT ![i] = new] /\ trail' = [trail EXCEPT ![i] = told]
      /\ call' = [call EXCEPT ![c] = Workflow!Idle] /\ UNCHANGED <<erp, made>>
  BY <1>0 DEF Workflow!Commit, Workflow!Audited
<1>2. /\ i \in DOMAIN Invoices /\ row[i] # Workflow!NoRow /\ its.action \in Workflow!Actions
      /\ its.action = "approve" => its.actor # row[i].created_by
      /\ its.action = "post" => Approved(i) /\ Given(its.document, i)
  BY <1>0, <1>1 DEF WorkflowInv, CallsServed, Served
<1>3. Workflow!To[its.action] \in {"SUBMITTED", "APPROVED", "REJECTED", "POSTED"}
      /\ (Workflow!To[its.action] = "APPROVED" <=> its.action = "approve")
      /\ (Workflow!To[its.action] = "POSTED" <=> its.action = "post")
  BY <1>2 DEF Workflow!Actions, Workflow!To
<1>4. row[i] \in InvoiceRows /\ trail[i] \in Trails
  BY <1>2 DEF WorkflowInv, WorkflowTyped
<1>5. document \in Documents
  BY <1>4 DEF Calls, InvoiceRows
<1> HIDE DEF document
<1>6. /\ new \in InvoiceRows /\ new.status = Workflow!To[its.action] /\ new.created_by = row[i].created_by
      /\ new.document = document
  BY <1>3, <1>4, <1>5 DEF InvoiceRows
<1>7. told \in Trails /\ told.last = its.action /\ told # Workflow!NoTrail
      /\ told.rows = trail[i].rows \cup {[action |-> its.action, actor |-> its.actor]}
  <2>1. [action |-> its.action, actor |-> its.actor] \in [action : Done, actor : Staff]
    BY <1>2 DEF Calls, Done
  <2>2. told.rows # {} /\ told.last = its.action
    OBVIOUS
  <2>3. told.rows \in SUBSET [action : Done, actor : Staff] /\ its.action \in Done
    BY <1>2, <1>4, <2>1 DEF Trails, Done
  <2> QED BY <2>2, <2>3 DEF Trails, Workflow!NoTrail
<1> HIDE DEF new, told
<1>8. WorkflowTyped'
  BY <1>1, <1>6, <1>7, IdleIsACall DEF WorkflowInv, WorkflowTyped
<1>9. \A j \in DOMAIN Invoices : /\ row'[j] = IF j = i THEN new ELSE row[j]
                                 /\ trail'[j] = IF j = i THEN told ELSE trail[j]
  BY <1>1 DEF WorkflowInv, WorkflowTyped
<1>10. new # Workflow!NoRow
  BY <1>3, <1>6 DEF Workflow!NoRow
<1>11. Grows
  BY <1>1, <1>6, <1>7, <1>9, <1>10 DEF Grows
<1>12. ASSUME NEW j \in DOMAIN Invoices
       PROVE  Told(j)' /\ (row'[j].status = "APPROVED" => Approved(j)')
              /\ (row'[j].status = "POSTED" => \E m \in made' : m.document = row'[j].document /\ m.document.key = Invoices[j].key)
  <2>1. CASE j = i
    <3>1. row'[j] = new /\ trail'[j] = told
      BY <1>9, <2>1
    <3>2. Told(j)'
      BY <1>2, <1>6, <1>7, <3>1 DEF Told, Done
    <3>3. row'[j].status = "APPROVED" => Approved(j)'
      <4> SUFFICES ASSUME its.action = "approve" PROVE Approved(j)'
        BY <1>3, <1>6, <3>1
      <4>1. [action |-> its.action, actor |-> its.actor] \in trail'[j].rows
        BY <1>7, <3>1
      <4>2. its.actor # row'[j].created_by
        BY <1>2, <1>6, <3>1
      <4> QED BY <4>1, <4>2 DEF Approved
    <3>4. row'[j].status = "POSTED" => \E m \in made' : m.document = row'[j].document /\ m.document.key = Invoices[j].key
      <4> SUFFICES ASSUME its.action = "post"
                   PROVE  \E m \in made' : m.document = row'[j].document /\ m.document.key = Invoices[j].key
        BY <1>3, <1>6, <3>1
      <4>1. row'[j].document = its.document
        BY <1>6, <3>1 DEF document
      <4> QED BY <1>1, <1>2, <2>1, <4>1 DEF Given
    <3> QED BY <3>2, <3>3, <3>4
  <2>2. CASE j # i
    <3>1. row'[j] = row[j] /\ trail'[j] = trail[j] /\ made' = made
      BY <1>1, <1>9, <2>2
    <3>2. /\ Told(j) /\ (row[j].status = "APPROVED" => Approved(j))
          /\ row[j].status = "POSTED" => Given(row[j].document, j)
      BY DEF WorkflowInv, InvoicesTold
    <3> QED BY <3>1, <3>2 DEF Told, Approved, Given
  <2> QED BY <2>1, <2>2
<1>13. InvoicesTold'
  BY <1>12 DEF InvoicesTold, Given
<1>14. CallsServed'
  <2>1. \A its_ \in Calls : Served(its_) => Served(its_)'
    BY <1>11, GrowingKeeps
  <2>2. \A d \in Requests : call'[d] = IF d = c THEN Workflow!Idle ELSE call[d]
    BY <1>1 DEF WorkflowInv, WorkflowTyped
  <2> SUFFICES ASSUME NEW d \in Requests PROVE Served(call[d])'
    BY DEF CallsServed
  <2>3. CASE d = c
    BY <2>2, <2>3, IdleIsACall DEF Served
  <2>4. CASE d # c
    <3>1. PICK other \in Calls : other = call[d]
      BY DEF WorkflowInv, WorkflowTyped
    <3>2. Served(other)'
      BY <2>1, <3>1 DEF WorkflowInv, CallsServed
    <3> QED BY <2>2, <2>4, <3>1, <3>2 DEF Served
  <2> QED BY <2>3, <2>4
<1>15. ErpWasGiven'
  <2>1. \A m \in made : m.invoice \in DOMAIN Invoices
    BY DEF WorkflowInv, WorkflowTyped
  <2>2. \A m \in made : Approved(m.invoice)'
    BY <1>11, <2>1, GrowingKeeps DEF WorkflowInv, ErpWasGiven
  <2> QED BY <1>1, <2>2 DEF WorkflowInv, ErpWasGiven
<1> QED BY <1>8, <1>13, <1>14, <1>15 DEF WorkflowInv

\* No invoice at first.
LEMMA WorkflowBegins == Init => WorkflowInv
<1> SUFFICES ASSUME Workflow!Init PROVE WorkflowInv
  BY DEF Init
<1>1. WorkflowTyped
  <2>1. Workflow!NoRow \in InvoiceRows
    BY DEF InvoiceRows, Workflow!NoRow, Documents, Staff
  <2>2. Workflow!NoTrail \in Trails
    BY DEF Trails, Workflow!NoTrail
  <2> QED BY <2>1, <2>2, IdleIsACall DEF Workflow!Init, WorkflowTyped
<1>2. InvoicesTold
  BY DEF Workflow!Init, InvoicesTold, Told, Workflow!NoRow
<1>3. CallsServed
  BY IdleIsACall DEF Workflow!Init, CallsServed, Served
<1>4. ErpWasGiven
  BY DEF Workflow!Init, ErpWasGiven
<1> QED BY <1>1, <1>2, <1>3, <1>4 DEF WorkflowInv

\* Every step of the workflow.
LEMMA WorkflowKeeps == WorkflowInv /\ [Next]_allVars => WorkflowInv'
<1> SUFFICES ASSUME WorkflowInv, [Workflow!Next]_workflow_ PROVE WorkflowInv'
  BY WorkflowSteps
<1>1. CASE UNCHANGED workflow_
  <2>1. UNCHANGED <<row, trail, made>> /\ call' = call /\ erp' = erp
    BY <1>1 DEF workflow_
  <2> QED BY <2>1, OverKeeps DEF WorkflowInv, WorkflowTyped
<1>2. ASSUME NEW c \in Requests, Workflow!CommitFails(c) PROVE WorkflowInv'
  <2>1. UNCHANGED <<row, trail, made, erp>> /\ call' = [call EXCEPT ![c] = Workflow!Idle]
    BY <1>2 DEF Workflow!CommitFails
  <2>2. call' \in [Requests -> Calls] /\ \A d \in Requests : call'[d] = call[d] \/ call'[d] = Workflow!Idle
    BY <2>1, IdleIsACall DEF WorkflowInv, WorkflowTyped
  <2> QED BY <2>1, <2>2, OverKeeps
<1>3. CASE Workflow!Crash
  <2>1. UNCHANGED <<row, trail, made>> /\ DOMAIN erp' = {} /\ call' = [c \in Requests |-> Workflow!Idle]
    BY <1>3 DEF Workflow!Crash
  <2>2. call' \in [Requests -> Calls] /\ \A d \in Requests : call'[d] = Workflow!Idle
    BY <2>1, IdleIsACall
  <2> QED BY <2>1, <2>2, OverKeeps
<1> QED BY <1>1, <1>2, <1>3, CreateKeeps, BeginKeeps, LookKeepsThem, GiveKeeps, CommitKeeps DEF Workflow!Next

\* Every document given to the ERP is one that somebody else than its creator approved, and one per invoice;
\* the audit trail ends with what the invoice is (the actions of the finance MVP), for any staff, any invoices
\* and any number of requests at once, a process that dies between the ERP and the commit included.
THEOREM ErpAccountedFor == Spec => []TrailAccountsForTheErp
<1>1. WorkflowInv => TrailAccountsForTheErp
  <2> SUFFICES ASSUME WorkflowInv PROVE Workflow!TrailAccountsForTheErp
    BY DEF TrailAccountsForTheErp
  <2>1. \A m \in made : \E t \in trail[m.invoice].rows : t.action = "approve" /\ t.actor # row[m.invoice].created_by
    BY DEF WorkflowInv, ErpWasGiven, Approved
  <2>2. \A m, o \in made : m.invoice = o.invoice => m.document = o.document
    BY DEF WorkflowInv, ErpWasGiven
  <2>3. ASSUME NEW i \in DOMAIN Invoices
        PROVE  row[i].status = IF trail[i] = Workflow!NoTrail THEN "absent" ELSE Workflow!To[trail[i].last]
    BY DEF WorkflowInv, InvoicesTold, Told, Workflow!NoRow
  <2>4. \A i \in DOMAIN Invoices : row[i].status = "POSTED" =>
           \E m \in made : m.document = row[i].document /\ m.document.key = Invoices[i].key
    BY DEF WorkflowInv, InvoicesTold, Given
  <2> QED BY <2>1, <2>2, <2>3, <2>4 DEF Workflow!TrailAccountsForTheErp
<1> QED BY <1>1, WorkflowBegins, WorkflowKeeps, PTL DEF Spec

-----------------------------------------------------------------------------
(* The guard of the counsel.                                               *)

\* As WindowSteps, of the counsel.
LEMMA CounselSteps == [Next]_allVars => [Legal!Next]_counsel_
<1>1. Next /\ part = "counsel" => Legal!Next
  BY DEF Next
<1>2. Next /\ part # "counsel" => UNCHANGED counsel_
  BY DEF Next, Others
<1>3. UNCHANGED allVars => UNCHANGED counsel_
  BY DEF allVars, counsel_
<1> QED BY <1>1, <1>2, <1>3

\* What is assumed of the names of laws and of the texts.
LEMMA TextsBounds ==
  /\ \A j \in DOMAIN Aliases : Aliases[j].law # ""
  /\ DOMAIN Aliases \subseteq Nat
  /\ AHEAD \in Nat /\ BEHIND \in Nat
  /\ \A text \in Texts : text \in Seq(Legal!Tokens) /\ Legal!WellWritten(text)
<1>1. Legal!TextsAssumption
  BY BoundsAssumption
<1>2. Aliases \in Seq([alias : STRING, law : STRING \ {""}])
  BY <1>1 DEF Legal!TextsAssumption
<1>3. DOMAIN Aliases \subseteq Nat /\ \A j \in DOMAIN Aliases : Aliases[j] \in [alias : STRING, law : STRING \ {""}]
  <2> DEFINE Names == [alias : STRING, law : STRING \ {""}]
  <2> HIDE DEF Names
  <2>1. ASSUME Aliases \in Seq(Names)
        PROVE  DOMAIN Aliases \subseteq Nat /\ \A j \in DOMAIN Aliases : Aliases[j] \in Names
    <3>1. DOMAIN Aliases = 1 .. Len(Aliases) /\ Len(Aliases) \in Nat
      BY <2>1, LenProperties
    <3> QED BY <2>1, <3>1
  <2> QED BY <1>2, <2>1 DEF Names
<1> QED BY <1>1, <1>3 DEF Legal!TextsAssumption

\* The least of a set is the least.
LEMMA LeastIs ==
  ASSUME NEW S \in SUBSET Nat, NEW x \in S, \A y \in S : x <= y
  PROVE  Legal!Least(S) = x
<1>1. \A z \in S : (\A y \in S : z <= y) => z = x
  <2> TAKE z \in S
  <2>1. (\A y \in S : z <= y) => z <= x /\ x <= z
    OBVIOUS
  <2> QED BY <2>1
<1> QED BY <1>1 DEF Legal!Least

\* The greatest of a set of places is one of them.
LEMMA GreatestIs ==
  ASSUME NEW n \in Nat, NEW S \in SUBSET (1 .. n), S # {}
  PROVE  Legal!Greatest(S) \in S /\ \A y \in S : Legal!Greatest(S) >= y
<1>1. PICK x \in S : \A y \in S : x >= y
  BY GreatestOf
<1> QED BY <1>1 DEF Legal!Greatest

\* What is kept of the first words of a text, for every number of them.
Keeping(text, f, n) ==
    f = [i \in 0 .. n |-> IF i = 0 THEN <<>> ELSE IF text[i].kind = "marks" THEN f[i - 1] ELSE Append(f[i - 1], text[i])]

\* There is such a function, for every text.
LEMMA KeepingExists ==
  ASSUME NEW text, Len(text) \in Nat
  PROVE  \E f : Keeping(text, f, Len(text))
<1> DEFINE Without == {n \in Nat : ~\E f : Keeping(text, f, n)}
<1>1. Without \in SUBSET Nat
  OBVIOUS
<1>2. Without = {}
  <2> SUFFICES ASSUME Without # {} PROVE FALSE
    OBVIOUS
  <2>1. PICK n \in Without : \A m \in Without : n <= m
    BY <1>1, LeastOf
  <2>2. n # 0
    <3>1. Keeping(text, [i \in 0 .. 0 |-> <<>>], 0)
      BY DEF Keeping
    <3> QED BY <2>1, <3>1
  <2>3. PICK f : Keeping(text, f, n - 1)
    <3>1. n - 1 \in Nat /\ n - 1 \notin Without
      BY <2>1, <2>2
    <3> QED BY <3>1
  <2> DEFINE last == IF text[n].kind = "marks" THEN f[n - 1] ELSE Append(f[n - 1], text[n])
             g == [i \in 0 .. n |-> IF i = n THEN last ELSE f[i]]
  <2>4. \A i \in 0 .. n : g[i] = IF i = 0 THEN <<>> ELSE IF text[i].kind = "marks" THEN g[i - 1] ELSE Append(g[i - 1], text[i])
    <3> TAKE i \in 0 .. n
    <3>1. CASE i = n
      <4>1. g[i] = last /\ g[i - 1] = f[n - 1]
        BY <2>2, <3>1
      <4> QED BY <2>2, <3>1, <4>1
    <3>2. CASE i # n
      <4>1. f[i] = IF i = 0 THEN <<>> ELSE IF text[i].kind = "marks" THEN f[i - 1] ELSE Append(f[i - 1], text[i])
        <5>1. i \in 0 .. n - 1
          BY <2>1, <3>2
        <5> QED BY <2>3, <5>1 DEF Keeping
      <4>2. g[i] = f[i] /\ (i # 0 => g[i - 1] = f[i - 1])
        BY <2>2, <3>2
      <4> HIDE DEF g, last
      <4> QED BY <4>1, <4>2
    <3> QED BY <3>1, <3>2
  <2>5. g = [i \in 0 .. n |-> g[i]]
    OBVIOUS
  <2> HIDE DEF g, last
  <2>6. Keeping(text, g, n)
    BY <2>4, <2>5 DEF Keeping
  <2> QED BY <2>1, <2>6
<1> QED BY <1>2

\* normalize returns words of the text, and the text itself where it has no marks.
LEMMA NormalizeKeeps ==
  ASSUME NEW text \in Seq(Legal!Tokens)
  PROVE  /\ Legal!normalize(text) \in Seq({text[p] : p \in DOMAIN text})
         /\ (\A p \in DOMAIN text : text[p].kind # "marks") => Legal!normalize(text) = text
<1>1. Len(text) \in Nat /\ DOMAIN text = 1 .. Len(text)
  BY LenProperties
<1> DEFINE Words == {text[p] : p \in DOMAIN text}
           chosen == CHOOSE f : Keeping(text, f, Len(text))
<1>2. Legal!normalize(text) = chosen[Len(text)]
  BY DEF Legal!normalize, Keeping
<1>3. Keeping(text, chosen, Len(text))
  BY <1>1, KeepingExists
<1> HIDE DEF chosen
<1>4. \A n \in 0 .. Len(text) : chosen[n] = IF n = 0 THEN <<>> ELSE IF text[n].kind = "marks" THEN chosen[n - 1] ELSE Append(chosen[n - 1], text[n])
  BY <1>3 DEF Keeping
<1>5. \A p \in 1 .. Len(text) : text[p] \in Words
  BY <1>1
<1> HIDE DEF Words
<1>6. \A n \in 0 .. Len(text) : chosen[n] \in Seq(Words)
  <2> DEFINE Bad == {n \in 0 .. Len(text) : chosen[n] \notin Seq(Words)}
  <2> SUFFICES ASSUME Bad # {} PROVE FALSE
    OBVIOUS
  <2>1. PICK n \in Bad : \A m \in Bad : n <= m
    <3>1. Bad \in SUBSET Nat
      BY <1>1
    <3> QED BY <3>1, LeastOf
  <2>2. n # 0
    BY <1>1, <1>4, <2>1, EmptySeq
  <2>3. n \in 1 .. Len(text) /\ n - 1 \in 0 .. Len(text) /\ n - 1 \notin Bad
    BY <1>1, <2>1, <2>2
  <2>4. chosen[n - 1] \in Seq(Words)
    BY <2>3
  <2>5. chosen[n] \in Seq(Words)
    <3>1. chosen[n] = chosen[n - 1] \/ chosen[n] = Append(chosen[n - 1], text[n])
      <4>1. n \in 0 .. Len(text)
        BY <1>1, <2>3
      <4> QED BY <1>4, <2>2, <4>1
    <3>2. text[n] \in Words
      BY <1>5, <2>3
    <3>3. Append(chosen[n - 1], text[n]) \in Seq(Words)
      BY <2>4, <3>2, AppendProperties
    <3> QED BY <2>4, <3>1, <3>3
  <2> QED BY <2>1, <2>5
<1>7. ASSUME \A p \in DOMAIN text : text[p].kind # "marks"
      PROVE  \A n \in 0 .. Len(text) : Len(chosen[n]) = n /\ \A i \in 1 .. n : chosen[n][i] = text[i]
  <2> DEFINE Bad == {n \in 0 .. Len(text) : ~(Len(chosen[n]) = n /\ \A i \in 1 .. n : chosen[n][i] = text[i])}
  <2> SUFFICES ASSUME Bad # {} PROVE FALSE
    OBVIOUS
  <2>1. PICK n \in Bad : \A m \in Bad : n <= m
    <3>1. Bad \in SUBSET Nat
      BY <1>1
    <3> QED BY <3>1, LeastOf
  <2>2. n # 0
    <3>1. Len(<<>>) = 0 /\ 1 .. 0 = {}
      BY EmptySeq
    <3>2. n = 0 => chosen[n] = <<>>
      BY <1>1, <1>4, <2>1
    <3> QED BY <2>1, <3>1, <3>2
  <2>3. n \in 1 .. Len(text) /\ n - 1 \in 0 .. Len(text) /\ n - 1 \notin Bad /\ n \in Nat
    BY <1>1, <2>1, <2>2
  <2>4. /\ chosen[n - 1] \in Seq(Words) /\ Len(chosen[n - 1]) = n - 1
        /\ \A i \in 1 .. n - 1 : chosen[n - 1][i] = text[i]
    BY <1>6, <2>3
  <2>5. chosen[n] = Append(chosen[n - 1], text[n])
    <3>1. n \in 0 .. Len(text) /\ n \in DOMAIN text
      BY <1>1, <2>3
    <3> QED BY <1>4, <1>7, <2>2, <3>1
  <2>6. Len(chosen[n]) = n /\ \A i \in 1 .. n : chosen[n][i] = text[i]
    BY <1>5, <2>3, <2>4, <2>5, AppendProperties
  <2> QED BY <2>1, <2>6
<1>8. ASSUME \A p \in DOMAIN text : text[p].kind # "marks"
      PROVE  chosen[Len(text)] = text
  <2>1. chosen[Len(text)] \in Seq(Words) /\ text \in Seq(Words)
    BY <1>1, <1>5, <1>6
  <2>2. Len(chosen[Len(text)]) = Len(text) /\ \A i \in 1 .. Len(text) : chosen[Len(text)][i] = text[i]
    BY <1>1, <1>7, <1>8
  <2> QED BY <2>1, <2>2, SeqEqual
<1>9. chosen[Len(text)] \in Seq(Words)
  BY <1>1, <1>6
<1> QED BY <1>2, <1>8, <1>9 DEF Words

\* A window has the words of its places and no other.
LEMMA WindowOf ==
  ASSUME NEW S, NEW norm \in Seq(S), NEW first \in Int, NEW last \in Int
  PROVE  LET cut == Legal!Window(norm, first, last)
         IN  /\ DOMAIN cut = 1 .. Len(cut) /\ Len(cut) \in Nat
             /\ \A i \in DOMAIN cut : \E q \in DOMAIN norm : first <= q /\ q <= last /\ cut[i] = norm[q]
             /\ \A q \in DOMAIN norm : first <= q /\ q <= last => \E i \in DOMAIN cut : cut[i] = norm[q]
<1> DEFINE from == IF first < 1 THEN 1 ELSE first
           to == IF last > Len(norm) THEN Len(norm) ELSE last
           cut == SubSeq(norm, from, to)
<1>1. Legal!Window(norm, first, last) = cut
  BY DEF Legal!Window
<1>2. Len(norm) \in Nat /\ DOMAIN norm = 1 .. Len(norm) /\ \A q \in 1 .. Len(norm) : norm[q] \in S
  BY LenProperties
<1>3. from \in Int /\ to \in Int /\ from >= 1 /\ from >= first /\ to <= Len(norm) /\ to <= last
      /\ \A q \in 1 .. Len(norm) : first <= q /\ q <= last => from <= q /\ q <= to
  BY <1>2
<1> HIDE DEF from, to
<1>4. \A i \in from .. to : norm[i] \in S
  BY <1>2, <1>3
<1>5. /\ cut \in Seq(S) /\ Len(cut) = IF from <= to THEN to - from + 1 ELSE 0
      /\ \A i \in 1 .. to - from + 1 : cut[i] = norm[from + i - 1]
  BY <1>3, <1>4, SubSeqProperties
<1> HIDE DEF cut
<1>6. DOMAIN cut = 1 .. Len(cut) /\ Len(cut) \in Nat /\ DOMAIN cut = 1 .. to - from + 1
  BY <1>3, <1>5, LenProperties
<1>7. ASSUME NEW i \in DOMAIN cut
      PROVE  \E q \in DOMAIN norm : first <= q /\ q <= last /\ cut[i] = norm[q]
  <2>1. from + i - 1 \in 1 .. Len(norm) /\ first <= from + i - 1 /\ from + i - 1 <= last
    BY <1>2, <1>3, <1>6
  <2> QED BY <1>2, <1>5, <1>6, <2>1
<1>8. ASSUME NEW q \in DOMAIN norm, first <= q, q <= last
      PROVE  \E i \in DOMAIN cut : cut[i] = norm[q]
  <2>1. q - from + 1 \in 1 .. to - from + 1 /\ from + (q - from + 1) - 1 = q
    BY <1>2, <1>3, <1>8
  <2> QED BY <1>5, <1>6, <2>1
<1> QED BY <1>1, <1>6, <1>7, <1>8

\* Ahead, the first law of the list stands for the word that names it.
LEMMA FirstIsNamed ==
  ASSUME NEW cut, DOMAIN cut \subseteq Nat, Legal!Somewhere(cut) # {}
  PROVE  \E i \in DOMAIN cut : Legal!Naming(cut[i]) # {}
                            /\ Aliases[Legal!Least(Legal!Somewhere(cut))].law = Legal!NamedBy(cut[i])
<1>1. DOMAIN Aliases \subseteq Nat
  BY TextsBounds
<1>2. Legal!Somewhere(cut) \in SUBSET Nat
  BY <1>1 DEF Legal!Somewhere
<1>3. PICK j \in Legal!Somewhere(cut) : \A k \in Legal!Somewhere(cut) : j <= k
  BY <1>2, LeastOf
<1>4. PICK i \in DOMAIN cut : j \in Legal!Naming(cut[i])
  BY <1>3 DEF Legal!Somewhere, Legal!Called, Legal!Naming
<1>5. Legal!Naming(cut[i]) \in SUBSET Legal!Somewhere(cut)
  BY DEF Legal!Somewhere, Legal!Called, Legal!Naming
<1>6. Legal!Least(Legal!Somewhere(cut)) = j /\ Legal!Least(Legal!Naming(cut[i])) = j
  <2>1. Legal!Naming(cut[i]) \in SUBSET Nat /\ \A k \in Legal!Naming(cut[i]) : j <= k
    BY <1>2, <1>3, <1>5
  <2> QED BY <1>2, <1>3, <1>4, <2>1, LeastIs
<1> QED BY <1>4, <1>6 DEF Legal!NamedBy

\* Behind, of the laws named last the first of the list stands for the word that names it.
LEMMA NearestIsNamed ==
  ASSUME NEW cut, Len(cut) \in Nat, DOMAIN cut = 1 .. Len(cut), Legal!Somewhere(cut) # {},
         NEW nearest, nearest = {j \in Legal!Somewhere(cut) : \A k \in Legal!Somewhere(cut) :
                                   Legal!Greatest(Legal!Called(cut, j)) >= Legal!Greatest(Legal!Called(cut, k))}
  PROVE  /\ nearest # {}
         /\ \E i \in DOMAIN cut : Legal!Naming(cut[i]) # {} /\ Aliases[Legal!Least(nearest)].law = Legal!NamedBy(cut[i])
<1> DEFINE LastAt(j) == Legal!Greatest(Legal!Called(cut, j))
<1>1. \A j \in Legal!Somewhere(cut) : LastAt(j) \in Legal!Called(cut, j) /\ \A y \in Legal!Called(cut, j) : LastAt(j) >= y
  <2> TAKE j \in Legal!Somewhere(cut)
  <2>1. Legal!Called(cut, j) \in SUBSET (1 .. Len(cut)) /\ Legal!Called(cut, j) # {}
    BY DEF Legal!Called, Legal!Somewhere
  <2> QED BY <2>1, GreatestIs
<1>2. \A j \in Legal!Somewhere(cut) : LastAt(j) \in 1 .. Len(cut) /\ j \in Legal!Naming(cut[LastAt(j)])
  BY <1>1 DEF Legal!Called, Legal!Somewhere, Legal!Naming
<1>3. nearest = {j \in Legal!Somewhere(cut) : \A k \in Legal!Somewhere(cut) : LastAt(j) >= LastAt(k)}
  OBVIOUS
<1>4. \A i \in DOMAIN cut : \A j \in Legal!Naming(cut[i]) : j \in Legal!Somewhere(cut) /\ LastAt(j) >= i
  <2> TAKE i \in DOMAIN cut
  <2> TAKE j \in Legal!Naming(cut[i])
  <2>1. j \in Legal!Somewhere(cut) /\ i \in Legal!Called(cut, j)
    BY DEF Legal!Called, Legal!Somewhere, Legal!Naming
  <2> QED BY <1>1, <2>1
<1> HIDE DEF LastAt
<1>5. PICK x \in {LastAt(j) : j \in Legal!Somewhere(cut)} : \A y \in {LastAt(j) : j \in Legal!Somewhere(cut)} : y <= x
  <2>1. {LastAt(j) : j \in Legal!Somewhere(cut)} \in SUBSET (1 .. Len(cut))
    BY <1>2
  <2>2. {LastAt(j) : j \in Legal!Somewhere(cut)} # {}
    OBVIOUS
  <2> QED BY <2>1, <2>2, GreatestOf
<1>6. nearest # {} /\ nearest \in SUBSET Nat
  <2>1. PICK j \in Legal!Somewhere(cut) : x = LastAt(j)
    BY <1>5
  <2>2. \A k \in Legal!Somewhere(cut) : LastAt(j) >= LastAt(k)
    BY <1>2, <1>5, <2>1
  <2>3. DOMAIN Aliases \subseteq Nat
    BY TextsBounds
  <2> QED BY <1>3, <2>2, <2>3 DEF Legal!Somewhere
<1>7. PICK j \in nearest : \A k \in nearest : j <= k
  BY <1>6, LeastOf
<1>8. j \in Legal!Somewhere(cut) /\ LastAt(j) \in DOMAIN cut /\ j \in Legal!Naming(cut[LastAt(j)])
  BY <1>2, <1>3, <1>7
<1>9. Legal!Naming(cut[LastAt(j)]) \in SUBSET nearest
  <2> SUFFICES ASSUME NEW k \in Legal!Naming(cut[LastAt(j)]) PROVE k \in nearest
    OBVIOUS
  <2>1. k \in Legal!Somewhere(cut) /\ LastAt(k) >= LastAt(j)
    BY <1>4, <1>8
  <2>2. \A m \in Legal!Somewhere(cut) : LastAt(j) >= LastAt(m)
    BY <1>3, <1>7
  <2>3. \A m \in Legal!Somewhere(cut) : LastAt(k) >= LastAt(m)
    BY <1>2, <1>8, <2>1, <2>2
  <2> QED BY <1>3, <2>1, <2>3
<1>10. Legal!Least(nearest) = j /\ Legal!Least(Legal!Naming(cut[LastAt(j)])) = j
  <2>1. Legal!Naming(cut[LastAt(j)]) \in SUBSET Nat /\ \A k \in Legal!Naming(cut[LastAt(j)]) : j <= k
    BY <1>6, <1>7, <1>9
  <2> QED BY <1>6, <1>7, <1>8, <2>1, LeastIs
<1> QED BY <1>6, <1>8, <1>10 DEF Legal!NamedBy

\* The law an article is judged by is one that a word near enough names, if there is such a word.
LEMMA LawIsNamed ==
  ASSUME NEW S, NEW norm \in Seq(S), NEW p \in Nat
  PROVE  LET Near(q) == q \in p + 1 .. p + AHEAD \/ q \in p - BEHIND .. p - 1
         IN  \/ /\ Legal!LawAt(norm, p) = ""
                /\ \A q \in DOMAIN norm : Near(q) => Legal!Naming(norm[q]) = {}
             \/ \E q \in DOMAIN norm : Near(q) /\ Legal!Naming(norm[q]) # {}
                                     /\ Legal!LawAt(norm, p) = Legal!NamedBy(norm[q])
<1> DEFINE ahead == Legal!Window(norm, p + 1, p + AHEAD)
           behind == Legal!Window(norm, p - BEHIND, p - 1)
           nearest == {j \in Legal!Somewhere(behind) : \A k \in Legal!Somewhere(behind) :
                         Legal!Greatest(Legal!Called(behind, j)) >= Legal!Greatest(Legal!Called(behind, k))}
<1>1. Legal!LawAt(norm, p) = IF Legal!Somewhere(ahead) # {} THEN Aliases[Legal!Least(Legal!Somewhere(ahead))].law
                             ELSE IF nearest # {} THEN Aliases[Legal!Least(nearest)].law ELSE ""
  BY DEF Legal!LawAt
<1>2. p + 1 \in Int /\ p + AHEAD \in Int /\ p - BEHIND \in Int /\ p - 1 \in Int /\ DOMAIN norm \subseteq Int
  <2>1. AHEAD \in Nat /\ BEHIND \in Nat
    BY TextsBounds
  <2>2. DOMAIN norm = 1 .. Len(norm) /\ Len(norm) \in Nat
    BY LenProperties
  <2> QED BY <2>1, <2>2
<1>3. /\ DOMAIN ahead = 1 .. Len(ahead) /\ Len(ahead) \in Nat
      /\ \A i \in DOMAIN ahead : \E q \in DOMAIN norm : q \in p + 1 .. p + AHEAD /\ ahead[i] = norm[q]
      /\ \A q \in DOMAIN norm : q \in p + 1 .. p + AHEAD => \E i \in DOMAIN ahead : ahead[i] = norm[q]
  BY <1>2, WindowOf
<1>4. /\ DOMAIN behind = 1 .. Len(behind) /\ Len(behind) \in Nat
      /\ \A i \in DOMAIN behind : \E q \in DOMAIN norm : q \in p - BEHIND .. p - 1 /\ behind[i] = norm[q]
      /\ \A q \in DOMAIN norm : q \in p - BEHIND .. p - 1 => \E i \in DOMAIN behind : behind[i] = norm[q]
  BY <1>2, WindowOf
<1> HIDE DEF ahead, behind
<1>5. CASE Legal!Somewhere(ahead) # {}
  <2>1. PICK i \in DOMAIN ahead : Legal!Naming(ahead[i]) # {}
                               /\ Aliases[Legal!Least(Legal!Somewhere(ahead))].law = Legal!NamedBy(ahead[i])
    <3>1. DOMAIN ahead \subseteq Nat
      BY <1>3
    <3> QED BY <1>5, <3>1, FirstIsNamed
  <2>2. PICK q \in DOMAIN norm : q \in p + 1 .. p + AHEAD /\ ahead[i] = norm[q]
    BY <1>3
  <2> QED BY <1>1, <1>5, <2>1, <2>2
<1>6. CASE Legal!Somewhere(ahead) = {} /\ Legal!Somewhere(behind) # {}
  <2>1. /\ nearest # {}
        /\ \E i \in DOMAIN behind : Legal!Naming(behind[i]) # {} /\ Aliases[Legal!Least(nearest)].law = Legal!NamedBy(behind[i])
    <3>1. Len(behind) \in Nat /\ DOMAIN behind = 1 .. Len(behind)
      BY <1>4
    <3> QED BY <1>6, <3>1, NearestIsNamed, Zenon
  <2> HIDE DEF nearest
  <2>2. PICK i \in DOMAIN behind : Legal!Naming(behind[i]) # {} /\ Aliases[Legal!Least(nearest)].law = Legal!NamedBy(behind[i])
    BY <2>1
  <2>3. PICK q \in DOMAIN norm : q \in p - BEHIND .. p - 1 /\ behind[i] = norm[q]
    BY <1>4
  <2> QED BY <1>1, <1>6, <2>1, <2>2, <2>3
<1>7. CASE Legal!Somewhere(ahead) = {} /\ Legal!Somewhere(behind) = {}
  <2>1. nearest = {}
    BY <1>7
  <2>2. \A i \in DOMAIN ahead : Legal!Naming(ahead[i]) = {}
    BY <1>7 DEF Legal!Somewhere, Legal!Called, Legal!Naming
  <2>3. \A i \in DOMAIN behind : Legal!Naming(behind[i]) = {}
    BY <1>7 DEF Legal!Somewhere, Legal!Called, Legal!Naming
  <2> HIDE DEF nearest
  <2> QED BY <1>1, <1>3, <1>4, <1>7, <2>1, <2>2, <2>3
<1> QED BY <1>5, <1>6, <1>7

\* An article that the guard leaves is in a loaded statute of the law that it is judged by.
LEMMA StandsIfConfirmed ==
  ASSUME NEW files, NEW raw, NEW p \in Legal!ArticlesOf(raw)
  PROVE  LET law == Legal!LawAt(Legal!normalize(raw), p)
         IN  Legal!redact(files, raw)[p] = raw[p] <=> law # "" /\ Legal!Written(files, law, raw[p].number)
<1> DEFINE law == Legal!LawAt(Legal!normalize(raw), p)
<1>1. p \in DOMAIN raw /\ raw[p].kind = "article" /\ raw[p] # Legal!Struck
  BY DEF Legal!ArticlesOf, Legal!Struck
<1>2. Legal!redact(files, raw)[p] = IF Legal!VerdictAt(files, raw, p) # "confirmed" THEN Legal!Struck ELSE raw[p]
  BY <1>1 DEF Legal!redact
<1>3. Legal!VerdictAt(files, raw, p) = IF law = "" \/ law \notin Legal!loaded_slugs(files) THEN "unverifiable"
        ELSE IF [law |-> law, number |-> raw[p].number] \in Legal!statute_articles(files) THEN "confirmed" ELSE "fabricated"
  BY DEF Legal!VerdictAt
<1> HIDE DEF law
<1>4. [law |-> law, number |-> raw[p].number] \in Legal!statute_articles(files) <=> Legal!Written(files, law, raw[p].number)
  <2> DEFINE Statutes == {g \in Legal!ToSet(files) : Legal!Tier(g) = "statute"}
             Of(f) == {[law |-> f.slug, number |-> n] : n \in f.articles}
             n == raw[p].number
  <2> HIDE DEF n
  <2>1. [law |-> law, number |-> n] \in UNION {Of(f) : f \in Statutes} <=> \E f \in Statutes : [law |-> law, number |-> n] \in Of(f)
    BY Zenon
  <2>2. \A f : [law |-> law, number |-> n] \in Of(f) <=> law = f.slug /\ n \in f.articles
    OBVIOUS
  <2> QED BY <2>1, <2>2 DEF Legal!statute_articles, Legal!Written, n
<1>5. Legal!Written(files, law, raw[p].number) => law \in Legal!loaded_slugs(files)
  BY DEF Legal!Written, Legal!loaded_slugs
<1> QED BY <1>1, <1>2, <1>3, <1>4, <1>5 DEF law

\* The guard judges every text by what it names, whatever is loaded.
LEMMA GuardIsFaithfulAlways ==
  ASSUME NEW files, NEW raw \in Texts
  PROVE  Legal!Faithful(files, raw, Legal!redact(files, raw))
<1>1. raw \in Seq(Legal!Tokens) /\ Legal!WellWritten(raw) /\ AHEAD \in Nat /\ BEHIND \in Nat
  BY TextsBounds
<1>2. DOMAIN raw = 1 .. Len(raw) /\ Len(raw) \in Nat
  BY <1>1, LenProperties
<1> DEFINE norm == Legal!normalize(raw)
           Words == {raw[q] : q \in DOMAIN raw}
<1>3. norm \in Seq(Words) /\ ((\A q \in DOMAIN raw : raw[q].kind # "marks") => norm = raw)
  BY <1>1, NormalizeKeeps
<1> SUFFICES ASSUME NEW p \in Legal!ArticlesOf(raw)
             PROVE  LET stands == Legal!redact(files, raw)[p] = raw[p]
                        near == \E q \in DOMAIN raw : raw[q].kind = "law" /\ q <= p + AHEAD /\ p <= q + BEHIND
                        given == \E law \in Legal!Named(raw) : Legal!Written(files, law, raw[p].number)
                    IN  /\ stands => given
                        /\ Legal!Cardinality(Legal!Named(raw)) = 1 /\ Legal!Marks \notin Legal!ToSet(raw)
                             => stands = (near /\ given)
  BY DEF Legal!Faithful
<1> DEFINE law == Legal!LawAt(norm, p)
           stands == Legal!redact(files, raw)[p] = raw[p]
           near == \E q \in DOMAIN raw : raw[q].kind = "law" /\ q <= p + AHEAD /\ p <= q + BEHIND
           given == \E l \in Legal!Named(raw) : Legal!Written(files, l, raw[p].number)
           Near(q) == q \in p + 1 .. p + AHEAD \/ q \in p - BEHIND .. p - 1
<1>4. p \in DOMAIN raw /\ p \in Nat /\ raw[p].kind = "article"
  BY <1>2 DEF Legal!ArticlesOf
<1>5. stands <=> law # "" /\ Legal!Written(files, law, raw[p].number)
  BY StandsIfConfirmed
<1>6. \/ law = "" /\ \A q \in DOMAIN norm : Near(q) => Legal!Naming(norm[q]) = {}
      \/ \E q \in DOMAIN norm : Near(q) /\ Legal!Naming(norm[q]) # {} /\ law = Legal!NamedBy(norm[q])
  <2> HIDE DEF norm
  <2> QED BY <1>3, <1>4, LawIsNamed
<1> HIDE DEF law, stands
<1>7. \A q \in DOMAIN raw : Legal!Naming(raw[q]) # {} <=> raw[q].kind = "law"
  BY <1>1 DEF Legal!WellWritten
<1>8. \A q \in DOMAIN raw : raw[q].kind = "law" => Legal!NamedBy(raw[q]) \in Legal!Named(raw)
  BY DEF Legal!Named
<1>9. stands => given
  <2> SUFFICES ASSUME stands PROVE given
    OBVIOUS
  <2>1. PICK q \in DOMAIN norm : Legal!Naming(norm[q]) # {} /\ law = Legal!NamedBy(norm[q])
    BY <1>5, <1>6
  <2>2. norm[q] \in Words
    <3> HIDE DEF norm, Words
    <3>1. DOMAIN norm = 1 .. Len(norm)
      BY <1>3, LenProperties
    <3> QED BY <1>3, <2>1, <3>1
  <2>3. PICK r \in DOMAIN raw : norm[q] = raw[r]
    BY <2>2
  <2>4. law \in Legal!Named(raw)
    BY <1>7, <1>8, <2>1, <2>3
  <2> QED BY <1>5, <2>4
<1>10. ASSUME Legal!Cardinality(Legal!Named(raw)) = 1, Legal!Marks \notin Legal!ToSet(raw)
       PROVE  stands <=> near /\ given
  <2>1. norm = raw
    <3>1. \A q \in DOMAIN raw : raw[q].kind = "marks" => raw[q] = Legal!Marks
      BY <1>1 DEF Legal!WellWritten
    <3>2. \A q \in DOMAIN raw : raw[q] \in Legal!ToSet(raw)
      BY DEF Legal!ToSet
    <3> QED BY <1>3, <1>10, <3>1, <3>2
  <2> HIDE DEF norm
  <2>2. \A q \in DOMAIN raw : raw[q].kind = "law" => (Near(q) <=> q <= p + AHEAD /\ p <= q + BEHIND)
    BY <1>1, <1>2, <1>4
  <2>3. PICK name : Legal!Named(raw) = {name}
    <3> DEFINE Laws == {q \in DOMAIN raw : raw[q].kind = "law"}
               f == [q \in Laws |-> Legal!NamedBy(raw[q])]
    <3>1. IsFiniteSet(Laws)
      <4>1. IsFiniteSet(1 .. Len(raw)) /\ Laws \in SUBSET (1 .. Len(raw))
        BY <1>2, FS_Interval
      <4> QED BY <4>1, FS_Subset
    <3>2. f \in Surjection(Laws, Legal!Named(raw))
      BY DEF Surjection, Legal!Named
    <3>3. IsFiniteSet(Legal!Named(raw))
      BY <3>1, <3>2, FS_Surjection
    <3>4. Cardinality(Legal!Named(raw)) = 1
      BY <1>10 DEF Legal!Cardinality, Cardinality
    <3> QED BY <3>3, <3>4, FS_Singleton
  <2>4. ASSUME stands PROVE near
    <3>1. PICK q \in DOMAIN raw : Near(q) /\ Legal!Naming(raw[q]) # {}
      BY <1>5, <1>6, <2>1, <2>4
    <3> QED BY <1>7, <2>2, <3>1
  <2>5. ASSUME near, given PROVE stands
    <3>1. PICK q \in DOMAIN raw : raw[q].kind = "law" /\ Near(q)
      BY <2>2, <2>5
    <3>2. PICK r \in DOMAIN raw : Legal!Naming(raw[r]) # {} /\ law = Legal!NamedBy(raw[r])
      BY <1>6, <1>7, <2>1, <3>1
    <3>3. law = name /\ law \in Legal!Named(raw)
      BY <1>7, <1>8, <2>3, <3>2
    <3>4. Legal!Written(files, law, raw[p].number)
      BY <2>3, <2>5, <3>3
    <3>5. law # ""
      <4>1. Legal!Naming(raw[r]) \in SUBSET Nat
        BY TextsBounds DEF Legal!Naming
      <4>2. PICK j \in Legal!Naming(raw[r]) : \A k \in Legal!Naming(raw[r]) : j <= k
        BY <3>2, <4>1, LeastOf
      <4>3. law = Aliases[j].law
        BY <3>2, <4>1, <4>2, LeastIs DEF Legal!NamedBy
      <4>4. j \in DOMAIN Aliases
        BY <4>2 DEF Legal!Naming
      <4> QED BY <4>3, <4>4, TextsBounds
    <3> QED BY <1>5, <3>4, <3>5
  <2> QED BY <1>9, <2>4, <2>5
<1> HIDE DEF near, given
<1>11. Legal!Cardinality(Legal!Named(raw)) = 1 /\ Legal!Marks \notin Legal!ToSet(raw) => stands = (near /\ given)
  BY <1>10 DEF stands
<1> QED BY <1>9, <1>11 DEF stands, near, given

\* The record of a question.
AskTyped == ask = [at |-> ask.at, question |-> ask.question, sources |-> ask.sources, raw |-> ask.raw,
                   text |-> ask.text, judged |-> ask.judged]

\* The inductive invariant of the counsel.
CounselInv ==
    /\ AskTyped
    /\ ask.at = "answered" => Legal!Faithful(ask.judged, ask.raw, ask.text)
    /\ ask.at # "answered" => ask.raw = <<>>
    /\ index # NotLoaded /\ ~failed => corpus = index

\* No answer names no article.
LEMMA NothingIsFaithful == \A judged, text : Legal!Faithful(judged, <<>>, text)
<1>1. Legal!ArticlesOf(<<>>) = {}
  BY EmptySeq DEF Legal!ArticlesOf
<1> QED BY <1>1 DEF Legal!Faithful

\* An article that stands in an answer is in a statute loaded when the answer was handed over, and of a law
\* that the text names; and the passages come from the same reading of the files as the guard (guard.redact,
\* corpus.reset), whatever the files, the names of laws and the texts are.
THEOREM GuardJudges == Spec => []GuardJudgesByTheText
<1>1. Init => CounselInv
  <2> SUFFICES ASSUME Legal!Init PROVE CounselInv
    BY DEF Init
  <2> QED BY DEF Legal!Init, Legal!Nobody, CounselInv, AskTyped
<1>2. CounselInv /\ [Next]_allVars => CounselInv'
  <2> SUFFICES ASSUME CounselInv, [Legal!Next]_counsel_ PROVE CounselInv'
    BY CounselSteps
  <2>1. CASE Legal!Ask
    <3>1. PICK q, found : ask' = [Legal!Nobody EXCEPT !.at = IF found = <<>> THEN "answered" ELSE "model",
                                                    !.question = q, !.sources = Legal!ToSet(found)]
      BY <2>1 DEF Legal!Ask
    <3>2. ask'.raw = <<>> /\ AskTyped'
      BY <3>1 DEF Legal!Nobody, AskTyped
    <3>3. failed' = failed /\ index' = (IF index = NotLoaded THEN Legal!Loaded ELSE index)
          /\ corpus' = (IF index = NotLoaded THEN Legal!Loaded ELSE corpus)
      BY <2>1 DEF Legal!Ask
    <3> QED BY <3>2, <3>3, NothingIsFaithful DEF CounselInv
  <2>2. CASE Legal!ModelAnswers
    <3>1. PICK text \in Texts : ask' = [ask EXCEPT !.at = "answered", !.raw = text, !.text = Legal!redact(Legal!Loaded, text),
                                                  !.judged = Legal!Loaded]
      BY <2>2 DEF Legal!ModelAnswers
    <3>2. ask'.at = "answered" /\ ask'.raw = text /\ ask'.text = Legal!redact(Legal!Loaded, text) /\ ask'.judged = Legal!Loaded
          /\ AskTyped'
      BY <3>1 DEF CounselInv, AskTyped
    <3>3. corpus' = Legal!Loaded /\ index' = index /\ failed' = failed
      BY <2>2 DEF Legal!ModelAnswers
    <3>4. index # NotLoaded /\ ~failed => Legal!Loaded = corpus
      BY DEF CounselInv, Legal!Loaded
    <3>5. Legal!Faithful(Legal!Loaded, text, Legal!redact(Legal!Loaded, text))
      BY GuardIsFaithfulAlways
    <3> QED BY <3>2, <3>3, <3>4, <3>5 DEF CounselInv
  <2>3. CASE Legal!ModelFails
    <3>1. ask' = [ask EXCEPT !.at = "answered"] /\ ask.raw = <<>> /\ UNCHANGED <<corpus, index, failed>>
      BY <2>3 DEF Legal!ModelFails, CounselInv
    <3>2. ask'.raw = <<>> /\ AskTyped'
      BY <3>1 DEF CounselInv, AskTyped
    <3> QED BY <3>1, <3>2, NothingIsFaithful DEF CounselInv
  <2>4. CASE Legal!Return
    BY <2>4 DEF Legal!Return, Legal!Nobody, CounselInv, AskTyped
  <2>5. CASE Legal!Look
    BY <2>5 DEF Legal!Look, CounselInv, AskTyped
  <2>6. CASE Legal!Reindex
    BY <2>6 DEF Legal!Reindex, CounselInv, AskTyped
  <2>7. CASE \E s \in DOMAIN Slots : Legal!FileChanges(s)
    BY <2>7 DEF Legal!FileChanges, CounselInv, AskTyped
  <2>8. CASE UNCHANGED counsel_
    BY <2>8 DEF counsel_, CounselInv, AskTyped
  <2> QED BY <2>1, <2>2, <2>3, <2>4, <2>5, <2>6, <2>7, <2>8 DEF Legal!Next
<1>3. CounselInv => GuardJudgesByTheText
  BY DEF CounselInv, GuardJudgesByTheText, Legal!GuardJudgesByTheText
<1> QED BY <1>1, <1>2, <1>3, PTL DEF Spec
=============================================================================
