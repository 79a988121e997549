------------------------------- MODULE VatPlan -------------------------------
(***************************************************************************)
(* The arithmetic of a VAT month (app/integrations/vat/engine.py) as       *)
(* operators: what plan makes of the cached documents, the customs         *)
(* releases and the carried credit, and the calendar of invoice slots.     *)
(* Money is in whole units and every figure the inputs give is a multiple  *)
(* of what it is divided by, so that round() to piastres is the identity.  *)
(***************************************************************************)
EXTENDS Integers, Sequences, SequencesExt, FiniteSets

CONSTANTS
    KManufacturing, KTrading,   \* per mille of the net sales to end up paying
    PerActivity,                \* vat_k_mode = "per_activity"
    HaveCodes                   \* the list of manufacturing codes is not empty

VatPercent == 14

\* A document of the cache: amounts that the row lacks are Unknown.  Of a line what counts is its
\* amounts and whether its code is on the list; lines is <<>> while the details were never read.
Unknown == -1
Line == [net : Int, vat : Int, listed : BOOLEAN]
Doc == [status : {"submitted", "valid", "invalid", "cancelled", "rejected"},
        type : {"I", "C", "D"}, direction : {"Sent", "Received"}, customs : BOOLEAN,
        net : Int, total : Int, vat : Int, lines : Seq(Line)]

Sign(d) == IF d.type = "C" THEN -1 ELSE 1

\* A missing net is backed out of the total, tax included.
NetOf(d) == IF d.net # Unknown THEN d.net ELSE (d.total * 100) \div (100 + VatPercent)

\* A VAT nobody printed: the difference when it is a plausible one, else the rate.
VatOf(d) ==
    IF d.vat # Unknown THEN d.vat
    ELSE IF d.net \notin {Unknown, 0}
         THEN LET diff == d.total - d.net
              IN  IF diff >= 0 /\ diff * 5 <= d.net THEN diff ELSE (d.net * VatPercent) \div 100
         ELSE d.total - NetOf([d EXCEPT !.net = Unknown])

Sum(docs, Amount(_)) == FoldSeq(LAMBDA d, acc : acc + Amount(d), 0, docs)

\* What of a document is manufactured and what is traded.  With lines it is what the lines say,
\* whatever the document's own amounts; without, all of it is manufactured when there is no list
\* of codes, and all of it traded when there is one.
Split(d) ==
    LET Of(part, Amount(_)) == Sum(SelectSeq(d.lines, LAMBDA l : (HaveCodes /\ l.listed) = (part = "made")), Amount)
        whole == IF HaveCodes THEN "traded" ELSE "made"
    IN  [part \in {"made", "traded"} |->
            IF d.lines = <<>>
            THEN IF part = whole THEN [net |-> NetOf(d), vat |-> VatOf(d)] ELSE [net |-> 0, vat |-> 0]
            ELSE [net |-> Of(part, LAMBDA l : l.net), vat |-> Of(part, LAMBDA l : l.vat)]]

SignedVat(d) == VatOf(d) * Sign(d)
SignedNet(d) == NetOf(d) * Sign(d)

\* The part's VAT is taken at the rate when the document's was not printed.
PartNet(d, part) == Split(d)[part].net * Sign(d)
PartVat(d, part) ==
    (IF d.vat # Unknown THEN Split(d)[part].vat ELSE (Split(d)[part].net * VatPercent) \div 100) * Sign(d)

Counted(d) == d.status = "valid"
Sales(docs) == SelectSeq(docs, LAMBDA d : Counted(d) /\ d.direction = "Sent")
Imports(docs) == SelectSeq(docs, LAMBDA d : Counted(d) /\ d.direction = "Received" /\ d.customs)
Purchases(docs) == SelectSeq(docs, LAMBDA d : Counted(d) /\ d.direction = "Received" /\ ~d.customs)
Problems(docs) == SelectSeq(docs, LAMBDA d : d.status \in {"cancelled", "rejected", "invalid"})

\* releases is the VAT of each customs release entered by hand.
Plan(docs, releases, credit) ==
    LET sales     == Sales(docs)
        Net(part) == Sum(sales, LAMBDA d : PartNet(d, part))
        Vat(part) == Sum(sales, LAMBDA d : PartVat(d, part))
        salesVat  == Sum(sales, SignedVat)
        importVat == Sum(Imports(docs), SignedVat) + Sum(releases, LAMBDA r : r)
        bought    == Sum(Purchases(docs), SignedVat)
        target    == IF PerActivity
                     THEN (KManufacturing * Net("made") + KTrading * Net("traded")) \div 1000
                     ELSE ((KManufacturing + KTrading) * Sum(sales, SignedNet)) \div 1000
        gap       == salesVat - importVat - credit - target - bought
    IN  [salesNet |-> Sum(sales, SignedNet), salesVat |-> salesVat,
         madeNet |-> Net("made"), madeVat |-> Vat("made"),
         tradedNet |-> Net("traded"), tradedVat |-> Vat("traded"),
         purchasesVat |-> bought, importsVat |-> importVat, credit |-> credit,
         target |-> target, gap |-> gap, payable |-> salesVat - bought - importVat - credit,
         estimated |-> Len(SelectSeq(docs, LAMBDA d : Counted(d) /\ d.vat = Unknown)),
         problems |-> Len(Problems(docs)),
         action |-> IF sales = <<>> THEN "none"
                    ELSE IF gap > 0 THEN "buy" ELSE IF gap < 0 THEN "surplus" ELSE "ok"]

-----------------------------------------------------------------------------
(* The slots.                                                              *)

WEEKLY_DAYS == {7, 14, 21, 28}
NO_INVOICE_FROM_DAY == 30

Slots(lastDay, hasImports, credit) ==
    {d \in WEEKLY_DAYS : d <= lastDay} \cup (IF ~hasImports /\ credit <= 0 THEN {1} ELSE {})

Window(slot) == (IF slot > 1 THEN slot - 3 ELSE 1)
                .. (IF slot + 3 < NO_INVOICE_FROM_DAY - 1 THEN slot + 3 ELSE NO_INVOICE_FROM_DAY - 1)

Covered(slot, purchaseDays) == purchaseDays \cap Window(slot) # {}

-----------------------------------------------------------------------------
(* The accountant's draft.                                                 *)

DraftFields == {"salesVat", "purchasesVat", "importsVat", "credit", "payable"}

\* A field the draft leaves out does not match; less than one pound apart does.
Matches(plan, draft) == \A k \in DraftFields : draft[k] # Unknown /\ draft[k] = plan[k]

-----------------------------------------------------------------------------
(* What the figures must come to.                                          *)

\* What a document adds to what is owed, whichever heading it comes under.
Owed(d) == IF d.status # "valid" THEN 0 ELSE IF d.direction = "Sent" THEN SignedVat(d) ELSE -SignedVat(d)

\* The lines, where there are any, make up the document.
LinesMakeUp(d) ==
    d.lines # <<>> => /\ Sum(d.lines, LAMBDA l : l.net) = NetOf(d)
                      /\ Sum(d.lines, LAMBDA l : l.vat) = VatOf(d)

\* Every valid document counts once: what is owed is the sum of what each of them adds, the two
\* activities make up the sales when the lines make up their documents, and to buy for the gap is
\* to end up paying the target.
PlanAddsUp(docs, releases, credit) ==
    LET p == Plan(docs, releases, credit)
    IN  /\ p.payable = Sum(docs, Owed) - Sum(releases, LAMBDA r : r) - credit
        /\ (\A i \in DOMAIN docs : LinesMakeUp(docs[i])) =>
              /\ p.madeNet + p.tradedNet = p.salesNet
              /\ p.estimated = 0 => p.madeVat + p.tradedVat = p.salesVat
        /\ p.payable - p.gap = p.target

\* A credit note takes back all that its invoice put in, estimated or printed.
NoteCancels(docs, d) ==
    LET note == [d EXCEPT !.type = "C"]
        with == Plan(docs \o <<[d EXCEPT !.type = "I"], note>>, <<>>, 0)
        without == Plan(docs, <<>>, 0)
    IN  \A k \in {"salesNet", "salesVat", "madeNet", "madeVat", "tradedNet", "tradedVat", "target", "gap", "payable"} : with[k] = without[k]

\* A figure that is missing is estimated as what was printed, where the rate is the common one.
EstimateIsThePrinted(d) ==
    d.vat # Unknown /\ d.net # Unknown /\ d.vat * 100 = d.net * VatPercent =>
        /\ VatOf([d EXCEPT !.vat = Unknown]) = d.vat
        /\ VatOf([d EXCEPT !.vat = Unknown, !.net = Unknown]) = d.vat
        /\ NetOf([d EXCEPT !.net = Unknown]) = d.net

\* No purchase covers two of the weekly slots, and from the fourth day to the 29th each covers one.
PurchaseCoversOneSlot ==
    \A lastDay \in 28 .. 31 : \A day \in 1 .. lastDay :
        LET covered == {s \in Slots(lastDay, TRUE, 0) : Covered(s, {day})}
        IN  IF day \in 4 .. NO_INVOICE_FROM_DAY - 1 THEN Cardinality(covered) = 1
            ELSE covered = {}

\* A draft with the plan's own figures matches, and none that leaves one of them out or gets it wrong.
DraftIsHeldToThePlan(plan) ==
    LET own == [k \in DraftFields |-> plan[k]]
    IN  /\ Matches(plan, own)
        /\ \A k \in DraftFields : ~Matches(plan, [own EXCEPT ![k] = Unknown]) /\ ~Matches(plan, [own EXCEPT ![k] = @ + 1])
==============================================================================
