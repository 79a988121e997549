----------------------------- MODULE MCVatMonth -----------------------------
(* A calendar of three months of two days.                                 *)
EXTENDS VatMonth, Integers

TheFigures == {[action |-> "buy", missed |-> TRUE, problems |-> FALSE]}

-----------------------------------------------------------------------------
(* The arithmetic over small piles of documents, in both modes of K, with and without codes. *)

Activity(perActivity, codes) ==
    INSTANCE VatPlan WITH KManufacturing <- 20, KTrading <- 10, PerActivity <- perActivity, HaveCodes <- codes
Missing == -1
Amounts == {[net |-> 1000, total |-> 1140, vat |-> 140], [net |-> Missing, total |-> 1140, vat |-> Missing],
            [net |-> 3000, total |-> 3000, vat |-> Missing]}
Document(status, type, direction, customs, lines, a) ==
    [status |-> status, type |-> type, direction |-> direction, customs |-> customs, lines |-> lines,
     net |-> a.net, total |-> a.total, vat |-> a.vat]
\* Never read, all of one activity, divided between the two, and lines that leave out a part of the document.
Ln(listed, net, vat) == [net |-> net, vat |-> vat, listed |-> listed]
LineLists == {<<>>, <<Ln(TRUE, 1000, 140)>>, <<Ln(FALSE, 1000, 140)>>,
              <<Ln(TRUE, 600, 84), Ln(FALSE, 400, 56)>>, <<Ln(FALSE, 500, 70)>>}
Documents == {Document("valid", type, "Sent", FALSE, lines, a) : type \in {"I", "C"}, lines \in LineLists, a \in Amounts}
             \cup {Document("valid", type, "Received", customs, <<>>, a) : type \in {"I", "D"}, customs \in BOOLEAN, a \in Amounts}
             \cup {Document(status, "I", "Sent", FALSE, <<>>, a) : status \in {"cancelled", "submitted"}, a \in Amounts}

\* The figures of a month add up, notes cancel, estimates agree with what is printed, slots share
\* no purchase, and a draft is held to every figure.
ASSUME FiguresAddUp ==
    \A perActivity, codes \in BOOLEAN :
        /\ Documents \subseteq Activity(perActivity, codes)!Doc
        /\ Activity(perActivity, codes)!PurchaseCoversOneSlot
        /\ \A d \in Documents :
              /\ Activity(perActivity, codes)!EstimateIsThePrinted(d)
              /\ \A e \in Documents :
                    /\ Activity(perActivity, codes)!NoteCancels(<<e>>, d)
                    /\ \A releases \in {<<>>, <<70>>}, credit \in {0, 280} :
                          Activity(perActivity, codes)!PlanAddsUp(<<d, e>>, releases, credit)
                    /\ Activity(perActivity, codes)!DraftIsHeldToThePlan(
                          Activity(perActivity, codes)!Plan(<<d, e>>, <<>>, 0))
=============================================================================
