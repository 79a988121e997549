----------------------------- MODULE ShipmentPlan -----------------------------
(***************************************************************************)
(* What a shipment file says (app/integrations/imports/engine.py), as      *)
(* operators over the file and its documents, costs, containers, checklist *)
(* and steps; the procedure is the table of imports/sop.py.  Dates are     *)
(* days, money is in whole units, and None is a field nobody filled.       *)
(***************************************************************************)
EXTENDS Integers, Sequences, SequencesExt, FiniteSets

CONSTANTS
    None,
    Unread,          \* a text in the place of a date that `_d` cannot read: nobody refuses it
    ValidAcids,      \* numbers of 19 digits
    OtherAcids       \* numbers that are not

Acids == ValidAcids \cup OtherAcids
Set(value) == value # None

\* A field that holds a date, as `_d` reads it.
Read(value) == IF value = Unread THEN None ELSE value

-----------------------------------------------------------------------------
(* The procedure.                                                          *)

\* A step: its phase, whether it is a gate, and the rule it ticks itself by ("" when none).
Step(phase, gate, auto) == [phase |-> phase, gate |-> gate, auto |-> auto]
S(phase, auto) == Step(phase, FALSE, auto)
G(phase, auto) == Step(phase, TRUE, auto)

IMPORT_STEPS == <<
    S("A", ""), S("A", "hs_code"), S("A", ""), G("A", ""), G("A", "incoterm+payment_term"),
    S("B", "po_code"), S("B", "payment_term"), S("B", ""),
    G("C", "acid_valid"), S("C", ""), G("C", ""), G("C", "acid_match"), G("C", "nafeza_accepted"),
    G("D", "bl_checklist"), S("D", "doc_pack"), G("D", "eta+free_days"), S("D", "broker"),
    G("E", "delivery_order"), G("E", "customs_declaration"), S("E", "released_at"),
    G("E", "weight_checked"), S("E", ""), G("E", "grn_code"),
    S("F", "costs_documented"), G("F", ""), S("F", ""), G("F", "landed_ready"), S("F", "")>>

BL_STEPS == <<
    S("a", "bl_draft"), G("a", "bl_checklist"), S("a", ""), G("a", ""),
    G("b", "release_matrix"), S("b", "bl_final"), G("b", "acid_on_bl"),
    G("c", "endorsed_if_lc"), S("c", ""), G("c", "telex_verified"), S("c", ""),
    G("d", ""), S("d", "costs_documented"), G("d", "delivery_order"), G("d", "released_before_freetime"),
    S("e", "containers_returned"), S("e", "deposits_back"), S("e", "")>>

ALL_STEPS == IMPORT_STEPS \o BL_STEPS
Phases == {ALL_STEPS[n].phase : n \in DOMAIN ALL_STEPS}

AcidDocs == {"invoice", "packing", "bl_draft", "bl_final", "coo", "nafeza", "customs"}
DocPack == {"invoice", "packing", "bl_final", "coo", "coa"}
DocKinds == AcidDocs \cup DocPack \cup {"finance_form", "delivery_order", "weight_note", "endorsement"}
BlChecklist == {"shipper", "consignee", "notify", "acid", "goods", "weight", "containers", "ports",
                "freight", "originals", "onboard", "bl_kind"}

PaymentTerms == {"LC", "CAD", "TT100", "TT_PARTIAL"}
BlTypes == {"original", "seawaybill", "telex"}
BlOf(term) == IF term = "TT100" THEN {"seawaybill", "telex"} ELSE {"original"}
NeedsEndorsement(term) == term \in {"LC", "CAD"}

-----------------------------------------------------------------------------
(* ACID.                                                                   *)

AcidState(file, docs, kind) ==
    IF kind \notin DOMAIN docs THEN "missing"
    ELSE IF ~Set(docs[kind].acid_on_doc) THEN "blank"
    ELSE IF docs[kind].acid_on_doc = file.acid THEN "ok" ELSE "mismatch"

AcidCheck(file, docs) ==
    LET is(state) == {kind \in AcidDocs : AcidState(file, docs, kind) = state}
    IN  [mismatches |-> is("mismatch"),
         onBl |-> AcidState(file, docs, "bl_draft") = "ok",
         ok |-> /\ file.acid \in ValidAcids
                /\ is("mismatch") = {}
                /\ Cardinality(is("ok")) >= 3]

-----------------------------------------------------------------------------
(* Free time and what comes after it.                                      *)

FREE_TIME_WARN_DAYS == 5
ACI_LEAD_DAYS == 2

\* The first tier that covers a day of demurrage, or 0.
TierOf(tariff, day) ==
    SelectInSeq(tariff, LAMBDA t : t.from <= day /\ day <= t.to)

Demurrage(days, boxes, tariff) ==
    LET billed[d \in 0 .. days] == IF d = 0 THEN 0 ELSE billed[d - 1] + tariff[TierOf(tariff, d)].rate
    IN  IF days <= 0 THEN 0
        ELSE IF tariff = <<>> \/ boxes = 0 \/ \E d \in 1 .. days : TierOf(tariff, d) = 0 THEN None
        ELSE boxes * billed[days]

Detention(boxes, today) ==
    LET all  == DOMAIN boxes
        out  == {b \in all : ~Set(boxes[b].returned_at)}
        held == {b \in all : boxes[b].deposit > 0 /\ ~boxes[b].deposit_back}
    IN  [total |-> Len(boxes), outstanding |-> Cardinality(out), held |-> Cardinality(held),
         late |-> {b \in out : Set(Read(boxes[b].out_at)) /\ boxes[b].free_return_days > 0
                               /\ today - boxes[b].out_at > boxes[b].free_return_days}]

EndOfFreeTime(file) ==
    LET arrival == IF Set(Read(file.ata)) THEN file.ata ELSE Read(file.eta)
        start   == IF Set(Read(file.free_time_start)) THEN file.free_time_start ELSE arrival
    IN  IF Set(start) /\ file.free_days \notin {None, 0} THEN start + file.free_days ELSE None

\* The days run on after the goods have left.
StopsNever(file, today) == today

\* The day the goods left, or today while they have not.
Stop(file, today) == IF Set(Read(file.released_at)) THEN file.released_at ELSE today

Clock(file, boxes, today) ==
    LET end  == EndOfFreeTime(file)
        over == IF Set(end) /\ Stop(file, today) > end THEN Stop(file, today) - end ELSE 0
        left == IF Set(end) /\ ~Set(Read(file.released_at)) THEN end - today ELSE None
    IN  [end |-> end, overdue |-> over, left |-> left, released |-> Set(Read(file.released_at)),
         estimate |-> Demurrage(over, IF file.containers > 0 THEN file.containers ELSE Len(boxes),
                                file.demurrage_tariff),
         detention |-> Detention(boxes, today),
         aciDeadline |-> IF Set(Read(file.etd)) THEN file.etd - ACI_LEAD_DAYS ELSE None,
         state |-> IF Set(Read(file.released_at)) THEN "released"
                   ELSE IF over > 0 THEN "overdue"
                   ELSE IF ~Set(left) THEN "unset"
                   ELSE IF left <= FREE_TIME_WARN_DAYS THEN "warn" ELSE "ok"]

-----------------------------------------------------------------------------
(* Landed cost.                                                            *)

\* A foreign amount without a rate taken as it stands.
ToEgpAtPar(amount, currency, fx) ==
    IF ~Set(amount) \/ currency = "EGP" \/ fx \in {None, 0} THEN amount ELSE amount * fx

\* A foreign amount without a rate is no amount.
ToEgp(amount, currency, fx) ==
    IF ~Set(amount) THEN None
    ELSE IF currency = "EGP" THEN amount
    ELSE IF fx \in {None, 0} THEN None ELSE amount * fx

OrZero(amount) == IF Set(amount) THEN amount ELSE 0

Landed(file, costs) ==
    LET cif   == ToEgp(IF Set(file.value_fob) THEN file.value_fob + OrZero(file.freight) + OrZero(file.insurance)
                       ELSE None, file.currency, file.fx_rate)
        egp(c) == ToEgp(c.amount, c.currency, file.fx_rate)
        unconverted  == \E n \in DOMAIN costs : ~Set(egp(costs[n]))
        undocumented == \E n \in DOMAIN costs : Set(egp(costs[n])) /\ ~costs[n].invoiced
        extras[n \in 0 .. Len(costs)] == IF n = 0 THEN 0 ELSE extras[n - 1] + OrZero(egp(costs[n]))
        total  == IF Set(cif) THEN cif + extras[Len(costs)] ELSE None
        perTon == IF ~Set(total) \/ file.qty_ton = 0 THEN None
                  ELSE IF file.qty_ton > 0 THEN total \div file.qty_ton ELSE (-total) \div (-file.qty_ton)
        est    == file.est_landed_per_ton
    IN  [total |-> total, perTon |-> perTon,
         undocumented |-> undocumented, unconverted |-> unconverted,
         offEstimate |-> /\ Set(perTon) /\ est \notin {None, 0}
                         /\ 20 * (perTon - est) \notin -est .. est,
         ready |-> Set(perTon) /\ ~undocumented]

-----------------------------------------------------------------------------
(* Steps.                                                                  *)

\* Three-valued: a rule may be unable to say.
Said(b) == IF b THEN "yes" ELSE "no"

\* The deposits taken for back with the boxes.
DepositsByBoxes(d) == IF d.total = 0 THEN "unknown" ELSE Said(d.outstanding = 0)

\* The deposits: nothing to say while there is neither a box nor money held.
DepositsBack(d) == IF d.held = 0 /\ d.total = 0 THEN "unknown" ELSE Said(d.held = 0)

\* The rule of a step, from the evidence in the file.
AutoDone(rule, file, docs, costs, checklist, ck, cl, lc) ==
    LET have == {k \in DOMAIN docs : docs[k].received}
        d    == cl.detention
    IN  CASE rule = "" -> "unknown"
          [] rule \in DocKinds -> Said(rule \in have)
          [] rule = "acid_valid" -> Said(file.acid \in ValidAcids)
          [] rule = "acid_match" -> Said(ck.ok)
          [] rule = "acid_on_bl" -> Said(ck.onBl)
          [] rule = "bl_checklist" -> Said(\A k \in BlChecklist : k \in DOMAIN checklist /\ checklist[k] = "ok")
          [] rule = "release_matrix" -> Said(Set(file.payment_term) /\ file.bl_type \in BlOf(file.payment_term))
          [] rule = "endorsed_if_lc" -> IF ~Set(file.payment_term) THEN "unknown"
                                        ELSE Said(NeedsEndorsement(file.payment_term) => file.endorsed)
          [] rule = "telex_verified" -> Said(file.bl_type = "telex" => file.telex_verified)
          [] rule = "doc_pack" -> Said(DocPack \subseteq have)
          [] rule = "released_before_freetime" -> IF ~cl.released THEN "unknown" ELSE Said(cl.overdue = 0)
          [] rule = "containers_returned" -> IF d.total = 0 THEN "unknown" ELSE Said(d.outstanding = 0)
          [] rule = "deposits_back" -> DepositsBack(d)
          [] rule = "costs_documented" -> IF costs = <<>> THEN "unknown" ELSE Said(~lc.undocumented)
          [] rule = "landed_ready" -> Said(lc.ready)
          [] rule = "eta+free_days" -> Said(Set(file.eta) /\ file.free_days \notin {None, 0})
          [] rule = "incoterm+payment_term" -> Said("incoterm" \in file.filled /\ Set(file.payment_term))
          [] rule = "payment_term" -> Said(Set(file.payment_term))
          [] rule = "released_at" -> Said(Set(file.released_at))
          [] OTHER -> Said(rule \in file.filled)

\* By hand first, then the evidence, then what was saved.
Resolve(saved, said) ==
    IF saved \in {"done", "na", "blocked"} THEN saved
    ELSE IF said = "yes" THEN "done" ELSE "pending"

Steps(file, docs, costs, checklist, saved, ck, cl, lc) ==
    [n \in DOMAIN ALL_STEPS |->
        Resolve(IF n \in DOMAIN saved THEN saved[n] ELSE "",
                AutoDone(ALL_STEPS[n].auto, file, docs, costs, checklist, ck, cl, lc))]

Closed(steps) == {n \in DOMAIN steps : steps[n] \in {"done", "na"}}
OpenGates(closed) == {n \in DOMAIN ALL_STEPS \ closed : ALL_STEPS[n].gate}

PhaseState(closed, phase) ==
    LET rows == {n \in DOMAIN ALL_STEPS : ALL_STEPS[n].phase = phase}
        done == rows \cap closed
    IN  IF done = rows THEN "done"
        ELSE IF done = {} THEN "pending"
        ELSE IF rows \cap OpenGates(closed) # {} THEN "blocked" ELSE "open"

\* The first open gate, else the first pending step, else none.
NextAction(steps, closed) ==
    LET first(ns) == CHOOSE n \in ns : \A m \in ns : n <= m
        pending   == {n \in DOMAIN steps : steps[n] = "pending"}
    IN  IF OpenGates(closed) # {} THEN first(OpenGates(closed))
        ELSE IF pending # {} THEN first(pending) ELSE None

-----------------------------------------------------------------------------
(* What somebody has to act on.                                            *)

Alerts(file, steps, ck, cl, lc, today) ==
    LET term == file.payment_term
        aci  == Set(cl.aciDeadline) /\ "nafeza_accepted" \notin file.filled
    IN  {a \in {"acid_mismatch", "acid_format", "overdue", "free_time", "no_clock", "aci_late", "aci_soon",
                "undocumented", "unconverted", "off_estimate", "late_boxes", "deposit", "bl_type",
                "not_endorsed", "telex", "blocked_gate"} :
           \/ a = "acid_mismatch" /\ ck.mismatches # {}
           \/ a = "acid_format" /\ ck.mismatches = {} /\ file.acid \notin ValidAcids
           \/ a = "overdue" /\ cl.state = "overdue"
           \/ a = "free_time" /\ cl.state = "warn"
           \/ a = "no_clock" /\ cl.state = "unset"
                             /\ ((~Set(Read(file.eta)) /\ ~Set(Read(file.ata))) \/ file.free_days \in {None, 0})
           \/ a = "aci_late" /\ aci /\ cl.aciDeadline <= today
           \/ a = "aci_soon" /\ aci /\ cl.aciDeadline - today \in 1 .. 3
           \/ a = "undocumented" /\ lc.undocumented
           \/ a = "unconverted" /\ lc.unconverted
           \/ a = "off_estimate" /\ lc.offEstimate
           \/ a = "late_boxes" /\ cl.detention.late # {}
           \/ a = "deposit" /\ cl.detention.held > 0 /\ cl.released
           \/ a = "bl_type" /\ Set(term) /\ Set(file.bl_type) /\ file.bl_type \notin BlOf(term)
           \/ a = "not_endorsed" /\ Set(term) /\ NeedsEndorsement(term) /\ ~file.endorsed /\ cl.released
           \/ a = "telex" /\ file.bl_type = "telex" /\ ~file.telex_verified
           \/ a = "blocked_gate" /\ \E n \in DOMAIN steps : ALL_STEPS[n].gate /\ steps[n] = "blocked"}

\* Everything the screen shows of one file.
Plan(file, docs, costs, boxes, checklist, saved, today) ==
    LET ck == AcidCheck(file, docs)
        cl == Clock(file, boxes, today)
        lc == Landed(file, costs)
        st == Steps(file, docs, costs, checklist, saved, ck, cl, lc)
        closed == Closed(st)
    IN  [acid |-> ck, clock |-> cl, landed |-> lc, steps |-> st, done |-> Cardinality(closed),
         phases |-> [p \in Phases |-> PhaseState(closed, p)], next |-> NextAction(st, closed),
         alerts |-> Alerts(file, st, ck, cl, lc, today)]
==============================================================================
