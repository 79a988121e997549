---------------------------- MODULE MCImportFile ----------------------------
(* A file of a few fields, one shipment whose currency Nama fills in late, *)
(* and whose value it may have as zero, two calls that overlap, two days.  *)
(* Its ACID is too short to be one, and so is that of the draft that comes. *)
EXTENDS ImportFile, TLC

TheRecords == {[eta |-> 0, currency |-> None, value_fob |-> 10],
               [eta |-> 0, currency |-> "USD", value_fob |-> 0]}

Ready == [Blank EXCEPT !.acid = "short", !.value_fob = 10, !.qty_ton = 5, !.free_days = 1, !.containers = 2,
                       !.demurrage_tariff = <<[from |-> 1, to |-> 1, rate |-> 3]>>]
TheOpenings == {Ready}

TheEdits == {[field |-> "eta", value |-> Unread], [field |-> "fx_rate", value |-> 3],
             [field |-> "released_at", value |-> 1], [field |-> "nama_code", value |-> "SH1"]}
ThePapers == {[kind |-> "bl_draft", received |-> TRUE, acid_on_doc |-> "short"]}
TheCosts == {[amount |-> 2, currency |-> "USD", invoiced |-> TRUE], [amount |-> 5, currency |-> "EGP", invoiced |-> FALSE]}
TheBoxes == {[out_at |-> 0, returned_at |-> None, free_return_days |-> 1, deposit |-> 4, deposit_back |-> FALSE]}
TheBoxEdits == {[field |-> "returned_at", value |-> 1], [field |-> "deposit_back", value |-> TRUE]}
TheStepEdits == {[no |-> 27, state |-> "blocked"]}
TheChecks == {[key |-> "acid", state |-> "ok"]}

Same == Permutations(Syncs)
=============================================================================
