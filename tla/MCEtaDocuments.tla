--------------------------- MODULE MCEtaDocuments ---------------------------
(* One document: a sale of the last day of July that the portal received   *)
(* in August.  Documents meet only in the lists they are read with.        *)
EXTENDS EtaDocuments

TheDirection == [d \in Docs |-> "Sent"]
TheDay == [d \in Docs |-> 31]
IssueMonth == [d \in Docs |-> "july"]
ReceiptMonth == [d \in Docs |-> "august"]

TheLifecycle == {<<"absent", "valid">>, <<"valid", "cancelled">>}

\* The portal's list, and a page that hides the uuid and the status and shows the VAT.
Grid == [uuid |-> TRUE, vat |-> FALSE, net |-> FALSE, status |-> TRUE, parties |-> TRUE]
TheShapes == {Grid, [uuid |-> FALSE, vat |-> TRUE, net |-> FALSE, status |-> FALSE, parties |-> TRUE]}
=============================================================================
