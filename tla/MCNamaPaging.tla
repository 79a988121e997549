---------------------------- MODULE MCNamaPaging ----------------------------
(* NamaPaging on a handful of documents.                                   *)
EXTENDS NamaPaging

SmallBooks == <<1, 2, 3, 4, 5>>
=============================================================================
