----------------------------- MODULE MCCctvFeed -----------------------------
(* Two recorders, the first with an analog camera.                         *)
EXTENDS CctvFeed

TheRecorders == <<"r1", "r2">>
=============================================================================
