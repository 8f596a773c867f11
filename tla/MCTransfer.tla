----------------------------- MODULE MCTransfer -----------------------------
(* TLC instances of Transfer: two files around a directory. *)
EXTENDS Transfer

TwoFiles == {0, 2}
OneDir   == {1}
NoDir    == {}

CancelOnly == {"cancel"}
=============================================================================
