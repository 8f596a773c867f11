--------------------------- MODULE MCFrameCipher ---------------------------
(* TLC instances of FrameCipher. *)
EXTENDS FrameCipher
=============================================================================
