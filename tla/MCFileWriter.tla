---------------------------- MODULE MCFileWriter ----------------------------
(* TLC instances of FileWriter. *)
EXTENDS FileWriter
=============================================================================
