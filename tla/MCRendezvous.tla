---------------------------- MODULE MCRendezvous ----------------------------
(* TLC instances of Rendezvous. *)
EXTENDS Rendezvous, TLC

Options(s, r) == [side \in Sides |-> IF side = "sender" THEN s ELSE r]

Everything == [Sides -> SUBSET Paths]
LanOnly    == {Options({"lan"}, {"lan"}), Options(Paths, {"lan"})}
Both       == {Options(Paths, Paths)}

NoTrouble  == {{}}
AnyTrouble == {AllTroubles}
LittleOrAll == {{"lost"}, {"lost", "refused"}, AllTroubles}

\* The sender's connections are made in any order, and nothing orders them.
Interchangeable == Permutations(SenderConns)
=============================================================================
