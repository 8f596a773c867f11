---------------------------- MODULE MCRelayServer ----------------------------
(* TLC instances of RelayServer: which connections and rooms are alike. *)
EXTENDS RelayServer, TLC

Symmetry == Permutations(Conns) \cup Permutations(RoomNames)
=============================================================================
