--------------------------- MODULE MCTunnelServer ---------------------------
(* A small instance of TunnelServer for TLC. *)
EXTENDS TunnelServer, TLC

\* No action tells one tunnelcli, one source or one destination from another.
Symmetry == Permutations(Clients) \cup Permutations(Sources)
              \cup Permutations(Dests)
=============================================================================
