------------------------------ MODULE MCTunneld ------------------------------
(* Small instances of Tunneld for TLC. *)
EXTENDS Tunneld, TLC

\* No action tells one tunnelcli, one source or one destination from another.
Symmetry == Permutations(Clients) \cup Permutations(Sources)
              \cup Permutations(Dests)
=============================================================================
