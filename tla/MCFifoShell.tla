----------------------------- MODULE MCFifoShell -----------------------------
(* A small instance of FifoShell for TLC. *)
EXTENDS FifoShell
=============================================================================
