------------------------------- MODULE MCPing -------------------------------
(* Small instances of Ping for TLC. *)
EXTENDS Ping, TLC
=============================================================================
