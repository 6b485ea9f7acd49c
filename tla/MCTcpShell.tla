----------------------------- MODULE MCTcpShell -----------------------------
(* A small instance of TcpShell for TLC: a client with two connections,    *)
(* one with one, and one with the wrong password.                         *)
EXTENDS TcpShell, TLC

CONSTANTS c1, c2, c3

MCMaxConns == (c1 :> 2) @@ (c2 :> 1) @@ (c3 :> 1)
=============================================================================
