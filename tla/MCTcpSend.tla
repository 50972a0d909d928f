----------------------------- MODULE MCTcpSend -----------------------------
(* Small instances of TcpSend. *)
EXTENDS TcpSend

CONSTANTS a1, u1

Admins == {a1}
Users == {u1}
=============================================================================
