----------------------------- MODULE MCUdpSend -----------------------------
(***************************************************************************)
(* Instances of UdpSend for TLC: few packages, and a limit low enough to   *)
(* be reached while a consumer sleeps, holds the mutex or sends.           *)
(***************************************************************************)
EXTENDS UdpSend

=============================================================================
