---------------------------- MODULE MCThreadPool ----------------------------
(***************************************************************************)
(* Instances of ThreadPool for TLC: two or three workers, so that one can  *)
(* sleep while another runs and a third goes for the mutex.                *)
(***************************************************************************)
EXTENDS ThreadPool, TLC

CONSTANTS w1, w2, w3

=============================================================================
