----------------------------- MODULE TaskQueue -----------------------------
(***************************************************************************)
(* What the thread pool promises the epoll loop: packages are handed to    *)
(* idle workers, one at a time each, in the order they were received.      *)
(* Once the pool is told to stop none is received, and at most one more is *)
(* handed out; the others are left where they are.                         *)
(***************************************************************************)
EXTENDS Naturals, Sequences

CONSTANTS
  Worker,  \* who works
  Task,    \* what is worked on
  Nothing  \* what an idle worker has

VARIABLES
  waiting, \* the packages not yet handed out
  working, \* per worker, the package it has in hands
  mode     \* "open", "last": one more may be handed out, or "closed"

vars == <<waiting, working, mode>>

Init ==
  /\ waiting = <<>>
  /\ working = [w \in Worker |-> Nothing]
  /\ mode = "open"

Receive ==
  /\ mode = "open"
  /\ \E k \in Task : waiting' = Append(waiting, k)
  /\ UNCHANGED <<working, mode>>

HandOut(w) ==
  /\ mode # "closed" /\ waiting # <<>> /\ working[w] = Nothing
  /\ working' = [working EXCEPT ![w] = Head(waiting)]
  /\ waiting' = Tail(waiting)
  /\ mode' = IF mode = "last" THEN "closed" ELSE mode

Complete(w) ==
  /\ working[w] # Nothing
  /\ working' = [working EXCEPT ![w] = Nothing]
  /\ UNCHANGED <<waiting, mode>>

Close ==
  /\ mode = "open"
  /\ mode' \in {"last", "closed"}
  /\ UNCHANGED <<waiting, working>>

Next == Receive \/ Close \/ \E w \in Worker : HandOut(w) \/ Complete(w)

Spec == Init /\ [][Next]_vars

=============================================================================
