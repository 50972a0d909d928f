---------------------------- MODULE BoundedFifo ----------------------------
(***************************************************************************)
(* What a sending queue of the agent promises its caller: messages leave   *)
(* in the order they were accepted, none that was accepted is lost, no     *)
(* more than Capacity wait, and one is refused only when Threshold or more *)
(* are waiting.                                                            *)
(***************************************************************************)
EXTENDS Naturals, Sequences

CONSTANTS
  Queue,     \* the queues
  Message,   \* what is sent
  Threshold, \* fewer messages waiting: the next one is accepted
  Capacity   \* at most so many wait

VARIABLES
  pending,   \* per queue, the messages accepted and not yet dealt with
  done,      \* per queue, the messages dealt with, in order
  refused    \* per queue, the number of messages refused

vars == <<pending, done, refused>>

Init ==
  /\ pending = [q \in Queue |-> <<>>]
  /\ done = [q \in Queue |-> <<>>]
  /\ refused = [q \in Queue |-> 0]

Accept(q) ==
  /\ Len(pending[q]) < Capacity
  /\ \E m \in Message : pending' = [pending EXCEPT ![q] = Append(@, m)]
  /\ UNCHANGED <<done, refused>>

Refuse(q) ==
  /\ Len(pending[q]) >= Threshold
  /\ refused' = [refused EXCEPT ![q] = @ + 1]
  /\ UNCHANGED <<pending, done>>

Complete(q) ==
  /\ pending[q] # <<>>
  /\ done' = [done EXCEPT ![q] = Append(@, Head(pending[q]))]
  /\ pending' = [pending EXCEPT ![q] = Tail(@)]
  /\ UNCHANGED refused

Next == \E q \in Queue : Accept(q) \/ Refuse(q) \/ Complete(q)

Spec == Init /\ [][Next]_vars

\* Every accepted message is dealt with in the end.
FairSpec == Spec /\ \A q \in Queue : WF_vars(Complete(q))

=============================================================================
