------------------------------- MODULE Outbox -------------------------------
(***************************************************************************)
(* What a tcp sending queue promises its callers.  Messages are kept in    *)
(* the order they were accepted, but the first may be put behind the last  *)
(* (its connection cannot take it yet).  None is lost on the way, none is  *)
(* there twice, at most Capacity are kept.  When Threshold are kept a call *)
(* may find the queue full: that message is lost, and the queue accepts no *)
(* other ever.                                                             *)
(***************************************************************************)
EXTENDS Naturals, Sequences

CONSTANTS
  Message,   \* what is sent
  Threshold, \* fewer messages kept: the next one is accepted
  Capacity   \* at most so many are kept

VARIABLES
  pending,   \* the messages accepted and still kept
  left,      \* how many messages left
  jammed     \* a call found the queue full

vars == <<pending, left, jammed>>

Init == pending = <<>> /\ left = 0 /\ jammed = FALSE

Accept ==
  /\ ~ jammed /\ Len(pending) < Capacity
  /\ UNCHANGED <<left, jammed>>
  /\ \E m \in Message :
       /\ \A i \in 1 .. Len(pending) : pending[i] # m
       /\ pending' = Append(pending, m)

Jam ==
  /\ ~ jammed /\ Len(pending) >= Threshold
  /\ jammed' = TRUE
  /\ UNCHANGED <<pending, left>>

Postpone ==
  /\ ~ jammed /\ pending # <<>>
  /\ pending' = Append(Tail(pending), Head(pending))
  /\ UNCHANGED <<left, jammed>>

\* The first message is handed to its connection, or deleted when it has none.
Leave ==
  /\ pending # <<>>
  /\ pending' = Tail(pending)
  /\ left' = left + 1
  /\ UNCHANGED jammed

Next == Accept \/ Jam \/ Postpone \/ Leave

Spec == Init /\ [][Next]_vars

=============================================================================
