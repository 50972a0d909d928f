---------------------------- MODULE UdpSendProofs ----------------------------
(***************************************************************************)
(* UdpSend for every queue limit and every number of packages: its types,  *)
(* that no wake-up is lost, and that every step is a step of the bounded   *)
(* FIFO or leaves it unchanged.                                            *)
(***************************************************************************)
EXTENDS UdpSend, TLAPS

\* The mutex is held exactly in the loop's test; a consumer that sends has a
\* package in hand; and the test before the push bounds the queue.
QueueInv ==
  \A q \in Queue : /\ locked[q] <=> pc[q] = "test"
                   /\ pc[q] = "send" => buffer[q] \in Message
                   /\ Len(queue[q]) <= MaxSend + 1

Inv == TypeOK /\ QueueInv /\ NoLostWakeup

LEMMA TailLength ==
  ASSUME NEW S, NEW s \in Seq(S), s # <<>>
  PROVE  Head(s) \in S /\ Tail(s) \in Seq(S) /\ Len(Tail(s)) = Len(s) - 1 /\ Len(s) > 0
  OBVIOUS

LEMMA InitInv == Init => Inv
<1> SUFFICES ASSUME Init PROVE Inv
  OBVIOUS
<1>1. TypeOK
  BY ParameterAssumption DEF Init, TypeOK, Queue
<1>2. QueueInv
  BY ParameterAssumption DEF Init, QueueInv
<1>3. NoLostWakeup
  BY DEF Init, NoLostWakeup
<1> QED
  BY <1>1, <1>2, <1>3 DEF Inv

\* Every step keeps the types and the two other parts of the invariant.
LEMMA StepInv == Inv /\ [Next]_vars => Inv'
<1> SUFFICES ASSUME Inv, [Next]_vars PROVE Inv'
  OBVIOUS
<1> USE ParameterAssumption DEF Inv, TypeOK, QueueInv, NoLostWakeup
<1>1. ASSUME NEW q \in Queue, Enqueue(q) PROVE Inv'
  <2> USE <1>1 DEF Enqueue
  <2>1. offered' \in Message /\ offered' \in 0 .. MaxMessages
    BY DEF Message
  <2>2. CASE Len(queue[q]) > MaxSend
    <3>1. /\ refused' = [refused EXCEPT ![q] = @ + 1]
          /\ UNCHANGED <<queue, producer, locked, pc, buffer, done>>
      BY <2>2
    <3> QED
      BY <2>1, <3>1
  <2>3. CASE ~ (Len(queue[q]) > MaxSend)
    <3>1. queue' = [queue EXCEPT ![q] = Append(@, offered')] /\ producer' = q
      BY <2>3
    <3>2. /\ Append(queue[q], offered') \in Seq(Message)
          /\ Len(Append(queue[q], offered')) = Len(queue[q]) + 1
      BY <2>1
    <3>3. Len(queue[q]) \in Nat
      OBVIOUS
    <3> QED
      BY <2>1, <2>3, <3>1, <3>2, <3>3 DEF Queue
  <2> QED
    BY <2>2, <2>3
<1>2. ASSUME Notify PROVE Inv'
  BY <1>2 DEF Notify, Queue
<1>3. ASSUME NEW q \in Queue, Lock(q) PROVE Inv'
  BY <1>3 DEF Lock
<1>4. ASSUME NEW q \in Queue, Sleep(q) PROVE Inv'
  BY <1>4 DEF Sleep
<1>5. ASSUME NEW q \in Queue, WakeSpuriously(q) PROVE Inv'
  BY <1>5 DEF WakeSpuriously
<1>6. ASSUME NEW q \in Queue, Take(q) PROVE Inv'
  <2>1. /\ Head(queue[q]) \in Message /\ Tail(queue[q]) \in Seq(Message)
        /\ Len(Tail(queue[q])) = Len(queue[q]) - 1 /\ Len(queue[q]) > 0
    BY <1>6, TailLength DEF Take
  <2>2. Len(queue[q]) \in Nat
    OBVIOUS
  <2> QED
    BY <1>6, <2>1, <2>2 DEF Take
<1>7. ASSUME NEW q \in Queue, DealWith(q) PROVE Inv'
  BY <1>7 DEF DealWith
<1>8. CASE UNCHANGED vars
  BY <1>8 DEF vars
<1> QED
  BY <1>1, <1>2, <1>3, <1>4, <1>5, <1>6, <1>7, <1>8
  DEF Next, MsgForward, MsgSend, MessageForward_thread, MessageSend_Thread, Consumer, Queue

THEOREM AlwaysInv == Spec => []Inv
BY InitInv, StepInv, PTL DEF Spec

\* The variables of the queues keep their types, for every m_MAX_Send.
THEOREM TypeCorrect == Spec => []TypeOK
BY AlwaysInv, PTL DEF Inv

\* No wake-up of MessageForward_thread or MessageSend_Thread is lost.
THEOREM WakeupKept == Spec => []NoLostWakeup
BY AlwaysInv, PTL DEF Inv

-----------------------------------------------------------------------------
(* The refinement. *)

\* Taking the first package into the consumer's hands leaves the sequence of
\* pending packages as it was.
LEMMA InHand ==
  ASSUME NEW S, NEW s \in Seq(S), s # <<>>
  PROVE  <<Head(s)>> \o Tail(s) = s
  OBVIOUS

LEMMA FirstOut ==
  ASSUME NEW S, NEW s \in Seq(S), NEW x \in S
  PROVE  /\ <<x>> \o s \in Seq(S) /\ <<x>> \o s # <<>>
         /\ Head(<<x>> \o s) = x /\ Tail(<<x>> \o s) = s
         /\ Len(<<x>> \o s) = Len(s) + 1
  OBVIOUS

LEMMA LastIn ==
  ASSUME NEW S, NEW s \in Seq(S), NEW x \in S, NEW y \in S
  PROVE  <<x>> \o Append(s, y) = Append(<<x>> \o s, y)
  OBVIOUS

Map == [q \in Queue |-> Pending(q)]

LEMMA InitFifo == Init => Fifo!Init
BY DEF Init, Fifo!Init, Pending

\* A step of queue q leaves the others pending as they are.
LEMMA OneQueue ==
  ASSUME NEW q \in Queue, NEW p, Inv, Inv',
         \A r \in Queue \ {q} : Pending(r)' = Pending(r),
         Pending(q)' = p
  PROVE  Map' = [Map EXCEPT ![q] = p]
BY DEF Map

LEMMA SamePending ==
  ASSUME \A r \in Queue : Pending(r)' = Pending(r)
  PROVE  Map' = Map
BY DEF Map

\* The epoll thread accepts a package at the end of the pending ones, or
\* refuses it because MaxSend + 1 or more are waiting.
LEMMA EnqueueFifo ==
  ASSUME Inv, Inv', NEW q \in Queue, Enqueue(q)
  PROVE  Fifo!Accept(q) \/ Fifo!Refuse(q)
<1> USE ParameterAssumption DEF Inv, TypeOK, QueueInv
<1>1. offered' \in Message
  BY DEF Enqueue, Message
<1>2. Pending(q) \in Seq(Message) /\ Len(Pending(q)) \in {Len(queue[q]), Len(queue[q]) + 1}
  BY FirstOut DEF Pending
<1>3. Len(queue[q]) \in Nat
  OBVIOUS
<1>4. CASE Len(queue[q]) > MaxSend
  <2>1. refused' = [refused EXCEPT ![q] = @ + 1] /\ UNCHANGED <<queue, pc, buffer, done>>
    BY <1>4 DEF Enqueue
  <2>2. Map' = Map
    BY <2>1, SamePending DEF Pending
  <2>3. Len(Pending(q)) >= MaxSend + 1
    BY <1>2, <1>3, <1>4
  <2> QED
    BY <2>1, <2>2, <2>3 DEF Fifo!Refuse, Map
<1>5. CASE ~ (Len(queue[q]) > MaxSend)
  <2>1. /\ queue' = [queue EXCEPT ![q] = Append(@, offered')]
        /\ UNCHANGED <<pc, buffer, done, refused>>
    BY <1>5 DEF Enqueue
  <2>2. queue'[q] = Append(queue[q], offered')
    BY <2>1
  <2>3. Pending(q)' = Append(Pending(q), offered')
    <3>1. CASE pc[q] = "send"
      <4>1. buffer[q] \in Message /\ queue[q] \in Seq(Message)
        BY <3>1
      <4>2. <<buffer[q]>> \o Append(queue[q], offered') = Append(<<buffer[q]>> \o queue[q], offered')
        BY ONLY <1>1, <4>1, LastIn
      <4> QED
        BY <2>1, <2>2, <3>1, <4>2 DEF Pending
    <3>2. CASE pc[q] # "send"
      BY <2>1, <2>2, <3>2 DEF Pending
    <3> QED
      BY <3>1, <3>2
  <2>4. \A r \in Queue \ {q} : Pending(r)' = Pending(r)
    BY <2>1 DEF Pending
  <2>5. Map' = [Map EXCEPT ![q] = Append(Pending(q), offered')]
    BY <2>3, <2>4, OneQueue
  <2>6. Len(Pending(q)) < MaxSend + 2
    BY <1>2, <1>3, <1>5
  <2> QED
    BY <1>1, <2>1, <2>5, <2>6 DEF Fifo!Accept, Map
<1> QED
  BY <1>4, <1>5

\* Taking a package changes nothing of what is pending ...
LEMMA TakeFifo ==
  ASSUME Inv, Inv', NEW q \in Queue, Take(q)
  PROVE  UNCHANGED Fifo!vars
<1> USE DEF Inv, TypeOK
<1>1. <<Head(queue[q])>> \o Tail(queue[q]) = queue[q]
  BY InHand DEF Take
<1>2. Pending(q)' = Pending(q)
  BY <1>1 DEF Take, Pending
<1>3. \A r \in Queue \ {q} : Pending(r)' = Pending(r)
  BY DEF Take, Pending
<1>4. Map' = Map
  BY <1>2, <1>3, SamePending
<1> QED
  BY <1>4 DEF Take, Fifo!vars, Map

\* ... and dealing with it completes the first pending one.
LEMMA DealWithFifo ==
  ASSUME Inv, Inv', NEW q \in Queue, DealWith(q)
  PROVE  Fifo!Complete(q)
<1> USE DEF Inv, TypeOK, QueueInv
<1>1. /\ Pending(q) = <<buffer[q]>> \o queue[q]
      /\ Pending(q)' = queue[q]
      /\ buffer[q] \in Message /\ queue[q] \in Seq(Message)
  BY DEF DealWith, Pending
<1>2. /\ Pending(q) # <<>>
      /\ Head(Pending(q)) = buffer[q] /\ Tail(Pending(q)) = queue[q]
  BY ONLY <1>1, FirstOut
<1>3. \A r \in Queue \ {q} : Pending(r)' = Pending(r)
  BY DEF DealWith, Pending
<1>4. Map' = [Map EXCEPT ![q] = Tail(Pending(q))]
  BY <1>1, <1>2, <1>3, OneQueue, ZenonT(30)
<1> QED
  BY <1>2, <1>4 DEF DealWith, Fifo!Complete, Map

\* The other steps touch neither the packages nor the outcome.
LEMMA OtherFifo ==
  ASSUME Inv, Inv',
         \/ Notify \/ UNCHANGED vars
         \/ \E q \in Queue : Lock(q) \/ Sleep(q) \/ WakeSpuriously(q)
  PROVE  UNCHANGED Fifo!vars
<1> USE DEF Inv, TypeOK, QueueInv
<1>1. /\ UNCHANGED <<queue, buffer, done, refused>>
      /\ \A q \in Queue : pc[q] = "send" <=> pc'[q] = "send"
  BY DEF Notify, vars, Lock, Sleep, WakeSpuriously
<1>2. \A q \in Queue : Pending(q)' = Pending(q)
  BY <1>1 DEF Pending
<1>3. Map' = Map
  BY <1>2, SamePending
<1> QED
  BY <1>1, <1>3 DEF Fifo!vars, Map

\* Every behaviour of the sending queues, of any length and for any limit, is
\* one of the bounded FIFO: order, no loss, capacity m_MAX_Send + 2.
THEOREM SafelyImplementsFifo == Spec => Fifo!Spec
<1>1. Inv /\ Inv' /\ [Next]_vars => [Fifo!Next]_(Fifo!vars)
  <2> SUFFICES ASSUME Inv, Inv', [Next]_vars
               PROVE  Fifo!Next \/ UNCHANGED Fifo!vars
    OBVIOUS
  <2>1. ASSUME NEW q \in Queue, Enqueue(q) PROVE Fifo!Next
    BY <2>1, EnqueueFifo DEF Fifo!Next
  <2>2. ASSUME NEW q \in Queue, Consumer(q) PROVE Fifo!Next \/ UNCHANGED Fifo!vars
    BY <2>2, TakeFifo, DealWithFifo, OtherFifo DEF Fifo!Next, Consumer
  <2>3. CASE Notify \/ (\E q \in Queue : WakeSpuriously(q)) \/ UNCHANGED vars
    BY <2>3, OtherFifo
  <2> QED
    BY <2>1, <2>2, <2>3 DEF Next, MsgForward, MsgSend, MessageForward_thread, MessageSend_Thread, Queue
<1> QED
  BY InitFifo, AlwaysInv, <1>1, PTL DEF Spec, Fifo!Spec

=============================================================================
