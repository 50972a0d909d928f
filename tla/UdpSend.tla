------------------------------- MODULE UdpSend -------------------------------
(***************************************************************************)
(* The two sending queues of WorkSock.  The UDP epoll thread puts packages *)
(* of users into the forward queue (MsgForward) and packages of clients    *)
(* into the send queue (MsgSend); MessageForward_thread and                *)
(* MessageSend_Thread take them out and call sendto.  A package the tables *)
(* know no receiver for is deleted instead: either way it is dealt with.   *)
(* IsExit stays false: UserWork_Cycle never leaves its loop.               *)
(***************************************************************************)
EXTENDS Naturals, Sequences

CONSTANTS
  MaxSend,     \* m_MAX_Send
  MaxMessages  \* bound: packages offered in a behaviour

ASSUME ParameterAssumption == MaxSend \in Nat /\ MaxMessages \in Nat

Queue   == {"forward", "send"}
Message == 1 .. MaxMessages

VARIABLES
  queue,    \* m_forwardQueue and m_sendQueue
  locked,   \* the consumer holds the queue's mutex across steps
  pc,       \* where the consumer of each queue is
  buffer,   \* pMsgbuf of each consumer, 0 when it has none
  producer, \* the queue the epoll thread is about to notify, or "idle"
  offered,  \* number of packages offered
  done,     \* history: packages each consumer has dealt with
  refused   \* history: number of packages deleted because the queue was full

vars == <<queue, locked, pc, buffer, producer, offered, done, refused>>

Init ==
  /\ queue = [q \in Queue |-> <<>>]
  /\ locked = [q \in Queue |-> FALSE]
  /\ pc = [q \in Queue |-> "lock"]
  /\ buffer = [q \in Queue |-> 0]
  /\ producer = "idle"
  /\ offered = 0
  /\ done = [q \in Queue |-> <<>>]
  /\ refused = [q \in Queue |-> 0]

-----------------------------------------------------------------------------
(* The epoll thread. *)

\* Mutants of Enqueue: nobody is notified; the number of the package before is
\* queued.
EnqueueSilently(q) ==
  /\ producer = "idle" /\ ~ locked[q] /\ offered < MaxMessages
  /\ offered' = offered + 1
  /\ IF Len(queue[q]) > MaxSend
     THEN refused' = [refused EXCEPT ![q] = @ + 1] /\ UNCHANGED queue
     ELSE queue' = [queue EXCEPT ![q] = Append(@, offered')] /\ UNCHANGED refused
  /\ UNCHANGED <<locked, pc, buffer, producer, done>>

EnqueuePrevious(q) ==
  /\ producer = "idle" /\ ~ locked[q] /\ offered < MaxMessages
  /\ offered' = offered + 1
  /\ queue' = [queue EXCEPT ![q] = Append(@, offered)]
  /\ producer' = q
  /\ UNCHANGED <<locked, pc, buffer, done, refused>>

\* Under the mutex: refuse the package when more than m_MAX_Send wait.
Enqueue(q) ==
  /\ producer = "idle" /\ ~ locked[q] /\ offered < MaxMessages
  /\ offered' = offered + 1
  /\ IF Len(queue[q]) > MaxSend
     THEN refused' = [refused EXCEPT ![q] = @ + 1] /\ UNCHANGED <<queue, producer>>
     ELSE /\ queue' = [queue EXCEPT ![q] = Append(@, offered')]
          /\ producer' = q
          /\ UNCHANGED refused
  /\ UNCHANGED <<locked, pc, buffer, done>>

MsgForward == Enqueue("forward")

MsgSend == Enqueue("send")

\* notify_one, after the mutex was released.
Notify ==
  /\ producer \in Queue
  /\ producer' = "idle"
  /\ pc' = IF pc[producer] = "wait" THEN [pc EXCEPT ![producer] = "lock"] ELSE pc
  /\ UNCHANGED <<queue, locked, buffer, offered, done, refused>>

-----------------------------------------------------------------------------
(* The consumer of queue q. *)

Lock(q) ==
  /\ pc[q] = "lock" /\ ~ locked[q]
  /\ locked' = [locked EXCEPT ![q] = TRUE]
  /\ pc' = [pc EXCEPT ![q] = "test"]
  /\ UNCHANGED <<queue, buffer, producer, offered, done, refused>>

\* Nothing to send: the mutex is released and the thread sleeps.
Sleep(q) ==
  /\ pc[q] = "test" /\ queue[q] = <<>>
  /\ locked' = [locked EXCEPT ![q] = FALSE]
  /\ pc' = [pc EXCEPT ![q] = "wait"]
  /\ UNCHANGED <<queue, buffer, producer, offered, done, refused>>

WakeSpuriously(q) ==
  /\ pc[q] = "wait"
  /\ pc' = [pc EXCEPT ![q] = "lock"]
  /\ UNCHANGED <<queue, locked, buffer, producer, offered, done, refused>>

\* Mutant of Take: the last package is taken first.
TakeLast(q) ==
  /\ pc[q] = "test" /\ queue[q] # <<>>
  /\ buffer' = [buffer EXCEPT ![q] = queue[q][Len(queue[q])]]
  /\ queue' = [queue EXCEPT ![q] = SubSeq(@, 1, Len(@) - 1)]
  /\ locked' = [locked EXCEPT ![q] = FALSE]
  /\ pc' = [pc EXCEPT ![q] = "send"]
  /\ UNCHANGED <<producer, offered, done, refused>>

Take(q) ==
  /\ pc[q] = "test" /\ queue[q] # <<>>
  /\ buffer' = [buffer EXCEPT ![q] = Head(queue[q])]
  /\ queue' = [queue EXCEPT ![q] = Tail(@)]
  /\ locked' = [locked EXCEPT ![q] = FALSE]
  /\ pc' = [pc EXCEPT ![q] = "send"]
  /\ UNCHANGED <<producer, offered, done, refused>>

\* The package was sent, or had no receiver; its buffer is deleted.
DealWith(q) ==
  /\ pc[q] = "send"
  /\ done' = [done EXCEPT ![q] = Append(@, buffer[q])]
  /\ buffer' = [buffer EXCEPT ![q] = 0]
  /\ pc' = [pc EXCEPT ![q] = "lock"]
  /\ UNCHANGED <<queue, locked, producer, offered, refused>>

Consumer(q) == Lock(q) \/ Sleep(q) \/ Take(q) \/ DealWith(q)

MessageForward_thread == Consumer("forward")

MessageSend_Thread == Consumer("send")

-----------------------------------------------------------------------------
Next == \/ MsgForward \/ MsgSend \/ Notify
        \/ MessageForward_thread \/ MessageSend_Thread
        \/ \E q \in Queue : WakeSpuriously(q)

Spec == Init /\ [][Next]_vars

\* The scheduler is fair: a thread that can go on does.  Packages need not
\* arrive, and wait() need not return early.
FairSpec == /\ Spec /\ WF_vars(Notify)
            /\ \A q \in Queue : WF_vars(Consumer(q))

-----------------------------------------------------------------------------
(* Properties. *)

\* Every variable has its type; the only type invariant of the module.
TypeOK ==
  /\ queue \in [Queue -> Seq(Message)]
  /\ locked \in [Queue -> BOOLEAN]
  /\ pc \in [Queue -> {"lock", "test", "wait", "send"}]
  /\ buffer \in [Queue -> Message \cup {0}]
  /\ producer \in Queue \cup {"idle"}
  /\ offered \in 0 .. MaxMessages
  /\ done \in [Queue -> Seq(Message)]
  /\ refused \in [Queue -> Nat]

\* A package waits in a queue whose consumer sleeps only while the epoll
\* thread is about to notify it: no wake-up is lost.
NoLostWakeup ==
  \A q \in Queue : queue[q] # <<>> /\ pc[q] = "wait" => producer = q

\* The packages accepted and not dealt with: the one in the consumer's hands
\* and those behind it.
Pending(q) == IF pc[q] = "send" THEN <<buffer[q]>> \o queue[q] ELSE queue[q]

\* Each queue is a bounded FIFO: the size test comes before the push and
\* uses >, so m_MAX_Send + 1 packages can wait, and one more be in hand.
Fifo == INSTANCE BoundedFifo
          WITH pending <- [q \in Queue |-> Pending(q)],
               Threshold <- MaxSend + 1, Capacity <- MaxSend + 2

\* Order, no loss, capacity, and that every accepted package is dealt with.
ImplementsFifo == Fifo!FairSpec

\* "Maximum number of sending messages held" (UdpSock.h:190).
AtMostMaxSend == \A q \in Queue : Len(queue[q]) <= MaxSend

=============================================================================
