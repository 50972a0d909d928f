-------------------------- MODULE ThreadPoolProofs --------------------------
(***************************************************************************)
(* ThreadPool for every number of workers and of packages: its types,      *)
(* mutual exclusion, the order in which packages are taken, that none is   *)
(* stranded, and that it is a TaskQueue.                                   *)
(***************************************************************************)
EXTENDS ThreadPool, TLAPS

\* A worker that decided to sleep saw an empty queue, and keeps the mutex, so
\* the queue is still empty when it does.
SleepOnEmpty == \A w \in Worker : pc[w] = "sleep" => queue = <<>>

\* One that decided to take a package finds it: nobody else pops in between.
TakeFinds == \A w \in Worker : pc[w] = "take" => queue # <<>>

\* m_MsgQueueCount is the length of the queue, so it never gets negative.
CounterExact == counter = Len(queue)

\* A worker has a package in hands from taking it to its end, and only then.
Holding == \A w \in Worker : buffer[w] # 0 <=> pc[w] \in {"start", "run"}

\* What is queued are packages received.
Queued == received <= MaxMessages /\ queue \in Seq(1 .. MaxMessages)

\* No package is received while the pool is being stopped.
StopsLast == isExit <=> main \in {"notifyAll", "join", "stopped"}

Inv == /\ TypeOK /\ CounterExact /\ MutualExclusion /\ SleepOnEmpty /\ TakeFinds
       /\ TakenInOrder /\ NoStranded /\ Holding /\ Queued /\ StopsLast

Upto(n) == [i \in 1 .. n |-> i]

\* Pushing the next package extends the sequence of all packages by it.
LEMMA PushNext ==
  ASSUME NEW t \in Seq(Nat), NEW q \in Seq(Nat), NEW n \in Nat, t \o q = Upto(n)
  PROVE  t \o Append(q, n + 1) = Upto(n + 1)
<1>1. t \o Append(q, n + 1) = Append(t \o q, n + 1)
  BY SMTT(20)
<1>2. Append(Upto(n), n + 1) = Upto(n + 1)
  BY DEF Upto
<1> QED
  BY <1>1, <1>2

\* Taking the first package moves it from one sequence to the other.
LEMMA MoveHead ==
  ASSUME NEW t \in Seq(Nat), NEW q \in Seq(Nat), q # <<>>
  PROVE  /\ Append(t, Head(q)) \o Tail(q) = t \o q
         /\ Head(q) \in Nat /\ Tail(q) \in Seq(Nat) /\ Append(t, Head(q)) \in Seq(Nat)
  OBVIOUS

LEMMA FirstAndRest ==
  ASSUME NEW S, NEW q \in Seq(S), q # <<>>
  PROVE  Head(q) \in S /\ Tail(q) \in Seq(S)
  OBVIOUS

LEMMA InitInv == Init => Inv
<1> SUFFICES ASSUME Init PROVE Inv
  OBVIOUS
<1> USE WorkerAssumption, NoOneAssumption DEF Init
<1>1. TypeOK
  <2>1. queue \in Seq(Nat) /\ taken \in Seq(Nat)
    OBVIOUS
  <2>2. pc \in [Worker -> {"lock", "test", "sleep", "wait", "take", "start", "run", "exited"}]
    OBVIOUS
  <2>3. buffer \in [Worker -> Nat]
    OBVIOUS
  <2>4. counter \in Nat /\ running \in Int /\ received \in Nat
    OBVIOUS
  <2>5. isExit \in BOOLEAN
    BY Zenon
  <2>6. mutex \in Worker \cup {NoOne}
    OBVIOUS
  <2>7. main \in {"loop", "notify", "notifyAll", "join", "stopped"}
    OBVIOUS
  <2> QED
    BY <2>1, <2>2, <2>3, <2>4, <2>5, <2>6, <2>7 DEF TypeOK
<1>2. MutualExclusion /\ SleepOnEmpty /\ TakeFinds /\ NoStranded /\ Holding /\ StopsLast
  BY DEF MutualExclusion, SleepOnEmpty, TakeFinds, NoStranded, Holding, StopsLast
<1>3. TakenInOrder /\ CounterExact /\ Queued
  BY ParameterAssumption DEF TakenInOrder, CounterExact, Queued
<1> QED
  BY <1>1, <1>2, <1>3 DEF Inv

LEMMA StepInv == Inv /\ [Next]_vars => Inv'
<1> SUFFICES ASSUME Inv, [Next]_vars PROVE Inv'
  OBVIOUS
<1> USE WorkerAssumption, NoOneAssumption
    DEF Inv, TypeOK, CounterExact, MutualExclusion, SleepOnEmpty, TakeFinds, NoStranded,
        Holding, Queued, StopsLast
<1>1. CASE Put
  <2>1. /\ queue' = Append(queue, received + 1) /\ queue' \in Seq(Nat) /\ received' = received + 1
        /\ counter' = counter + 1 /\ main = "loop" /\ main' = "notify"
        /\ mutex = NoOne /\ received < MaxMessages
        /\ UNCHANGED <<mutex, pc, buffer, running, isExit, taken>>
    BY <1>1 DEF Put
  <2>2. taken \o queue = Upto(received)
    BY DEF TakenInOrder, Upto
  <2>3. taken \o Append(queue, received + 1) = Upto(received + 1)
    BY <2>2, PushNext, ZenonT(30)
  <2>4. TakenInOrder'
    BY <2>1, <2>3 DEF TakenInOrder, Upto
  <2>5. received + 1 \in 1 .. MaxMessages
    BY <2>1, ParameterAssumption
  <2>6. Queued'
    BY <2>1, <2>5
  <2>7. CounterExact' /\ queue' # <<>>
    BY <2>1
  <2>8. MutualExclusion' /\ SleepOnEmpty' /\ TakeFinds' /\ NoStranded' /\ Holding' /\ StopsLast'
    BY <2>1, <2>7
  <2>9. TypeOK'
    BY <2>1
  <2> QED
    BY <2>4, <2>6, <2>7, <2>8, <2>9
<1>2. CASE Notify
  BY <1>2, SMTT(20) DEF Notify, Sleeping, Wake, TakenInOrder
<1>3. CASE SetExit
  BY <1>3 DEF SetExit, TakenInOrder
<1>4. CASE NotifyAll
  BY <1>4 DEF NotifyAll, Sleeping, Wake, TakenInOrder
<1>5. CASE Join
  BY <1>5 DEF Join, TakenInOrder
<1>6. ASSUME NEW w \in Worker, Lock(w) PROVE Inv'
  BY <1>6 DEF Lock, TakenInOrder
<1>7. ASSUME NEW w \in Worker, TestEmpty(w) PROVE Inv'
  BY <1>7 DEF TestEmpty, TakenInOrder
<1>8. ASSUME NEW w \in Worker, Sleep(w) PROVE Inv'
  BY <1>8 DEF Sleep, TakenInOrder
<1>9. ASSUME NEW w \in Worker, WakeSpuriously(w) PROVE Inv'
  BY <1>9 DEF WakeSpuriously, Wake, TakenInOrder
<1>10. ASSUME NEW w \in Worker, Exit(w) PROVE Inv'
  BY <1>10 DEF Exit, TakenInOrder
<1>11. ASSUME NEW w \in Worker, TestReady(w) PROVE Inv'
  BY <1>11 DEF TestReady, TakenInOrder
<1>12. ASSUME NEW w \in Worker, Take(w) PROVE Inv'
  <2>1. /\ queue # <<>> /\ mutex = w
        /\ queue' = Tail(queue) /\ taken' = Append(taken, Head(queue))
        /\ buffer' = [buffer EXCEPT ![w] = Head(queue)] /\ pc' = [pc EXCEPT ![w] = "start"]
        /\ counter' = counter - 1 /\ mutex' = NoOne
        /\ UNCHANGED <<running, isExit, main, received>>
    BY <1>12 DEF Take
  <2>2. /\ Append(taken, Head(queue)) \o Tail(queue) = taken \o queue
        /\ Head(queue) \in Nat /\ Tail(queue) \in Seq(Nat) /\ Append(taken, Head(queue)) \in Seq(Nat)
    BY <2>1, MoveHead
  <2>3. Len(Tail(queue)) = counter - 1 /\ Len(Tail(queue)) \in Nat
    BY <2>1
  <2>4. TakenInOrder'
    BY <2>1, <2>2 DEF TakenInOrder
  <2>5. Head(queue) \in 1 .. MaxMessages /\ Tail(queue) \in Seq(1 .. MaxMessages)
    <3>1. queue \in Seq(1 .. MaxMessages)
      BY DEF Inv, Queued
    <3> QED
      BY ONLY <2>1, <3>1, FirstAndRest
  <2>6. TypeOK' /\ CounterExact' /\ Queued' /\ StopsLast'
    BY <2>1, <2>2, <2>3, <2>5
  <2>7. MutualExclusion' /\ SleepOnEmpty' /\ TakeFinds' /\ NoStranded'
    BY <2>1
  <2>8. Holding'
    BY <2>1, <2>5
  <2> QED
    BY <2>4, <2>6, <2>7, <2>8
<1>13. ASSUME NEW w \in Worker, Start(w) PROVE Inv'
  BY <1>13 DEF Start, TakenInOrder
<1>14. ASSUME NEW w \in Worker, Finish(w) PROVE Inv'
  BY <1>14 DEF Finish, TakenInOrder
<1>15. CASE UNCHANGED vars
  BY <1>15 DEF vars, TakenInOrder
<1> QED
  BY <1>1, <1>2, <1>3, <1>4, <1>5, <1>6, <1>7, <1>8, <1>9, <1>10, <1>11, <1>12, <1>13, <1>14,
     <1>15
  DEF Next, MainStep, WorkerStep

THEOREM AlwaysInv == Spec => []Inv
BY InitInv, StepInv, PTL DEF Spec

\* The variables of the pool keep their types, for every set of workers.
THEOREM TypeCorrect == Spec => []TypeOK
BY AlwaysInv, PTL DEF Inv

\* m_pMutex: at most one worker is in the critical section of ThreadFunc.
THEOREM MutexHeld == Spec => []MutualExclusion
BY AlwaysInv, PTL DEF Inv

\* Every package is taken out of the queue once and in the order received,
\* whatever the number of workers of the pool.
THEOREM InOrder == Spec => []TakenInOrder
BY AlwaysInv, PTL DEF Inv

\* No package is left in the queue with all workers asleep.
THEOREM NeverStranded == Spec => []NoStranded
BY AlwaysInv, PTL DEF Inv

-----------------------------------------------------------------------------
(* The pool is a TaskQueue. *)

Taking == \E w \in Worker : pc[w] = "take"

\* The mode of the task queue.
Mode == IF ~ isExit THEN "open" ELSE IF Taking THEN "last" ELSE "closed"

\* Whoever is about to take a package holds the mutex.
LEMMA OneTakes ==
  ASSUME MutualExclusion, NEW v \in Worker, NEW w \in Worker, pc[v] = "take", pc[w] = "take"
  PROVE  v = w
BY DEF MutualExclusion

\* Steps that leave the queue, the buffers, the flag and who is about to take alone.
LEMMA Stutters ==
  ASSUME UNCHANGED <<queue, buffer, isExit>>,
         \/ ~ isExit
         \/ \A w \in Worker : pc'[w] = "take" <=> pc[w] = "take"
  PROVE  UNCHANGED Tasks!vars
BY DEF Tasks!vars

LEMMA TakeHandsOut ==
  ASSUME Inv, NEW w \in Worker, Take(w)
  PROVE  Tasks!HandOut(w)
<1>1. /\ pc[w] = "take" /\ queue # <<>> /\ buffer[w] = 0
      /\ buffer' = [buffer EXCEPT ![w] = Head(queue)] /\ queue' = Tail(queue)
      /\ pc' = [pc EXCEPT ![w] = "start"] /\ isExit' = isExit
  BY DEF Take, Inv, TakeFinds, Holding
<1>2. Taking
  BY <1>1 DEF Taking
<1>3. ~ Taking'
  <2> SUFFICES ASSUME NEW v \in Worker, pc'[v] = "take" PROVE FALSE
    BY DEF Taking
  <2>1. pc[v] = "take" /\ v # w
    BY <1>1 DEF Inv, TypeOK
  <2> QED
    BY <1>1, <2>1, OneTakes DEF Inv
<1>4. Mode # "closed" /\ Mode' = IF Mode = "last" THEN "closed" ELSE Mode
  BY <1>1, <1>2, <1>3 DEF Mode
<1> QED
  BY <1>1, <1>4 DEF Tasks!HandOut, Mode, Taking

LEMMA StepImplements == Inv /\ [Next]_vars => [Tasks!Next]_(Tasks!vars)
<1> SUFFICES ASSUME Inv, [Next]_vars PROVE [Tasks!Next]_(Tasks!vars)
  OBVIOUS
<1> USE WorkerAssumption, NoOneAssumption
<1>1. CASE Put
  <2>1. received + 1 \in 1 .. MaxMessages /\ ~ isExit
    BY <1>1, ParameterAssumption DEF Put, Inv, TypeOK, StopsLast
  <2>2. queue' = Append(queue, received + 1) /\ UNCHANGED <<buffer, pc, isExit>>
    BY <1>1 DEF Put
  <2>3. Tasks!Receive
    BY <2>1, <2>2 DEF Tasks!Receive
  <2> QED
    BY <2>3 DEF Tasks!Next
<1>2. CASE SetExit
  <2>1. ~ isExit /\ isExit' /\ UNCHANGED <<queue, buffer, pc>>
    BY <1>2 DEF SetExit, Inv, StopsLast
  <2>2. Tasks!Close
    BY <2>1 DEF Tasks!Close
  <2> QED
    BY <2>2 DEF Tasks!Next
<1>3. ASSUME NEW w \in Worker, Take(w) PROVE Tasks!Next
  BY <1>3, TakeHandsOut DEF Tasks!Next
<1>4. ASSUME NEW w \in Worker, Finish(w) PROVE Tasks!Next
  <2>1. /\ buffer[w] # 0 /\ buffer' = [buffer EXCEPT ![w] = 0] /\ UNCHANGED <<queue, isExit>>
        /\ \A v \in Worker : pc'[v] = "take" <=> pc[v] = "take"
    BY <1>4 DEF Finish, Inv, Holding, TypeOK
  <2>2. Tasks!Complete(w)
    BY <2>1 DEF Tasks!Complete
  <2> QED
    BY <2>2 DEF Tasks!Next
<1>5. ASSUME NEW w \in Worker, TestReady(w) PROVE UNCHANGED Tasks!vars
  BY <1>5, Stutters DEF TestReady
<1>6. ASSUME NEW w \in Worker,
             Lock(w) \/ TestEmpty(w) \/ Sleep(w) \/ Exit(w) \/ Start(w) \/ WakeSpuriously(w)
      PROVE  UNCHANGED Tasks!vars
  <2>1. UNCHANGED <<queue, buffer, isExit>>
    BY <1>6 DEF Lock, TestEmpty, Sleep, Exit, Start, WakeSpuriously
  <2>2. \A v \in Worker : pc'[v] = "take" <=> pc[v] = "take"
    BY <1>6 DEF Lock, TestEmpty, Sleep, Exit, Start, WakeSpuriously, Wake, Inv, TypeOK
  <2> QED
    BY <2>1, <2>2, Stutters
<1>7. CASE MainStep
  <2>1. UNCHANGED <<queue, buffer, isExit>>
    BY <1>7 DEF MainStep, Notify, NotifyAll, Join
  <2>2. \A v \in Worker : pc'[v] = "take" <=> pc[v] = "take"
    BY <1>7 DEF MainStep, Notify, NotifyAll, Join, Sleeping, Wake, Inv, TypeOK
  <2> QED
    BY <2>1, <2>2, Stutters
<1>8. CASE UNCHANGED vars
  BY <1>8, Stutters DEF vars
<1> QED
  BY <1>1, <1>2, <1>3, <1>4, <1>5, <1>6, <1>7, <1>8 DEF Next, WorkerStep

LEMMA InitImplements == Init => Tasks!Init
BY DEF Init, Tasks!Init

\* Any number of workers, whenever StopAll is called: packages are handed out
\* in order, one at a time to each worker, and at most one after StopAll.
THEOREM PoolIsTaskQueue == Spec => ImplementsTaskQueue
<1>1. Init => Tasks!Init
  BY InitImplements
<1>2. Inv /\ [Next]_vars => [Tasks!Next]_(Tasks!vars)
  BY StepImplements
<1> QED
  BY <1>1, <1>2, AlwaysInv, PTL DEF Spec, ImplementsTaskQueue, Tasks!Spec

=============================================================================
