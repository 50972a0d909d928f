----------------------------- MODULE ThreadPool -----------------------------
(***************************************************************************)
(* MThreadPool: the queue of received packages, the mutex and condition    *)
(* variable that guard it, the worker threads, and StopAll.  The epoll     *)
(* thread is the only producer, and the one that would call StopAll.       *)
(***************************************************************************)
EXTENDS Integers, Sequences, FiniteSets

CONSTANTS
  Worker,      \* the threads of the pool (thread_num of them)
  MaxMessages, \* bound: packages received in a behaviour
  MayStop      \* whether WorkProc_Cycle gets past its loop and calls StopAll

ASSUME WorkerAssumption == Worker # {} /\ IsFiniteSet(Worker)
ASSUME ParameterAssumption == MaxMessages \in Nat /\ MayStop \in BOOLEAN

NoOne == "nobody"  \* no thread holds m_pMutex
ASSUME NoOneAssumption == NoOne \notin Worker

VARIABLES
  queue,     \* m_MsgQueue; the i-th package received is i
  counter,   \* m_MsgQueueCount
  mutex,     \* the worker that holds m_pMutex across steps, or NoOne
  pc,        \* where each worker is in ThreadFunc
  buffer,    \* workbuf of each worker, 0 when it has none
  running,   \* m_threadRunning
  isExit,    \* m_isExit
  main,      \* where the epoll thread is
  received,  \* number of packages received
  taken      \* history: packages in the order the workers took them

vars == <<queue, counter, mutex, pc, buffer, running, isExit, main, received, taken>>

Init ==
  /\ queue = <<>> /\ counter = 0
  /\ mutex = NoOne
  /\ pc = [w \in Worker |-> "lock"]
  /\ buffer = [w \in Worker |-> 0]
  /\ running = 0
  /\ isExit = FALSE
  /\ main = "loop"
  /\ received = 0
  /\ taken = <<>>

-----------------------------------------------------------------------------
(* The epoll thread. *)

\* Mutant of Put: ++m_MsgQueueCount is missing.
PutUncounted ==
  /\ main = "loop" /\ mutex = NoOne /\ received < MaxMessages
  /\ received' = received + 1
  /\ queue' = Append(queue, received')
  /\ main' = "notify"
  /\ UNCHANGED <<counter, mutex, pc, buffer, running, isExit, taken>>

\* GetMassage_And_Proc: push and count under the mutex.
Put ==
  /\ main = "loop" /\ mutex = NoOne /\ received < MaxMessages
  /\ received' = received + 1
  /\ queue' = Append(queue, received')
  /\ counter' = counter + 1
  /\ main' = "notify"
  /\ UNCHANGED <<mutex, pc, buffer, running, isExit, taken>>

\* A worker woken by the condition variable goes for the mutex.
Wake(ws) == pc' = [w \in Worker |-> IF w \in ws THEN "lock" ELSE pc[w]]

Sleeping == {w \in Worker : pc[w] = "wait"}

\* Mutant of Notify: nobody is notified.
NotifyNobody ==
  /\ main = "notify"
  /\ main' = "loop"
  /\ UNCHANGED <<queue, counter, mutex, pc, buffer, running, isExit, received, taken>>

\* Call: notify_one, after the mutex was released.
Notify ==
  /\ main = "notify"
  /\ main' = "loop"
  /\ \/ Sleeping = {} /\ UNCHANGED pc
     \/ \E w \in Sleeping : Wake({w})
  /\ UNCHANGED <<queue, counter, mutex, buffer, running, isExit, received, taken>>

\* StopAll: the flag is set without the mutex.
SetExit ==
  /\ MayStop /\ main = "loop"
  /\ isExit' = TRUE
  /\ main' = "notifyAll"
  /\ UNCHANGED <<queue, counter, mutex, pc, buffer, running, received, taken>>

\* Mutant of NotifyAll: notify_all is missing.
NotifyAllNobody ==
  /\ main = "notifyAll"
  /\ main' = "join"
  /\ UNCHANGED <<queue, counter, mutex, pc, buffer, running, isExit, received, taken>>

\* notify_all, and then the joins.
NotifyAll ==
  /\ main = "notifyAll"
  /\ main' = "join"
  /\ Wake(Sleeping)
  /\ UNCHANGED <<queue, counter, mutex, buffer, running, isExit, received, taken>>

\* The last join() returns.
Join ==
  /\ main = "join" /\ \A w \in Worker : pc[w] = "exited"
  /\ main' = "stopped"
  /\ UNCHANGED <<queue, counter, mutex, pc, buffer, running, isExit, received, taken>>

-----------------------------------------------------------------------------
(* ThreadFunc of worker w. *)

\* unique_lock, and the lock taken again when wait() returns.
Lock(w) ==
  /\ pc[w] = "lock" /\ mutex = NoOne
  /\ mutex' = w
  /\ pc' = [pc EXCEPT ![w] = "test"]
  /\ UNCHANGED <<queue, counter, buffer, running, isExit, main, received, taken>>

\* The queue is empty and m_isExit is not set: about to wait.
TestEmpty(w) ==
  /\ pc[w] = "test" /\ queue = <<>> /\ ~ isExit
  /\ pc' = [pc EXCEPT ![w] = "sleep"]
  /\ UNCHANGED <<queue, counter, mutex, buffer, running, isExit, main, received, taken>>

\* wait() releases the mutex and blocks in one step.
Sleep(w) ==
  /\ pc[w] = "sleep"
  /\ mutex' = NoOne
  /\ pc' = [pc EXCEPT ![w] = "wait"]
  /\ UNCHANGED <<queue, counter, buffer, running, isExit, main, received, taken>>

\* wait() may return without a notification.
WakeSpuriously(w) ==
  /\ pc[w] = "wait"
  /\ Wake({w})
  /\ UNCHANGED <<queue, counter, mutex, buffer, running, isExit, main, received, taken>>

\* m_isExit is set: packages still queued are left there.
Exit(w) ==
  /\ pc[w] = "test" /\ isExit
  /\ mutex' = NoOne
  /\ pc' = [pc EXCEPT ![w] = "exited"]
  /\ UNCHANGED <<queue, counter, buffer, running, isExit, main, received, taken>>

\* Mutant of TestReady: m_isExit is not tested again after the wait.
TestReadyOnce(w) ==
  /\ pc[w] = "test" /\ queue # <<>>
  /\ pc' = [pc EXCEPT ![w] = "take"]
  /\ UNCHANGED <<queue, counter, mutex, buffer, running, isExit, main, received, taken>>

\* The queue is not empty and m_isExit not set.  StopAll, which does not take
\* the mutex, may set it before the package is taken.
TestReady(w) ==
  /\ pc[w] = "test" /\ queue # <<>> /\ ~ isExit
  /\ pc' = [pc EXCEPT ![w] = "take"]
  /\ UNCHANGED <<queue, counter, mutex, buffer, running, isExit, main, received, taken>>

\* Mutant of Take: the last package is taken first.
TakeLast(w) ==
  /\ pc[w] = "take"
  /\ buffer' = [buffer EXCEPT ![w] = queue[Len(queue)]]
  /\ taken' = Append(taken, queue[Len(queue)])
  /\ queue' = SubSeq(queue, 1, Len(queue) - 1)
  /\ counter' = counter - 1
  /\ mutex' = NoOne
  /\ pc' = [pc EXCEPT ![w] = "start"]
  /\ UNCHANGED <<running, isExit, main, received>>

\* Take the first package and release the mutex.
Take(w) ==
  /\ pc[w] = "take"
  /\ buffer' = [buffer EXCEPT ![w] = Head(queue)]
  /\ taken' = Append(taken, Head(queue))
  /\ queue' = Tail(queue)
  /\ counter' = counter - 1
  /\ mutex' = NoOne
  /\ pc' = [pc EXCEPT ![w] = "start"]
  /\ UNCHANGED <<running, isExit, main, received>>

\* ++m_threadRunning, an atomic, before ThreadReceive_Proc.
Start(w) ==
  /\ pc[w] = "start"
  /\ running' = running + 1
  /\ pc' = [pc EXCEPT ![w] = "run"]
  /\ UNCHANGED <<queue, counter, mutex, buffer, isExit, main, received, taken>>

\* ThreadReceive_Proc has returned: the buffer is deleted.
Finish(w) ==
  /\ pc[w] = "run"
  /\ buffer' = [buffer EXCEPT ![w] = 0]
  /\ running' = running - 1
  /\ pc' = [pc EXCEPT ![w] = "lock"]
  /\ UNCHANGED <<queue, counter, mutex, isExit, main, received, taken>>

-----------------------------------------------------------------------------
WorkerStep(w) ==
  \/ Lock(w) \/ TestEmpty(w) \/ Sleep(w) \/ Exit(w) \/ TestReady(w) \/ Take(w)
  \/ Start(w) \/ Finish(w)

MainStep == Notify \/ NotifyAll \/ Join

Next == Put \/ SetExit \/ MainStep \/ \E w \in Worker : WorkerStep(w) \/ WakeSpuriously(w)

Spec == Init /\ [][Next]_vars

\* Threads that can run do: the scheduler is fair. Fairness of Finish says that
\* ThreadReceive_Proc returns, as it does unless a full tcp queue was left locked
\* (Request.cpp:333). Nothing makes packages arrive, StopAll be called or wait()
\* return early.
FairSpec == /\ Spec /\ WF_vars(MainStep)
            /\ \A w \in Worker : WF_vars(WorkerStep(w))

-----------------------------------------------------------------------------
(* Properties. *)

\* Every variable has its type; the only type invariant of the module.
TypeOK ==
  /\ queue \in Seq(Nat) /\ taken \in Seq(Nat)
  /\ counter \in Nat /\ running \in Int /\ received \in Nat
  /\ mutex \in Worker \cup {NoOne}
  /\ pc \in [Worker -> {"lock", "test", "sleep", "wait", "take", "start", "run", "exited"}]
  /\ buffer \in [Worker -> Nat]
  /\ isExit \in BOOLEAN
  /\ main \in {"loop", "notify", "notifyAll", "join", "stopped"}

\* Packages are taken out of the queue once each and in the order received,
\* whichever workers take them. Of execution it says nothing: between the unlock
\* (ThreadPool.cpp:84) and logicMutex (Logic.cpp:29) a worker may be overtaken.
TakenInOrder == taken \o queue = [i \in 1 .. received |-> i]

\* A worker in the critical section of ThreadFunc holds the mutex, and only it.
MutualExclusion == \A w \in Worker : pc[w] \in {"test", "sleep", "take"} <=> mutex = w

\* No package is stranded: while the pool is not being stopped, packages are
\* queued and every worker sleeps only when a notification is on its way.
NoStranded ==
  queue # <<>> /\ ~ isExit /\ (\A w \in Worker : pc[w] = "wait") => main = "notify"

\* The queue, the mutex and the flag together are a TaskQueue.  StopAll sets
\* m_isExit without the mutex, at any point of a worker's critical section:
\* the worker that has come past the test of it, and no other, still takes a package.
Tasks == INSTANCE TaskQueue WITH
           Task <- 1 .. MaxMessages, Nothing <- 0, waiting <- queue, working <- buffer,
           mode <- IF ~ isExit THEN "open"
                   ELSE IF \E w \in Worker : pc[w] = "take" THEN "last" ELSE "closed"

ImplementsTaskQueue == Tasks!Spec

\* Every package received is handed to a worker, unless the pool is stopped.
Served == \A i \in 1 .. MaxMessages :
            received >= i ~> (i \in {taken[j] : j \in 1 .. Len(taken)} \/ isExit)

\* StopAll ends, every worker having exited, unless a worker was between its test of
\* m_isExit and its wait when the flag was set (ThreadFunc, StopAll).
StopsUnlessDozing ==
  (main = "notifyAll" /\ \A w \in Worker : pc[w] # "sleep") ~> main = "stopped"

\* StopAll makes every thread of the pool exit (ThreadPool.h:19): not so, because
\* of that worker.
AllThreadsExit == isExit ~> main = "stopped"

=============================================================================
