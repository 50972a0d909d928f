------------------------------- MODULE TcpSend -------------------------------
(***************************************************************************)
(* How MSocket sends.  Messages to administrators' clients (StS) and to    *)
(* users (StU) go through a queue each, which a sender thread empties.     *)
(* What the socket does not take at once is kept in the connection, which  *)
(* is marked by throwSendCount, and the epoll loop sends it when the       *)
(* socket is writable again.  The fields a message is kept in, and the     *)
(* bytes, are the subject of TcpWire: here a send falls short or not.      *)
(*                                                                         *)
(* Producers are the epoll loop ("main": what users and clients sent, and  *)
(* notices of new users) and the pool thread ("pool": answers to           *)
(* commands).  A connection is an object of its own for its whole life     *)
(* here; that objects are reused is the subject of TcpLinks.               *)
(***************************************************************************)
EXTENDS Integers, Sequences, FiniteSets

CONSTANTS
  Admin,       \* ids of the administrators' connections
  User,        \* ids of users linked to a forward connection
  MaxSend,     \* m_MAX_Send
  MaxRqSend,   \* m_MAX_rqSend
  MaxMessages, \* bound: calls of MsgSend_StS and MsgSend_StU
  MaxShort,    \* bound: sends that find too little room
  MaxBreaks,   \* bound: connections that are shut down or reset
  MaxFlush     \* bound: how far below zero throwSendCount is followed

ASSUME NameAssumption == Admin \cap User = {}
ASSUME LimitAssumption == MaxSend \in Nat /\ MaxRqSend \in Nat
ASSUME BoundAssumption == {MaxMessages, MaxShort, MaxBreaks, MaxFlush} \subseteq Nat

Key      == Admin \cup User
Queue    == {"StS", "StU"}
Producer == {"main", "pool"}

\* The connection with an id, and the forward connection of a user's.
Conn == (Key \X {"own"}) \cup (User \X {"forward"})

Forward(k) == IF k \in User THEN <<k, "forward">> ELSE <<k, "own">>

\* The connection a message of queue q with id k is for.
Receiver(q, k) == IF q = "StS" THEN Forward(k) ELSE <<k, "own">>

\* The queue that serves a connection.
QueueOf(c) == IF c[2] = "own" /\ c[1] \in User THEN "StU" ELSE "StS"

\* The i-th message offered, and the id in its head.
Message == [n : 1 .. MaxMessages, key : Key]

Nothing == [n |-> 0, key |-> "none"]
ASSUME NothingAssumption == "none" \notin Key

NoCall == [pc |-> "idle", q |-> "StS", msg |-> Nothing]

NoConn == <<"none", "own">>

VARIABLES
  queue,    \* m_StSQueue and m_StUQueue
  mutex,    \* m_StSMutex and m_StUMutex: who never released it, or "free"
  sender,   \* per queue: where its thread is, and pMsgbuf
  call,     \* per producer: where it is in MsgSend, the queue and the message
  flush,    \* the connection the epoll loop handles EPOLLOUT of
  known,    \* the ids in m_workconn
  open,     \* connections whose descriptor is open
  reset,    \* connections their peer has reset
  breaks,   \* number of hang-ups and resets
  req,      \* requestSent
  throw,    \* throwSendCount
  out,      \* EPOLLOUT is set in cptr->events
  left,     \* history: per queue, how many messages were loaded or found no connection
  fault,    \* "none", or why the process died
  offered,  \* number of calls of MsgSend
  shorts    \* number of sends that found too little room

produced == <<call, flush, offered>>
fields   == <<req, throw, out>>
links    == <<known, open, reset, breaks>>
vars == <<queue, mutex, sender, fields, produced, shorts, links, fault, left>>

Init ==
  /\ queue = [q \in Queue |-> <<>>]
  /\ mutex = [q \in Queue |-> "free"]
  /\ sender = [q \in Queue |-> [pc |-> "lock", msg |-> Nothing]]
  /\ call = [t \in Producer |-> NoCall]
  /\ flush = NoConn
  /\ known = Key /\ open = Conn /\ reset = {} /\ breaks = 0
  /\ req = [c \in Conn |-> 0]
  /\ throw = [c \in Conn |-> 0]
  /\ out = [c \in Conn |-> FALSE]
  /\ fault = "none"
  /\ offered = 0 /\ shorts = 0 /\ left = [q \in Queue |-> 0]

Running == fault = "none"

Idle(t) == Running /\ call[t].pc = "idle"

Crash(why) == /\ fault' = why
              /\ UNCHANGED <<queue, mutex, sender, fields, produced, shorts, links, left>>

-----------------------------------------------------------------------------
(* Shutdown of a connection and its link (ActiveShutdown, Free_connection). *)

Ends(k) == {c \in Conn : c[1] = k}

\* Their descriptors are closed, and they are no longer marked.
Release(cs) ==
  /\ open' = open \ cs
  /\ throw' = [c \in Conn |-> IF c \in cs THEN 0 ELSE throw[c]]
  /\ out' = [c \in Conn |-> c \notin cs /\ out[c]]
  /\ UNCHANGED <<req, reset>>

Close(k) == Release(Ends(k)) /\ known' = known \ {k}

Breaks == breaks < MaxBreaks /\ breaks' = breaks + 1

\* A peer hangs up or floods, or its administrator leaves: the epoll loop or a
\* command shuts the connection down, and its forward connection with it.
HangUp(t, k) ==
  /\ Idle(t) /\ k \in known
  /\ Close(k) /\ Breaks
  /\ UNCHANGED <<queue, mutex, sender, produced, shorts, fault, left>>

\* The peer of a forward connection hangs up: the user's connection stays.
ForwardHangsUp(u) ==
  /\ Idle("main") /\ <<u, "forward">> \in open
  /\ Release({<<u, "forward">>}) /\ Breaks
  /\ UNCHANGED <<queue, mutex, sender, produced, shorts, known, fault, left>>

\* The peer resets the connection; nothing was read from it since.
PeerResets(c) ==
  /\ Running /\ c \in open \ reset /\ Breaks
  /\ reset' = reset \cup {c}
  /\ UNCHANGED <<queue, mutex, sender, fields, produced, shorts, known, open, fault, left>>

-----------------------------------------------------------------------------
(* MsgSend_StS and MsgSend_StU, called by producer t. *)

\* Who sends what: see AdminRequest_Handle and PromptMsg_Send (StS, to an
\* administrator), UserMessage_Handle (StS), MessageForward_Handle (StU).
Sends(t, q, k) == \/ q = "StS" /\ k \in Admin
                  \/ t = "main" /\ k \in User

\* Up to the lock: without an entry in m_workconn the message is deleted; when
\* its connection has too many requests the connection is shut down.
MsgSend(t, q, k) ==
  /\ Idle(t) /\ offered < MaxMessages /\ Sends(t, q, k)
  /\ offered' = offered + 1
  /\ \/ k \notin known /\ UNCHANGED <<call, fields, links>>
     \/ k \in known /\ req[<<k, "own">>] > MaxRqSend
        /\ Close(k) /\ UNCHANGED <<call, breaks>>
     \/ /\ k \in known /\ req[<<k, "own">>] <= MaxRqSend
        /\ call' = [call EXCEPT ![t] = [pc |-> "push", q |-> q,
                                        msg |-> [n |-> offered', key |-> k]]]
        /\ UNCHANGED <<fields, links>>
  /\ UNCHANGED <<queue, mutex, sender, flush, shorts, fault, left>>

\* Under the mutex.  A full queue makes the call return with the mutex held.
Push(t) ==
  LET q == call[t].q
      m == call[t].msg
  IN  /\ Running /\ call[t].pc = "push" /\ mutex[q] = "free"
      /\ IF Len(queue[q]) > MaxSend
         THEN /\ mutex' = [mutex EXCEPT ![q] = t]
              /\ call' = [call EXCEPT ![t] = NoCall]
              /\ UNCHANGED <<queue, req>>
         ELSE /\ queue' = [queue EXCEPT ![q] = Append(@, m)]
              /\ req' = [req EXCEPT ![<<m.key, "own">>] = @ + 1]
              /\ call' = [call EXCEPT ![t].pc = "notify", ![t].msg = Nothing]
              /\ UNCHANGED mutex
      /\ UNCHANGED <<sender, throw, out, flush, offered, shorts, links, fault, left>>

\* Mutant of Notify: the wrong condition variable is notified.
NotifyOther(t) ==
  LET q == IF call[t].q = "StS" THEN "StU" ELSE "StS"
  IN  /\ Running /\ call[t].pc = "notify"
      /\ call' = [call EXCEPT ![t] = NoCall]
      /\ sender' = IF sender[q].pc = "wait" THEN [sender EXCEPT ![q].pc = "lock"] ELSE sender
      /\ UNCHANGED <<queue, mutex, fields, flush, offered, shorts, links, fault, left>>

\* notify_one, after the unlock.
Notify(t) ==
  LET q == call[t].q
  IN  /\ Running /\ call[t].pc = "notify"
      /\ call' = [call EXCEPT ![t] = NoCall]
      /\ sender' = IF sender[q].pc = "wait" THEN [sender EXCEPT ![q].pc = "lock"] ELSE sender
      /\ UNCHANGED <<queue, mutex, fields, flush, offered, shorts, links, fault, left>>

-----------------------------------------------------------------------------
(* MessageStS_Thread and MessageStU_Thread, of queue q.  What is done under   *)
(* the mutex is one step.                                                     *)

At(q, pc) == Running /\ sender[q].pc = pc

Goto(q, pc) == sender' = [sender EXCEPT ![q].pc = pc]

\* Back to the head of the loop.
Again(q) == sender' = [sender EXCEPT ![q] = [pc |-> "lock", msg |-> Nothing]]

\* The connection the message in hand is for.
To(q) == Receiver(q, sender[q].msg.key)

\* The queue is empty: wait() releases the mutex and sleeps in one step.
Sleep(q) ==
  /\ At(q, "lock") /\ mutex[q] = "free" /\ queue[q] = <<>>
  /\ Goto(q, "wait")
  /\ UNCHANGED <<queue, mutex, fields, produced, shorts, links, fault, left>>

\* Mutant of WakeSpuriously: the queue is not tested again after wait().
WakeUntested(q) ==
  /\ At(q, "wait")
  /\ Goto(q, "find")
  /\ UNCHANGED <<queue, mutex, fields, produced, shorts, links, fault, left>>

WakeSpuriously(q) ==
  /\ At(q, "wait")
  /\ Again(q)
  /\ UNCHANGED <<queue, mutex, fields, produced, shorts, links, fault, left>>

Take(q) ==
  /\ At(q, "lock") /\ mutex[q] = "free" /\ queue[q] # <<>>
  /\ queue' = [queue EXCEPT ![q] = Tail(@)]
  /\ sender' = [sender EXCEPT ![q] = [pc |-> "find", msg |-> Head(queue[q])]]
  /\ UNCHANGED <<mutex, fields, produced, shorts, links, fault, left>>

Leaves(q) == left' = [left EXCEPT ![q] = @ + 1]

Drop(q) ==
  /\ At(q, "find") /\ sender[q].msg.key \notin known
  /\ Leaves(q)
  /\ Again(q)
  /\ UNCHANGED <<queue, mutex, fields, produced, shorts, links, fault>>

Find(q) ==
  /\ At(q, "find") /\ sender[q].msg.key \in known
  /\ Goto(q, "index")
  /\ UNCHANGED <<queue, mutex, fields, produced, shorts, links, fault, left>>

\* operator[], without the lock: another thread may have erased the id.  On its
\* way to that ActiveShutdown has set the forwardConn of a user's connection to
\* null (Connection.cpp:153); which of the two nulls is followed is the same here.
Index(q) ==
  /\ At(q, "index")
  /\ IF sender[q].msg.key \in known
     THEN /\ Goto(q, "check")
          /\ UNCHANGED <<queue, mutex, fields, produced, shorts, links, fault, left>>
     ELSE Crash("null connection")

\* Mutant of Postpone: the message is counted down before it goes back.
PostponeCounts(q) ==
  /\ At(q, "check") /\ throw[To(q)] > 0
  /\ req' = [req EXCEPT ![To(q)] = @ - 1]
  /\ Goto(q, "requeue")
  /\ UNCHANGED <<queue, mutex, throw, out, produced, shorts, links, fault, left>>

\* Mutant of Postpone: the message is deleted instead.
PostponeDeletes(q) ==
  /\ At(q, "check") /\ throw[To(q)] > 0
  /\ Again(q)
  /\ UNCHANGED <<queue, mutex, fields, produced, shorts, links, fault, left>>

\* The connection waits for EPOLLOUT: the message goes back into the queue.
Postpone(q) ==
  /\ At(q, "check") /\ throw[To(q)] > 0
  /\ Goto(q, "requeue")
  /\ UNCHANGED <<queue, mutex, fields, produced, shorts, links, fault, left>>

\* Mutant of Requeue: the message goes to the front.
RequeueFirst(q) ==
  /\ At(q, "requeue") /\ mutex[q] = "free"
  /\ queue' = [queue EXCEPT ![q] = <<sender[q].msg>> \o @]
  /\ Again(q)
  /\ UNCHANGED <<mutex, fields, produced, shorts, links, fault, left>>

Requeue(q) ==
  /\ At(q, "requeue") /\ mutex[q] = "free"
  /\ queue' = [queue EXCEPT ![q] = Append(@, sender[q].msg)]
  /\ Again(q)
  /\ UNCHANGED <<mutex, fields, produced, shorts, links, fault, left>>

\* The message is counted down and becomes the one its connection is sending.
Load(q) ==
  LET c == To(q)
  IN  /\ At(q, "check") /\ throw[c] <= 0
      /\ req' = [req EXCEPT ![c] = @ - 1]
      /\ Leaves(q)
      /\ Goto(q, "send")
      /\ UNCHANGED <<queue, mutex, throw, out, produced, shorts, links, fault>>

\* send() took everything, or refused it with an error (the descriptor is closed,
\* there is nothing to send, sendptr points nowhere).
Done == UNCHANGED <<throw, shorts>>

\* Too little room: the connection is marked as waiting for EPOLLOUT.
Short(c) ==
  /\ c \in open \ reset /\ shorts < MaxShort
  /\ shorts' = shorts + 1
  /\ throw' = [throw EXCEPT ![c] = @ + 1]

\* No handler is installed for SIGPIPE and send() is called without flags.
Killed(c) == c \in open \cap reset /\ Crash("SIGPIPE")

\* SendProc in the sender thread, up to ++throwSendCount.
Send(q) ==
  LET c == To(q)
  IN  /\ At(q, "send")
      /\ \/ Done /\ Again(q) /\ UNCHANGED <<queue, mutex, req, out, produced, links, fault, left>>
         \/ /\ Short(c) /\ Goto(q, "arm")
            /\ UNCHANGED <<queue, mutex, req, out, produced, links, fault, left>>
         \/ Killed(c)

\* EPOLLOUT is asked for, unless the descriptor is closed by now.
Arm(q) ==
  LET c == To(q)
  IN  /\ At(q, "arm")
      /\ out' = [out EXCEPT ![c] = @ \/ c \in open]
      /\ Again(q)
      /\ UNCHANGED <<queue, mutex, req, throw, produced, shorts, links, fault, left>>

-----------------------------------------------------------------------------
(* EPOLLOUT in the epoll loop (Write_requestHandle). *)

\* The call of SendProc.  A send that falls short arms what is armed already, or
\* what a sender thread has just marked.
Flush(c) ==
  /\ Idle("main") /\ c \in open /\ out[c] /\ throw[c] > - MaxFlush
  /\ \/ /\ Done \/ Short(c)
        /\ call' = [call EXCEPT !["main"].pc = "flushed"]
        /\ flush' = c
        /\ UNCHANGED <<queue, mutex, sender, req, out, offered, links, fault, left>>
     \/ Killed(c)

\* The rest of the handler: it returns with the connection marked ("not all was
\* sent"), or clears EPOLLOUT, or not, and takes the mark away.  Which of these is
\* in TcpWire.
Flushed ==
  LET c == flush
  IN  /\ Running /\ call["main"].pc = "flushed"
      /\ \/ UNCHANGED <<throw, out>>
         \/ \E o \in {out[c], FALSE} :
              /\ throw' = [throw EXCEPT ![c] = @ - 1]
              /\ out' = [out EXCEPT ![c] = o]
      /\ call' = [call EXCEPT !["main"] = NoCall]
      /\ flush' = NoConn
      /\ UNCHANGED <<queue, mutex, sender, req, offered, shorts, links, fault, left>>

\* The event also says that the peer has shut down its side: the connection
\* no longer waits, and what it kept is not sent.
PeerShutsDown(c) ==
  /\ Idle("main") /\ c \in open /\ out[c] /\ throw[c] # 0
  /\ throw' = [throw EXCEPT ![c] = 0]
  /\ UNCHANGED <<queue, mutex, sender, req, out, produced, shorts, links, fault, left>>

-----------------------------------------------------------------------------
SenderStep(q) ==
  \/ Sleep(q) \/ Take(q) \/ Drop(q) \/ Find(q) \/ Index(q)
  \/ Postpone(q) \/ Requeue(q) \/ Load(q) \/ Send(q) \/ Arm(q)

CallStep(t) == Push(t) \/ Notify(t)

Next ==
  \/ \E t \in Producer : \/ CallStep(t)
                         \/ \E k \in Key : HangUp(t, k) \/ \E q \in Queue : MsgSend(t, q, k)
  \/ \E u \in User : ForwardHangsUp(u)
  \/ \E c \in Conn : PeerResets(c) \/ Flush(c) \/ PeerShutsDown(c)
  \/ Flushed
  \/ \E q \in Queue : SenderStep(q) \/ WakeSpuriously(q)

Spec == Init /\ [][Next]_vars

\* Threads that can go on do.  Nothing makes messages come, connections end,
\* wait() return early, or a socket take what it is given: a peer may read
\* nothing for ever.
FairSpec == /\ Spec /\ WF_call(Flushed)
            /\ \A t \in Producer : WF_call(CallStep(t))
            /\ \A q \in Queue : WF_vars(SenderStep(q))

-----------------------------------------------------------------------------
(* Properties. *)

\* Every variable has its type; the only type invariant of the module.
TypeOK ==
  /\ queue \in [Queue -> Seq(Message)]
  /\ mutex \in [Queue -> {"free"} \cup Producer]
  /\ sender \in [Queue -> [pc : {"lock", "wait"}, msg : {Nothing}] \cup
                          [pc : {"find", "index", "check", "requeue", "send", "arm"}, msg : Message]]
  /\ call \in [Producer -> [pc : {"idle", "notify", "flushed"}, q : Queue, msg : {Nothing}]
                          \cup [pc : {"push"}, q : Queue, msg : Message]]
  /\ flush \in Conn \cup {NoConn}
  /\ known \subseteq Key /\ open \subseteq Conn /\ reset \subseteq Conn
  /\ req \in [Conn -> Int] /\ throw \in [Conn -> Int]
  /\ out \in [Conn -> BOOLEAN]
  /\ fault \in {"none", "null connection", "SIGPIPE"}
  /\ offered \in 0 .. MaxMessages /\ left \in [Queue -> Nat]
  /\ shorts \in 0 .. MaxShort /\ breaks \in 0 .. MaxBreaks

\* The message in the sender's hands is not yet counted down.
InHand(q) == sender[q].pc \in {"find", "index", "check", "requeue"}

Kept(q) == IF InHand(q) THEN <<sender[q].msg>> \o queue[q] ELSE queue[q]

\* Messages with id k that wait in queue q.
Waiting(q, k) == Cardinality({i \in 1 .. Len(Kept(q)) : Kept(q)[i].key = k})

\* requestSent counts the messages that wait, but on the wrong connection
\* half of the time: it goes up on the user's for both directions
\* (Request.cpp:341, 385) and down on the connection served (455, 530).  Only the
\* sum over a link is what waits on it.
CountersConserved ==
  \A k \in known :
    req[<<k, "own">>] + (IF k \in User THEN req[Forward(k)] ELSE 0)
      = Waiting("StS", k) + Waiting("StU", k)

\* A sender thread does not sleep on a message nobody is about to announce
\* (MsgSend_StS and MsgSend_StU notify after the unlock).
NoLostWakeup ==
  \A q \in Queue :
    queue[q] # <<>> /\ sender[q].pc = "wait" =>
      \E t \in Producer : call[t].pc = "notify" /\ call[t].q = q

\* What the two queues are for: nothing accepted is lost, nothing leaves twice,
\* and the first is served unless its connection makes it wait.
StSBox == INSTANCE Outbox WITH
  pending <- Kept("StS"), left <- left["StS"], jammed <- mutex["StS"] \in Producer,
  Threshold <- MaxSend + 1, Capacity <- MaxSend + 2

StUBox == INSTANCE Outbox WITH
  pending <- Kept("StU"), left <- left["StU"], jammed <- mutex["StU"] \in Producer,
  Threshold <- MaxSend + 1, Capacity <- MaxSend + 2

ImplementsOutbox == StSBox!Spec /\ StUBox!Spec

\* The messages for a connection leave their queue unless that connection waits
\* for EPOLLOUT or the queue is jammed: a connection that does not read holds up
\* nobody else (MessageStS_Thread puts its messages behind the others,
\* Request.cpp:448).
Drained ==
  \A c \in Conn :
    LET q == QueueOf(c)
    IN  Waiting(q, c[1]) > 0 ~>
          \/ Waiting(q, c[1]) = 0 \/ throw[c] > 0
          \/ mutex[q] \in Producer \/ ~ Running

\* requestSent is "the number of messages requested to be sent" and the limit
\* is on "too many unsent messages held for one connection" (Request.cpp:321): a
\* connection over it holds more than m_MAX_rqSend messages.
OverQuotaWaits ==
  \A k \in known :
    req[<<k, "own">>] > MaxRqSend => Waiting("StS", k) + Waiting("StU", k) > MaxRqSend

=============================================================================
