---------------------------- MODULE TcpSendProofs ----------------------------
(***************************************************************************)
(* The two tcp queues for any ids, limits and numbers of messages: no      *)
(* wake-up is lost, each queue is the Outbox, and requestSent counts what  *)
(* waits on a link, whatever connections break and whatever the sockets    *)
(* take.                                                                   *)
(***************************************************************************)
EXTENDS TcpSend, SequenceTheorems, FiniteSetTheorems, TLAPS

SenderPc == {"lock", "wait", "find", "index", "check", "requeue", "send", "arm"}
CallPc == {"idle", "push", "notify", "flushed"}

SenderState == [pc : SenderPc, msg : Message \cup {Nothing}]
CallState == [pc : CallPc, q : Queue, msg : Message \cup {Nothing}]

\* The types of what the queues are made of.
QueueTypes ==
  /\ queue \in [Queue -> Seq(Message)]
  /\ mutex \in [Queue -> {"free"} \cup Producer]
  /\ sender \in [Queue -> SenderState]
  /\ call \in [Producer -> CallState]
  /\ left \in [Queue -> Nat]
  /\ offered \in 0 .. MaxMessages

\* Senders past the test and calls about to push have a message.
HaveMessage ==
  /\ \A q \in Queue : sender[q].pc \notin {"lock", "wait"} => sender[q].msg \in Message
  /\ \A t \in Producer : call[t].pc = "push" => call[t].msg \in Message

\* The numbers of the messages kept in queue q.
Numbers(q) == {Kept(q)[i].n : i \in 1 .. Len(Kept(q))}

\* A message about to be pushed is in no queue yet, and is no other call's.
Fresh ==
  /\ \A q \in Queue : \A n \in Numbers(q) : n <= offered
  /\ \A t \in Producer : call[t].pc = "push" =>
       /\ call[t].msg.n <= offered
       /\ \A q \in Queue : call[t].msg.n \notin Numbers(q)
       /\ \A u \in Producer : call[u].pc = "push" /\ call[u].msg.n = call[t].msg.n => u = t

Typed == QueueTypes /\ HaveMessage

Inv == Typed /\ Fresh

core == <<queue, mutex, sender, call, left, offered>>

-----------------------------------------------------------------------------
(* What a step does to the messages kept. *)

\* The effects of steps on queue q, as Outbox sees them.
Same(q) == Kept(q)' = Kept(q) /\ left'[q] = left[q]

Pushed(q, t) ==
  /\ call[t].pc = "push" /\ call'[t].pc # "push" /\ call[t].q = q /\ mutex[q] = "free"
  /\ Len(Kept(q)) < MaxSend + 2
  /\ Kept(q)' = Append(Kept(q), call[t].msg)
  /\ left'[q] = left[q] /\ mutex'[q] = mutex[q]

Jammed(q) ==
  /\ mutex[q] = "free" /\ mutex'[q] \in Producer /\ Len(Kept(q)) >= MaxSend + 1
  /\ Same(q)

Rotated(q) ==
  /\ mutex[q] = "free" /\ Kept(q) # <<>>
  /\ Kept(q)' = Append(Tail(Kept(q)), Head(Kept(q)))
  /\ left'[q] = left[q] /\ mutex'[q] = mutex[q]

Shrunk(q) ==
  /\ Kept(q) # <<>> /\ Kept(q)' = Tail(Kept(q))
  /\ left'[q] = left[q] + 1 /\ mutex'[q] = mutex[q]

Effect(q) == \/ Same(q) /\ mutex'[q] = mutex[q]
             \/ \E t \in Producer : Pushed(q, t)
             \/ Jammed(q) \/ Rotated(q) \/ Shrunk(q)

\* Sequences whose first element is in the sender's hands.
LEMMA InFront ==
  ASSUME NEW S, NEW m \in S, NEW s \in Seq(S)
  PROVE  /\ <<m>> \o s \in Seq(S) /\ <<m>> \o s # <<>>
         /\ Head(<<m>> \o s) = m /\ Tail(<<m>> \o s) = s
         /\ Len(<<m>> \o s) = Len(s) + 1
         /\ \A x \in S : Append(<<m>> \o s, x) = <<m>> \o Append(s, x)
  OBVIOUS

LEMMA AppendBehind ==
  ASSUME NEW m \in Message, NEW s \in Seq(Message), NEW x \in Message
  PROVE  Append(<<m>> \o s, x) = <<m>> \o Append(s, x)
OBVIOUS

LEMMA HeadTail ==
  ASSUME NEW S, NEW s \in Seq(S), s # <<>>
  PROVE  Head(s) \in S /\ Tail(s) \in Seq(S) /\ <<Head(s)>> \o Tail(s) = s
  OBVIOUS

LEMMA KeptType == ASSUME Typed, NEW q \in Queue
                  PROVE Kept(q) \in Seq(Message) /\ Len(Kept(q)) \in Nat
<1>1. queue[q] \in Seq(Message) /\ (InHand(q) => sender[q].msg \in Message)
  BY DEF Typed, QueueTypes, HaveMessage, InHand
<1>2. CASE InHand(q)
  BY <1>1, <1>2, InFront DEF Kept
<1>3. CASE ~ InHand(q)
  BY <1>1, <1>3 DEF Kept
<1> QED
  BY <1>2, <1>3

-----------------------------------------------------------------------------
(* Types and wake-ups. *)

\* Steps that touch nothing but connections, or end the process.
Quiet == UNCHANGED core

LEMMA ConnectionSteps ==
  ASSUME \/ \E t \in Producer, k \in Key : HangUp(t, k)
         \/ \E u \in User : ForwardHangsUp(u)
         \/ \E c \in Conn : PeerResets(c) \/ PeerShutsDown(c)
         \/ \E c \in Conn : Killed(c)
         \/ UNCHANGED vars
  PROVE  Quiet
BY DEF HangUp, ForwardHangsUp, PeerResets, PeerShutsDown, Killed, Crash, Quiet, core, vars, produced

\* The epoll loop's own calls: MsgSend up to the lock, and Write_requestHandle.
FlushStep ==
  /\ call["main"].pc = "idle"
  /\ call' = [call EXCEPT !["main"].pc = "flushed"]
  /\ UNCHANGED <<queue, mutex, sender, left, offered>>

LEMMA FlushSteps == ASSUME NEW c \in Conn, Flush(c) PROVE FlushStep \/ Quiet
BY DEF Flush, FlushStep, Idle, Quiet, core, Killed, Crash, produced

LEMMA QuietTyped == Typed /\ NoLostWakeup /\ Quiet => Typed' /\ NoLostWakeup'
BY DEF Quiet, core, Typed, QueueTypes, HaveMessage, NoLostWakeup

\* A function changed at one place.
LEMMA Updated ==
  ASSUME NEW A, NEW B, NEW f \in [A -> B], NEW a \in A, NEW b \in B
  PROVE  /\ [f EXCEPT ![a] = b] \in [A -> B] /\ [f EXCEPT ![a] = b][a] = b
         /\ \A x \in A : x # a => [f EXCEPT ![a] = b][x] = f[x]
  OBVIOUS

LEMMA CallAt ==
  ASSUME NEW r \in CallState, NEW pc \in CallPc
  PROVE  LET s == [r EXCEPT !.pc = pc]
         IN  s \in CallState /\ s.pc = pc /\ s.q = r.q /\ s.msg = r.msg
  BY DEF CallState, CallPc

LEMMA SenderAt ==
  ASSUME NEW r \in SenderState, NEW pc \in SenderPc
  PROVE  LET s == [r EXCEPT !.pc = pc]
         IN  s \in SenderState /\ s.pc = pc /\ s.msg = r.msg
  BY DEF SenderState, SenderPc

LEMMA NoCallType == NoCall \in CallState /\ NoCall.pc = "idle"
BY DEF NoCall, CallState, CallPc, Queue

\* A step that changes one call, not from or to "push" nor from "notify".
LEMMA CallTyped ==
  ASSUME Typed, NoLostWakeup, NEW t \in Producer, NEW r \in CallState,
         call' = [call EXCEPT ![t] = r], r.pc # "push", call[t].pc # "notify",
         UNCHANGED <<queue, sender, left, offered>>,
         mutex' \in [Queue -> {"free"} \cup Producer]
  PROVE  Typed' /\ NoLostWakeup'
<1>1. /\ call' \in [Producer -> CallState] /\ call'[t] = r
      /\ \A u \in Producer : u # t => call'[u] = call[u]
  BY Updated DEF Typed, QueueTypes
<1>2. QueueTypes'
  BY <1>1 DEF Typed, QueueTypes
<1>3. HaveMessage'
  BY <1>1 DEF Typed, HaveMessage
<1>4. NoLostWakeup'
  BY <1>1 DEF NoLostWakeup
<1> QED
  BY <1>2, <1>3, <1>4 DEF Typed

LEMMA FlushTyped ==
  ASSUME Typed, NoLostWakeup, FlushStep \/ Flushed
  PROVE  Typed' /\ NoLostWakeup'
<1>1. "main" \in Producer /\ call["main"] \in CallState /\ call \in [Producer -> CallState]
  BY DEF Typed, QueueTypes, Producer
<1>2. mutex \in [Queue -> {"free"} \cup Producer]
  BY DEF Typed, QueueTypes
<1>3. CASE FlushStep
  <2> DEFINE r == [call["main"] EXCEPT !.pc = "flushed"]
  <2>1. /\ call' = [call EXCEPT !["main"] = r] /\ call["main"].pc = "idle"
        /\ UNCHANGED <<queue, mutex, sender, left, offered>>
    BY <1>3 DEF FlushStep
  <2>2. r \in CallState /\ r.pc = "flushed"
    BY <1>1, CallAt DEF CallPc
  <2> HIDE DEF r
  <2> QED
    BY <1>1, <1>2, <2>1, <2>2, CallTyped
<1>4. CASE Flushed
  <2>1. /\ call["main"].pc = "flushed"
        /\ call' = [call EXCEPT !["main"] = NoCall]
        /\ UNCHANGED <<queue, mutex, sender, left, offered>>
    BY <1>4 DEF Flushed
  <2> QED
    BY <1>1, <1>2, <2>1, NoCallType, CallTyped
<1> QED
  BY <1>3, <1>4

LEMMA MsgSendTyped ==
  ASSUME NEW t \in Producer, NEW q \in Queue, NEW k \in Key, Typed, NoLostWakeup, MsgSend(t, q, k)
  PROVE  Typed' /\ NoLostWakeup'
<1> DEFINE new == [pc |-> "push", q |-> q, msg |-> [n |-> offered', key |-> k]]
<1>1. offered' = offered + 1 /\ offered' \in 0 .. MaxMessages /\ offered' \in 1 .. MaxMessages
  BY BoundAssumption DEF MsgSend, Typed, QueueTypes
<1>2. UNCHANGED <<queue, mutex, sender, left>> /\ call[t].pc = "idle"
  BY DEF MsgSend, Idle
<1>3. CASE UNCHANGED call
  BY <1>1, <1>2, <1>3 DEF Typed, QueueTypes, HaveMessage, NoLostWakeup
<1>4. CASE call' = [call EXCEPT ![t] = new]
  <2>1. [n |-> offered', key |-> k] \in Message
    BY <1>1 DEF Message
  <2>2. new \in CallState /\ new.pc = "push" /\ new.msg \in Message
    BY <2>1 DEF CallState, CallPc
  <2> HIDE DEF new
  <2>3. /\ call' \in [Producer -> CallState] /\ call'[t] = new
        /\ \A u \in Producer : u # t => call'[u] = call[u]
    BY <1>4, <2>2, Updated DEF Typed, QueueTypes
  <2>4. QueueTypes'
    BY <1>1, <1>2, <2>3 DEF Typed, QueueTypes
  <2>5. HaveMessage'
    BY <1>2, <2>2, <2>3 DEF Typed, HaveMessage
  <2>6. NoLostWakeup'
    BY <1>2, <2>3 DEF NoLostWakeup
  <2> QED
    BY <2>4, <2>5, <2>6 DEF Typed
<1> QED
  BY <1>3, <1>4 DEF MsgSend

LEMMA PushTyped ==
  ASSUME NEW t \in Producer, Typed, NoLostWakeup, Push(t)
  PROVE  Typed' /\ NoLostWakeup'
<1> DEFINE q == call[t].q
           m == call[t].msg
<1>1. /\ call[t] \in CallState /\ call[t].pc = "push" /\ UNCHANGED <<sender, left, offered>>
      /\ call \in [Producer -> CallState] /\ queue \in [Queue -> Seq(Message)]
      /\ mutex \in [Queue -> {"free"} \cup Producer]
  BY DEF Push, Typed, QueueTypes
<1>2. q \in Queue /\ m \in Message
  BY <1>1 DEF CallState, Typed, HaveMessage
<1>3. CASE Len(queue[q]) > MaxSend
  <2>1. mutex' = [mutex EXCEPT ![q] = t] /\ call' = [call EXCEPT ![t] = NoCall] /\ queue' = queue
    BY <1>3 DEF Push
  <2>2. mutex' \in [Queue -> {"free"} \cup Producer]
    BY <1>1, <1>2, <2>1
  <2> QED
    BY <1>1, <2>1, <2>2, NoCallType, CallTyped
<1>4. CASE ~ (Len(queue[q]) > MaxSend)
  <2> DEFINE r == [call[t] EXCEPT !.pc = "notify", !.msg = Nothing]
  <2>1. /\ queue' = [queue EXCEPT ![q] = Append(queue[q], m)] /\ mutex' = mutex
        /\ call' = [call EXCEPT ![t] = r]
    BY <1>4 DEF Push
  <2>2. Append(queue[q], m) \in Seq(Message)
    BY <1>1, <1>2
  <2>3. r \in CallState /\ r.pc = "notify" /\ r.q = q
    BY <1>1 DEF CallState, CallPc
  <2>4. /\ queue' \in [Queue -> Seq(Message)]
        /\ \A x \in Queue : x # q => queue'[x] = queue[x]
    BY <1>1, <1>2, <2>1, <2>2, Updated
  <2> HIDE DEF r
  <2>5. /\ call' \in [Producer -> CallState] /\ call'[t] = r
        /\ \A u \in Producer : u # t => call'[u] = call[u]
    BY <1>1, <2>1, <2>3, Updated
  <2>6. QueueTypes'
    BY <1>1, <2>1, <2>4, <2>5 DEF Typed, QueueTypes
  <2>7. HaveMessage'
    BY <1>1, <2>3, <2>5 DEF Typed, HaveMessage
  <2>8. NoLostWakeup'
    <3> SUFFICES ASSUME NEW x \in Queue, queue'[x] # <<>>, sender'[x].pc = "wait"
                 PROVE  \E u \in Producer : call'[u].pc = "notify" /\ call'[u].q = x
      BY DEF NoLostWakeup
    <3>1. CASE x = q
      BY <2>3, <2>5, <3>1
    <3>2. CASE x # q
      <4>1. PICK u \in Producer : call[u].pc = "notify" /\ call[u].q = x
        BY <1>1, <2>4, <3>2 DEF NoLostWakeup
      <4> QED
        BY <1>1, <2>5, <4>1
    <3> QED
      BY <3>1, <3>2
  <2> QED
    BY <2>6, <2>7, <2>8 DEF Typed
<1> QED
  BY <1>3, <1>4

\* A step that changes one sender, not into "wait", and may change its queue.
LEMMA SenderTyped ==
  ASSUME Typed, NoLostWakeup, NEW q \in Queue, NEW r \in SenderState,
         sender' = [sender EXCEPT ![q] = r], r.pc # "wait",
         r.pc # "lock" => r.msg \in Message,
         NEW s \in Seq(Message), queue' = [queue EXCEPT ![q] = s],
         left' \in [Queue -> Nat], UNCHANGED <<mutex, call, offered>>
  PROVE  Typed' /\ NoLostWakeup'
<1>1. /\ sender' \in [Queue -> SenderState] /\ sender'[q] = r
      /\ \A x \in Queue : x # q => sender'[x] = sender[x]
  BY Updated DEF Typed, QueueTypes
<1>2. queue' \in [Queue -> Seq(Message)] /\ \A x \in Queue : x # q => queue'[x] = queue[x]
  BY Updated DEF Typed, QueueTypes
<1>3. QueueTypes'
  BY <1>1, <1>2 DEF Typed, QueueTypes
<1>4. HaveMessage'
  BY <1>1 DEF Typed, HaveMessage
<1>5. NoLostWakeup'
  BY <1>1, <1>2 DEF NoLostWakeup
<1> QED
  BY <1>3, <1>4, <1>5 DEF Typed

LEMMA NotifyTyped ==
  ASSUME NEW t \in Producer, Typed, NoLostWakeup, Notify(t)
  PROVE  Typed' /\ NoLostWakeup'
<1> DEFINE q == call[t].q
           r == IF sender[q].pc = "wait" THEN [sender[q] EXCEPT !.pc = "lock"] ELSE sender[q]
<1>1. /\ call[t] \in CallState /\ UNCHANGED <<queue, mutex, left, offered>> /\ call[t].pc = "notify"
      /\ call \in [Producer -> CallState] /\ sender \in [Queue -> SenderState]
      /\ call' = [call EXCEPT ![t] = NoCall]
  BY DEF Notify, Typed, QueueTypes
<1>2. q \in Queue
  BY <1>1 DEF CallState
<1>3. sender' = [sender EXCEPT ![q] = r]
  BY <1>1, <1>2 DEF Notify
<1>4. r \in SenderState /\ r.pc # "wait" /\ r.msg = sender[q].msg
      /\ (r.pc # "lock" => r.pc = sender[q].pc)
  <2>1. sender[q] \in SenderState /\ "lock" \in SenderPc
    BY <1>1, <1>2 DEF SenderPc
  <2>2. LET s == [sender[q] EXCEPT !.pc = "lock"]
        IN  s \in SenderState /\ s.pc = "lock" /\ s.msg = sender[q].msg
    BY <2>1, SenderAt
  <2>3. CASE sender[q].pc = "wait"
    BY <2>2, <2>3
  <2>4. CASE sender[q].pc # "wait"
    BY <2>1, <2>4
  <2> QED
    BY <2>3, <2>4
<1> HIDE DEF r
<1>5. /\ sender' \in [Queue -> SenderState] /\ sender'[q] = r
      /\ \A x \in Queue : x # q => sender'[x] = sender[x]
  BY <1>1, <1>2, <1>3, <1>4, Updated
<1>6. /\ call' \in [Producer -> CallState] /\ call'[t] = NoCall
      /\ \A u \in Producer : u # t => call'[u] = call[u]
  BY <1>1, NoCallType, Updated
<1>7. QueueTypes'
  BY <1>1, <1>5, <1>6 DEF Typed, QueueTypes
<1>8. HaveMessage'
  BY <1>2, <1>4, <1>5, <1>6, NoCallType DEF Typed, HaveMessage
<1>9. NoLostWakeup'
  BY <1>1, <1>4, <1>5, <1>6 DEF NoLostWakeup
<1> QED
  BY <1>7, <1>8, <1>9 DEF Typed

LEMMA SleepTyped ==
  ASSUME NEW q \in Queue, Typed, NoLostWakeup, Sleep(q)
  PROVE  Typed' /\ NoLostWakeup'
<1> DEFINE r == [sender[q] EXCEPT !.pc = "wait"]
<1>1. /\ sender[q] \in SenderState /\ "wait" \in SenderPc
      /\ queue[q] = <<>> /\ sender' = [sender EXCEPT ![q] = r]
      /\ UNCHANGED <<queue, mutex, call, left, offered>>
  BY DEF Sleep, Goto, produced, Typed, QueueTypes, SenderPc
<1>2. r \in SenderState /\ r.pc = "wait"
  BY <1>1, SenderAt
<1> HIDE DEF r
<1>3. /\ sender' \in [Queue -> SenderState] /\ sender'[q] = r
      /\ \A x \in Queue : x # q => sender'[x] = sender[x]
  BY <1>1, <1>2, Updated DEF Typed, QueueTypes
<1>4. QueueTypes'
  BY <1>1, <1>3 DEF Typed, QueueTypes
<1>5. HaveMessage'
  BY <1>1, <1>2, <1>3 DEF Typed, HaveMessage
<1>6. NoLostWakeup'
  BY <1>1, <1>3 DEF NoLostWakeup
<1> QED
  BY <1>4, <1>5, <1>6 DEF Typed

\* What the other steps of a sender thread change of the queues: its place,
\* its queue, and the count of what left.
SenderSteps(q, r, s, n) ==
  /\ sender' = [sender EXCEPT ![q] = r]
  /\ queue' = [queue EXCEPT ![q] = s]
  /\ left' = [left EXCEPT ![q] = @ + n]
  /\ UNCHANGED <<mutex, call, offered>>

\* The steps of a sender thread awake, one disjunct per step.
Awake(q, r, s, n) ==
  LET at == sender[q].pc
      same == s = queue[q] /\ n = 0
      back == r = [pc |-> "lock", msg |-> Nothing]
  IN  \/ at = "wait" /\ back /\ same
      \/ /\ at = "lock" /\ mutex[q] = "free" /\ queue[q] # <<>>
         /\ r = [pc |-> "find", msg |-> Head(queue[q])] /\ s = Tail(queue[q]) /\ n = 0
      \/ at = "find" /\ back /\ s = queue[q] /\ n = 1
      \/ at = "find" /\ r = [pc |-> "index", msg |-> sender[q].msg] /\ same
      \/ at = "index" /\ r = [pc |-> "check", msg |-> sender[q].msg] /\ same
      \/ at = "check" /\ r = [pc |-> "requeue", msg |-> sender[q].msg] /\ same
      \/ /\ at = "requeue" /\ mutex[q] = "free" /\ back
         /\ s = Append(queue[q], sender[q].msg) /\ n = 0
      \/ at = "check" /\ r = [pc |-> "send", msg |-> sender[q].msg] /\ s = queue[q] /\ n = 1
      \/ at = "send" /\ r = [pc |-> "arm", msg |-> sender[q].msg] /\ same
      \/ at \in {"send", "arm"} /\ back /\ same

LEMMA AwakeSteps ==
  ASSUME NEW q \in Queue, Typed, SenderStep(q) \/ WakeSpuriously(q)
  PROVE  Sleep(q) \/ Quiet \/ \E r \in SenderState, s \in Seq(Message), n \in {0, 1} :
                                 SenderSteps(q, r, s, n) /\ Awake(q, r, s, n)
<1> DEFINE Goal == \E r \in SenderState, s \in Seq(Message), n \in {0, 1} :
                      SenderSteps(q, r, s, n) /\ Awake(q, r, s, n)
           at(pc) == [pc |-> pc, msg |-> sender[q].msg]
           back == [pc |-> "lock", msg |-> Nothing]
<1>1. /\ sender[q] \in SenderState /\ sender \in [Queue -> SenderState]
      /\ queue[q] \in Seq(Message) /\ queue \in [Queue -> Seq(Message)]
      /\ left[q] \in Nat /\ left \in [Queue -> Nat]
  BY DEF Typed, QueueTypes
<1>2. back \in SenderState /\ \A pc \in SenderPc : at(pc) \in SenderState
  BY <1>1 DEF SenderState, SenderPc
<1>3. \A pc \in SenderPc : Goto(q, pc) => sender' = [sender EXCEPT ![q] = at(pc)]
  BY <1>1 DEF Goto, SenderState
<1>4. queue = [queue EXCEPT ![q] = queue[q]] /\ left = [left EXCEPT ![q] = @ + 0]
  BY <1>1
<1>5. {"find", "index", "check", "requeue", "send", "arm", "lock"} \subseteq SenderPc
  BY DEF SenderPc
<1>6. CASE WakeSpuriously(q)
  <2>1. SenderSteps(q, back, queue[q], 0) /\ Awake(q, back, queue[q], 0)
    BY <1>4, <1>6 DEF WakeSpuriously, Again, At, produced, SenderSteps, Awake
  <2> QED
    BY <1>1, <1>2, <2>1
<1>7. CASE Take(q)
  <2> DEFINE r == [pc |-> "find", msg |-> Head(queue[q])]
  <2>1. Head(queue[q]) \in Message /\ Tail(queue[q]) \in Seq(Message)
    BY <1>1, <1>7, HeadTail DEF Take
  <2>2. r \in SenderState
    BY <2>1 DEF SenderState, SenderPc
  <2>3. SenderSteps(q, r, Tail(queue[q]), 0) /\ Awake(q, r, Tail(queue[q]), 0)
    BY <1>4, <1>7 DEF Take, At, produced, SenderSteps, Awake
  <2> HIDE DEF r
  <2> QED
    BY <2>1, <2>2, <2>3
<1>8. CASE Drop(q)
  <2>1. SenderSteps(q, back, queue[q], 1) /\ Awake(q, back, queue[q], 1)
    BY <1>4, <1>8 DEF Drop, Leaves, Again, At, produced, SenderSteps, Awake
  <2> QED
    BY <1>1, <1>2, <2>1
<1>9. CASE Find(q)
  <2>1. SenderSteps(q, at("index"), queue[q], 0) /\ Awake(q, at("index"), queue[q], 0)
    BY <1>3, <1>4, <1>5, <1>9 DEF Find, At, produced, SenderSteps, Awake
  <2> QED
    BY <1>1, <1>2, <1>5, <2>1
<1>10. CASE Index(q)
  <2>1. CASE sender[q].msg.key \in known
    <3>1. SenderSteps(q, at("check"), queue[q], 0) /\ Awake(q, at("check"), queue[q], 0)
      BY <1>3, <1>4, <1>5, <1>10, <2>1 DEF Index, At, produced, SenderSteps, Awake
    <3> QED
      BY <1>1, <1>2, <1>5, <3>1
  <2>2. CASE sender[q].msg.key \notin known
    BY <1>10, <2>2 DEF Index, Crash, Quiet, core, produced
  <2> QED
    BY <2>1, <2>2
<1>11. CASE Postpone(q)
  <2>1. SenderSteps(q, at("requeue"), queue[q], 0) /\ Awake(q, at("requeue"), queue[q], 0)
    BY <1>3, <1>4, <1>5, <1>11 DEF Postpone, At, produced, SenderSteps, Awake
  <2> QED
    BY <1>1, <1>2, <1>5, <2>1
<1>12. CASE Requeue(q)
  <2> DEFINE s == Append(queue[q], sender[q].msg)
  <2>1. s \in Seq(Message)
    <3>1. sender[q].msg \in Message
      BY <1>12 DEF Requeue, At, Typed, HaveMessage
    <3> QED
      BY <1>1, <3>1
  <2>2. SenderSteps(q, back, s, 0) /\ Awake(q, back, s, 0)
    BY <1>4, <1>12 DEF Requeue, Again, At, produced, SenderSteps, Awake
  <2> HIDE DEF s
  <2> QED
    BY <1>2, <2>1, <2>2
<1>13. CASE Load(q)
  <2>1. SenderSteps(q, at("send"), queue[q], 1) /\ Awake(q, at("send"), queue[q], 1)
    BY <1>3, <1>4, <1>5, <1>13 DEF Load, Leaves, At, produced, SenderSteps, Awake
  <2> QED
    BY <1>1, <1>2, <1>5, <2>1
<1>14. CASE Send(q)
  <2>1. CASE Killed(To(q))
    BY <2>1, ConnectionSteps DEF Killed, Crash, Quiet, core, produced
  <2>2. CASE Again(q) /\ ~ Killed(To(q))
    <3>1. SenderSteps(q, back, queue[q], 0) /\ Awake(q, back, queue[q], 0)
      BY <1>4, <1>14, <2>2 DEF Send, Again, At, produced, SenderSteps, Awake
    <3> QED
      BY <1>1, <1>2, <3>1
  <2>3. CASE Goto(q, "arm") /\ ~ Killed(To(q))
    <3>1. SenderSteps(q, at("arm"), queue[q], 0) /\ Awake(q, at("arm"), queue[q], 0)
      BY <1>3, <1>4, <1>5, <1>14, <2>3 DEF Send, At, produced, SenderSteps, Awake
    <3> QED
      BY <1>1, <1>2, <1>5, <3>1
  <2> QED
    BY <1>14, <2>1, <2>2, <2>3 DEF Send
<1>15. CASE Arm(q)
  <2>1. SenderSteps(q, back, queue[q], 0) /\ Awake(q, back, queue[q], 0)
    BY <1>4, <1>15 DEF Arm, Again, At, produced, SenderSteps, Awake
  <2> QED
    BY <1>1, <1>2, <2>1
<1> QED
  BY <1>6, <1>7, <1>8, <1>9, <1>10, <1>11, <1>12, <1>13, <1>14, <1>15 DEF SenderStep

LEMMA AwakeTyped ==
  ASSUME NEW q \in Queue, NEW r \in SenderState, NEW s \in Seq(Message), NEW n \in {0, 1},
         Typed, NoLostWakeup, SenderSteps(q, r, s, n), Awake(q, r, s, n)
  PROVE  Typed' /\ NoLostWakeup'
<1>1. /\ left \in [Queue -> Nat] /\ left' = [left EXCEPT ![q] = @ + n]
      /\ queue[q] \in Seq(Message)
  BY DEF Typed, QueueTypes, SenderSteps
<1>2. left' \in [Queue -> Nat]
  BY <1>1
<1>3. sender[q].pc \notin {"lock", "wait"} => sender[q].msg \in Message
  BY DEF Typed, HaveMessage
<1>4. queue[q] # <<>> => Head(queue[q]) \in Message
  BY <1>1, HeadTail
<1>5. r.pc # "wait" /\ (r.pc # "lock" => r.msg \in Message)
  BY <1>3, <1>4 DEF Awake
<1> QED
  BY <1>2, <1>5, SenderTyped DEF SenderSteps

LEMMA StepTyped == ASSUME Typed, NoLostWakeup, [Next]_vars PROVE Typed' /\ NoLostWakeup'
<1>1. CASE UNCHANGED vars
  BY <1>1, ConnectionSteps, QuietTyped
<1>2. ASSUME NEW t \in Producer, CallStep(t) PROVE Typed' /\ NoLostWakeup'
  BY <1>2, PushTyped, NotifyTyped DEF CallStep
<1>3. ASSUME NEW t \in Producer, NEW k \in Key, HangUp(t, k) PROVE Typed' /\ NoLostWakeup'
  BY <1>3, ConnectionSteps, QuietTyped
<1>4. ASSUME NEW t \in Producer, NEW k \in Key, NEW q \in Queue, MsgSend(t, q, k)
      PROVE  Typed' /\ NoLostWakeup'
  BY <1>4, MsgSendTyped
<1>5. ASSUME NEW u \in User, ForwardHangsUp(u) PROVE Typed' /\ NoLostWakeup'
  BY <1>5, ConnectionSteps, QuietTyped
<1>6. ASSUME NEW c \in Conn, PeerResets(c) \/ Flush(c) \/ PeerShutsDown(c)
      PROVE  Typed' /\ NoLostWakeup'
  BY <1>6, ConnectionSteps, QuietTyped, FlushSteps, FlushTyped
<1>7. CASE Flushed
  BY <1>7, FlushTyped
<1>8. ASSUME NEW q \in Queue, SenderStep(q) \/ WakeSpuriously(q)
      PROVE  Typed' /\ NoLostWakeup'
  BY <1>8, AwakeSteps, SleepTyped, QuietTyped, AwakeTyped
<1> QED
  BY <1>1, <1>2, <1>3, <1>4, <1>5, <1>6, <1>7, <1>8 DEF Next

LEMMA InitTyped == ASSUME Init PROVE Typed /\ NoLostWakeup
<1>1. [pc |-> "lock", msg |-> Nothing] \in SenderState
  BY DEF SenderState, SenderPc
<1>2. QueueTypes
  BY <1>1, NoCallType, BoundAssumption DEF Init, QueueTypes
<1> QED
  BY <1>2, NoCallType DEF Init, Typed, HaveMessage, NoLostWakeup

\* Whatever the sizes and limits: a sender thread never sleeps on a message
\* that nobody is about to announce.
THEOREM NoWakeupLost == Spec => []NoLostWakeup
<1>1. Init => Typed /\ NoLostWakeup
  BY InitTyped
<1>2. (Typed /\ NoLostWakeup) /\ [Next]_vars => (Typed /\ NoLostWakeup)'
  BY StepTyped
<1> QED
  BY <1>1, <1>2, PTL DEF Spec

-----------------------------------------------------------------------------
(* What each step does to the messages kept in a queue. *)

\* Steps that leave a queue, and its sender, alone.
LEMMA AloneEffect ==
  ASSUME NEW q \in Queue, queue'[q] = queue[q], sender'[q] = sender[q],
         UNCHANGED <<mutex, left>>
  PROVE  Effect(q)
BY DEF Effect, Same, Kept, InHand

LEMMA NotifyEffect ==
  ASSUME NEW t \in Producer, NEW q \in Queue, Typed, Notify(t)
  PROVE  Effect(q)
<1>1. /\ sender \in [Queue -> SenderState] /\ sender[q] \in SenderState
      /\ UNCHANGED <<queue, mutex, left>>
  BY DEF Notify, Typed, QueueTypes
<1>2. CASE sender'[q] = sender[q]
  BY <1>1, <1>2, AloneEffect
<1>3. CASE sender[q].pc = "wait" /\ sender' = [sender EXCEPT ![q].pc = "lock"]
  <2>1. sender'[q].pc = "lock"
    BY <1>1, <1>3 DEF SenderState
  <2> QED
    BY <1>1, <1>3, <2>1 DEF Effect, Same, Kept, InHand
<1> QED
  BY <1>1, <1>2, <1>3 DEF Notify

LEMMA PushEffect ==
  ASSUME NEW t \in Producer, NEW q \in Queue, Typed, Push(t)
  PROVE  Effect(q)
<1>1. /\ call[t] \in CallState /\ call \in [Producer -> CallState] /\ call[t].pc = "push"
      /\ mutex \in [Queue -> {"free"} \cup Producer] /\ queue \in [Queue -> Seq(Message)]
      /\ UNCHANGED <<sender, left>> /\ mutex[call[t].q] = "free" /\ call[t].msg \in Message
  BY DEF Push, Typed, QueueTypes, HaveMessage
<1>2. Len(queue[q]) \in Nat /\ queue[q] \in Seq(Message) /\ MaxSend \in Nat
  BY <1>1, LimitAssumption
<1>3. CASE call[t].q # q
  <2>1. queue'[q] = queue[q] /\ mutex'[q] = mutex[q]
    BY <1>1, <1>3 DEF Push
  <2> QED
    BY <1>1, <2>1 DEF Effect, Same, Kept, InHand
<1>4. CASE call[t].q = q /\ Len(queue[q]) > MaxSend
  <2>1. mutex'[q] = t /\ queue' = queue
    BY <1>1, <1>4 DEF Push
  <2>2. Len(Kept(q)) >= MaxSend + 1
    <3>1. InHand(q) => sender[q].msg \in Message
      BY DEF Typed, HaveMessage, InHand
    <3>2. CASE InHand(q)
      BY <1>2, <1>4, <3>1, <3>2, InFront DEF Kept
    <3>3. CASE ~ InHand(q)
      BY <1>2, <1>4, <3>3 DEF Kept
    <3> QED
      BY <3>2, <3>3
  <2> QED
    BY <1>1, <1>4, <2>1, <2>2 DEF Effect, Jammed, Same, Kept, InHand
<1>5. CASE call[t].q = q /\ ~ (Len(queue[q]) > MaxSend)
  <2> DEFINE m == call[t].msg
  <2>1. queue'[q] = Append(queue[q], m) /\ mutex' = mutex /\ call'[t].pc = "notify"
    BY <1>1, <1>5 DEF Push, CallState
  <2>2. InHand(q) => sender[q].msg \in Message
    BY DEF Typed, HaveMessage, InHand
  <2>3. Len(Kept(q)) < MaxSend + 2 /\ Kept(q)' = Append(Kept(q), m)
    <3>1. CASE InHand(q)
      BY <1>1, <1>2, <1>5, <2>1, <2>2, <3>1, InFront DEF Kept, InHand
    <3>2. CASE ~ InHand(q)
      BY <1>1, <1>2, <1>5, <2>1, <3>2 DEF Kept, InHand
    <3> QED
      BY <3>1, <3>2
  <2> QED
    BY <1>1, <1>5, <2>1, <2>3 DEF Effect, Pushed
<1> QED
  BY <1>3, <1>4, <1>5

\* The sender of q at work, and the other queue.
LEMMA AwakeEffect ==
  ASSUME NEW q \in Queue, NEW r \in SenderState, NEW s \in Seq(Message), NEW n \in {0, 1},
         Typed, SenderSteps(q, r, s, n), Awake(q, r, s, n), NEW x \in Queue
  PROVE  Effect(x)
<1> DEFINE m == sender[q].msg
<1>1. /\ sender \in [Queue -> SenderState] /\ queue \in [Queue -> Seq(Message)]
      /\ queue[q] \in Seq(Message) /\ left \in [Queue -> Nat] /\ left[q] \in Nat
  BY DEF Typed, QueueTypes
<1>2. /\ sender'[q] = r /\ queue'[q] = s /\ left'[q] = left[q] + n /\ mutex' = mutex
      /\ x # q => sender'[x] = sender[x] /\ queue'[x] = queue[x] /\ left'[x] = left[x]
  BY <1>1 DEF SenderSteps
<1>3. CASE x # q
  BY <1>2, <1>3 DEF Effect, Same, Kept, InHand
<1>4. InHand(q) => m \in Message
  BY DEF Typed, HaveMessage, InHand
<1>5. Kept(q)' = IF r.pc \in {"find", "index", "check", "requeue"} THEN <<r.msg>> \o s ELSE s
  BY <1>2 DEF Kept, InHand
<1>6. ASSUME sender[q].pc \in {"wait", "send", "arm"} PROVE Effect(q)
  <2>1. ~ InHand(q) /\ Kept(q)' = queue[q] /\ n = 0
    BY <1>5, <1>6 DEF Awake, InHand
  <2>2. Kept(q)' = Kept(q) /\ left'[q] = left[q]
    BY <1>1, <1>2, <2>1 DEF Kept
  <2> QED
    BY <1>2, <2>2 DEF Effect, Same
<1>7. ASSUME sender[q].pc = "lock" PROVE Effect(q)
  <2>1. /\ r = [pc |-> "find", msg |-> Head(queue[q])] /\ s = Tail(queue[q])
        /\ n = 0 /\ queue[q] # <<>> /\ ~ InHand(q)
    BY <1>7 DEF Awake, InHand
  <2>2. r.pc = "find" /\ r.msg = Head(queue[q])
    BY <2>1
  <2>3. Kept(q)' = <<Head(queue[q])>> \o Tail(queue[q])
    BY <1>5, <2>1, <2>2
  <2>4. Kept(q)' = Kept(q) /\ left'[q] = left[q]
    BY <1>1, <1>2, <2>1, <2>3, HeadTail DEF Kept
  <2> QED
    BY <1>2, <2>4 DEF Effect, Same
<1>8. ASSUME InHand(q) PROVE Effect(q)
  <2>1. Kept(q) = <<m>> \o queue[q]
    BY <1>8 DEF Kept
  <2>2. /\ Kept(q) # <<>> /\ Head(Kept(q)) = m /\ Tail(Kept(q)) = queue[q]
    <3>1. m \in Message /\ queue[q] \in Seq(Message)
      BY <1>1, <1>4, <1>8
    <3> HIDE DEF m
    <3> QED
      BY <2>1, <3>1, InFront
  <2>3. \/ Kept(q)' = <<m>> \o queue[q] /\ n = 0
        \/ Kept(q)' = queue[q] /\ n = 1
        \/ Kept(q)' = Append(queue[q], m) /\ n = 0 /\ mutex[q] = "free"
    BY <1>5, <1>8 DEF Awake, InHand
  <2>4. left'[q] = left[q] + n /\ left[q] + 0 = left[q] /\ mutex' = mutex
    BY <1>1, <1>2
  <2>5. CASE Kept(q)' = <<m>> \o queue[q] /\ n = 0
    BY <2>1, <2>4, <2>5 DEF Effect, Same
  <2>6. CASE Kept(q)' = queue[q] /\ n = 1
    BY <2>2, <2>4, <2>6 DEF Effect, Shrunk
  <2>7. CASE Kept(q)' = Append(queue[q], m) /\ n = 0 /\ mutex[q] = "free"
    BY <2>2, <2>4, <2>7 DEF Effect, Rotated
  <2> QED
    BY <2>3, <2>5, <2>6, <2>7
<1>9. Effect(q)
  BY <1>6, <1>7, <1>8 DEF Awake, InHand
<1> QED
  BY <1>3, <1>9

LEMMA StepEffect ==
  ASSUME Typed, NoLostWakeup, [Next]_vars, NEW x \in Queue
  PROVE  Effect(x)
<1>1. CASE Quiet
  BY <1>1, AloneEffect DEF Quiet, core
<1>2. ASSUME NEW t \in Producer, CallStep(t) PROVE Effect(x)
  BY <1>2, PushEffect, NotifyEffect DEF CallStep
<1>3. ASSUME NEW t \in Producer, NEW k \in Key, NEW q \in Queue, MsgSend(t, q, k)
      PROVE  Effect(x)
  BY <1>3, AloneEffect DEF MsgSend
<1>4. CASE FlushStep \/ Flushed
  BY <1>4, AloneEffect DEF FlushStep, Flushed
<1>5. ASSUME NEW q \in Queue, Sleep(q) PROVE Effect(x)
  <2>1. UNCHANGED <<queue, mutex, left>> /\ ~ InHand(q) /\ sender \in [Queue -> SenderState]
    BY <1>5 DEF Sleep, At, InHand, Typed, QueueTypes
  <2>2. sender'[q].pc = "wait" /\ (x # q => sender'[x] = sender[x])
    BY <1>5, <2>1 DEF Sleep, Goto, SenderState
  <2> QED
    BY <2>1, <2>2 DEF Effect, Same, Kept, InHand
<1>6. ASSUME NEW q \in Queue, SenderStep(q) \/ WakeSpuriously(q) PROVE Effect(x)
  BY <1>1, <1>5, <1>6, AwakeSteps, AwakeEffect
<1>7. ASSUME NEW c \in Conn, PeerResets(c) \/ Flush(c) \/ PeerShutsDown(c) PROVE Effect(x)
  BY <1>1, <1>4, <1>7, ConnectionSteps, FlushSteps
<1>8. ASSUME NEW t \in Producer, NEW k \in Key, HangUp(t, k) PROVE Effect(x)
  BY <1>1, <1>8, ConnectionSteps
<1>9. CASE (\E u \in User : ForwardHangsUp(u)) \/ UNCHANGED vars
  BY <1>1, <1>9, ConnectionSteps
<1> QED
  BY <1>2, <1>3, <1>4, <1>6, <1>7, <1>8, <1>9 DEF Next

-----------------------------------------------------------------------------
(* Messages are pushed once. *)

\* No call comes to its push, but by MsgSend.
NoNewPush ==
  /\ offered' = offered
  /\ \A t \in Producer : call'[t].pc = "push" => call'[t] = call[t]

LEMMA Pushes ==
  ASSUME Typed, [Next]_vars
  PROVE  NoNewPush \/ \E t \in Producer, q \in Queue, k \in Key : MsgSend(t, q, k)
<1>1. /\ call \in [Producer -> CallState] /\ NoCall.pc = "idle" /\ "main" \in Producer
  BY NoCallType DEF Typed, QueueTypes, Producer
<1>2. ASSUME Quiet PROVE NoNewPush
  BY <1>2 DEF Quiet, core, NoNewPush
<1>3. ASSUME NEW t \in Producer, CallStep(t) PROVE NoNewPush
  <2>1. CASE Notify(t)
    BY <1>1, <2>1 DEF Notify, NoNewPush
  <2>2. CASE Push(t)
    <3>1. offered' = offered
      BY <2>2 DEF Push
    <3>2. call'[t].pc \in {"idle", "notify"} /\ \A u \in Producer : u # t => call'[u] = call[u]
      BY <1>1, <2>2 DEF Push, CallState
    <3> QED
      BY <3>1, <3>2 DEF NoNewPush
  <2> QED
    BY <1>3, <2>1, <2>2 DEF CallStep
<1>4. ASSUME FlushStep PROVE NoNewPush
  <2>1. call'["main"].pc = "flushed" /\ \A u \in Producer : u # "main" => call'[u] = call[u]
    BY <1>1, <1>4 DEF FlushStep, CallState
  <2> QED
    BY <1>4, <2>1 DEF FlushStep, NoNewPush
<1>5. CASE Flushed
  BY <1>1, <1>5 DEF Flushed, NoNewPush
<1>6. ASSUME NEW q \in Queue, SenderStep(q) \/ WakeSpuriously(q) PROVE NoNewPush
  <2>1. Sleep(q) => UNCHANGED <<call, offered>>
    BY DEF Sleep, produced
  <2> QED
    BY <1>2, <1>6, <2>1, AwakeSteps DEF SenderSteps, NoNewPush
<1>7. ASSUME NEW c \in Conn, PeerResets(c) \/ Flush(c) \/ PeerShutsDown(c) PROVE NoNewPush
  BY <1>2, <1>4, <1>7, ConnectionSteps, FlushSteps
<1>8. ASSUME NEW t \in Producer, NEW k \in Key, HangUp(t, k) PROVE NoNewPush
  BY <1>2, <1>8, ConnectionSteps
<1>9. CASE (\E u \in User : ForwardHangsUp(u)) \/ UNCHANGED vars
  BY <1>2, <1>9, ConnectionSteps
<1> QED
  BY <1>3, <1>5, <1>6, <1>7, <1>8, <1>9 DEF Next

\* Where an element of a sequence appended to, or rotated, comes from.
LEMMA Appended ==
  ASSUME NEW S, NEW s \in Seq(S), NEW x \in S
  PROVE  \A i \in 1 .. Len(Append(s, x)) :
           Append(s, x)[i] = x \/ (i \in 1 .. Len(s) /\ Append(s, x)[i] = s[i])
<1>1. /\ Len(Append(s, x)) = Len(s) + 1 /\ Len(s) \in Nat
      /\ \A j \in 1 .. Len(s) : Append(s, x)[j] = s[j]
      /\ Append(s, x)[Len(s) + 1] = x
  BY AppendProperties
<1>2. \A i \in 1 .. Len(Append(s, x)) : i = Len(s) + 1 \/ i \in 1 .. Len(s)
  BY <1>1
<1> QED
  BY <1>1, <1>2

LEMMA RotatedElement ==
  ASSUME NEW S, NEW s \in Seq(S), s # <<>>, NEW i \in 1 .. Len(Append(Tail(s), Head(s)))
  PROVE  \E j \in 1 .. Len(s) : Append(Tail(s), Head(s))[i] = s[j]
<1> DEFINE t == Tail(s)
           x == Head(s)
<1>1. /\ t \in Seq(S) /\ x \in S /\ Len(s) \in Nat \ {0}
      /\ Len(t) = Len(s) - 1 /\ x = s[1] /\ 1 \in 1 .. Len(s)
      /\ \A k \in 1 .. Len(t) : k + 1 \in 1 .. Len(s) /\ t[k] = s[k + 1]
  OBVIOUS
<1> SUFFICES \E j \in 1 .. Len(s) : Append(t, x)[i] = s[j]
  OBVIOUS
<1> i \in 1 .. Len(Append(t, x))
  OBVIOUS
<1> HIDE DEF t, x
<1>2. Append(t, x)[i] = x \/ (i \in 1 .. Len(t) /\ Append(t, x)[i] = t[i])
  BY <1>1, Appended
<1> QED
  BY <1>1, <1>2

\* A message just pushed is the only new one in its queue.
LEMMA NumbersStep ==
  ASSUME Typed, NEW q \in Queue, Effect(q), NEW n \in Numbers(q)'
  PROVE  \/ n \in Numbers(q)
         \/ \E t \in Producer : call[t].pc = "push" /\ call'[t].pc # "push" /\ n = call[t].msg.n
<1> DEFINE old == Kept(q)
           new == Kept(q)'
<1>1. old \in Seq(Message) /\ Len(old) \in Nat
  BY KeptType
<1>2. PICK i \in 1 .. Len(new) : n = new[i].n
  BY DEF Numbers
<1>3. \A j \in 1 .. Len(old) : old[j].n \in Numbers(q)
  BY DEF Numbers
<1> HIDE DEF old, new
<1>4. CASE new = old
  BY <1>2, <1>3, <1>4
<1>5. CASE old # <<>> /\ new = Tail(old)
  <2>1. i + 1 \in 1 .. Len(old) /\ new[i] = old[i + 1]
    BY <1>1, <1>2, <1>5
  <2> QED
    BY <1>2, <1>3, <2>1
<1>6. CASE old # <<>> /\ new = Append(Tail(old), Head(old))
  <2>1. \E j \in 1 .. Len(old) : Append(Tail(old), Head(old))[i] = old[j]
    BY <1>1, <1>2, <1>6, RotatedElement, Zenon
  <2> QED
    BY <1>2, <1>3, <1>6, <2>1
<1>7. ASSUME NEW t \in Producer, Pushed(q, t), new = Append(old, call[t].msg)
      PROVE  n \in Numbers(q) \/ (call[t].pc = "push" /\ call'[t].pc # "push" /\ n = call[t].msg.n)
  <2>1. call[t].msg \in Message
    BY <1>7 DEF Pushed, Typed, HaveMessage
  <2>2. new[i] = call[t].msg \/ (i \in 1 .. Len(old) /\ new[i] = old[i])
    BY <1>1, <1>2, <1>7, <2>1, Appended
  <2>3. call[t].pc = "push" /\ call'[t].pc # "push"
    BY <1>7 DEF Pushed
  <2> QED
    BY <1>2, <1>3, <2>2, <2>3
<1>8. \/ new = old
      \/ old # <<>> /\ (new = Tail(old) \/ new = Append(Tail(old), Head(old)))
      \/ \E t \in Producer : Pushed(q, t) /\ new = Append(old, call[t].msg)
  BY DEF Effect, Same, Pushed, Jammed, Rotated, Shrunk, old, new
<1> QED
  BY <1>4, <1>5, <1>6, <1>7, <1>8

LEMMA FreshStep ==
  ASSUME Typed, Typed', Fresh, [Next]_vars, \A q \in Queue : Effect(q)
  PROVE  Fresh'
<1>1. ASSUME NoNewPush PROVE Fresh'
  <2>1. ASSUME NEW q \in Queue, NEW n \in Numbers(q)' PROVE n <= offered'
    BY <1>1, <2>1, NumbersStep DEF Fresh, NoNewPush
  <2>2. ASSUME NEW t \in Producer, call'[t].pc = "push"
        PROVE  /\ call'[t].msg.n <= offered'
               /\ \A q \in Queue : call'[t].msg.n \notin Numbers(q)'
               /\ \A u \in Producer : call'[u].pc = "push" /\ call'[u].msg.n = call'[t].msg.n
                                      => u = t
    <3>1. call'[t] = call[t] /\ call[t].pc = "push"
      BY <1>1, <2>2 DEF NoNewPush
    <3>2. ASSUME NEW q \in Queue, call[t].msg.n \in Numbers(q)' PROVE FALSE
      <4>1. call[t].msg.n \notin Numbers(q)
        BY <3>1 DEF Fresh
      <4>2. PICK u \in Producer : /\ call[u].pc = "push" /\ call'[u].pc # "push"
                                  /\ call[t].msg.n = call[u].msg.n
        BY <3>2, <4>1, NumbersStep
      <4>3. u = t
        BY <3>1, <4>2 DEF Fresh
      <4> QED
        BY <2>2, <4>2, <4>3
    <3> QED
      BY <1>1, <3>1, <3>2 DEF Fresh, NoNewPush
  <2> QED
    BY <2>1, <2>2 DEF Fresh
<1>2. ASSUME NEW t \in Producer, NEW p \in Queue, NEW k \in Key, MsgSend(t, p, k)
      PROVE  Fresh'
  <2>1. /\ offered' = offered + 1 /\ offered \in Nat /\ UNCHANGED <<queue, sender>>
        /\ call \in [Producer -> CallState] /\ call[t].pc = "idle"
    BY <1>2, BoundAssumption DEF MsgSend, Idle, Typed, QueueTypes
  <2>2. \A q \in Queue : Numbers(q)' = Numbers(q)
    BY <2>1 DEF Numbers, Kept, InHand
  <2>3. \A q \in Queue : \A n \in Numbers(q) : n \in Int
    <3> SUFFICES ASSUME NEW q \in Queue, NEW i \in 1 .. Len(Kept(q)) PROVE Kept(q)[i].n \in Int
      BY DEF Numbers
    <3>1. Kept(q)[i] \in Message
      BY KeptType
    <3> QED
      BY <3>1, BoundAssumption DEF Message
  <2>4. \A u \in Producer : call[u].pc = "push" => call[u].msg.n \in Int
    BY BoundAssumption DEF Typed, HaveMessage, Message
  <2>5. \/ call' = call
        \/ /\ call'[t].msg.n = offered' /\ call'[t].pc = "push"
           /\ \A u \in Producer : u # t => call'[u] = call[u]
    BY <1>2, <2>1 DEF MsgSend
  <2>6. CASE call' = call
    BY <2>1, <2>2, <2>3, <2>4, <2>6 DEF Fresh
  <2>7. CASE /\ call'[t].msg.n = offered' /\ call'[t].pc = "push"
             /\ \A u \in Producer : u # t => call'[u] = call[u]
    <3>1. \A q \in Queue : \A n \in Numbers(q) : n <= offered /\ n \in Int
      BY <2>3 DEF Fresh
    <3>2. \A u \in Producer : u # t /\ call[u].pc = "push"
                              => call[u].msg.n <= offered /\ call[u].msg.n \in Int
      BY <2>4 DEF Fresh
    <3>3. \A q \in Queue : \A n \in Numbers(q)' : n <= offered'
      BY <2>1, <2>2, <3>1
    <3>4. ASSUME NEW u \in Producer, call'[u].pc = "push"
          PROVE  /\ call'[u].msg.n <= offered'
                 /\ \A q \in Queue : call'[u].msg.n \notin Numbers(q)'
                 /\ \A v \in Producer : call'[v].pc = "push" /\ call'[v].msg.n = call'[u].msg.n
                                        => v = u
      <4>1. CASE u = t
        BY <2>1, <2>2, <2>7, <3>1, <3>2, <3>4, <4>1
      <4>2. CASE u # t
        <5>1. call'[u] = call[u] /\ call[u].msg.n # offered'
          BY <2>1, <2>7, <3>2, <3>4, <4>2
        <5> QED
          BY <2>1, <2>2, <2>7, <3>2, <3>4, <4>2, <5>1 DEF Fresh
      <4> QED
        BY <4>1, <4>2
    <3> QED
      BY <3>3, <3>4 DEF Fresh
  <2> QED
    BY <2>5, <2>6, <2>7
<1> QED
  BY <1>1, <1>2, Pushes

-----------------------------------------------------------------------------
(* Each queue is the Outbox. *)

\* Outbox's actions on queue q, with the mapping of StSBox and StUBox.
BoxAccept(q) ==
  /\ mutex[q] \notin Producer /\ Len(Kept(q)) < MaxSend + 2
  /\ left'[q] = left[q] /\ (mutex'[q] \in Producer) = (mutex[q] \in Producer)
  /\ \E m \in Message : /\ \A i \in 1 .. Len(Kept(q)) : Kept(q)[i] # m
                        /\ Kept(q)' = Append(Kept(q), m)

LEMMA PushedAccepts ==
  ASSUME Typed, Fresh, NEW q \in Queue, NEW t \in Producer, Pushed(q, t)
  PROVE  BoxAccept(q)
<1>1. call[t].msg \in Message
  BY DEF Pushed, Typed, HaveMessage
<1>2. \A i \in 1 .. Len(Kept(q)) : Kept(q)[i] # call[t].msg
  BY DEF Fresh, Numbers, Pushed
<1>3. mutex[q] \notin Producer
  BY DEF Pushed, Producer
<1> QED
  BY <1>1, <1>2, <1>3 DEF BoxAccept, Pushed

LEMMA StSStep == ASSUME Typed, Fresh, Effect("StS") PROVE [StSBox!Next]_(StSBox!vars)
<1> DEFINE q == "StS"
<1>1. q \in Queue /\ "free" \notin Producer
  BY DEF Queue, Producer
<1>2. CASE Same(q) /\ mutex'[q] = mutex[q]
  BY <1>2 DEF Same, StSBox!vars
<1>3. ASSUME NEW t \in Producer, Pushed(q, t) PROVE StSBox!Next
  BY <1>1, <1>3, PushedAccepts DEF BoxAccept, StSBox!Next, StSBox!Accept
<1>4. CASE Jammed(q)
  BY <1>1, <1>4 DEF Jammed, Same, StSBox!Next, StSBox!Jam
<1>5. CASE Rotated(q)
  BY <1>1, <1>5 DEF Rotated, StSBox!Next, StSBox!Postpone
<1>6. CASE Shrunk(q)
  BY <1>6 DEF Shrunk, StSBox!Next, StSBox!Leave
<1> QED
  BY <1>2, <1>3, <1>4, <1>5, <1>6 DEF Effect

LEMMA StUStep == ASSUME Typed, Fresh, Effect("StU") PROVE [StUBox!Next]_(StUBox!vars)
<1> DEFINE q == "StU"
<1>1. q \in Queue /\ "free" \notin Producer
  BY DEF Queue, Producer
<1>2. CASE Same(q) /\ mutex'[q] = mutex[q]
  BY <1>2 DEF Same, StUBox!vars
<1>3. ASSUME NEW t \in Producer, Pushed(q, t) PROVE StUBox!Next
  BY <1>1, <1>3, PushedAccepts DEF BoxAccept, StUBox!Next, StUBox!Accept
<1>4. CASE Jammed(q)
  BY <1>1, <1>4 DEF Jammed, Same, StUBox!Next, StUBox!Jam
<1>5. CASE Rotated(q)
  BY <1>1, <1>5 DEF Rotated, StUBox!Next, StUBox!Postpone
<1>6. CASE Shrunk(q)
  BY <1>6 DEF Shrunk, StUBox!Next, StUBox!Leave
<1> QED
  BY <1>2, <1>3, <1>4, <1>5, <1>6 DEF Effect

LEMMA InitBoxes == ASSUME Init PROVE Fresh /\ StSBox!Init /\ StUBox!Init
<1>1. \A q \in Queue : Kept(q) = <<>> /\ left[q] = 0 /\ mutex[q] \notin Producer
  BY DEF Init, Kept, InHand, Producer
<1>2. Fresh
  BY <1>1, NoCallType DEF Init, Fresh, Numbers
<1> QED
  BY <1>1, <1>2 DEF StSBox!Init, StUBox!Init, Queue

LEMMA StepInv ==
  ASSUME Inv, NoLostWakeup, [Next]_vars
  PROVE  /\ Inv' /\ NoLostWakeup'
         /\ [StSBox!Next]_(StSBox!vars) /\ [StUBox!Next]_(StUBox!vars)
<1>1. Typed' /\ NoLostWakeup' /\ \A q \in Queue : Effect(q)
  BY StepTyped, StepEffect DEF Inv
<1>2. Fresh'
  BY <1>1, FreshStep DEF Inv
<1> QED
  BY <1>1, <1>2, StSStep, StUStep DEF Inv, Queue

\* Whatever breaks, resets and short sends happen, each queue neither loses nor
\* doubles a message it accepted, keeps at most m_MAX_Send + 2, and reorders
\* only by putting its first message last.
THEOREM QueuesAreOutboxes == Spec => ImplementsOutbox
<1>1. Init => Inv /\ NoLostWakeup /\ StSBox!Init /\ StUBox!Init
  BY InitTyped, InitBoxes DEF Inv
<1>2. (Inv /\ NoLostWakeup) /\ [Next]_vars
      => /\ (Inv /\ NoLostWakeup)'
         /\ [StSBox!Next]_(StSBox!vars) /\ [StUBox!Next]_(StUBox!vars)
  BY StepInv
<1> QED
  BY <1>1, <1>2, PTL DEF Spec, ImplementsOutbox, StSBox!Spec, StUBox!Spec

-----------------------------------------------------------------------------
(* The fields of the connections. *)

Fields ==
  /\ known \subseteq Key /\ open \subseteq Conn /\ reset \subseteq Conn
  /\ req \in [Conn -> Int] /\ throw \in [Conn -> Int]
  /\ out \in [Conn -> BOOLEAN]
  /\ shorts \in 0 .. MaxShort /\ breaks \in 0 .. MaxBreaks

\* Only calls and senders at work have a message, and the epoll loop has a
\* connection in hand between SendProc and what it does about the result.
InHands ==
  /\ \A q \in Queue : sender[q].pc \in {"lock", "wait"} => sender[q].msg = Nothing
  /\ \A t \in Producer : call[t].pc # "push" => call[t].msg = Nothing
  /\ flush \in Conn \cup {NoConn}
  /\ call["main"].pc = "flushed" => flush \in Conn
  /\ fault \in {"none", "null connection", "SIGPIPE"}

\* Where messages go, and which queue serves whom.
LEMMA Receivers ==
  ASSUME NEW q \in Queue, NEW k \in Key
  PROVE  /\ Receiver(q, k) \in Conn /\ Forward(k) \in Conn /\ <<k, "own">> \in Conn
         /\ Receiver(q, k) \in {<<k, "own">>, Forward(k)}
         /\ q = "StS" \/ k \in User => QueueOf(Receiver(q, k)) = q
<1>1. CASE k \in User
  BY <1>1 DEF Receiver, Forward, Conn, Key, Queue, QueueOf
<1>2. CASE k \notin User
  BY <1>2 DEF Receiver, Forward, Conn, Key, Queue, QueueOf
<1> QED
  BY <1>1, <1>2

LEMMA QueueOfConn == ASSUME NEW c \in Conn PROVE QueueOf(c) \in Queue
BY DEF QueueOf, Queue

\* The message in the hands of a sender past its test.
LEMMA InSenders ==
  ASSUME Typed, NEW q \in Queue, sender[q].pc \notin {"lock", "wait"}
  PROVE  /\ sender[q].msg \in Message /\ sender[q].msg.key \in Key
         /\ sender[q].msg.n \in Nat \ {0}
         /\ To(q) \in Conn
<1>1. sender[q].msg \in Message
  BY DEF Typed, HaveMessage
<1>2. sender[q].msg.key \in Key /\ sender[q].msg.n \in Nat \ {0}
  BY <1>1, BoundAssumption DEF Message
<1> QED
  BY <1>1, <1>2, Receivers DEF To

LEMMA ReleaseTyped ==
  ASSUME Fields, NEW cs \in SUBSET Conn, Release(cs)
  PROVE  /\ open' \subseteq Conn /\ throw' \in [Conn -> Int]
         /\ out' \in [Conn -> BOOLEAN] /\ UNCHANGED <<req, reset>>
BY DEF Release, Fields

LEMMA LoadTyped == ASSUME Typed, Fields, NEW q \in Queue, Load(q) PROVE Fields'
<1>1. To(q) \in Conn
  BY InSenders DEF Load, At
<1>2. /\ req' = [req EXCEPT ![To(q)] = @ - 1]
      /\ UNCHANGED <<throw, out, shorts, known, open, reset, breaks>>
  BY DEF Load, links
<1>3. req' \in [Conn -> Int]
  BY <1>1, <1>2 DEF Fields
<1> QED
  BY <1>2, <1>3 DEF Fields

\* What the call of send() changes of a connection.
LEMMA SendsFields ==
  ASSUME Fields, NEW c \in Conn, Done \/ Short(c),
         UNCHANGED <<req, out, known, open, reset, breaks>>
  PROVE  Fields'
<1>1. CASE Done
  BY <1>1 DEF Done, Fields
<1>2. CASE Short(c)
  <2>1. /\ throw' = [throw EXCEPT ![c] = @ + 1] /\ throw \in [Conn -> Int]
        /\ shorts' = shorts + 1 /\ shorts < MaxShort /\ shorts \in 0 .. MaxShort
    BY <1>2 DEF Short, Fields
  <2>2. throw' \in [Conn -> Int] /\ shorts' \in 0 .. MaxShort
    BY <2>1, BoundAssumption
  <2> QED
    BY <2>2 DEF Fields
<1> QED
  BY <1>1, <1>2

LEMMA SendTyped == ASSUME Typed, Fields, NEW q \in Queue, Send(q) PROVE Fields'
<1>1. To(q) \in Conn
  BY InSenders DEF Send, At
<1>2. CASE Killed(To(q))
  BY <1>2 DEF Killed, Crash, fields, links, Fields
<1>3. CASE ~ Killed(To(q))
  BY <1>1, <1>3, SendsFields DEF Send, links
<1> QED
  BY <1>2, <1>3

LEMMA ArmTyped == ASSUME Typed, Fields, NEW q \in Queue, Arm(q) PROVE Fields'
<1>1. To(q) \in Conn
  BY InSenders DEF Arm, At
<1>2. /\ out' = [out EXCEPT ![To(q)] = out[To(q)] \/ To(q) \in open]
      /\ UNCHANGED <<req, throw, shorts, known, open, reset, breaks>>
  BY <1>1 DEF Arm, links
<1>3. out' \in [Conn -> BOOLEAN]
  BY <1>1, <1>2, Updated, Zenon DEF Fields
<1> QED
  BY <1>2, <1>3 DEF Fields

LEMMA FlushFields == ASSUME Fields, NEW c \in Conn, Flush(c) PROVE Fields'
<1>1. CASE Killed(c)
  BY <1>1 DEF Killed, Crash, fields, links, Fields
<1>2. CASE ~ Killed(c)
  BY <1>2, SendsFields DEF Flush, links
<1> QED
  BY <1>1, <1>2

\* What Flushed does to the connection in hand.
LEMMA FlushedDoes ==
  ASSUME Flushed
  PROVE  /\ \/ UNCHANGED <<throw, out>>
            \/ \E o \in {out[flush], FALSE} : /\ throw' = [throw EXCEPT ![flush] = @ - 1]
                                             /\ out' = [out EXCEPT ![flush] = o]
         /\ call["main"].pc = "flushed"
         /\ call' = [call EXCEPT !["main"] = NoCall] /\ flush' = NoConn
         /\ UNCHANGED <<queue, mutex, sender, left, offered, req, shorts,
                        known, open, reset, breaks, fault>>
BY DEF Flushed, links

LEMMA FlushedFields == ASSUME Fields, InHands, Flushed PROVE Fields'
<1>1. flush \in Conn
  BY FlushedDoes DEF InHands
<1>2. CASE UNCHANGED <<throw, out>>
  BY <1>2, FlushedDoes DEF Fields
<1>3. ASSUME NEW o \in {out[flush], FALSE}, throw' = [throw EXCEPT ![flush] = @ - 1],
             out' = [out EXCEPT ![flush] = o]
      PROVE  Fields'
  <2>1. throw' \in [Conn -> Int]
    BY <1>1, <1>3 DEF Fields
  <2>2. out' \in [Conn -> BOOLEAN]
    <3>1. out[flush] \in BOOLEAN
      BY <1>1 DEF Fields
    <3>2. o \in BOOLEAN
      BY <3>1
    <3> QED
      BY <1>1, <1>3, <3>2, Updated, ZenonT(30) DEF Fields
  <2> QED
    BY <2>1, <2>2, FlushedDoes DEF Fields
<1> QED
  BY <1>2, <1>3, FlushedDoes

LEMMA CloseFields ==
  ASSUME Fields, NEW k \in Key, Close(k), breaks' \in 0 .. MaxBreaks,
         UNCHANGED shorts
  PROVE  Fields'
<1>1. Release(Ends(k)) /\ Ends(k) \in SUBSET Conn /\ known' = known \ {k}
  BY DEF Close, Ends
<1> QED
  BY <1>1, ReleaseTyped DEF Fields

LEMMA BreaksBound == ASSUME Fields, Breaks PROVE breaks' \in 0 .. MaxBreaks
BY BoundAssumption DEF Fields, Breaks

\* Steps that leave the connections as they are.
Still == UNCHANGED <<fields, shorts, links>>

LEMMA StillFields == Fields /\ Still => Fields'
BY DEF Still, fields, links, Fields

LEMMA StillSteps ==
  ASSUME NEW q \in Queue,
         \/ Sleep(q) \/ Take(q) \/ Drop(q) \/ Find(q) \/ Index(q) \/ Postpone(q) \/ Requeue(q)
         \/ WakeSpuriously(q) \/ (\E t \in Producer : Notify(t)) \/ UNCHANGED vars
  PROVE  Still
BY DEF Sleep, Take, Drop, Find, Index, Postpone, Requeue, WakeSpuriously, Notify, Crash, Still, vars

LEMMA ConnectionFields ==
  ASSUME Fields,
         \/ \E t \in Producer, k \in Key : HangUp(t, k)
         \/ \E t \in Producer, q \in Queue, k \in Key : MsgSend(t, q, k)
         \/ \E u \in User : ForwardHangsUp(u)
         \/ \E c \in Conn : PeerResets(c) \/ PeerShutsDown(c)
  PROVE  Fields'
<1>1. ASSUME NEW t \in Producer, NEW k \in Key, HangUp(t, k) PROVE Fields'
  BY <1>1, CloseFields, BreaksBound DEF HangUp
<1>2. ASSUME NEW t \in Producer, NEW q \in Queue, NEW k \in Key, MsgSend(t, q, k) PROVE Fields'
  <2>1. CASE UNCHANGED <<fields, links>>
    BY <1>2, <2>1, StillFields DEF MsgSend, Still
  <2>2. CASE Close(k) /\ UNCHANGED breaks
    BY <1>2, <2>2, CloseFields DEF MsgSend, Fields
  <2> QED
    BY <1>2, <2>1, <2>2 DEF MsgSend
<1>3. ASSUME NEW u \in User, ForwardHangsUp(u) PROVE Fields'
  <2>1. /\ Release({<<u, "forward">>}) /\ <<u, "forward">> \in open
        /\ UNCHANGED <<known, shorts>>
    BY <1>3 DEF ForwardHangsUp
  <2>2. {<<u, "forward">>} \in SUBSET Conn
    BY <2>1 DEF Fields
  <2>3. breaks' \in 0 .. MaxBreaks
    BY <1>3, BreaksBound DEF ForwardHangsUp
  <2> QED
    BY <2>1, <2>2, <2>3, ReleaseTyped DEF Fields
<1>4. ASSUME NEW c \in Conn, PeerResets(c) PROVE Fields'
  BY <1>4, BreaksBound DEF PeerResets, fields, Fields
<1>5. ASSUME NEW c \in Conn, PeerShutsDown(c) PROVE Fields'
  BY <1>5 DEF PeerShutsDown, links, Fields
<1> QED
  BY <1>1, <1>2, <1>3, <1>4, <1>5

LEMMA PushFields == ASSUME Typed, Fields, NEW t \in Producer, Push(t) PROVE Fields'
<1> DEFINE c == <<call[t].msg.key, "own">>
<1>1. /\ req' = req \/ req' = [req EXCEPT ![c] = @ + 1]
      /\ UNCHANGED <<throw, out, shorts, links>>
  BY DEF Push
<1>2. c \in Conn
  <2>1. call[t].msg.key \in Key
    BY DEF Push, Typed, HaveMessage, Message
  <2> QED
    BY <2>1, Receivers DEF Queue
<1> HIDE DEF c
<1>3. req' \in [Conn -> Int]
  BY <1>1, <1>2 DEF Fields
<1> QED
  BY <1>1, <1>3 DEF Fields, links

LEMMA FieldsStep == ASSUME Typed, Fields, InHands, [Next]_vars PROVE Fields'
<1>1. ASSUME NEW q \in Queue, SenderStep(q) \/ WakeSpuriously(q) PROVE Fields'
  BY <1>1, StillSteps, StillFields, LoadTyped, SendTyped, ArmTyped DEF SenderStep
<1>2. ASSUME NEW t \in Producer, CallStep(t) PROVE Fields'
  BY <1>2, StillSteps, StillFields, PushFields DEF CallStep, Queue
<1>3. CASE UNCHANGED vars
  BY <1>3, StillSteps, StillFields DEF Queue
<1>4. CASE \E c \in Conn : Flush(c)
  BY <1>4, FlushFields
<1>5. CASE Flushed
  BY <1>5, FlushedFields
<1> QED
  BY <1>1, <1>2, <1>3, <1>4, <1>5, ConnectionFields DEF Next

\* Steps that have nothing to do with the calls of MsgSend and Write_requestHandle.
LEMMA Producing ==
  ASSUME \/ \E q \in Queue : SenderStep(q) \/ WakeSpuriously(q)
         \/ \E t \in Producer, k \in Key : HangUp(t, k)
         \/ \E u \in User : ForwardHangsUp(u)
         \/ \E c \in Conn : PeerResets(c) \/ PeerShutsDown(c) \/ Killed(c)
         \/ UNCHANGED vars
  PROVE  UNCHANGED <<call, flush>> /\ fault' \in {fault, "null connection", "SIGPIPE"}
<1>1. ASSUME NEW q \in Queue, SenderStep(q) \/ WakeSpuriously(q)
      PROVE  UNCHANGED produced /\ fault' \in {fault, "null connection", "SIGPIPE"}
  BY <1>1 DEF SenderStep, WakeSpuriously, Sleep, Take, Drop, Find, Index, Postpone, Requeue,
              Load, Send, Arm, Killed, Crash
<1>2. ASSUME \/ \E t \in Producer, k \in Key : HangUp(t, k)
             \/ \E u \in User : ForwardHangsUp(u)
             \/ \E c \in Conn : PeerResets(c) \/ PeerShutsDown(c) \/ Killed(c)
             \/ UNCHANGED vars
      PROVE  UNCHANGED produced /\ fault' \in {fault, "null connection", "SIGPIPE"}
  BY <1>2 DEF HangUp, ForwardHangsUp, PeerResets, PeerShutsDown, Killed, Crash, vars
<1> QED
  BY <1>1, <1>2 DEF produced

LEMMA SendersHands ==
  ASSUME Typed, InHands, NEW q \in Queue, SenderStep(q) \/ WakeSpuriously(q)
  PROVE  \A x \in Queue : sender'[x].pc \in {"lock", "wait"} => sender'[x].msg = Nothing
<1>1. sender \in [Queue -> SenderState]
  BY DEF Typed, QueueTypes
<1>2. CASE Sleep(q)
  <2>1. sender[q].pc = "lock" /\ sender' = [sender EXCEPT ![q] = [sender[q] EXCEPT !.pc = "wait"]]
    BY <1>2 DEF Sleep, At, Goto
  <2>2. [sender[q] EXCEPT !.pc = "wait"].msg = Nothing
    BY <1>1, <2>1 DEF InHands, SenderState
  <2> QED
    BY <1>1, <2>1, <2>2 DEF InHands
<1>3. CASE Quiet
  BY <1>3 DEF Quiet, core, InHands
<1>4. ASSUME NEW r \in SenderState, NEW s \in Seq(Message), NEW n \in {0, 1},
             SenderSteps(q, r, s, n), Awake(q, r, s, n)
      PROVE  \A x \in Queue : sender'[x].pc \in {"lock", "wait"} => sender'[x].msg = Nothing
  <2>1. r.pc \in {"lock", "wait"} => r.msg = Nothing
    BY <1>4 DEF Awake
  <2>2. sender' = [sender EXCEPT ![q] = r]
    BY <1>4 DEF SenderSteps
  <2> QED
    BY <1>1, <2>1, <2>2 DEF InHands
<1> QED
  BY <1>2, <1>3, <1>4, AwakeSteps

LEMMA CallsHands ==
  ASSUME Typed, InHands, NEW t \in Producer,
         CallStep(t) \/ \E q \in Queue, k \in Key : MsgSend(t, q, k)
  PROVE  InHands'
<1>1. /\ call \in [Producer -> CallState] /\ sender \in [Queue -> SenderState] /\ NoCall.pc = "idle"
      /\ NoCall.msg = Nothing /\ call[t] \in CallState
  BY NoCallType DEF Typed, QueueTypes, NoCall
<1>2. flush' = flush /\ fault' = fault
  BY DEF MsgSend, CallStep, Push, Notify
<1>3. \/ call' = call
      \/ \E r : /\ call' = [call EXCEPT ![t] = r] /\ r.pc \in {"push", "idle", "notify"}
                /\ r.pc # "push" => r.msg = Nothing
  <2>1. ASSUME NEW q \in Queue, NEW k \in Key, MsgSend(t, q, k), call' # call
        PROVE  \E r : /\ call' = [call EXCEPT ![t] = r] /\ r.pc \in {"push", "idle", "notify"}
                      /\ r.pc # "push" => r.msg = Nothing
    <3> DEFINE r == [pc |-> "push", q |-> q, msg |-> [n |-> offered', key |-> k]]
    <3>1. call' = [call EXCEPT ![t] = r] /\ r.pc = "push"
      BY <2>1 DEF MsgSend
    <3> QED
      BY <3>1
  <2>2. CASE Notify(t)
    BY <1>1, <2>2 DEF Notify
  <2>3. CASE Push(t)
    <3> DEFINE r == [call[t] EXCEPT !.pc = "notify", !.msg = Nothing]
    <3>1. r.pc = "notify" /\ r.msg = Nothing
      BY <1>1 DEF CallState
    <3> QED
      BY <1>1, <2>3, <3>1 DEF Push
  <2> QED
    BY <2>1, <2>2, <2>3 DEF CallStep
<1>4. /\ \A u \in Producer : call'[u].pc # "push" => call'[u].msg = Nothing
      /\ call'["main"].pc = "flushed" => call["main"].pc = "flushed"
  BY <1>1, <1>3 DEF InHands, Producer
<1>5. \A x \in Queue : sender'[x].pc \in {"lock", "wait"} => sender'[x].msg = Nothing
  <2>1. CASE sender' = sender
    BY <2>1 DEF InHands
  <2>2. CASE Notify(t) /\ sender' # sender
    <3>1. PICK x \in Queue : /\ sender[x].pc = "wait"
                             /\ sender' = [sender EXCEPT ![x] = [sender[x] EXCEPT !.pc = "lock"]]
      BY <1>1, <2>2 DEF Notify, CallState
    <3>2. [sender[x] EXCEPT !.pc = "lock"].msg = Nothing
      BY <1>1, <3>1 DEF InHands, SenderState
    <3> QED
      BY <1>1, <3>1, <3>2 DEF InHands
  <2> QED
    BY <2>1, <2>2 DEF MsgSend, CallStep, Push
<1> QED
  BY <1>2, <1>4, <1>5 DEF InHands

LEMMA InHandsStep == ASSUME Typed, InHands, [Next]_vars PROVE InHands'
<1>1. call \in [Producer -> CallState] /\ "main" \in Producer /\ NoCall.pc = "idle" /\ NoCall.msg = Nothing
  BY NoCallType DEF Typed, QueueTypes, NoCall, Producer
<1>2. ASSUME NEW q \in Queue, SenderStep(q) \/ WakeSpuriously(q) PROVE InHands'
  BY <1>2, Producing, SendersHands DEF InHands
<1>3. ASSUME Quiet, \/ \E t \in Producer, k \in Key : HangUp(t, k)
                    \/ \E u \in User : ForwardHangsUp(u)
                    \/ \E c \in Conn : PeerResets(c) \/ PeerShutsDown(c) \/ Killed(c)
                    \/ UNCHANGED vars
      PROVE  InHands'
  BY <1>3, Producing DEF InHands, Quiet, core
<1>4. ASSUME NEW c \in Conn, Flush(c), ~ Killed(c) PROVE InHands'
  <2>2. /\ flush' = c /\ UNCHANGED <<sender, fault>> /\ call["main"].pc = "idle"
        /\ call' = [call EXCEPT !["main"].pc = "flushed"]
    BY <1>4 DEF Flush, Idle
  <2>3. /\ call'["main"].pc = "flushed" /\ call'["main"].msg = call["main"].msg
        /\ \A t \in Producer : t # "main" => call'[t] = call[t]
    BY <1>1, <2>2 DEF CallState
  <2> QED
    BY <1>1, <2>2, <2>3 DEF InHands
<1>5. CASE Flushed
  BY <1>1, <1>5, FlushedDoes DEF InHands
<1> QED
  <2>1. CASE UNCHANGED vars
    BY <1>3, <2>1, ConnectionSteps
  <2>2. ASSUME NEW t \in Producer, NEW k \in Key, HangUp(t, k) PROVE InHands'
    BY <1>3, <2>2, ConnectionSteps
  <2>3. ASSUME NEW u \in User, ForwardHangsUp(u) PROVE InHands'
    BY <1>3, <2>3, ConnectionSteps
  <2>4. ASSUME NEW c \in Conn, PeerResets(c) \/ PeerShutsDown(c) \/ Killed(c)
        PROVE  InHands'
    BY <1>3, <2>4, ConnectionSteps
  <2> QED
    BY <1>2, <1>4, <1>5, <2>1, <2>2, <2>3, <2>4, CallsHands DEF Next

LEMMA Types ==
  ASSUME Typed, Fields, InHands
  PROVE  TypeOK
<1>1. ASSUME NEW q \in Queue
      PROVE  sender[q] \in [pc : {"lock", "wait"}, msg : {Nothing}] \cup
                           [pc : {"find", "index", "check", "requeue", "send", "arm"}, msg : Message]
  BY DEF Typed, QueueTypes, HaveMessage, InHands, SenderState, SenderPc
<1>2. ASSUME NEW t \in Producer
      PROVE  call[t] \in [pc : {"idle", "notify", "flushed"}, q : Queue, msg : {Nothing}]
                         \cup [pc : {"push"}, q : Queue, msg : Message]
  BY DEF Typed, QueueTypes, HaveMessage, InHands, CallState, CallPc
<1>3. /\ sender \in [Queue -> [pc : {"lock", "wait"}, msg : {Nothing}] \cup
                              [pc : {"find", "index", "check", "requeue", "send", "arm"}, msg : Message]]
      /\ call \in [Producer -> [pc : {"idle", "notify", "flushed"}, q : Queue, msg : {Nothing}]
                               \cup [pc : {"push"}, q : Queue, msg : Message]]
  BY <1>1, <1>2 DEF Typed, QueueTypes
<1> QED
  BY <1>3 DEF Typed, QueueTypes, Fields, InHands, TypeOK

LEMMA InitFields == ASSUME Init PROVE Fields /\ InHands
<1>2. Fields
  BY BoundAssumption DEF Init, Fields
<1>3. InHands
  BY DEF Init, InHands, NoCall, Producer
<1> QED
  BY <1>2, <1>3

\* Whatever the ids and limits: messages are in the hands of calls and senders at
\* work only, and the epoll loop has a connection in hand while it handles EPOLLOUT.
THEOREM TypesHold == Spec => []TypeOK
<1> DEFINE I == Typed /\ NoLostWakeup /\ Fields /\ InHands
<1>1. Init => I
  BY InitTyped, InitFields
<1>2. I /\ [Next]_vars => I'
  BY StepTyped, FieldsStep, InHandsStep
<1>3. I => TypeOK
  BY Types
<1> QED
  BY <1>1, <1>2, <1>3, PTL DEF Spec

-----------------------------------------------------------------------------
(* requestSent counts the messages that wait. *)

\* Where the messages of id k are in a sequence of messages.
Places(s, k) == {i \in 1 .. Len(s) : s[i].key = k}

One(m, k) == IF m.key = k THEN 1 ELSE 0

LEMMA CountType ==
  ASSUME NEW s \in Seq(Message), NEW k
  PROVE  IsFiniteSet(Places(s, k)) /\ Cardinality(Places(s, k)) \in Nat
<1>1. IsFiniteSet(1 .. Len(s)) /\ Places(s, k) \in SUBSET (1 .. Len(s))
  BY FS_Interval DEF Places
<1>2. IsFiniteSet(Places(s, k))
  BY <1>1, FS_Subset
<1> QED
  BY <1>2, FS_CardinalityType

LEMMA CountAppend ==
  ASSUME NEW s \in Seq(Message), NEW m \in Message, NEW k
  PROVE  Cardinality(Places(Append(s, m), k)) = Cardinality(Places(s, k)) + One(m, k)
<1> DEFINE n == Len(s) + 1
<1>1. /\ Append(s, m) \in Seq(Message) /\ Len(Append(s, m)) = n /\ Len(s) \in Nat
      /\ Append(s, m)[n] = m /\ \A i \in 1 .. Len(s) : Append(s, m)[i] = s[i]
  BY AppendProperties
<1>2. n \notin Places(s, k)
  BY <1>1 DEF Places
<1>3. \A i : i \in 1 .. n <=> i \in 1 .. Len(s) \/ i = n
  BY <1>1
<1>4. CASE m.key = k
  <2>1. Places(Append(s, m), k) = Places(s, k) \cup {n}
    BY <1>1, <1>3, <1>4 DEF Places
  <2> QED
    BY <1>2, <1>4, <2>1, CountType, FS_AddElement, ZenonT(30) DEF One
<1>5. CASE m.key # k
  <2>1. Places(Append(s, m), k) = Places(s, k)
    BY <1>1, <1>3, <1>5 DEF Places
  <2> QED
    BY <1>5, <2>1, CountType DEF One
<1> QED
  BY <1>4, <1>5

LEMMA CountTail ==
  ASSUME NEW s \in Seq(Message), s # <<>>, NEW k
  PROVE  Cardinality(Places(s, k)) = Cardinality(Places(Tail(s), k)) + One(Head(s), k)
<1> DEFINE rest == Places(s, k) \ {1}
           f == [i \in Places(Tail(s), k) |-> i + 1]
<1>1. /\ Tail(s) \in Seq(Message) /\ Len(s) \in Nat \ {0} /\ Len(Tail(s)) = Len(s) - 1
      /\ Head(s) = s[1] /\ \A i \in 1 .. Len(Tail(s)) : Tail(s)[i] = s[i + 1]
  OBVIOUS
<1>2. f \in Bijection(Places(Tail(s), k), rest)
  <2>1. f \in [Places(Tail(s), k) -> rest]
    BY <1>1 DEF Places
  <2>2. \A i, j \in Places(Tail(s), k) : f[i] = f[j] => i = j
    BY <1>1 DEF Places
  <2>3. ASSUME NEW j \in rest PROVE \E i \in Places(Tail(s), k) : f[i] = j
    <3>1. j \in 2 .. Len(s) /\ s[j].key = k
      BY <1>1 DEF Places
    <3>2. j - 1 \in 1 .. Len(Tail(s)) /\ (j - 1) + 1 = j
      BY <1>1, <3>1
    <3>3. Tail(s)[j - 1].key = k
      BY <1>1, <3>1, <3>2
    <3>4. j - 1 \in Places(Tail(s), k)
      BY <3>2, <3>3 DEF Places
    <3> QED
      BY <3>2, <3>4
  <2> QED
    BY <2>1, <2>2, <2>3 DEF Bijection, Injection, IsInjective, Surjection
<1>3. Cardinality(rest) = Cardinality(Places(Tail(s), k))
  <2>1. IsFiniteSet(Places(Tail(s), k)) /\ ExistsBijection(Places(Tail(s), k), rest)
    BY <1>1, <1>2, CountType DEF ExistsBijection
  <2> HIDE DEF rest
  <2> QED
    BY <2>1, FS_Bijection
<1>4. 1 \in Places(s, k) <=> Head(s).key = k
  BY <1>1 DEF Places
<1>5. Cardinality(rest) = IF 1 \in Places(s, k) THEN Cardinality(Places(s, k)) - 1
                          ELSE Cardinality(Places(s, k))
  BY CountType, FS_RemoveElement
<1> QED
  BY <1>3, <1>4, <1>5, CountType DEF One

LEMMA CountRotated ==
  ASSUME NEW s \in Seq(Message), s # <<>>, NEW k
  PROVE  Cardinality(Places(Append(Tail(s), Head(s)), k)) = Cardinality(Places(s, k))
<1>1. Head(s) \in Message /\ Tail(s) \in Seq(Message)
  BY HeadTail
<1> QED
  BY <1>1, CountTail, CountAppend

LEMMA WaitingIs ==
  ASSUME Typed, NEW q \in Queue, NEW k
  PROVE  Waiting(q, k) = Cardinality(Places(Kept(q), k)) /\ Waiting(q, k) \in Nat
BY KeptType, CountType DEF Waiting, Places

\* requestSent of a link, its two ends taken together.
Requested(k) == req[<<k, "own">>] + (IF k \in User THEN req[Forward(k)] ELSE 0)

LEMMA Conserved ==
  CountersConserved <=> \A k \in known : Requested(k) = Waiting("StS", k) + Waiting("StU", k)
BY DEF CountersConserved, Requested

LEMMA RequestedType == ASSUME Fields, NEW k \in Key PROVE Requested(k) \in Int
<1>1. <<k, "own">> \in Conn /\ Forward(k) \in Conn
  BY Receivers DEF Queue
<1> QED
  BY <1>1 DEF Requested, Fields

\* requestSent of one end of k's link changed by d.
LEMMA RequestedStep ==
  ASSUME Fields, NEW k \in Key, NEW d \in Int, NEW c \in Conn,
         c \in {<<k, "own">>, Forward(k)}, req' = [req EXCEPT ![c] = @ + d]
  PROVE  /\ Requested(k)' = Requested(k) + d
         /\ \A x \in Key : x # k => Requested(x)' = Requested(x)
<1>1. \A x \in Key : /\ <<x, "own">> \in Conn /\ Forward(x) \in Conn
                     /\ x \in User => Forward(x) = <<x, "forward">>
                     /\ x \notin User => Forward(x) = <<x, "own">>
  BY Receivers DEF Queue, Forward
<1>2. /\ req \in [Conn -> Int] /\ req'[c] = req[c] + d
      /\ \A x \in Conn : x # c => req'[x] = req[x]
  BY DEF Fields
<1>3. ASSUME NEW x \in Key, x # k PROVE Requested(x)' = Requested(x)
  <2>1. <<k, "own">>[1] = k /\ <<k, "forward">>[1] = k /\ Forward(k) \in {<<k, "own">>, <<k, "forward">>}
    BY DEF Forward
  <2>2. c[1] = k /\ <<x, "own">>[1] = x /\ (x \in User => Forward(x)[1] = x)
    BY <2>1 DEF Forward
  <2>3. <<x, "own">> # c /\ (x \in User => Forward(x) # c)
    BY <1>3, <2>2
  <2> QED
    BY <1>1, <1>2, <2>3 DEF Requested, Forward
<1>4. Requested(k)' = Requested(k) + d
  <2>1. CASE k \in User
    BY <1>1, <1>2, <2>1 DEF Requested, Forward
  <2>2. CASE k \notin User
    BY <1>1, <1>2, <2>2 DEF Requested, Forward
  <2> QED
    BY <2>1, <2>2
<1> QED
  BY <1>3, <1>4

\* Steps that neither accept nor load nor drop a message.
Uncounted ==
  /\ UNCHANGED <<req, left>> /\ known' \subseteq known
  /\ \A t \in Producer : call[t].pc = "push" => call'[t].pc = "push"

LEMMA UncountedConserved ==
  ASSUME Typed, Typed', CountersConserved, Uncounted, \A q \in Queue : Effect(q)
  PROVE  CountersConserved'
<1>1. ASSUME NEW q \in Queue, NEW k PROVE Waiting(q, k)' = Waiting(q, k)
  <2>1. Kept(q) \in Seq(Message) /\ left[q] \in Nat
    BY KeptType DEF Typed, QueueTypes
  <2>2. Kept(q)' = Kept(q) \/ (Kept(q) # <<>> /\ Kept(q)' = Append(Tail(Kept(q)), Head(Kept(q))))
    BY <2>1 DEF Uncounted, Effect, Same, Pushed, Jammed, Rotated, Shrunk
  <2>3. Cardinality(Places(Kept(q)', k)) = Cardinality(Places(Kept(q), k))
    BY <2>1, <2>2, CountRotated
  <2>4. Waiting(q, k)' = Cardinality(Places(Kept(q)', k))
    BY DEF Waiting, Places
  <2> QED
    BY <2>3, <2>4, WaitingIs
<1>2. \A k \in known' : Requested(k)' = Requested(k) /\ k \in known
  BY DEF Uncounted, Requested, Forward
<1> QED
  BY <1>1, <1>2, Conserved DEF CountersConserved, Requested, Queue, Forward

\* A queue whose messages change by one, and the link whose requestSent does.
LEMMA OneConserved ==
  ASSUME Typed, Fields, CountersConserved, NEW q \in Queue, NEW m \in Message, NEW d \in {1, -1},
         NEW c \in Conn, c \in {<<m.key, "own">>, Forward(m.key)},
         req' = [req EXCEPT ![c] = @ + d], known' = known,
         \A k \in Key : Waiting(q, k)' = Waiting(q, k) + d * One(m, k),
         \A x \in Queue, k \in Key : x # q => Waiting(x, k)' = Waiting(x, k)
  PROVE  CountersConserved'
<1>1. m.key \in Key /\ known \subseteq Key /\ d \in Int
  BY DEF Message, Fields
<1>2. /\ Requested(m.key)' = Requested(m.key) + d
      /\ \A x \in Key : x # m.key => Requested(x)' = Requested(x)
  BY <1>1, RequestedStep
<1>3. ASSUME NEW k \in known
      PROVE  Requested(k)' = Waiting("StS", k)' + Waiting("StU", k)'
  <2>1. k \in Key /\ Requested(k) \in Int /\ Requested(k) = Waiting("StS", k) + Waiting("StU", k)
    BY <1>1, RequestedType, Conserved
  <2>2. Waiting("StS", k) \in Nat /\ Waiting("StU", k) \in Nat
    BY WaitingIs DEF Queue
  <2>3. Requested(k)' = Requested(k) + d * One(m, k)
    BY <1>1, <1>2, <2>1 DEF One
  <2>4. d * One(m, k) \in Int
    BY <1>1 DEF One
  <2>5. CASE q = "StS"
    BY <2>1, <2>2, <2>3, <2>4, <2>5 DEF Queue
  <2>6. CASE q = "StU"
    BY <2>1, <2>2, <2>3, <2>4, <2>6 DEF Queue
  <2> QED
    BY <2>5, <2>6 DEF Queue
<1>4. \A k \in known' : Requested(k)' = Waiting("StS", k)' + Waiting("StU", k)'
  BY <1>3
<1> QED
  BY <1>4 DEF CountersConserved, Requested

LEMMA PushConserved ==
  ASSUME Typed, Fields, CountersConserved, NEW t \in Producer, Push(t),
         NEW q, q = call[t].q, NEW m, m = call[t].msg
  PROVE  CountersConserved'
<1>1. /\ q \in Queue /\ m \in Message /\ queue \in [Queue -> Seq(Message)]
      /\ queue[q] \in Seq(Message) /\ UNCHANGED <<sender, known>>
  BY DEF Push, Typed, QueueTypes, HaveMessage, CallState, links
<1>2. CASE Len(queue[q]) > MaxSend
  <2>1. UNCHANGED <<queue, req>>
    BY <1>2 DEF Push
  <2> QED
    BY <1>1, <2>1 DEF CountersConserved, Waiting, Kept, InHand, Forward
<1>3. CASE ~ (Len(queue[q]) > MaxSend)
  <2>1. /\ queue' = [queue EXCEPT ![q] = Append(queue[q], m)]
        /\ req' = [req EXCEPT ![<<m.key, "own">>] = @ + 1]
    BY <1>3 DEF Push
  <2>2. Kept(q)' = Append(Kept(q), m)
    <3>1. queue'[q] = Append(queue[q], m)
      BY <1>1, <2>1
    <3>2. CASE InHand(q)
      <4>1. sender[q].msg \in Message
        BY <1>1, <3>2 DEF Typed, HaveMessage, InHand
      <4>2. Kept(q) = <<sender[q].msg>> \o queue[q]
        BY <3>2 DEF Kept
      <4>3. Kept(q)' = <<sender[q].msg>> \o Append(queue[q], m)
        <5>1. InHand(q)' /\ sender'[q].msg = sender[q].msg
          BY <1>1, <3>2 DEF InHand
        <5> QED
          BY <3>1, <5>1 DEF Kept
      <4> QED
        <5>1. Append(<<sender[q].msg>> \o queue[q], m) = <<sender[q].msg>> \o Append(queue[q], m)
          BY <1>1, <4>1, AppendBehind, Zenon
        <5> QED
          BY <4>2, <4>3, <5>1, Zenon
    <3>3. CASE ~ InHand(q)
      BY <1>1, <3>1, <3>3 DEF Kept, InHand
    <3> QED
      BY <3>2, <3>3
  <2>3. \A k \in Key : Waiting(q, k)' = Waiting(q, k) + 1 * One(m, k)
    <3> SUFFICES ASSUME NEW k \in Key PROVE Waiting(q, k)' = Waiting(q, k) + 1 * One(m, k)
      OBVIOUS
    <3>1. Waiting(q, k)' = Cardinality(Places(Kept(q)', k))
      BY DEF Waiting, Places
    <3>2. Kept(q) \in Seq(Message)
      BY <1>1, KeptType
    <3>3. Waiting(q, k)' = Cardinality(Places(Kept(q), k)) + One(m, k)
      BY <1>1, <2>2, <3>1, <3>2, CountAppend
    <3>4. One(m, k) = 1 * One(m, k)
      BY DEF One
    <3> QED
      BY <1>1, <3>3, <3>4, WaitingIs
  <2>4. \A x \in Queue, k \in Key : x # q => Waiting(x, k)' = Waiting(x, k)
    BY <1>1, <2>1 DEF Waiting, Kept, InHand
  <2>5. <<m.key, "own">> \in Conn
    BY <1>1, Receivers DEF Message
  <2> QED
    BY <1>1, <2>1, <2>3, <2>4, <2>5, OneConserved
<1> QED
  BY <1>2, <1>3

\* The message in a sender's hands leaves.
LEMMA LeavingCounts ==
  ASSUME Typed, NEW q \in Queue, InHand(q), UNCHANGED queue, sender'[q].pc \in {"lock", "send"},
         \A x \in Queue : x # q => sender'[x] = sender[x]
  PROVE  /\ \A k \in Key : Waiting(q, k)' = Waiting(q, k) - One(sender[q].msg, k)
         /\ \A x \in Queue, k \in Key : x # q => Waiting(x, k)' = Waiting(x, k)
<1> DEFINE m == sender[q].msg
<1>1. /\ m \in Message /\ queue[q] \in Seq(Message) /\ sender \in [Queue -> SenderState]
      /\ Kept(q) = <<m>> \o queue[q]
  BY DEF Typed, QueueTypes, HaveMessage, InHand, Kept
<1>3. Kept(q)' = queue[q]
  BY DEF Kept, InHand
<1>4. Kept(q) \in Seq(Message) /\ Kept(q) # <<>> /\ Head(Kept(q)) = m /\ Tail(Kept(q)) = queue[q]
  <2> HIDE DEF m
  <2> QED
    BY <1>1, InFront
<1>5. ASSUME NEW k \in Key PROVE Waiting(q, k)' = Waiting(q, k) - One(m, k)
  <2>1. Cardinality(Places(Kept(q), k)) = Cardinality(Places(queue[q], k)) + One(m, k)
    BY <1>4, CountTail
  <2>2. Cardinality(Places(queue[q], k)) \in Nat /\ One(m, k) \in Nat
    BY <1>1, CountType DEF One
  <2>3. Waiting(q, k)' = Cardinality(Places(queue[q], k))
    BY <1>3 DEF Waiting, Places
  <2> QED
    BY <2>1, <2>2, <2>3, WaitingIs
<1>6. \A x \in Queue, k \in Key : x # q => Waiting(x, k)' = Waiting(x, k)
  BY DEF Waiting, Kept, InHand
<1> QED
  BY <1>5, <1>6

LEMMA LoadConserved ==
  ASSUME Typed, Fields, CountersConserved, NEW q \in Queue, Load(q)
  PROVE  CountersConserved'
<1> DEFINE m == sender[q].msg
           r == [sender[q] EXCEPT !.pc = "send"]
<1>1. /\ sender[q].pc = "check" /\ InHand(q) /\ UNCHANGED <<queue, known>>
      /\ req' = [req EXCEPT ![To(q)] = @ - 1] /\ sender' = [sender EXCEPT ![q] = r]
  BY DEF Load, At, InHand, Goto, links
<1>2. m \in Message /\ To(q) \in Conn /\ To(q) \in {<<m.key, "own">>, Forward(m.key)}
  BY <1>1, InSenders, Receivers DEF To
<1>3. sender'[q].pc = "send" /\ \A x \in Queue : x # q => sender'[x] = sender[x]
  <2>1. /\ sender[q] \in SenderState /\ "send" \in SenderPc /\ sender \in [Queue -> SenderState]
    BY DEF Typed, QueueTypes, SenderPc
  <2>2. r.pc = "send" /\ r \in SenderState
    BY <2>1, SenderAt
  <2> HIDE DEF r
  <2> QED
    BY <1>1, <2>1, <2>2, Updated
<1>4. /\ \A k \in Key : Waiting(q, k)' = Waiting(q, k) - One(m, k)
      /\ \A x \in Queue, k \in Key : x # q => Waiting(x, k)' = Waiting(x, k)
  BY <1>1, <1>3, LeavingCounts
<1>5. \A k \in Key : Waiting(q, k)' = Waiting(q, k) + (-1) * One(m, k)
  BY <1>4, WaitingIs DEF One
<1>6. req' = [req EXCEPT ![To(q)] = @ + (-1)]
  BY <1>1, <1>2 DEF Fields
<1> HIDE DEF m
<1> QED
  BY <1>1, <1>2, <1>4, <1>5, <1>6, OneConserved

LEMMA DropConserved ==
  ASSUME Typed, Fields, CountersConserved, NEW q \in Queue, Drop(q)
  PROVE  CountersConserved'
<1> DEFINE m == sender[q].msg
           r == [pc |-> "lock", msg |-> Nothing]
<1>1. /\ InHand(q) /\ UNCHANGED <<queue, known, req>> /\ m.key \notin known
      /\ sender' = [sender EXCEPT ![q] = r] /\ sender \in [Queue -> SenderState]
  BY DEF Drop, At, InHand, Again, links, fields, Typed, QueueTypes
<1>2. /\ \A k \in Key : Waiting(q, k)' = Waiting(q, k) - One(m, k)
      /\ \A x \in Queue, k \in Key : x # q => Waiting(x, k)' = Waiting(x, k)
  BY <1>1, LeavingCounts
<1>3. ASSUME NEW k \in known, NEW x \in Queue PROVE Waiting(x, k)' = Waiting(x, k)
  BY <1>1, <1>2, <1>3, WaitingIs DEF One, Fields
<1> QED
  BY <1>1, <1>3 DEF CountersConserved, Queue, Forward

LEMMA UncountedSteps ==
  ASSUME Typed,
         \/ \E q \in Queue : \/ Sleep(q) \/ Take(q) \/ Find(q) \/ Index(q) \/ Postpone(q)
                             \/ Requeue(q) \/ Send(q) \/ Arm(q) \/ WakeSpuriously(q)
         \/ \E t \in Producer : Notify(t) \/ \E k \in Key : HangUp(t, k)
         \/ \E u \in User : ForwardHangsUp(u)
         \/ \E c \in Conn : PeerResets(c) \/ Flush(c) \/ PeerShutsDown(c)
         \/ Flushed
         \/ UNCHANGED vars
  PROVE  Uncounted
<1>1. call \in [Producer -> CallState] /\ "main" \in Producer
  BY DEF Typed, QueueTypes, Producer
<1>2. ASSUME NEW q \in Queue,
             \/ Sleep(q) \/ Take(q) \/ Find(q) \/ Index(q) \/ Postpone(q) \/ Requeue(q)
             \/ WakeSpuriously(q)
      PROVE  Uncounted
  BY <1>2 DEF Sleep, Take, Find, Index, Postpone, Requeue, WakeSpuriously, Crash, fields,
              produced, links, Uncounted
<1>3. ASSUME NEW q \in Queue, Send(q) \/ Arm(q) PROVE Uncounted
  BY <1>3 DEF Send, Arm, Killed, Crash, fields, produced, links, Uncounted
<1>4. ASSUME NEW t \in Producer, Notify(t) PROVE Uncounted
  BY <1>1, <1>4 DEF Notify, NoCall, fields, links, Uncounted
<1>5. ASSUME NEW t \in Producer, NEW k \in Key, HangUp(t, k) PROVE Uncounted
  BY <1>5 DEF HangUp, Close, Release, produced, Uncounted
<1>6. ASSUME NEW u \in User, ForwardHangsUp(u) PROVE Uncounted
  BY <1>6 DEF ForwardHangsUp, Release, produced, Uncounted
<1>7. ASSUME NEW c \in Conn, PeerResets(c) \/ PeerShutsDown(c) PROVE Uncounted
  BY <1>7 DEF PeerResets, PeerShutsDown, fields, produced, links, Uncounted
<1>8. ASSUME NEW c \in Conn, Flush(c) PROVE Uncounted
  <2>1. CASE Killed(c)
    BY <2>1 DEF Killed, Crash, fields, produced, links, Uncounted
  <2>2. CASE ~ Killed(c)
    <3>1. /\ UNCHANGED <<req, left, known>> /\ call["main"].pc = "idle"
          /\ call' = [call EXCEPT !["main"].pc = "flushed"]
      BY <1>8, <2>2 DEF Flush, Idle, links
    <3> QED
      BY <1>1, <3>1 DEF Uncounted
  <2> QED
    BY <2>1, <2>2
<1>9. CASE Flushed
  <2>1. UNCHANGED <<req, left, known>>
    BY <1>9, FlushedDoes
  <2>2. call["main"].pc # "push" /\ call' = [call EXCEPT !["main"] = NoCall]
    BY <1>9, FlushedDoes
  <2> QED
    BY <1>1, <2>1, <2>2 DEF Uncounted
<1>10. CASE UNCHANGED vars
  BY <1>10 DEF vars, fields, produced, links, Uncounted
<1> QED
  BY <1>2, <1>3, <1>4, <1>5, <1>6, <1>7, <1>8, <1>9, <1>10

\* A call of MsgSend counts nothing up to the lock, but may close the link.
LEMMA MsgSendConserved ==
  ASSUME CountersConserved, NEW t \in Producer, NEW q \in Queue, NEW k \in Key, MsgSend(t, q, k)
  PROVE  CountersConserved'
<1>1. req' = req /\ known' \subseteq known /\ UNCHANGED <<queue, sender>>
  BY DEF MsgSend, Close, Release, fields, links
<1> QED
  BY <1>1 DEF CountersConserved, Waiting, Kept, InHand, Forward

LEMMA ConservedStep ==
  ASSUME Typed, NoLostWakeup, Fields, CountersConserved, [Next]_vars
  PROVE  CountersConserved'
<1>1. Typed' /\ \A q \in Queue : Effect(q)
  BY StepTyped, StepEffect
<1>2. ASSUME Uncounted PROVE CountersConserved'
  BY <1>1, <1>2, UncountedConserved
<1>3. ASSUME NEW q \in Queue, SenderStep(q) \/ WakeSpuriously(q) PROVE CountersConserved'
  BY <1>2, <1>3, UncountedSteps, LoadConserved, DropConserved DEF SenderStep
<1>4. ASSUME NEW t \in Producer, CallStep(t) PROVE CountersConserved'
  BY <1>2, <1>4, UncountedSteps, PushConserved DEF CallStep
<1>5. ASSUME NEW t \in Producer, NEW k \in Key, HangUp(t, k) PROVE CountersConserved'
  BY <1>2, <1>5, UncountedSteps
<1>6. CASE \/ \E u \in User : ForwardHangsUp(u)
           \/ \E c \in Conn : PeerResets(c) \/ Flush(c) \/ PeerShutsDown(c)
           \/ Flushed
           \/ UNCHANGED vars
  BY <1>2, <1>6, UncountedSteps
<1> QED
  BY <1>3, <1>4, <1>5, <1>6, MsgSendConserved DEF Next

LEMMA InitConserved == ASSUME Init PROVE CountersConserved
<1>1. \A q \in Queue : Kept(q) = <<>>
  BY DEF Init, Kept, InHand
<1>2. \A q \in Queue : \A k : Waiting(q, k) = 0
  <2> SUFFICES ASSUME NEW q \in Queue, NEW k PROVE Waiting(q, k) = 0
    OBVIOUS
  <2>1. {i \in 1 .. Len(Kept(q)) : Kept(q)[i].key = k} = {}
    BY <1>1
  <2> QED
    BY <2>1, FS_EmptySet DEF Waiting
<1>3. \A k \in Key : req[<<k, "own">>] = 0 /\ req[Forward(k)] = 0
  BY Receivers DEF Init, Queue
<1> QED
  BY <1>2, <1>3 DEF Init, CountersConserved, Queue

\* Whatever breaks and however the threads interleave: on a link that is known,
\* the two requestSent together are the number of its messages that wait.
THEOREM RequestsCounted == Spec => []CountersConserved
<1> DEFINE I == Typed /\ NoLostWakeup /\ Fields /\ InHands /\ CountersConserved
<1>1. Init => I
  BY InitTyped, InitFields, InitConserved
<1>2. I /\ [Next]_vars => I'
  BY StepTyped, FieldsStep, InHandsStep, ConservedStep
<1> QED
  BY <1>1, <1>2, PTL DEF Spec

=============================================================================
