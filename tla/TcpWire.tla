------------------------------- MODULE TcpWire -------------------------------
(***************************************************************************)
(* How one connection sends, access by access.  Its sender thread          *)
(* (MessageStS_Thread or MessageStU_Thread: one of them serves it) and the *)
(* epoll loop both call SendProc, which works on delptr, sendptr and       *)
(* sendLen without a lock.  throwSendCount is meant to hand them over:     *)
(* above zero it tells the sender thread to leave the connection to the    *)
(* epoll loop.  TcpSend has the queues of the messages; this module has    *)
(* what becomes of those of one connection.                                *)
(*                                                                         *)
(* A step is one access to memory that both threads use, or one system     *)
(* call.  The makefile asks for no optimization, so each access of the     *)
(* source is made, in its order.  The connection is followed until it is   *)
(* shut down.                                                              *)
(***************************************************************************)
EXTENDS Integers

CONSTANTS
  HeadLen,     \* m_PKG_Hlen
  MsgLen,      \* bytes of a message, its head (PKG_Head) included
  ToUser,      \* whether it is a user's connection (StU) or not (StS)
  MaxMessages, \* bound: messages the sender thread takes for this connection
  MaxShort,    \* bound: sends that find too little room
  MaxFlush     \* bound: how far below zero throwSendCount is followed

ASSUME LengthAssumption == HeadLen \in Nat \ {0} /\ MsgLen \in Nat /\ MsgLen > HeadLen
ASSUME ToUserAssumption == ToUser \in BOOLEAN
ASSUME BoundAssumption == {MaxMessages, MaxShort, MaxFlush} \subseteq Nat

Thread == {"sender", "main"}

\* Users get no head.  The code skips it by adding m_PKG_Hlen to a PKG_Head*,
\* which is that many heads, not bytes: it starts elsewhere.
Start  == IF ToUser THEN HeadLen * HeadLen ELSE 0
Length == IF ToUser THEN MsgLen - HeadLen ELSE MsgLen
End    == Start + Length

\* A char*: a message (0: none) and an offset in it.
First(n) == <<n, Start>>
Null     == <<0, 0>>

\* A thread that is at none of the accesses below.
Idle == [pc |-> "idle", ptr |-> Null, len |-> 0, n |-> 0, ret |-> "none"]

VARIABLES
  ptr,     \* sendptr
  del,     \* delptr: the number of the message, 0 for NULL
  len,     \* sendLen
  throw,   \* throwSendCount
  armed,   \* EPOLLOUT is one of the events epoll waits for
  thread,  \* per thread: where it is, the ptr and len it has read, the n bytes
           \* send() took, and what SendProc returned ("none": it did not yet)
  freed,   \* the messages whose memory was given back
  loaded,  \* number of messages the sender thread has taken for sending
  shorts,  \* number of sends that found too little room
  up,      \* the peer has not reset the connection
  fault,   \* "none", or why the process died
  due,     \* history: the byte the peer should get next
  garbled, \* history: it got another one
  astray   \* history: what has happened that the mark is not made for: "vain", EPOLLOUT
           \* was handled of a connection not marked; "cut", the event of a hang-up
           \* took the mark away; "skip", a send of the epoll loop fell short

kept   == <<ptr, del, len>>
wire   == <<due, garbled>>
limits == <<shorts, loaded>>
vars   == <<kept, throw, armed, thread, freed, limits, up, fault, wire, astray>>

Init ==
  /\ ptr = Null /\ del = 0 /\ len = 0
  /\ throw = 0 /\ armed = FALSE
  /\ thread = [t \in Thread |-> Idle]
  /\ freed = {} /\ loaded = 0 /\ shorts = 0
  /\ up = TRUE /\ fault = "none"
  /\ due = First(1) /\ garbled = FALSE /\ astray = {}

At(t, pc) == fault = "none" /\ thread[t].pc = pc

Goto(t, pc) == thread' = [thread EXCEPT ![t].pc = pc]

Stops(t) == thread' = [thread EXCEPT ![t] = Idle]

-----------------------------------------------------------------------------
(* The sender thread, with a message for this connection in its hands.  When *)
(* the connection is marked the message goes back into the queue, which      *)
(* changes nothing here.                                                     *)

\* Mutant of Check: a marked connection is not left to the epoll loop.
CheckNothing ==
  /\ At("sender", "idle") /\ loaded < MaxMessages
  /\ loaded' = loaded + 1
  /\ Goto("sender", "setdel")
  /\ UNCHANGED <<kept, throw, armed, freed, shorts, up, fault, wire, astray>>

Check ==
  /\ At("sender", "idle") /\ loaded < MaxMessages /\ throw <= 0
  /\ loaded' = loaded + 1
  /\ Goto("sender", "setdel")
  /\ UNCHANGED <<kept, throw, armed, freed, shorts, up, fault, wire, astray>>

SetDel ==
  /\ At("sender", "setdel")
  /\ del' = loaded
  /\ Goto("sender", "setptr")
  /\ UNCHANGED <<ptr, len, throw, armed, freed, limits, up, fault, wire, astray>>

SetPtr ==
  /\ At("sender", "setptr")
  /\ ptr' = First(loaded)
  /\ Goto("sender", "setlen")
  /\ UNCHANGED <<del, len, throw, armed, freed, limits, up, fault, wire, astray>>

SetLen ==
  /\ At("sender", "setlen")
  /\ len' = Length
  /\ Goto("sender", "arglen")
  /\ UNCHANGED <<ptr, del, throw, armed, freed, limits, up, fault, wire, astray>>

-----------------------------------------------------------------------------
(* SendProc(cptr, cptr->sendptr, cptr->sendLen), called by thread t.         *)

\* The arguments are read from the fields, the last one first.
ArgLen(t) ==
  /\ At(t, "arglen")
  /\ thread' = [thread EXCEPT ![t].pc = "argptr", ![t].len = len]
  /\ UNCHANGED <<kept, throw, armed, freed, limits, up, fault, wire, astray>>

ArgPtr(t) ==
  /\ At(t, "argptr")
  /\ thread' = [thread EXCEPT ![t].pc = "send", ![t].ptr = ptr]
  /\ UNCHANGED <<kept, throw, armed, freed, limits, up, fault, wire, astray>>

\* n bytes from p on reach the peer.  Memory that was given back holds anything.
Bytes(p, n) ==
  /\ due' = IF p[2] + n = End THEN First(p[1] + 1) ELSE <<p[1], p[2] + n>>
  /\ garbled' = (garbled \/ p # due \/ p[2] + n > End \/ p[1] \in freed)

\* send() takes everything.
All(t) ==
  /\ At(t, "send") /\ up /\ thread[t].ptr[1] # 0 /\ thread[t].len > 0
  /\ Bytes(thread[t].ptr, thread[t].len)
  /\ thread' = [thread EXCEPT ![t].pc = "delete", ![t].n = thread[t].len]
  /\ UNCHANGED <<kept, throw, armed, freed, limits, up, fault, astray>>

\* Too little room; it is the epoll loop that was told there is room.
Short(t) ==
  /\ At(t, "send") /\ up /\ thread[t].ptr[1] # 0 /\ shorts < MaxShort
  /\ shorts' = shorts + 1
  /\ astray' = IF t = "main" THEN astray \cup {"skip"} ELSE astray
  /\ UNCHANGED <<kept, throw, armed, freed, loaded, up, fault>>

\* send() takes some bytes.  A sendLen that was taken below zero is a huge size_t,
\* and send() goes on behind the message; it is followed for the length of one.
Some(t) ==
  /\ Short(t)
  /\ \E n \in 1 .. (IF thread[t].len < 0 THEN MsgLen ELSE thread[t].len - 1) :
       /\ Bytes(thread[t].ptr, n)
       /\ thread' = [thread EXCEPT ![t].pc = "readptr", ![t].n = n]

\* EAGAIN.
None(t) ==
  /\ Short(t) /\ thread[t].len # 0
  /\ Goto(t, "mark")
  /\ UNCHANGED wire

\* An error (sendptr is null or points nowhere, the peer is gone; TcpSend has what
\* else that may do), or nothing to send.
Fails(t) ==
  /\ At(t, "send")
  /\ ~ up \/ thread[t].ptr[1] = 0 \/ thread[t].len = 0
  /\ thread' = [thread EXCEPT ![t].pc = "delete", ![t].n = 0]
  /\ UNCHANGED <<kept, throw, armed, freed, limits, up, fault, wire, astray>>

\* sendptr = sendptr + n and sendLen -= n, each a read and a write.
ReadPtr(t) ==
  /\ At(t, "readptr")
  /\ thread' = [thread EXCEPT ![t].pc = "writeptr", ![t].ptr = ptr]
  /\ UNCHANGED <<kept, throw, armed, freed, limits, up, fault, wire, astray>>

\* Mutant of WritePtr: sendLen is not brought down.
WritePtrOnly(t) ==
  /\ At(t, "writeptr")
  /\ ptr' = <<thread[t].ptr[1], thread[t].ptr[2] + thread[t].n>>
  /\ Goto(t, "mark")
  /\ UNCHANGED <<del, len, throw, armed, freed, limits, up, fault, wire, astray>>

WritePtr(t) ==
  /\ At(t, "writeptr")
  /\ ptr' = <<thread[t].ptr[1], thread[t].ptr[2] + thread[t].n>>
  /\ Goto(t, "readlen")
  /\ UNCHANGED <<del, len, throw, armed, freed, limits, up, fault, wire, astray>>

ReadLen(t) ==
  /\ At(t, "readlen")
  /\ thread' = [thread EXCEPT ![t].pc = "writelen", ![t].len = len]
  /\ UNCHANGED <<kept, throw, armed, freed, limits, up, fault, wire, astray>>

\* Mutant of WriteLen: the wrong sign.
WriteLenUp(t) ==
  /\ At(t, "writelen")
  /\ len' = thread[t].len + thread[t].n
  /\ IF thread[t].ret = "none" THEN Goto(t, "mark") ELSE Stops(t)
  /\ UNCHANGED <<ptr, del, throw, armed, freed, limits, up, fault, wire, astray>>

\* Inside SendProc the mark follows; behind it Write_requestHandle returns.
WriteLen(t) ==
  /\ At(t, "writelen")
  /\ len' = thread[t].len - thread[t].n
  /\ IF thread[t].ret = "none" THEN Goto(t, "mark") ELSE Stops(t)
  /\ UNCHANGED <<ptr, del, throw, armed, freed, limits, up, fault, wire, astray>>

Mark(t) ==
  /\ At(t, "mark")
  /\ throw' = throw + 1
  /\ Goto(t, "arm")
  /\ UNCHANGED <<kept, armed, freed, limits, up, fault, wire, astray>>

\* delete[] delptr.  What it finds given back already ends the process.
Delete(t) ==
  /\ At(t, "delete")
  /\ IF del \in freed
     THEN fault' = "double free" /\ UNCHANGED <<freed, thread>>
     ELSE freed' = freed \cup ({del} \ {0}) /\ Goto(t, "nulldel") /\ UNCHANGED fault
  /\ UNCHANGED <<kept, throw, armed, limits, up, wire, astray>>

NullDel(t) ==
  /\ At(t, "nulldel")
  /\ del' = 0
  /\ Goto(t, "nullptr")
  /\ UNCHANGED <<ptr, len, throw, armed, freed, limits, up, fault, wire, astray>>

\* SendProc returns: the sender thread takes its next message.
Returns(t, r) == IF t = "sender" THEN Stops(t)
                 ELSE thread' = [thread EXCEPT ![t].pc = "test", ![t].ret = r]

NullPtr(t) ==
  /\ At(t, "nullptr")
  /\ ptr' = Null
  /\ IF thread[t].ret = "none"
     THEN Returns(t, IF thread[t].n > 0 THEN "true" ELSE "false")
     ELSE Goto(t, "unmark")
  /\ UNCHANGED <<del, len, throw, armed, freed, limits, up, fault, wire, astray>>

\* Mutant of Arm: adding and removing are confused.
ArmReversed(t) ==
  /\ At(t, "arm")
  /\ armed' = (thread[t].ret # "none")
  /\ IF thread[t].ret = "none" THEN Returns(t, "true") ELSE Goto(t, "delete")
  /\ UNCHANGED <<kept, throw, freed, limits, up, fault, wire, astray>>

\* Epoll_Add_event: EPOLLOUT is added in SendProc, removed behind it.
Arm(t) ==
  /\ At(t, "arm")
  /\ armed' = (thread[t].ret = "none")
  /\ IF thread[t].ret = "none" THEN Returns(t, "true") ELSE Goto(t, "delete")
  /\ UNCHANGED <<kept, throw, freed, limits, up, fault, wire, astray>>

-----------------------------------------------------------------------------
(* EPOLLOUT in the epoll loop (Write_requestHandle).  The boolean SendProc   *)
(* returns is taken for a length, 1 or 0.                                    *)

Event ==
  /\ At("main", "idle") /\ armed /\ throw > - MaxFlush
  /\ Goto("main", "arglen")
  /\ astray' = IF throw > 0 THEN astray ELSE astray \cup {"vain"}
  /\ UNCHANGED <<kept, throw, armed, freed, limits, up, fault, wire>>

\* A length of 1 that is not sendLen: one byte more was sent.
Test ==
  /\ At("main", "test")
  /\ thread' = CASE thread["main"].ret = "false" -> [thread EXCEPT !["main"].pc = "delete"]
                 [] thread["main"].ret = "true" /\ len # 1 ->
                      [thread EXCEPT !["main"].pc = "readptr", !["main"].n = 1]
                 [] OTHER -> [thread EXCEPT !["main"].pc = "testagain"]
  /\ UNCHANGED <<kept, throw, armed, freed, limits, up, fault, wire, astray>>

\* That is sendLen: everything was sent.
TestAgain ==
  /\ At("main", "testagain")
  /\ Goto("main", IF len = 1 THEN "arm" ELSE "delete")
  /\ UNCHANGED <<kept, throw, armed, freed, limits, up, fault, wire, astray>>

Unmark ==
  /\ At("main", "unmark")
  /\ throw' = throw - 1
  /\ Stops("main")
  /\ UNCHANGED <<kept, armed, freed, limits, up, fault, wire, astray>>

\* The event also says that the peer has shut down its side: no longer marked.
PeerShutsDown ==
  /\ At("main", "idle") /\ armed /\ throw # 0
  /\ throw' = 0
  /\ astray' = astray \cup {"cut"}
  /\ UNCHANGED <<kept, armed, thread, freed, limits, up, fault, wire>>

PeerResets ==
  /\ fault = "none" /\ up
  /\ up' = FALSE
  /\ UNCHANGED <<kept, throw, armed, thread, freed, limits, fault, wire, astray>>

-----------------------------------------------------------------------------
SendProc(t) ==
  \/ ArgLen(t) \/ ArgPtr(t) \/ All(t) \/ Some(t) \/ None(t) \/ Fails(t)
  \/ ReadPtr(t) \/ WritePtr(t) \/ ReadLen(t) \/ WriteLen(t) \/ Mark(t)
  \/ Delete(t) \/ NullDel(t) \/ NullPtr(t) \/ Arm(t)

SenderStep == Check \/ SetDel \/ SetPtr \/ SetLen \/ SendProc("sender")

MainStep == Event \/ SendProc("main") \/ Test \/ TestAgain \/ Unmark

Next == SenderStep \/ MainStep \/ PeerShutsDown \/ PeerResets

Spec == Init /\ [][Next]_vars

\* Both threads go on, and epoll reports a connection that waits for EPOLLOUT: its
\* peer reads.  Nothing makes messages come, but a marked connection needs none.
FairSpec == Spec /\ WF_vars(MainStep) /\ WF_vars(SenderStep)

-----------------------------------------------------------------------------
(* Properties. *)

\* Where a thread works on the fields: the epoll loop in the whole of its handler,
\* the sender thread until it has marked the connection.
InFields(t) == thread[t].pc # "idle" /\ ~ (t = "sender" /\ thread[t].pc = "arm")

\* Every variable has its type; the only type invariant of the module.
TypeOK ==
  /\ ptr \in Nat \X Nat /\ del \in 0 .. MaxMessages /\ len \in Int /\ len <= Length
  /\ throw \in Int /\ armed \in BOOLEAN
  /\ thread \in [Thread ->
       [pc : {"idle", "setdel", "setptr", "setlen", "arglen", "argptr", "send", "readptr",
              "writeptr", "readlen", "writelen", "mark", "delete", "nulldel", "nullptr",
              "arm", "test", "testagain", "unmark"},
        ptr : Nat \X Nat, len : {l \in Int : l <= Length}, n : Nat, ret : {"none", "true", "false"}]]
  /\ freed \subseteq 1 .. MaxMessages /\ loaded \in 0 .. MaxMessages
  /\ shorts \in 0 .. MaxShort /\ up \in BOOLEAN /\ fault \in {"none", "double free"}
  /\ due \in Nat \X Nat /\ garbled \in BOOLEAN /\ astray \subseteq {"vain", "cut", "skip"}

\* throwSendCount hands delptr, sendptr and sendLen from the sender thread to the
\* epoll loop (++ in SendProc, Request.cpp:215) and back (--, 302): without a
\* lock the two never work on them at the same time, and nothing is given back
\* twice.  It fails when an EPOLLOUT is handled of a connection that is not marked
\* (EPOLLOUT stays armed when a rest of more than one byte has left), and when
\* the event of a hang-up has taken the mark away (Socket.cpp:265).
OneAtATime ==
  astray \cap {"vain", "cut"} = {} =>
    ~ (InFields("sender") /\ InFields("main")) /\ fault = "none"

\* Whatever send() takes and wherever the rest is sent from: the peer gets every
\* message the sender thread took, whole, once and in order, and before the next
\* one is taken.  That ends with the two exceptions above, with a send of the epoll
\* loop that falls short (Write_requestHandle then moves sendptr over a byte,
\* Request.cpp:273) and, for what was not sent, with a reset.
WholeMessages ==
  astray = {} =>
    /\ ~ garbled
    /\ up /\ throw <= 0 /\ thread["sender"].pc = "idle" => due = First(loaded + 1)

\* A marked connection, whose messages the sender thread puts back into the queue,
\* is given back to it when the peer reads ("> 0 means sending upon the system's
\* notice", TcpSock.h:83), with the same exceptions.  One of them: when a send of the
\* epoll loop leaves a rest of one byte, EPOLLOUT is cleared (286-290) while
\* throwSendCount goes from 2 to 1: the connection is marked for ever.
Resumes == throw > 0 ~> throw <= 0 \/ astray # {}

=============================================================================
