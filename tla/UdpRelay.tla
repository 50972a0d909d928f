------------------------------ MODULE UdpRelay ------------------------------
(***************************************************************************)
(* The udp side of a worker (WorkSock).  An administrator opens udp ports; *)
(* a client whose datagram arrives at one is registered there under an id, *)
(* and the id leads the administrator's answer back to the client.         *)
(* Administrators' clients register at the forward port in the same way.   *)
(*                                                                         *)
(* Threads: the udp epoll loop ("udp"), the pool thread that executes      *)
(* commands ("pool"), the tcp epoll loop that shuts administrators down    *)
(* ("main"), the two senders, the expiry of silent clients and the         *)
(* heartbeat.  The senders take no lock to look things up: find and the    *)
(* operator[] after it are two steps, and operator[] makes an entry for    *)
(* what another thread erased in between.  The queues between the threads  *)
(* are the subject of UdpSend: here they are sets of at most MaxSend + 1   *)
(* packages.                                                               *)
(***************************************************************************)
EXTENDS Integers, Sequences, FiniteSets

CONSTANTS
  Objects,    \* number of uConnection objects
  UserPort,   \* ports that can be opened
  Admin,      \* administrators, known by the address of their client
  Client,     \* clients of the user ports, known by their address
  MaxId,      \* MAX_ID_NUM
  MaxSend,    \* m_MAX_Send
  MaxRegist,  \* bound: registrations
  MaxOpens,   \* bound: ports opened
  MaxCloses   \* bound: shutdowns, commands and empty datagrams that close ports

ASSUME NameAssumption == /\ Admin \cap Client = {} /\ "none" \notin Admin \cup Client
                         /\ (Admin \cup Client) \cap 0 .. MaxId = {}
ASSUME PortAssumption == {"fwd", "none"} \cap UserPort = {} /\ IsFiniteSet(UserPort)
ASSUME NumberAssumption == /\ Objects \in Nat \ {0} /\ {MaxId, MaxSend} \subseteq Nat
                           /\ {MaxRegist, MaxOpens, MaxCloses} \subseteq Nat

Object == 1 .. Objects
Port   == UserPort \cup {"fwd"}
Addr   == Admin \cup Client
Id     == 0 .. MaxId
Regist == 1 .. MaxRegist

\* Threads that open or close ports.
Thread == {"udp", "pool", "main"}

\* A package a client sent: the administrator, port and id written into it,
\* and, as history, who sent it and in which opening of the port.
Package == [admin : Admin \cup {"sys", "none"}, port : Port \cup {"none"}, id : Id,
            client : Client, gen : 0 .. MaxOpens]

NoPackage == [admin |-> "none", port |-> "none", id |-> 0, client |-> "none", gen |-> 0]

VARIABLES
  free,      \* m_fconnection
  conn,      \* objects: port the descriptor is bound to ("none": closed), port,
             \* admin_id, rHandle is ForwardRequest_Handle, msg_id, and, as
             \* history, the number of the opening
  csinfo,    \* per object: address -> registration, 0 if none
  auxinfo,   \* per object: id -> address, "none" if none
  made,      \* entries operator[] made of erased ones: <<object, address>> with a
             \* null pointer in csinfo, <<object, id>> with "" in auxinfo
  workconn,  \* m_workconn: port -> object, 0 if none
  reg,       \* registrations: addr, port, msgid, timed, and whether still allocated
  checkQ,    \* m_timeCheckQueue
  heartQ,    \* m_heartQueue
  task,      \* per thread: what it is doing
  sender,    \* MessageSend_Thread: where it is, and its variables
  packages,  \* waiting for MessageForward_thread
  forwarding,\* what that thread is about to send: pc, msg, obj, reg
  told,      \* the last that reached their administrator, and have no answer yet
  answers,   \* answered, waiting for MessageSend_Thread
  fault,     \* "none", or why the process died
  count,     \* number of openings and of what closes ports so far
  sound,     \* history: see Unsound
  astray     \* history: how answers went to clients their ids were not given to

tables == <<csinfo, auxinfo, reg, checkQ, heartQ>>
ports  == <<free, conn, workconn>>
relay  == <<sender, packages, forwarding, told, answers, astray>>
vars == <<ports, tables, made, relay, task, fault, count, sound>>

Idle == [pc |-> "idle", todo |-> <<>>, port |-> "none", admin |-> "none"]

NoObject == [obj |-> 0, gen |-> 0]

Asleep == [pc |-> "idle", msg |-> NoPackage, obj |-> NoObject, addr |-> "none", reg |-> 0]

Init ==
  /\ free = [i \in 1 .. Objects - 1 |-> i + 1]
  /\ conn = [o \in Object |-> IF o = 1
       THEN [bound |-> "fwd", port |-> "fwd", admin |-> "sys", forward |-> TRUE, msg_id |-> 0, gen |-> 0]
       ELSE [bound |-> "none", port |-> "none", admin |-> "none", forward |-> FALSE, msg_id |-> 0,
             gen |-> 0]]
  /\ csinfo = [o \in Object |-> [a \in Addr |-> 0]]
  /\ auxinfo = [o \in Object |-> [i \in Id |-> "none"]]
  /\ workconn = [p \in Port |-> IF p = "fwd" THEN 1 ELSE 0]
  /\ made = {} /\ reg = <<>> /\ checkQ = {} /\ heartQ = {}
  /\ task = [t \in Thread |-> Idle]
  /\ sender = Asleep /\ packages = {} /\ forwarding = {} /\ told = {} /\ answers = {}
  /\ fault = "none"
  /\ count = [open |-> 0, close |-> 0]
  /\ sound = TRUE /\ astray = {}

Running == fault = "none"

At(t, pc) == Running /\ task[t].pc = pc

Crash(why) == fault' = why /\ UNCHANGED <<ports, tables, made, relay, task, count, sound>>

\* A pointer to an object, and which opening of it is meant.
Pointer(o) == [obj |-> o, gen |-> conn[o].gen]

\* m_workconn; an object opened for the first time has an arbitrary port for a
\* while, taken to be none in use.
Entry(p) == IF p \in Port THEN workconn[p] ELSE 0

\* Objects some thread has a pointer to.
Held == {sender.obj.obj} \cup {f.obj : f \in forwarding} \cup
        UNION {{task[t].todo[i].obj : i \in 1 .. Len(task[t].todo)} : t \in Thread}

\* Objects are reused but never cleaned, and pointers to them outlive them.
\* sound ends with the first step that confuses two uses of an object or an id.
Unless(confused) == sound' = (sound /\ ~ confused)

\* No descriptor is bound to the port.
Closed(p) == \A o \in Object : conn[o].bound # p

\* What find sees of a key: an entry, if only one that operator[] made.
HasAddr(o, x) == csinfo[o][x] # 0 \/ <<o, x>> \in made
HasId(o, i)   == auxinfo[o][i] # "none" \/ <<o, i>> \in made

-----------------------------------------------------------------------------
(* The pool thread opens a port (Establish_Socket). *)

\* socket, bind (which fails while the port is bound), Get_connection,
\* rHandle, and epoll: from here on datagrams are handled.
Establish(p, a) ==
  /\ At("pool", "idle") /\ count.open < MaxOpens
  /\ Closed(p)
  /\ count' = [count EXCEPT !.open = @ + 1]
  /\ IF free = <<>>
     THEN /\ fault' = "pool empty"
          /\ UNCHANGED <<ports, task, sound>>
     ELSE LET o == Head(free) IN
          /\ free' = Tail(free)
          /\ conn' = [conn EXCEPT ![o].bound = p, ![o].forward = FALSE, ![o].msg_id = 0,
                                  ![o].gen = count'.open]
          /\ task' = [task EXCEPT !["pool"] = [pc |-> "name", todo |-> <<[obj |-> o, gen |-> count'.open]>>,
                                               port |-> p, admin |-> a]]
          /\ Unless(\/ o \in Held
                    \/ \E x \in Addr : HasAddr(o, x)
                    \/ \E i \in Id : HasId(o, i))
          /\ UNCHANGED <<workconn, fault>>
  /\ UNCHANGED <<tables, made, relay>>

Name ==
  LET o == Head(task["pool"].todo).obj
  IN  /\ At("pool", "name")
      /\ conn' = [conn EXCEPT ![o].admin = task["pool"].admin, ![o].port = task["pool"].port]
      /\ task' = [task EXCEPT !["pool"].pc = "publish"]
      /\ UNCHANGED <<free, workconn, tables, made, relay, fault, count, sound>>

Publish ==
  LET o == Head(task["pool"].todo).obj
  IN  /\ At("pool", "publish")
      /\ workconn' = [workconn EXCEPT ![task["pool"].port] = o]
      /\ task' = [task EXCEPT !["pool"] = Idle]
      /\ Unless(conn[o].bound = "none")
      /\ UNCHANGED <<free, conn, tables, made, relay, fault, count>>

-----------------------------------------------------------------------------
(* Ports are closed: by commands, by the shutdown of their administrator, and   *)
(* by the epoll loop (ActiveShutdown, Free_connection).                         *)

\* Thread t shuts the objects down; forgets is the administrator whose
\* registration is deleted after that, or "none".
Closes(t, todo, forgets) ==
  task' = [task EXCEPT ![t] =
    IF todo # <<>> THEN [pc |-> "close", todo |-> todo, port |-> "none", admin |-> forgets]
    ELSE IF forgets # "none" THEN [pc |-> "forget", todo |-> <<>>, port |-> "none", admin |-> forgets]
    ELSE Idle]

\* The objects of an administrator's ports (Close_Sockets), in any order.
Opened(a) ==
  LET his == {p \in Port : workconn[p] # 0 /\ conn[workconn[p]].admin = a}
  IN  {[i \in DOMAIN f |-> Pointer(workconn[f[i]])] :
         f \in {g \in [1 .. Cardinality(his) -> his] : \A i, j \in DOMAIN g : g[i] = g[j] => i = j}}

Closing == count.close < MaxCloses /\ count' = [count EXCEPT !.close = @ + 1]

\* Comm_Close of one port that is in m_workconn.
CloseSocket(p, a) ==
  /\ At("pool", "idle") /\ Closing
  /\ workconn[p] # 0
  /\ task' = [task EXCEPT !["pool"] = [pc |-> "look", todo |-> <<>>, port |-> p, admin |-> a]]
  /\ UNCHANGED <<ports, tables, made, relay, fault, sound>>

\* operator[]: a null pointer by now, or an object that only the administrator
\* who opened it may close.
Looked ==
  LET o == workconn[task["pool"].port]
  IN  /\ At("pool", "look")
      /\ \/ o = 0 /\ Crash("null connection")
         \/ /\ o # 0
            /\ Closes("pool", IF conn[o].admin = task["pool"].admin THEN <<Pointer(o)>> ELSE <<>>, "none")
            /\ UNCHANGED <<ports, tables, made, relay, fault, count, sound>>

\* Comm_Close of all.
CloseAll(a) ==
  /\ At("pool", "idle") /\ Closing
  /\ \E todo \in Opened(a) : Closes("pool", todo, "none")
  /\ UNCHANGED <<ports, tables, made, relay, fault, sound>>

\* The shutdown of an administrator by an exit command ("pool") or by the tcp
\* epoll loop ("main"): his ports are closed, then his registration is deleted.
Leave(t, a) ==
  /\ t \in {"pool", "main"} /\ At(t, "idle") /\ Closing
  /\ \E todo \in Opened(a) : Closes(t, todo, a)
  /\ UNCHANGED <<ports, tables, made, relay, fault, sound>>

\* close() of the descriptor the object has now.
CloseFd(t) ==
  LET x == Head(task[t].todo)
  IN  /\ At(t, "close")
      /\ conn' = [conn EXCEPT ![x.obj].bound = "none"]
      /\ task' = [task EXCEPT ![t].pc = "free"]
      /\ Unless(conn[x.obj].bound = "none" \/ conn[x.obj].gen # x.gen)
      /\ UNCHANGED <<free, workconn, tables, made, relay, fault, count>>

\* Where a thread goes on when an object is released.
Released(t) ==
  LET rest == Tail(task[t].todo)
  IN  task' = [task EXCEPT ![t] =
        IF rest # <<>> THEN [@ EXCEPT !.pc = "close", !.todo = rest]
        ELSE IF task[t].admin # "none" THEN [@ EXCEPT !.pc = "forget", !.todo = <<>>]
        ELSE Idle]

\* Mutant of FreeConnection: m_workconn is not told.
FreeKeepsEntry(t) ==
  LET o == Head(task[t].todo).obj
  IN  /\ At(t, "free")
      /\ free' = Append(free, o)
      /\ Released(t)
      /\ Unless(conn[o].port = "none" \/ workconn[conn[o].port] # o)
      /\ UNCHANGED <<conn, workconn, tables, made, relay, fault, count>>

\* Under m_connectMutex.  The entry of the object's port goes, whoever has it.
FreeConnection(t) ==
  LET o == Head(task[t].todo).obj
      p == conn[o].port
  IN  /\ At(t, "free")
      /\ free' = Append(free, o)
      /\ workconn' = [q \in Port |-> IF q = p THEN 0 ELSE workconn[q]]
      /\ Released(t)
      /\ Unless(p = "none" \/ workconn[p] # o)
      /\ UNCHANGED <<conn, tables, made, relay, fault, count>>

\* RegiestInfo_Delete: the test, before m_heartLock is taken.
Forget(t) ==
  LET o == workconn["fwd"]
      a == task[t].admin
  IN  /\ At(t, "forget")
      /\ \/ o = 0 /\ Crash("no forward port")
         \/ /\ o # 0
            /\ task' = [task EXCEPT ![t] =
                 IF ~ HasAddr(o, a) THEN Idle
                 ELSE [@ EXCEPT !.pc = "delete", !.todo = <<Pointer(o)>>]]
            /\ UNCHANGED <<ports, tables, made, relay, fault, count, sound>>

\* And the deletion, under it; the heartbeat thread frees the registration.
Delete(t) ==
  LET o == Head(task[t].todo).obj
      a == task[t].admin
      r == csinfo[o][a]
  IN  /\ At(t, "delete")
      /\ \/ r = 0 /\ Crash("null registration")
         \/ /\ r # 0
            /\ auxinfo' = [auxinfo EXCEPT ![o][reg[r].id] = "none"]
            /\ made' = made \ {<<o, reg[r].id>>}
            /\ csinfo' = [csinfo EXCEPT ![o][a] = 0]
            /\ reg' = [reg EXCEPT ![r].timed = "zero"]
            /\ task' = [task EXCEPT ![t] = Idle]
            /\ UNCHANGED <<ports, checkQ, heartQ, relay, fault, count, sound>>
-----------------------------------------------------------------------------
(* The udp epoll loop. *)

\* A datagram arrives; before it is received, the object's port is read for
\* the registration it may lead to.
EpollWait(o) ==
  /\ At("udp", "idle") /\ conn[o].bound # "none"
  /\ task' = [task EXCEPT !["udp"] = [pc |-> "handle", todo |-> <<Pointer(o)>>,
                                      port |-> conn[o].port, admin |-> "none"]]
  /\ UNCHANGED <<ports, tables, made, relay, fault, count, sound>>

Handles(o, forward) ==
  /\ At("udp", "handle") /\ o = Head(task["udp"].todo).obj
  /\ conn[o].forward = forward

\* Read_requestHandle: an empty datagram counts as the end of the client, an
\* error (another thread has closed the descriptor) as an end too; the port is
\* shut down.
ReadEnds(o) ==
  /\ \E forward \in BOOLEAN : Handles(o, forward)
  /\ \/ conn[o].bound = "none" /\ UNCHANGED count
     \/ conn[o].bound # "none" /\ Closing
  /\ Closes("udp", task["udp"].todo, "none")
  /\ UNCHANGED <<ports, tables, made, relay, fault, sound>>

\* A signal interrupts recvfrom, or memory is short.
ReadRetried(o) ==
  /\ \E forward \in BOOLEAN : Handles(o, forward)
  /\ conn[o].bound # "none"
  /\ task' = [task EXCEPT !["udp"] = Idle]
  /\ UNCHANGED <<ports, tables, made, relay, fault, count, sound>>

\* Mutant of Register: ids do not start again.
RegisterUnwrapped(o, x) ==
  LET id == conn[o].msg_id
  IN  /\ Len(reg) < MaxRegist
      /\ reg' = Append(reg, [addr |-> x, port |-> task["udp"].port, id |-> id,
                             timed |-> "fresh", live |-> TRUE])
      /\ auxinfo' = [auxinfo EXCEPT ![o][id] = x] /\ made' = made \ {<<o, id>>}
      /\ csinfo' = [csinfo EXCEPT ![o][x] = Len(reg')]
      /\ conn' = [conn EXCEPT ![o].msg_id = id + 1]
      /\ Unless(task["udp"].port # conn[o].bound)

\* A new registration of address x at object o, with the object's next id.
Register(o, x) ==
  LET id == IF conn[o].msg_id > MaxId THEN 0 ELSE conn[o].msg_id
  IN  /\ Len(reg) < MaxRegist
      /\ reg' = Append(reg, [addr |-> x, port |-> task["udp"].port, id |-> id,
                             timed |-> "fresh", live |-> TRUE])
      /\ auxinfo' = [auxinfo EXCEPT ![o][id] = x] /\ made' = made \ {<<o, id>>}
      /\ csinfo' = [csinfo EXCEPT ![o][x] = Len(reg')]
      /\ conn' = [conn EXCEPT ![o].msg_id = id + 1]
      /\ Unless(conn[o].msg_id > MaxId \/ task["udp"].port # conn[o].bound)

\* Packaging_Send: what the administrator is sent.
Packaged(o, c, id) ==
  [admin |-> conn[o].admin, port |-> conn[o].port, id |-> id, client |-> c, gen |-> conn[o].gen]

\* MsgForward, MsgSend: a full queue refuses.
Queued(q, m) == IF Cardinality(q) > MaxSend THEN q ELSE q \cup {m}

\* Mutant of UserRequest: the id of a registration is looked up, but not given on.
UserRequestFirstId(o, c) ==
  LET r == csinfo[o][c]
  IN  /\ Handles(o, FALSE) /\ conn[o].bound # "none"
      /\ \/ <<o, c>> \in made /\ Crash("null registration")
         \/ r # 0 /\ ~ reg[r].live /\ Crash("deleted registration")
         \/ /\ <<o, c>> \notin made /\ (r # 0 => reg[r].live)
            /\ \/ /\ r # 0
                  /\ reg' = [reg EXCEPT ![r].timed = "fresh"]
                  /\ UNCHANGED <<csinfo, auxinfo, made, conn, checkQ, sound>>
               \/ /\ r = 0 /\ Register(o, c)
                  /\ checkQ' = checkQ \cup {Len(reg')}
            /\ packages' = Queued(packages, Packaged(o, c, 0))
            /\ task' = [task EXCEPT !["udp"] = Idle]
            /\ UNCHANGED <<free, workconn, heartQ, sender, forwarding, told, answers, astray, fault, count>>

\* Under m_idCheckLock: a client's datagram renews its registration or makes
\* one; then the datagram is packed for the administrator.
UserRequest(o, c) ==
  LET r == csinfo[o][c]
  IN  /\ Handles(o, FALSE) /\ conn[o].bound # "none"
      /\ \/ <<o, c>> \in made /\ Crash("null registration")
         \/ r # 0 /\ ~ reg[r].live /\ Crash("deleted registration")
         \/ /\ <<o, c>> \notin made /\ (r # 0 => reg[r].live)
            /\ \/ /\ r # 0
                  /\ reg' = [reg EXCEPT ![r].timed = "fresh"]
                  /\ UNCHANGED <<csinfo, auxinfo, made, conn, checkQ, sound>>
               \/ /\ r = 0 /\ Register(o, c)
                  /\ checkQ' = checkQ \cup {Len(reg')}
            /\ packages' = Queued(packages, Packaged(o, c, reg'[csinfo'[o][c]].id))
            /\ task' = [task EXCEPT !["udp"] = Idle]
            /\ UNCHANGED <<free, workconn, heartQ, sender, forwarding, told, answers, astray, fault, count>>

\* Mutant of ForwardRegisters: the heartbeat thread is not told.
ForwardRegistersOnly(o, a) ==
  /\ Handles(o, TRUE) /\ conn[o].bound # "none" /\ ~ HasAddr(o, a)
  /\ Register(o, a)
  /\ task' = [task EXCEPT !["udp"] = Idle]
  /\ UNCHANGED <<free, workconn, heartQ, checkQ, relay, fault, count>>

\* ForwardRequest_Handle, under m_heartLock: the first datagram of an
\* administrator's client only registers it.
ForwardRegisters(o, a) ==
  /\ Handles(o, TRUE) /\ conn[o].bound # "none" /\ ~ HasAddr(o, a)
  /\ Register(o, a)
  /\ heartQ' = heartQ \cup {Len(reg')}
  /\ task' = [task EXCEPT !["udp"] = Idle]
  /\ UNCHANGED <<free, workconn, checkQ, relay, fault, count>>

\* Later ones are answers to what it was told (any other is dropped).
ForwardRequest(o, a) ==
  LET r == csinfo[o][a]
  IN  /\ Handles(o, TRUE) /\ conn[o].bound # "none"
      /\ \/ <<o, a>> \in made /\ Crash("null registration")
         \/ /\ <<o, a>> \notin made /\ r # 0
            /\ reg' = [reg EXCEPT ![r].timed = "fresh"]
            /\ \/ UNCHANGED answers
               \/ \E m \in told : m.admin = a /\ answers' = Queued(answers, m)
            /\ task' = [task EXCEPT !["udp"] = Idle]
            /\ UNCHANGED <<ports, csinfo, auxinfo, made, checkQ, heartQ, sender, packages, forwarding,
                           told, astray, fault, count, sound>>

-----------------------------------------------------------------------------
(* MessageForward_thread. *)

\* It takes a package; without a forward port that is dropped.
Forward(m) ==
  /\ Running /\ forwarding = {} /\ m \in packages
  /\ packages' = packages \ {m}
  /\ forwarding' = IF workconn["fwd"] = 0 THEN {} ELSE {[pc |-> "port", msg |-> m, obj |-> 0, reg |-> 0]}
  /\ UNCHANGED <<ports, tables, made, sender, told, answers, astray, task, fault, count, sound>>

\* One step of the thread after that, from pc, with the package f.
Forwards(f, pc, next) ==
  /\ Running /\ f \in forwarding /\ f.pc = pc /\ forwarding' = next
  /\ UNCHANGED <<ports, tables, sender, packages, answers, astray, task, fault, count, sound>>

\* operator[]: the object of the forward port, or a null pointer by now.
ForwardPort(f) ==
  LET o == workconn["fwd"]
  IN  \/ Running /\ f \in forwarding /\ f.pc = "port" /\ o = 0 /\ Crash("null connection")
      \/ o # 0 /\ Forwards(f, "port", {[f EXCEPT !.pc = "find", !.obj = o]}) /\ UNCHANGED <<made, told>>

\* Is the package's administrator registered?
FindAdmin(f) ==
  LET his == f.msg.admin \in Admin /\ HasAddr(f.obj, f.msg.admin)
  IN  /\ Forwards(f, "find", IF his THEN {[f EXCEPT !.pc = "admin"]} ELSE {})
      /\ UNCHANGED <<made, told>>

\* operator[]: the registration; or a null pointer, which sendto refuses.
ForwardAdmin(f) ==
  LET x == f.msg.admin
      r == csinfo[f.obj][x]
  IN  \/ /\ Forwards(f, "admin", {[f EXCEPT !.pc = "send", !.reg = r]})
         /\ r # 0 /\ UNCHANGED <<made, told>>
      \/ /\ Forwards(f, "admin", {})
         /\ r = 0 /\ UNCHANGED told
         /\ made' = made \cup {<<f.obj, x>>}

\* The package reaches the client of administrator a, or gets lost.  Of what
\* one was told, the last counts.
Reaches(m, a) ==
  \/ UNCHANGED told
  \/ told' = {n \in told : n.admin # a} \cup {[m EXCEPT !.admin = a]}

\* It sends it where the registration says: anywhere, if that is freed, for
\* its memory may by now be another registration.
ForwardTo(f) ==
  \/ Running /\ f \in forwarding /\ f.pc = "send" /\ ~ reg[f.reg].live /\ Crash("deleted registration")
  \/ /\ Forwards(f, "send", {}) /\ UNCHANGED made
     /\ \E a \in Admin : (reg[f.reg].live => a = f.msg.admin) /\ Reaches(f.msg, a)

-----------------------------------------------------------------------------
(* MessageSend_Thread. *)

\* It takes an answer to a port that is in m_workconn,
Take(m) ==
  /\ Running /\ sender.pc = "idle" /\ m \in answers
  /\ answers' = answers \ {m}
  /\ sender' = IF Entry(m.port) = 0 THEN Asleep ELSE [sender EXCEPT !.pc = "port", !.msg = m]
  /\ UNCHANGED <<ports, tables, made, packages, forwarding, told, astray, task, fault, count, sound>>

\* One step of the thread after that.
Looks(pc, next) ==
  /\ Running /\ sender.pc = pc /\ sender' = next
  /\ UNCHANGED <<ports, tables, packages, forwarding, told, answers, astray, task, fault, count, sound>>

\* reads the port's object, a null pointer by now if it was closed,
TakePort ==
  LET o == Entry(sender.msg.port)
  IN  \/ Running /\ sender.pc = "port" /\ o = 0 /\ Crash("null connection")
      \/ /\ sender.pc = "port" /\ o # 0
         /\ Looks("port", [sender EXCEPT !.pc = "find id", !.obj = Pointer(o)]) /\ UNCHANGED made

\* looks for the answer's id,
FindId ==
  /\ Looks("find id", IF HasId(sender.obj.obj, sender.msg.id) THEN [sender EXCEPT !.pc = "id"] ELSE Asleep)
  /\ UNCHANGED made

\* reads the address the id was given to ("" leads to no registration),
TakeId ==
  LET o == sender.obj.obj
      x == auxinfo[o][sender.msg.id]
  IN  \/ /\ Looks("id", [sender EXCEPT !.pc = "find addr", !.addr = x])
         /\ x # "none" /\ UNCHANGED made
      \/ /\ Looks("id", Asleep)
         /\ x = "none" /\ made' = made \cup {<<o, sender.msg.id>>}

\* looks for the address,
FindAddr ==
  /\ Looks("find addr", IF HasAddr(sender.obj.obj, sender.addr) THEN [sender EXCEPT !.pc = "addr"] ELSE Asleep)
  /\ UNCHANGED made

\* reads its registration (sendto refuses a null pointer),
TakeAddr ==
  LET o == sender.obj.obj
      r == csinfo[o][sender.addr]
  IN  \/ /\ Looks("addr", [sender EXCEPT !.pc = "send", !.reg = r])
         /\ r # 0 /\ UNCHANGED made
      \/ /\ Looks("addr", Asleep)
         /\ r = 0 /\ made' = made \cup {<<o, sender.addr>>}

\* and sends the answer there: anywhere, if the registration is freed.  The
\* answer is astray if the port is still the one the client wrote to, and the
\* client another.
SendTo ==
  LET r == reg[sender.reg]
      m == sender.msg
  IN  /\ Running /\ sender.pc = "send"
      /\ \/ ~ r.live /\ Crash("deleted registration")
         \/ /\ \E x \in Addr :
                 /\ r.live => x = r.addr
                 /\ astray' = IF sender.obj.gen = m.gen /\ x # m.client
                              THEN astray \cup {IF r.live THEN "found" ELSE "freed"} ELSE astray
            /\ sender' = Asleep
            /\ UNCHANGED <<ports, tables, made, packages, forwarding, told, answers, task, fault, count,
                           sound>>

-----------------------------------------------------------------------------
(* The expiry of silent clients, and the heartbeat. *)

\* Time passes: nothing was heard of a client for longer than the limit.
GrowOld(r) ==
  /\ Running /\ r \in checkQ /\ reg[r].timed = "fresh"
  /\ reg' = [reg EXCEPT ![r].timed = "stale"]
  /\ UNCHANGED <<ports, csinfo, auxinfo, made, checkQ, heartQ, relay, task, fault, count, sound>>

\* Why m_workconn has no entry of a registration's port.
Unfound(p) == IF Closed(p) /\ task["pool"].pc \notin {"name", "publish"}
              THEN "expiry at a closed port" ELSE "expiry at an unpublished port"

\* Mutant of Expire: the id stays taken.
ExpireKeepsId(r) ==
  LET o == Entry(reg[r].port)
      x == auxinfo[o][reg[r].id]
  IN  /\ Running /\ r \in checkQ /\ reg[r].timed = "stale"
      /\ \/ o = 0 /\ Crash(Unfound(reg[r].port))
         \/ /\ o # 0
            /\ csinfo' = [csinfo EXCEPT ![o] = [y \in Addr |-> IF y = x THEN 0 ELSE @[y]]]
            /\ reg' = [reg EXCEPT ![r].live = FALSE]
            /\ checkQ' = checkQ \ {r}
            /\ made' = made \ {<<o, x>>}
            /\ Unless(csinfo[o][reg[r].addr] # r)
            /\ UNCHANGED <<ports, auxinfo, heartQ, relay, task, fault, count>>

\* UselessDelete_Thread, under m_idCheckLock: the registration and what its id
\* and port lead to now are deleted; operator[] makes a null pointer of a port
\* that is closed.
Expire(r) ==
  LET o == Entry(reg[r].port)
      x == auxinfo[o][reg[r].id]
  IN  /\ Running /\ r \in checkQ /\ reg[r].timed = "stale"
      /\ \/ o = 0 /\ Crash(Unfound(reg[r].port))
         \/ /\ o # 0
            /\ csinfo' = [csinfo EXCEPT ![o] = [y \in Addr |-> IF y = x THEN 0 ELSE @[y]]]
            /\ auxinfo' = [auxinfo EXCEPT ![o][reg[r].id] = "none"]
            /\ made' = made \ {<<o, x>>, <<o, reg[r].id>>}
            /\ reg' = [reg EXCEPT ![r].live = FALSE]
            /\ checkQ' = checkQ \ {r}
            /\ Unless(csinfo[o][reg[r].addr] # r)
            /\ UNCHANGED <<ports, heartQ, relay, task, fault, count>>

\* HeartPackage_Check_Send, a pass under m_heartLock: deleted registrations are
\* freed; others may have been silent long enough to be sent a heartbeat.
Heartbeat ==
  LET dead == {r \in heartQ : reg[r].timed = "zero"}
  IN  /\ Running
      /\ \/ workconn["fwd"] = 0 /\ heartQ # dead /\ Crash("no forward port")
         \/ /\ dead # {}
            /\ heartQ' = heartQ \ dead
            /\ reg' = [r \in DOMAIN reg |-> [reg[r] EXCEPT !.live = @ /\ r \notin dead]]
            /\ UNCHANGED <<ports, csinfo, auxinfo, made, checkQ, relay, task, fault, count, sound>>

-----------------------------------------------------------------------------
PoolStep == \/ \E p \in UserPort, a \in Admin : Establish(p, a) \/ CloseSocket(p, a)
            \/ \E a \in Admin : CloseAll(a)
            \/ Looked \/ Name \/ Publish

ShutdownStep(t) == CloseFd(t) \/ FreeConnection(t) \/ Forget(t) \/ Delete(t)

UdpStep(o) == \/ EpollWait(o) \/ ReadEnds(o) \/ ReadRetried(o)
              \/ \E c \in Client : UserRequest(o, c)
              \/ \E a \in Admin : ForwardRegisters(o, a) \/ ForwardRequest(o, a)

ForwardStep == \/ \E m \in packages : Forward(m)
               \/ \E f \in forwarding : ForwardPort(f) \/ FindAdmin(f) \/ ForwardAdmin(f) \/ ForwardTo(f)

SenderStep == \/ \E m \in answers : Take(m)
              \/ TakePort \/ FindId \/ TakeId \/ FindAddr \/ TakeAddr \/ SendTo

Next == \/ PoolStep
        \/ \E t \in Thread : ShutdownStep(t) \/ \E a \in Admin : Leave(t, a)
        \/ \E o \in Object : UdpStep(o)
        \/ ForwardStep \/ SenderStep
        \/ \E r \in DOMAIN reg : GrowOld(r) \/ Expire(r)
        \/ Heartbeat

Spec == Init /\ [][Next]_vars

-----------------------------------------------------------------------------
(* Properties. *)

\* Every variable has its type; the only type invariant of the module.
TypeOK ==
  /\ free \in Seq(Object)
  /\ conn \in [Object -> [bound : Port \cup {"none"}, port : Port \cup {"none"},
                          admin : Admin \cup {"sys", "none"}, forward : BOOLEAN,
                          msg_id : 0 .. MaxId + 1, gen : 0 .. MaxOpens]]
  /\ csinfo \in [Object -> [Addr -> 0 .. Len(reg)]]
  /\ auxinfo \in [Object -> [Id -> Addr \cup {"none"}]]
  /\ made \subseteq Object \X (Addr \cup Id)
  /\ workconn \in [Port -> 0 .. Objects]
  /\ reg \in Seq([addr : Addr, port : Port \cup {"none"}, id : Id,
                  timed : {"fresh", "stale", "zero"}, live : BOOLEAN])
  /\ checkQ \subseteq DOMAIN reg /\ heartQ \subseteq DOMAIN reg
  /\ \A t \in Thread :
       /\ task[t].pc \in {"idle", "name", "publish", "close", "free", "forget", "delete", "look",
                         "handle"}
       /\ task[t].pc \notin {"idle", "forget", "look"} => task[t].todo # <<>>
       /\ task[t].pc \in {"forget", "delete"} => task[t].admin \in Admin
  /\ sender.pc \in {"idle", "port", "find id", "id", "find addr", "addr", "send"}
  /\ sender.pc \notin {"idle", "port"} => sender.obj.obj \in Object
  /\ sender.pc = "send" => sender.reg \in DOMAIN reg
  /\ packages \cup told \cup answers \subseteq Package
  /\ \A f \in forwarding : /\ f.pc \in {"port", "find", "admin", "send"} /\ f.msg \in Package
                           /\ f.pc # "port" => f.obj \in Object
                           /\ f.pc = "send" => f.reg \in DOMAIN reg
  /\ fault \in {"none", "pool empty", "no forward port", "null connection",
                "null registration", "deleted registration", "expiry at a closed port",
                "expiry at an unpublished port"}
  /\ count \in [open : 0 .. MaxOpens, close : 0 .. MaxCloses]
  /\ sound \in BOOLEAN /\ astray \subseteq {"found", "freed"}

\* While no object or id is confused with an earlier use, the addresses and ids
\* given out in the two tables of an open port are inverse to each other and
\* lead to registrations that exist (UserRequest_Handle, ForwardRequest_Handle,
\* UselessDelete_Thread, RegiestInfo_Delete each change both).  Null pointers and
\* empty strings (made) pair with nothing: the senders' operator[] leaves them.
TablesPaired ==
  sound => \A o \in Object : conn[o].bound # "none" =>
    /\ \A x \in Addr : csinfo[o][x] # 0 =>
         LET r == reg[csinfo[o][x]]
         IN  r.live /\ r.addr = x /\ auxinfo[o][r.id] = x
    /\ \A i \in Id : auxinfo[o][i] # "none" =>
         csinfo[o][auxinfo[o][i]] # 0 /\ reg[csinfo[o][auxinfo[o][i]]].id = i

\* While nothing is confused, an object is free at most once, and only while it
\* is closed and no table leads to it, whoever else is about to close it
\* (Close_Socket, Close_Sockets and the epoll loop, on three threads).
FreeListSound ==
  sound =>
    /\ \A i, j \in 1 .. Len(free) : free[i] = free[j] => i = j
    /\ \A i \in 1 .. Len(free) :
         /\ conn[free[i]].bound = "none"
         /\ \A p \in Port : workconn[p] # free[i]

\* While nothing is confused, an answer to a port that was not closed since goes
\* to the client whose datagram it answers, whichever registrations came and
\* went meanwhile (UserRequest_Handle, MessageSend_Thread, without a lock); but
\* for one case: UselessDelete_Thread frees the registration between its lookup
\* and sendto, and another client's is allocated in its place.
RightClient == sound => "found" \notin astray

\* A registration that exists is in the queue of the thread that will free it, and
\* in no other; a deleted one is in no table (RegiestInfo_Delete leaves the
\* freeing to HeartPackage_Check_Send).
NothingLeaks ==
  \A r \in DOMAIN reg :
    /\ reg[r].live <=> (r \in checkQ \/ r \in heartQ)
    /\ r \notin checkQ \cap heartQ
    /\ reg[r].timed = "zero" => r \notin checkQ /\ \A o \in Object, x \in Addr : csinfo[o][x] # r

\* The thread that deletes useless connections survives doing so, although ports
\* are closed meanwhile: "用户连接检测队列" (UdpSock.h) holds only registrations
\* whose port it can find.
ExpiryFindsPort == sound => fault # "expiry at a closed port"

=============================================================================
