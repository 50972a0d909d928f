------------------------------ MODULE TcpLinks ------------------------------
(***************************************************************************)
(* The TCP side of one worker process: the pool of Connection objects, the *)
(* tables that point into it, and every handler that takes an object from  *)
(* the pool, links it or gives it back.                                    *)
(*                                                                         *)
(* Two threads run this code: the epoll loop ("main") and the one worker   *)
(* of the thread pool ("pool", thread_num = 1), which executes the         *)
(* administrators' commands.  A handler that calls ActiveShutdown, which   *)
(* calls itself and Close_Sockets, is not atomic: each thread has a stack  *)
(* of pending calls, and one step runs the call on top.  A step ends where *)
(* the code takes or drops a lock, or where another thread can change what *)
(* was just tested.                                                        *)
(***************************************************************************)
EXTENDS Integers, Sequences, FiniteSets

CONSTANTS
  WorkConnections,  \* m_work_connections: size of the pool
  Admin,            \* administrators' addresses, the ids of their connections
  User,             \* users' addresses "ip:port", the ids of theirs
  UserPort,         \* the ports an administrator may open
  NoName,           \* the empty string
  MaxAccept,        \* bound: connections accepted in a behaviour
  MaxCommand,       \* bound: commands received in a behaviour
  MaxOpen,          \* bound: ports opened in a behaviour
  MaxFail,          \* bound: epoll registrations that fail in a behaviour
  MaxBatch,         \* bound: events returned by one epoll_wait
  MaxDepth          \* bound: nested ActiveShutdown calls the stack can hold

ASSUME PoolAssumption == WorkConnections \in Nat /\ WorkConnections >= 3
ASSUME NameAssumption == /\ NoName \notin Admin \cup User
                         /\ Admin \cap User = {}
ASSUME PortAssumption == UserPort \cap {"logic", "forward", "none"} = {}
ASSUME BoundAssumption == {MaxAccept, MaxCommand, MaxOpen, MaxFail, MaxBatch, MaxDepth} \subseteq Nat

NULL   == 0                     \* the null pointer
Absent == -1                    \* no entry in the map
Conn   == 1 .. WorkConnections
Port   == UserPort \cup {"logic", "forward", "none"}
Name   == Admin \cup User
Member == 1 .. MaxOpen          \* the OpenMember objects, never deleted
Thread == {"main", "pool"}

\* The commands the model tells apart: "other" stands for show, for a
\* malformed command and for the udp variants, which only send an answer here.
Command ==      [do : {"open", "close"}, port : UserPort]
           \cup [do : {"closeAll", "exit", "other"}]

\* What a connection is looked up for in m_workconn.
Use == Command \cup [do : {"evict", "send"}]

\* A Connection object: descriptor open?, port, admin, connectId, forwardConn
\* and which function rHandle is.
Connection == [fd : BOOLEAN, port : Port, admin : Admin \cup {NoName},
               id : Name \cup {NoName}, fwd : Conn \cup {NULL},
               handle : {"none", "accept", "admin", "forward", "user"}]

\* A pending call of a thread.
Frame ==      [op : {"shutdown", "close", "free", "notify", "reply"}, c : Conn]
         \cup [op : {"distribute"}, c : Conn, peer : Name]
         \cup [op : {"link"}, c : Conn, peer : Name, fwd : Conn]
         \cup [op : {"dispatch"}, c : Conn, cmd : Command]
         \cup [op : {"establish", "closePort"}, port : UserPort, admin : Admin \cup {NoName}]
         \cup [op : {"publish"}, port : UserPort, c : Conn]
         \cup [op : {"closePorts"}, admin : Admin \cup {NoName}]
         \cup [op : {"closeEach"}, ports : SUBSET UserPort, admin : Admin \cup {NoName}]
         \cup [op : {"drain", "pop"}, m : Member, port : UserPort]
         \cup [op : {"erase"}, port : UserPort]
         \cup [op : {"find"}, key : Name \cup {NoName}, use : Use]
         \cup [op : {"index"}, key : Name, use : Use]

\* How the process can die: the stack overflows, an empty list is popped, an
\* id or a port looked up is not there, GetOne finds the pool empty, exit(2).
Fault == {"none", "overflow", "empty list", "null connection", "unpublished port",
          "administrator gone", "null member", "pool empty", "exit(2)"}

VARIABLES
  conn,     \* the Connection objects
  fconn,    \* m_fconnection, the free list
  work,     \* m_connection_work
  workconn, \* m_workconn: id -> connection
  unfully,  \* m_unfullyConnect: administrator -> waiting forward connection
  adm,      \* m_admin: port -> its OpenMember, NULL when absent
  member,   \* the OpenMember objects: allocated?, listener, users accepted
  leaked,   \* objects an overwritten, still open descriptor points to in epoll
  batch,    \* m_events: events of the current epoll_wait not yet handled
  cmds,     \* the thread pool's message queue
  stack,    \* pending calls of each thread
  fault,    \* "none", or why the process died
  count,    \* numbers of accepted connections, commands, opened ports, failures
  sound     \* history: no call has yet released an object twice or followed a
            \* pointer to an object that was no longer what the pointer was for

links == <<conn, workconn, unfully, adm, member, leaked>>
pool  == <<fconn, work>>
vars  == <<links, pool, batch, cmds, stack, fault, count, sound>>

Running == fault = "none"

-----------------------------------------------------------------------------
(* Helpers. *)

Entries(s) == {s[i] : i \in 1 .. Len(s)}

Frames(t) == Entries(stack[t])

Call(op, c) == [op |-> op, c |-> c]

\* The call on top of thread t's stack is a call of op.
Calls(t, op) == Running /\ stack[t] # <<>> /\ Head(stack[t]).op = op

Top(t) == Head(stack[t])

\* The call on top returns after pushing the calls fs.
Return(t, fs) == stack' = [stack EXCEPT ![t] = fs \o Tail(@)]

\* Some thread is between the start of ActiveShutdown(c) and its end.
Released(c) == \E t \in Thread : Call("free", c) \in Frames(t)

InUse(c) == c \notin Entries(fconn) /\ ~ Released(c)

\* A pending call holds a pointer to c.
Held(c) == \E t \in Thread : \E f \in Frames(t) : "c" \in DOMAIN f /\ f.c = c

\* Id_Distribute has c in hands: no list has the user c now stands for.
Distributing(c) == \E f \in Frames("main") : f.op \in {"distribute", "link"} /\ f.c = c

Crash(why) == fault' = why /\ UNCHANGED <<links, pool, stack, sound>>

-----------------------------------------------------------------------------
(* The pool. *)

\* GetOne, and the fields the two callers of Get_connection set.
Fresh(p, a, h) == [fd |-> TRUE, port |-> p, admin |-> a, id |-> NoName,
                   fwd |-> NULL, handle |-> h]

\* Get_connection on a free list that is not empty.
GetConnection(c, p, a, h) ==
  /\ c = Head(fconn)
  /\ fconn' = Tail(fconn)
  /\ leaked' = IF conn[c].fd THEN leaked \cup {c} ELSE leaked
  /\ sound' = (sound /\ ~ Held(c))
  /\ conn' = [conn EXCEPT ![c] = Fresh(p, a, h)]

Init ==
  /\ conn = [c \in Conn |->
               CASE c = 1 -> Fresh("logic", NoName, "accept")
                 [] c = 2 -> Fresh("forward", NoName, "accept")
                 [] OTHER -> [Fresh("none", NoName, "none") EXCEPT !.fd = FALSE]]
  /\ fconn = [i \in 1 .. WorkConnections - 2 |-> i + 2]
  /\ work = 0
  /\ workconn = [k \in Name |-> Absent]
  /\ unfully = [a \in Admin |-> Absent]
  /\ adm = [p \in UserPort |-> NULL]
  /\ member = [m \in Member |-> [used |-> FALSE, adcptr |-> 1, opened |-> <<>>]]
  /\ leaked = {}
  /\ batch = <<>>
  /\ cmds = <<>>
  /\ stack = [t \in Thread |-> <<>>]
  /\ fault = "none"
  /\ count = [accept |-> 0, command |-> 0, open |-> 0, fail |-> 0]
  /\ sound = TRUE

-----------------------------------------------------------------------------
(* ActiveShutdown, Free_connection, Close_Socket(s), Connection_Exit. *)

Depth(t) == Cardinality({i \in 1 .. Len(stack[t]) : stack[t][i].op = "close"})

\* Mutant of Shutdown: the object is given back before it is closed.
ShutdownFreesFirst(t) ==
  LET c == Top(t).c
      f == conn[c].fwd
      rest == <<Call("free", c), Call("close", c)>>
  IN  /\ Calls(t, "shutdown")
      /\ IF Depth(t) >= MaxDepth
         THEN Crash("overflow")
         ELSE /\ Return(t, CASE conn[c].port = "logic" ->
                                  <<[op |-> "closePorts", admin |-> conn[c].admin]>> \o rest
                             [] conn[c].port # "logic" /\ f # NULL ->
                                  <<Call("shutdown", f)>> \o rest
                             [] OTHER -> rest)
              /\ UNCHANGED <<links, pool, fault, sound>>
      /\ UNCHANGED <<batch, cmds, count>>

\* ActiveShutdown up to the close: an administrator's connection closes the
\* ports it opened, any other first shuts its forward connection down.
Shutdown(t) ==
  LET c == Top(t).c
      f == conn[c].fwd
      rest == <<Call("close", c), Call("free", c)>>
  IN  /\ Calls(t, "shutdown")
      /\ IF Depth(t) >= MaxDepth
         THEN Crash("overflow")
         ELSE /\ Return(t, CASE conn[c].port = "logic" ->
                                  <<[op |-> "closePorts", admin |-> conn[c].admin]>> \o rest
                             [] conn[c].port # "logic" /\ f # NULL ->
                                  <<Call("shutdown", f)>> \o rest
                             [] OTHER -> rest)
              /\ sound' = (sound /\ InUse(c) /\
                             (conn[c].port \in UserPort /\ f # NULL =>
                                conn[f].port = "forward" /\ conn[f].id = conn[c].id))
              /\ UNCHANGED <<links, pool, fault>>
      /\ UNCHANGED <<batch, cmds, count>>

\* close(fd), fd = -1, and the forwardConn = NULL before them.
CloseFd(t) ==
  LET c == Top(t).c
  IN  /\ Calls(t, "close")
      /\ conn' = [conn EXCEPT ![c] = [conn[c] EXCEPT
                    !.fd = FALSE,
                    !.fwd = IF conn[c].port = "logic" THEN conn[c].fwd ELSE NULL]]
      /\ Return(t, <<>>)
      /\ UNCHANGED <<workconn, unfully, adm, member, leaked, pool, batch, cmds, fault, count, sound>>

\* Mutants of FreeConnection: m_connection_work goes the way of
\* m_connection_free; the entry of m_workconn is cleared but not erased; it
\* is left there.
FreeCountsUp(t) ==
  /\ Calls(t, "free")
  /\ fconn' = Append(fconn, Top(t).c)
  /\ work' = work + 1
  /\ Return(t, <<>>)
  /\ UNCHANGED <<links, batch, cmds, fault, count, sound>>

FreeClearsEntry(t) ==
  LET c == Top(t).c
  IN  /\ Calls(t, "free")
      /\ workconn' = IF conn[c].port # "forward" /\ conn[c].id # NoName
                     THEN [workconn EXCEPT ![conn[c].id] = NULL]
                     ELSE workconn
      /\ fconn' = Append(fconn, c)
      /\ work' = work - 1
      /\ Return(t, <<>>)
      /\ UNCHANGED <<conn, unfully, adm, member, leaked, batch, cmds, fault, count, sound>>

FreeKeepsEntry(t) ==
  /\ Calls(t, "free")
  /\ fconn' = Append(fconn, Top(t).c)
  /\ work' = work - 1
  /\ Return(t, <<>>)
  /\ UNCHANGED <<links, batch, cmds, fault, count, sound>>

\* Free_connection, under m_connectMutex.
FreeConnection(t) ==
  LET c == Top(t).c
  IN  /\ Calls(t, "free")
      /\ workconn' = IF conn[c].port # "forward" /\ conn[c].id # NoName
                     THEN [workconn EXCEPT ![conn[c].id] = Absent]
                     ELSE workconn
      /\ fconn' = Append(fconn, c)
      /\ work' = work - 1
      /\ Return(t, <<>>)
      /\ UNCHANGED <<conn, unfully, adm, member, leaked, batch, cmds, fault, count, sound>>

\* Close_Sockets: the ports of the administrator, collected before any is closed.
ClosePorts(t) ==
  LET a == Top(t).admin
      mine == {p \in UserPort : adm[p] # NULL /\ conn[member[adm[p]].adcptr].admin = a}
  IN  /\ Calls(t, "closePorts")
      /\ Return(t, <<[op |-> "closeEach", ports |-> mine, admin |-> a]>>)
      /\ UNCHANGED <<links, pool, batch, cmds, fault, count, sound>>

\* Mutant of CloseEach: the loop does not advance.
CloseEachAgain(t) ==
  LET f == Top(t)
  IN  /\ Calls(t, "closeEach")
      /\ \/ f.ports = {} /\ Return(t, <<>>)
         \/ \E p \in f.ports :
              Return(t, <<[op |-> "closePort", port |-> p, admin |-> f.admin], f>>)
      /\ UNCHANGED <<links, pool, batch, cmds, fault, count, sound>>

\* The loop over them, in the order of the hash map.
CloseEach(t) ==
  LET f == Top(t)
  IN  /\ Calls(t, "closeEach")
      /\ \/ f.ports = {} /\ Return(t, <<>>)
         \/ \E p \in f.ports :
              Return(t, <<[op |-> "closePort", port |-> p, admin |-> f.admin],
                          [f EXCEPT !.ports = @ \ {p}]>>)
      /\ UNCHANGED <<links, pool, batch, cmds, fault, count, sound>>

\* Mutant of ClosePort: the entry of m_admin stays.
ClosePortKeepsEntry(t) ==
  LET p == Top(t).port
      m == adm[p]
      l == member[m].adcptr
  IN  /\ Calls(t, "closePort")
      /\ Return(t, IF m = NULL \/ conn[l].admin # Top(t).admin THEN <<>>
                   ELSE <<Call("shutdown", l), [op |-> "drain", m |-> m, port |-> p]>>)
      /\ UNCHANGED <<links, pool, batch, cmds, fault, count, sound>>

\* Close_Socket up to the first ActiveShutdown. Its find() and operator[] are two
\* steps: another thread at its own erase may take the entry away in between.
ClosePort(t) ==
  LET p == Top(t).port
      m == adm[p]
      l == member[m].adcptr
  IN  /\ Calls(t, "closePort")
      /\ \/ /\ m # NULL => conn[l].admin # Top(t).admin
            /\ Return(t, <<>>)
            /\ UNCHANGED <<links, pool, fault, sound>>
         \/ /\ m # NULL /\ conn[l].admin = Top(t).admin
            /\ Return(t, <<Call("shutdown", l), [op |-> "drain", m |-> m, port |-> p],
                           [op |-> "erase", port |-> p]>>)
            /\ sound' = (sound /\ conn[l].port = p /\ conn[l].handle = "accept")
            /\ UNCHANGED <<links, pool, fault>>
         \/ /\ m # NULL
            /\ \E u \in Thread \ {t} : Calls(u, "erase") /\ Top(u).port = p
            /\ Crash("null member")
      /\ UNCHANGED <<batch, cmds, count>>

\* while (!member->opened.empty()), tested without m_memberLock.
Drain(t) ==
  LET f == Top(t)
  IN  /\ Calls(t, "drain")
      /\ Return(t, IF member[f.m].opened = <<>> THEN <<>>
                   ELSE <<[f EXCEPT !.op = "pop"], f>>)
      /\ UNCHANGED <<links, pool, batch, cmds, fault, count, sound>>

\* front() and pop_front() under m_memberLock; undefined on an empty list.
PopUser(t) ==
  LET m == Top(t).m
      c == Head(member[m].opened)
  IN  /\ Calls(t, "pop")
      /\ IF member[m].opened = <<>>
         THEN Crash("empty list")
         ELSE /\ member' = [member EXCEPT ![m].opened = Tail(@)]
              /\ Return(t, <<Call("shutdown", c)>>)
              /\ sound' = (sound /\ InUse(c) /\ ~ Distributing(c)
                                 /\ conn[c].handle = "user" /\ conn[c].port = Top(t).port)
              /\ UNCHANGED <<conn, workconn, unfully, adm, leaked, pool, fault>>
      /\ UNCHANGED <<batch, cmds, count>>

ErasePort(t) ==
  /\ Calls(t, "erase")
  /\ adm' = [adm EXCEPT ![Top(t).port] = 0]
  /\ Return(t, <<>>)
  /\ UNCHANGED <<conn, workconn, unfully, member, leaked, pool, batch, cmds, fault, count, sound>>

\* The two halves of a lookup in m_workconn: find(), then operator[], which
\* inserts a null pointer when another thread erased the entry in between.
Find(k, use) == [op |-> "find", key |-> k, use |-> use]

FindEntry(t) ==
  LET f == Top(t)
  IN  /\ Calls(t, "find")
      /\ Return(t, IF f.key = NoName \/ workconn[f.key] = Absent THEN <<>>
                   ELSE <<[f EXCEPT !.op = "index"]>>)
      /\ UNCHANGED <<links, pool, batch, cmds, fault, count, sound>>

\* What is done with the connection found: Connection_Exit shuts it down,
\* MsgSend_StS/StU queue a message for it or, when too many are waiting for
\* it, shut it down, and ThreadReceive_Proc executes a command for it or, when
\* its checksum is wrong, drops it.
IndexEntry(t) ==
  LET f == Top(t)
      c == workconn[f.key]
  IN  /\ Calls(t, "index")
      /\ IF c = Absent
         THEN Crash("null connection")
         ELSE /\ \/ f.use.do \in {"evict", "send"} /\ Return(t, <<Call("shutdown", c)>>)
                 \/ f.use.do # "evict" /\ Return(t, <<>>)
                 \/ f.use.do \notin {"evict", "send"} /\
                    Return(t, <<[op |-> "dispatch", c |-> c, cmd |-> f.use]>>)
              /\ UNCHANGED <<links, pool, fault, sound>>
      /\ UNCHANGED <<batch, cmds, count>>

-----------------------------------------------------------------------------
(* The commands of the administrators, run by the pool thread. *)

\* ThreadFunc takes a message; ThreadReceive_Proc looks its sender up.
TakeCommand ==
  /\ Running /\ stack["pool"] = <<>> /\ cmds # <<>>
  /\ cmds' = Tail(cmds)
  /\ stack' = [stack EXCEPT !["pool"] = <<Find(Head(cmds).from, Head(cmds).cmd)>>]
  /\ UNCHANGED <<links, pool, batch, fault, count, sound>>

\* Handle_Command: the administrator is read from the connection now.
Dispatch(t) ==
  LET c == Top(t).c
      cmd == Top(t).cmd
      a == conn[c].admin
      reply == <<Call("reply", c)>>
  IN  /\ Calls(t, "dispatch")
      /\ Return(t, CASE cmd.do = "open" ->
                          <<[op |-> "establish", port |-> cmd.port, admin |-> a]>> \o reply
                     [] cmd.do = "close" ->
                          <<[op |-> "closePort", port |-> cmd.port, admin |-> a]>> \o reply
                     [] cmd.do = "closeAll" ->
                          <<[op |-> "closePorts", admin |-> a]>> \o reply
                     [] cmd.do = "exit" -> <<Find(a, [do |-> "evict"])>> \o reply
                     [] OTHER -> reply)
      /\ UNCHANGED <<links, pool, batch, cmds, fault, count, sound>>

\* PromptMsg_Send to the connection the command came from.
Reply(t) ==
  /\ Calls(t, "reply")
  /\ Return(t, <<Find(conn[Top(t).c].id, [do |-> "send"])>>)
  /\ UNCHANGED <<links, pool, batch, cmds, fault, count, sound>>

\* A socket of the port is open: bind fails, the sockets have no SO_REUSEADDR.
Bound(p) == \E c \in Conn : conn[c].fd /\ conn[c].port = p

\* Establish_listenSocket up to the epoll registration.
Establish(t) ==
  LET p == Top(t).port
  IN  /\ Calls(t, "establish")
      /\ \/ Return(t, <<>>) /\ UNCHANGED <<links, pool, fault, count, sound>>
         \/ /\ ~ Bound(p) /\ count.open < MaxOpen
            /\ IF fconn = <<>>
               THEN Crash("pool empty") /\ UNCHANGED count
               ELSE \E c \in Conn :
                      /\ count' = [count EXCEPT !.open = @ + 1]
                      /\ GetConnection(c, p, Top(t).admin, "accept")
                      /\ Return(t, <<[op |-> "publish", port |-> p, c |-> c]>>)
                      /\ UNCHANGED <<workconn, unfully, adm, member, work, fault>>
         \/ count.fail < MaxFail /\ Crash("exit(2)") /\ UNCHANGED count
      /\ UNCHANGED <<batch, cmds>>

\* Its end: the listener becomes known as m_admin[port].
Publish(t) ==
  LET f == Top(t)
  IN  /\ Calls(t, "publish")
      /\ \E m \in Member :
           /\ \A k \in Member : member[k].used <=> k < m
           /\ member' = [member EXCEPT ![m] = [used |-> TRUE, adcptr |-> f.c, opened |-> <<>>]]
           /\ adm' = [adm EXCEPT ![f.port] = m]
      /\ Return(t, <<>>)
      /\ UNCHANGED <<conn, workconn, unfully, leaked, pool, batch, cmds, fault, count, sound>>

-----------------------------------------------------------------------------
(* The epoll loop. *)

\* Objects an epoll event can carry: their descriptor is open, or one that
\* was overwritten still is.  A listener is ready while clients may come.  An
\* overwritten descriptor is ready for ever, and each time the object is
\* released once more: WorkConnections also bounds how often that is followed.
Ready == {c \in Conn : /\ conn[c].fd \/ (c \in leaked /\ Len(fconn) <= WorkConnections)
                       /\ conn[c].handle # "none"
                       /\ conn[c].handle = "accept" => count.accept < MaxAccept}

\* epoll_wait: a batch of events, at most one per object, in any order.
EpollWait ==
  /\ Running /\ stack["main"] = <<>> /\ batch = <<>>
  /\ \E n \in 1 .. MaxBatch : \E b \in [1 .. n -> Ready] :
       /\ \A i, j \in 1 .. n : i # j => b[i] # b[j]
       /\ batch' = b
  /\ UNCHANGED <<links, pool, cmds, stack, fault, count, sound>>

\* The handler of the next event of the batch starts with the calls fs.
Handles(fs) ==
  /\ stack' = [stack EXCEPT !["main"] = fs]
  /\ batch' = Tail(batch)

NextEvent(h) == /\ Running /\ stack["main"] = <<>> /\ batch # <<>>
                /\ conn[Head(batch)].handle \in h

\* The client that connects to port p: no two live clients of a port have
\* the same address and port; administrators' addresses carry no port.
Client(p) ==
  IF p \in UserPort
  THEN {u \in User : \A c \in Conn : ~ (conn[c].fd /\ conn[c].port = p /\ conn[c].id = u)}
  ELSE Admin

\* Event_accept up to the call of Id_Distribute.  Nothing is accepted on a
\* listener that was closed since the event was collected, or when busy.
Accept ==
  LET l == conn[Head(batch)]
  IN  /\ NextEvent({"accept"})
      /\ \/ /\ Handles(<<>>)
            /\ UNCHANGED <<links, pool, fault, count, sound>>
         \/ /\ l.fd /\ count.accept < MaxAccept /\ work < WorkConnections
            /\ \E peer \in Client(l.port) :
                 /\ IF fconn = <<>>
                    THEN Crash("pool empty") /\ UNCHANGED <<batch, count>>
                    ELSE \E c \in Conn :
                           /\ count' = [count EXCEPT !.accept = @ + 1]
                           /\ GetConnection(c, l.port, NoName,
                                            CASE l.port = "logic" -> "admin"
                                              [] l.port = "forward" -> "forward"
                                              [] OTHER -> "user")
                           /\ work' = work + 1
                           /\ Handles(<<[op |-> "distribute", c |-> c, peer |-> peer]>>)
                           /\ UNCHANGED <<workconn, unfully, adm, member, fault>>
      /\ UNCHANGED cmds

\* Event_accept when Epoll_Add_event fails: m_connection_work is not yet
\* incremented when the object is given back.
AcceptFails ==
  LET l == conn[Head(batch)]
  IN  /\ NextEvent({"accept"})
      /\ l.fd /\ count.accept < MaxAccept /\ count.fail < MaxFail
      /\ work < WorkConnections /\ fconn # <<>>
      /\ \E c \in Conn :
           /\ GetConnection(c, l.port, NoName,
                            CASE l.port = "logic" -> "admin"
                              [] l.port = "forward" -> "forward"
                              [] OTHER -> "user")
           /\ Handles(<<Call("shutdown", c)>>)
      /\ count' = [count EXCEPT !.accept = count.accept + 1, !.fail = count.fail + 1]
      /\ UNCHANGED <<workconn, unfully, adm, member, work, cmds, fault>>

\* Id_Distribute of an administrator's connection.
DistributeAdmin(t) ==
  LET c == Top(t).c
      a == Top(t).peer
  IN  /\ Calls(t, "distribute") /\ conn[c].port = "logic"
      /\ conn' = [conn EXCEPT ![c].admin = a, ![c].id = a,
                              ![c].fwd = IF workconn[a] = Absent THEN c ELSE @]
      /\ IF workconn[a] # Absent
         THEN Return(t, <<Call("shutdown", c)>>) /\ UNCHANGED <<workconn, unfully>>
         ELSE /\ workconn' = [workconn EXCEPT ![a] = c]
              /\ unfully' = [unfully EXCEPT ![a] = NULL]
              /\ Return(t, <<>>)
      /\ UNCHANGED <<adm, member, leaked, pool, batch, cmds, fault, count, sound>>

\* Id_Distribute of a forward connection: it waits for a user, in the place
\* of the one that waited before.
DistributeForward(t) ==
  LET c == Top(t).c
      a == Top(t).peer
  IN  /\ Calls(t, "distribute") /\ conn[c].port = "forward"
      /\ conn' = [conn EXCEPT ![c].admin = a]
      /\ IF unfully[a] = Absent
         THEN Return(t, <<Call("shutdown", c)>>) /\ UNCHANGED unfully
         ELSE unfully' = [unfully EXCEPT ![a] = c] /\ Return(t, <<>>)
      /\ UNCHANGED <<workconn, adm, member, leaked, pool, batch, cmds, fault, count, sound>>

\* Id_Distribute of a user up to the lock: it takes the waiting forward
\* connection of the administrator who opened the port, or is shut down.
DistributeUser(t) ==
  LET c == Top(t).c
      u == Top(t).peer
      m == adm[conn[c].port]
      a == conn[member[m].adcptr].admin
      f == unfully[a]
  IN  /\ Calls(t, "distribute") /\ conn[c].port \in UserPort
      /\ IF m = NULL
         THEN Crash("unpublished port")
         ELSE /\ conn' = [conn EXCEPT ![c].admin = a, ![c].id = u]
              /\ IF a = NoName \/ f \in {Absent, NULL}
                 THEN Return(t, <<Call("shutdown", c)>>) /\ UNCHANGED unfully
                 ELSE /\ unfully' = [unfully EXCEPT ![a] = NULL]
                      /\ Return(t, <<[op |-> "link", c |-> c, peer |-> u, fwd |-> f],
                                     Call("notify", c)>>)
              /\ UNCHANGED <<workconn, adm, member, leaked, pool, fault, sound>>
      /\ UNCHANGED <<batch, cmds, count>>

\* Under m_connectMutex and m_memberLock: the two are linked and the user
\* enters m_workconn and the list of its port, looked up once more.
Link(t) ==
  LET c == Top(t).c
      u == Top(t).peer
      f == Top(t).fwd
      m == adm[conn[c].port]
  IN  /\ Calls(t, "link")
      /\ IF m = NULL
         THEN Crash("unpublished port")
         ELSE /\ conn' = [conn EXCEPT ![f].id = u, ![c].fwd = f]
              /\ workconn' = [workconn EXCEPT ![u] = c]
              /\ member' = [member EXCEPT ![m].opened = Append(@, c)]
              /\ Return(t, <<>>)
              /\ sound' = (sound /\ InUse(f) /\ conn[f].port = "forward"
                                 /\ conn[f].id = NoName /\ conn[f].admin = conn[c].admin)
              /\ UNCHANGED <<unfully, adm, leaked, pool, fault>>
      /\ UNCHANGED <<batch, cmds, count>>

\* The end of Id_Distribute: tell the administrator of the new user.
NotifyAdmin(t) ==
  LET a == conn[Top(t).c].admin
  IN  /\ Calls(t, "notify")
      /\ IF a = NoName \/ workconn[a] = Absent
         THEN Crash("administrator gone")
         ELSE /\ Return(t, <<Find(conn[workconn[a]].id, [do |-> "send"])>>)
              /\ UNCHANGED <<links, pool, fault, sound>>
      /\ UNCHANGED <<batch, cmds, count>>

\* Read_requestHandle fails: the peer closed, nothing was there to read, the
\* flood test refused the peer, or the descriptor is closed already.
ReadFails ==
  /\ NextEvent({"admin", "forward", "user"})
  /\ Handles(<<Call("shutdown", Head(batch))>>)
  /\ sound' = (sound /\ conn[Head(batch)].fd)
  /\ UNCHANGED <<links, pool, cmds, fault, count>>

\* AdminRequest_Handle: a malformed package is dropped, a good one queued.
ReadCommand ==
  LET c == Head(batch)
  IN  /\ NextEvent({"admin"}) /\ conn[c].fd
      /\ Handles(<<>>)
      /\ \/ UNCHANGED <<cmds, count>>
         \/ \E cmd \in Command :
              /\ count.command < MaxCommand
              /\ count' = [count EXCEPT !.command = @ + 1]
              /\ cmds' = Append(cmds, [from |-> conn[c].id, cmd |-> cmd])
      /\ UNCHANGED <<links, pool, fault, sound>>

\* MessageForward_Handle and UserMessage_Handle: what was read is sent on in
\* the name of the id both ends of a link share, but a malformed package of a
\* client is dropped.
ReadMessage ==
  LET c == Head(batch)
  IN  /\ NextEvent({"forward", "user"}) /\ conn[c].fd
      /\ \/ Handles(<<Find(conn[c].id, [do |-> "send"])>>)
         \/ conn[c].handle = "forward" /\ Handles(<<>>)
      /\ UNCHANGED <<links, pool, cmds, fault, count, sound>>

-----------------------------------------------------------------------------
ReleaseStep(t) ==
  \/ Shutdown(t) \/ CloseFd(t) \/ FreeConnection(t) \/ FindEntry(t) \/ IndexEntry(t)
  \/ ClosePorts(t) \/ CloseEach(t) \/ ClosePort(t) \/ Drain(t) \/ PopUser(t) \/ ErasePort(t)

LoopStep ==
  \/ DistributeAdmin("main") \/ DistributeForward("main") \/ DistributeUser("main")
  \/ Link("main") \/ NotifyAdmin("main") \/ ReleaseStep("main")

CommandStep ==
  \/ Dispatch("pool") \/ Reply("pool") \/ Establish("pool") \/ Publish("pool")
  \/ ReleaseStep("pool")

Event == Accept \/ AcceptFails \/ ReadFails \/ ReadCommand \/ ReadMessage

Next == EpollWait \/ Event \/ LoopStep \/ TakeCommand \/ CommandStep

Spec == Init /\ [][Next]_vars

\* A thread that runs goes on running: no call of these handlers waits for
\* anything but a short critical section, as long as the sending queues, which
\* are not modelled here, are not full.
FairSpec == Spec /\ WF_vars(LoopStep) /\ WF_vars(CommandStep)

-----------------------------------------------------------------------------
(* Properties. *)

\* Every variable has its type; the only type invariant of the module.
TypeOK ==
  /\ conn \in [Conn -> Connection]
  /\ fconn \in Seq(Conn)
  /\ work \in Int
  /\ workconn \in [Name -> Conn \cup {Absent}]
  /\ unfully \in [Admin -> Conn \cup {NULL, Absent}]
  /\ adm \in [UserPort -> Member \cup {NULL}]
  /\ member \in [Member -> [used : BOOLEAN, adcptr : Conn, opened : Seq(Conn)]]
  /\ leaked \subseteq Conn
  /\ batch \in Seq(Conn)
  /\ cmds \in Seq([from : Name \cup {NoName}, cmd : Command])
  /\ stack \in [Thread -> Seq(Frame)]
  /\ fault \in Fault
  /\ count \in [accept : Nat, command : Nat, open : Nat, fail : Nat]
  /\ sound \in BOOLEAN

\* What m_connection_work really counts (Event_accept, Free_connection): a
\* listener's object leaves the pool without ++ and comes back with --, and
\* so does that of a failed registration, so every port ever opened and
\* every such failure lowers the counter for good, whatever else happens,
\* double releases included.
WorkConserved ==
  work + Len(fconn) + count.open + count.fail = WorkConnections - 2

\* Hence the limit of Event_accept (Accept.cpp:84) never refuses a client:
\* the pool is empty before the counter gets there.
BusyNeverRefuses == work < WorkConnections

\* Until a release is repeated or a dead pointer followed, the free list
\* holds every object at most once, closed, and released by nobody else.
FreeListSound ==
  sound => /\ \A i, j \in 1 .. Len(fconn) : fconn[i] = fconn[j] => i = j
           /\ \A c \in Entries(fconn) : ~ conn[c].fd /\ ~ Released(c)

\* Until then m_workconn, through which every message and command finds its
\* connection, maps an id only to an object that bears the id and is not in
\* the free list (Id_Distribute and Free_connection keep it, across threads).
WorkTableExact ==
  sound => \A k \in Name : workconn[k] # Absent =>
             /\ conn[workconn[k]].id = k
             /\ conn[workconn[k]].port # "forward"
             /\ workconn[k] \notin Entries(fconn)

\* Until then an entry of m_admin stands for a listener that is open, unless
\* some thread is about to erase it: Close_Socket drops the two in two steps.
PortTableExact ==
  sound => \A p \in UserPort : adm[p] # NULL =>
             LET l == conn[member[adm[p]].adcptr]
             IN  \/ l.fd /\ l.handle = "accept" /\ l.port = p
                 \/ \E t \in Thread : [op |-> "erase", port |-> p] \in Frames(t)

\* Every call of a handler or a command returns, cascades of shutdowns
\* included, unless the process dies in it.
CallsReturn ==
  \A t \in Thread : stack[t] # <<>> ~> stack[t] = <<>> \/ ~ Running

\* "If the free list has no connection, create one and return it"
\* (Connection.cpp:93): running out of pooled objects kills nobody.
GrowsOnDemand == fault # "pool empty"

\* m_fconnection is the list of the free connections (TcpSock.h:257): none
\* is in it twice.
FreeOnce == \A i, j \in 1 .. Len(fconn) : fconn[i] = fconn[j] => i = j

\* Shutting an administrator's connection down closes the ports it opened
\* (Connection.cpp:144): when no call or command is pending, the
\* administrator of an open listener has an open connection.
NoOrphanPort ==
  Running /\ cmds = <<>> /\ (\A t \in Thread : stack[t] = <<>>) =>
    \A l \in Conn : conn[l].fd /\ conn[l].handle = "accept" /\ conn[l].port \in UserPort =>
      \E c \in Conn : conn[c].fd /\ conn[c].handle = "admin" /\ conn[c].admin = conn[l].admin

\* Closing a port also closes the connections that came in on it
\* (TcpSock.h:191): when no call or command is pending, an open connection of
\* a user is one of a port that is open.
NoStrayUser ==
  Running /\ cmds = <<>> /\ (\A t \in Thread : stack[t] = <<>>) =>
    \A c \in Conn : conn[c].fd /\ conn[c].handle = "user" => adm[conn[c].port] # NULL

=============================================================================
