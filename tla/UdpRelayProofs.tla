--------------------------- MODULE UdpRelayProofs ---------------------------
(***************************************************************************)
(* UdpRelay for every number of objects, ports, administrators, clients,   *)
(* ids and registrations: its types, and that no registration leaks.       *)
(***************************************************************************)
EXTENDS UdpRelay, SequenceTheorems, FiniteSetTheorems, TLAPS

-----------------------------------------------------------------------------
(* The types, stronger than TypeOK where a step needs it. *)

Ptr == [obj : Object, gen : 0 .. MaxOpens]

Conn == [bound : Port \cup {"none"}, port : Port \cup {"none"},
         admin : Admin \cup {"sys", "none"}, forward : BOOLEAN,
         msg_id : 0 .. MaxId + 1, gen : 0 .. MaxOpens]

Reg == [addr : Addr, port : Port \cup {"none"}, id : Id,
        timed : {"fresh", "stale", "zero"}, live : BOOLEAN]

Task == [pc : {"idle", "name", "publish", "close", "free", "forget", "delete", "look", "handle"},
         todo : Seq(Ptr), port : Port \cup {"none"}, admin : Admin \cup {"none"}]

Forwarded == [pc : {"port", "find", "admin", "send"}, msg : Package, obj : 0 .. Objects, reg : Nat]

Sender == [pc : {"idle", "port", "find id", "id", "find addr", "addr", "send"}, msg : Package \cup {NoPackage},
           obj : [obj : 0 .. Objects, gen : 0 .. MaxOpens], addr : Addr \cup {"none"}, reg : Nat]

PortsTyped == /\ free \in Seq(Object)
              /\ conn \in [Object -> Conn]
              /\ workconn \in [Port -> 0 .. Objects]

TablesTyped == /\ csinfo \in [Object -> [Addr -> 0 .. Len(reg)]]
               /\ auxinfo \in [Object -> [Id -> Addr \cup {"none"}]]
               /\ reg \in Seq(Reg)
               /\ checkQ \subseteq DOMAIN reg /\ heartQ \subseteq DOMAIN reg

TaskTyped ==
  /\ task \in [Thread -> Task]
  /\ \A t \in Thread :
       /\ task[t].pc \notin {"idle", "forget", "look"} => task[t].todo # <<>>
       /\ task[t].pc \in {"forget", "delete"} => task[t].admin \in Admin
       /\ task[t].pc = "look" => task[t].port \in Port

SenderTyped ==
  /\ sender \in Sender
  /\ sender.pc # "idle" => sender.msg \in Package
  /\ sender.pc \notin {"idle", "port"} => sender.obj.obj \in Object
  /\ sender.pc \in {"find addr", "addr", "send"} => sender.addr \in Addr
  /\ sender.pc = "send" => sender.reg \in DOMAIN reg

ForwardingTyped ==
  \A f \in forwarding :
    /\ f \in Forwarded
    /\ f.pc # "port" => f.obj \in Object
    /\ f.pc = "admin" => f.msg.admin \in Admin
    /\ f.pc = "send" => f.reg \in DOMAIN reg

RelayTyped == /\ SenderTyped /\ ForwardingTyped
              /\ packages \cup told \cup answers \subseteq Package /\ astray \subseteq {"found", "freed"}

RestTyped ==
  /\ fault \in {"none", "pool empty", "no forward port", "null connection",
                "null registration", "deleted registration", "expiry at a closed port",
                "expiry at an unpublished port"}
  /\ made \subseteq Object \X (Addr \cup Id)
  /\ count \in [open : 0 .. MaxOpens, close : 0 .. MaxCloses]
  /\ sound \in BOOLEAN

Typed == PortsTyped /\ TablesTyped /\ TaskTyped /\ RelayTyped /\ RestTyped

\* A registration is in at most one place of one table, under its own address,
\* and administrators' clients are those the heartbeat thread frees.
Placed ==
  /\ \A o \in Object, x \in Addr : csinfo[o][x] # 0 => reg[csinfo[o][x]].addr = x
  /\ \A o, q \in Object, x \in Addr : csinfo[o][x] # 0 /\ csinfo[o][x] = csinfo[q][x] => o = q
  /\ \A r \in checkQ : reg[r].addr \in Client
  /\ \A r \in heartQ : reg[r].addr \in Admin

-----------------------------------------------------------------------------
(* Types. *)

LEMMA InitTyped == Init => Typed
<1> SUFFICES ASSUME Init PROVE Typed
  OBVIOUS
<1> USE NameAssumption, PortAssumption, NumberAssumption DEF Init
<1>1. PortsTyped
  <2>1. free \in Seq(Object)
    BY DEF Object
  <2>2. conn \in [Object -> Conn]
    BY DEF Conn, Object, Port
  <2>3. workconn \in [Port -> 0 .. Objects]
    OBVIOUS
  <2> QED
    BY <2>1, <2>2, <2>3 DEF PortsTyped
<1>2. TablesTyped
  BY DEF TablesTyped
<1>3. TaskTyped
  BY DEF TaskTyped, Task, Idle
<1>4. RelayTyped
  <2>1. sender \in Sender
    BY DEF Sender, Asleep, NoObject
  <2>2. sender.pc = "idle"
    BY DEF Asleep
  <2>3. SenderTyped
    BY <2>1, <2>2 DEF SenderTyped
  <2>4. packages \cup told \cup answers \subseteq Package
    OBVIOUS
  <2>5. astray \subseteq {"found", "freed"}
    OBVIOUS
  <2> QED
    BY <2>3, <2>4, <2>5 DEF RelayTyped, ForwardingTyped
<1>5. RestTyped
  BY DEF RestTyped
<1> QED
  BY <1>1, <1>2, <1>3, <1>4, <1>5 DEF Typed

\* The objects a thread has to close are pointers.
LEMMA TodoHead ==
  ASSUME Typed, NEW t \in Thread, task[t].todo # <<>>
  PROVE  /\ Head(task[t].todo) \in Ptr /\ Tail(task[t].todo) \in Seq(Ptr)
         /\ Head(task[t].todo).obj \in Object
<1>1. task[t].todo \in Seq(Ptr)
  BY DEF Typed, TaskTyped, Task
<1>2. Head(task[t].todo) \in Ptr /\ Tail(task[t].todo) \in Seq(Ptr)
  BY <1>1
<1> QED
  BY <1>2 DEF Ptr

LEMMA PointerTyped == ASSUME Typed, NEW o \in Object PROVE Pointer(o) \in Ptr
BY DEF Typed, PortsTyped, Conn, Pointer, Ptr

LEMMA OpenedTyped ==
  ASSUME Typed, NEW a \in Admin, NEW todo \in Opened(a)
  PROVE  todo \in Seq(Ptr)
<1> DEFINE his == {p \in Port : workconn[p] # 0 /\ conn[workconn[p]].admin = a}
<1>1. IsFiniteSet(his)
  <2>1. IsFiniteSet(Port)
    BY PortAssumption, FS_AddElement DEF Port
  <2> QED
    BY <2>1, FS_Subset
<1>2. Cardinality(his) \in Nat
  BY <1>1, FS_CardinalityType
<1>3. PICK f \in [1 .. Cardinality(his) -> his] : todo = [i \in DOMAIN f |-> Pointer(workconn[f[i]])]
  BY DEF Opened
<1>4. \A i \in 1 .. Cardinality(his) : workconn[f[i]] \in Object
  BY NumberAssumption DEF Typed, PortsTyped, Object
<1>5. \A i \in 1 .. Cardinality(his) : Pointer(workconn[f[i]]) \in Ptr
  BY <1>4, PointerTyped
<1>6. DOMAIN f = 1 .. Cardinality(his)
  OBVIOUS
<1>7. todo \in [1 .. Cardinality(his) -> Ptr]
  BY <1>3, <1>5, <1>6, Zenon
<1> QED
  BY <1>2, <1>7, SeqDef

\* A thread that begins to close ports, or goes on to the next.
LEMMA ClosesTyped ==
  ASSUME Typed, NEW t \in Thread, NEW todo \in Seq(Ptr), NEW forgets \in Admin \cup {"none"},
         Closes(t, todo, forgets)
  PROVE  TaskTyped'
BY DEF Typed, TaskTyped, Task, Closes, Idle

LEMMA ReleasedTyped ==
  ASSUME Typed, NEW t \in Thread, task[t].todo # <<>>, Released(t)
  PROVE  TaskTyped'
<1> DEFINE new == task'[t]
<1>1. Tail(task[t].todo) \in Seq(Ptr)
  BY TodoHead
<1>2. task \in [Thread -> Task] /\ task' \in [Thread -> {task[u] : u \in Thread} \cup {new}]
  BY DEF Typed, TaskTyped, Released
<1>3. \A u \in Thread \ {t} : task'[u] = task[u]
  BY <1>2 DEF Released
<1>4. CASE Tail(task[t].todo) # <<>>
  <2>1. new = [task[t] EXCEPT !.pc = "close", !.todo = Tail(task[t].todo)]
    BY <1>2, <1>4 DEF Released
  <2>2. task[t] \in Task
    BY <1>2
  <2>3. new \in Task /\ new.pc = "close" /\ new.todo # <<>>
    <3> HIDE DEF new
    <3> QED
      BY <1>1, <1>4, <2>1, <2>2 DEF Task
  <2> HIDE DEF new
  <2> QED
    BY <1>2, <1>3, <2>3 DEF Typed, TaskTyped
<1>5. CASE Tail(task[t].todo) = <<>> /\ task[t].admin # "none"
  <2>1. new = [task[t] EXCEPT !.pc = "forget", !.todo = <<>>]
    BY <1>2, <1>5 DEF Released
  <2>2. task[t] \in Task
    BY <1>2
  <2>3. new \in Task /\ new.pc = "forget" /\ new.admin \in Admin
    <3>1. <<>> \in Seq(Ptr)
      OBVIOUS
    <3>2. task[t].admin \in Admin
      BY <1>5, <2>2 DEF Task
    <3> HIDE DEF new
    <3> QED
      BY <2>1, <2>2, <3>1, <3>2 DEF Task
  <2> HIDE DEF new
  <2> QED
    BY <1>2, <1>3, <2>3 DEF Typed, TaskTyped
<1>6. CASE Tail(task[t].todo) = <<>> /\ task[t].admin = "none"
  <2>1. new = Idle
    BY <1>2, <1>6 DEF Released
  <2>2. new \in Task /\ new.pc = "idle"
    BY <2>1 DEF Idle, Task
  <2> HIDE DEF new
  <2> QED
    BY <1>2, <1>3, <2>2 DEF Typed, TaskTyped
<1> QED
  BY <1>4, <1>5, <1>6

\* What a registration does to the tables.
LEMMA RegisterTyped ==
  ASSUME Typed, NEW o \in Object, NEW x \in Addr, Register(o, x)
  PROVE  /\ conn' \in [Object -> Conn]
         /\ csinfo' \in [Object -> [Addr -> 0 .. Len(reg')]]
         /\ auxinfo' \in [Object -> [Id -> Addr \cup {"none"}]]
         /\ reg' \in Seq(Reg) /\ Len(reg') = Len(reg) + 1 /\ Len(reg) \in Nat
         /\ DOMAIN reg \subseteq DOMAIN reg' /\ Len(reg') \in DOMAIN reg'
         /\ csinfo'[o][x] = Len(reg')
         /\ sound' \in BOOLEAN /\ made' \subseteq Object \X (Addr \cup Id)
<1> USE NumberAssumption DEF Register
<1> DEFINE id == IF conn[o].msg_id > MaxId THEN 0 ELSE conn[o].msg_id
           new == [addr |-> x, port |-> task["udp"].port, id |-> id, timed |-> "fresh", live |-> TRUE]
<1>1. conn[o] \in Conn /\ MaxId \in Nat
  BY DEF Typed, PortsTyped
<1>2. id \in Id /\ id + 1 \in 0 .. MaxId + 1
  BY <1>1, SMTT(30) DEF Conn, Id
<1>3. new \in Reg
  <2>1. task["udp"].port \in Port \cup {"none"}
    BY DEF Typed, TaskTyped, Task, Thread
  <2> QED
    BY <1>2, <2>1 DEF Reg
<1>4. reg \in Seq(Reg) /\ reg' = Append(reg, new)
  BY DEF Typed, TablesTyped
<1>5. reg' \in Seq(Reg) /\ Len(reg') = Len(reg) + 1 /\ Len(reg) \in Nat
  BY <1>3, <1>4
<1>6. DOMAIN reg \subseteq DOMAIN reg' /\ Len(reg') \in DOMAIN reg'
  BY <1>4, <1>5
<1>7. conn' \in [Object -> Conn]
  <2>1. conn \in [Object -> Conn] /\ conn' = [conn EXCEPT ![o].msg_id = id + 1]
    BY DEF Typed, PortsTyped
  <2> HIDE DEF Register, id
  <2>2. [conn[o] EXCEPT !.msg_id = id + 1] \in Conn
    BY <1>1, <1>2 DEF Conn
  <2> QED
    BY <2>1, <2>2
<1>8. csinfo' \in [Object -> [Addr -> 0 .. Len(reg')]] /\ csinfo'[o][x] = Len(reg')
  <2>1. csinfo \in [Object -> [Addr -> 0 .. Len(reg')]]
    BY <1>5 DEF Typed, TablesTyped
  <2>2. csinfo' = [csinfo EXCEPT ![o][x] = Len(reg')] /\ Len(reg') \in 0 .. Len(reg')
    BY <1>5
  <2> QED
    BY <2>1, <2>2
<1>9. auxinfo' \in [Object -> [Id -> Addr \cup {"none"}]]
  BY <1>2 DEF Typed, TablesTyped
<1>10. sound' \in BOOLEAN /\ made' \subseteq Object \X (Addr \cup Id)
  BY DEF Unless, Typed, RestTyped
<1> QED
  BY <1>5, <1>6, <1>7, <1>8, <1>9, <1>10

LEMMA CrashTyped ==
  ASSUME Typed, NEW why, Crash(why),
         why \in {"no forward port", "null connection", "null registration",
                  "deleted registration", "expiry at a closed port",
                  "expiry at an unpublished port"}
  PROVE  Typed'
BY DEF Typed, PortsTyped, TablesTyped, TaskTyped, RelayTyped, SenderTyped, ForwardingTyped,
       RestTyped, Crash, ports, tables, relay

\* What most steps leave alone.
LEMMA SameTyped ==
  /\ PortsTyped /\ UNCHANGED ports => PortsTyped'
  /\ TablesTyped /\ UNCHANGED tables => TablesTyped'
  /\ TaskTyped /\ UNCHANGED task => TaskTyped'
  /\ RelayTyped /\ TablesTyped /\ UNCHANGED <<relay, reg>> => RelayTyped'
BY DEF PortsTyped, TablesTyped, TaskTyped, RelayTyped, SenderTyped, ForwardingTyped, ports,
       tables, relay

\* More registrations do no harm to the senders.
LEMMA RelayKept ==
  ASSUME RelayTyped, UNCHANGED <<sender, forwarding, astray>>, DOMAIN reg \subseteq DOMAIN reg',
         (packages \cup told \cup answers)' \subseteq Package
  PROVE  RelayTyped'
<1>1. SenderTyped'
  BY DEF RelayTyped, SenderTyped
<1>2. ForwardingTyped'
  BY DEF RelayTyped, ForwardingTyped
<1> QED
  BY <1>1, <1>2 DEF RelayTyped

\* Records with some fields changed.
LEMMA OpenedConn ==
  ASSUME NEW c \in Conn, NEW p \in Port, NEW g \in 0 .. MaxOpens
  PROVE  [c EXCEPT !.bound = p, !.forward = FALSE, !.msg_id = 0, !.gen = g] \in Conn
<1>1. 0 \in 0 .. MaxId + 1 /\ FALSE \in BOOLEAN /\ p \in Port \cup {"none"}
  BY NumberAssumption
<1> QED
  BY <1>1 DEF Conn

Count == [open : 0 .. MaxOpens, close : 0 .. MaxCloses]

LEMMA Counted ==
  ASSUME NEW c \in Count, NEW n
  PROVE  /\ c.open < MaxOpens /\ n = [c EXCEPT !.open = @ + 1] => n \in Count /\ n.open = c.open + 1
         /\ c.close < MaxCloses /\ n = [c EXCEPT !.close = @ + 1] => n \in Count /\ n.open = c.open
<1>1. /\ MaxOpens \in Nat /\ c.open \in 0 .. MaxOpens
      /\ MaxCloses \in Nat /\ c.close \in 0 .. MaxCloses
  BY NumberAssumption DEF Count
<1> QED
  BY <1>1 DEF Count

LEMMA NamedConn ==
  ASSUME NEW c \in Conn, NEW a \in Admin \cup {"none"}, NEW p \in Port \cup {"none"}
  PROVE  [c EXCEPT !.admin = a, !.port = p] \in Conn
BY DEF Conn

Time == {"fresh", "stale", "zero"}

\* n is s but for the time of r, now z.
TimedAs(n, s, r, z) ==
  /\ Len(n) = Len(s) /\ DOMAIN n = DOMAIN s
  /\ \A i \in DOMAIN s : /\ n[i].addr = s[i].addr /\ n[i].port = s[i].port
                        /\ n[i].id = s[i].id /\ n[i].live = s[i].live
                        /\ n[i].timed = IF i = r THEN z ELSE s[i].timed

LEMMA Retimed ==
  ASSUME NEW s \in Seq(Reg), NEW r \in 1 .. Len(s), NEW z \in Time,
         NEW n, n = [s EXCEPT ![r].timed = z]
  PROVE  n \in Seq(Reg) /\ TimedAs(n, s, r, z)
<1> DEFINE x == [s[r] EXCEPT !.timed = z]
<1>1. s[r] \in Reg
  OBVIOUS
<1>2. x \in Reg
  BY <1>1 DEF Reg, Time
<1>3. /\ x.addr = s[r].addr /\ x.port = s[r].port /\ x.id = s[r].id /\ x.live = s[r].live
      /\ x.timed = z
  BY <1>1 DEF Reg
<1>4. n = [s EXCEPT ![r] = x]
  OBVIOUS
<1>5. n \in Seq(Reg) /\ Len(n) = Len(s) /\ DOMAIN n = DOMAIN s
  <2> HIDE DEF x
  <2> QED
    BY <1>2, <1>4
<1>6. \A i \in DOMAIN s : n[i] = IF i = r THEN x ELSE s[i]
  <2> HIDE DEF x
  <2> QED
    BY <1>4
<1> QED
  <2> HIDE DEF x
  <2> QED
    BY <1>3, <1>5, <1>6 DEF TimedAs

LEMMA EstablishTyped ==
  ASSUME Typed, NEW p \in UserPort, NEW a \in Admin, Establish(p, a)
  PROVE  Typed'
<1> USE NumberAssumption DEF Establish
<1>1. TablesTyped' /\ RelayTyped'
  BY SameTyped DEF Typed, tables
<1>2. count' \in [open : 0 .. MaxOpens, close : 0 .. MaxCloses]
  <2>1. count' = [count EXCEPT !.open = @ + 1] /\ count.open < MaxOpens /\ count \in Count
    BY DEF Typed, RestTyped, Count
  <2> HIDE DEF Establish
  <2> QED
    BY <2>1, Counted DEF Count
<1>3. CASE free = <<>>
  BY <1>1, <1>2, <1>3, SameTyped DEF Typed, RestTyped
<1>4. CASE free # <<>>
  <2> DEFINE o == Head(free)
             c == [conn[o] EXCEPT !.bound = p, !.forward = FALSE, !.msg_id = 0, !.gen = count'.open]
             x == [obj |-> o, gen |-> count'.open]
  <2>1. o \in Object /\ Tail(free) \in Seq(Object) /\ count'.open \in 0 .. MaxOpens
    BY <1>2, <1>4 DEF Typed, PortsTyped
  <2>2. c \in Conn
    BY <2>1, OpenedConn DEF Typed, PortsTyped, Port
  <2>3. conn' = [conn EXCEPT ![o] = c]
    BY <1>4, <2>1 DEF Typed, PortsTyped
  <2>4. PortsTyped'
    <3> HIDE DEF c
    <3> QED
      BY <1>4, <2>1, <2>2, <2>3 DEF Typed, PortsTyped
  <2>5. TaskTyped'
    <3>1. x \in Ptr /\ <<x>> \in Seq(Ptr) /\ <<x>> # <<>>
      BY <2>1 DEF Ptr
    <3>2. task' = [task EXCEPT !["pool"] = [pc |-> "name", todo |-> <<x>>, port |-> p, admin |-> a]]
      BY <1>4
    <3>3. p \in Port
      BY DEF Port
    <3> HIDE DEF x
    <3> QED
      BY <3>1, <3>2, <3>3 DEF Typed, TaskTyped, Task
  <2>6. sound' \in BOOLEAN /\ fault' = fault
    BY <1>4 DEF Typed, RestTyped, Unless
  <2> QED
    BY <1>1, <1>2, <2>4, <2>5, <2>6 DEF Typed, RestTyped
<1> QED
  BY <1>3, <1>4

LEMMA NameTyped == Typed /\ Name => Typed'
<1> SUFFICES ASSUME Typed, Name PROVE Typed'
  OBVIOUS
<1> DEFINE o == Head(task["pool"].todo).obj
           c == [conn[o] EXCEPT !.admin = task["pool"].admin, !.port = task["pool"].port]
<1>1. TablesTyped' /\ RelayTyped' /\ RestTyped'
  BY SameTyped DEF Typed, tables, Name, RestTyped
<1>2. task["pool"].todo # <<>> /\ "pool" \in Thread /\ task["pool"] \in Task
  BY DEF Name, At, Typed, TaskTyped, Thread
<1>3. o \in Object
  BY <1>2, TodoHead
<1>4. c \in Conn
  BY <1>2, <1>3, NamedConn DEF Typed, PortsTyped, Task, Port
<1>5. conn' = [conn EXCEPT ![o] = c]
  BY <1>3 DEF Name, Typed, PortsTyped
<1>6. PortsTyped'
  <2> HIDE DEF c, o
  <2> QED
    BY <1>3, <1>4, <1>5 DEF Typed, PortsTyped, Name
<1>7. TaskTyped'
  BY <1>2 DEF Typed, TaskTyped, Task, Name, At
<1> QED
  BY <1>1, <1>6, <1>7 DEF Typed

LEMMA PublishTyped == Typed /\ Publish => Typed'
<1> SUFFICES ASSUME Typed, Publish PROVE Typed'
  OBVIOUS
<1> USE DEF Publish
<1>1. TablesTyped' /\ RelayTyped'
  BY SameTyped DEF Typed, tables
<1>2. task["pool"].todo # <<>> /\ "pool" \in Thread
  BY DEF At, Typed, TaskTyped, Thread
<1>3. Head(task["pool"].todo).obj \in 0 .. Objects
  BY <1>2, TodoHead, NumberAssumption DEF Object
<1>4. PortsTyped'
  BY <1>3 DEF Typed, PortsTyped
<1>5. TaskTyped'
  BY <1>2 DEF Typed, TaskTyped, Task, Idle
<1>6. RestTyped'
  BY DEF Typed, RestTyped, Unless
<1> QED
  BY <1>1, <1>4, <1>5, <1>6 DEF Typed

LEMMA ClosingTyped == ASSUME RestTyped, Closing, UNCHANGED <<fault, sound, made>> PROVE RestTyped'
<1>1. count' \in Count
  BY Counted DEF RestTyped, Closing, Count
<1> QED
  BY <1>1 DEF RestTyped, Count

LEMMA CloseSocketTyped ==
  ASSUME Typed, NEW p \in UserPort, NEW a \in Admin, CloseSocket(p, a)
  PROVE  Typed'
<1> USE DEF CloseSocket
<1> DEFINE x == [pc |-> "look", todo |-> <<>>, port |-> p, admin |-> a]
<1>1. TaskTyped'
  <2>1. task' = [task EXCEPT !["pool"] = x] /\ p \in Port /\ <<>> \in Seq(Ptr)
    BY DEF Port
  <2>2. x \in Task /\ x.pc = "look" /\ x.port \in Port
    BY <2>1 DEF Task
  <2> HIDE DEF x
  <2> QED
    BY <2>1, <2>2 DEF Typed, TaskTyped
<1>2. RestTyped'
  BY ClosingTyped DEF Typed
<1> QED
  BY <1>1, <1>2, SameTyped DEF Typed, tables

LEMMA LookedTyped == Typed /\ Looked => Typed'
<1> SUFFICES ASSUME Typed, Looked PROVE Typed'
  OBVIOUS
<1> DEFINE o == workconn[task["pool"].port]
           todo == IF conn[o].admin = task["pool"].admin THEN <<Pointer(o)>> ELSE <<>>
<1>1. CASE Crash("null connection")
  BY <1>1, CrashTyped
<1>2. CASE ~ Crash("null connection")
  <2>1. /\ o # 0 /\ Closes("pool", todo, "none")
        /\ UNCHANGED <<ports, tables, made, relay, fault, count, sound>>
    BY <1>2 DEF Looked
  <2>2. task["pool"].port \in Port
    BY DEF Looked, At, Typed, TaskTyped, Thread
  <2>3. o \in Object
    BY <2>1, <2>2, NumberAssumption DEF Typed, PortsTyped, Object
  <2>4. todo \in Seq(Ptr)
    BY <2>3, PointerTyped
  <2> HIDE DEF todo
  <2>5. TaskTyped'
    BY <2>1, <2>4, ClosesTyped DEF Thread
  <2>6. RestTyped'
    BY <2>1 DEF Typed, RestTyped
  <2> QED
    BY <2>1, <2>5, <2>6, SameTyped DEF Typed, tables
<1> QED
  BY <1>1, <1>2

LEMMA CloseAllTyped == ASSUME Typed, NEW a \in Admin, CloseAll(a) PROVE Typed'
<1> USE DEF CloseAll
<1>1. PICK todo \in Opened(a) : Closes("pool", todo, "none")
  OBVIOUS
<1>2. TaskTyped'
  BY <1>1, OpenedTyped, ClosesTyped DEF Thread
<1>3. RestTyped'
  BY ClosingTyped DEF Typed
<1> QED
  BY <1>2, <1>3, SameTyped DEF Typed, tables

LEMMA LeaveTyped == ASSUME Typed, NEW t \in Thread, NEW a \in Admin, Leave(t, a) PROVE Typed'
<1> USE DEF Leave
<1>1. PICK todo \in Opened(a) : Closes(t, todo, a)
  OBVIOUS
<1>2. TaskTyped'
  BY <1>1, OpenedTyped, ClosesTyped
<1>3. RestTyped'
  BY ClosingTyped DEF Typed
<1> QED
  BY <1>2, <1>3, SameTyped DEF Typed, tables

LEMMA CloseFdTyped == ASSUME Typed, NEW t \in Thread, CloseFd(t) PROVE Typed'
<1> USE DEF CloseFd
<1>1. TablesTyped' /\ RelayTyped'
  BY SameTyped DEF Typed, tables
<1>2. task[t].todo # <<>> /\ Head(task[t].todo).obj \in Object
  BY TodoHead DEF At, Typed, TaskTyped
<1>3. PortsTyped'
  BY <1>2, ZenonT(30) DEF Typed, PortsTyped, Conn
<1>4. TaskTyped'
  BY <1>2, ZenonT(40) DEF Typed, TaskTyped, Task
<1>5. RestTyped'
  BY DEF Typed, RestTyped, Unless
<1> QED
  BY <1>1, <1>3, <1>4, <1>5 DEF Typed

LEMMA FreeConnectionTyped == ASSUME Typed, NEW t \in Thread, FreeConnection(t) PROVE Typed'
<1> USE DEF FreeConnection
<1>1. TablesTyped' /\ RelayTyped'
  BY SameTyped DEF Typed, tables
<1>2. task[t].todo # <<>> /\ Head(task[t].todo).obj \in Object
  BY TodoHead DEF At, Typed, TaskTyped
<1>3. PortsTyped'
  <2> DEFINE o == Head(task[t].todo).obj
             p == conn[o].port
  <2>1. /\ workconn' = [q \in Port |-> IF q = p THEN 0 ELSE workconn[q]]
        /\ free' = Append(free, o) /\ UNCHANGED conn
    OBVIOUS
  <2> HIDE DEF FreeConnection, p
  <2>2. workconn' \in [Port -> 0 .. Objects]
    <3> DEFINE S == 0 .. Objects
    <3>1. 0 \in S /\ workconn \in [Port -> S]
      BY NumberAssumption DEF Typed, PortsTyped
    <3> HIDE DEF S
    <3>2. workconn' \in [Port -> S]
      BY <2>1, <3>1
    <3> QED
      BY <3>2 DEF S
  <2>3. free' \in Seq(Object)
    BY <1>2, <2>1 DEF Typed, PortsTyped
  <2> QED
    BY <2>1, <2>2, <2>3 DEF Typed, PortsTyped
<1>4. TaskTyped'
  BY <1>2, ReleasedTyped
<1>5. RestTyped'
  BY DEF Typed, RestTyped, Unless
<1> QED
  BY <1>1, <1>3, <1>4, <1>5 DEF Typed

LEMMA ForgetTyped == ASSUME Typed, NEW t \in Thread, Forget(t) PROVE Typed'
<1> DEFINE o == workconn["fwd"]
           a == task[t].admin
<1>1. CASE Crash("no forward port")
  BY <1>1, CrashTyped
<1>2. CASE ~ Crash("no forward port")
  <2>1. /\ o # 0
        /\ task' = [task EXCEPT ![t] = IF ~ HasAddr(o, a) THEN Idle
                      ELSE [@ EXCEPT !.pc = "delete", !.todo = <<Pointer(o)>>]]
        /\ UNCHANGED <<ports, tables, made, relay, fault, count, sound>>
    BY <1>2 DEF Forget
  <2>2. o \in Object
    BY <2>1, NumberAssumption DEF Typed, PortsTyped, Object, Port
  <2>3. <<Pointer(o)>> \in Seq(Ptr) /\ <<Pointer(o)>> # <<>>
    BY <2>2, PointerTyped
  <2>4. task[t].admin \in Admin /\ task[t] \in Task
    BY DEF Forget, At, Typed, TaskTyped
  <2>5. [task[t] EXCEPT !.pc = "delete", !.todo = <<Pointer(o)>>] \in Task
    BY <2>3, <2>4 DEF Task
  <2>6. Idle \in Task /\ Idle.pc = "idle"
    BY DEF Task, Idle
  <2>7. TaskTyped'
    BY <2>1, <2>3, <2>4, <2>5, <2>6 DEF Typed, TaskTyped, Task
  <2>8. RestTyped'
    BY <2>1 DEF Typed, RestTyped
  <2> QED
    BY <2>1, <2>7, <2>8, SameTyped DEF Typed, tables
<1> QED
  BY <1>1, <1>2

\* A step that ends a task.
LEMMA IdleTyped == ASSUME Typed, NEW t \in Thread, task' = [task EXCEPT ![t] = Idle] PROVE TaskTyped'
BY DEF Typed, TaskTyped, Task, Idle

LEMMA DeleteTyped == ASSUME Typed, NEW t \in Thread, Delete(t) PROVE Typed'
<1> DEFINE o == Head(task[t].todo).obj
           a == task[t].admin
           r == csinfo[o][a]
<1>1. CASE Crash("null registration")
  BY <1>1, CrashTyped
<1>2. CASE ~ Crash("null registration")
  <2>1. /\ r # 0
        /\ auxinfo' = [auxinfo EXCEPT ![o][reg[r].id] = "none"]
        /\ made' = made \ {<<o, reg[r].id>>}
        /\ csinfo' = [csinfo EXCEPT ![o][a] = 0]
        /\ reg' = [reg EXCEPT ![r].timed = "zero"]
        /\ task' = [task EXCEPT ![t] = Idle]
        /\ UNCHANGED <<ports, checkQ, heartQ, relay, fault, count, sound>>
    BY <1>2 DEF Delete
  <2>2. reg \in Seq(Reg) /\ Len(reg) \in Nat
    BY DEF Typed, TablesTyped
  <2>7. o \in Object /\ a \in Addr
    BY TodoHead DEF Delete, At, Typed, TaskTyped, Addr
  <2>8. r \in 0 .. Len(reg)
    BY <2>7 DEF Typed, TablesTyped
  <2> HIDE DEF o, a, r
  <2>3. reg' \in Seq(Reg) /\ Len(reg') = Len(reg) /\ DOMAIN reg' = DOMAIN reg
    <3>1. r \in 1 .. Len(reg)
      BY <2>1, <2>2, <2>8
    <3>2. "zero" \in Time
      BY DEF Time
    <3>3. reg' = [reg EXCEPT ![r].timed = "zero"]
      BY <2>1
    <3> QED
      BY <2>2, <3>1, <3>2, <3>3, Retimed DEF TimedAs
  <2>4. TablesTyped'
    <3>1. csinfo' \in [Object -> [Addr -> 0 .. Len(reg)]]
      <4> DEFINE S == 0 .. Len(reg)
      <4>1. csinfo \in [Object -> [Addr -> S]] /\ 0 \in S /\ csinfo' = [csinfo EXCEPT ![o][a] = 0]
        BY <2>1, <2>2 DEF Typed, TablesTyped
      <4> HIDE DEF S
      <4>2. csinfo' \in [Object -> [Addr -> S]]
        BY <4>1, <2>7
      <4> QED
        BY <4>2 DEF S
    <3>2. auxinfo' \in [Object -> [Id -> Addr \cup {"none"}]]
      BY <2>1 DEF Typed, TablesTyped
    <3> QED
      BY <2>1, <2>3, <3>1, <3>2 DEF Typed, TablesTyped
  <2>5. RelayTyped'
    BY <2>1, <2>3, RelayKept DEF Typed, relay, RelayTyped
  <2>6. RestTyped'
    BY <2>1 DEF Typed, RestTyped
  <2> QED
    BY <2>1, <2>4, <2>5, <2>6, IdleTyped, SameTyped DEF Typed
<1> QED
  BY <1>1, <1>2

LEMMA EpollWaitTyped == ASSUME Typed, NEW o \in Object, EpollWait(o) PROVE Typed'
<1>1. <<Pointer(o)>> \in Seq(Ptr) /\ <<Pointer(o)>> # <<>>
  BY PointerTyped
<1> DEFINE x == [pc |-> "handle", todo |-> <<Pointer(o)>>, port |-> conn[o].port, admin |-> "none"]
<1>2. TaskTyped'
  <2>1. conn[o].port \in Port \cup {"none"}
    BY DEF Typed, PortsTyped, Conn
  <2>2. x \in Task /\ x.pc = "handle" /\ x.todo # <<>>
    BY <1>1, <2>1 DEF Task
  <2>3. task' = [task EXCEPT !["udp"] = x]
    BY DEF EpollWait
  <2> HIDE DEF x
  <2> QED
    BY <2>2, <2>3 DEF Typed, TaskTyped
<1>3. RestTyped'
  BY DEF EpollWait, Typed, RestTyped
<1> QED
  BY <1>2, <1>3, SameTyped DEF Typed, tables, EpollWait

LEMMA ReadEndsTyped == ASSUME Typed, NEW o \in Object, ReadEnds(o) PROVE Typed'
<1>1. task["udp"].todo \in Seq(Ptr) /\ "udp" \in Thread
  BY DEF Typed, TaskTyped, Task, Thread
<1>2. TaskTyped'
  BY <1>1, ClosesTyped DEF ReadEnds
<1>3. RestTyped'
  BY ClosingTyped DEF ReadEnds, Typed, RestTyped
<1> QED
  BY <1>2, <1>3, SameTyped DEF Typed, tables, ReadEnds

LEMMA ReadRetriedTyped == ASSUME Typed, NEW o \in Object, ReadRetried(o) PROVE Typed'
<1>1. TaskTyped'
  BY IdleTyped DEF ReadRetried, Thread
<1>2. RestTyped'
  BY DEF ReadRetried, Typed, RestTyped
<1> QED
  BY <1>1, <1>2, SameTyped DEF Typed, tables, ReadRetried

\* A package is one of the client's.
LEMMA PackagedTyped ==
  ASSUME Typed, NEW o \in Object, NEW c \in Client, NEW id \in Id
  PROVE  Packaged(o, c, id) \in Package
<1>1. conn[o] \in Conn
  BY DEF Typed, PortsTyped
<1> QED
  BY <1>1 DEF Packaged, Package, Conn

LEMMA QueuedTyped ==
  ASSUME NEW q \in SUBSET Package, NEW m \in Package PROVE Queued(q, m) \in SUBSET Package
BY DEF Queued

\* What UserRequest does when the process survives: the client's registration
\* is renewed or made, and used.
Renews(o, c) ==
  /\ csinfo[o][c] # 0
  /\ reg' = [reg EXCEPT ![csinfo[o][c]].timed = "fresh"]
  /\ UNCHANGED <<csinfo, auxinfo, made, conn, checkQ, sound>>

Makes(o, c) == csinfo[o][c] = 0 /\ Register(o, c) /\ checkQ' = checkQ \cup {Len(reg')}

Requests(o, c) ==
  /\ Handles(o, FALSE) /\ conn[o].bound # "none"
  /\ Renews(o, c) \/ Makes(o, c)
  /\ packages' = Queued(packages, Packaged(o, c, reg'[csinfo'[o][c]].id))
  /\ task' = [task EXCEPT !["udp"] = Idle]
  /\ UNCHANGED <<free, workconn, heartQ, sender, forwarding, told, answers, astray, fault, count>>

LEMMA UserRequestSplit ==
  ASSUME NEW o \in Object, NEW c \in Client, UserRequest(o, c)
  PROVE  Crash("null registration") \/ Crash("deleted registration") \/ Requests(o, c)
BY DEF UserRequest, Requests, Renews, Makes

LEMMA RenewsTyped ==
  ASSUME Typed, NEW o \in Object, NEW x \in Addr, csinfo[o][x] # 0,
         reg' = [reg EXCEPT ![csinfo[o][x]].timed = "fresh"],
         UNCHANGED <<csinfo, auxinfo, checkQ>>, heartQ' = heartQ
  PROVE  /\ TablesTyped' /\ DOMAIN reg' = DOMAIN reg /\ csinfo[o][x] \in DOMAIN reg
         /\ TimedAs(reg', reg, csinfo[o][x], "fresh")
<1> DEFINE r == csinfo[o][x]
<1>1. reg \in Seq(Reg) /\ Len(reg) \in Nat /\ r \in 0 .. Len(reg)
  BY DEF Typed, TablesTyped
<1>2. r \in 1 .. Len(reg) /\ "fresh" \in Time
  BY <1>1 DEF Time
<1>3. reg' = [reg EXCEPT ![r].timed = "fresh"]
  OBVIOUS
<1> HIDE DEF r
<1>4. reg' \in Seq(Reg) /\ TimedAs(reg', reg, r, "fresh")
  BY <1>1, <1>2, <1>3, Retimed
<1>7. Len(reg') = Len(reg) /\ DOMAIN reg' = DOMAIN reg
  BY <1>4 DEF TimedAs
<1>5. TablesTyped'
  BY <1>4, <1>7 DEF Typed, TablesTyped
<1>6. r \in DOMAIN reg
  BY <1>1, <1>2
<1> QED
  BY <1>4, <1>5, <1>6, <1>7 DEF r

LEMMA RequestsTyped == ASSUME Typed, NEW o \in Object, NEW c \in Client, Requests(o, c) PROVE Typed'
<1>1. c \in Addr
  BY DEF Addr
<1>2. /\ PortsTyped' /\ TablesTyped' /\ DOMAIN reg \subseteq DOMAIN reg' /\ sound' \in BOOLEAN
      /\ csinfo'[o][c] \in DOMAIN reg' /\ made' \subseteq Object \X (Addr \cup Id)
  <2>1. CASE Renews(o, c)
    <3>1. UNCHANGED <<heartQ, free, workconn, conn, sound, made>>
      BY <2>1 DEF Requests, Renews
    <3>2. TablesTyped' /\ DOMAIN reg' = DOMAIN reg /\ csinfo[o][c] \in DOMAIN reg /\ csinfo' = csinfo
      BY <1>1, <2>1, <3>1, RenewsTyped DEF Renews
    <3> QED
      BY <3>1, <3>2 DEF Typed, PortsTyped, RestTyped
  <2>2. CASE Makes(o, c)
    <3>1. UNCHANGED <<heartQ, free, workconn>> /\ checkQ' = checkQ \cup {Len(reg')}
      BY <2>2 DEF Requests, Makes
    <3>2. Register(o, c)
      BY <2>2 DEF Makes
    <3>3. /\ conn' \in [Object -> Conn]
          /\ csinfo' \in [Object -> [Addr -> 0 .. Len(reg')]]
          /\ auxinfo' \in [Object -> [Id -> Addr \cup {"none"}]]
          /\ reg' \in Seq(Reg) /\ DOMAIN reg \subseteq DOMAIN reg' /\ Len(reg') \in DOMAIN reg'
          /\ csinfo'[o][c] = Len(reg') /\ sound' \in BOOLEAN
          /\ made' \subseteq Object \X (Addr \cup Id)
      BY <1>1, <3>2, RegisterTyped
    <3> QED
      BY <3>1, <3>3 DEF Typed, PortsTyped, TablesTyped
  <2> QED
    BY <2>1, <2>2 DEF Requests
<1>3. (packages \cup told \cup answers)' \subseteq Package
  <2>1. reg'[csinfo'[o][c]].id \in Id
    <3>1. reg'[csinfo'[o][c]] \in Reg
      BY <1>2 DEF TablesTyped
    <3> QED
      BY <3>1 DEF Reg
  <2> DEFINE m == Packaged(o, c, reg'[csinfo'[o][c]].id)
  <2>2. m \in Package /\ packages' = Queued(packages, m) /\ UNCHANGED <<told, answers>>
    BY <2>1, PackagedTyped DEF Requests
  <2> HIDE DEF m
  <2>3. packages \cup told \cup answers \subseteq Package
    BY DEF Typed, RelayTyped
  <2>4. packages' \subseteq Package
    BY <2>2, <2>3, QueuedTyped
  <2> QED
    BY <2>2, <2>3, <2>4
<1>4. RelayTyped'
  BY <1>2, <1>3, RelayKept DEF Typed, Requests
<1>5. TaskTyped'
  BY IdleTyped DEF Requests, Thread
<1>6. RestTyped'
  BY <1>2 DEF Typed, RestTyped, Requests
<1> QED
  BY <1>2, <1>4, <1>5, <1>6 DEF Typed

LEMMA ForwardRegistersTyped ==
  ASSUME Typed, NEW o \in Object, NEW a \in Admin, ForwardRegisters(o, a) PROVE Typed'
<1>1. a \in Addr
  BY DEF Addr
<1>2. /\ Register(o, a) /\ UNCHANGED <<checkQ, free, workconn, relay, fault, count>>
      /\ heartQ' = heartQ \cup {Len(reg')} /\ task' = [task EXCEPT !["udp"] = Idle]
  BY DEF ForwardRegisters
<1>3. /\ PortsTyped' /\ TablesTyped' /\ DOMAIN reg \subseteq DOMAIN reg' /\ sound' \in BOOLEAN
      /\ made' \subseteq Object \X (Addr \cup Id)
  BY <1>1, <1>2, RegisterTyped DEF Typed, PortsTyped, TablesTyped
<1>4. RelayTyped'
  BY <1>2, <1>3, RelayKept DEF Typed, relay, RelayTyped
<1>5. TaskTyped'
  BY <1>2, IdleTyped DEF Thread
<1>6. RestTyped'
  BY <1>2, <1>3 DEF Typed, RestTyped
<1> QED
  BY <1>3, <1>4, <1>5, <1>6 DEF Typed

\* What ForwardRequest does when the process survives.
Answers(o, a) ==
  /\ csinfo[o][a] # 0 /\ reg' = [reg EXCEPT ![csinfo[o][a]].timed = "fresh"]
  /\ answers' = answers \/ \E m \in told : answers' = Queued(answers, m)
  /\ task' = [task EXCEPT !["udp"] = Idle]
  /\ UNCHANGED <<ports, csinfo, auxinfo, made, checkQ, heartQ, sender, packages, forwarding, told,
                 astray, fault, count, sound>>

LEMMA ForwardRequestSplit ==
  ASSUME NEW o \in Object, NEW a \in Admin, ForwardRequest(o, a)
  PROVE  Crash("null registration") \/ Answers(o, a)
BY DEF ForwardRequest, Answers

LEMMA AnswersTyped ==
  ASSUME Typed, NEW o \in Object, NEW a \in Admin, Answers(o, a) PROVE Typed'
<1>1. a \in Addr
  BY DEF Addr
<1>2. /\ csinfo[o][a] # 0 /\ reg' = [reg EXCEPT ![csinfo[o][a]].timed = "fresh"]
      /\ task' = [task EXCEPT !["udp"] = Idle]
      /\ UNCHANGED <<ports, csinfo, auxinfo, made, checkQ, heartQ, sender, packages, forwarding, told,
                     astray, fault, count, sound>>
  BY DEF Answers
<1>3. TablesTyped' /\ DOMAIN reg' = DOMAIN reg
  BY <1>1, <1>2, RenewsTyped
<1>4. answers' \subseteq Package
  BY QueuedTyped DEF Answers, Typed, RelayTyped
<1>5. RelayTyped'
  BY <1>2, <1>3, <1>4, RelayKept DEF Typed, RelayTyped
<1>6. TaskTyped'
  BY <1>2, IdleTyped DEF Thread
<1>7. RestTyped'
  BY <1>2 DEF Typed, RestTyped
<1> QED
  BY <1>2, <1>3, <1>5, <1>6, <1>7, SameTyped DEF Typed

LEMMA ForwardTyped == ASSUME Typed, NEW m \in packages, Forward(m) PROVE Typed'
<1> DEFINE f == [pc |-> "port", msg |-> m, obj |-> 0, reg |-> 0]
<1>1. m \in Package /\ (packages \cup told \cup answers)' \subseteq Package
  BY DEF Forward, Typed, RelayTyped
<1>2. f \in Forwarded /\ f.pc = "port"
  BY <1>1, NumberAssumption DEF Forwarded
<1>3. forwarding' \subseteq {f}
  BY DEF Forward
<1> HIDE DEF f
<1>4. ForwardingTyped'
  BY <1>2, <1>3 DEF ForwardingTyped
<1>5. RelayTyped'
  BY <1>1, <1>4 DEF RelayTyped, SenderTyped, Typed, Forward, tables
<1>6. RestTyped'
  BY DEF Typed, RestTyped, Forward
<1> QED
  BY <1>5, <1>6, SameTyped DEF Typed, Forward

\* The next steps of the forwarding thread change only its package, what was
\* told, and what operator[] makes.
LEMMA ForwardsTyped ==
  ASSUME Typed, NEW f, NEW pc, NEW next, Forwards(f, pc, next), ForwardingTyped',
         told' \subseteq Package, made' \subseteq Object \X (Addr \cup Id)
  PROVE  Typed'
<1>1. RelayTyped'
  BY DEF RelayTyped, SenderTyped, Forwards, Typed, tables
<1>2. RestTyped'
  BY DEF Typed, RestTyped, Forwards
<1> QED
  BY <1>1, <1>2, SameTyped DEF Typed, Forwards

\* The package in the thread's hands.
LEMMA ForwardingAt ==
  ASSUME Typed, NEW f \in forwarding
  PROVE  /\ f \in Forwarded /\ f.msg \in Package
         /\ f.pc # "port" => f.obj \in Object
         /\ f.pc = "admin" => f.msg.admin \in Admin
         /\ f.pc = "send" => f.reg \in DOMAIN reg
BY DEF Typed, RelayTyped, ForwardingTyped, Forwarded

LEMMA ToldTyped == ASSUME Typed, UNCHANGED <<told, made>>
  PROVE told' \subseteq Package /\ made' \subseteq Object \X (Addr \cup Id)
BY DEF Typed, RelayTyped, RestTyped

LEMMA ForwardPortTyped == ASSUME Typed, NEW f \in forwarding, ForwardPort(f) PROVE Typed'
<1> DEFINE o == workconn["fwd"]
           n == [f EXCEPT !.pc = "find", !.obj = o]
<1>1. CASE Crash("null connection")
  BY <1>1, CrashTyped
<1>2. CASE ~ Crash("null connection")
  <2>1. o # 0 /\ Forwards(f, "port", {n}) /\ UNCHANGED <<made, told>>
    BY <1>2 DEF ForwardPort
  <2>2. o \in Object /\ o \in 0 .. Objects
    BY <2>1, NumberAssumption DEF Typed, PortsTyped, Object, Port
  <2>3. n \in Forwarded /\ n.pc = "find" /\ n.obj = o
    <3> HIDE DEF o
    <3> QED
      BY <2>2, ForwardingAt DEF Forwarded
  <2>4. forwarding' = {n}
    BY <2>1 DEF Forwards
  <2> HIDE DEF n
  <2>5. ForwardingTyped'
    BY <2>2, <2>3, <2>4 DEF ForwardingTyped
  <2> QED
    BY <2>1, <2>5, ForwardsTyped, ToldTyped
<1> QED
  BY <1>1, <1>2

LEMMA FindAdminTyped == ASSUME Typed, NEW f \in forwarding, FindAdmin(f) PROVE Typed'
<1> DEFINE n == [f EXCEPT !.pc = "admin"]
           his == f.msg.admin \in Admin /\ HasAddr(f.obj, f.msg.admin)
<1>1. Forwards(f, "find", IF his THEN {n} ELSE {}) /\ UNCHANGED <<made, told>> /\ f.pc = "find"
  BY DEF FindAdmin, Forwards
<1>2. n \in Forwarded /\ n.pc = "admin" /\ n.obj = f.obj /\ n.msg = f.msg
  BY ForwardingAt DEF Forwarded
<1>3. f.obj \in Object
  BY <1>1, ForwardingAt
<1>4. forwarding' = (IF his THEN {n} ELSE {}) /\ (his => f.msg.admin \in Admin)
  BY <1>1 DEF Forwards
<1> HIDE DEF n, his
<1>5. ForwardingTyped'
  BY <1>2, <1>3, <1>4 DEF ForwardingTyped
<1> QED
  BY <1>1, <1>5, ForwardsTyped, ToldTyped

LEMMA ForwardAdminTyped == ASSUME Typed, NEW f \in forwarding, ForwardAdmin(f) PROVE Typed'
<1> DEFINE x == f.msg.admin
           r == csinfo[f.obj][x]
           n == [f EXCEPT !.pc = "send", !.reg = r]
<1>1. /\ f.pc = "admin" /\ UNCHANGED told
      /\ \/ r # 0 /\ Forwards(f, "admin", {n}) /\ UNCHANGED made
         \/ Forwards(f, "admin", {}) /\ made' = made \cup {<<f.obj, x>>}
  BY DEF ForwardAdmin, Forwards
<1>2. f.obj \in Object /\ x \in Addr
  BY <1>1, ForwardingAt DEF Addr
<1>3. told' \subseteq Package /\ made' \subseteq Object \X (Addr \cup Id)
  <2>1. told \subseteq Package /\ made \subseteq Object \X (Addr \cup Id)
    BY DEF Typed, RelayTyped, RestTyped
  <2>2. UNCHANGED told /\ (made' = made \/ made' = made \cup {<<f.obj, x>>})
    BY <1>1
  <2> QED
    BY <1>2, <2>1, <2>2
<1>4. reg \in Seq(Reg) /\ Len(reg) \in Nat /\ r \in 0 .. Len(reg)
  BY <1>2 DEF Typed, TablesTyped
<1>5. CASE r # 0 /\ Forwards(f, "admin", {n}) /\ UNCHANGED made
  <2>1. reg' = reg /\ forwarding' = {n}
    BY <1>5 DEF Forwards, tables
  <2> HIDE DEF r
  <2>2. r \in Nat /\ r \in DOMAIN reg
    BY <1>4, <1>5
  <2>3. n \in Forwarded /\ n.pc = "send" /\ n.obj = f.obj /\ n.reg = r
    BY <2>2, ForwardingAt DEF Forwarded
  <2> HIDE DEF n
  <2>4. ForwardingTyped'
    BY <1>2, <2>1, <2>2, <2>3 DEF ForwardingTyped
  <2> QED
    BY <1>3, <1>5, <2>4, ForwardsTyped
<1>6. CASE Forwards(f, "admin", {})
  <2>1. ForwardingTyped'
    BY <1>6 DEF Forwards, ForwardingTyped
  <2> QED
    BY <1>3, <1>6, <2>1, ForwardsTyped
<1> QED
  BY <1>1, <1>5, <1>6

LEMMA ForwardToTyped == ASSUME Typed, NEW f \in forwarding, ForwardTo(f) PROVE Typed'
<1>1. CASE Crash("deleted registration")
  BY <1>1, CrashTyped
<1>2. CASE ~ Crash("deleted registration")
  <2>1. Forwards(f, "send", {}) /\ UNCHANGED made
    BY <1>2 DEF ForwardTo
  <2>2. PICK a \in Admin : Reaches(f.msg, a)
    BY <1>2 DEF ForwardTo
  <2>3. f.msg \in Package
    BY ForwardingAt
  <2>4. [f.msg EXCEPT !.admin = a] \in Package
    BY <2>3 DEF Package
  <2>5. told' \subseteq Package /\ made' \subseteq Object \X (Addr \cup Id)
    BY <2>1, <2>2, <2>4 DEF Reaches, Typed, RelayTyped, RestTyped
  <2>6. ForwardingTyped'
    BY <2>1 DEF Forwards, ForwardingTyped
  <2> QED
    BY <2>1, <2>5, <2>6, ForwardsTyped
<1> QED
  BY <1>1, <1>2

LEMMA TakeTyped == ASSUME Typed, NEW m \in answers, Take(m) PROVE Typed'
<1> DEFINE n == [sender EXCEPT !.pc = "port", !.msg = m]
<1>1. m \in Package /\ (packages \cup told \cup answers)' \subseteq Package
  BY DEF Take, Typed, RelayTyped
<1>2. SenderTyped'
  <2>1. CASE sender' = Asleep
    <3>1. Asleep \in Sender /\ Asleep.pc = "idle"
      BY NumberAssumption DEF Asleep, Sender, NoObject
    <3> QED
      BY <2>1, <3>1 DEF SenderTyped
  <2>2. CASE sender' = n
    <3>1. n \in Sender /\ n.pc = "port" /\ n.msg = m
      BY <1>1 DEF Typed, RelayTyped, SenderTyped, Sender
    <3> HIDE DEF n
    <3> QED
      BY <1>1, <2>2, <3>1 DEF SenderTyped
  <2> QED
    BY <2>1, <2>2 DEF Take
<1>3. RelayTyped'
  BY <1>1, <1>2 DEF RelayTyped, ForwardingTyped, Take, Typed, tables
<1>4. RestTyped'
  BY DEF Typed, RestTyped, Take
<1> QED
  BY <1>3, <1>4, SameTyped DEF Typed, Take

\* The next steps of the sender change only the sender, and what operator[] makes.
LEMMA LooksTyped ==
  ASSUME Typed, NEW pc, NEW next, Looks(pc, next), SenderTyped',
         made' \subseteq Object \X (Addr \cup Id)
  PROVE  Typed'
<1>1. RelayTyped'
  BY DEF RelayTyped, ForwardingTyped, Looks, Typed, tables
<1>2. RestTyped'
  BY DEF Typed, RestTyped, Looks
<1> QED
  BY <1>1, <1>2, SameTyped DEF Typed, Looks

LEMMA AsleepTyped == sender' = Asleep => SenderTyped'
<1>1. Asleep \in Sender /\ Asleep.pc = "idle"
  BY NumberAssumption DEF Asleep, Sender, NoObject
<1> QED
  BY <1>1 DEF SenderTyped

LEMMA MadeTyped == ASSUME Typed PROVE made \subseteq Object \X (Addr \cup Id)
BY DEF Typed, RestTyped

LEMMA TakePortTyped == Typed /\ TakePort => Typed'
<1> SUFFICES ASSUME Typed, TakePort PROVE Typed'
  OBVIOUS
<1> DEFINE o == Entry(sender.msg.port)
           n == [sender EXCEPT !.pc = "find id", !.obj = Pointer(o)]
<1>1. CASE Crash("null connection")
  BY <1>1, CrashTyped
<1>2. CASE ~ Crash("null connection")
  <2>1. o # 0 /\ Looks("port", n) /\ UNCHANGED made /\ sender.pc = "port"
    BY <1>2 DEF TakePort
  <2>2. o \in Object
    BY <2>1, NumberAssumption DEF Entry, Typed, PortsTyped, Object
  <2>3. Pointer(o) \in Ptr /\ Pointer(o).obj = o
    BY <2>2, PointerTyped DEF Pointer
  <2>4. Pointer(o) \in [obj : 0 .. Objects, gen : 0 .. MaxOpens]
    BY <2>3, NumberAssumption DEF Ptr, Object
  <2>5. sender \in Sender /\ sender.msg \in Package
    BY <2>1 DEF Typed, RelayTyped, SenderTyped
  <2>6. sender' = n
    BY <2>1 DEF Looks
  <2>7. n \in Sender /\ n.pc = "find id" /\ n.msg = sender.msg /\ n.obj = Pointer(o)
    <3> HIDE DEF o
    <3> QED
      BY <2>4, <2>5 DEF Sender
  <2> HIDE DEF n, o
  <2>8. SenderTyped'
    BY <2>2, <2>3, <2>5, <2>6, <2>7 DEF SenderTyped
  <2> QED
    BY <2>1, <2>8, LooksTyped, MadeTyped
<1> QED
  BY <1>1, <1>2

LEMMA FindIdTyped == Typed /\ FindId => Typed'
<1> SUFFICES ASSUME Typed, FindId PROVE Typed'
  OBVIOUS
<1>1. /\ Looks("find id", IF HasId(sender.obj.obj, sender.msg.id) THEN [sender EXCEPT !.pc = "id"] ELSE Asleep)
      /\ UNCHANGED <<made, reg>> /\ sender.pc = "find id"
      /\ sender' = Asleep \/ sender' = [sender EXCEPT !.pc = "id"]
  BY DEF FindId, Looks, tables
<1>2. SenderTyped'
  <2>1. CASE sender' = Asleep
    BY <2>1, AsleepTyped
  <2>2. CASE sender' = [sender EXCEPT !.pc = "id"]
    <3>1. /\ sender \in Sender /\ sender.msg \in Package /\ sender.obj.obj \in Object
          /\ reg' = reg
      BY <1>1 DEF Typed, RelayTyped, SenderTyped
    <3>2. /\ sender' \in Sender /\ sender'.pc = "id" /\ sender'.obj = sender.obj
          /\ sender'.msg = sender.msg
      BY <2>2, <3>1 DEF Sender
    <3> QED
      BY <3>1, <3>2 DEF SenderTyped
  <2> QED
    BY <1>1, <2>1, <2>2
<1> QED
  BY <1>1, <1>2, LooksTyped, MadeTyped

LEMMA FindAddrTyped == Typed /\ FindAddr => Typed'
<1> SUFFICES ASSUME Typed, FindAddr PROVE Typed'
  OBVIOUS
<1>1. /\ Looks("find addr", IF HasAddr(sender.obj.obj, sender.addr) THEN [sender EXCEPT !.pc = "addr"] ELSE Asleep)
      /\ UNCHANGED <<made, reg>> /\ sender.pc = "find addr"
      /\ sender' = Asleep \/ sender' = [sender EXCEPT !.pc = "addr"]
  BY DEF FindAddr, Looks, tables
<1>2. SenderTyped'
  <2>1. CASE sender' = Asleep
    BY <2>1, AsleepTyped
  <2>2. CASE sender' = [sender EXCEPT !.pc = "addr"]
    <3>1. /\ sender \in Sender /\ sender.msg \in Package /\ sender.obj.obj \in Object
          /\ reg' = reg /\ sender.addr \in Addr
      BY <1>1 DEF Typed, RelayTyped, SenderTyped
    <3>2. /\ sender' \in Sender /\ sender'.pc = "addr" /\ sender'.obj = sender.obj
          /\ sender'.msg = sender.msg /\ sender'.addr = sender.addr
      BY <2>2, <3>1 DEF Sender
    <3> QED
      BY <3>1, <3>2 DEF SenderTyped
  <2> QED
    BY <1>1, <2>1, <2>2
<1> QED
  BY <1>1, <1>2, LooksTyped, MadeTyped

LEMMA TakeIdTyped == Typed /\ TakeId => Typed'
<1> SUFFICES ASSUME Typed, TakeId PROVE Typed'
  OBVIOUS
<1> DEFINE o == sender.obj.obj
           i == sender.msg.id
           x == auxinfo[o][i]
<1>1. /\ sender.pc = "id"
      /\ \/ /\ Looks("id", [sender EXCEPT !.pc = "find addr", !.addr = x])
            /\ x # "none" /\ UNCHANGED made
         \/ Looks("id", Asleep) /\ made' = made \cup {<<o, i>>}
  BY DEF TakeId, Looks
<1>2. /\ sender \in Sender /\ o \in Object /\ sender.msg \in Package
      /\ auxinfo \in [Object -> [Id -> Addr \cup {"none"}]]
  BY <1>1 DEF Typed, RelayTyped, SenderTyped, TablesTyped
<1>3. i \in Id /\ x \in Addr \cup {"none"}
  BY <1>2 DEF Package
<1>4. CASE /\ Looks("id", [sender EXCEPT !.pc = "find addr", !.addr = x])
           /\ x # "none" /\ UNCHANGED made
  <2>1. sender' = [sender EXCEPT !.pc = "find addr", !.addr = x]
    BY <1>4 DEF Looks
  <2>2. SenderTyped'
    <3> HIDE DEF x
    <3> QED
      BY <1>2, <1>3, <1>4, <2>1 DEF SenderTyped, Sender
  <2> QED
    BY <1>4, <2>2, LooksTyped, MadeTyped
<1>5. CASE Looks("id", Asleep) /\ made' = made \cup {<<o, i>>}
  <2>1. SenderTyped'
    BY <1>5, AsleepTyped DEF Looks
  <2>2. made' \subseteq Object \X (Addr \cup Id)
    BY <1>2, <1>3, <1>5, MadeTyped
  <2> QED
    BY <1>5, <2>1, <2>2, LooksTyped
<1> QED
  BY <1>1, <1>4, <1>5

LEMMA TakeAddrTyped == Typed /\ TakeAddr => Typed'
<1> SUFFICES ASSUME Typed, TakeAddr PROVE Typed'
  OBVIOUS
<1> DEFINE o == sender.obj.obj
           r == csinfo[o][sender.addr]
<1>1. /\ sender.pc = "addr"
      /\ \/ /\ Looks("addr", [sender EXCEPT !.pc = "send", !.reg = r])
            /\ r # 0 /\ UNCHANGED made
         \/ Looks("addr", Asleep) /\ made' = made \cup {<<o, sender.addr>>}
  BY DEF TakeAddr, Looks
<1>2. /\ sender \in Sender /\ o \in Object /\ sender.addr \in Addr
      /\ sender.msg \in Package /\ reg \in Seq(Reg) /\ Len(reg) \in Nat
      /\ csinfo \in [Object -> [Addr -> 0 .. Len(reg)]] /\ UNCHANGED reg
  BY <1>1 DEF Typed, RelayTyped, SenderTyped, TablesTyped, Looks, tables
<1>3. r \in 0 .. Len(reg)
  BY <1>2
<1>4. CASE /\ Looks("addr", [sender EXCEPT !.pc = "send", !.reg = r])
           /\ r # 0 /\ UNCHANGED made
  <2>1. sender' = [sender EXCEPT !.pc = "send", !.reg = r]
    BY <1>4 DEF Looks
  <2>2. SenderTyped'
    <3> HIDE DEF r
    <3>1. r \in DOMAIN reg /\ r \in Nat
      BY <1>2, <1>3, <1>4
    <3> QED
      BY <1>2, <2>1, <3>1 DEF SenderTyped, Sender
  <2> QED
    BY <1>4, <2>2, LooksTyped, MadeTyped
<1>5. CASE Looks("addr", Asleep) /\ made' = made \cup {<<o, sender.addr>>}
  <2>1. SenderTyped'
    BY <1>5, AsleepTyped DEF Looks
  <2>2. made' \subseteq Object \X (Addr \cup Id)
    BY <1>2, <1>5, MadeTyped
  <2> QED
    BY <1>5, <2>1, <2>2, LooksTyped
<1> QED
  BY <1>1, <1>4, <1>5

LEMMA SendToTyped == Typed /\ SendTo => Typed'
<1> SUFFICES ASSUME Typed, SendTo PROVE Typed'
  OBVIOUS
<1>1. CASE Crash("deleted registration")
  BY <1>1, CrashTyped
<1>2. CASE ~ Crash("deleted registration")
  <2>1. /\ sender' = Asleep /\ UNCHANGED <<ports, tables, made, packages, forwarding, told, answers, task, fault, count, sound>>
    BY <1>2 DEF SendTo
  <2>2. astray' \subseteq {"found", "freed"}
    BY <1>2 DEF SendTo, Typed, RelayTyped
  <2>3. RelayTyped'
    BY <2>1, <2>2, AsleepTyped DEF RelayTyped, ForwardingTyped, Typed, tables
  <2>4. RestTyped'
    BY <2>1 DEF Typed, RestTyped
  <2> QED
    BY <2>1, <2>3, <2>4, SameTyped DEF Typed
<1> QED
  BY <1>1, <1>2

LEMMA GrowOldTyped == ASSUME Typed, NEW r \in DOMAIN reg, GrowOld(r)
  PROVE Typed' /\ TimedAs(reg', reg, r, "stale")
<1>1. reg \in Seq(Reg) /\ r \in 1 .. Len(reg) /\ "stale" \in Time
  BY DEF Typed, TablesTyped, Time
<1>2. /\ reg' = [reg EXCEPT ![r].timed = "stale"]
      /\ UNCHANGED <<ports, csinfo, auxinfo, made, checkQ, heartQ, relay, task, fault, count, sound>>
  BY DEF GrowOld
<1>3. reg' \in Seq(Reg) /\ TimedAs(reg', reg, r, "stale")
  BY <1>1, <1>2, Retimed
<1>4. Len(reg') = Len(reg) /\ DOMAIN reg' = DOMAIN reg
  BY <1>3 DEF TimedAs
<1>5. TablesTyped'
  BY <1>2, <1>3, <1>4 DEF Typed, TablesTyped
<1>6. RelayTyped'
  BY <1>2, <1>4, RelayKept DEF Typed, relay, RelayTyped
<1>7. RestTyped'
  BY <1>2 DEF Typed, RestTyped
<1> QED
  BY <1>2, <1>3, <1>5, <1>6, <1>7, SameTyped DEF Typed

\* n is s but for the registrations in d, which are deleted.
Buried(n, s, d) ==
  /\ Len(n) = Len(s) /\ DOMAIN n = DOMAIN s
  /\ \A i \in DOMAIN s : /\ n[i].addr = s[i].addr /\ n[i].port = s[i].port
                         /\ n[i].id = s[i].id /\ n[i].timed = s[i].timed
                         /\ n[i].live = (s[i].live /\ i \notin d)

LEMMA Buries ==
  ASSUME NEW s \in Seq(Reg), NEW d,
         NEW n, n = [i \in DOMAIN s |-> [s[i] EXCEPT !.live = @ /\ i \notin d]]
  PROVE  n \in Seq(Reg) /\ Buried(n, s, d)
<1>1. \A i \in DOMAIN s : s[i] \in Reg
  OBVIOUS
<1>2. \A i \in DOMAIN s : (s[i].live /\ i \notin d) \in BOOLEAN
  BY Zenon
<1>3. \A i \in DOMAIN s : [s[i] EXCEPT !.live = @ /\ i \notin d] \in Reg
  BY <1>1, <1>2 DEF Reg
<1>4. DOMAIN s = 1 .. Len(s) /\ Len(s) \in Nat
  OBVIOUS
<1>5. n \in [1 .. Len(s) -> Reg]
  BY <1>3, <1>4, Zenon
<1>6. n \in Seq(Reg) /\ Len(n) = Len(s)
  BY <1>4, <1>5, SeqDef
<1>7. \A i \in DOMAIN s :
        /\ n[i].addr = s[i].addr /\ n[i].port = s[i].port
        /\ n[i].id = s[i].id /\ n[i].timed = s[i].timed
        /\ n[i].live = (s[i].live /\ i \notin d)
  <2> TAKE i \in DOMAIN s
  <2> DEFINE x == [s[i] EXCEPT !.live = @ /\ i \notin d]
  <2>1. s[i] \in Reg /\ n[i] = x
    BY <1>1
  <2>2. /\ x.addr = s[i].addr /\ x.port = s[i].port /\ x.id = s[i].id /\ x.timed = s[i].timed
        /\ x.live = (s[i].live /\ i \notin d)
    BY <2>1, Zenon DEF Reg
  <2> HIDE DEF x
  <2> QED
    BY <2>1, <2>2
<1> QED
  BY <1>4, <1>5, <1>6, <1>7 DEF Buried

LEMMA Dead == ASSUME NEW d \in Reg PROVE [d EXCEPT !.live = FALSE].live = FALSE
BY Zenon DEF Reg

LEMMA Replaced ==
  ASSUME NEW s \in Seq(Reg), NEW r \in 1 .. Len(s), NEW x \in Reg, NEW n, n = [s EXCEPT ![r] = x]
  PROVE  /\ n \in Seq(Reg) /\ Len(n) = Len(s) /\ DOMAIN n = DOMAIN s
         /\ \A i \in DOMAIN s : n[i] = IF i = r THEN x ELSE s[i]
OBVIOUS

LEMMA BuriesOne ==
  ASSUME NEW s \in Seq(Reg), NEW r \in 1 .. Len(s), NEW n, n = [s EXCEPT ![r].live = FALSE]
  PROVE  n \in Seq(Reg) /\ Buried(n, s, {r})
<1> DEFINE x == [s[r] EXCEPT !.live = FALSE]
<1>1. s[r] \in Reg /\ FALSE \in BOOLEAN
  OBVIOUS
<1>2. x \in Reg
  BY <1>1 DEF Reg
<1>3. x.addr = s[r].addr /\ x.port = s[r].port /\ x.id = s[r].id /\ x.timed = s[r].timed
  BY <1>1 DEF Reg
<1>9. x.live = FALSE
  BY <1>1, Dead
<1>4. n = [s EXCEPT ![r] = x]
  OBVIOUS
<1> HIDE DEF x
<1>5. /\ n \in Seq(Reg) /\ Len(n) = Len(s) /\ DOMAIN n = DOMAIN s
      /\ \A i \in DOMAIN s : n[i] = IF i = r THEN x ELSE s[i]
  BY <1>2, <1>4, Replaced
<1>6. \A i \in DOMAIN s : n[i] = IF i = r THEN x ELSE s[i]
  BY <1>5
<1>7. \A i \in DOMAIN s :
        /\ n[i].addr = s[i].addr /\ n[i].port = s[i].port
        /\ n[i].id = s[i].id /\ n[i].timed = s[i].timed
  BY <1>3, <1>6
<1>8. \A i \in DOMAIN s : n[i].live = (s[i].live /\ i \notin {r})
  <2> TAKE i \in DOMAIN s
  <2>1. CASE i = r
    BY <1>6, <1>9, <2>1, Zenon
  <2>2. CASE i # r
    <3>1. n[i] = s[i]
      BY <1>6, <2>2
    <3>2. s[i] \in Reg
      OBVIOUS
    <3>3. s[i].live \in BOOLEAN
      BY <3>2 DEF Reg
    <3> QED
      BY <2>2, <3>1, <3>3, Zenon
  <2> QED
    BY <2>1, <2>2
<1> QED
  BY <1>5, <1>7, <1>8 DEF Buried

\* What Expire does when the process survives.
Deletes(r, o, x) ==
  /\ r \in checkQ /\ o \in Object /\ o = workconn[reg[r].port] /\ x = auxinfo[o][reg[r].id]
  /\ csinfo' = [csinfo EXCEPT ![o] = [y \in Addr |-> IF y = x THEN 0 ELSE @[y]]]
  /\ auxinfo' = [auxinfo EXCEPT ![o][reg[r].id] = "none"]
  /\ made' = made \ {<<o, x>>, <<o, reg[r].id>>}
  /\ reg' = [reg EXCEPT ![r].live = FALSE]
  /\ checkQ' = checkQ \ {r}
  /\ Unless(csinfo[o][reg[r].addr] # r)
  /\ UNCHANGED <<ports, heartQ, relay, task, fault, count>>

LEMMA ExpireSplit ==
  ASSUME Typed, NEW r \in DOMAIN reg, Expire(r)
  PROVE  Crash(Unfound(reg[r].port)) \/ \E o \in Object : \E x : Deletes(r, o, x)
<1> DEFINE o == Entry(reg[r].port)
<1>1. CASE o = 0
  BY <1>1 DEF Expire
<1>2. CASE o # 0
  <2>1. o \in Object /\ o = workconn[reg[r].port]
    BY <1>2, NumberAssumption DEF Entry, Typed, PortsTyped, Object
  <2>2. Deletes(r, o, auxinfo[o][reg[r].id])
    BY <1>2, <2>1, Zenon DEF Expire, Deletes
  <2> QED
    BY <2>1, <2>2
<1> QED
  BY <1>1, <1>2

LEMMA DeletesTyped ==
  ASSUME Typed, NEW r \in DOMAIN reg, NEW o \in Object, NEW x, Deletes(r, o, x)
  PROVE  Typed' /\ Buried(reg', reg, {r})
<1>1. /\ csinfo' = [csinfo EXCEPT ![o] = [y \in Addr |-> IF y = x THEN 0 ELSE @[y]]]
      /\ auxinfo' = [auxinfo EXCEPT ![o][reg[r].id] = "none"]
      /\ made' \subseteq made
      /\ reg' = [reg EXCEPT ![r].live = FALSE]
      /\ checkQ' = checkQ \ {r}
      /\ UNCHANGED <<ports, heartQ, relay, task, fault, count>>
  BY DEF Deletes
<1>2. reg \in Seq(Reg) /\ r \in 1 .. Len(reg) /\ Len(reg) \in Nat
  BY DEF Typed, TablesTyped
<1>3. reg' \in Seq(Reg) /\ Buried(reg', reg, {r})
  BY <1>1, <1>2, BuriesOne
<1>4. Len(reg') = Len(reg) /\ DOMAIN reg' = DOMAIN reg
  BY <1>3 DEF Buried
<1>5. TablesTyped'
  <2>1. csinfo' \in [Object -> [Addr -> 0 .. Len(reg)]]
    <3> DEFINE S == 0 .. Len(reg)
    <3>1. 0 \in S /\ csinfo \in [Object -> [Addr -> S]]
      BY <1>2 DEF Typed, TablesTyped
    <3> HIDE DEF S
    <3>2. [y \in Addr |-> IF y = x THEN 0 ELSE csinfo[o][y]] \in [Addr -> S]
      BY <3>1
    <3>3. csinfo' \in [Object -> [Addr -> S]]
      BY <1>1, <3>1, <3>2
    <3> QED
      BY <3>3 DEF S
  <2>2. auxinfo' \in [Object -> [Id -> Addr \cup {"none"}]]
    BY <1>1 DEF Typed, TablesTyped
  <2>3. checkQ' \subseteq DOMAIN reg /\ heartQ' \subseteq DOMAIN reg
    BY <1>1 DEF Typed, TablesTyped
  <2> QED
    BY <1>3, <1>4, <2>1, <2>2, <2>3 DEF TablesTyped
<1>6. RelayTyped'
  BY <1>1, <1>4, RelayKept DEF Typed, relay, RelayTyped
<1>7. RestTyped'
  BY <1>1 DEF Typed, RestTyped, Unless, Deletes
<1> QED
  BY <1>1, <1>3, <1>5, <1>6, <1>7, SameTyped DEF Typed

LEMMA ExpireTyped == ASSUME Typed, NEW r \in DOMAIN reg, Expire(r) PROVE Typed'
BY ExpireSplit, DeletesTyped, CrashTyped DEF Unfound

\* What Heartbeat does when the process survives.
Frees(dead) ==
  /\ dead = {r \in heartQ : reg[r].timed = "zero"}
  /\ heartQ' = heartQ \ dead
  /\ reg' = [r \in DOMAIN reg |-> [reg[r] EXCEPT !.live = @ /\ r \notin dead]]
  /\ UNCHANGED <<ports, csinfo, auxinfo, made, checkQ, relay, task, fault, count, sound>>

LEMMA HeartbeatSplit == Heartbeat => Crash("no forward port") \/ \E dead : Frees(dead)
BY DEF Heartbeat, Frees

LEMMA FreesTyped ==
  ASSUME Typed, NEW dead, Frees(dead)
  PROVE  Typed' /\ Buried(reg', reg, dead)
<1>1. /\ heartQ' = heartQ \ dead
      /\ reg' = [r \in DOMAIN reg |-> [reg[r] EXCEPT !.live = @ /\ r \notin dead]]
      /\ UNCHANGED <<ports, csinfo, auxinfo, made, checkQ, relay, task, fault, count, sound>>
  BY DEF Frees
<1>2. reg \in Seq(Reg)
  BY DEF Typed, TablesTyped
<1>3. reg' \in Seq(Reg) /\ Buried(reg', reg, dead)
  BY <1>1, <1>2, Buries
<1>4. Len(reg') = Len(reg) /\ DOMAIN reg' = DOMAIN reg
  BY <1>3 DEF Buried
<1>5. TablesTyped'
  BY <1>1, <1>3, <1>4 DEF Typed, TablesTyped
<1>6. RelayTyped'
  BY <1>1, <1>4, RelayKept DEF Typed, relay, RelayTyped
<1>7. RestTyped'
  BY <1>1 DEF Typed, RestTyped
<1> QED
  BY <1>1, <1>3, <1>5, <1>6, <1>7, SameTyped DEF Typed

LEMMA HeartbeatTyped == ASSUME Typed, Heartbeat PROVE Typed'
BY HeartbeatSplit, FreesTyped, CrashTyped

LEMMA StutterTyped == ASSUME Typed, UNCHANGED vars PROVE Typed'
<1>1. RestTyped'
  BY DEF Typed, RestTyped, vars
<1> QED
  BY <1>1, SameTyped DEF Typed, vars, tables

LEMMA StepTyped == Typed /\ [Next]_vars => Typed'
<1> SUFFICES ASSUME Typed, [Next]_vars PROVE Typed'
  OBVIOUS
<1>1. CASE PoolStep
  BY <1>1, EstablishTyped, CloseSocketTyped, LookedTyped, CloseAllTyped, NameTyped, PublishTyped DEF PoolStep
<1>2. ASSUME NEW t \in Thread, ShutdownStep(t) \/ \E a \in Admin : Leave(t, a) PROVE Typed'
  BY <1>2, CloseFdTyped, FreeConnectionTyped, ForgetTyped, DeleteTyped, LeaveTyped DEF ShutdownStep
<1>3. ASSUME NEW o \in Object, UdpStep(o) PROVE Typed'
  <2>1. ASSUME NEW c \in Client, UserRequest(o, c) PROVE Typed'
    BY <2>1, UserRequestSplit, RequestsTyped, CrashTyped
  <2> QED
    BY <1>3, <2>1, EpollWaitTyped, ReadEndsTyped, ReadRetriedTyped, ForwardRegistersTyped,
       ForwardRequestSplit, AnswersTyped, CrashTyped DEF UdpStep
<1>4. CASE ForwardStep
  BY <1>4, ForwardTyped, ForwardPortTyped, FindAdminTyped, ForwardAdminTyped, ForwardToTyped
    DEF ForwardStep
<1>5. CASE SenderStep
  BY <1>5, TakeTyped, TakePortTyped, FindIdTyped, TakeIdTyped, FindAddrTyped, TakeAddrTyped, SendToTyped
    DEF SenderStep
<1>6. ASSUME NEW r \in DOMAIN reg, GrowOld(r) \/ Expire(r) PROVE Typed'
  BY <1>6, GrowOldTyped, ExpireTyped
<1>7. CASE Heartbeat
  BY <1>7, HeartbeatTyped
<1>8. CASE UNCHANGED vars
  BY <1>8, StutterTyped
<1> QED
  BY <1>1, <1>2, <1>3, <1>4, <1>5, <1>6, <1>7, <1>8 DEF Next

\* Every variable of UdpRelay has its type, for every instance.
THEOREM TypeCorrect == Spec => []TypeOK
<1>1. Init => Typed
  BY InitTyped
<1>2. Typed /\ [Next]_vars => Typed'
  BY StepTyped
<1>3. Typed => TypeOK
  <2> SUFFICES ASSUME Typed PROVE TypeOK
    OBVIOUS
  <2>1. conn \in [Object -> Conn] /\ reg \in Seq(Reg)
    BY DEF Typed, PortsTyped, TablesTyped
  <2>2. \A t \in Thread :
         /\ task[t].pc \in {"idle", "name", "publish", "close", "free", "forget", "delete", "look",
                           "handle"}
         /\ task[t].pc \notin {"idle", "forget", "look"} => task[t].todo # <<>>
         /\ task[t].pc \in {"forget", "delete"} => task[t].admin \in Admin
    BY DEF Typed, TaskTyped, Task
  <2>3. /\ sender.pc \in {"idle", "port", "find id", "id", "find addr", "addr", "send"}
        /\ sender.pc \notin {"idle", "port"} => sender.obj.obj \in Object
        /\ sender.pc = "send" => sender.reg \in DOMAIN reg
    BY DEF Typed, RelayTyped, SenderTyped, Sender
  <2>4. \A f \in forwarding : /\ f.pc \in {"port", "find", "admin", "send"} /\ f.msg \in Package
                              /\ f.pc # "port" => f.obj \in Object
                              /\ f.pc = "send" => f.reg \in DOMAIN reg
    BY DEF Typed, RelayTyped, ForwardingTyped, Forwarded
  <2> QED
    BY <2>1, <2>2, <2>3, <2>4, Zenon
      DEF TypeOK, Typed, PortsTyped, TablesTyped, RelayTyped, RestTyped, Conn, Reg
<1> QED
  BY <1>1, <1>2, <1>3, PTL DEF Spec

-----------------------------------------------------------------------------
(* No registration leaks. *)

Leaks == NothingLeaks /\ Placed

\* What a registration changes in the tables.
Registered(o, x, id, n) ==
  /\ Len(reg) \in Nat /\ DOMAIN reg = 1 .. Len(reg)
  /\ n = Len(reg) + 1 /\ DOMAIN reg' = 1 .. n
  /\ \A i \in DOMAIN reg : reg'[i] = reg[i]
  /\ reg'[n].addr = x /\ reg'[n].id = id /\ reg'[n].timed = "fresh" /\ reg'[n].live
  /\ csinfo' = [csinfo EXCEPT ![o][x] = n]
  /\ auxinfo' = [auxinfo EXCEPT ![o][id] = x]
  /\ conn' = [conn EXCEPT ![o].msg_id = id + 1]
  /\ id \in Id /\ conn[o].msg_id \in Nat /\ sound' \in BOOLEAN
  /\ sound' => sound /\ conn[o].msg_id <= MaxId /\ id = conn[o].msg_id

LEMMA RegisterDoes ==
  ASSUME Typed, NEW o \in Object, NEW x \in Addr, Register(o, x)
  PROVE  \E id : Registered(o, x, id, Len(reg'))
<1> DEFINE id == IF conn[o].msg_id > MaxId THEN 0 ELSE conn[o].msg_id
           new == [addr |-> x, port |-> task["udp"].port, id |-> id, timed |-> "fresh", live |-> TRUE]
           over == conn[o].msg_id > MaxId \/ task["udp"].port # conn[o].bound
<1>1. /\ reg' = Append(reg, new)
      /\ auxinfo' = [auxinfo EXCEPT ![o][id] = x]
      /\ csinfo' = [csinfo EXCEPT ![o][x] = Len(reg')]
      /\ conn' = [conn EXCEPT ![o].msg_id = id + 1]
      /\ sound' = (sound /\ ~ over)
  BY DEF Register, Unless
<1>2. conn[o] \in Conn /\ MaxId \in Nat
  BY NumberAssumption DEF Typed, PortsTyped
<1>3. conn[o].msg_id \in 0 .. MaxId + 1
  BY <1>2 DEF Conn
<1>4. id \in Id /\ conn[o].msg_id \in Nat
  BY <1>2, <1>3 DEF Id
<1>5. sound' \in BOOLEAN /\ (sound' => sound /\ ~ over)
  BY <1>1, Zenon DEF Typed, RestTyped
<1>6. ~ over => conn[o].msg_id <= MaxId /\ id = conn[o].msg_id
  BY <1>2, <1>3
<1>7. new.addr = x /\ new.id = id /\ new.timed = "fresh"
  OBVIOUS
<1>8. new.live
  BY Zenon
<1>9. reg \in Seq(Reg) /\ Len(reg) \in Nat /\ DOMAIN reg = 1 .. Len(reg)
  BY DEF Typed, TablesTyped
<1> HIDE DEF id, new, over
<1>10. /\ Len(reg') = Len(reg) + 1 /\ DOMAIN reg' = 1 .. Len(reg')
       /\ \A i \in DOMAIN reg : reg'[i] = reg[i]
       /\ reg'[Len(reg')] = new
  <2>1. new \in Reg
    <3>1. task["udp"].port \in Port \cup {"none"}
      BY DEF Typed, TaskTyped, Task, Thread
    <3> QED
      BY <1>4, <3>1 DEF new, Reg
  <2> QED
    BY <1>1, <1>9, <2>1
<1>11. Registered(o, x, id, Len(reg'))
  BY <1>1, <1>4, <1>5, <1>6, <1>7, <1>8, <1>9, <1>10 DEF Registered
<1> QED
  BY <1>11

LEMMA InitLeaks == Init => Leaks
BY DEF Init, Leaks, NothingLeaks, Placed

LEMMA SameLeaks == Leaks /\ UNCHANGED <<reg, csinfo, checkQ, heartQ>> => Leaks'
BY DEF Leaks, NothingLeaks, Placed

\* A registration whose time is set, but not to zero.
LEMMA RenewedLeaks ==
  ASSUME Typed, Leaks, NEW r, NEW z \in {"fresh", "stale"}, TimedAs(reg', reg, r, z),
         UNCHANGED <<csinfo, checkQ, heartQ>>
  PROVE  Leaks'
<1>1. NothingLeaks'
  BY DEF Leaks, NothingLeaks, TimedAs
<1>2. Placed'
  <2>1. \A o \in Object, x \in Addr : csinfo[o][x] # 0 => csinfo[o][x] \in DOMAIN reg
    BY DEF Typed, TablesTyped
  <2>2. checkQ \subseteq DOMAIN reg /\ heartQ \subseteq DOMAIN reg
    BY DEF Typed, TablesTyped
  <2> QED
    BY <2>1, <2>2 DEF Leaks, Placed, TimedAs
<1> QED
  BY <1>1, <1>2 DEF Leaks

\* A new registration is in one queue.
LEMMA RegisteredLeaks ==
  ASSUME Typed, Leaks, NEW o \in Object, NEW x \in Addr, NEW id, NEW n, Registered(o, x, id, n),
         \/ x \in Client /\ checkQ' = checkQ \cup {n} /\ heartQ' = heartQ
         \/ x \in Admin /\ heartQ' = heartQ \cup {n} /\ checkQ' = checkQ
  PROVE  Leaks'
<1>1. /\ checkQ \subseteq 1 .. Len(reg) /\ heartQ \subseteq 1 .. Len(reg)
      /\ csinfo \in [Object -> [Addr -> 0 .. Len(reg)]]
  BY DEF Typed, TablesTyped, Registered
<1>2. /\ Len(reg) \in Nat /\ DOMAIN reg = 1 .. Len(reg)
      /\ n = Len(reg) + 1 /\ DOMAIN reg' = 1 .. n
      /\ \A i \in 1 .. Len(reg) : reg'[i] = reg[i]
      /\ reg'[n].addr = x /\ reg'[n].timed = "fresh" /\ reg'[n].live
  BY DEF Registered
<1>3. \A q \in Object, y \in Addr : csinfo'[q][y] = IF q = o /\ y = x THEN n ELSE csinfo[q][y]
  BY <1>1 DEF Registered
<1>4. \A r \in DOMAIN reg' : r = n \/ r \in DOMAIN reg
  BY <1>2
<1>5. NothingLeaks'
  <2> SUFFICES ASSUME NEW r \in DOMAIN reg'
               PROVE  /\ reg'[r].live <=> (r \in checkQ' \/ r \in heartQ')
                      /\ r \notin checkQ' \cap heartQ'
                      /\ reg'[r].timed = "zero" =>
                           r \notin checkQ' /\ \A q \in Object, y \in Addr : csinfo'[q][y] # r
    BY Zenon DEF NothingLeaks
  <2>1. CASE r = n
    BY <1>1, <1>2, <2>1
  <2>2. CASE r # n
    <3>1. r \in DOMAIN reg /\ reg'[r] = reg[r] /\ (r \in checkQ' <=> r \in checkQ)
          /\ (r \in heartQ' <=> r \in heartQ)
      BY <1>2, <1>4, <2>2
    <3>2. \A q \in Object, y \in Addr : csinfo[q][y] # r => csinfo'[q][y] # r
      BY <1>3, <2>2
    <3>3. /\ reg[r].live <=> (r \in checkQ \/ r \in heartQ)
          /\ r \notin checkQ \cap heartQ
          /\ reg[r].timed = "zero" =>
               r \notin checkQ /\ \A q \in Object, y \in Addr : csinfo[q][y] # r
      BY <3>1, Zenon DEF Leaks, NothingLeaks
    <3>4. reg'[r].live <=> (r \in checkQ' \/ r \in heartQ')
      BY <3>1, <3>3, Zenon
    <3>5. r \notin checkQ' \cap heartQ'
      BY <3>1, <3>3
    <3>6. reg'[r].timed = "zero" => r \notin checkQ' /\ \A q \in Object, y \in Addr : csinfo'[q][y] # r
      BY <3>1, <3>2, <3>3
    <3> QED
      BY <3>4, <3>5, <3>6
  <2> QED
    BY <2>1, <2>2
<1>6. Placed'
  <2>1. \A q \in Object, y \in Addr : csinfo'[q][y] # 0 => reg'[csinfo'[q][y]].addr = y
    <3> TAKE q \in Object, y \in Addr
    <3>1. csinfo[q][y] # 0 => csinfo[q][y] \in 1 .. Len(reg)
      BY <1>1, <1>2
    <3> QED
      BY <1>2, <1>3, <3>1 DEF Leaks, Placed
  <2>2. \A q, q2 \in Object, y \in Addr :
          csinfo'[q][y] # 0 /\ csinfo'[q][y] = csinfo'[q2][y] => q = q2
    <3>1. \A q \in Object, y \in Addr : csinfo[q][y] # n
      BY <1>1, <1>2
    <3> QED
      BY <1>3, <3>1 DEF Leaks, Placed
  <2>3. (\A r \in checkQ' : reg'[r].addr \in Client) /\ (\A r \in heartQ' : reg'[r].addr \in Admin)
    BY <1>1, <1>2 DEF Leaks, Placed
  <2> QED
    BY <2>1, <2>2, <2>3 DEF Placed
<1> QED
  BY <1>5, <1>6 DEF Leaks

\* What Delete does when the process survives.
Removes(t, o, a, r) ==
  /\ task[t].pc = "delete" /\ o = Head(task[t].todo).obj /\ a = task[t].admin
  /\ r = csinfo[o][a] /\ r # 0
  /\ auxinfo' = [auxinfo EXCEPT ![o][reg[r].id] = "none"]
  /\ made' = made \ {<<o, reg[r].id>>}
  /\ csinfo' = [csinfo EXCEPT ![o][a] = 0]
  /\ reg' = [reg EXCEPT ![r].timed = "zero"]
  /\ task' = [task EXCEPT ![t] = Idle]
  /\ UNCHANGED <<ports, checkQ, heartQ, relay, fault, count, sound>>

LEMMA DeleteSplit ==
  ASSUME Typed, NEW t \in Thread, Delete(t)
  PROVE  \/ Crash("null registration")
         \/ \E o \in Object, a \in Admin, r \in DOMAIN reg :
              Removes(t, o, a, r) /\ TimedAs(reg', reg, r, "zero")
<1> DEFINE o == Head(task[t].todo).obj
           a == task[t].admin
           r == csinfo[o][a]
<1>1. o \in Object /\ a \in Admin /\ a \in Addr
  BY TodoHead DEF Delete, At, Typed, TaskTyped, Addr
<1>2. CASE r # 0 /\ ~ Crash("null registration")
  <2>1. Removes(t, o, a, r)
    BY <1>2 DEF Delete, Removes, At
  <2>2. reg \in Seq(Reg) /\ Len(reg) \in Nat /\ r \in 0 .. Len(reg)
    BY <1>1 DEF Typed, TablesTyped
  <2>3. reg' = [reg EXCEPT ![r].timed = "zero"] /\ r # 0
    BY <2>1 DEF Removes
  <2> HIDE DEF r, o, a
  <2>4. r \in 1 .. Len(reg) /\ r \in DOMAIN reg /\ "zero" \in Time
    BY <2>2, <2>3 DEF Time
  <2>5. TimedAs(reg', reg, r, "zero")
    BY <2>2, <2>3, <2>4, Retimed
  <2> QED
    BY <1>1, <2>1, <2>4, <2>5
<1> QED
  BY <1>2 DEF Delete

LEMMA RemovesLeaks ==
  ASSUME Typed, Leaks, NEW t \in Thread, NEW o \in Object, NEW a \in Admin, NEW r \in DOMAIN reg,
         Removes(t, o, a, r), TimedAs(reg', reg, r, "zero")
  PROVE  Leaks'
<1>1. /\ r = csinfo[o][a] /\ r # 0 /\ UNCHANGED <<checkQ, heartQ>>
      /\ csinfo' = [csinfo EXCEPT ![o][a] = 0] /\ a \in Addr
  BY DEF Removes, Addr
<1>2. \A q \in Object, y \in Addr : csinfo'[q][y] = IF q = o /\ y = a THEN 0 ELSE csinfo[q][y]
  BY <1>1 DEF Typed, TablesTyped
<1>3. r \notin checkQ
  BY <1>1, NameAssumption DEF Leaks, Placed
<1>4. \A q \in Object, y \in Addr : csinfo'[q][y] # r
  BY <1>1, <1>2 DEF Leaks, Placed
<1>5. NothingLeaks'
  <2> SUFFICES ASSUME NEW i \in DOMAIN reg
               PROVE  /\ reg'[i].live <=> (i \in checkQ \/ i \in heartQ)
                      /\ i \notin checkQ \cap heartQ
                      /\ reg'[i].timed = "zero" =>
                           i \notin checkQ /\ \A q \in Object, y \in Addr : csinfo'[q][y] # i
    BY <1>1, Zenon DEF NothingLeaks, TimedAs
  <2>1. /\ reg[i].live <=> (i \in checkQ \/ i \in heartQ)
        /\ i \notin checkQ \cap heartQ
        /\ reg[i].timed = "zero" => i \notin checkQ /\ \A q \in Object, y \in Addr : csinfo[q][y] # i
    BY Zenon DEF Leaks, NothingLeaks
  <2>2. reg'[i].live = reg[i].live /\ reg'[i].timed = IF i = r THEN "zero" ELSE reg[i].timed
    BY DEF TimedAs
  <2>3. reg'[i].live <=> (i \in checkQ \/ i \in heartQ)
    BY <2>1, <2>2, Zenon
  <2>4. i \in DOMAIN reg => i # 0
    BY DEF Typed, TablesTyped
  <2>5. reg'[i].timed = "zero" => i \notin checkQ /\ \A q \in Object, y \in Addr : csinfo'[q][y] # i
    BY <1>2, <1>3, <1>4, <2>1, <2>2, <2>4
  <2> QED
    BY <2>1, <2>3, <2>5
<1>6. Placed'
  <2>1. \A q \in Object, y \in Addr : csinfo[q][y] # 0 => csinfo[q][y] \in DOMAIN reg
    BY DEF Typed, TablesTyped
  <2>2. checkQ \subseteq DOMAIN reg /\ heartQ \subseteq DOMAIN reg
    BY DEF Typed, TablesTyped
  <2> QED
    BY <1>1, <1>2, <2>1, <2>2 DEF Leaks, Placed, TimedAs
<1> QED
  BY <1>5, <1>6 DEF Leaks

\* Registrations that are deleted, with their places in a queue and perhaps in
\* tables.
LEMMA BuriedLeaks ==
  ASSUME Typed, Leaks, NEW dead, Buried(reg', reg, dead),
         \/ dead \subseteq checkQ /\ checkQ' = checkQ \ dead /\ heartQ' = heartQ
         \/ dead \subseteq heartQ /\ heartQ' = heartQ \ dead /\ checkQ' = checkQ,
         \A o \in Object, x \in Addr : csinfo'[o][x] \in {csinfo[o][x], 0}
  PROVE  Leaks'
<1>1. NothingLeaks'
  <2> SUFFICES ASSUME NEW i \in DOMAIN reg
               PROVE  /\ reg'[i].live <=> (i \in checkQ' \/ i \in heartQ')
                      /\ i \notin checkQ' \cap heartQ'
                      /\ reg'[i].timed = "zero" =>
                           i \notin checkQ' /\ \A q \in Object, y \in Addr : csinfo'[q][y] # i
    BY Zenon DEF NothingLeaks, Buried
  <2>1. /\ reg[i].live <=> (i \in checkQ \/ i \in heartQ)
        /\ i \notin checkQ \cap heartQ
        /\ reg[i].timed = "zero" => i \notin checkQ /\ \A q \in Object, y \in Addr : csinfo[q][y] # i
    BY Zenon DEF Leaks, NothingLeaks
  <2>2. reg'[i].live = (reg[i].live /\ i \notin dead)
    BY Zenon DEF Buried
  <2>3. reg'[i].timed = reg[i].timed
    BY DEF Buried
  <2>4. (i \in checkQ' \/ i \in heartQ') <=> (i \in checkQ \/ i \in heartQ) /\ i \notin dead
    BY <2>1
  <2>5. i # 0
    BY DEF Typed, TablesTyped
  <2>6. reg'[i].live <=> (i \in checkQ' \/ i \in heartQ')
    BY <2>1, <2>2, <2>4, Zenon
  <2>7. i \notin checkQ' \cap heartQ'
    BY <2>1
  <2>8. reg'[i].timed = "zero" => i \notin checkQ' /\ \A q \in Object, y \in Addr : csinfo'[q][y] # i
    BY <2>1, <2>3, <2>5
  <2> QED
    BY <2>6, <2>7, <2>8
<1>2. Placed'
  <2>1. \A q \in Object, y \in Addr : csinfo[q][y] # 0 => csinfo[q][y] \in DOMAIN reg
    BY DEF Typed, TablesTyped
  <2>2. checkQ \subseteq DOMAIN reg /\ heartQ \subseteq DOMAIN reg
    BY DEF Typed, TablesTyped
  <2>3. \A i \in DOMAIN reg : reg'[i].addr = reg[i].addr
    BY DEF Buried
  <2>4. \A q \in Object, y \in Addr : csinfo'[q][y] # 0 => csinfo'[q][y] = csinfo[q][y]
    OBVIOUS
  <2>5. /\ \A q \in Object, y \in Addr : csinfo'[q][y] # 0 => reg'[csinfo'[q][y]].addr = y
        /\ \A q, q2 \in Object, y \in Addr :
             csinfo'[q][y] # 0 /\ csinfo'[q][y] = csinfo'[q2][y] => q = q2
    BY <2>1, <2>3, <2>4 DEF Leaks, Placed
  <2>6. (\A r \in checkQ' : reg'[r].addr \in Client) /\ (\A r \in heartQ' : reg'[r].addr \in Admin)
    BY <2>2, <2>3 DEF Leaks, Placed
  <2> QED
    BY <2>5, <2>6 DEF Placed
<1> QED
  BY <1>1, <1>2 DEF Leaks

LEMMA DeletesLeaks ==
  ASSUME Typed, Leaks, NEW r \in DOMAIN reg, NEW o \in Object, NEW x, Deletes(r, o, x) PROVE Leaks'
<1>1. Buried(reg', reg, {r})
  BY DeletesTyped
<1>2. /\ csinfo' = [csinfo EXCEPT ![o] = [y \in Addr |-> IF y = x THEN 0 ELSE @[y]]]
      /\ {r} \subseteq checkQ /\ checkQ' = checkQ \ {r} /\ heartQ' = heartQ
  BY DEF Deletes
<1>3. \A q \in Object, y \in Addr : csinfo'[q][y] \in {csinfo[q][y], 0}
  BY <1>2 DEF Typed, TablesTyped
<1> QED
  BY <1>1, <1>2, <1>3, BuriedLeaks

LEMMA FreesLeaks == ASSUME Typed, Leaks, NEW dead, Frees(dead) PROVE Leaks'
<1>1. Buried(reg', reg, dead)
  BY FreesTyped
<1>2. dead \subseteq heartQ /\ heartQ' = heartQ \ dead /\ checkQ' = checkQ /\ csinfo' = csinfo
  BY DEF Frees
<1> QED
  BY <1>1, <1>2, BuriedLeaks

LEMMA RequestsLeaks ==
  ASSUME Typed, Leaks, NEW o \in Object, NEW c \in Client, Requests(o, c) PROVE Leaks'
<1>1. c \in Addr
  BY DEF Addr
<1>2. CASE Renews(o, c)
  <2>1. csinfo[o][c] # 0 /\ UNCHANGED <<csinfo, auxinfo, checkQ, heartQ>>
        /\ reg' = [reg EXCEPT ![csinfo[o][c]].timed = "fresh"]
    BY <1>2 DEF Renews, Requests
  <2> QED
    BY <1>1, <2>1, RenewsTyped, RenewedLeaks
<1>3. CASE Makes(o, c)
  <2>1. Register(o, c) /\ checkQ' = checkQ \cup {Len(reg')} /\ heartQ' = heartQ
    BY <1>3 DEF Makes, Requests
  <2> QED
    BY <1>1, <2>1, RegisterDoes, RegisteredLeaks
<1> QED
  BY <1>2, <1>3 DEF Requests

LEMMA ForwardRegistersLeaks ==
  ASSUME Typed, Leaks, NEW o \in Object, NEW a \in Admin, ForwardRegisters(o, a) PROVE Leaks'
<1>1. a \in Addr /\ Register(o, a) /\ heartQ' = heartQ \cup {Len(reg')} /\ checkQ' = checkQ
  BY DEF Addr, ForwardRegisters
<1> QED
  BY <1>1, RegisterDoes, RegisteredLeaks

LEMMA AnswersLeaks ==
  ASSUME Typed, Leaks, NEW o \in Object, NEW a \in Admin, Answers(o, a) PROVE Leaks'
<1>1. /\ a \in Addr /\ csinfo[o][a] # 0 /\ UNCHANGED <<csinfo, auxinfo, checkQ, heartQ>>
      /\ reg' = [reg EXCEPT ![csinfo[o][a]].timed = "fresh"]
  BY DEF Addr, Answers
<1> QED
  BY <1>1, RenewsTyped, RenewedLeaks

\* The other steps leave the tables alone.
LEMMA CalmStep ==
  ASSUME \/ PoolStep \/ UNCHANGED vars \/ SenderStep
         \/ \E t \in Thread : CloseFd(t) \/ FreeConnection(t) \/ Forget(t) \/ \E a \in Admin : Leave(t, a)
         \/ \E o \in Object : EpollWait(o) \/ ReadEnds(o) \/ ReadRetried(o)
         \/ ForwardStep
         \/ \E why : Crash(why)
  PROVE  UNCHANGED tables
<1>1. PoolStep => UNCHANGED tables
  BY DEF PoolStep, Establish, CloseSocket, Looked, CloseAll, Name, Publish, Crash, tables
<1>2. SenderStep => UNCHANGED tables
  BY DEF SenderStep, Take, TakePort, FindId, TakeId, FindAddr, TakeAddr, Looks, SendTo, Crash, tables
<1>3. \A t \in Thread : (\E a \in Admin : Leave(t, a)) => UNCHANGED tables
  BY DEF Leave, tables
<1>4. \A t \in Thread : CloseFd(t) \/ FreeConnection(t) \/ Forget(t) => UNCHANGED tables
  BY DEF CloseFd, FreeConnection, Forget, Crash, tables
<1>5. \A o \in Object : EpollWait(o) \/ ReadEnds(o) \/ ReadRetried(o) => UNCHANGED tables
  BY DEF EpollWait, ReadEnds, ReadRetried, tables
<1>6. ForwardStep => UNCHANGED tables
  BY DEF ForwardStep, Forward, ForwardPort, FindAdmin, ForwardAdmin, ForwardTo, Forwards, Crash, tables
<1>7. \A why : Crash(why) => UNCHANGED tables
  BY DEF Crash, tables
<1>8. UNCHANGED vars => UNCHANGED tables
  BY DEF vars, tables
<1> QED
  BY <1>1, <1>2, <1>3, <1>4, <1>5, <1>6, <1>7, <1>8, Zenon

LEMMA StepLeaks == Typed /\ Leaks /\ [Next]_vars => Leaks'
<1> SUFFICES ASSUME Typed, Leaks, [Next]_vars PROVE Leaks'
  OBVIOUS
<1>1. UNCHANGED tables => Leaks'
  BY SameLeaks DEF tables
<1>2. PoolStep \/ UNCHANGED vars \/ SenderStep => Leaks'
  BY <1>1, CalmStep
<1>3. ASSUME NEW t \in Thread, ShutdownStep(t) \/ \E a \in Admin : Leave(t, a) PROVE Leaks'
  <2>1. CASE Delete(t)
    BY <1>1, <2>1, CalmStep, DeleteSplit, RemovesLeaks
  <2> QED
    BY <1>1, <1>3, <2>1, CalmStep DEF ShutdownStep
<1>4. ASSUME NEW o \in Object, UdpStep(o) PROVE Leaks'
  <2>1. ASSUME NEW c \in Client, UserRequest(o, c) PROVE Leaks'
    BY <1>1, <2>1, CalmStep, UserRequestSplit, RequestsLeaks
  <2> QED
    BY <1>1, <1>4, <2>1, CalmStep, ForwardRegistersLeaks, ForwardRequestSplit, AnswersLeaks DEF UdpStep
<1>5. CASE ForwardStep
  BY <1>1, <1>5, CalmStep
<1>6. ASSUME NEW r \in DOMAIN reg, GrowOld(r) \/ Expire(r) PROVE Leaks'
  <2>1. CASE GrowOld(r)
    BY <2>1, GrowOldTyped, RenewedLeaks DEF GrowOld
  <2>2. CASE Expire(r)
    BY <1>1, <2>2, CalmStep, ExpireSplit, DeletesLeaks
  <2> QED
    BY <1>6, <2>1, <2>2
<1>7. CASE Heartbeat
  BY <1>1, <1>7, CalmStep, HeartbeatSplit, FreesLeaks
<1> QED
  BY <1>2, <1>3, <1>4, <1>5, <1>6, <1>7 DEF Next

\* Registrations are freed by the one thread whose queue they are in, whatever
\* the other threads do with the tables meanwhile.
THEOREM RegistrationsAccounted == Spec => []NothingLeaks
<1>1. Init => Typed /\ Leaks
  BY InitTyped, InitLeaks
<1>2. Typed /\ Leaks /\ [Next]_vars => (Typed /\ Leaks)'
  BY StepTyped, StepLeaks
<1>3. Typed /\ Leaks => NothingLeaks
  BY DEF Leaks
<1> QED
  BY <1>1, <1>2, <1>3, PTL DEF Spec
=============================================================================
